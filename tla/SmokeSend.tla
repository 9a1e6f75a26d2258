------------------------------- MODULE SmokeSend -------------------------------
(***************************************************************************)
(* The controlled first send: an operator creates a synthetic test record  *)
(* for the allowlisted inbox, approves it and sends its one e-mail, or     *)
(* records by hand a delivery the program lost track of.                   *)
(*                                                                         *)
(* Sources: src/domain/outreach/smoke-send.ts, the outreach-smoke commands *)
(* and repository.                                                         *)
(*                                                                         *)
(* A session reads, calls Gmail and writes in separate steps; other        *)
(* sessions, an opt-out, a new allowlist and the approval's expiry come in *)
(* between.  Stored messages are immutable, so the content hash always     *)
(* matches and is left out; a switch that is off or a sender that differs  *)
(* refuses before anything happens, so only enabled commands are steps.    *)
(***************************************************************************)
EXTENDS Integers, Sequences, FiniteSets

CONSTANTS
  Testers,                    \* sessions of the outreach-smoke commands
  Inboxes,                    \* values OUTREACH_SMOKE_TEST_RECIPIENT may have
  MaxTests, MaxTestCommands   \* bounds

ASSUME SmokeAssumption == {MaxTests, MaxTestCommands} \subseteq Nat

VARIABLES
  test,         \* outreach_records and their INITIAL message and follow-up
  outbox,       \* Gmail: the e-mails that went out, in order
  tester,       \* local state of each session
  allowed,      \* OUTREACH_SMOKE_TEST_RECIPIENT
  lapsed,       \* history: records whose delivery the program lost sight of
  testCommands  \* commands started so far

smokeVars == <<test, outbox, tester, allowed, lapsed, testCommands>>

Tests == 1..MaxTests

(* approval: of the INITIAL message; "none" while there is no message.
   attached: the e-mail its gmail_message_id names, 0 while it is unsent.
   followups: the rows of the tracking-only follow-up. *)
SmokeRecord ==
  [status : {"UNUSED", "DRAFT_READY", "AWAITING_APPROVAL", "APPROVED_TO_SEND", "INITIAL_SENT", "DO_NOT_CONTACT"},
   contact : Inboxes, dnc : BOOLEAN, approval : {"none", "missing", "fresh", "expired"},
   attached : Nat, followups : Nat]

SmokeSession ==
  [op : {"idle", "tracked", "written", "approving", "guarded", "drafted", "confirmed", "reconciling"},
   test : 0..MaxTests, mail : Nat]

SentTest == [test : Tests, to : Inboxes]

NotInUse == [op |-> "idle", test |-> 0, mail |-> 0]

SmokeInit ==
  /\ allowed \in Inboxes
  /\ test = [r \in Tests |-> [status |-> "UNUSED", contact |-> allowed, dnc |-> FALSE, approval |-> "none",
                              attached |-> 0, followups |-> 0]]
  /\ outbox = <<>> /\ tester = [t \in Testers |-> NotInUse]
  /\ lapsed = {} /\ testCommands = 0

begin(t, session) ==
  /\ tester[t] = NotInUse /\ testCommands < MaxTestCommands
  /\ testCommands' = testCommands + 1 /\ tester' = [tester EXCEPT ![t] = session]
continueAs(t, op) == tester' = [tester EXCEPT ![t].op = op] /\ UNCHANGED testCommands
end(t) == tester' = [tester EXCEPT ![t] = NotInUse] /\ UNCHANGED testCommands
testerAt(t, op) == tester[t].op = op

(***************************************************************************)
(* outreach-smoke-init: a new synthetic lead each time, so track never     *)
(* finds an active record of that lead                                     *)
(***************************************************************************)
trackTest(t, r) ==
  /\ test[r].status = "UNUSED" /\ \A q \in 1..(r - 1) : test[q].status # "UNUSED"
  /\ ~ \E q \in Tests : test[q].contact = allowed /\ test[q].dnc
  /\ begin(t, [op |-> "tracked", test |-> r, mail |-> 0])
  /\ test' = [test EXCEPT ![r].status = "DRAFT_READY", ![r].contact = allowed]
  /\ UNCHANGED <<outbox, allowed, lapsed>>

storeTestMessage(t) ==
  /\ testerAt(t, "tracked")
  /\ test' = [test EXCEPT ![tester[t].test].approval = "missing"]
  /\ continueAs(t, "written")
  /\ UNCHANGED <<outbox, allowed, lapsed>>

(* The transition throws when the record left DRAFT_READY meanwhile. *)
awaitApproval(t) ==
  LET r == tester[t].test IN
  /\ testerAt(t, "written")
  /\ test' = [test EXCEPT ![r].status = IF @ = "DRAFT_READY" THEN "AWAITING_APPROVAL" ELSE @]
  /\ end(t)
  /\ UNCHANGED <<outbox, allowed, lapsed>>

(***************************************************************************)
(* outreach-smoke-approve                                                  *)
(***************************************************************************)
(* The record, its INITIAL message and whether anything of it was sent. *)
load(r) ==
  [status |-> test[r].status, contact |-> test[r].contact, dnc |-> test[r].dnc, approval |-> test[r].approval,
   message |-> test[r].approval # "none", priorSuccessfulSend |-> test[r].attached # 0]

approveRead(t, r) ==
  /\ load(r).message /\ load(r).status = "AWAITING_APPROVAL"
  /\ begin(t, [op |-> "approving", test |-> r, mail |-> 0])
  /\ UNCHANGED <<test, outbox, allowed, lapsed>>

approveCommit(t) ==
  LET r == tester[t].test IN
  /\ testerAt(t, "approving")
  /\ test' = [test EXCEPT ![r].approval = "fresh", ![r].status = "APPROVED_TO_SEND"]
  /\ end(t)
  /\ UNCHANGED <<outbox, allowed, lapsed>>

(***************************************************************************)
(* outreach-smoke-send                                                     *)
(***************************************************************************)
(* Mutant: any record that was approved once may be sent. *)
evaluateSmokeSendGuards_Approved(c) ==
  /\ c.contact = allowed /\ ~ c.dnc
  /\ c.message /\ c.status \in {"APPROVED_TO_SEND", "INITIAL_SENT"}
  /\ c.approval = "fresh"

evaluateSmokeSendGuards(c) ==
  /\ c.contact = allowed /\ ~ c.dnc
  /\ c.message /\ c.status = "APPROVED_TO_SEND"
  /\ c.approval = "fresh"
  /\ ~ c.priorSuccessfulSend

(* The sends of the record under way. *)
sending(r) == {t \in Testers : tester[t].test = r /\ tester[t].op \in {"guarded", "drafted", "confirmed"}}

loadAndGuard(t, r) ==
  /\ evaluateSmokeSendGuards(load(r))
  /\ begin(t, [op |-> "guarded", test |-> r, mail |-> 0])
  /\ lapsed' = IF sending(r) = {} THEN lapsed ELSE lapsed \cup {r}
  /\ UNCHANGED <<test, outbox, allowed>>

(* verifyAccount and createDraft, either of which may fail. *)
createSmokeDraft(t) ==
  /\ testerAt(t, "guarded")
  /\ continueAs(t, "drafted") \/ end(t)
  /\ UNCHANGED <<test, outbox, allowed, lapsed>>

(* verifyDraftEnvelope has found the sender, recipient, subject and body that
   were approved. *)
goesOut(r) == outbox' = Append(outbox, [test |-> r, to |-> test[r].contact])

(* The draft is read back, compared with what was approved and dispatched.
   A mismatch and a definitive failure send nothing; an unknown outcome ends
   the command, whatever Gmail did. *)
dispatchDraft(t) ==
  LET r == tester[t].test IN
  /\ testerAt(t, "drafted")
  /\ \/ /\ goesOut(r) /\ UNCHANGED <<lapsed, testCommands>>
        /\ tester' = [tester EXCEPT ![t].op = "confirmed", ![t].mail = Len(outbox) + 1]
     \/ end(t) /\ UNCHANGED <<outbox, lapsed>>
     \/ goesOut(r) /\ end(t) /\ lapsed' = lapsed \cup {r}
  /\ UNCHANGED <<test, allowed>>

(* Mutant: the transaction does not look at the message again. *)
recordable_Always(r) == TRUE

(* The message is re-read inside the transaction; the record is not. *)
recordable(r) == test[r].attached = 0

recordSend(r, mail) ==
  test' = [test EXCEPT ![r].attached = mail, ![r].status = "INITIAL_SENT", ![r].followups = @ + 1]

(* OUTREACH_ALREADY_SENT, or a database that fails: PERSISTENCE_FAILED_AFTER_SEND. *)
persistSend(t) ==
  LET r == tester[t].test IN
  /\ testerAt(t, "confirmed")
  /\ \/ recordable(r) /\ recordSend(r, tester[t].mail) /\ UNCHANGED lapsed
     \/ lapsed' = lapsed \cup {r} /\ UNCHANGED test
  /\ end(t)
  /\ UNCHANGED <<outbox, allowed>>

(***************************************************************************)
(* outreach-smoke-reconcile, with the ids of an e-mail seen in Gmail       *)
(***************************************************************************)
reconcileTestRead(t, r, mail) ==
  /\ mail \in DOMAIN outbox /\ outbox[mail].test = r
  /\ ~ load(r).priorSuccessfulSend /\ load(r).status = "APPROVED_TO_SEND"
  /\ begin(t, [op |-> "reconciling", test |-> r, mail |-> mail])
  /\ UNCHANGED <<test, outbox, allowed, lapsed>>

reconcileTestCommit(t) ==
  LET r == tester[t].test IN
  /\ testerAt(t, "reconciling")
  /\ IF recordable(r) THEN recordSend(r, tester[t].mail) ELSE UNCHANGED test
  /\ end(t)
  /\ UNCHANGED <<outbox, allowed, lapsed>>

(***************************************************************************)
(* The world around the commands                                           *)
(***************************************************************************)
approvalExpires(r) ==
  /\ test[r].approval = "fresh"
  /\ test' = [test EXCEPT ![r].approval = "expired"]
  /\ UNCHANGED <<outbox, tester, allowed, lapsed, testCommands>>

(* OutreachService.transition to DO_NOT_CONTACT. *)
testOptsOut(r) ==
  /\ test[r].status \notin {"UNUSED", "DO_NOT_CONTACT"}
  /\ test' = [test EXCEPT ![r].status = "DO_NOT_CONTACT", ![r].dnc = TRUE]
  /\ UNCHANGED <<outbox, tester, allowed, lapsed, testCommands>>

(* A session goes by the value it read when it began. *)
allowlistChanges(i) ==
  /\ i # allowed
  /\ allowed' = i
  /\ UNCHANGED <<test, outbox, tester, lapsed, testCommands>>

testerDies(t) ==
  /\ tester[t] # NotInUse /\ end(t)
  /\ lapsed' = IF testerAt(t, "confirmed") THEN lapsed \cup {tester[t].test} ELSE lapsed
  /\ UNCHANGED <<test, outbox, allowed>>

SmokeNext ==
  \/ \E t \in Testers :
       \/ storeTestMessage(t) \/ awaitApproval(t) \/ approveCommit(t) \/ createSmokeDraft(t)
       \/ dispatchDraft(t) \/ persistSend(t) \/ reconcileTestCommit(t) \/ testerDies(t)
       \/ \E r \in Tests : \/ trackTest(t, r) \/ approveRead(t, r) \/ loadAndGuard(t, r)
                           \/ \E mail \in DOMAIN outbox : reconcileTestRead(t, r, mail)
  \/ \E r \in Tests : approvalExpires(r) \/ testOptsOut(r)
  \/ \E i \in Inboxes : allowlistChanges(i)

SmokeSpec == SmokeInit /\ [][SmokeNext]_smokeVars

(***************************************************************************)
(* Properties                                                              *)
(***************************************************************************)
SmokeTypeOK ==
  /\ test \in [Tests -> SmokeRecord]
  /\ outbox \in Seq(SentTest)
  /\ tester \in [Testers -> SmokeSession]
  /\ allowed \in Inboxes /\ lapsed \subseteq Tests /\ testCommands \in 0..MaxTestCommands

(* A second e-mail of one test goes out only after the program lost sight of
   the first: its outcome was unknown, its recording failed, the process
   died or two sends overlapped.  A send that ran to its end is never
   repeated. *)
TestedOnce ==
  \A i, j \in DOMAIN outbox : outbox[i].test = outbox[j].test /\ i # j => outbox[i].test \in lapsed

(* The recorded send is an e-mail of that very test to its own contact, and
   it arms one follow-up, however sends and reconciliations overlap. *)
RecordedTogether ==
  \A r \in Tests :
    LET mail == test[r].attached IN
    /\ test[r].followups = IF mail = 0 THEN 0 ELSE 1
    /\ test[r].status = "INITIAL_SENT" => mail # 0
    /\ mail # 0 => outbox[mail].test = r /\ outbox[mail].to = test[r].contact

(* The controlled test send keeps both promises. *)
SmokeSound == SmokeTypeOK /\ TestedOnce /\ RecordedTogether

(***************************************************************************)
(* The inductive invariant                                                 *)
(***************************************************************************)
(* What sessions, e-mails and records refer to was tracked, and an e-mail went
   to the contact of its test. *)
SmokeRowsExist ==
  /\ \A t \in Testers : tester[t].op # "idle" => tester[t].test \in Tests /\ test[tester[t].test].status # "UNUSED"
  /\ \A i \in DOMAIN outbox : LET r == outbox[i].test IN test[r].status # "UNUSED" /\ outbox[i].to = test[r].contact
  /\ \A t \in Testers : testerAt(t, "confirmed") \/ testerAt(t, "reconciling") =>
                          tester[t].mail \in DOMAIN outbox /\ outbox[tester[t].mail].test = tester[t].test
  /\ \A r \in Tests : test[r].attached # 0 => test[r].attached \in DOMAIN outbox /\ outbox[test[r].attached].test = r

wentOut(r) == \E i \in DOMAIN outbox : outbox[i].test = r

(* A test the program has in sight has one send under way at most, and an
   e-mail of it that went out is recorded or about to be. *)
InSight ==
  \A r \in Tests \ lapsed :
    /\ \A t, u \in sending(r) : t = u
    /\ wentOut(r) => \/ sending(r) = {} /\ test[r].attached # 0
                     \/ \E t \in sending(r) : testerAt(t, "confirmed")

SmokeInv == SmokeRowsExist /\ InSight /\ TestedOnce /\ RecordedTogether

=============================================================================
