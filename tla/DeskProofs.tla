------------------------------ MODULE DeskProofs ------------------------------
(***************************************************************************)
(* Theorems about two tools of the desk that share no state: the controlled *)
(* test send, and the findings and e-mails an operator approves.           *)
(***************************************************************************)
EXTENDS SmokeSend, OperatorFindings, TLAPS

(***************************************************************************)
(* The controlled test send                                                *)
(***************************************************************************)
(* A record of the session and one of the test, by their fields. *)
LEMMA SmokeFields ==
  ASSUME SmokeTypeOK
  PROVE  /\ \A r \in Tests :
              /\ test[r].status \in {"UNUSED", "DRAFT_READY", "AWAITING_APPROVAL", "APPROVED_TO_SEND",
                                     "INITIAL_SENT", "DO_NOT_CONTACT"}
              /\ test[r].contact \in Inboxes /\ test[r].dnc \in BOOLEAN
              /\ test[r].approval \in {"none", "missing", "fresh", "expired"}
              /\ test[r].attached \in Nat /\ test[r].followups \in Nat
         /\ \A t \in Testers : tester[t].test \in 0..MaxTests /\ tester[t].mail \in Nat
         /\ \A i \in DOMAIN outbox : outbox[i].test \in Tests /\ outbox[i].to \in Inboxes
         /\ DOMAIN outbox = 1..Len(outbox) /\ Len(outbox) \in Nat
<1>0. test \in [Tests -> SmokeRecord] /\ tester \in [Testers -> SmokeSession] /\ outbox \in Seq(SentTest)
  BY DEF SmokeTypeOK
<1>1. /\ \A r \in Tests : test[r] \in SmokeRecord
      /\ \A t \in Testers : tester[t] \in SmokeSession
  BY <1>0
<1>a. DOMAIN outbox = 1..Len(outbox) /\ Len(outbox) \in Nat
  BY <1>0
<1>b. ASSUME NEW i \in DOMAIN outbox PROVE outbox[i] \in SentTest
  BY <1>0
<1>2. /\ \A t \in Testers : tester[t].test \in 0..MaxTests /\ tester[t].mail \in Nat
      /\ \A i \in DOMAIN outbox : outbox[i].test \in Tests /\ outbox[i].to \in Inboxes
  BY <1>1, <1>b DEF SmokeSession, SentTest
<1>3. \A r \in Tests :
        /\ test[r].status \in {"UNUSED", "DRAFT_READY", "AWAITING_APPROVAL", "APPROVED_TO_SEND",
                               "INITIAL_SENT", "DO_NOT_CONTACT"}
        /\ test[r].contact \in Inboxes /\ test[r].dnc \in BOOLEAN
        /\ test[r].approval \in {"none", "missing", "fresh", "expired"}
        /\ test[r].attached \in Nat /\ test[r].followups \in Nat
  BY <1>1 DEF SmokeRecord
<1> QED BY <1>a, <1>2, <1>3

(* A step that neither sends nor records. *)
TestsKept ==
  /\ outbox' = outbox /\ lapsed \subseteq lapsed'
  /\ \A r \in Tests :
       /\ test'[r].attached = test[r].attached /\ test'[r].followups = test[r].followups
       /\ test[r].status # "UNUSED" => test'[r].status # "UNUSED" /\ test'[r].contact = test[r].contact
       /\ test'[r].status = "INITIAL_SENT" => test[r].status = "INITIAL_SENT"

(* A step of one session, or of none. *)
OthersWait(t) == \A u \in Testers \ {t} : tester'[u] = tester[u]

LEMMA QuietStep ==
  ASSUME SmokeTypeOK, SmokeInv, TestsKept
  PROVE  TestedOnce' /\ RecordedTogether'
<1> USE DEF TestsKept
<1>1. TestedOnce'
  BY DEF SmokeInv, TestedOnce
<1>2. RecordedTogether'
  <2> SUFFICES ASSUME NEW r \in Tests
               PROVE  /\ test'[r].followups = IF test'[r].attached = 0 THEN 0 ELSE 1
                      /\ test'[r].status = "INITIAL_SENT" => test'[r].attached # 0
                      /\ test'[r].attached # 0 => /\ outbox'[test'[r].attached].test = r
                                                  /\ outbox'[test'[r].attached].to = test'[r].contact
    BY DEF RecordedTogether
  <2>1. test[r].attached # 0 => test[r].status # "UNUSED"
    BY SmokeFields DEF SmokeInv, SmokeRowsExist
  <2> QED BY <2>1 DEF SmokeInv, RecordedTogether
<1> QED BY <1>1, <1>2

(* A session that neither sends nor records leaves every test in the program's
   sight where it was. *)
LEMMA OutOfTheWay ==
  ASSUME SmokeTypeOK, SmokeInv, TestsKept,
         NEW t, OthersWait(t),
         t \in Testers => tester[t].op \notin {"guarded", "drafted", "confirmed"}
                            /\ tester'[t].op \notin {"guarded", "drafted", "confirmed"}
  PROVE  InSight'
<1> USE DEF TestsKept, OthersWait
<1> SUFFICES ASSUME NEW r \in Tests, r \notin lapsed'
             PROVE  /\ \A u, w \in sending(r)' : u = w
                    /\ wentOut(r)' => \/ sending(r)' = {} /\ test'[r].attached # 0
                                      \/ \E u \in sending(r)' : testerAt(u, "confirmed")'
  BY DEF InSight
<1>1. sending(r)' = sending(r)
  BY DEF sending
<1>2. wentOut(r)' = wentOut(r)
  BY DEF wentOut
<1>3. \A u \in sending(r) : tester'[u] = tester[u]
  BY DEF sending
<1> QED BY <1>1, <1>2, <1>3 DEF SmokeInv, InSight, testerAt

(* A send that ends before its e-mail went out, or whose e-mail is lost sight of. *)
LEMMA SendEnds ==
  ASSUME SmokeTypeOK, SmokeInv, TestsKept,
         NEW t \in Testers, OthersWait(t), tester'[t] = NotInUse,
         testerAt(t, "confirmed") => tester[t].test \in lapsed'
  PROVE  InSight'
<1> USE DEF TestsKept, OthersWait
<1> SUFFICES ASSUME NEW r \in Tests, r \notin lapsed'
             PROVE  /\ \A u, w \in sending(r)' : u = w
                    /\ wentOut(r)' => \/ sending(r)' = {} /\ test'[r].attached # 0
                                      \/ \E u \in sending(r)' : testerAt(u, "confirmed")'
  BY DEF InSight
<1>1. sending(r)' = sending(r) \ {t}
  BY DEF sending, NotInUse
<1>2. wentOut(r)' = wentOut(r)
  BY DEF wentOut
<1>3. \A u \in sending(r) \ {t} : tester'[u] = tester[u]
  BY DEF sending
<1>4. t \in sending(r) => ~ testerAt(t, "confirmed")
  BY DEF sending
<1>5. /\ \A u, w \in sending(r) : u = w
      /\ wentOut(r) => \/ sending(r) = {} /\ test[r].attached # 0
                       \/ \E u \in sending(r) : testerAt(u, "confirmed")
  BY DEF SmokeInv, InSight
<1> QED BY <1>1, <1>2, <1>3, <1>4, <1>5 DEF testerAt

(* What a session holds afterwards was tracked, and is in Gmail if it says so. *)
LEMMA RowsKept ==
  ASSUME SmokeTypeOK, SmokeInv, TestsKept, NEW t, OthersWait(t),
         t \in Testers =>
           /\ tester'[t].op # "idle" => tester'[t].test \in Tests /\ test'[tester'[t].test].status # "UNUSED"
           /\ tester'[t].op \in {"confirmed", "reconciling"} =>
                tester'[t].mail \in DOMAIN outbox /\ outbox[tester'[t].mail].test = tester'[t].test
  PROVE  SmokeRowsExist'
<1> USE DEF TestsKept, OthersWait
<1>0. SmokeRowsExist
  BY DEF SmokeInv
<1>1. ASSUME NEW u \in Testers, tester'[u].op # "idle"
      PROVE  tester'[u].test \in Tests /\ test'[tester'[u].test].status # "UNUSED"
  BY <1>0, <1>1 DEF SmokeRowsExist
<1>2. ASSUME NEW i \in DOMAIN outbox
      PROVE  test'[outbox[i].test].status # "UNUSED" /\ outbox[i].to = test'[outbox[i].test].contact
  BY <1>0, SmokeFields DEF SmokeRowsExist
<1>3. ASSUME NEW u \in Testers, tester'[u].op \in {"confirmed", "reconciling"}
      PROVE  tester'[u].mail \in DOMAIN outbox /\ outbox[tester'[u].mail].test = tester'[u].test
  BY <1>0, <1>3 DEF SmokeRowsExist, testerAt
<1>4. \A r \in Tests : test'[r].attached # 0 => test'[r].attached \in DOMAIN outbox /\ outbox[test'[r].attached].test = r
  BY <1>0 DEF SmokeRowsExist
<1> QED BY <1>1, <1>2, <1>3, <1>4 DEF SmokeRowsExist, testerAt

(* A quiet step of a session that is not sending keeps the whole invariant. *)
LEMMA IdleStep ==
  ASSUME SmokeTypeOK, SmokeInv, TestsKept, NEW t \in Testers, OthersWait(t),
         tester[t].op \notin {"guarded", "drafted", "confirmed"},
         tester'[t].op \notin {"guarded", "drafted", "confirmed"},
         tester'[t].op # "idle" => tester'[t].test \in Tests /\ test'[tester'[t].test].status # "UNUSED",
         tester'[t].op = "reconciling" =>
           tester'[t].mail \in DOMAIN outbox /\ outbox[tester'[t].mail].test = tester'[t].test
  PROVE  SmokeInv'
<1>1. SmokeRowsExist'
  BY RowsKept
<1>2. InSight'
  BY OutOfTheWay
<1> QED BY <1>1, <1>2, QuietStep DEF SmokeInv

LEMMA EndingStep ==
  ASSUME SmokeTypeOK, SmokeInv, TestsKept, NEW t \in Testers, OthersWait(t), tester'[t] = NotInUse,
         testerAt(t, "confirmed") => tester[t].test \in lapsed'
  PROVE  SmokeInv'
<1>1. SmokeRowsExist'
  BY RowsKept DEF NotInUse
<1>2. InSight'
  BY SendEnds
<1> QED BY <1>1, <1>2, QuietStep DEF SmokeInv

(* What a session refers to. *)
LEMMA AtWork ==
  ASSUME SmokeTypeOK, SmokeInv, NEW t \in Testers, tester[t].op # "idle"
  PROVE  tester[t].test \in Tests /\ test[tester[t].test].status # "UNUSED"
BY DEF SmokeInv, SmokeRowsExist

LEMMA Ended ==
  ASSUME SmokeTypeOK, NEW t \in Testers, end(t)
  PROVE  OthersWait(t) /\ tester'[t] = NotInUse /\ tester' \in [Testers -> SmokeSession] /\ testCommands' = testCommands
<1>1. NotInUse \in SmokeSession
  BY SmokeAssumption DEF NotInUse, SmokeSession
<1> QED BY <1>1 DEF end, OthersWait, SmokeTypeOK

LEMMA Begun ==
  ASSUME SmokeTypeOK, NEW t \in Testers, NEW s \in SmokeSession, begin(t, s)
  PROVE  /\ OthersWait(t) /\ tester'[t] = s /\ tester[t].op = "idle"
         /\ tester' \in [Testers -> SmokeSession] /\ testCommands' \in 0..MaxTestCommands
<1>1. tester' \in [Testers -> SmokeSession] /\ tester'[t] = s /\ OthersWait(t)
  BY DEF begin, OthersWait, SmokeTypeOK
<1>2. testCommands' \in 0..MaxTestCommands
  BY SmokeAssumption DEF begin, SmokeTypeOK
<1> QED BY <1>1, <1>2 DEF begin, NotInUse

LEMMA Continued ==
  ASSUME SmokeTypeOK, NEW t \in Testers, NEW op \in {"tracked", "written", "drafted"}, continueAs(t, op)
  PROVE  /\ OthersWait(t) /\ tester'[t].op = op /\ tester'[t].test = tester[t].test
         /\ tester' \in [Testers -> SmokeSession] /\ testCommands' = testCommands
<1>1. tester[t] \in SmokeSession
  BY DEF SmokeTypeOK
<1>2. [tester[t] EXCEPT !.op = op] \in SmokeSession
  BY <1>1 DEF SmokeSession
<1> QED BY <1>1, <1>2 DEF continueAs, OthersWait, SmokeTypeOK, SmokeSession

(* The columns of one record rewritten. *)
LEMMA TestWritten ==
  ASSUME SmokeTypeOK, NEW r \in Tests, NEW row \in SmokeRecord, test' = [test EXCEPT ![r] = row]
  PROVE  test' \in [Tests -> SmokeRecord] /\ test'[r] = row /\ \A q \in Tests \ {r} : test'[q] = test[q]
BY DEF SmokeTypeOK

(***************************************************************************)
(* The steps                                                               *)
(***************************************************************************)
LEMMA TrackStep ==
  ASSUME SmokeTypeOK, SmokeInv, NEW t \in Testers, NEW r \in Tests, trackTest(t, r)
  PROVE  SmokeTypeOK' /\ SmokeInv'
<1> DEFINE s == [op |-> "tracked", test |-> r, mail |-> 0]
           row == [test[r] EXCEPT !.status = "DRAFT_READY", !.contact = allowed]
<1>1. s \in SmokeSession /\ begin(t, s)
  BY SmokeAssumption DEF SmokeSession, trackTest, Tests
<1>2. /\ OthersWait(t) /\ tester'[t] = s /\ tester[t].op = "idle"
      /\ tester' \in [Testers -> SmokeSession] /\ testCommands' \in 0..MaxTestCommands
  BY <1>1, Begun
<1>3. test[r] \in SmokeRecord /\ test \in [Tests -> SmokeRecord] /\ allowed \in Inboxes
  BY DEF SmokeTypeOK
<1>4. row \in SmokeRecord /\ row.attached = test[r].attached /\ row.followups = test[r].followups
        /\ row.status = "DRAFT_READY"
  BY <1>3 DEF SmokeRecord
<1>5. test' = [test EXCEPT ![r] = row]
  BY <1>3 DEF trackTest
<1>6. test' \in [Tests -> SmokeRecord] /\ test'[r] = row /\ \A q \in Tests \ {r} : test'[q] = test[q]
  BY <1>4, <1>5, TestWritten
<1>7. TestsKept
  BY <1>4, <1>6 DEF TestsKept, trackTest
<1>8. tester'[t].op = "tracked" /\ tester'[t].test = r /\ test'[r].status = "DRAFT_READY"
  BY <1>2, <1>4, <1>6
<1>9. SmokeInv'
  BY <1>2, <1>7, <1>8, IdleStep
<1> QED BY <1>2, <1>6, <1>9 DEF SmokeTypeOK, trackTest

LEMMA StoreMessageStep ==
  ASSUME SmokeTypeOK, SmokeInv, NEW t \in Testers, storeTestMessage(t)
  PROVE  SmokeTypeOK' /\ SmokeInv'
<1> DEFINE r == tester[t].test
           row == [test[r] EXCEPT !.approval = "missing"]
<1>1. tester[t].op = "tracked"
  BY DEF storeTestMessage, testerAt
<1>2. r \in Tests /\ test[r].status # "UNUSED"
  BY <1>1, AtWork
<1>3. /\ OthersWait(t) /\ tester'[t].op = "written" /\ tester'[t].test = r
      /\ tester' \in [Testers -> SmokeSession] /\ testCommands' = testCommands
  BY Continued DEF storeTestMessage
<1>4. test[r] \in SmokeRecord /\ test \in [Tests -> SmokeRecord]
  BY <1>2 DEF SmokeTypeOK
<1>5. /\ row \in SmokeRecord /\ row.attached = test[r].attached /\ row.followups = test[r].followups
      /\ row.status = test[r].status /\ row.contact = test[r].contact
  BY <1>4 DEF SmokeRecord
<1>6. test' = [test EXCEPT ![r] = row]
  BY <1>4 DEF storeTestMessage
<1>7. test' \in [Tests -> SmokeRecord] /\ test'[r] = row /\ \A q \in Tests \ {r} : test'[q] = test[q]
  BY <1>2, <1>5, <1>6, TestWritten
<1>8. TestsKept
  BY <1>5, <1>7 DEF TestsKept, storeTestMessage
<1>9. tester'[t].op = "written" /\ tester'[t].test \in Tests /\ test'[tester'[t].test].status # "UNUSED"
  BY <1>2, <1>3, <1>5, <1>7
<1>10. SmokeInv'
  BY <1>1, <1>3, <1>8, <1>9, IdleStep
<1> QED BY <1>3, <1>7, <1>10 DEF SmokeTypeOK, storeTestMessage

LEMMA AwaitStep ==
  ASSUME SmokeTypeOK, SmokeInv, NEW t \in Testers, awaitApproval(t)
  PROVE  SmokeTypeOK' /\ SmokeInv'
<1> DEFINE r == tester[t].test
           row == [test[r] EXCEPT !.status = IF @ = "DRAFT_READY" THEN "AWAITING_APPROVAL" ELSE @]
<1>1. tester[t].op = "written"
  BY DEF awaitApproval, testerAt
<1>2. r \in Tests /\ test[r].status # "UNUSED"
  BY <1>1, AtWork
<1>3. OthersWait(t) /\ tester'[t] = NotInUse /\ tester' \in [Testers -> SmokeSession] /\ testCommands' = testCommands
  BY Ended DEF awaitApproval
<1>4. test[r] \in SmokeRecord /\ test \in [Tests -> SmokeRecord]
  BY <1>2 DEF SmokeTypeOK
<1>5. /\ row \in SmokeRecord /\ row.attached = test[r].attached /\ row.followups = test[r].followups
      /\ row.contact = test[r].contact /\ row.status # "UNUSED"
      /\ row.status = "INITIAL_SENT" => test[r].status = "INITIAL_SENT"
  BY <1>2, <1>4 DEF SmokeRecord
<1>6. test' = [test EXCEPT ![r] = row]
  BY <1>4 DEF awaitApproval
<1>7. test' \in [Tests -> SmokeRecord] /\ test'[r] = row /\ \A q \in Tests \ {r} : test'[q] = test[q]
  BY <1>2, <1>5, <1>6, TestWritten
<1>8. TestsKept
  BY <1>5, <1>7 DEF TestsKept, awaitApproval
<1>9. SmokeInv'
  BY <1>1, <1>3, <1>8, EndingStep DEF testerAt
<1> QED BY <1>3, <1>7, <1>9 DEF SmokeTypeOK, awaitApproval

LEMMA ApproveReadStep ==
  ASSUME SmokeTypeOK, SmokeInv, NEW t \in Testers, NEW r \in Tests, approveRead(t, r)
  PROVE  SmokeTypeOK' /\ SmokeInv'
<1> DEFINE s == [op |-> "approving", test |-> r, mail |-> 0]
<1>1. s \in SmokeSession /\ begin(t, s)
  BY SmokeAssumption DEF SmokeSession, approveRead, Tests
<1>2. /\ OthersWait(t) /\ tester'[t] = s /\ tester[t].op = "idle"
      /\ tester' \in [Testers -> SmokeSession] /\ testCommands' \in 0..MaxTestCommands
  BY <1>1, Begun
<1>3. test[r].status # "UNUSED" /\ test' = test
  BY DEF approveRead, load
<1>4. TestsKept
  BY <1>3 DEF TestsKept, approveRead
<1>5. SmokeInv'
  BY <1>2, <1>3, <1>4, IdleStep
<1> QED BY <1>2, <1>5 DEF SmokeTypeOK, approveRead

LEMMA ApproveCommitStep ==
  ASSUME SmokeTypeOK, SmokeInv, NEW t \in Testers, approveCommit(t)
  PROVE  SmokeTypeOK' /\ SmokeInv'
<1> DEFINE r == tester[t].test
           row == [test[r] EXCEPT !.approval = "fresh", !.status = "APPROVED_TO_SEND"]
<1>1. tester[t].op = "approving"
  BY DEF approveCommit, testerAt
<1>2. r \in Tests /\ test[r].status # "UNUSED"
  BY <1>1, AtWork
<1>3. OthersWait(t) /\ tester'[t] = NotInUse /\ tester' \in [Testers -> SmokeSession] /\ testCommands' = testCommands
  BY Ended DEF approveCommit
<1>4. test[r] \in SmokeRecord /\ test \in [Tests -> SmokeRecord]
  BY <1>2 DEF SmokeTypeOK
<1>5. /\ row \in SmokeRecord /\ row.attached = test[r].attached /\ row.followups = test[r].followups
      /\ row.contact = test[r].contact /\ row.status = "APPROVED_TO_SEND"
  BY <1>4 DEF SmokeRecord
<1>6. test' = [test EXCEPT ![r] = row]
  BY <1>4 DEF approveCommit
<1>7. test' \in [Tests -> SmokeRecord] /\ test'[r] = row /\ \A q \in Tests \ {r} : test'[q] = test[q]
  BY <1>2, <1>5, <1>6, TestWritten
<1>8. TestsKept
  BY <1>5, <1>7 DEF TestsKept, approveCommit
<1>9. SmokeInv'
  BY <1>1, <1>3, <1>8, EndingStep DEF testerAt
<1> QED BY <1>3, <1>7, <1>9 DEF SmokeTypeOK, approveCommit

(* The send that ends the first of two is under way: the first is lost sight of. *)
LEMMA GuardStep ==
  ASSUME SmokeTypeOK, SmokeInv, NEW t \in Testers, NEW r \in Tests, loadAndGuard(t, r)
  PROVE  SmokeTypeOK' /\ SmokeInv'
<1> DEFINE s == [op |-> "guarded", test |-> r, mail |-> 0]
<1>1. s \in SmokeSession /\ begin(t, s)
  BY SmokeAssumption DEF SmokeSession, loadAndGuard, Tests
<1>2. /\ OthersWait(t) /\ tester'[t] = s /\ tester[t].op = "idle"
      /\ tester' \in [Testers -> SmokeSession] /\ testCommands' \in 0..MaxTestCommands
  BY <1>1, Begun
<1>3. tester'[t].op = "guarded" /\ tester'[t].test = r
  BY <1>2
<1>4. test[r].status # "UNUSED" /\ test' = test /\ test[r].attached = 0
  BY DEF loadAndGuard, load, evaluateSmokeSendGuards
<1>5. lapsed' = (IF sending(r) = {} THEN lapsed ELSE lapsed \cup {r}) /\ outbox' = outbox /\ allowed' = allowed
  BY DEF loadAndGuard
<1>6. TestsKept
  BY <1>4, <1>5 DEF TestsKept
<1>7. SmokeRowsExist'
  BY <1>2, <1>3, <1>4, <1>6, RowsKept
<1>8. InSight'
  <2> SUFFICES ASSUME NEW q \in Tests, q \notin lapsed'
               PROVE  /\ \A u, w \in sending(q)' : u = w
                      /\ wentOut(q)' => \/ sending(q)' = {} /\ test'[q].attached # 0
                                        \/ \E u \in sending(q)' : testerAt(u, "confirmed")'
    BY DEF InSight
  <2>1. /\ \A u, w \in sending(q) : u = w
        /\ wentOut(q) => \/ sending(q) = {} /\ test[q].attached # 0
                         \/ \E u \in sending(q) : testerAt(u, "confirmed")
    BY <1>5 DEF SmokeInv, InSight
  <2>2. wentOut(q)' = wentOut(q)
    BY <1>5 DEF wentOut
  <2>3. CASE q = r
    <3>1. sending(q) = {}
      BY <1>5, <2>3
    <3>2. sending(q)' = {t}
      BY <1>2, <1>3, <2>3, <3>1 DEF sending, OthersWait
    <3>3. ~ wentOut(q)
      BY <1>4, <2>1, <2>3, <3>1
    <3> QED BY <2>2, <3>2, <3>3
  <2>4. CASE q # r
    <3>1. sending(q)' = sending(q)
      BY <1>2, <1>3, <2>4 DEF sending, OthersWait
    <3>2. \A u \in sending(q) : tester'[u] = tester[u]
      BY <1>2 DEF sending, OthersWait
    <3> QED BY <1>4, <2>1, <2>2, <3>1, <3>2 DEF testerAt
  <2> QED BY <2>3, <2>4
<1>9. SmokeInv'
  BY <1>6, <1>7, <1>8, QuietStep DEF SmokeInv
<1>10. lapsed' \subseteq Tests
  BY <1>5 DEF SmokeTypeOK
<1> QED BY <1>2, <1>4, <1>5, <1>9, <1>10 DEF SmokeTypeOK

LEMMA DraftStep ==
  ASSUME SmokeTypeOK, SmokeInv, NEW t \in Testers, createSmokeDraft(t)
  PROVE  SmokeTypeOK' /\ SmokeInv'
<1>1. tester[t].op = "guarded" /\ test' = test /\ outbox' = outbox /\ allowed' = allowed /\ lapsed' = lapsed
  BY DEF createSmokeDraft, testerAt
<1>2. TestsKept
  BY <1>1 DEF TestsKept
<1>3. tester[t].test \in Tests /\ test[tester[t].test].status # "UNUSED"
  BY <1>1, AtWork
<1>4. CASE end(t)
  <2>1. OthersWait(t) /\ tester'[t] = NotInUse /\ tester' \in [Testers -> SmokeSession] /\ testCommands' = testCommands
    BY <1>4, Ended
  <2>2. SmokeInv'
    BY <1>1, <1>2, <2>1, EndingStep DEF testerAt
  <2> QED BY <1>1, <2>1, <2>2 DEF SmokeTypeOK
<1>5. CASE continueAs(t, "drafted")
  <2>1. /\ OthersWait(t) /\ tester'[t].op = "drafted" /\ tester'[t].test = tester[t].test
        /\ tester' \in [Testers -> SmokeSession] /\ testCommands' = testCommands
    BY <1>5, Continued
  <2>2. SmokeRowsExist'
    BY <1>1, <1>2, <1>3, <2>1, RowsKept
  <2>3. InSight'
    <3> SUFFICES ASSUME NEW q \in Tests, q \notin lapsed'
                 PROVE  /\ \A u, w \in sending(q)' : u = w
                        /\ wentOut(q)' => \/ sending(q)' = {} /\ test'[q].attached # 0
                                          \/ \E u \in sending(q)' : testerAt(u, "confirmed")'
      BY DEF InSight
    <3>1. sending(q)' = sending(q) /\ wentOut(q)' = wentOut(q)
      BY <1>1, <2>1 DEF sending, OthersWait, wentOut
    <3>2. \A u \in sending(q) : testerAt(u, "confirmed") => testerAt(u, "confirmed")'
      BY <1>1, <2>1 DEF sending, OthersWait, testerAt
    <3> QED BY <1>1, <3>1, <3>2 DEF SmokeInv, InSight
  <2>4. SmokeInv'
    BY <1>2, <2>2, <2>3, QuietStep DEF SmokeInv
  <2> QED BY <1>1, <2>1, <2>4 DEF SmokeTypeOK
<1> QED BY <1>4, <1>5 DEF createSmokeDraft

(* The e-mail goes out: the sender knows, or nobody does. *)
LEMMA GoesOutStep ==
  ASSUME SmokeTypeOK, SmokeInv, NEW t \in Testers, testerAt(t, "drafted"), goesOut(tester[t].test),
         UNCHANGED <<test, allowed, testCommands>>, OthersWait(t), tester' \in [Testers -> SmokeSession],
         \/ /\ lapsed' = lapsed /\ tester'[t].op = "confirmed" /\ tester'[t].test = tester[t].test
            /\ tester'[t].mail = Len(outbox) + 1
         \/ tester'[t] = NotInUse /\ lapsed' = lapsed \cup {tester[t].test}
  PROVE  SmokeTypeOK' /\ SmokeInv'
<1> DEFINE r == tester[t].test
           n == Len(outbox) + 1
<1>1. r \in Tests /\ test[r].status # "UNUSED" /\ tester[t].op = "drafted"
  BY AtWork DEF testerAt
<1>2. outbox' = Append(outbox, [test |-> r, to |-> test[r].contact]) /\ test[r].contact \in Inboxes
  BY <1>1, SmokeFields DEF goesOut
<1>3. /\ outbox' \in Seq(SentTest) /\ DOMAIN outbox' = (DOMAIN outbox) \cup {n} /\ n \notin DOMAIN outbox
      /\ n \in Nat \ {0} /\ \A i \in DOMAIN outbox : outbox'[i] = outbox[i]
      /\ outbox'[n].test = r /\ outbox'[n].to = test[r].contact
  <2> DEFINE e == [test |-> r, to |-> test[r].contact]
  <2>1. e \in SentTest /\ e.test = r /\ e.to = test[r].contact
    BY <1>1, <1>2 DEF SentTest
  <2> HIDE DEF e, r
  <2>2. outbox \in Seq(SentTest) /\ outbox' = Append(outbox, e)
    BY <1>2 DEF SmokeTypeOK, e
  <2> QED BY <2>1, <2>2
<1>5. lapsed \subseteq lapsed' /\ lapsed' \subseteq Tests
  BY <1>1 DEF SmokeTypeOK
<1>6. SmokeTypeOK'
  BY <1>3, <1>5 DEF SmokeTypeOK
<1>7. SmokeRowsExist'
  <2>0. SmokeRowsExist
    BY DEF SmokeInv
  <2>1. ASSUME NEW u \in Testers, tester'[u].op # "idle"
        PROVE  tester'[u].test \in Tests /\ test[tester'[u].test].status # "UNUSED"
    BY <1>1, <2>0, <2>1 DEF SmokeRowsExist, OthersWait, NotInUse
  <2>2. ASSUME NEW i \in DOMAIN outbox'
        PROVE  test[outbox'[i].test].status # "UNUSED" /\ outbox'[i].to = test[outbox'[i].test].contact
    BY <1>1, <1>3, <2>0 DEF SmokeRowsExist
  <2>3. ASSUME NEW u \in Testers, tester'[u].op \in {"confirmed", "reconciling"}
        PROVE  tester'[u].mail \in DOMAIN outbox' /\ outbox'[tester'[u].mail].test = tester'[u].test
    BY <1>3, <2>0, <2>3 DEF SmokeRowsExist, OthersWait, NotInUse, testerAt
  <2>4. \A q \in Tests : test[q].attached # 0 => test[q].attached \in DOMAIN outbox' /\ outbox'[test[q].attached].test = q
    BY <1>3, <2>0 DEF SmokeRowsExist
  <2> QED BY <2>1, <2>2, <2>3, <2>4 DEF SmokeRowsExist, testerAt
<1>8. r \notin lapsed => ~ wentOut(r) /\ sending(r) = {t}
  <2> SUFFICES ASSUME r \notin lapsed PROVE ~ wentOut(r) /\ sending(r) = {t}
    OBVIOUS
  <2>1. t \in sending(r)
    BY <1>1 DEF sending
  <2>2. \A u, w \in sending(r) : u = w
    BY <1>1 DEF SmokeInv, InSight
  <2>3. sending(r) = {t}
    BY <2>1, <2>2
  <2>4. ~ \E u \in sending(r) : testerAt(u, "confirmed")
    BY <1>1, <2>3 DEF testerAt
  <2> QED BY <1>1, <2>3, <2>4 DEF SmokeInv, InSight
<1>9. InSight'
  <2> SUFFICES ASSUME NEW q \in Tests, q \notin lapsed'
               PROVE  /\ \A u, w \in sending(q)' : u = w
                      /\ wentOut(q)' => \/ sending(q)' = {} /\ test'[q].attached # 0
                                        \/ \E u \in sending(q)' : testerAt(u, "confirmed")'
    BY DEF InSight
  <2>1. CASE q = r
    <3>1. lapsed' = lapsed /\ tester'[t].op = "confirmed" /\ tester'[t].test = r /\ sending(r) = {t}
      BY <1>5, <1>8, <2>1
    <3>2. sending(r)' = {t}
      BY <3>1 DEF sending, OthersWait
    <3> QED BY <2>1, <3>1, <3>2 DEF testerAt
  <2>2. CASE q # r
    <3>1. sending(q)' = sending(q)
      BY <1>1, <2>2 DEF sending, OthersWait, NotInUse
    <3>2. \A u \in sending(q) : tester'[u] = tester[u]
      BY <2>2 DEF sending, OthersWait
    <3>3. wentOut(q)' => wentOut(q)
      BY <1>3, <2>2 DEF wentOut
    <3> QED BY <1>5, <3>1, <3>2, <3>3 DEF SmokeInv, InSight, testerAt
  <2> QED BY <2>1, <2>2
<1>10. TestedOnce'
  <2> SUFFICES ASSUME NEW i \in DOMAIN outbox', NEW j \in DOMAIN outbox', outbox'[i].test = outbox'[j].test, i # j
               PROVE  outbox'[i].test \in lapsed'
    BY DEF TestedOnce
  <2>1. CASE i \in DOMAIN outbox /\ j \in DOMAIN outbox
    BY <1>3, <1>5, <2>1 DEF SmokeInv, TestedOnce
  <2>2. CASE i = n \/ j = n
    <3>1. outbox'[i].test = r /\ wentOut(r)
      BY <1>3, <2>2 DEF wentOut
    <3> QED BY <1>5, <1>8, <3>1
  <2> QED BY <1>3, <2>1, <2>2
<1>11. RecordedTogether'
  <2> SUFFICES ASSUME NEW q \in Tests
               PROVE  /\ test[q].followups = IF test[q].attached = 0 THEN 0 ELSE 1
                      /\ test[q].status = "INITIAL_SENT" => test[q].attached # 0
                      /\ test[q].attached # 0 => /\ outbox'[test[q].attached].test = q
                                                 /\ outbox'[test[q].attached].to = test[q].contact
    BY DEF RecordedTogether
  <2>1. test[q].attached # 0 => test[q].attached \in DOMAIN outbox
    BY DEF SmokeInv, SmokeRowsExist
  <2> QED BY <1>3, <2>1 DEF SmokeInv, RecordedTogether
<1> QED BY <1>6, <1>7, <1>9, <1>10, <1>11 DEF SmokeInv

LEMMA DispatchStep ==
  ASSUME SmokeTypeOK, SmokeInv, NEW t \in Testers, dispatchDraft(t)
  PROVE  SmokeTypeOK' /\ SmokeInv'
<1> DEFINE r == tester[t].test
<1>1. testerAt(t, "drafted") /\ test' = test /\ allowed' = allowed /\ tester[t] \in SmokeSession
  BY DEF dispatchDraft, SmokeTypeOK
<1>2. CASE /\ goesOut(r) /\ UNCHANGED <<lapsed, testCommands>>
           /\ tester' = [tester EXCEPT ![t].op = "confirmed", ![t].mail = Len(outbox) + 1]
  <2>1. Len(outbox) + 1 \in Nat
    BY SmokeFields
  <2>2. [tester[t] EXCEPT !.op = "confirmed", !.mail = Len(outbox) + 1] \in SmokeSession
    BY <1>1, <2>1 DEF SmokeSession
  <2>3. /\ OthersWait(t) /\ tester' \in [Testers -> SmokeSession] /\ tester'[t].op = "confirmed"
        /\ tester'[t].test = r /\ tester'[t].mail = Len(outbox) + 1
    BY <1>1, <1>2, <2>2 DEF OthersWait, SmokeTypeOK, SmokeSession
  <2> QED BY <1>1, <1>2, <2>3, GoesOutStep
<1>3. CASE end(t) /\ UNCHANGED <<outbox, lapsed>>
  <2>1. OthersWait(t) /\ tester'[t] = NotInUse /\ tester' \in [Testers -> SmokeSession] /\ testCommands' = testCommands
    BY <1>3, Ended
  <2>2. TestsKept
    BY <1>1, <1>3 DEF TestsKept
  <2>3. SmokeInv'
    BY <1>1, <2>1, <2>2, EndingStep DEF testerAt
  <2> QED BY <1>1, <1>3, <2>1, <2>3 DEF SmokeTypeOK
<1>4. CASE goesOut(r) /\ end(t) /\ lapsed' = lapsed \cup {r}
  <2>1. OthersWait(t) /\ tester'[t] = NotInUse /\ tester' \in [Testers -> SmokeSession] /\ testCommands' = testCommands
    BY <1>4, Ended
  <2> QED BY <1>1, <1>4, <2>1, GoesOutStep
<1> QED BY <1>2, <1>3, <1>4 DEF dispatchDraft

(* An e-mail of the test is attached to it, and its session ends. *)
LEMMA RecordStep ==
  ASSUME SmokeTypeOK, SmokeInv, NEW t \in Testers, testerAt(t, "confirmed") \/ testerAt(t, "reconciling"),
         recordable(tester[t].test), recordSend(tester[t].test, tester[t].mail), end(t),
         UNCHANGED <<outbox, allowed, lapsed>>
  PROVE  SmokeTypeOK' /\ SmokeInv'
<1> DEFINE r == tester[t].test
           mail == tester[t].mail
           row == [test[r] EXCEPT !.attached = mail, !.status = "INITIAL_SENT", !.followups = @ + 1]
<1>1. r \in Tests /\ test[r].status # "UNUSED" /\ test[r].attached = 0
  BY AtWork DEF testerAt, recordable
<1>2. mail \in DOMAIN outbox /\ outbox[mail].test = r /\ outbox[mail].to = test[r].contact /\ mail \in Nat \ {0}
  BY SmokeFields DEF SmokeInv, SmokeRowsExist
<1>3. OthersWait(t) /\ tester'[t] = NotInUse /\ tester' \in [Testers -> SmokeSession] /\ testCommands' = testCommands
  BY Ended
<1>4. test[r] \in SmokeRecord /\ test \in [Tests -> SmokeRecord] /\ test[r].followups = 0
  BY <1>1 DEF SmokeTypeOK, SmokeInv, RecordedTogether
<1>a. row = [test[r] EXCEPT !.attached = mail, !.status = "INITIAL_SENT", !.followups = 1]
  BY <1>4 DEF SmokeRecord
<1>5. /\ row \in SmokeRecord /\ row.attached = mail /\ row.followups = 1 /\ row.status = "INITIAL_SENT"
      /\ row.contact = test[r].contact
  <2>1. mail \in Nat
    BY <1>2
  <2> HIDE DEF mail
  <2>2. row \in SmokeRecord
    <3> HIDE DEF row, r
    <3>1. row = [status |-> "INITIAL_SENT", contact |-> test[r].contact, dnc |-> test[r].dnc,
                 approval |-> test[r].approval, attached |-> mail, followups |-> 1]
      BY <1>a, <1>4 DEF SmokeRecord
    <3> QED BY <1>4, <2>1, <3>1 DEF SmokeRecord
  <2>3. row.attached = mail /\ row.followups = 1 /\ row.status = "INITIAL_SENT" /\ row.contact = test[r].contact
    BY <1>a, <1>4 DEF SmokeRecord
  <2> QED BY <2>2, <2>3
<1>6. test' = [test EXCEPT ![r] = row]
  BY <1>4 DEF recordSend
<1>7. test' \in [Tests -> SmokeRecord] /\ test'[r] = row /\ \A q \in Tests \ {r} : test'[q] = test[q]
  BY <1>1, <1>5, <1>6, TestWritten
<1>8. /\ test'[r].attached = mail /\ test'[r].followups = 1 /\ test'[r].status = "INITIAL_SENT"
      /\ test'[r].contact = test[r].contact
  BY <1>5, <1>7
<1> HIDE DEF r, mail, row
<1>9. SmokeRowsExist'
  <2>0. SmokeRowsExist
    BY DEF SmokeInv
  <2>1. ASSUME NEW u \in Testers, tester'[u].op # "idle"
        PROVE  tester'[u].test \in Tests /\ test'[tester'[u].test].status # "UNUSED"
    BY <1>3, <1>7, <1>8, <2>0, <2>1 DEF SmokeRowsExist, OthersWait, NotInUse
  <2>2. ASSUME NEW i \in DOMAIN outbox
        PROVE  test'[outbox[i].test].status # "UNUSED" /\ outbox[i].to = test'[outbox[i].test].contact
    BY <1>7, <1>8, <2>0, SmokeFields DEF SmokeRowsExist
  <2>3. ASSUME NEW u \in Testers, tester'[u].op \in {"confirmed", "reconciling"}
        PROVE  tester'[u].mail \in DOMAIN outbox /\ outbox[tester'[u].mail].test = tester'[u].test
    BY <1>3, <2>0, <2>3 DEF SmokeRowsExist, OthersWait, NotInUse, testerAt
  <2>4. \A q \in Tests : test'[q].attached # 0 => test'[q].attached \in DOMAIN outbox /\ outbox[test'[q].attached].test = q
    BY <1>2, <1>7, <1>8, <2>0 DEF SmokeRowsExist
  <2> QED BY <2>1, <2>2, <2>3, <2>4 DEF SmokeRowsExist, testerAt
<1>10. InSight'
  <2> SUFFICES ASSUME NEW q \in Tests, q \notin lapsed'
               PROVE  /\ \A u, w \in sending(q)' : u = w
                      /\ wentOut(q)' => \/ sending(q)' = {} /\ test'[q].attached # 0
                                        \/ \E u \in sending(q)' : testerAt(u, "confirmed")'
    BY DEF InSight
  <2>1. sending(q)' = sending(q) \ {t} /\ wentOut(q)' = wentOut(q)
    BY <1>3 DEF sending, OthersWait, NotInUse, wentOut
  <2>2. \A u \in sending(q) \ {t} : tester'[u] = tester[u]
    BY <1>3 DEF sending, OthersWait
  <2>3. /\ \A u, w \in sending(q) : u = w
        /\ wentOut(q) => \/ sending(q) = {} /\ test[q].attached # 0
                         \/ \E u \in sending(q) : testerAt(u, "confirmed")
    BY DEF SmokeInv, InSight
  <2>4. t \in sending(q) => q = r
    BY DEF sending, r
  <2>5. test'[r].attached # 0
    BY <1>2, <1>8
  <2>6. CASE t \in sending(q)
    <3>1. sending(q)' = {}
      BY <2>1, <2>3, <2>6
    <3> QED BY <2>4, <2>5, <2>6, <3>1
  <2>7. CASE t \notin sending(q)
    <3>1. sending(q)' = sending(q)
      BY <2>1, <2>7
    <3>2. test[q].attached # 0 => test'[q].attached # 0
      BY <1>7, <2>5
    <3> QED BY <2>1, <2>2, <2>3, <2>7, <3>1, <3>2 DEF testerAt
  <2> QED BY <2>6, <2>7
<1>11. TestedOnce'
  BY DEF SmokeInv, TestedOnce
<1>12. RecordedTogether'
  <2> SUFFICES ASSUME NEW q \in Tests
               PROVE  /\ test'[q].followups = IF test'[q].attached = 0 THEN 0 ELSE 1
                      /\ test'[q].status = "INITIAL_SENT" => test'[q].attached # 0
                      /\ test'[q].attached # 0 => /\ outbox[test'[q].attached].test = q
                                                  /\ outbox[test'[q].attached].to = test'[q].contact
    BY DEF RecordedTogether
  <2>1. CASE q = r
    BY <1>2, <1>8, <2>1
  <2>2. CASE q # r
    BY <1>7, <2>2 DEF SmokeInv, RecordedTogether
  <2> QED BY <2>1, <2>2
<1> QED BY <1>3, <1>7, <1>9, <1>10, <1>11, <1>12 DEF SmokeTypeOK, SmokeInv

LEMMA PersistStep ==
  ASSUME SmokeTypeOK, SmokeInv, NEW t \in Testers, persistSend(t)
  PROVE  SmokeTypeOK' /\ SmokeInv'
<1>1. testerAt(t, "confirmed") /\ end(t) /\ outbox' = outbox /\ allowed' = allowed
  BY DEF persistSend
<1>2. CASE recordable(tester[t].test) /\ recordSend(tester[t].test, tester[t].mail) /\ UNCHANGED lapsed
  BY <1>1, <1>2, RecordStep
<1>3. CASE lapsed' = lapsed \cup {tester[t].test} /\ UNCHANGED test
  <2>1. OthersWait(t) /\ tester'[t] = NotInUse /\ tester' \in [Testers -> SmokeSession] /\ testCommands' = testCommands
    BY <1>1, Ended
  <2>2. TestsKept /\ tester[t].test \in lapsed' /\ lapsed' \subseteq Tests
    BY <1>1, <1>3, AtWork DEF TestsKept, testerAt, SmokeTypeOK
  <2>3. SmokeInv'
    BY <2>1, <2>2, EndingStep
  <2> QED BY <1>1, <1>3, <2>1, <2>2, <2>3 DEF SmokeTypeOK
<1> QED BY <1>2, <1>3 DEF persistSend

LEMMA ReconcileReadStep ==
  ASSUME SmokeTypeOK, SmokeInv, NEW t \in Testers, NEW r \in Tests, NEW mail \in DOMAIN outbox,
         reconcileTestRead(t, r, mail)
  PROVE  SmokeTypeOK' /\ SmokeInv'
<1> DEFINE s == [op |-> "reconciling", test |-> r, mail |-> mail]
<1>0. mail \in Nat /\ r \in 0..MaxTests
  BY SmokeAssumption, SmokeFields DEF Tests
<1>1. s \in SmokeSession /\ begin(t, s)
  BY <1>0 DEF SmokeSession, reconcileTestRead
<1>2. /\ OthersWait(t) /\ tester'[t] = s /\ tester[t].op = "idle"
      /\ tester' \in [Testers -> SmokeSession] /\ testCommands' \in 0..MaxTestCommands
  BY <1>1, Begun
<1>3. test[r].status # "UNUSED" /\ test' = test /\ outbox[mail].test = r
  BY DEF reconcileTestRead, load
<1>4. TestsKept
  BY <1>3 DEF TestsKept, reconcileTestRead
<1>5. tester'[t].op = "reconciling" /\ tester'[t].test = r /\ tester'[t].mail = mail
  BY <1>2
<1>6. SmokeInv'
  BY <1>2, <1>3, <1>4, <1>5, IdleStep
<1> QED BY <1>2, <1>6 DEF SmokeTypeOK, reconcileTestRead

LEMMA ReconcileCommitStep ==
  ASSUME SmokeTypeOK, SmokeInv, NEW t \in Testers, reconcileTestCommit(t)
  PROVE  SmokeTypeOK' /\ SmokeInv'
<1>1. testerAt(t, "reconciling") /\ end(t) /\ outbox' = outbox /\ allowed' = allowed /\ lapsed' = lapsed
  BY DEF reconcileTestCommit
<1>2. CASE recordable(tester[t].test)
  BY <1>1, <1>2, RecordStep DEF reconcileTestCommit
<1>3. CASE ~ recordable(tester[t].test)
  <2>1. OthersWait(t) /\ tester'[t] = NotInUse /\ tester' \in [Testers -> SmokeSession] /\ testCommands' = testCommands
    BY <1>1, Ended
  <2>2. TestsKept /\ test' = test
    BY <1>1, <1>3 DEF TestsKept, reconcileTestCommit
  <2>3. SmokeInv'
    BY <1>1, <2>1, <2>2, EndingStep DEF testerAt
  <2> QED BY <1>1, <2>1, <2>2, <2>3 DEF SmokeTypeOK
<1> QED BY <1>2, <1>3

LEMMA TesterDiesStep ==
  ASSUME SmokeTypeOK, SmokeInv, NEW t \in Testers, testerDies(t)
  PROVE  SmokeTypeOK' /\ SmokeInv'
<1>1. /\ end(t) /\ test' = test /\ outbox' = outbox /\ allowed' = allowed
      /\ lapsed' = IF testerAt(t, "confirmed") THEN lapsed \cup {tester[t].test} ELSE lapsed
  BY DEF testerDies
<1>2. OthersWait(t) /\ tester'[t] = NotInUse /\ tester' \in [Testers -> SmokeSession] /\ testCommands' = testCommands
  BY <1>1, Ended
<1>3. TestsKept /\ lapsed' \subseteq Tests
  BY <1>1, AtWork DEF TestsKept, testerAt, SmokeTypeOK
<1>4. SmokeInv'
  BY <1>1, <1>2, <1>3, EndingStep
<1> QED BY <1>1, <1>2, <1>3, <1>4 DEF SmokeTypeOK

(* Steps in which no session takes part. *)
LEMMA WorldStep ==
  ASSUME SmokeTypeOK, SmokeInv, TestsKept, UNCHANGED tester
  PROVE  SmokeInv'
<1>1. PICK t : t \notin Testers
  BY NoSetContainsEverything
<1>2. OthersWait(t)
  BY DEF OthersWait
<1>3. SmokeRowsExist' /\ InSight'
  BY <1>1, <1>2, RowsKept, OutOfTheWay
<1> QED BY <1>3, QuietStep DEF SmokeInv

LEMMA ExpiryStep ==
  ASSUME SmokeTypeOK, SmokeInv, NEW r \in Tests, approvalExpires(r) \/ testOptsOut(r)
  PROVE  SmokeTypeOK' /\ SmokeInv'
<1>1. test[r] \in SmokeRecord /\ test \in [Tests -> SmokeRecord]
  BY DEF SmokeTypeOK
<1>2. PICK row \in SmokeRecord :
        /\ test' = [test EXCEPT ![r] = row] /\ row.attached = test[r].attached /\ row.followups = test[r].followups
        /\ row.contact = test[r].contact
        /\ test[r].status # "UNUSED" => row.status # "UNUSED"
        /\ row.status = "INITIAL_SENT" => test[r].status = "INITIAL_SENT"
  <2>1. CASE approvalExpires(r)
    <3> DEFINE row == [test[r] EXCEPT !.approval = "expired"]
    <3>1. /\ row \in SmokeRecord /\ row.attached = test[r].attached /\ row.followups = test[r].followups
          /\ row.contact = test[r].contact /\ row.status = test[r].status
      BY <1>1 DEF SmokeRecord
    <3>2. test' = [test EXCEPT ![r] = row]
      BY <1>1, <2>1 DEF approvalExpires
    <3> QED BY <3>1, <3>2
  <2>2. CASE testOptsOut(r)
    <3> DEFINE row == [test[r] EXCEPT !.status = "DO_NOT_CONTACT", !.dnc = TRUE]
    <3>1. /\ row \in SmokeRecord /\ row.attached = test[r].attached /\ row.followups = test[r].followups
          /\ row.contact = test[r].contact /\ row.status = "DO_NOT_CONTACT"
      BY <1>1 DEF SmokeRecord
    <3>2. test' = [test EXCEPT ![r] = row]
      BY <1>1, <2>2 DEF testOptsOut
    <3> QED BY <3>1, <3>2
  <2> QED BY <2>1, <2>2
<1>3. test' \in [Tests -> SmokeRecord] /\ test'[r] = row /\ \A q \in Tests \ {r} : test'[q] = test[q]
  BY <1>2, TestWritten
<1>4. UNCHANGED <<outbox, tester, allowed, lapsed, testCommands>>
  BY DEF approvalExpires, testOptsOut
<1>5. ASSUME NEW q \in Tests
      PROVE  /\ test'[q].attached = test[q].attached /\ test'[q].followups = test[q].followups
             /\ test[q].status # "UNUSED" => test'[q].status # "UNUSED" /\ test'[q].contact = test[q].contact
             /\ test'[q].status = "INITIAL_SENT" => test[q].status = "INITIAL_SENT"
  BY <1>2, <1>3
<1>6. TestsKept
  BY <1>4, <1>5 DEF TestsKept
<1> QED BY <1>3, <1>4, <1>6, WorldStep DEF SmokeTypeOK

LEMMA AllowlistStep ==
  ASSUME SmokeTypeOK, SmokeInv, (\E i \in Inboxes : allowlistChanges(i)) \/ UNCHANGED smokeVars
  PROVE  SmokeTypeOK' /\ SmokeInv'
<1>1. UNCHANGED <<test, outbox, tester, lapsed, testCommands>> /\ allowed' \in Inboxes
  BY DEF allowlistChanges, smokeVars, SmokeTypeOK
<1>2. TestsKept
  BY <1>1 DEF TestsKept
<1> QED BY <1>1, <1>2, WorldStep DEF SmokeTypeOK

(* A second e-mail of one test goes out only after the program lost sight of the
   first, and a delivery is recorded once, with its one follow-up, by whichever
   session comes first. *)
THEOREM SmokeInvariant == SmokeSpec => [](SmokeTypeOK /\ SmokeInv)
<1>1. SmokeInit => SmokeTypeOK /\ SmokeInv
  <2> SUFFICES ASSUME SmokeInit PROVE SmokeTypeOK /\ SmokeInv
    OBVIOUS
  <2>1. NotInUse \in SmokeSession
    BY SmokeAssumption DEF NotInUse, SmokeSession
  <2>2. SmokeTypeOK
    BY <2>1, SmokeAssumption DEF SmokeInit, SmokeTypeOK, SmokeRecord
  <2>3. SmokeRowsExist /\ TestedOnce /\ RecordedTogether
    BY DEF SmokeInit, SmokeRowsExist, TestedOnce, RecordedTogether, NotInUse, testerAt
  <2>4. InSight
    BY DEF SmokeInit, InSight, NotInUse, sending, wentOut
  <2> QED BY <2>2, <2>3, <2>4 DEF SmokeInv
<1>2. SmokeTypeOK /\ SmokeInv /\ [SmokeNext]_smokeVars => SmokeTypeOK' /\ SmokeInv'
  <2> SUFFICES ASSUME SmokeTypeOK, SmokeInv, [SmokeNext]_smokeVars PROVE SmokeTypeOK' /\ SmokeInv'
    OBVIOUS
  <2>1. ASSUME NEW t \in Testers,
               \/ storeTestMessage(t) \/ awaitApproval(t) \/ approveCommit(t) \/ createSmokeDraft(t)
               \/ dispatchDraft(t) \/ persistSend(t) \/ reconcileTestCommit(t) \/ testerDies(t)
        PROVE  SmokeTypeOK' /\ SmokeInv'
    BY <2>1, StoreMessageStep, AwaitStep, ApproveCommitStep, DraftStep, DispatchStep, PersistStep,
       ReconcileCommitStep, TesterDiesStep
  <2>2. ASSUME NEW t \in Testers, NEW r \in Tests,
               \/ trackTest(t, r) \/ approveRead(t, r) \/ loadAndGuard(t, r)
               \/ \E mail \in DOMAIN outbox : reconcileTestRead(t, r, mail)
        PROVE  SmokeTypeOK' /\ SmokeInv'
    BY <2>2, TrackStep, ApproveReadStep, GuardStep, ReconcileReadStep
  <2>3. ASSUME NEW r \in Tests, approvalExpires(r) \/ testOptsOut(r)
        PROVE  SmokeTypeOK' /\ SmokeInv'
    BY <2>3, ExpiryStep
  <2> QED BY <2>1, <2>2, <2>3, AllowlistStep DEF SmokeNext
<1> QED BY <1>1, <1>2, PTL DEF SmokeSpec

(* What the run checks of the controlled test send. *)
THEOREM SmokeIsSound == SmokeSpec => []SmokeSound
<1>1. SmokeTypeOK /\ SmokeInv => SmokeSound
  BY DEF SmokeInv, SmokeSound
<1> QED BY <1>1, SmokeInvariant, PTL

(***************************************************************************)
(* The findings and e-mails of an operator                                 *)
(***************************************************************************)
LEMMA FindingLimits ==
  /\ MaxAge \in Nat /\ MaxDay \in Nat /\ Evidence \in [EvidenceIds -> DeterministicEvidenceRow]
  /\ Mails \subseteq OperatorEmailInput /\ RunIsAware \in Seq(BOOLEAN) /\ RunIsAware # <<>>
BY FindingAssumption

LeadStatuses == {"NEEDS_MANUAL_REVIEW", "OUTREACH_READY_DETERMINISTIC", "READY_FOR_HUMAN_APPROVAL", "READY_FOR_CAPTURE",
                 "READY_FOR_AUDIT", "OPPORTUNITY_READY", "REJECTED"}

LEMMA EasySession == AtEase \in Approval /\ AtEase.kind = "none"
BY DEF AtEase, Approval

(* What holds of a capture holds when more are taken. *)
LEMMA FindingStays ==
  ASSUME NEW f, FindingHolds(f), f.run \in DOMAIN captured, captured'[f.run] = captured[f.run]
  PROVE  FindingHolds(f)'
BY DEF FindingHolds

(* A step that stores no row: sessions, the lead and the day move on. *)
LEMMA TablesStand ==
  ASSUME FindingsTypeOK, FindingsInv, UNCHANGED <<captured, findings, letters>>, approving' \in [Operators -> Approval],
         \A o \in Operators : ApprovalIsSound(approving'[o]),
         standing' \in LeadStatuses, standing' \in {"OUTREACH_READY_DETERMINISTIC", "READY_FOR_HUMAN_APPROVAL"} => standing' = standing,
         today' \in 0..MaxDay,
         "letter" \notin crossed' =>
           /\ \A o, p \in Operators : approving'[o].kind = "letter" /\ approving'[p].kind = "letter" => o = p
           /\ letters # <<>> => \A o \in Operators : approving'[o].kind # "letter",
         crossed \subseteq crossed'
  PROVE  FindingsTypeOK' /\ FindingsInv'
<1>1. FindingsTypeOK'
  BY DEF FindingsTypeOK, LeadStatuses
<1>2. FindingTables'
  BY DEF FindingsInv, FindingTables
<1>3. ASSUME NEW o \in Operators PROVE ApprovalIsSound(approving[o])'
  <2>1. PICK d : d = approving'[o]
    OBVIOUS
  <2>2. ApprovalIsSound(d)'
    BY <2>1 DEF ApprovalIsSound, FindingHolds
  <2> QED BY <2>1, <2>2 DEF ApprovalIsSound, FindingHolds
<1>4. LettersAreFew'
  BY DEF FindingsInv, LettersAreFew
<1>5. FindingsHold'
  BY DEF FindingsInv, FindingsHold, FindingHolds
<1>6. StatusHasItsRows'
  <2>0. Len(<<>>) = 0
    OBVIOUS
  <2>1. Len(findings) = 1 => findings # <<>>
    BY <2>0
  <2> QED BY <2>1 DEF FindingsInv, StatusHasItsRows, resolveComposerFindings
<1>7. LettersRestOnFindings'
  BY DEF FindingsInv, LettersRestOnFindings
<1> QED BY <1>1, <1>2, <1>3, <1>4, <1>5, <1>6, <1>7 DEF FindingsInv

(* A session goes on, ends or dies. *)
LEMMA SessionMoves ==
  ASSUME FindingsTypeOK, FindingsInv, NEW o \in Operators, NEW d \in Approval, approving' = [approving EXCEPT ![o] = d],
         ApprovalIsSound(d), d.kind \in {"none", approving[o].kind}, UNCHANGED <<captured, findings, letters, today, crossed>>,
         standing' \in LeadStatuses, standing' \in {"OUTREACH_READY_DETERMINISTIC", "READY_FOR_HUMAN_APPROVAL"} => standing' = standing
  PROVE  FindingsTypeOK' /\ FindingsInv'
<1>1. approving \in [Operators -> Approval]
  BY DEF FindingsInv, FindingTables
<1>2. approving' \in [Operators -> Approval]
  BY <1>1
<1>3. \A p \in Operators : approving'[p] = IF p = o THEN d ELSE approving[p]
  BY <1>1
<1>4. \A p \in Operators : ApprovalIsSound(approving'[p])
  BY <1>3 DEF FindingsInv
<1>5. \A p \in Operators : approving'[p].kind = "letter" => approving[p].kind = "letter"
  BY <1>3
<1>6. today' \in 0..MaxDay
  BY DEF FindingsTypeOK
<1>7. "letter" \notin crossed =>
        /\ \A p, q \in Operators : approving[p].kind = "letter" /\ approving[q].kind = "letter" => p = q
        /\ letters # <<>> => \A p \in Operators : approving[p].kind # "letter"
  BY DEF FindingsInv, LettersAreFew
<1>8. UNCHANGED crossed
  OBVIOUS
<1>9. "letter" \notin crossed' =>
        /\ \A p, q \in Operators : approving'[p].kind = "letter" /\ approving'[q].kind = "letter" => p = q
        /\ letters # <<>> => \A p \in Operators : approving'[p].kind # "letter"
  BY <1>5, <1>7, <1>8
<1> QED BY <1>2, <1>4, <1>6, <1>8, <1>9, TablesStand

LEMMA GivesUp ==
  ASSUME FindingsTypeOK, FindingsInv, NEW o \in Operators, giveUpApproval(o),
         UNCHANGED <<captured, findings, letters, today, crossed>>,
         standing' \in LeadStatuses, standing' \in {"OUTREACH_READY_DETERMINISTIC", "READY_FOR_HUMAN_APPROVAL"} => standing' = standing
  PROVE  FindingsTypeOK' /\ FindingsInv'
<1>1. ApprovalIsSound(AtEase)
  BY DEF ApprovalIsSound, AtEase
<1>2. approving' = [approving EXCEPT ![o] = AtEase]
  BY DEF giveUpApproval
<1> QED BY <1>1, <1>2, EasySession, SessionMoves

(* A command begins with what it has read. *)
LEMMA SessionBegins ==
  ASSUME FindingsTypeOK, FindingsInv, NEW o \in Operators, NEW d \in Approval, beginApproval(o, d), ApprovalIsSound(d),
         d.kind = "letter" => letters = <<>>
  PROVE  FindingsTypeOK' /\ FindingsInv'
<1>1. approving \in [Operators -> Approval] /\ approving' = [approving EXCEPT ![o] = d]
  BY DEF FindingsInv, FindingTables, beginApproval
<1>2. approving' \in [Operators -> Approval]
  BY <1>1
<1>3. \A p \in Operators : approving'[p] = IF p = o THEN d ELSE approving[p]
  BY <1>1
<1>4. \A p \in Operators : ApprovalIsSound(approving'[p])
  BY <1>3 DEF FindingsInv
<1>5. UNCHANGED <<standing, captured, findings, letters, today>>
  BY DEF beginApproval
<1>6. today' \in 0..MaxDay /\ standing' \in LeadStatuses
  BY <1>5 DEF FindingsTypeOK, LeadStatuses
<1>7. crossed' = crossed \cup {d.kind : p \in {q \in Operators \ {o} : approving[q].kind = d.kind}}
  BY DEF beginApproval
<1>8. "letter" \notin crossed =>
        /\ \A p, q \in Operators : approving[p].kind = "letter" /\ approving[q].kind = "letter" => p = q
        /\ letters # <<>> => \A p \in Operators : approving[p].kind # "letter"
  BY DEF FindingsInv, LettersAreFew
<1>9. ASSUME "letter" \notin crossed'
      PROVE  /\ \A p, q \in Operators : approving'[p].kind = "letter" /\ approving'[q].kind = "letter" => p = q
             /\ letters # <<>> => \A p \in Operators : approving'[p].kind # "letter"
  <2>1. "letter" \notin crossed
    BY <1>7, <1>9
  <2>2. CASE d.kind = "letter"
    <3>1. ASSUME NEW q \in Operators \ {o} PROVE approving[q].kind # "letter"
      BY <1>7, <1>9, <2>2
    <3>2. \A p \in Operators : approving'[p].kind = "letter" => p = o
      BY <1>3, <3>1
    <3> QED BY <2>2, <3>2
  <2>3. CASE d.kind # "letter"
    <3>1. \A p \in Operators : approving'[p].kind = "letter" => approving[p].kind = "letter"
      BY <1>3, <2>3
    <3> QED BY <1>8, <2>1, <3>1
  <2> QED BY <2>2, <2>3
<1>10. crossed \subseteq crossed'
  BY <1>7
<1> QED BY <1>2, <1>4, <1>5, <1>6, <1>9, <1>10, TablesStand

(* What the rule found in the evidence is what the finding says. *)
LEMMA RuleSaysSo ==
  ASSUME FindingsTypeOK, FindingsInv, NEW cited \in SUBSET EvidenceIds, NEW run, run = latestCaptureRun,
         validateDeterministicFinding(cited, run), NEW f, f = [run |-> run, evidence |-> cited, approvedAt |-> today]
  PROVE  run \in DOMAIN captured /\ run \in Nat /\ FindingHolds(f)
<1>1. captured \in Seq(Nat) /\ Len(captured) \in 1..Len(RunIsAware) /\ Len(RunIsAware) \in Nat
  BY FindingLimits DEF FindingsTypeOK, FindingsInv, FindingTables
<1>2. run = Len(captured) /\ run \in Nat /\ run \in DOMAIN captured /\ run \in DOMAIN RunIsAware
  BY <1>1, FindingLimits DEF latestCaptureRun
<1>3. discoverBooking(run) = "NO_ONLINE_BOOKING" /\ cited \cap bookingSignals(run, "intent") # {}
  BY DEF validateDeterministicFinding, supportBookingFriction
<1>4. bookingSignals(run, "direct") = {} /\ RunIsAware[run]
  BY <1>3 DEF discoverBooking
<1>5. \A id \in EvidenceIds : Evidence[id] \in DeterministicEvidenceRow
  BY FindingLimits
<1> DEFINE leads == {id \in EvidenceIds : Evidence[id].run = run /\ Evidence[id].type \in {"cta", "link", "form"}}
<1>6. ASSUME NEW id \in leads PROVE Evidence[id].goes \notin {"route", "provider"}
  <2>1. id \notin bookingSignals(run, "direct")
    BY <1>4
  <2>2. classify(Evidence[id]) # "direct"
    BY <1>6, <2>1 DEF bookingSignals, loadRunEvidence, BOOKING_SCANNED_EVIDENCE_TYPES
  <2> QED BY <1>6, <2>2 DEF classify, goesTo
<1>7. \E id \in cited \cap leads : Evidence[id].says /\ Evidence[id].goes = "page"
  <2>1. PICK id \in cited : id \in bookingSignals(run, "intent")
    BY <1>3
  <2>2. /\ id \in EvidenceIds /\ Evidence[id].run = run /\ Evidence[id].type \in BOOKING_SCANNED_EVIDENCE_TYPES
        /\ classify(Evidence[id]) = "intent"
    BY <2>1 DEF bookingSignals, loadRunEvidence
  <2>3. saysBook(Evidence[id]) /\ goesTo(Evidence[id]) \notin {"nowhere", "route", "provider"}
    BY <2>2 DEF classify
  <2>4. Evidence[id].type \in {"cta", "form"} /\ Evidence[id].says
    BY <2>2, <2>3 DEF saysBook, goesTo, BOOKING_SCANNED_EVIDENCE_TYPES
  <2>5. Evidence[id].goes = "page"
    BY <1>5, <2>2, <2>3, <2>4 DEF goesTo, DeterministicEvidenceRow
  <2> QED BY <2>2, <2>4, <2>5
<1>8. \A id \in cited : Evidence[id].lead = Lead /\ Evidence[id].run = run
  BY DEF validateDeterministicFinding, ownedEvidence
<1>9. today - captured[run] < MaxAge
  BY DEF validateDeterministicFinding, isCaptureFresh
<1> QED BY <1>2, <1>4, <1>6, <1>7, <1>8, <1>9 DEF FindingHolds

LEMMA ApproveFindingStep ==
  ASSUME FindingsTypeOK, FindingsInv, NEW o \in Operators, NEW cited \in SUBSET EvidenceIds, approveFinding(o, cited)
  PROVE  FindingsTypeOK' /\ FindingsInv'
<1>1. PICK run, f, d : /\ run = latestCaptureRun /\ f = [run |-> run, evidence |-> cited, approvedAt |-> today]
                       /\ d = [AtEase EXCEPT !.kind = "finding", !.to = "OUTREACH_READY_DETERMINISTIC", !.cited = cited,
                                             !.run = run, !.seen = today]
  OBVIOUS
<1>2. run \in DOMAIN captured /\ run \in Nat /\ FindingHolds(f)
  BY <1>1, RuleSaysSo DEF approveFinding
<1>3. today \in Nat
  BY FindingLimits DEF FindingsTypeOK
<1>4. d \in Approval
  BY <1>1, <1>2, <1>3, EasySession DEF Approval
<1>5. d.kind = "finding" /\ d.to = "OUTREACH_READY_DETERMINISTIC" /\ d.run = run /\ findingRow(d) = f
  BY <1>1 DEF AtEase, findingRow
<1>6. ApprovalIsSound(d)
  BY <1>2, <1>5 DEF ApprovalIsSound
<1>7. beginApproval(o, d)
  BY <1>1 DEF approveFinding
<1> QED BY <1>4, <1>5, <1>6, <1>7, SessionBegins

LEMMA ApproveLetterStep ==
  ASSUME FindingsTypeOK, FindingsInv, NEW o \in Operators, NEW n \in DOMAIN findings, NEW mail \in Mails,
         approveLetter(o, n, mail)
  PROVE  FindingsTypeOK' /\ FindingsInv'
<1>1. PICK d : d = [AtEase EXCEPT !.kind = "letter", !.to = "READY_FOR_HUMAN_APPROVAL", !.finding = n, !.mail = mail,
                                  !.cited = listFindingEvidenceIds(n)]
  OBVIOUS
<1>2. findings \in Seq(FindingRows) /\ n \in Nat
  BY DEF FindingsInv, FindingTables
<1>3. findings[n] \in FindingRows
  BY <1>2
<1>4. listFindingEvidenceIds(n) \in SUBSET EvidenceIds /\ listFindingEvidenceIds(n) = findings[n].evidence
  BY <1>3 DEF listFindingEvidenceIds, FindingRows
<1>5. d \in Approval
  BY <1>1, <1>2, <1>4, EasySession DEF Approval
<1>6. /\ d.kind = "letter" /\ d.to = "READY_FOR_HUMAN_APPROVAL" /\ d.finding = n /\ d.mail = mail
      /\ d.cited = findings[n].evidence
  BY <1>1, <1>4 DEF AtEase
<1>7. ApprovalIsSound(d)
  BY <1>6 DEF ApprovalIsSound, approveLetter
<1>8. letters = <<>>
  BY DEF approveLetter, FindingsInv, LettersAreFew
<1>9. beginApproval(o, d)
  BY <1>1 DEF approveLetter
<1> QED BY <1>5, <1>7, <1>8, <1>9, SessionBegins

LEMMA OtherCommands ==
  ASSUME FindingsTypeOK, FindingsInv, NEW o \in Operators, requeue(o) \/ rejectLead(o)
  PROVE  FindingsTypeOK' /\ FindingsInv'
<1>1. PICK d : /\ beginApproval(o, d)
               /\ \/ d = [AtEase EXCEPT !.kind = "requeue", !.to = "READY_FOR_AUDIT"]
                  \/ d = [AtEase EXCEPT !.kind = "reject", !.to = planRejectionPath(standing)]
  BY DEF requeue, rejectLead
<1>2. planRejectionPath(standing) \in {"REJECTED", "NEEDS_MANUAL_REVIEW"}
  BY DEF planRejectionPath
<1>3. d \in Approval /\ d.kind \in {"requeue", "reject"} /\ d.to \in {"READY_FOR_AUDIT", "NEEDS_MANUAL_REVIEW", "REJECTED"}
  <2>1. d \in Approval
    BY <1>1, <1>2, EasySession DEF Approval
  <2> QED BY <1>1, <1>2, <2>1 DEF AtEase
<1>4. ApprovalIsSound(d)
  BY <1>3 DEF ApprovalIsSound
<1> QED BY <1>1, <1>3, <1>4, SessionBegins

LEMMA CheckStep ==
  ASSUME FindingsTypeOK, FindingsInv, NEW o \in Operators, checkTransition(o)
  PROVE  FindingsTypeOK' /\ FindingsInv'
<1>1. UNCHANGED <<standing, captured, findings, letters, today, crossed>> /\ standing' \in LeadStatuses
  BY DEF checkTransition, FindingsTypeOK, LeadStatuses
<1>2. CASE giveUpApproval(o)
  BY <1>1, <1>2, GivesUp
<1>3. CASE approving' = [approving EXCEPT ![o].checked = TRUE]
  <2>1. PICK d : d = [approving[o] EXCEPT !.checked = TRUE]
    OBVIOUS
  <2>2. approving[o] \in Approval /\ ApprovalIsSound(approving[o])
    BY DEF FindingsInv, FindingTables
  <2>3. d \in Approval
    BY <2>1, <2>2 DEF Approval
  <2>4. /\ d.kind = approving[o].kind /\ d.to = approving[o].to /\ d.mail = approving[o].mail /\ d.run = approving[o].run
        /\ d.finding = approving[o].finding /\ d.cited = approving[o].cited /\ d.seen = approving[o].seen
    BY <2>1, <2>2 DEF Approval
  <2>5. ApprovalIsSound(d)
    BY <2>2, <2>4 DEF ApprovalIsSound, findingRow
  <2>6. approving' = [approving EXCEPT ![o] = d]
    BY <1>3, <2>1
  <2> QED BY <1>1, <2>3, <2>4, <2>5, <2>6, SessionMoves
<1> QED BY <1>2, <1>3 DEF checkTransition

LEMMA DiesStep ==
  ASSUME FindingsTypeOK, FindingsInv, NEW o \in Operators, approvalDies(o)
  PROVE  FindingsTypeOK' /\ FindingsInv'
<1>1. UNCHANGED <<standing, captured, findings, letters, today, crossed>> /\ standing' \in LeadStatuses /\ giveUpApproval(o)
  BY DEF approvalDies, FindingsTypeOK, LeadStatuses
<1> QED BY <1>1, GivesUp

LEMMA WriteStatusStep ==
  ASSUME FindingsTypeOK, FindingsInv, NEW o \in Operators, writeStatus(o)
  PROVE  FindingsTypeOK' /\ FindingsInv'
<1>1. PICK s : s = approving[o]
  OBVIOUS
<1>2. s \in Approval /\ ApprovalIsSound(s) /\ s.kind \in {"requeue", "reject"}
  BY <1>1 DEF FindingsInv, FindingTables, writeStatus
<1>3. /\ standing' \in LeadStatuses
      /\ standing' \notin {"OUTREACH_READY_DETERMINISTIC", "READY_FOR_HUMAN_APPROVAL"}
  BY <1>1, <1>2 DEF writeStatus, ApprovalIsSound, LeadStatuses
<1>4. UNCHANGED <<captured, findings, letters, today, crossed>>
  BY DEF writeStatus
<1>5. CASE giveUpApproval(o)
  BY <1>3, <1>4, <1>5, GivesUp
<1>6. CASE approving' = [approving EXCEPT ![o].to = "REJECTED", ![o].checked = FALSE]
  <2>1. PICK d : d = [s EXCEPT !.to = "REJECTED", !.checked = FALSE]
    OBVIOUS
  <2>2. d \in Approval /\ d.kind = s.kind /\ d.to = "REJECTED"
    BY <1>2, <2>1 DEF Approval
  <2>3. ApprovalIsSound(d)
    BY <1>2, <2>2 DEF ApprovalIsSound
  <2>4. approving' = [approving EXCEPT ![o] = d]
    BY <1>1, <1>6, <2>1 DEF FindingsInv, FindingTables
  <2> QED BY <1>1, <1>3, <1>4, <2>2, <2>3, <2>4, SessionMoves
<1> QED BY <1>5, <1>6 DEF writeStatus

(* The first finding of the lead: no letter, and no command about to store one, rests on a finding yet. *)
LEMMA FirstFinding ==
  ASSUME FindingsTypeOK, FindingsInv, NEW o \in Operators, NEW s, s = approving[o], s.kind = "finding", activeIsFree,
         findings' = insertApproved(s), standing' = s.to, giveUpApproval(o),
         UNCHANGED <<captured, letters, today, crossed>>
  PROVE  FindingsTypeOK' /\ FindingsInv'
<1>1. PICK f : f = findingRow(s)
  OBVIOUS
<1>2. s \in Approval /\ ApprovalIsSound(s) /\ approving \in [Operators -> Approval]
  BY DEF FindingsInv, FindingTables
<1>3. /\ f \in FindingRows /\ f.run \in DOMAIN captured /\ FindingHolds(f) /\ f.evidence \subseteq EvidenceIds
      /\ standing' = "OUTREACH_READY_DETERMINISTIC"
  <2>1. f \in FindingRows /\ f.run = s.run /\ f.evidence \subseteq EvidenceIds
    BY <1>1, <1>2 DEF findingRow, FindingRows, Approval
  <2> QED BY <1>1, <1>2, <2>1 DEF ApprovalIsSound
<1>4. findings = <<>> /\ letters = <<>>
  BY DEF activeIsFree, FindingsInv, LettersAreFew
<1>5. findings' = <<f>> /\ Len(findings') = 1 /\ DOMAIN findings' = {1} /\ findings'[1] = f /\ findings' # <<>>
  BY <1>1, <1>4 DEF insertApproved
<1>6. findings' \in Seq(FindingRows)
  BY <1>3, <1>5
<1>7. approving' = [approving EXCEPT ![o] = AtEase]
  BY DEF giveUpApproval
<1>8. approving' \in [Operators -> Approval] /\ \A p \in Operators : approving'[p] = IF p = o THEN AtEase ELSE approving[p]
  BY <1>2, <1>7, EasySession
<1>9. DOMAIN findings = {}
  BY <1>4
<1>10. \A p \in Operators : approving[p].kind # "letter"
  BY <1>9 DEF FindingsInv, ApprovalIsSound
<1>11. \A p \in Operators : approving'[p].kind # "letter"
  BY <1>8, <1>10, EasySession
<1>12. letters' = <<>> /\ DOMAIN letters' = {} /\ Len(letters') = 0
  BY <1>4
<1>13. FindingsTypeOK'
  BY <1>3, <1>5, <1>12 DEF FindingsTypeOK
<1>14. FindingTables'
  BY <1>6, <1>8 DEF FindingsInv, FindingTables
<1>15. ASSUME NEW p \in Operators PROVE ApprovalIsSound(approving[p])'
  <2>1. PICK d : d = approving'[p] /\ d.kind # "letter" /\ (d = AtEase \/ d = approving[p])
    BY <1>8, <1>11
  <2>2. ApprovalIsSound(d)
    BY <2>1 DEF ApprovalIsSound, FindingsInv, AtEase
  <2>3. ApprovalIsSound(d)'
    BY <2>1, <2>2 DEF ApprovalIsSound, FindingHolds
  <2> QED BY <2>1, <2>3 DEF ApprovalIsSound, FindingHolds
<1>16. LettersAreFew'
  BY <1>5, <1>11, <1>12 DEF LettersAreFew
<1>17. FindingsHold'
  BY <1>3, <1>5 DEF FindingsHold, FindingHolds
<1>18. StatusHasItsRows'
  BY <1>3, <1>5 DEF StatusHasItsRows, resolveComposerFindings
<1>19. LettersRestOnFindings'
  BY <1>12 DEF LettersRestOnFindings
<1> QED BY <1>13, <1>14, <1>15, <1>16, <1>17, <1>18, <1>19 DEF FindingsInv

LEMMA CommitFindingStep ==
  ASSUME FindingsTypeOK, FindingsInv, NEW o \in Operators, commitFinding(o)
  PROVE  FindingsTypeOK' /\ FindingsInv'
<1>1. UNCHANGED <<captured, letters, today, crossed>> /\ giveUpApproval(o) /\ approving[o].kind = "finding"
  BY DEF commitFinding
<1>2. CASE activeIsFree
  BY <1>1, <1>2, FirstFinding DEF commitFinding
<1>3. CASE ~ activeIsFree
  <2>1. UNCHANGED <<findings, standing>> /\ standing' \in LeadStatuses
    BY <1>3 DEF commitFinding, FindingsTypeOK, LeadStatuses
  <2> QED BY <1>1, <2>1, GivesUp
<1> QED BY <1>2, <1>3

(* An e-mail is stored with the finding it was read against. *)
LEMMA CommitLetterStep ==
  ASSUME FindingsTypeOK, FindingsInv, NEW o \in Operators, commitLetter(o)
  PROVE  FindingsTypeOK' /\ FindingsInv'
<1>1. PICK s, l : s = approving[o] /\ l = [mail |-> s.mail, hash |-> computeOperatorEmailHash(s.finding, s.mail, s.cited)]
  OBVIOUS
<1>2. s \in Approval /\ ApprovalIsSound(s) /\ s.kind = "letter" /\ approving \in [Operators -> Approval]
  BY <1>1 DEF FindingsInv, FindingTables, commitLetter
<1>3. /\ s.to = "READY_FOR_HUMAN_APPROVAL" /\ s.mail \in Mails /\ validateOperatorEmail(s.mail)
      /\ s.finding \in DOMAIN findings /\ s.cited = findings[s.finding].evidence
  BY <1>2 DEF ApprovalIsSound
<1>4. /\ letters' = Append(letters, l) /\ standing' = s.to /\ giveUpApproval(o)
      /\ UNCHANGED <<captured, findings, today, crossed>>
  BY <1>1 DEF commitLetter
<1>5. s.mail \in OperatorEmailInput /\ s.finding \in Nat /\ s.cited \in SUBSET EvidenceIds
  BY <1>2, <1>3, FindingLimits DEF Approval
<1>6. /\ l.mail = s.mail /\ l.hash = <<s.finding, s.mail, s.cited>> /\ l \in Letters
  BY <1>1, <1>5 DEF computeOperatorEmailHash, Letters
<1>7. l.mail.breaks = {} /\ l.mail.words \in 1..OPERATOR_MAX_EMAIL_WORDS
  BY <1>3, <1>6 DEF validateOperatorEmail
<1>8. letters \in Seq(Letters)
  BY DEF FindingsInv, FindingTables
<1>9. /\ letters' \in Seq(Letters) /\ Len(letters') = Len(letters) + 1 /\ letters' # <<>>
      /\ \A n \in DOMAIN letters' : letters'[n] = l \/ (n \in DOMAIN letters /\ letters'[n] = letters[n])
  BY <1>4, <1>6, <1>8
<1>10. approving' = [approving EXCEPT ![o] = AtEase]
  BY <1>4 DEF giveUpApproval
<1>11. approving' \in [Operators -> Approval] /\ \A p \in Operators : approving'[p] = IF p = o THEN AtEase ELSE approving[p]
  BY <1>2, <1>10, EasySession
<1>12. findings # <<>>
  BY <1>3
<1>13. FindingsTypeOK'
  BY <1>3, <1>4, <1>5, <1>6, <1>9 DEF FindingsTypeOK
<1>14. FindingTables'
  BY <1>4, <1>9, <1>11 DEF FindingsInv, FindingTables
<1>15. ASSUME NEW p \in Operators PROVE ApprovalIsSound(approving[p])'
  <2>1. PICK d : d = approving'[p] /\ (d = AtEase \/ d = approving[p])
    BY <1>11
  <2>2. ApprovalIsSound(d)
    BY <2>1 DEF ApprovalIsSound, FindingsInv, AtEase
  <2>3. ApprovalIsSound(d)'
    BY <1>4, <2>2 DEF ApprovalIsSound, FindingHolds
  <2> QED BY <2>1, <2>3 DEF ApprovalIsSound, FindingHolds
<1>16. LettersAreFew'
  <2>1. ASSUME "letter" \notin crossed' PROVE \A p \in Operators : approving'[p].kind # "letter"
    <3>1. \A p, q \in Operators : approving[p].kind = "letter" /\ approving[q].kind = "letter" => p = q
      BY <1>4, <2>1 DEF FindingsInv, LettersAreFew
    <3> QED BY <1>1, <1>2, <1>11, <3>1, EasySession
  <2>2. Len(findings) <= 1
    BY DEF FindingsInv, LettersAreFew
  <2> QED BY <1>3, <1>4, <1>12, <2>1, <2>2 DEF LettersAreFew
<1>17. FindingsHold'
  BY <1>4 DEF FindingsInv, FindingsHold, FindingHolds
<1>18. StatusHasItsRows'
  BY <1>3, <1>4, <1>9 DEF StatusHasItsRows
<1>19. LettersRestOnFindings'
  <2>1. ASSUME NEW n \in DOMAIN letters'
        PROVE  /\ letters'[n].mail.breaks = {} /\ letters'[n].mail.words \in 1..OPERATOR_MAX_EMAIL_WORDS
               /\ \E m \in DOMAIN findings : letters'[n].hash = <<m, letters'[n].mail, findings[m].evidence>>
    <3>1. CASE letters'[n] = l
      BY <1>3, <1>6, <1>7, <3>1
    <3>2. CASE n \in DOMAIN letters /\ letters'[n] = letters[n]
      BY <3>2 DEF FindingsInv, LettersRestOnFindings
    <3> QED BY <1>9, <3>1, <3>2
  <2>2. ASSUME "letter" \notin crossed' PROVE Len(letters') <= 1
    <3>1. letters # <<>> => \A p \in Operators : approving[p].kind # "letter"
      BY <1>4, <2>2 DEF FindingsInv, LettersAreFew
    <3>2. letters = <<>>
      BY <1>1, <1>2, <3>1
    <3> QED BY <1>9, <3>2
  <2> QED BY <1>4, <2>1, <2>2 DEF LettersRestOnFindings
<1> QED BY <1>13, <1>14, <1>15, <1>16, <1>17, <1>18, <1>19 DEF FindingsInv

(* The lead or the day moves on, and no session does. *)
LEMMA LeadMoves ==
  ASSUME FindingsTypeOK, FindingsInv, UNCHANGED <<captured, findings, letters, approving, crossed>>,
         standing' \in LeadStatuses, standing' \in {"OUTREACH_READY_DETERMINISTIC", "READY_FOR_HUMAN_APPROVAL"} => standing' = standing,
         today' \in 0..MaxDay
  PROVE  FindingsTypeOK' /\ FindingsInv'
<1>1. approving' \in [Operators -> Approval] /\ \A o \in Operators : ApprovalIsSound(approving'[o])
  BY DEF FindingsInv, FindingTables
<1>2. "letter" \notin crossed' =>
        /\ \A o, p \in Operators : approving'[o].kind = "letter" /\ approving'[p].kind = "letter" => o = p
        /\ letters # <<>> => \A o \in Operators : approving'[o].kind # "letter"
  BY DEF FindingsInv, LettersAreFew
<1> QED BY <1>1, <1>2, TablesStand

LEMMA LeadStep ==
  ASSUME FindingsTypeOK, FindingsInv,
         \/ recaptureBegins \/ findingsNextDay
         \/ \E offer \in {"unsafe", "safe"}, to \in {"NEEDS_MANUAL_REVIEW", "OPPORTUNITY_READY"} : auditEnds(to, offer)
  PROVE  FindingsTypeOK' /\ FindingsInv'
<1>1. UNCHANGED <<captured, findings, letters, approving, crossed>>
  BY DEF recaptureBegins, findingsNextDay, auditEnds
<1>2. today' \in 0..MaxDay
  BY FindingLimits DEF recaptureBegins, findingsNextDay, auditEnds, FindingsTypeOK
<1>3. /\ standing' \in LeadStatuses
      /\ standing' \in {"OUTREACH_READY_DETERMINISTIC", "READY_FOR_HUMAN_APPROVAL"} => standing' = standing
  BY DEF recaptureBegins, findingsNextDay, auditEnds, moveLead, FindingsTypeOK, LeadStatuses
<1> QED BY <1>1, <1>2, <1>3, LeadMoves

(* A new capture is added: what holds of the earlier ones stands. *)
LEMMA RecaptureEndsStep ==
  ASSUME FindingsTypeOK, FindingsInv, recaptureEnds
  PROVE  FindingsTypeOK' /\ FindingsInv'
<1>1. /\ captured' = Append(captured, today) /\ standing' = "NEEDS_MANUAL_REVIEW" /\ Len(captured) < Len(RunIsAware)
      /\ UNCHANGED <<findings, letters, approving, today, crossed>>
  BY DEF recaptureEnds, moveLead
<1>2. captured \in Seq(Nat) /\ today \in Nat
  BY FindingLimits DEF FindingsInv, FindingTables, FindingsTypeOK
<1>3. /\ captured' \in Seq(Nat) /\ Len(captured') = Len(captured) + 1 /\ DOMAIN captured \subseteq DOMAIN captured'
      /\ \A n \in DOMAIN captured : captured'[n] = captured[n]
  BY <1>1, <1>2
<1>4. FindingsTypeOK'
  BY <1>1, <1>3, FindingLimits DEF FindingsTypeOK
<1>5. FindingTables'
  BY <1>1, <1>3 DEF FindingsInv, FindingTables
<1>6. ASSUME NEW o \in Operators PROVE ApprovalIsSound(approving[o])'
  <2>1. PICK d : d = approving[o] /\ d = approving'[o]
    BY <1>1
  <2>2. ApprovalIsSound(d)
    BY <2>1 DEF FindingsInv
  <2>3. ASSUME d.kind = "finding" PROVE d.run \in DOMAIN captured' /\ FindingHolds(findingRow(d))'
    <3>1. PICK f : f = findingRow(d)
      OBVIOUS
    <3>2. f.run \in DOMAIN captured /\ FindingHolds(f) /\ f.run = d.run
      BY <2>2, <2>3, <3>1 DEF ApprovalIsSound, findingRow
    <3>3. FindingHolds(f)'
      BY <1>3, <3>2, FindingStays
    <3> QED BY <1>3, <3>1, <3>2, <3>3 DEF FindingHolds, findingRow
  <2>4. ApprovalIsSound(d)'
    BY <1>1, <2>2, <2>3 DEF ApprovalIsSound
  <2> QED BY <2>1, <2>4 DEF ApprovalIsSound, FindingHolds
<1>7. LettersAreFew'
  BY <1>1 DEF FindingsInv, LettersAreFew
<1>8. FindingsHold'
  <2>1. ASSUME NEW n \in DOMAIN findings PROVE FindingHolds(findings[n])'
    <3>1. PICK f : f = findings[n] /\ f = findings'[n]
      BY <1>1
    <3>2. FindingHolds(f) /\ f.run \in DOMAIN captured
      BY <3>1 DEF FindingsInv, FindingsHold, FindingsTypeOK
    <3>3. FindingHolds(f)'
      BY <1>3, <3>2, FindingStays
    <3> QED BY <3>1, <3>3 DEF FindingHolds
  <2> QED BY <1>1, <2>1 DEF FindingsHold
<1>9. StatusHasItsRows'
  BY <1>1 DEF StatusHasItsRows
<1>10. LettersRestOnFindings'
  BY <1>1 DEF FindingsInv, LettersRestOnFindings
<1> QED BY <1>4, <1>5, <1>6, <1>7, <1>8, <1>9, <1>10 DEF FindingsInv

LEMMA FindingsBegin == FindingsInit => FindingsTypeOK /\ FindingsInv
<1> SUFFICES ASSUME FindingsInit PROVE FindingsTypeOK /\ FindingsInv
  OBVIOUS
<1> USE DEF FindingsInit
<1>1. captured \in Seq(Nat) /\ Len(captured) = 1 /\ findings \in Seq(FindingRows) /\ letters \in Seq(Letters)
  OBVIOUS
<1>2. findings = <<>> /\ letters = <<>> /\ DOMAIN findings = {} /\ DOMAIN letters = {} /\ Len(letters) = 0 /\ Len(findings) = 0
  OBVIOUS
<1>3. Len(RunIsAware) \in Nat /\ Len(RunIsAware) >= 1
  BY FindingLimits
<1>4. FindingsTypeOK
  BY <1>1, <1>2, <1>3, FindingLimits DEF FindingsTypeOK
<1>5. FindingTables
  BY <1>1, EasySession DEF FindingTables
<1>6. \A o \in Operators : ApprovalIsSound(approving[o])
  BY DEF ApprovalIsSound, AtEase
<1>7. LettersAreFew
  BY <1>2, EasySession DEF LettersAreFew
<1>8. FindingsHold /\ StatusHasItsRows /\ LettersRestOnFindings
  BY <1>2 DEF FindingsHold, StatusHasItsRows, LettersRestOnFindings
<1> QED BY <1>4, <1>5, <1>6, <1>7, <1>8 DEF FindingsInv

LEMMA FindingsInductive == FindingsTypeOK /\ FindingsInv /\ [FindingsNext]_findingVars => FindingsTypeOK' /\ FindingsInv'
<1> SUFFICES ASSUME FindingsTypeOK, FindingsInv, [FindingsNext]_findingVars PROVE FindingsTypeOK' /\ FindingsInv'
  OBVIOUS
<1>1. CASE UNCHANGED findingVars
  <2>1. UNCHANGED <<captured, findings, letters, approving, crossed, standing, today>>
    BY <1>1 DEF findingVars
  <2>2. standing' \in LeadStatuses /\ today' \in 0..MaxDay
    BY <2>1 DEF FindingsTypeOK, LeadStatuses
  <2> QED BY <2>1, <2>2, LeadMoves
<1>2. CASE FindingsNext
  <2>1. ASSUME NEW o \in Operators, NEW cited \in SUBSET EvidenceIds, approveFinding(o, cited) PROVE FindingsTypeOK' /\ FindingsInv'
    BY <2>1, ApproveFindingStep
  <2>2. ASSUME NEW o \in Operators, NEW n \in DOMAIN findings, NEW mail \in Mails, approveLetter(o, n, mail)
        PROVE  FindingsTypeOK' /\ FindingsInv'
    BY <2>2, ApproveLetterStep
  <2>3. ASSUME NEW o \in Operators,
               \/ checkTransition(o) \/ commitFinding(o) \/ commitLetter(o)
               \/ requeue(o) \/ rejectLead(o) \/ writeStatus(o) \/ approvalDies(o)
        PROVE  FindingsTypeOK' /\ FindingsInv'
    BY <2>3, CheckStep, CommitFindingStep, CommitLetterStep, OtherCommands, WriteStatusStep, DiesStep
  <2> QED BY <1>2, <2>1, <2>2, <2>3, LeadStep, RecaptureEndsStep DEF FindingsNext
<1> QED BY <1>1, <1>2

(* Findings and operator e-mails: in every state the tables and every command
   under way agree with the captures (FindingsInv), so what
   deterministic-finding-approve and operator-email-approve read before their
   transactions is still true of the rows these write, for any number of
   operators, captures and evidence rows. *)
THEOREM FindingsInvariant == FindingsSpec => [](FindingsTypeOK /\ FindingsInv)
<1> QED BY FindingsBegin, FindingsInductive, PTL DEF FindingsSpec

(* What an operator approves rests on captures that show it, a lead's status
   has the rows it stands for, and a stored e-mail passed the copy rules and
   reproduces from its finding (approve commands and their repositories). *)
THEOREM FindingsAreSound == FindingsSpec => []FindingsSound
<1>1. FindingsTypeOK /\ FindingsInv => FindingsSound
  BY DEF FindingsInv, FindingsSound
<1> QED BY <1>1, FindingsInvariant, PTL

=============================================================================
