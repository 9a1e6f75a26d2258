------------------------------- MODULE Outreach -------------------------------
(***************************************************************************)
(* The outreach sequence: one record per tracked contact, walked from the  *)
(* first e-mail through FinalStep follow-ups while replies, bounces and    *)
(* operators interrupt it.                                                 *)
(*                                                                         *)
(* Sources: src/domain/outreach, src/domain/send/scheduled-send-runner.ts, *)
(* the outreach and follow-up repositories, the outreach_* tables and the  *)
(* commands that drive them (run-followup-automation, run-scheduled-sends, *)
(* outreach-enroll-sent, outreach).                                        *)
(*                                                                         *)
(* Workers are sessions of any of those commands.  PostgreSQL runs at READ *)
(* COMMITTED and no statement locks what it reads, so a transaction is a   *)
(* step that reads the record and a later step that writes: by id, as it   *)
(* decided on the status it saw, except for the promotion's compare-and-set*)
(* Writers of one record meet on outreach_events_record_seq_uk or on the   *)
(* row lock, so the writing step is atomic.                                *)
(*                                                                         *)
(* Left out: sequence_step, next_followup_at, owner and notes of a record, *)
(* which no decision reads, and the text of messages and events.           *)
(***************************************************************************)
EXTENDS Integers, Sequences, FiniteSets

CONSTANTS
  Leads, ContactOf,           \* leads and the recipient address of each
  Workers,                    \* sessions running the commands
  FinalStep,                  \* FINAL_FOLLOWUP_STEP, 3 in the code
  Classes,                    \* classifications an inbound reply may get
  OperatorTargets,            \* statuses an operator moves records to
  MaxRecords, MaxRows, MaxReplies, MaxBounces, MaxEdits, MaxCrashes,   \* bounds
  Nobody

ASSUME OutreachAssumption ==
  /\ FinalStep \in Nat \ {0}
  /\ {MaxRecords, MaxRows, MaxReplies, MaxBounces, MaxEdits, MaxCrashes} \subseteq Nat
  /\ Nobody \notin Leads
  /\ DOMAIN ContactOf = Leads

VARIABLES
  record,     \* outreach_records
  followup,   \* outreach_followups
  draft,      \* the latest email_drafts row of each follow-up
  lead,       \* the lead and the e-mail it carries through the pipeline
  mailed,     \* Gmail: the e-mails each lead received, in order
  message,    \* outreach_messages: the rows carrying each Gmail message id
  inbox,      \* Gmail: the replies that arrived
  reply,      \* outreach_replies
  bounce,     \* outreach_delivery_events
  worker,     \* local state of each session
  past,       \* history: what became of each record, see Past
  edits,      \* manual edits so far
  crashes     \* crashes and aborts so far

vars == <<record, followup, draft, lead, mailed, message, inbox, reply, bounce, worker,
          past, edits, crashes>>

allButWorker ==
  <<record, followup, draft, lead, mailed, message, inbox, reply, bounce, past, edits, crashes>>
budget == <<edits, crashes>>

Steps == 1..FinalStep
Records == 1..MaxRecords
Rows == 1..MaxRows
Replies == 1..MaxReplies
Bounces == 1..MaxBounces
MaxMails == FinalStep + 2

(***************************************************************************)
(* Statuses: <<name, 0>>, and <<"DUE", n>>, <<"SENT", n>> for              *)
(* FOLLOW_UP_n_DUE and FOLLOW_UP_n_SENT; <<"SENT", 0>> is INITIAL_SENT.    *)
(***************************************************************************)
St(name) == <<name, 0>>
Due(n) == <<"DUE", n>>
Sent(n) == <<"SENT", n>>

EnrollPath == {St("DRAFT_READY"), St("AWAITING_APPROVAL"), St("APPROVED_TO_SEND")}
InSequence == {Sent(n) : n \in 0..FinalStep} \cup {Due(n) : n \in Steps}
Replied == {St("REPLIED_POSITIVE"), St("REPLIED_NEUTRAL"), St("REPLIED_NEGATIVE")}
Terminal == {St("UNSUBSCRIBED"), St("DO_NOT_CONTACT"), St("CLOSED_WON"), St("CLOSED_LOST")}
SendBlocked == Terminal \cup {St("BOUNCED")}
NoFollowup == Replied \cup SendBlocked \cup {St("MEETING_BOOKED")}
Status == EnrollPath \cup InSequence \cup NoFollowup

HappyPath ==
  {<<St("DRAFT_READY"), St("AWAITING_APPROVAL")>>, <<St("AWAITING_APPROVAL"), St("DRAFT_READY")>>,
   <<St("AWAITING_APPROVAL"), St("APPROVED_TO_SEND")>>, <<St("APPROVED_TO_SEND"), Sent(0)>>,
   <<St("REPLIED_NEGATIVE"), St("CLOSED_LOST")>>}
  \cup {<<Sent(n - 1), Due(n)>> : n \in Steps} \cup {<<Due(n), Sent(n)>> : n \in Steps}
  \cup InSequence \X {St("MEETING_BOOKED"), St("CLOSED_LOST")}
  \cup {St("REPLIED_POSITIVE"), St("REPLIED_NEUTRAL")}
         \X {St("MEETING_BOOKED"), St("CLOSED_WON"), St("CLOSED_LOST")}
  \cup {St("MEETING_BOOKED")} \X {St("CLOSED_WON"), St("CLOSED_LOST")}

Interrupts == Replied \cup {St("BOUNCED"), St("UNSUBSCRIBED"), St("DO_NOT_CONTACT")}

canOutreachTransition(from, to) ==
  \/ <<from, to>> \in HappyPath
  \/ from \notin Terminal /\ to \in Interrupts \ {from}

classificationToStatus(class) ==
  CASE class = "positive" -> St("REPLIED_POSITIVE")
    [] class = "neutral" -> St("REPLIED_NEUTRAL")
    [] class = "negative" -> St("REPLIED_NEGATIVE")
    [] class = "bounce" -> St("BOUNCED")
    [] class = "unsubscribe" -> St("UNSUBSCRIBED")

optsOut(status) == status \in {St("UNSUBSCRIBED"), St("DO_NOT_CONTACT")}

ASSUME TargetsAssumption ==
  /\ OperatorTargets \subseteq Status
  /\ Classes \subseteq {"positive", "neutral", "negative", "bounce", "unsubscribe"}

(***************************************************************************)
(* State                                                                   *)
(***************************************************************************)
(* status <<"UNUSED", 0>>: no such row.  sent: last_sent_at is not null. *)
Record == [lead : Leads \cup {Nobody}, status : Status \cup {St("UNUSED")}, sent : BOOLEAN,
           dnc : BOOLEAN]

(* elapsed: due_at has passed.  afresh: the row is younger than the last
   rejection of the step's copy. *)
Followup == [rec : 0..MaxRecords, step : 0..FinalStep,
             status : {"UNUSED", "DUE", "POSTPONED", "CANCELLED", "SENT"},
             elapsed : BOOLEAN, afresh : BOOLEAN]

Lead == [status : {"SCHEDULED", "SENT", "READY_FOR_HUMAN_APPROVAL", "EMAIL_REVIEW_FAILED",
                   "HUMAN_APPROVED", "DRAFT_CREATED", "NEEDS_MANUAL_REVIEW"},
         step : 0..FinalStep, rec : 0..MaxRecords, finalized : BOOLEAN]

Mail == [step : 0..FinalStep, rec : 0..MaxRecords]

(* seq: how many e-mails the lead had received when it answered. *)
Inbound == [lead : Leads \cup {Nobody}, class : Classes \cup {"none"}, seq : Nat]

Op == {"idle", "cleared", "confirmed", "track", "tracked", "enroll", "transition", "schedule",
       "promote", "compose", "reply", "bounce"}

(* n is the mail, follow-up step, follow-up row, reply or bounce at hand. *)
Worker == [op : Op, lead : Leads \cup {Nobody}, rec : 0..MaxRecords,
           seen : Status \cup {St("UNUSED")}, to : Status \cup {St("UNUSED")}, n : Nat]

(* optedOut: an unsubscribe reply was stored, or an operator set UNSUBSCRIBED
   or DO_NOT_CONTACT.  blocked: an opt-out set do-not-contact.  reopened: the
   record left a status that forbids follow-ups.  byHand: an operator moved it
   to a status of the approval path or of the sequence. *)
Past == {"optedOut", "blocked", "reopened", "byHand"}

NoRecord == [lead |-> Nobody, status |-> St("UNUSED"), sent |-> FALSE, dnc |-> FALSE]
NoRow == [rec |-> 0, step |-> 0, status |-> "UNUSED", elapsed |-> FALSE, afresh |-> FALSE]
Idle == [op |-> "idle", lead |-> Nobody, rec |-> 0, seen |-> St("UNUSED"), to |-> St("UNUSED"), n |-> 0]

TypeOK ==
  /\ record \in [Records -> Record]
  /\ followup \in [Rows -> Followup]
  /\ draft \in [Records -> [Steps -> {"none", "pending", "approved", "rejected"}]]
  /\ lead \in [Leads -> Lead]
  /\ mailed \in [Leads -> Seq(Mail)]
  /\ message \in [Leads -> Seq(Seq(Records))]
  /\ inbox \in [Replies -> Inbound]
  /\ reply \in [Replies -> 0..MaxRecords]
  /\ bounce \in [Bounces -> [rec : 0..MaxRecords, superseded : BOOLEAN]]
  /\ worker \in [Workers -> Worker]
  /\ past \in [Records -> SUBSET Past]
  /\ edits \in 0..MaxEdits /\ crashes \in 0..MaxCrashes

(* Every lead has its first e-mail scheduled. *)
Init ==
  /\ record = [r \in Records |-> NoRecord]
  /\ followup = [f \in Rows |-> NoRow]
  /\ draft = [r \in Records |-> [s \in Steps |-> "none"]]
  /\ lead = [l \in Leads |-> [status |-> "SCHEDULED", step |-> 0, rec |-> 0, finalized |-> TRUE]]
  /\ mailed = [l \in Leads |-> <<>>]
  /\ message = [l \in Leads |-> <<>>]
  /\ inbox = [i \in Replies |-> [lead |-> Nobody, class |-> "none", seq |-> 0]]
  /\ reply = [i \in Replies |-> 0]
  /\ bounce = [b \in Bounces |-> [rec |-> 0, superseded |-> FALSE]]
  /\ worker = [w \in Workers |-> Idle]
  /\ past = [r \in Records |-> {}]
  /\ edits = 0 /\ crashes = 0

(***************************************************************************)
(* Queries                                                                 *)
(***************************************************************************)
used(r) == record[r].status # St("UNUSED")
active(r) == used(r) /\ record[r].status \notin Terminal

hasDoNotContact(contact) ==
  \E r \in Records : /\ used(r) /\ ContactOf[record[r].lead] = contact
                     /\ record[r].dnc \/ optsOut(record[r].status)

findActiveRecord(l) == {r \in Records : active(r) /\ record[r].lead = l}

pendingFollowups(r) == {f \in Rows : followup[f].rec = r /\ followup[f].status \in {"DUE", "POSTPONED"}}

(* outreach_followups_pending_uk *)
mayInsertRow(r, step) ==
  ~ \E f \in Rows : followup[f].rec = r /\ followup[f].step = step /\ followup[f].status = "DUE"

(* Mutant: no such index. *)
mayActivate_Always(r, status) == TRUE

(* outreach_records_active_uk, for a record about to leave a terminal status *)
mayActivate(r, status) ==
  status \in Terminal \/ findActiveRecord(record[r].lead) \subseteq {r}

freeRow == CHOOSE f \in Rows : followup[f].status = "UNUSED" /\
                               \A g \in Rows : followup[g].status = "UNUSED" => f <= g
haveRow == \E f \in Rows : followup[f].status = "UNUSED"

NewRow(r, step) == [rec |-> r, step |-> step, status |-> "DUE", elapsed |-> FALSE, afresh |-> TRUE]

cancelPending(r) ==
  [f \in Rows |-> IF f \in pendingFollowups(r) THEN [followup[f] EXCEPT !.status = "CANCELLED"]
                                               ELSE followup[f]]

(* followup-send-gate.ts *)
checkFollowupSendAllowed(r, step) == ~ record[r].dnc /\ record[r].status = Due(step)

reopening(r, to) ==
  {h \in {"reopened"} : record[r].status \in NoFollowup /\ to \notin NoFollowup}

optingOut(to, marked) ==
  IF optsOut(to) THEN IF marked THEN {"optedOut", "blocked"} ELSE {"optedOut"} ELSE {}

enrolledIn(l, r) == {i \in DOMAIN message[l] : \E k \in DOMAIN message[l][i] : message[l][i][k] = r}

Become(w, local) == worker' = [worker EXCEPT ![w] = local]
Finish(w) == Become(w, Idle)

(***************************************************************************)
(* Sending what is scheduled (run-scheduled-sends) and enrolling it        *)
(***************************************************************************)
(* Mutant: the suppression check of the preparation is taken to be enough. *)
stillAllowed_AsPrepared(l) == TRUE

(* The final suppression check; a first e-mail has none. *)
stillAllowed(l) == lead[l].step > 0 => checkFollowupSendAllowed(lead[l].rec, lead[l].step)

clearForSend(w, l) ==
  /\ worker[w].op = "idle" /\ lead[l].status = "SCHEDULED"
  /\ stillAllowed(l)
  /\ Become(w, [Idle EXCEPT !.op = "cleared", !.lead = l, !.rec = lead[l].rec, !.n = lead[l].step])
  /\ UNCHANGED allButWorker

(* SendService (ControlledSend): one session gets the e-mail out; a failure,
   an unknown outcome and the other sessions leave nothing to enrol. *)
SendMail(w) ==
  LET l == worker[w].lead IN
  /\ worker[w].op = "cleared"
  /\ \/ /\ lead[l].status = "SCHEDULED" /\ Len(mailed[l]) < MaxMails
        /\ mailed' = [mailed EXCEPT ![l] = Append(@, [step |-> lead[l].step, rec |-> lead[l].rec])]
        /\ message' = [message EXCEPT ![l] = Append(@, <<>>)]
        /\ lead' = [lead EXCEPT ![l].status = "SENT"]
        /\ Become(w, [Idle EXCEPT !.op = "confirmed", !.lead = l, !.n = Len(mailed[l]) + 1])
     \/ /\ lead' = [lead EXCEPT ![l].status = IF @ = "SCHEDULED" THEN "NEEDS_MANUAL_REVIEW" ELSE @]
        /\ Finish(w)
        /\ UNCHANGED <<mailed, message>>
  /\ UNCHANGED <<record, followup, draft, inbox, reply, bounce, past, budget>>

(* Mutant: the worklist joins on a schedule that is no longer active. *)
unenrolledConfirmedSends_Scheduled(w, l, i) ==
  /\ worker[w].op = "idle" /\ i \in DOMAIN message[l] /\ message[l][i] = <<>>
  /\ lead[l].status = "SCHEDULED"
  /\ Become(w, [Idle EXCEPT !.op = "confirmed", !.lead = l, !.n = i])
  /\ UNCHANGED allButWorker

(* Phase 0 of every run, and outreach-enroll-sent: a confirmed send that no
   message row carries.  The worklist limit of 50 is not reached. *)
unenrolledConfirmedSends(w, l, i) ==
  /\ worker[w].op = "idle" /\ i \in DOMAIN message[l] /\ message[l][i] = <<>>
  /\ Become(w, [Idle EXCEPT !.op = "confirmed", !.lead = l, !.n = i])
  /\ UNCHANGED allButWorker

(* track: blocked by do-not-contact, answered with the active record, or
   about to insert one. *)
trackRead(w) ==
  LET l == worker[w].lead
      found == findActiveRecord(l)
  IN
  /\ worker[w].op = "confirmed"
  /\ \/ hasDoNotContact(ContactOf[l]) /\ Finish(w)
     \/ /\ ~ hasDoNotContact(ContactOf[l])
        /\ \/ found = {} /\ Become(w, [worker[w] EXCEPT !.op = "track"])
           \/ \E r \in found : Become(w, [worker[w] EXCEPT !.op = "tracked", !.rec = r])
  /\ UNCHANGED allButWorker

insertRecord(w) ==
  LET l == worker[w].lead IN
  /\ worker[w].op = "track"
  /\ \/ findActiveRecord(l) # {} /\ Finish(w) /\ UNCHANGED record
     \/ /\ findActiveRecord(l) = {}
        /\ \E r \in Records :
             /\ ~ used(r) /\ \A q \in Records : ~ used(q) => r <= q
             /\ record' = [record EXCEPT ![r] = [lead |-> l, status |-> St("DRAFT_READY"),
                                                 sent |-> FALSE, dnc |-> FALSE]]
             /\ Become(w, [worker[w] EXCEPT !.op = "tracked", !.rec = r])
  /\ UNCHANGED <<followup, draft, lead, mailed, message, inbox, reply, bounce, past, budget>>

(* Mutant: the provenance of the e-mail is not compared with the record. *)
enrollable_AnyStep(r, mail) == record[r].status \in EnrollPath \/ \E n \in Steps : record[r].status = Due(n)

enrollConfirmedSend(r, mail) == mail.step = 0 /\ record[r].status \in EnrollPath

(* The provenance of the e-mail names the record and the step it waits on. *)
enrollConfirmedFollowup(r, mail) ==
  mail.step > 0 /\ mail.rec = r /\ record[r].status = Due(mail.step)

enrollable(r, mail) == enrollConfirmedSend(r, mail) \/ enrollConfirmedFollowup(r, mail)

(* The bridge routes on the provenance; ALREADY_ENROLLED,
   RECORD_NOT_ENROLLABLE, STEP_MISMATCH and a follow-up of another record
   write nothing. *)
enrollRead(w) ==
  LET l == worker[w].lead
      r == worker[w].rec
      i == worker[w].n
  IN
  /\ worker[w].op = "tracked"
  /\ IF message[l][i] = <<>> /\ enrollable(r, mailed[l][i])
     THEN Become(w, [worker[w] EXCEPT !.op = "enroll", !.seen = record[r].status])
     ELSE Finish(w)
  /\ UNCHANGED allButWorker

(* Mutant: no unique index on gmail_message_id. *)
messageIndexAdmits_Always(l, i) == TRUE

(* outreach_messages_gmail_message_uk *)
messageIndexAdmits(l, i) == message[l][i] = <<>>

(* The rows once e-mail `step` is enrolled: one pending row of the step is
   SENT, and the next step, if there is one, is scheduled. *)
advancedRows(r, step) ==
  LET mine == {f \in pendingFollowups(r) : followup[f].step = step}
      base == IF mine = {} THEN {followup} ELSE {[followup EXCEPT ![f].status = "SENT"] : f \in mine}
  IN IF step < FinalStep THEN {[b EXCEPT ![freeRow] = NewRow(r, step + 1)] : b \in base} ELSE base

(* Mutant: the record is written back whole, as it was when read. *)
enrolledRecord_Whole(rec, step) == [rec EXCEPT !.status = Sent(step), !.sent = TRUE, !.dnc = FALSE]

(* Mutant: the step before the e-mail's is recorded. *)
enrolledRecord_Behind(rec, step) == [rec EXCEPT !.status = Sent(step - 1), !.sent = TRUE]

enrolledRecord(rec, step) == [rec EXCEPT !.status = Sent(step), !.sent = TRUE]

(* Decided on the status read, whatever the record is now. *)
enrollCommit(w) ==
  LET l == worker[w].lead
      r == worker[w].rec
      i == worker[w].n
      step == mailed[l][i].step
      admitted == /\ messageIndexAdmits(l, i) /\ mayActivate(r, Sent(step))
                  /\ step < FinalStep => mayInsertRow(r, step + 1)
  IN
  /\ worker[w].op = "enroll"
  /\ step < FinalStep => haveRow
  /\ \/ ~ admitted /\ UNCHANGED <<record, followup, message, past>>
     \/ /\ admitted
        /\ message' = [message EXCEPT ![l][i] = Append(@, r)]
        /\ followup' \in advancedRows(r, step)
        /\ record' = [record EXCEPT ![r] = enrolledRecord(@, step)]
        /\ past' = [past EXCEPT ![r] = @ \cup reopening(r, Sent(step))]
  /\ Finish(w)
  /\ UNCHANGED <<draft, lead, mailed, inbox, reply, bounce, budget>>

(***************************************************************************)
(* Operators (outreach commands)                                           *)
(***************************************************************************)
transitionRead(w, r, to) ==
  /\ worker[w].op = "idle" /\ used(r)
  /\ canOutreachTransition(record[r].status, to)
  /\ Become(w, [Idle EXCEPT !.op = "transition", !.rec = r, !.seen = record[r].status, !.to = to])
  /\ UNCHANGED allButWorker

transitionCommit(w) ==
  LET r == worker[w].rec
      to == worker[w].to
  IN
  /\ worker[w].op = "transition"
  /\ \/ ~ mayActivate(r, to) /\ UNCHANGED <<record, followup, past>>
     \/ /\ mayActivate(r, to)
        /\ record' = [record EXCEPT ![r].status = to, ![r].dnc = @ \/ optsOut(to)]
        /\ followup' = IF to \in NoFollowup THEN cancelPending(r) ELSE followup
        /\ past' = [past EXCEPT ![r] = @ \cup reopening(r, to) \cup optingOut(to, TRUE)
                                          \cup {h \in {"byHand"} : to \notin NoFollowup}]
  /\ Finish(w)
  /\ UNCHANGED <<draft, lead, mailed, message, inbox, reply, bounce, budget>>

scheduleRead(w, r, step) ==
  /\ edits < MaxEdits /\ edits' = edits + 1
  /\ worker[w].op = "idle" /\ used(r)
  /\ record[r].status \notin NoFollowup /\ record[r].sent
  /\ Become(w, [Idle EXCEPT !.op = "schedule", !.rec = r, !.n = step])
  /\ UNCHANGED <<record, followup, draft, lead, mailed, message, inbox, reply, bounce, past, crashes>>

scheduleCommit(w) ==
  /\ worker[w].op = "schedule" /\ haveRow
  /\ followup' = IF mayInsertRow(worker[w].rec, worker[w].n)
                 THEN [followup EXCEPT ![freeRow] = NewRow(worker[w].rec, worker[w].n)]
                 ELSE followup
  /\ Finish(w)
  /\ UNCHANGED <<record, draft, lead, mailed, message, inbox, reply, bounce, past, budget>>

(* cancelFollowup and postponeFollowup, by id and whatever the row's status;
   the row keeps its due_at. *)
EditFollowup(f, status) ==
  /\ edits < MaxEdits /\ edits' = edits + 1
  /\ followup[f].status # "UNUSED"
  /\ followup' = [followup EXCEPT ![f].status = status]
  /\ UNCHANGED <<record, draft, lead, mailed, message, inbox, reply, bounce, worker, past, crashes>>

(* An e-mail sent outside the pipeline, with no Gmail message id. *)
recordMessage(r) ==
  /\ edits < MaxEdits /\ edits' = edits + 1
  /\ used(r)
  /\ record' = [record EXCEPT ![r].sent = TRUE]
  /\ UNCHANGED <<followup, draft, lead, mailed, message, inbox, reply, bounce, worker, past, crashes>>

(***************************************************************************)
(* Follow-up automation                                                    *)
(***************************************************************************)
DueTimePasses(f) ==
  /\ followup[f].status \in {"DUE", "POSTPONED"} /\ ~ followup[f].elapsed
  /\ followup' = [followup EXCEPT ![f].elapsed = TRUE]
  /\ UNCHANGED <<record, draft, lead, mailed, message, inbox, reply, bounce, worker, past, budget>>

dueRow(f) == followup[f].status = "DUE" /\ followup[f].elapsed

decideFollowupPromotion(f) ==
  LET r == followup[f].rec IN
  /\ dueRow(f)
  /\ ~ record[r].dnc
  /\ record[r].status = Sent(followup[f].step - 1)

promoteRead(w, f) ==
  /\ worker[w].op = "idle"
  /\ decideFollowupPromotion(f)
  /\ Become(w, [Idle EXCEPT !.op = "promote", !.rec = followup[f].rec,
                            !.seen = record[followup[f].rec].status, !.to = Due(followup[f].step)])
  /\ UNCHANGED allButWorker

(* Mutant: the promotion writes by id. *)
updateRecordIfStatus_ById(r, expected) == used(r)

(* Mutant: the promotion expects the status it is about to write. *)
updateRecordIfStatus_Target(r, expected) == record[r].status = Due(1)

updateRecordIfStatus(r, expected) == record[r].status = expected

promoteCommit(w) ==
  LET r == worker[w].rec IN
  /\ worker[w].op = "promote"
  /\ record' = IF updateRecordIfStatus(r, worker[w].seen) THEN [record EXCEPT ![r].status = worker[w].to]
                                                         ELSE record
  /\ Finish(w)
  /\ UNCHANGED <<followup, draft, lead, mailed, message, inbox, reply, bounce, past, budget>>

(* A due row whose copy is still to be written, or to be written again. *)
composable(f) ==
  LET r == followup[f].rec
      step == followup[f].step
  IN
  /\ dueRow(f)
  /\ checkFollowupSendAllowed(r, step)
  /\ draft[r][step] = "none" \/ (draft[r][step] = "rejected" /\ followup[f].afresh)
  /\ lead[record[r].lead].status = "SENT"

composeRead(w, f) ==
  /\ worker[w].op = "idle"
  /\ composable(f)
  /\ Become(w, [Idle EXCEPT !.op = "compose", !.rec = followup[f].rec, !.n = followup[f].step])
  /\ UNCHANGED allButWorker

(* Mutant: the migration 0044 index is missing. *)
draftIndexAdmits_Always(r, step) == TRUE

(* email_drafts_outreach_sequence_uk *)
draftIndexAdmits(r, step) == draft[r][step] \in {"none", "rejected"}

(* EmailWriterService minutes later: it stores the draft and, if the lead is
   still at SENT, moves it on (EmailApproval). *)
composeCommit(w) ==
  LET r == worker[w].rec
      step == worker[w].n
      l == record[r].lead
  IN
  /\ worker[w].op = "compose"
  /\ \/ ~ draftIndexAdmits(r, step) /\ UNCHANGED <<draft, lead>>
     \/ /\ draftIndexAdmits(r, step)
        /\ draft' = [draft EXCEPT ![r][step] = "pending"]
        /\ IF lead[l].status = "SENT"
           THEN \E s \in {"READY_FOR_HUMAN_APPROVAL", "EMAIL_REVIEW_FAILED"} :
                  lead' = [lead EXCEPT ![l] = [status |-> s, step |-> step, rec |-> r, finalized |-> FALSE]]
           ELSE UNCHANGED lead
  /\ Finish(w)
  /\ UNCHANGED <<record, followup, mailed, message, inbox, reply, bounce, past, budget>>

(* The preparation cancels the row of a rejected copy. *)
cancelRejected(f) ==
  LET r == followup[f].rec
      step == followup[f].step
  IN
  /\ dueRow(f)
  /\ checkFollowupSendAllowed(r, step)
  /\ draft[r][step] = "rejected" /\ ~ followup[f].afresh
  /\ followup' = [followup EXCEPT ![f].status = "CANCELLED"]
  /\ UNCHANGED <<record, draft, lead, mailed, message, inbox, reply, bounce, worker, past, budget>>

(* The human decision on the follow-up at hand; rejecting it returns the lead
   to SENT and makes the rows of the step older than the rejection. *)
decideEmail(l, decision) ==
  LET r == lead[l].rec
      step == lead[l].step
  IN
  /\ lead[l].status = "READY_FOR_HUMAN_APPROVAL"
  /\ draft' = [draft EXCEPT ![r][step] = decision]
  /\ lead' = [lead EXCEPT ![l].status = IF decision = "approved" THEN "HUMAN_APPROVED" ELSE "SENT"]
  /\ followup' = IF decision = "approved" THEN followup
                 ELSE [f \in Rows |-> IF followup[f].rec = r /\ followup[f].step = step
                                      THEN [followup[f] EXCEPT !.afresh = FALSE] ELSE followup[f]]
  /\ UNCHANGED <<record, mailed, message, inbox, reply, bounce, worker, past, budget>>

(* resume-email-review gives a refused follow-up its verdict. *)
resumeReview(l) ==
  /\ lead[l].status = "EMAIL_REVIEW_FAILED"
  /\ lead' = [lead EXCEPT ![l].status = "READY_FOR_HUMAN_APPROVAL"]
  /\ UNCHANGED <<record, followup, draft, mailed, message, inbox, reply, bounce, worker, past, budget>>

(* decideProgression: one stage per run, suppression checked each time. *)
progressionCandidate(l) ==
  /\ lead[l].step > 0 /\ draft[lead[l].rec][lead[l].step] = "approved"
  /\ checkFollowupSendAllowed(lead[l].rec, lead[l].step)

finalize(l) ==
  /\ lead[l].status = "HUMAN_APPROVED" /\ ~ lead[l].finalized
  /\ lead' = [lead EXCEPT ![l].finalized = TRUE]

(* GmailDraftService (GmailDraft); a refusal leaves the lead where it is. *)
createGmailDraft(l) ==
  /\ lead[l].status = "HUMAN_APPROVED" /\ lead[l].finalized
  /\ lead' = [lead EXCEPT ![l].status = "DRAFT_CREATED"]

(* ScheduleService (ControlledSend). *)
schedule(l) ==
  /\ lead[l].status = "DRAFT_CREATED"
  /\ lead' = [lead EXCEPT ![l].status = "SCHEDULED"]

progress(l) ==
  /\ progressionCandidate(l)
  /\ finalize(l) \/ createGmailDraft(l) \/ schedule(l)
  /\ UNCHANGED <<record, followup, draft, mailed, message, inbox, reply, bounce, worker, past, budget>>

(***************************************************************************)
(* Replies and bounces                                                     *)
(***************************************************************************)
ReplyArrives(i, l, class) ==
  /\ inbox[i].class = "none" /\ mailed[l] # <<>>
  /\ inbox' = [inbox EXCEPT ![i] = [lead |-> l, class |-> class, seq |-> Len(mailed[l])]]
  /\ UNCHANGED <<record, followup, draft, lead, mailed, message, reply, bounce, worker, past, budget>>

(* A record with an e-mail in its history, whatever its status. *)
trackedThread(r) == used(r) /\ enrolledIn(record[r].lead, r) # {}

(* firstGenuineReply: among what arrived after the record's last e-mail. *)
genuineReplies(r) ==
  LET l == record[r].lead IN
  {i \in Replies : /\ inbox[i].lead = l /\ inbox[i].class # "none" /\ reply[i] # r
                   /\ \A k \in enrolledIn(l, r) : k <= inbox[i].seq}

(* detectReply: the earliest one that is not handled yet. *)
replyRead(w, r, i) ==
  /\ worker[w].op = "idle" /\ trackedThread(r)
  /\ i \in genuineReplies(r) /\ \A j \in genuineReplies(r) : inbox[i].seq <= inbox[j].seq
  /\ Become(w, [Idle EXCEPT !.op = "reply", !.rec = r, !.n = i, !.seen = record[r].status,
                            !.to = classificationToStatus(inbox[i].class)])
  /\ UNCHANGED allButWorker

(* applyReply; outreach_replies_message_uk refuses a second row. *)
replyCommit(w) ==
  LET r == worker[w].rec
      to == worker[w].to
      legal == canOutreachTransition(worker[w].seen, to)
      admitted == reply[worker[w].n] = 0 /\ (legal => mayActivate(r, to))
  IN
  /\ worker[w].op = "reply"
  /\ \/ ~ admitted /\ UNCHANGED <<record, followup, reply, past>>
     \/ /\ admitted
        /\ reply' = [reply EXCEPT ![worker[w].n] = r]
        /\ record' = IF legal THEN [record EXCEPT ![r].status = to, ![r].dnc = @ \/ optsOut(to)] ELSE record
        /\ followup' = cancelPending(r)
        /\ past' = [past EXCEPT ![r] = @ \cup optingOut(to, legal)]
  /\ Finish(w)
  /\ UNCHANGED <<draft, lead, mailed, message, inbox, bounce, budget>>

trackedOutbound(r) == trackedThread(r) /\ record[r].status \notin SendBlocked

(* A notification that correlates with an e-mail of the record. *)
bounceRead(w, r, b) ==
  /\ worker[w].op = "idle" /\ trackedOutbound(r) /\ bounce[b].rec = 0
  /\ Become(w, [Idle EXCEPT !.op = "bounce", !.rec = r, !.n = b, !.seen = record[r].status])
  /\ UNCHANGED allButWorker

(* applyDeliveryFailure: a permanent failure moves the record, a temporary
   one is only noted; outreach_delivery_events_dsn_uk refuses a second row. *)
bounceCommit(w) ==
  LET r == worker[w].rec IN
  /\ worker[w].op = "bounce"
  /\ \/ /\ bounce[worker[w].n].rec # 0 \/ ~ mayActivate(r, St("BOUNCED"))
        /\ UNCHANGED <<record, followup, bounce>>
     \/ /\ bounce[worker[w].n].rec = 0
        /\ bounce' = [bounce EXCEPT ![worker[w].n].rec = r]
        /\ \/ /\ mayActivate(r, St("BOUNCED"))
              /\ record' = [record EXCEPT ![r].status = St("BOUNCED")]
              /\ followup' = cancelPending(r)
           \/ UNCHANGED <<record, followup>>
  /\ Finish(w)
  /\ UNCHANGED <<draft, lead, mailed, message, inbox, reply, past, budget>>

(* correctDeliveryEvents annotates; the record stays as it is. *)
correctDeliveryEvent(b) ==
  /\ bounce[b].rec # 0 /\ ~ bounce[b].superseded
  /\ bounce' = [bounce EXCEPT ![b].superseded = TRUE]
  /\ UNCHANGED <<record, followup, draft, lead, mailed, message, inbox, reply, worker, past, budget>>

(* The process dies or its transaction is aborted by a deadlock or by a
   collision on outreach_events_record_seq_uk. *)
Crash(w) ==
  /\ worker[w].op # "idle" /\ crashes < MaxCrashes
  /\ crashes' = crashes + 1
  /\ Finish(w)
  /\ UNCHANGED <<record, followup, draft, lead, mailed, message, inbox, reply, bounce, past, edits>>

Next ==
  \/ \E w \in Workers :
       \/ SendMail(w) \/ trackRead(w) \/ insertRecord(w) \/ enrollRead(w) \/ enrollCommit(w)
       \/ transitionCommit(w) \/ scheduleCommit(w) \/ promoteCommit(w) \/ composeCommit(w)
       \/ replyCommit(w) \/ bounceCommit(w) \/ Crash(w)
       \/ \E l \in Leads : clearForSend(w, l) \/ \E i \in 1..MaxMails : unenrolledConfirmedSends(w, l, i)
       \/ \E r \in Records : \/ \E to \in OperatorTargets : transitionRead(w, r, to)
                             \/ \E step \in Steps : scheduleRead(w, r, step)
                             \/ \E i \in Replies : replyRead(w, r, i)
                             \/ \E b \in Bounces : bounceRead(w, r, b)
       \/ \E f \in Rows : promoteRead(w, f) \/ composeRead(w, f)
  \/ \E f \in Rows : \/ DueTimePasses(f) \/ cancelRejected(f)
                     \/ \E s \in {"CANCELLED", "POSTPONED"} : EditFollowup(f, s)
  \/ \E r \in Records : recordMessage(r)
  \/ \E l \in Leads : \/ progress(l) \/ resumeReview(l)
                      \/ \E d \in {"approved", "rejected"} : decideEmail(l, d)
                      \/ \E i \in Replies, c \in Classes : ReplyArrives(i, l, c)
  \/ \E b \in Bounces : correctDeliveryEvent(b)

Spec == Init /\ [][Next]_vars

(* A session that began a transaction finishes it unless it crashes.  The
   timers fire again and again and each run goes through its whole worklist:
   confirmed sends, due rows, tracked threads; due times pass. *)
Fairness ==
  /\ \A w \in Workers :
       /\ WF_vars(SendMail(w)) /\ WF_vars(trackRead(w)) /\ WF_vars(insertRecord(w))
       /\ WF_vars(enrollRead(w)) /\ WF_vars(enrollCommit(w)) /\ WF_vars(promoteCommit(w))
       /\ WF_vars(transitionCommit(w)) /\ WF_vars(scheduleCommit(w)) /\ WF_vars(composeCommit(w))
       /\ WF_vars(replyCommit(w)) /\ WF_vars(bounceCommit(w))
  /\ \A l \in Leads, i \in 1..MaxMails : SF_vars(\E w \in Workers : unenrolledConfirmedSends(w, l, i))
  /\ \A f \in Rows : WF_vars(DueTimePasses(f)) /\ SF_vars(\E w \in Workers : promoteRead(w, f))
  /\ \A r \in Records, i \in Replies : SF_vars(\E w \in Workers : replyRead(w, r, i))

FairSpec == Spec /\ Fairness

(***************************************************************************)
(* Properties                                                              *)
(***************************************************************************)
stepsOf(r) == {n \in 0..FinalStep : \E l \in Leads : \E i \in enrolledIn(l, r) : mailed[l][i].step = n}

(* Runner, healer and command may enrol one confirmed send at the same time:
   at most one message row carries its Gmail message id. *)
EnrolledOnce ==
  \A l \in Leads : \A i \in DOMAIN message[l] : Len(message[l][i]) <= 1

(* No follow-up of a record is mailed twice, whatever is rejected, written
   again, rescheduled or composed by two runs at once. *)
StepMailedOnce ==
  \A l \in Leads : \A i, j \in DOMAIN mailed[l] : mailed[l][i] = mailed[l][j] => i = j

(* A record in the sequence has exactly the e-mails before its step in its
   history: none is skipped and none is enrolled under another step, unless an
   operator moved the record along by hand. *)
HistoryMatchesStatus ==
  \A r \in Records : "byHand" \notin past[r] =>
    /\ record[r].status \in EnrollPath => stepsOf(r) = {}
    /\ \A n \in 0..FinalStep : record[r].status = Sent(n) => stepsOf(r) = 0..n
    /\ \A n \in Steps : record[r].status = Due(n) => stepsOf(r) = 0..(n - 1)

(* One lead has at most one record that is not terminal, although enrolments
   and replies decided on a stale status write by id. *)
OneActiveRecord ==
  \A q, r \in Records : active(q) /\ active(r) /\ record[q].lead = record[r].lead => q = r

clearsFollowup(w) == worker[w].op = "idle" /\ worker'[w].op = "cleared" /\ worker'[w].n > 0

(* An opt-out that marked its record do-not-contact is final.  One that found
   the record closed leaves no mark, and a follow-up of the record is cleared
   only if a command in flight reopened the record. *)
OptOutSticks ==
  [][\A w \in Workers : clearsFollowup(w) =>
       LET history == past[worker'[w].rec] IN
       "blocked" \notin history /\ ("optedOut" \in history => "reopened" \in history)]_vars

(* docs/AUTOMATION_PILOT.md: an unsubscribe stops the sequence at every point,
   "including after approval and after scheduling". *)
UnsubscribesStopTheSequence ==
  [][\A w \in Workers : clearsFollowup(w) => "optedOut" \notin past[worker'[w].rec]]_vars

(* Only an enrolment in flight or an operator takes a record out of a status
   that forbids follow-ups: no timer revives it. *)
OnlyEnrolmentRevives ==
  [][\A r \in Records :
       record[r].status \in NoFollowup /\ record'[r].status \notin NoFollowup
         => \E w \in Workers : worker[w].op \in {"enroll", "transition"} /\ worker[w].rec = r]_vars

(* The sequence as the contact should see it. *)
Sequence == INSTANCE StepSequence WITH
  steps <- [r \in Records |-> stepsOf(r)],
  byHand <- {r \in Records : "byHand" \in past[r]}
SequenceSpec == Sequence!Spec

refused(l, i) ==
  \/ hasDoNotContact(ContactOf[l])
  \/ \E r \in findActiveRecord(l) : ~ enrollable(r, mailed[l][i])
  \/ mailed[l][i].step > 0 /\ record[mailed[l][i].rec].status \in Terminal

(* A confirmed send is enrolled in the end, however often sessions crash,
   unless the contact or its record refuses it. *)
ConfirmedSendsAreEnrolled ==
  \A l \in Leads, i \in 1..MaxMails :
    i \in DOMAIN message[l] ~> i \in DOMAIN message[l] /\ (message[l][i] # <<>> \/ refused(l, i))

(* A follow-up that is due is promoted unless something stops the record. *)
DueFollowupsArePromoted ==
  \A f \in Rows : decideFollowupPromotion(f) ~> ~ decideFollowupPromotion(f)

(* docs/OPERATIONS.md: reply sync "cancels pending follow-ups on any genuine
   reply", so every reply to an enrolled e-mail is recorded in the end. *)
RepliesAreRecorded ==
  \A i \in Replies : inbox[i].class # "none" ~> \/ reply[i] # 0
                                               \/ \E k \in 1..inbox[i].seq : message[inbox[i].lead][k] = <<>>

(* The records agree with each other and with what was mailed: one active record
   per lead, one row per confirmed e-mail, a history that leads to the status. *)
RecordsAgree == TypeOK /\ EnrolledOnce /\ HistoryMatchesStatus /\ OneActiveRecord

(***************************************************************************)
(* The inductive invariant                                                 *)
(***************************************************************************)
(* A session works on rows that exist; what it read still holds where no
   later step may change it. *)
OfALead == {"confirmed", "track", "tracked", "enroll"}
OfARecord == {"tracked", "enroll", "transition", "schedule", "promote", "compose", "reply", "bounce"}

SessionIsSound(w) ==
  /\ worker[w].op \in OfALead =>
       worker[w].lead \in Leads /\ worker[w].n \in DOMAIN mailed[worker[w].lead]
  /\ worker[w].op = "cleared" => worker[w].lead \in Leads
  /\ worker[w].op \in OfARecord => worker[w].rec \in Records /\ used(worker[w].rec)
  /\ worker[w].op \in {"tracked", "enroll"} => record[worker[w].rec].lead = worker[w].lead
  /\ worker[w].op = "promote" =>
       \E n \in Steps : worker[w].seen = Sent(n - 1) /\ worker[w].to = Due(n)
  /\ worker[w].op \in {"schedule", "compose"} => worker[w].n \in Steps
  /\ worker[w].op = "transition" => worker[w].to \in OperatorTargets
  /\ worker[w].op = "reply" => worker[w].n \in Replies /\ worker[w].to \in NoFollowup
  /\ worker[w].op = "bounce" => worker[w].n \in Bounces
  /\ worker[w].op = "enroll" =>
       LET mail == mailed[worker[w].lead][worker[w].n] IN mail.step > 0 => mail.rec = worker[w].rec

SessionsAreSound == \A w \in Workers : SessionIsSound(w)

RowIsSound(f) ==
  followup[f].status # "UNUSED" =>
    followup[f].rec \in Records /\ used(followup[f].rec) /\ followup[f].step \in Steps

RowsAreSound == \A f \in Rows : RowIsSound(f)

(* A confirmed e-mail is enrolled in a record of its lead only. *)
EnrolledInOwnRecord ==
  \A l \in Leads :
    /\ DOMAIN message[l] = DOMAIN mailed[l]
    /\ \A r \in Records : enrolledIn(l, r) # {} => used(r) /\ record[r].lead = l

closedOrReopened(r) == record[r].status \in NoFollowup \/ "reopened" \in past[r]

(* An opt-out marks its record, or found it where no follow-up is due. *)
OptOutsAreMarked ==
  /\ \A r \in Records :
       /\ past[r] # {} => used(r)
       /\ "blocked" \in past[r] => record[r].dnc
       /\ "optedOut" \in past[r] /\ "blocked" \notin past[r] => closedOrReopened(r)
  /\ \A w \in Workers :
       worker[w].op = "reply" /\ worker[w].seen \in NoFollowup => closedOrReopened(worker[w].rec)

(* Where the e-mail at hand of a lead stands, and that its copy stands for it. *)
LeadIsSound(l) ==
  /\ lead[l].step = 0 =>
       /\ lead[l].rec = 0 /\ lead[l].status \in {"SCHEDULED", "SENT", "NEEDS_MANUAL_REVIEW"}
       /\ lead[l].status = "SCHEDULED" => mailed[l] = <<>>
  /\ lead[l].step > 0 =>
       /\ lead[l].rec \in Records /\ used(lead[l].rec) /\ record[lead[l].rec].lead = l
       /\ lead[l].status \in {"HUMAN_APPROVED", "DRAFT_CREATED", "SCHEDULED"} =>
            draft[lead[l].rec][lead[l].step] = "approved"
       /\ lead[l].status \in {"READY_FOR_HUMAN_APPROVAL", "EMAIL_REVIEW_FAILED"} =>
            draft[lead[l].rec][lead[l].step] = "pending"

LeadsAreSound == \A l \in Leads : LeadIsSound(l)

(* The copy of a mailed follow-up stays approved and its lead is past it. *)
MailIsSound(l, i) ==
  LET r == mailed[l][i].rec
      step == mailed[l][i].step
  IN
  /\ step = 0 => i = 1 /\ r = 0
  /\ step > 0 =>
       /\ r \in Records /\ used(r) /\ record[r].lead = l /\ draft[r][step] = "approved"
       /\ lead[l].rec = r /\ lead[l].step = step => lead[l].status \in {"SENT", "NEEDS_MANUAL_REVIEW"}

MailsAreSound == \A l \in Leads : \A i \in DOMAIN mailed[l] : MailIsSound(l, i)

OutreachInv ==
  /\ SessionsAreSound /\ RowsAreSound /\ EnrolledInOwnRecord /\ EnrolledOnce /\ OptOutsAreMarked
  /\ OneActiveRecord /\ LeadsAreSound /\ MailsAreSound /\ StepMailedOnce

(* An e-mail about to be enrolled and not enrolled yet is the next of its
   record's history, whatever has become of the record since it was read. *)
EnrolsNext ==
  \A w \in Workers, l \in Leads, r \in Records : \A i \in DOMAIN mailed[l] :
    /\ worker[w].op = "enroll" /\ worker[w].lead = l /\ worker[w].rec = r /\ worker[w].n = i
    /\ message[l][i] = <<>> /\ "byHand" \notin past[r]
    => stepsOf(r) = 0..(mailed[l][i].step - 1)

(* A follow-up is enrolled in the record it was written for. *)
EnrolledWhereMeant ==
  \A l \in Leads, r \in Records : \A i \in enrolledIn(l, r) :
    mailed[l][i].step > 0 => mailed[l][i].rec = r

HistoryInv == HistoryMatchesStatus /\ EnrolsNext /\ EnrolledWhereMeant

=============================================================================
