---------------------------- MODULE OutreachProofs ----------------------------
(***************************************************************************)
(* Theorems about Outreach, for any number of leads, sessions, follow-ups, *)
(* records, rows, replies and bounces and any statuses operators choose,   *)
(* except where a theorem restricts those.                                 *)
(***************************************************************************)
EXTENDS Outreach, TLAPS

(***************************************************************************)
(* Type correctness                                                        *)
(***************************************************************************)
(* Updating a function at a point that may lie outside its domain. *)
LEMMA UpdateAnywhere ==
  ASSUME NEW S, NEW T, NEW f \in [S -> T], NEW x, NEW e, x \in S => e \in T
  PROVE  [f EXCEPT ![x] = e] \in [S -> T]
OBVIOUS

LEMMA StatusTypes ==
  /\ \A n \in Steps : Due(n) \in Status /\ Sent(n - 1) \in Status
  /\ \A n \in 0..FinalStep : Sent(n) \in Status
  /\ Terminal \subseteq Status /\ NoFollowup \subseteq Status
  /\ \A class \in Classes : classificationToStatus(class) \in NoFollowup
  /\ St("BOUNCED") \in NoFollowup /\ St("DRAFT_READY") \in Status
<1>1. \A n \in Steps : Due(n) \in Status /\ Sent(n - 1) \in Status
  <2> SUFFICES ASSUME NEW n \in Steps PROVE Due(n) \in Status /\ Sent(n - 1) \in Status
    OBVIOUS
  <2>1. n - 1 \in 0..FinalStep
    BY OutreachAssumption DEF Steps
  <2> QED
    BY <2>1 DEF Status, InSequence
<1>2. \A n \in 0..FinalStep : Sent(n) \in Status
  BY DEF Status, InSequence
<1>3. Terminal \subseteq Status /\ NoFollowup \subseteq Status
  BY DEF Status, NoFollowup, SendBlocked
<1>4. \A class \in Classes : classificationToStatus(class) \in NoFollowup
  BY TargetsAssumption DEF classificationToStatus, NoFollowup, SendBlocked, Replied, Terminal
<1>5. St("BOUNCED") \in NoFollowup /\ St("DRAFT_READY") \in Status
  BY DEF NoFollowup, SendBlocked, Status, EnrollPath
<1> QED
  BY <1>1, <1>2, <1>3, <1>4, <1>5

(* The pending rows of a record cancelled, and the rows after an enrolment. *)
LEMMA RowTypes ==
  ASSUME followup \in [Rows -> Followup], NEW r \in Records
  PROVE  /\ cancelPending(r) \in [Rows -> Followup]
         /\ \A step \in Steps : NewRow(r, step) \in Followup
         /\ \A step \in 0..FinalStep : advancedRows(r, step) \subseteq [Rows -> Followup]
<1>1. \A f \in Rows : \A s \in {"CANCELLED", "SENT"} : [followup[f] EXCEPT !.status = s] \in Followup
  BY DEF Followup
<1>2. cancelPending(r) \in [Rows -> Followup]
  BY <1>1 DEF cancelPending
<1>3. \A step \in Steps : NewRow(r, step) \in Followup
  BY OutreachAssumption DEF NewRow, Followup, Steps, Records
<1>4. ASSUME NEW step \in 0..FinalStep PROVE advancedRows(r, step) \subseteq [Rows -> Followup]
  <2> DEFINE mine == {f \in pendingFollowups(r) : followup[f].step = step}
             base == IF mine = {} THEN {followup} ELSE {[followup EXCEPT ![f].status = "SENT"] : f \in mine}
  <2>1. base \subseteq [Rows -> Followup]
    <3>1. \A f \in mine : [followup EXCEPT ![f].status = "SENT"] \in [Rows -> Followup]
      <4> SUFFICES ASSUME NEW f \in mine
                   PROVE  [followup EXCEPT ![f].status = "SENT"] \in [Rows -> Followup]
        OBVIOUS
      <4>1. f \in Rows /\ [followup[f] EXCEPT !.status = "SENT"] \in Followup
        BY <1>1 DEF pendingFollowups
      <4> QED
        BY <4>1
    <3> QED
      BY <3>1
  <2>2. CASE step < FinalStep
    <3>1. step + 1 \in Steps
      BY <2>2, OutreachAssumption DEF Steps
    <3>2. \A b \in base : [b EXCEPT ![freeRow] = NewRow(r, step + 1)] \in [Rows -> Followup]
      BY <1>3, <2>1, <3>1, UpdateAnywhere
    <3>3. advancedRows(r, step) = {[b EXCEPT ![freeRow] = NewRow(r, step + 1)] : b \in base}
      BY <2>2 DEF advancedRows
    <3> QED
      BY <3>2, <3>3
  <2>3. CASE ~ step < FinalStep
    BY <2>1, <2>3 DEF advancedRows
  <2> QED
    BY <2>2, <2>3
<1> QED
  BY <1>2, <1>3, <1>4

(* The local state a session may take. *)
LEMMA IdleTypes == Idle \in Worker /\ NoRecord \in Record /\ NoRow \in Followup
<1>1. 0 \in 0..MaxRecords /\ 0 \in 0..FinalStep
  BY OutreachAssumption
<1> QED
  BY <1>1, OutreachAssumption DEF Idle, Worker, Op, NoRecord, Record, NoRow, Followup

(***************************************************************************)
(* Which steps change what                                                 *)
(***************************************************************************)
(* Steps that read and remember. *)
ReadStep(w) ==
  \/ trackRead(w) \/ enrollRead(w) \/ Crash(w)
  \/ \E l \in Leads : clearForSend(w, l) \/ \E i \in 1..MaxMails : unenrolledConfirmedSends(w, l, i)
  \/ \E r \in Records : \/ \E to \in OperatorTargets : transitionRead(w, r, to)
                        \/ \E step \in Steps : scheduleRead(w, r, step)
                        \/ \E i \in Replies : replyRead(w, r, i)
                        \/ \E b \in Bounces : bounceRead(w, r, b)
  \/ \E f \in Rows : promoteRead(w, f) \/ composeRead(w, f)

(* Steps that write what a session decided. *)
WriteStep(w) ==
  \/ SendMail(w) \/ insertRecord(w) \/ enrollCommit(w) \/ transitionCommit(w) \/ scheduleCommit(w)
  \/ promoteCommit(w) \/ composeCommit(w) \/ replyCommit(w) \/ bounceCommit(w)

(* Steps no session takes part in. *)
AroundStep ==
  \/ \E f \in Rows : \/ DueTimePasses(f) \/ cancelRejected(f)
                     \/ \E s \in {"CANCELLED", "POSTPONED"} : EditFollowup(f, s)
  \/ \E r \in Records : recordMessage(r)
  \/ \E l \in Leads : \/ progress(l) \/ resumeReview(l)
                      \/ \E d \in {"approved", "rejected"} : decideEmail(l, d)
                      \/ \E i \in Replies, c \in Classes : ReplyArrives(i, l, c)
  \/ \E b \in Bounces : correctDeliveryEvent(b)

LEMMA NextIs ==
  ASSUME [Next]_vars
  PROVE  \/ \E w \in Workers : ReadStep(w)
         \/ \E w \in Workers : WriteStep(w)
         \/ AroundStep
         \/ UNCHANGED vars
BY DEF Next, ReadStep, WriteStep, AroundStep

LEMMA ReadsKeepTables ==
  ASSUME NEW w \in Workers, ReadStep(w)
  PROVE  UNCHANGED <<record, followup, draft, lead, mailed, message, inbox, reply, bounce, past>>
BY DEF ReadStep, trackRead, enrollRead, Crash, clearForSend, unenrolledConfirmedSends, transitionRead,
   scheduleRead, replyRead, bounceRead, promoteRead, composeRead, allButWorker

(* The tables of the sequence. *)
LEMMA WhoWritesRecords ==
  ASSUME [Next]_vars
  PROVE  \/ UNCHANGED record
         \/ \E w \in Workers :
              \/ insertRecord(w) \/ enrollCommit(w) \/ transitionCommit(w) \/ promoteCommit(w)
              \/ replyCommit(w) \/ bounceCommit(w)
         \/ \E r \in Records : recordMessage(r)
<1>1. ASSUME NEW w \in Workers, SendMail(w) \/ scheduleCommit(w) \/ composeCommit(w)
      PROVE  UNCHANGED record
  BY <1>1 DEF SendMail, scheduleCommit, composeCommit
<1>2. ASSUME AroundStep, ~ \E r \in Records : recordMessage(r) PROVE UNCHANGED record
  BY <1>2 DEF AroundStep, DueTimePasses, cancelRejected, EditFollowup, progress, resumeReview,
     decideEmail, ReplyArrives, correctDeliveryEvent
<1> QED
  BY <1>1, <1>2, NextIs, ReadsKeepTables DEF WriteStep, vars

LEMMA WhoWritesRows ==
  ASSUME [Next]_vars
  PROVE  \/ UNCHANGED followup
         \/ \E w \in Workers :
              \/ enrollCommit(w) \/ transitionCommit(w) \/ scheduleCommit(w) \/ replyCommit(w)
              \/ bounceCommit(w)
         \/ \E f \in Rows : \/ DueTimePasses(f) \/ cancelRejected(f)
                            \/ \E s \in {"CANCELLED", "POSTPONED"} : EditFollowup(f, s)
         \/ \E l \in Leads, d \in {"approved", "rejected"} : decideEmail(l, d)
<1>1. ASSUME NEW w \in Workers, SendMail(w) \/ insertRecord(w) \/ promoteCommit(w) \/ composeCommit(w)
      PROVE  UNCHANGED followup
  BY <1>1 DEF SendMail, insertRecord, promoteCommit, composeCommit
<1>2. ASSUME \/ \E r \in Records : recordMessage(r)
             \/ \E l \in Leads : \/ progress(l) \/ resumeReview(l)
                                 \/ \E i \in Replies, c \in Classes : ReplyArrives(i, l, c)
             \/ \E b \in Bounces : correctDeliveryEvent(b)
      PROVE  UNCHANGED followup
  BY <1>2 DEF recordMessage, progress, resumeReview, ReplyArrives, correctDeliveryEvent
<1> QED
  BY <1>1, <1>2, NextIs, ReadsKeepTables DEF WriteStep, AroundStep, vars

LEMMA WhoWritesLeads ==
  ASSUME [Next]_vars
  PROVE  \/ UNCHANGED <<lead, draft, mailed>>
         \/ \E w \in Workers : SendMail(w) \/ composeCommit(w)
         \/ \E l \in Leads : \/ progress(l) \/ resumeReview(l)
                             \/ \E d \in {"approved", "rejected"} : decideEmail(l, d)
<1>1. ASSUME NEW w \in Workers,
             \/ insertRecord(w) \/ enrollCommit(w) \/ transitionCommit(w) \/ scheduleCommit(w)
             \/ promoteCommit(w) \/ replyCommit(w) \/ bounceCommit(w)
      PROVE  UNCHANGED <<lead, draft, mailed>>
  BY <1>1 DEF insertRecord, enrollCommit, transitionCommit, scheduleCommit, promoteCommit,
     replyCommit, bounceCommit
<1>2. ASSUME \/ \E f \in Rows : \/ DueTimePasses(f) \/ cancelRejected(f)
                                \/ \E s \in {"CANCELLED", "POSTPONED"} : EditFollowup(f, s)
             \/ \E r \in Records : recordMessage(r)
             \/ \E l \in Leads, i \in Replies, c \in Classes : ReplyArrives(i, l, c)
             \/ \E b \in Bounces : correctDeliveryEvent(b)
      PROVE  UNCHANGED <<lead, draft, mailed>>
  BY <1>2 DEF DueTimePasses, cancelRejected, EditFollowup, recordMessage, ReplyArrives,
     correctDeliveryEvent
<1> QED
  BY <1>1, <1>2, NextIs, ReadsKeepTables DEF WriteStep, AroundStep, vars

LEMMA WhoWritesMessages ==
  ASSUME [Next]_vars
  PROVE  \/ UNCHANGED message
         \/ \E w \in Workers : SendMail(w) \/ enrollCommit(w)
<1>1. ASSUME NEW w \in Workers,
             \/ insertRecord(w) \/ transitionCommit(w) \/ scheduleCommit(w) \/ promoteCommit(w)
             \/ composeCommit(w) \/ replyCommit(w) \/ bounceCommit(w)
      PROVE  UNCHANGED message
  BY <1>1 DEF insertRecord, transitionCommit, scheduleCommit, promoteCommit, composeCommit,
     replyCommit, bounceCommit
<1>2. ASSUME AroundStep PROVE UNCHANGED message
  BY <1>2 DEF AroundStep, DueTimePasses, cancelRejected, EditFollowup, recordMessage, progress,
     resumeReview, decideEmail, ReplyArrives, correctDeliveryEvent
<1> QED
  BY <1>1, <1>2, NextIs, ReadsKeepTables DEF WriteStep, vars

LEMMA WhoWritesThePast ==
  ASSUME [Next]_vars
  PROVE  UNCHANGED past \/ \E w \in Workers : enrollCommit(w) \/ transitionCommit(w) \/ replyCommit(w)
<1>1. ASSUME NEW w \in Workers,
             \/ SendMail(w) \/ insertRecord(w) \/ scheduleCommit(w)
             \/ promoteCommit(w) \/ composeCommit(w) \/ bounceCommit(w)
      PROVE  UNCHANGED past
  BY <1>1 DEF SendMail, insertRecord, scheduleCommit, promoteCommit, composeCommit, bounceCommit
<1>2. ASSUME AroundStep PROVE UNCHANGED past
  BY <1>2 DEF AroundStep, DueTimePasses, cancelRejected, EditFollowup, recordMessage, progress,
     resumeReview, decideEmail, ReplyArrives, correctDeliveryEvent
<1> QED
  BY <1>1, <1>2, NextIs, ReadsKeepTables DEF WriteStep, vars

(***************************************************************************)
(* What one step makes of a record                                         *)
(***************************************************************************)
LEMMA MailTypes ==
  ASSUME TypeOK, NEW l \in Leads, NEW i \in DOMAIN mailed[l]
  PROVE  mailed[l][i] \in Mail /\ mailed[l][i].step \in 0..FinalStep
<1>1. mailed[l] \in Seq(Mail)
  BY DEF TypeOK
<1>2. mailed[l][i] \in Mail
  BY <1>1
<1> QED
  BY <1>2 DEF Mail

Inserted(r) ==
  /\ ~ used(r)
  /\ \E l \in Leads :
       /\ findActiveRecord(l) = {}
       /\ record' = [record EXCEPT ![r] = [lead |-> l, status |-> St("DRAFT_READY"),
                                           sent |-> FALSE, dnc |-> FALSE]]

EnrolledBy(w, r) ==
  /\ worker[w].op = "enroll" /\ worker[w].rec = r
  /\ messageIndexAdmits(worker[w].lead, worker[w].n)
  /\ message' = [message EXCEPT ![worker[w].lead][worker[w].n] = Append(@, r)]
  /\ record'[r].status = Sent(mailed[worker[w].lead][worker[w].n].step)
  /\ past' = [past EXCEPT ![r] = @ \cup reopening(r, record'[r].status)]

(* What an operator's transition adds to a record's past. *)
byOperator(r, to) ==
  reopening(r, to) \cup optingOut(to, TRUE) \cup {h \in {"byHand"} : to \notin NoFollowup}

MovedBy(w, r) ==
  /\ worker[w].op = "transition" /\ worker[w].rec = r
  /\ record'[r].status = worker[w].to
  /\ past' = [past EXCEPT ![r] = @ \cup byOperator(r, record'[r].status)]

(* The statuses one step may give a record that exists. *)
Restatused(r) ==
  \/ record'[r].status = record[r].status
  \/ \E n \in Steps : record[r].status = Sent(n - 1) /\ record'[r].status = Due(n)
  \/ /\ mayActivate(r, record'[r].status)
     /\ \/ \E w \in Workers : EnrolledBy(w, r)
        \/ \E w \in Workers : MovedBy(w, r)
        \/ record'[r].status \in NoFollowup

Rewritten(r) ==
  /\ used(r)
  /\ record'[r] \in Record /\ record'[r].lead = record[r].lead
  /\ record[r].dnc => record'[r].dnc
  /\ record'[r].status # St("UNUSED")
  /\ record' = [record EXCEPT ![r] = record'[r]]
  /\ Restatused(r)

LEMMA EnrolRewrites ==
  ASSUME TypeOK, SessionsAreSound, NEW w \in Workers, enrollCommit(w), record' # record
  PROVE  Rewritten(worker[w].rec)
<1> DEFINE r == worker[w].rec
           l == worker[w].lead
           i == worker[w].n
           step == mailed[l][i].step
<1>1. /\ worker[w].op = "enroll" /\ messageIndexAdmits(l, i) /\ mayActivate(r, Sent(step))
      /\ message' = [message EXCEPT ![l][i] = Append(@, r)]
      /\ record' = [record EXCEPT ![r] = enrolledRecord(@, step)]
      /\ past' = [past EXCEPT ![r] = @ \cup reopening(r, Sent(step))]
  BY DEF enrollCommit
<1>2. /\ r \in Records /\ used(r) /\ record[r] \in Record
      /\ l \in Leads /\ i \in DOMAIN mailed[l]
  BY <1>1 DEF SessionsAreSound, SessionIsSound, OfARecord, OfALead, TypeOK
<1>3. step \in 0..FinalStep
  BY <1>2, MailTypes
<1>4. Sent(step) \in Status /\ Sent(step) # St("UNUSED")
  BY <1>3, StatusTypes DEF Sent, St
<1>5. record'[r] = enrolledRecord(record[r], step)
  BY <1>1, <1>2 DEF TypeOK
<1>6. /\ record'[r] \in Record /\ record'[r].lead = record[r].lead
      /\ record'[r].dnc = record[r].dnc /\ record'[r].status = Sent(step)
  BY <1>2, <1>4, <1>5 DEF enrolledRecord, Record
<1>7. EnrolledBy(w, r)
  BY <1>1, <1>6 DEF EnrolledBy
<1>8. record' = [record EXCEPT ![r] = record'[r]]
  BY <1>1, <1>2, <1>5 DEF TypeOK
<1> QED
  BY <1>1, <1>2, <1>4, <1>6, <1>7, <1>8 DEF Rewritten, Restatused

(* A status and perhaps the do-not-contact flag written. *)
LEMMA StatusRewrites ==
  ASSUME TypeOK, NEW r \in Records, used(r), NEW to \in Status, to # St("UNUSED"), NEW d \in BOOLEAN,
         record' = [record EXCEPT ![r].status = to, ![r].dnc = @ \/ d]
  PROVE  /\ record'[r] \in Record /\ record'[r].lead = record[r].lead
         /\ record[r].dnc => record'[r].dnc
         /\ d => record'[r].dnc
         /\ record'[r].status = to
         /\ record' = [record EXCEPT ![r] = record'[r]]
<1>1. record \in [Records -> Record] /\ record[r] \in Record
  BY DEF TypeOK
<1>2. record'[r] = [record[r] EXCEPT !.status = to, !.dnc = @ \/ d]
  BY <1>1
<1>3. record' = [record EXCEPT ![r] = [record[r] EXCEPT !.status = to, !.dnc = @ \/ d]]
  BY <1>1
<1>4. (record[r].dnc \/ d) \in BOOLEAN
  BY <1>1 DEF Record
<1>5. [record[r] EXCEPT !.status = to, !.dnc = @ \/ d] \in Record
  BY <1>1, <1>4 DEF Record
<1>6. /\ record'[r].lead = record[r].lead /\ record'[r].dnc = (record[r].dnc \/ d)
      /\ record'[r].status = to
  BY <1>1, <1>2 DEF Record
<1> QED
  BY <1>2, <1>3, <1>5, <1>6

LEMMA StatusesAreUsed ==
  /\ St("UNUSED") \notin Status
  /\ \A n \in Int : Due(n) # St("UNUSED") /\ Sent(n) # St("UNUSED")
<1>1. \A n \in Int : Due(n) # St("UNUSED") /\ Sent(n) # St("UNUSED")
  BY DEF Due, Sent, St
<1>2. St("UNUSED") \notin InSequence
  BY OutreachAssumption DEF InSequence, Steps, Due, Sent, St
<1>3. St("UNUSED") \notin EnrollPath \cup NoFollowup
  BY DEF EnrollPath, NoFollowup, Replied, SendBlocked, Terminal, St
<1> QED
  BY <1>1, <1>2, <1>3 DEF Status

LEMMA RecordMoves ==
  ASSUME TypeOK, SessionsAreSound, [Next]_vars
  PROVE  \/ UNCHANGED record
         \/ \E r \in Records : Inserted(r) \/ Rewritten(r)
<1>0. record \in [Records -> Record]
  BY DEF TypeOK
<1>1. ASSUME NEW w \in Workers, insertRecord(w), record' # record
      PROVE  \E r \in Records : Inserted(r)
  BY <1>1 DEF insertRecord, Inserted, SessionsAreSound, SessionIsSound, OfALead
<1>2. ASSUME NEW w \in Workers, enrollCommit(w), record' # record
      PROVE  \E r \in Records : Rewritten(r)
  <2>1. worker[w].rec \in Records
    BY <1>2 DEF enrollCommit, SessionsAreSound, SessionIsSound, OfARecord
  <2> QED
    BY <1>2, <2>1, EnrolRewrites
<1>3. ASSUME NEW w \in Workers, transitionCommit(w), record' # record
      PROVE  \E r \in Records : Rewritten(r)
  <2> DEFINE r == worker[w].rec
             to == worker[w].to
  <2>1. /\ worker[w].op = "transition" /\ mayActivate(r, to)
        /\ record' = [record EXCEPT ![r].status = to, ![r].dnc = @ \/ optsOut(to)]
        /\ past' = [past EXCEPT ![r] = @ \cup byOperator(r, to)]
    <3>1. /\ worker[w].op = "transition" /\ mayActivate(r, to)
          /\ record' = [record EXCEPT ![r].status = to, ![r].dnc = @ \/ optsOut(to)]
          /\ past' = [past EXCEPT ![r] = @ \cup reopening(r, to) \cup optingOut(to, TRUE)
                                            \cup {h \in {"byHand"} : to \notin NoFollowup}]
      BY <1>3 DEF transitionCommit
    <3>2. \A A, B, C, D : A \cup B \cup C \cup D = A \cup (B \cup C \cup D)
      OBVIOUS
    <3> QED
      BY <3>1, <3>2 DEF byOperator
  <2>2. /\ r \in Records /\ used(r) /\ to \in OperatorTargets
    BY <2>1 DEF SessionsAreSound, SessionIsSound, OfARecord
  <2>3. to \in Status /\ to # St("UNUSED") /\ optsOut(to) \in BOOLEAN
    BY <2>2, TargetsAssumption, StatusesAreUsed DEF optsOut
  <2>4. /\ record'[r] \in Record /\ record'[r].lead = record[r].lead
        /\ record[r].dnc => record'[r].dnc
        /\ record'[r].status = to
        /\ record' = [record EXCEPT ![r] = record'[r]]
    BY <2>1, <2>2, <2>3, StatusRewrites
  <2>5. MovedBy(w, r)
    BY <2>1, <2>4 DEF MovedBy
  <2>6. Restatused(r)
    BY <2>1, <2>4, <2>5 DEF Restatused
  <2> QED
    BY <2>2, <2>3, <2>4, <2>6 DEF Rewritten
<1>4. ASSUME NEW w \in Workers, promoteCommit(w), record' # record
      PROVE  \E r \in Records : Rewritten(r)
  <2> DEFINE r == worker[w].rec
  <2>1. /\ worker[w].op = "promote" /\ record[r].status = worker[w].seen
        /\ record' = [record EXCEPT ![r].status = worker[w].to]
    BY <1>4 DEF promoteCommit, updateRecordIfStatus
  <2>2. r \in Records /\ used(r)
    BY <2>1 DEF SessionsAreSound, SessionIsSound, OfARecord
  <2>3. PICK n \in Steps : worker[w].seen = Sent(n - 1) /\ worker[w].to = Due(n)
    BY <2>1 DEF SessionsAreSound, SessionIsSound
  <2>4. Due(n) \in Status /\ Due(n) # St("UNUSED")
    BY StatusTypes, StatusesAreUsed
  <2>5. record'[r] = [record[r] EXCEPT !.status = Due(n)]
        /\ record' = [record EXCEPT ![r] = record'[r]]
    BY <1>0, <2>1, <2>2, <2>3
  <2>6. /\ record'[r] \in Record /\ record'[r].lead = record[r].lead
        /\ record'[r].dnc = record[r].dnc /\ record'[r].status = Due(n)
    <3>1. record[r] \in Record
      BY <1>0, <2>2
    <3> QED
      BY <3>1, <2>4, <2>5 DEF Record
  <2>7. Restatused(r)
    BY <2>1, <2>3, <2>6 DEF Restatused
  <2> QED
    BY <2>2, <2>4, <2>5, <2>6, <2>7 DEF Rewritten
<1>5. ASSUME NEW w \in Workers, replyCommit(w), record' # record
      PROVE  \E r \in Records : Rewritten(r)
  <2> DEFINE r == worker[w].rec
             to == worker[w].to
  <2>1. /\ worker[w].op = "reply" /\ mayActivate(r, to)
        /\ record' = [record EXCEPT ![r].status = to, ![r].dnc = @ \/ optsOut(to)]
    BY <1>5 DEF replyCommit
  <2>2. /\ r \in Records /\ used(r) /\ to \in NoFollowup
    BY <2>1 DEF SessionsAreSound, SessionIsSound, OfARecord
  <2>3. to \in Status /\ to # St("UNUSED") /\ optsOut(to) \in BOOLEAN
    BY <2>2, StatusTypes, StatusesAreUsed DEF optsOut
  <2>4. /\ record'[r] \in Record /\ record'[r].lead = record[r].lead
        /\ record[r].dnc => record'[r].dnc
        /\ record'[r].status = to
        /\ record' = [record EXCEPT ![r] = record'[r]]
    BY <2>1, <2>2, <2>3, StatusRewrites
  <2>5. Restatused(r)
    BY <2>1, <2>2, <2>4 DEF Restatused
  <2> QED
    BY <2>2, <2>3, <2>4, <2>5 DEF Rewritten
<1>6. ASSUME NEW w \in Workers, bounceCommit(w), record' # record
      PROVE  \E r \in Records : Rewritten(r)
  <2> DEFINE r == worker[w].rec
  <2>1. /\ worker[w].op = "bounce" /\ mayActivate(r, St("BOUNCED"))
        /\ record' = [record EXCEPT ![r].status = St("BOUNCED")]
    BY <1>6 DEF bounceCommit
  <2>2. r \in Records /\ used(r) /\ record[r] \in Record
    BY <1>0, <2>1 DEF SessionsAreSound, SessionIsSound, OfARecord
  <2>3. St("BOUNCED") \in Status /\ St("BOUNCED") \in NoFollowup /\ St("BOUNCED") # St("UNUSED")
    BY StatusTypes, StatusesAreUsed
  <2>4. record'[r] = [record[r] EXCEPT !.status = St("BOUNCED")]
        /\ record' = [record EXCEPT ![r] = record'[r]]
    BY <1>0, <2>1, <2>2
  <2>5. /\ record'[r] \in Record /\ record'[r].lead = record[r].lead
        /\ record'[r].dnc = record[r].dnc /\ record'[r].status = St("BOUNCED")
    BY <2>2, <2>3, <2>4 DEF Record
  <2>6. Restatused(r)
    BY <2>1, <2>3, <2>5 DEF Restatused
  <2> QED
    BY <2>2, <2>3, <2>4, <2>5, <2>6 DEF Rewritten
<1>7. ASSUME NEW r \in Records, recordMessage(r) PROVE Rewritten(r)
  <2>1. used(r) /\ record[r] \in Record /\ record'[r] = [record[r] EXCEPT !.sent = TRUE]
        /\ record' = [record EXCEPT ![r] = record'[r]]
    BY <1>0, <1>7 DEF recordMessage
  <2>2. /\ record'[r] \in Record /\ record'[r].lead = record[r].lead
        /\ record'[r].dnc = record[r].dnc /\ record'[r].status = record[r].status
    BY <2>1 DEF Record
  <2> QED
    BY <2>1, <2>2 DEF Rewritten, Restatused, used
<1> QED
  BY <1>1, <1>2, <1>3, <1>4, <1>5, <1>6, <1>7, WhoWritesRecords

(* No record, and no e-mail in a mailbox, ever goes away. *)
RecordsPersist ==
  \A r \in Records :
    used(r) => /\ record'[r].status # St("UNUSED")
               /\ record'[r].lead = record[r].lead
               /\ record[r].dnc => record'[r].dnc

MailsPersist ==
  \A l \in Leads : \A i \in DOMAIN mailed[l] : i \in DOMAIN mailed'[l] /\ mailed'[l][i] = mailed[l][i]

LEMMA RecordsStay ==
  ASSUME TypeOK, SessionsAreSound, [Next]_vars
  PROVE  RecordsPersist
<1>0. record \in [Records -> Record]
  BY DEF TypeOK
<1>1. CASE UNCHANGED record
  BY <1>1 DEF RecordsPersist, used
<1>2. ASSUME NEW r \in Records, Inserted(r) PROVE RecordsPersist
  BY <1>0, <1>2 DEF RecordsPersist, Inserted, used
<1>3. ASSUME NEW r \in Records, Rewritten(r) PROVE RecordsPersist
  <2>1. \A q \in Records : q # r => record'[q] = record[q]
    BY <1>0, <1>3 DEF Rewritten
  <2> QED
    BY <1>3, <2>1 DEF RecordsPersist, Rewritten, used
<1> QED
  BY <1>1, <1>2, <1>3, RecordMoves

(* A new e-mail at the end of the mailbox of the lead of the session. *)
MailSent(w) ==
  LET l == worker[w].lead IN
  /\ worker[w].op = "cleared" /\ lead[l].status = "SCHEDULED"
  /\ mailed' = [mailed EXCEPT ![l] = Append(@, [step |-> lead[l].step, rec |-> lead[l].rec])]
  /\ message' = [message EXCEPT ![l] = Append(@, <<>>)]
  /\ lead' = [lead EXCEPT ![l].status = "SENT"]

LEMMA SendMoves ==
  ASSUME NEW w \in Workers, SendMail(w)
  PROVE  /\ worker[w].op = "cleared" /\ UNCHANGED <<record, followup, draft, inbox, reply, bounce, past>>
         /\ \/ MailSent(w)
            \/ /\ UNCHANGED <<mailed, message>>
               /\ lead' = [lead EXCEPT ![worker[w].lead].status =
                             IF @ = "SCHEDULED" THEN "NEEDS_MANUAL_REVIEW" ELSE @]
BY DEF SendMail, MailSent

LEMMA AppendFacts ==
  ASSUME NEW S, NEW s \in Seq(S), NEW e \in S
  PROVE  /\ Append(s, e) \in Seq(S) /\ Len(s) \in Nat
         /\ DOMAIN s = 1..Len(s) /\ DOMAIN Append(s, e) = 1..(Len(s) + 1)
         /\ Len(Append(s, e)) = Len(s) + 1
         /\ Append(s, e)[Len(s) + 1] = e
         /\ \A i \in DOMAIN s : i \in DOMAIN Append(s, e) /\ Append(s, e)[i] = s[i]
OBVIOUS

LEMMA MailsStay ==
  ASSUME TypeOK, SessionsAreSound, [Next]_vars
  PROVE  MailsPersist /\ mailed' \in [Leads -> Seq(Mail)]
<1>0. mailed \in [Leads -> Seq(Mail)] /\ lead \in [Leads -> Lead]
  BY DEF TypeOK
<1>1. CASE UNCHANGED mailed
  BY <1>0, <1>1 DEF MailsPersist
<1>2. ASSUME NEW w \in Workers, MailSent(w) PROVE MailsPersist /\ mailed' \in [Leads -> Seq(Mail)]
  <2> DEFINE k == worker[w].lead
             e == [step |-> lead[k].step, rec |-> lead[k].rec]
  <2>1. k \in Leads
    BY <1>2 DEF MailSent, SessionsAreSound, SessionIsSound
  <2>2. lead[k] \in Lead
    BY <1>0, <2>1
  <2>3. e \in Mail
    BY <2>2 DEF Lead, Mail
  <2>4. mailed' = [mailed EXCEPT ![k] = Append(mailed[k], e)]
    BY <1>2 DEF MailSent
  <2>5. mailed[k] \in Seq(Mail)
    BY <1>0, <2>1
  <2>6. Append(mailed[k], e) \in Seq(Mail)
        /\ \A i \in DOMAIN mailed[k] : i \in DOMAIN Append(mailed[k], e) /\ Append(mailed[k], e)[i] = mailed[k][i]
    BY <2>3, <2>5, AppendFacts
  <2>7. mailed'[k] = Append(mailed[k], e) /\ \A l \in Leads \ {k} : mailed'[l] = mailed[l]
    BY <1>0, <2>1, <2>4
  <2>8. mailed' \in [Leads -> Seq(Mail)]
    BY <1>0, <2>4, <2>6
  <2> HIDE DEF e, k
  <2> QED
    BY <2>6, <2>7, <2>8 DEF MailsPersist
<1>3. ASSUME NEW w \in Workers, composeCommit(w) PROVE UNCHANGED mailed
  BY <1>3 DEF composeCommit
<1>4. ASSUME NEW l \in Leads, \/ progress(l) \/ resumeReview(l)
                              \/ \E d \in {"approved", "rejected"} : decideEmail(l, d)
      PROVE  UNCHANGED mailed
  BY <1>4 DEF progress, resumeReview, decideEmail
<1> QED
  BY <1>1, <1>2, <1>3, <1>4, SendMoves, WhoWritesLeads

(***************************************************************************)
(* Sessions                                                                *)
(***************************************************************************)
(* A session that waits is as sound as before. *)
LEMMA SessionWaits ==
  ASSUME TypeOK, RecordsPersist, MailsPersist, NEW w \in Workers, SessionIsSound(w),
         worker'[w] = worker[w]
  PROVE  SessionIsSound(w)'
<1> DEFINE v == worker[w]
<1>1. v.op \in OfALead => v.lead \in Leads /\ v.n \in DOMAIN mailed'[v.lead]
  BY DEF SessionIsSound, MailsPersist
<1>2. v.op \in OfARecord =>
        /\ v.rec \in Records /\ record'[v.rec].status # St("UNUSED")
        /\ record'[v.rec].lead = record[v.rec].lead
  <2> HAVE v.op \in OfARecord
  <2>1. v.rec \in Records /\ used(v.rec)
    BY DEF SessionIsSound
  <2>2. \A q \in Records : record[q].status # St("UNUSED") =>
          record'[q].status # St("UNUSED") /\ record'[q].lead = record[q].lead
    BY DEF RecordsPersist, used
  <2> HIDE DEF v
  <2> QED
    BY <2>1, <2>2 DEF used
<1>3. v.op = "enroll" => mailed'[v.lead][v.n] = mailed[v.lead][v.n]
  BY DEF SessionIsSound, MailsPersist, OfALead
<1>4. v.op \in {"tracked", "enroll"} => record'[v.rec].lead = v.lead
  BY <1>2 DEF SessionIsSound, OfARecord
<1>5. v.op = "enroll" => (mailed'[v.lead][v.n].step > 0 => mailed'[v.lead][v.n].rec = v.rec)
  BY <1>3 DEF SessionIsSound
<1>6. /\ v.op = "cleared" => v.lead \in Leads
      /\ v.op = "promote" => \E n \in Steps : v.seen = Sent(n - 1) /\ v.to = Due(n)
      /\ v.op \in {"schedule", "compose"} => v.n \in Steps
      /\ v.op = "transition" => v.to \in OperatorTargets
      /\ v.op = "reply" => v.n \in Replies /\ v.to \in NoFollowup
      /\ v.op = "bounce" => v.n \in Bounces
  BY DEF SessionIsSound
<1>7. v = worker'[w]
  OBVIOUS
<1> HIDE DEF v
<1> QED
  BY <1>1, <1>2, <1>4, <1>5, <1>6, <1>7 DEF SessionIsSound, used

LEMMA IdleIsSound ==
  ASSUME NEW w \in Workers, worker'[w] = Idle
  PROVE  SessionIsSound(w)'
BY DEF SessionIsSound, Idle, OfALead, OfARecord

LEMMA Becomes ==
  ASSUME TypeOK, NEW w \in Workers, NEW local, Become(w, local)
  PROVE  worker'[w] = local /\ \A v \in Workers \ {w} : worker'[v] = worker[v]
<1>1. worker \in [Workers -> Worker]
  BY DEF TypeOK
<1> QED
  BY <1>1 DEF Become

(* A session that has read what it is about to act on. *)
LEMMA ReadsAreSound ==
  ASSUME TypeOK, SessionsAreSound, RowsAreSound, EnrolledInOwnRecord, NEW w \in Workers, ReadStep(w)
  PROVE  SessionIsSound(w)' /\ worker'[w] \in Worker
<1>0. UNCHANGED <<record, followup, mailed, message>> /\ Idle \in Worker /\ worker[w] \in Worker
  BY ReadsKeepTables, IdleTypes DEF TypeOK
<1>1. ASSUME NEW l \in Leads, clearForSend(w, l) PROVE SessionIsSound(w)' /\ worker'[w] \in Worker
  <2>1. worker'[w] = [Idle EXCEPT !.op = "cleared", !.lead = l, !.rec = lead[l].rec, !.n = lead[l].step]
    BY <1>1, Becomes DEF clearForSend
  <2>2. lead[l].rec \in 0..MaxRecords /\ lead[l].step \in Nat
    BY DEF TypeOK, Lead
  <2>3. worker'[w] \in Worker /\ worker'[w].op = "cleared" /\ worker'[w].lead = l
    BY <1>0, <2>1, <2>2 DEF Idle, Worker, Op
  <2> QED
    BY <2>3 DEF SessionIsSound, OfALead, OfARecord
<1>2. ASSUME NEW l \in Leads, NEW i \in 1..MaxMails, unenrolledConfirmedSends(w, l, i)
      PROVE  SessionIsSound(w)' /\ worker'[w] \in Worker
  <2>1. worker'[w] = [Idle EXCEPT !.op = "confirmed", !.lead = l, !.n = i]
    BY <1>2, Becomes DEF unenrolledConfirmedSends
  <2>2. i \in DOMAIN mailed[l] /\ i \in Nat
    BY <1>2 DEF unenrolledConfirmedSends, EnrolledInOwnRecord
  <2>3. worker'[w] \in Worker /\ worker'[w].op = "confirmed" /\ worker'[w].lead = l /\ worker'[w].n = i
    BY <1>0, <2>1, <2>2 DEF Idle, Worker, Op
  <2>4. mailed' = mailed
    BY <1>0
  <2> QED
    BY <2>2, <2>3, <2>4 DEF SessionIsSound, OfALead, OfARecord
<1>3. ASSUME trackRead(w) PROVE SessionIsSound(w)' /\ worker'[w] \in Worker
  <2>1. worker[w].op = "confirmed" /\ worker[w].lead \in Leads /\ worker[w].n \in DOMAIN mailed[worker[w].lead]
    BY <1>3 DEF trackRead, SessionsAreSound, SessionIsSound, OfALead
  <2>2. CASE Finish(w)
    <3>1. worker'[w] = Idle
      BY <2>2, Becomes DEF Finish
    <3> QED
      BY <1>0, <3>1, IdleIsSound
  <2>3. CASE Become(w, [worker[w] EXCEPT !.op = "track"])
    <3>1. worker'[w] = [worker[w] EXCEPT !.op = "track"]
      BY <2>3, Becomes
    <3>2. worker'[w] \in Worker /\ worker'[w].op = "track" /\ worker'[w].lead = worker[w].lead
          /\ worker'[w].n = worker[w].n
      BY <1>0, <3>1 DEF Worker, Op
    <3> QED
      BY <1>0, <2>1, <3>2 DEF SessionIsSound, OfALead, OfARecord
  <2>4. ASSUME NEW r \in findActiveRecord(worker[w].lead),
               Become(w, [worker[w] EXCEPT !.op = "tracked", !.rec = r])
        PROVE  SessionIsSound(w)' /\ worker'[w] \in Worker
    <3>1. worker'[w] = [worker[w] EXCEPT !.op = "tracked", !.rec = r]
      BY <2>4, Becomes
    <3>2. r \in Records /\ r \in 0..MaxRecords /\ used(r) /\ record[r].lead = worker[w].lead
      BY OutreachAssumption DEF findActiveRecord, active, Records
    <3>3. worker'[w] \in Worker /\ worker'[w].op = "tracked" /\ worker'[w].lead = worker[w].lead
          /\ worker'[w].n = worker[w].n /\ worker'[w].rec = r
      BY <1>0, <3>1, <3>2 DEF Worker, Op
    <3> QED
      BY <1>0, <2>1, <3>2, <3>3 DEF SessionIsSound, OfALead, OfARecord, used
  <2> QED
    BY <1>3, <2>2, <2>3, <2>4 DEF trackRead
<1>4. ASSUME enrollRead(w) PROVE SessionIsSound(w)' /\ worker'[w] \in Worker
  <2> DEFINE l == worker[w].lead
             r == worker[w].rec
             i == worker[w].n
  <2>1. /\ worker[w].op = "tracked" /\ l \in Leads /\ i \in DOMAIN mailed[l]
        /\ r \in Records /\ used(r) /\ record[r].lead = l
    BY <1>4 DEF enrollRead, SessionsAreSound, SessionIsSound, OfALead, OfARecord
  <2>2. CASE Finish(w)
    <3>1. worker'[w] = Idle
      BY <2>2, Becomes DEF Finish
    <3> QED
      BY <1>0, <3>1, IdleIsSound
  <2>3. CASE /\ Become(w, [worker[w] EXCEPT !.op = "enroll", !.seen = record[r].status])
             /\ enrollable(r, mailed[l][i])
    <3>1. worker'[w] = [worker[w] EXCEPT !.op = "enroll", !.seen = record[r].status]
      BY <2>3, Becomes
    <3>2. record[r].status \in Status \cup {St("UNUSED")}
      BY <2>1 DEF TypeOK, Record
    <3>3. worker'[w] \in Worker /\ worker'[w].op = "enroll" /\ worker'[w].lead = l
          /\ worker'[w].n = i /\ worker'[w].rec = r
      BY <1>0, <3>1, <3>2 DEF Worker, Op
    <3>4. mailed[l][i].step > 0 => mailed[l][i].rec = r
      <4>1. mailed[l][i].step \in Nat
        BY <2>1, MailTypes
      <4> QED
        BY <2>3, <4>1 DEF enrollable, enrollConfirmedSend, enrollConfirmedFollowup
    <3>5. record' = record /\ mailed' = mailed
      BY <1>0
    <3> HIDE DEF l, r, i
    <3> QED
      BY <2>1, <3>3, <3>4, <3>5 DEF SessionIsSound, OfALead, OfARecord, used
  <2> QED
    BY <1>4, <2>2, <2>3 DEF enrollRead
<1>5. ASSUME NEW r \in Records, NEW to \in OperatorTargets, transitionRead(w, r, to)
      PROVE  SessionIsSound(w)' /\ worker'[w] \in Worker
  <2>1. worker'[w] = [Idle EXCEPT !.op = "transition", !.rec = r, !.seen = record[r].status, !.to = to]
    BY <1>5, Becomes DEF transitionRead
  <2>2. used(r) /\ record[r].status \in Status \cup {St("UNUSED")} /\ to \in Status /\ r \in 0..MaxRecords
    BY <1>5, TargetsAssumption, OutreachAssumption DEF transitionRead, TypeOK, Record, Records
  <2>3. worker'[w] \in Worker /\ worker'[w].op = "transition" /\ worker'[w].rec = r /\ worker'[w].to = to
    BY <1>0, <2>1, <2>2 DEF Idle, Worker, Op
  <2> QED
    BY <1>0, <2>2, <2>3 DEF SessionIsSound, OfALead, OfARecord, used
<1>6. ASSUME NEW r \in Records, NEW step \in Steps, scheduleRead(w, r, step)
      PROVE  SessionIsSound(w)' /\ worker'[w] \in Worker
  <2>1. worker'[w] = [Idle EXCEPT !.op = "schedule", !.rec = r, !.n = step]
    BY <1>6, Becomes DEF scheduleRead
  <2>2. used(r) /\ step \in Nat /\ r \in 0..MaxRecords
    BY <1>6, OutreachAssumption DEF scheduleRead, Records, Steps
  <2>3. worker'[w] \in Worker /\ worker'[w].op = "schedule" /\ worker'[w].rec = r /\ worker'[w].n = step
    BY <1>0, <2>1, <2>2 DEF Idle, Worker, Op
  <2> QED
    BY <1>0, <2>2, <2>3 DEF SessionIsSound, OfALead, OfARecord, used
<1>7. ASSUME NEW r \in Records, NEW i \in Replies, replyRead(w, r, i)
      PROVE  SessionIsSound(w)' /\ worker'[w] \in Worker
  <2> DEFINE to == classificationToStatus(inbox[i].class)
  <2>1. worker'[w] = [Idle EXCEPT !.op = "reply", !.rec = r, !.n = i, !.seen = record[r].status, !.to = to]
    BY <1>7, Becomes DEF replyRead
  <2>2. inbox[i].class \in Classes
    BY <1>7 DEF replyRead, genuineReplies, TypeOK, Inbound
  <2>3. to \in NoFollowup /\ to \in Status
    BY <2>2, StatusTypes
  <2>4. used(r) /\ record[r].status \in Status \cup {St("UNUSED")} /\ i \in Nat /\ r \in 0..MaxRecords
    BY <1>7, OutreachAssumption DEF replyRead, trackedThread, TypeOK, Record, Records, Replies
  <2> HIDE DEF to
  <2>5. /\ worker'[w] \in Worker /\ worker'[w].op = "reply" /\ worker'[w].rec = r /\ worker'[w].n = i
        /\ worker'[w].to = to
    BY <1>0, <2>1, <2>3, <2>4 DEF Idle, Worker, Op
  <2> QED
    BY <1>0, <2>3, <2>4, <2>5 DEF SessionIsSound, OfALead, OfARecord, used
<1>8. ASSUME NEW r \in Records, NEW b \in Bounces, bounceRead(w, r, b)
      PROVE  SessionIsSound(w)' /\ worker'[w] \in Worker
  <2>1. worker'[w] = [Idle EXCEPT !.op = "bounce", !.rec = r, !.n = b, !.seen = record[r].status]
    BY <1>8, Becomes DEF bounceRead
  <2>2. used(r) /\ record[r].status \in Status \cup {St("UNUSED")} /\ b \in Nat /\ r \in 0..MaxRecords
    BY <1>8, OutreachAssumption DEF bounceRead, trackedOutbound, trackedThread, TypeOK, Record, Records, Bounces
  <2>3. worker'[w] \in Worker /\ worker'[w].op = "bounce" /\ worker'[w].rec = r /\ worker'[w].n = b
    BY <1>0, <2>1, <2>2 DEF Idle, Worker, Op
  <2> QED
    BY <1>0, <2>2, <2>3 DEF SessionIsSound, OfALead, OfARecord, used
<1>9. ASSUME NEW f \in Rows, promoteRead(w, f) PROVE SessionIsSound(w)' /\ worker'[w] \in Worker
  <2> DEFINE r == followup[f].rec
             n == followup[f].step
  <2>1. worker'[w] = [Idle EXCEPT !.op = "promote", !.rec = r, !.seen = record[r].status, !.to = Due(n)]
    BY <1>9, Becomes DEF promoteRead
  <2>2. followup[f].status = "DUE" /\ record[r].status = Sent(n - 1)
    BY <1>9 DEF promoteRead, decideFollowupPromotion, dueRow
  <2>3. r \in Records /\ used(r) /\ n \in Steps /\ r \in 0..MaxRecords
    BY <2>2, OutreachAssumption DEF RowsAreSound, RowIsSound, Records
  <2>4. record[r].status \in Status /\ Due(n) \in Status
    BY <2>2, <2>3, StatusTypes
  <2> HIDE DEF r, n
  <2>5. /\ worker'[w] \in Worker /\ worker'[w].op = "promote" /\ worker'[w].rec = r
        /\ worker'[w].seen = Sent(n - 1) /\ worker'[w].to = Due(n)
    BY <1>0, <2>1, <2>2, <2>3, <2>4 DEF Idle, Worker, Op
  <2> QED
    BY <1>0, <2>3, <2>5 DEF SessionIsSound, OfALead, OfARecord, used
<1>10. ASSUME NEW f \in Rows, composeRead(w, f) PROVE SessionIsSound(w)' /\ worker'[w] \in Worker
  <2> DEFINE r == followup[f].rec
             n == followup[f].step
  <2>1. worker'[w] = [Idle EXCEPT !.op = "compose", !.rec = r, !.n = n]
    BY <1>10, Becomes DEF composeRead
  <2>2. followup[f].status = "DUE"
    BY <1>10 DEF composeRead, composable, dueRow
  <2>3. r \in Records /\ used(r) /\ n \in Steps /\ r \in 0..MaxRecords /\ n \in Nat
    BY <2>2, OutreachAssumption DEF RowsAreSound, RowIsSound, Records, Steps
  <2> HIDE DEF r, n
  <2>4. worker'[w] \in Worker /\ worker'[w].op = "compose" /\ worker'[w].rec = r /\ worker'[w].n = n
    BY <1>0, <2>1, <2>3 DEF Idle, Worker, Op
  <2> QED
    BY <1>0, <2>3, <2>4 DEF SessionIsSound, OfALead, OfARecord, used
<1>11. ASSUME Crash(w) PROVE SessionIsSound(w)' /\ worker'[w] \in Worker
  <2>1. worker'[w] = Idle
    BY <1>11, Becomes DEF Crash, Finish
  <2> QED
    BY <1>0, <2>1, IdleIsSound
<1> QED
  BY <1>1, <1>2, <1>3, <1>4, <1>5, <1>6, <1>7, <1>8, <1>9, <1>10, <1>11 DEF ReadStep

(* What a session has left to do once it has written. *)
LEMMA WritesAreSound ==
  ASSUME TypeOK, SessionsAreSound, EnrolledInOwnRecord, NEW w \in Workers, WriteStep(w)
  PROVE  SessionIsSound(w)' /\ worker'[w] \in Worker
<1>0. Idle \in Worker /\ worker[w] \in Worker
  BY IdleTypes DEF TypeOK
<1>1. CASE Finish(w)
  <2>1. worker'[w] = Idle
    BY <1>1, Becomes DEF Finish
  <2> QED
    BY <1>0, <2>1, IdleIsSound
<1>2. ASSUME SendMail(w), ~ Finish(w) PROVE SessionIsSound(w)' /\ worker'[w] \in Worker
  <2> DEFINE l == worker[w].lead
             i == Len(mailed[l]) + 1
             e == [step |-> lead[l].step, rec |-> lead[l].rec]
  <2>1. /\ worker[w].op = "cleared"
        /\ mailed' = [mailed EXCEPT ![l] = Append(@, e)]
        /\ Become(w, [Idle EXCEPT !.op = "confirmed", !.lead = l, !.n = i])
    BY <1>2 DEF SendMail
  <2>2. l \in Leads
    BY <2>1 DEF SessionsAreSound, SessionIsSound
  <2>3. mailed[l] \in Seq(Mail) /\ lead[l] \in Lead
    BY <2>2 DEF TypeOK
  <2>4. e \in Mail
    BY <2>3 DEF Lead, Mail
  <2>5. i \in DOMAIN Append(mailed[l], e) /\ i \in Nat
    <3> HIDE DEF e
    <3>1. DOMAIN Append(mailed[l], e) = 1..(Len(mailed[l]) + 1) /\ Len(mailed[l]) \in Nat
      BY <2>3, <2>4, AppendFacts
    <3> QED
      BY <3>1
  <2>6. mailed'[l] = Append(mailed[l], e)
    BY <2>1, <2>2 DEF TypeOK
  <2>7. worker'[w] = [Idle EXCEPT !.op = "confirmed", !.lead = l, !.n = i]
    BY <2>1, Becomes
  <2> HIDE DEF i, e
  <2>8. worker'[w] \in Worker /\ worker'[w].op = "confirmed" /\ worker'[w].lead = l /\ worker'[w].n = i
    BY <1>0, <2>2, <2>5, <2>7 DEF Idle, Worker, Op
  <2> HIDE DEF l
  <2> QED
    BY <2>2, <2>5, <2>6, <2>8 DEF SessionIsSound, OfALead, OfARecord
<1>3. ASSUME insertRecord(w), ~ Finish(w) PROVE SessionIsSound(w)' /\ worker'[w] \in Worker
  <2> DEFINE l == worker[w].lead
  <2>1. worker[w].op = "track" /\ UNCHANGED mailed
    BY <1>3 DEF insertRecord
  <2>2. PICK r \in Records :
          /\ record' = [record EXCEPT ![r] = [lead |-> l, status |-> St("DRAFT_READY"),
                                              sent |-> FALSE, dnc |-> FALSE]]
          /\ Become(w, [worker[w] EXCEPT !.op = "tracked", !.rec = r])
    BY <1>3 DEF insertRecord
  <2>3. l \in Leads /\ worker[w].n \in DOMAIN mailed[l] /\ r \in 0..MaxRecords
    BY <2>1, OutreachAssumption DEF SessionsAreSound, SessionIsSound, OfALead, Records
  <2>4. worker'[w] = [worker[w] EXCEPT !.op = "tracked", !.rec = r]
    BY <2>2, Becomes
  <2>5. /\ worker'[w] \in Worker /\ worker'[w].op = "tracked" /\ worker'[w].lead = l
        /\ worker'[w].n = worker[w].n /\ worker'[w].rec = r
    BY <1>0, <2>3, <2>4 DEF Worker, Op
  <2>6. record'[r].lead = l /\ record'[r].status = St("DRAFT_READY")
    BY <2>2 DEF TypeOK
  <2>7. St("DRAFT_READY") # St("UNUSED")
    BY DEF St
  <2> HIDE DEF l
  <2> QED
    BY <2>1, <2>3, <2>5, <2>6, <2>7 DEF SessionIsSound, OfALead, OfARecord, used
<1> QED
  BY <1>1, <1>2, <1>3 DEF WriteStep, enrollCommit, transitionCommit, scheduleCommit, promoteCommit,
     composeCommit, replyCommit, bounceCommit

(* A step of one session is not a step of another. *)
LEMMA StepsOfOneSession ==
  ASSUME NEW w \in Workers, ReadStep(w) \/ WriteStep(w)
  PROVE  \E local : Become(w, local)
<1> USE DEF Finish
<1>1. CASE ReadStep(w)
  BY <1>1 DEF ReadStep, trackRead, enrollRead, Crash, clearForSend, unenrolledConfirmedSends,
     transitionRead, scheduleRead, replyRead, bounceRead, promoteRead, composeRead
<1>2. CASE WriteStep(w)
  <2>1. CASE SendMail(w) \/ insertRecord(w)
    BY <2>1 DEF SendMail, insertRecord
  <2> QED
    BY <1>2, <2>1 DEF WriteStep, enrollCommit, transitionCommit, scheduleCommit,
       promoteCommit, composeCommit, replyCommit, bounceCommit
<1> QED
  BY <1>1, <1>2

LEMMA AroundKeepsSessions ==
  ASSUME AroundStep \/ UNCHANGED vars
  PROVE  worker' = worker
BY DEF AroundStep, DueTimePasses, cancelRejected, EditFollowup, recordMessage, progress, resumeReview,
   decideEmail, ReplyArrives, correctDeliveryEvent, vars

LEMMA SessionsStaySound ==
  ASSUME TypeOK, SessionsAreSound, RowsAreSound, EnrolledInOwnRecord, [Next]_vars
  PROVE  SessionsAreSound' /\ worker' \in [Workers -> Worker]
<1>1. RecordsPersist /\ MailsPersist /\ worker \in [Workers -> Worker]
  BY RecordsStay, MailsStay DEF TypeOK
<1>2. CASE worker' = worker
  BY <1>1, <1>2, SessionWaits DEF SessionsAreSound
<1>3. ASSUME NEW w \in Workers, ReadStep(w) \/ WriteStep(w)
      PROVE  SessionsAreSound' /\ worker' \in [Workers -> Worker]
  <2>1. PICK local : Become(w, local)
    BY <1>3, StepsOfOneSession
  <2>2. worker'[w] = local /\ \A v \in Workers \ {w} : worker'[v] = worker[v]
    BY <2>1, Becomes
  <2>3. SessionIsSound(w)' /\ worker'[w] \in Worker
    BY <1>3, ReadsAreSound, WritesAreSound
  <2>4. \A v \in Workers \ {w} : SessionIsSound(v)'
    BY <1>1, <2>2, SessionWaits DEF SessionsAreSound
  <2>5. worker' \in [Workers -> Worker]
    BY <1>1, <2>1, <2>2, <2>3 DEF Become
  <2> QED
    BY <2>3, <2>4, <2>5 DEF SessionsAreSound
<1> QED
  BY <1>2, <1>3, NextIs, AroundKeepsSessions

(***************************************************************************)
(* Follow-up rows                                                          *)
(***************************************************************************)
KeptRow(f) ==
  /\ followup'[f].rec = followup[f].rec /\ followup'[f].step = followup[f].step
  /\ followup[f].status = "UNUSED" => followup'[f].status = "UNUSED"

AddedRow(f) == \E r \in Records, step \in Steps : used(r) /\ followup'[f] = NewRow(r, step)

RowsMoved == followup' \in [Rows -> Followup] /\ \A f \in Rows : KeptRow(f) \/ AddedRow(f)

LEMMA CancellingKeepsRows ==
  ASSUME TypeOK, NEW r \in Records, followup' = cancelPending(r)
  PROVE  RowsMoved
<1>1. followup' \in [Rows -> Followup] /\ followup \in [Rows -> Followup]
  BY RowTypes DEF TypeOK
<1>2. ASSUME NEW f \in Rows PROVE KeptRow(f)
  <2>1. followup[f] \in Followup
    BY <1>1
  <2>2. CASE f \in pendingFollowups(r)
    <3>1. followup'[f] = [followup[f] EXCEPT !.status = "CANCELLED"] /\ followup[f].status # "UNUSED"
      BY <2>2 DEF cancelPending, pendingFollowups
    <3> QED
      BY <2>1, <3>1 DEF KeptRow, Followup
  <2>3. CASE f \notin pendingFollowups(r)
    BY <2>3 DEF cancelPending, KeptRow
  <2> QED
    BY <2>2, <2>3
<1> QED
  BY <1>1, <1>2 DEF RowsMoved

LEMMA EnrolmentKeepsRows ==
  ASSUME TypeOK, NEW r \in Records, used(r), NEW step \in 0..FinalStep,
         followup' \in advancedRows(r, step)
  PROVE  RowsMoved
<1> DEFINE mine == {f \in pendingFollowups(r) : followup[f].step = step}
           base == IF mine = {} THEN {followup} ELSE {[followup EXCEPT ![f].status = "SENT"] : f \in mine}
<1>1. followup' \in [Rows -> Followup] /\ followup \in [Rows -> Followup]
  BY RowTypes DEF TypeOK
<1>2. ASSUME NEW b \in base
      PROVE  b \in [Rows -> Followup] /\ \A f \in Rows :
               /\ b[f].rec = followup[f].rec /\ b[f].step = followup[f].step
               /\ followup[f].status = "UNUSED" => b[f].status = "UNUSED"
  <2>1. CASE b = followup
    BY <1>1, <2>1
  <2>2. CASE \E g \in mine : b = [followup EXCEPT ![g].status = "SENT"]
    <3>1. PICK g \in mine : b = [followup EXCEPT ![g].status = "SENT"]
      BY <2>2
    <3>2. g \in Rows /\ followup[g].status # "UNUSED" /\ followup[g] \in Followup
      BY <1>1 DEF pendingFollowups
    <3>3. b[g] = [followup[g] EXCEPT !.status = "SENT"] /\ \A f \in Rows \ {g} : b[f] = followup[f]
      BY <1>1, <3>1, <3>2
    <3>4. b[g] \in Followup /\ b[g].rec = followup[g].rec /\ b[g].step = followup[g].step
      BY <3>2, <3>3 DEF Followup
    <3>5. b \in [Rows -> Followup]
      BY <1>1, <3>1, <3>2, <3>3, <3>4
    <3> QED
      BY <3>2, <3>3, <3>4, <3>5
  <2> QED
    BY <2>1, <2>2
<1> HIDE DEF base
<1>3. CASE step < FinalStep
  <2>1. step + 1 \in Steps
    BY <1>3, OutreachAssumption DEF Steps
  <2>2. PICK b \in base : followup' = [b EXCEPT ![freeRow] = NewRow(r, step + 1)]
    BY <1>3 DEF advancedRows, base
  <2>3. ASSUME NEW f \in Rows PROVE KeptRow(f) \/ AddedRow(f)
    <3>1. followup'[f] = b[f] \/ followup'[f] = NewRow(r, step + 1)
      BY <1>2, <2>2
    <3> QED
      BY <1>2, <2>1, <3>1 DEF KeptRow, AddedRow
  <2> QED
    BY <1>1, <2>3 DEF RowsMoved
<1>4. CASE ~ step < FinalStep
  <2>1. followup' \in base
    BY <1>4 DEF advancedRows, base
  <2> QED
    BY <1>1, <1>2, <2>1 DEF RowsMoved, KeptRow
<1> QED
  BY <1>3, <1>4

LEMMA RowMoves ==
  ASSUME TypeOK, SessionsAreSound, [Next]_vars
  PROVE  RowsMoved
<1>1. followup \in [Rows -> Followup] /\ \A f \in Rows : followup[f] \in Followup
  BY DEF TypeOK
<1>2. CASE UNCHANGED followup
  BY <1>1, <1>2 DEF RowsMoved, KeptRow
<1>3. ASSUME NEW w \in Workers, enrollCommit(w), followup' # followup PROVE RowsMoved
  <2> DEFINE l == worker[w].lead
             i == worker[w].n
             r == worker[w].rec
             step == mailed[l][i].step
  <2>1. worker[w].op = "enroll" /\ followup' \in advancedRows(r, step)
    BY <1>3 DEF enrollCommit
  <2>2. r \in Records /\ used(r) /\ l \in Leads /\ i \in DOMAIN mailed[l]
    BY <2>1 DEF SessionsAreSound, SessionIsSound, OfALead, OfARecord
  <2>3. step \in 0..FinalStep
    BY <2>2, MailTypes
  <2> HIDE DEF l, i, r, step
  <2> QED
    BY <2>1, <2>2, <2>3, EnrolmentKeepsRows
<1>4. ASSUME NEW w \in Workers, transitionCommit(w) \/ replyCommit(w) \/ bounceCommit(w),
             followup' # followup
      PROVE  RowsMoved
  <2>1. worker[w].op \in {"transition", "reply", "bounce"} /\ followup' = cancelPending(worker[w].rec)
    BY <1>4 DEF transitionCommit, replyCommit, bounceCommit
  <2>2. worker[w].rec \in Records
    BY <2>1 DEF SessionsAreSound, SessionIsSound, OfARecord
  <2> QED
    BY <2>1, <2>2, CancellingKeepsRows
<1>5. ASSUME NEW w \in Workers, scheduleCommit(w), followup' # followup PROVE RowsMoved
  <2> DEFINE new == NewRow(worker[w].rec, worker[w].n)
  <2>1. worker[w].op = "schedule" /\ followup' = [followup EXCEPT ![freeRow] = new]
    BY <1>5 DEF scheduleCommit
  <2>2. worker[w].rec \in Records /\ used(worker[w].rec) /\ worker[w].n \in Steps
    BY <2>1 DEF SessionsAreSound, SessionIsSound, OfARecord
  <2>3. new \in Followup
    BY <1>1, <2>2, RowTypes
  <2>4. followup' \in [Rows -> Followup]
    BY <1>1, <2>1, <2>3, UpdateAnywhere
  <2>5. \A f \in Rows : followup'[f] = followup[f] \/ followup'[f] = new
    BY <1>1, <2>1
  <2> QED
    BY <2>2, <2>4, <2>5 DEF RowsMoved, KeptRow, AddedRow
<1>6. ASSUME NEW g \in Rows, NEW row, followup' = [followup EXCEPT ![g] = row],
             row \in Followup, row.rec = followup[g].rec, row.step = followup[g].step,
             followup[g].status # "UNUSED"
      PROVE  RowsMoved
  <2>1. followup' \in [Rows -> Followup] /\ followup'[g] = row /\ \A f \in Rows \ {g} : followup'[f] = followup[f]
    BY <1>1, <1>6
  <2> QED
    BY <1>6, <2>1 DEF RowsMoved, KeptRow
<1>7. ASSUME NEW g \in Rows, DueTimePasses(g) PROVE RowsMoved
  <2>1. followup' = [followup EXCEPT ![g] = [followup[g] EXCEPT !.elapsed = TRUE]] /\ followup[g].status # "UNUSED"
    BY <1>7 DEF DueTimePasses
  <2>2. [followup[g] EXCEPT !.elapsed = TRUE] \in Followup
        /\ [followup[g] EXCEPT !.elapsed = TRUE].rec = followup[g].rec
        /\ [followup[g] EXCEPT !.elapsed = TRUE].step = followup[g].step
    BY <1>1 DEF Followup
  <2> QED
    BY <1>6, <2>1, <2>2
<1>8. ASSUME NEW g \in Rows, NEW s \in {"CANCELLED", "POSTPONED"}, cancelRejected(g) \/ EditFollowup(g, s)
      PROVE  RowsMoved
  <2>1. \A t \in {"CANCELLED", "POSTPONED"} :
          /\ [followup[g] EXCEPT !.status = t] \in Followup
          /\ [followup[g] EXCEPT !.status = t].rec = followup[g].rec
          /\ [followup[g] EXCEPT !.status = t].step = followup[g].step
    BY <1>1 DEF Followup
  <2>2. followup[g].status # "UNUSED" /\ \E t \in {"CANCELLED", "POSTPONED"} :
          followup' = [followup EXCEPT ![g] = [followup[g] EXCEPT !.status = t]]
    BY <1>8 DEF cancelRejected, EditFollowup, dueRow
  <2>3. PICK t \in {"CANCELLED", "POSTPONED"} :
          followup' = [followup EXCEPT ![g] = [followup[g] EXCEPT !.status = t]]
    BY <2>2
  <2> QED
    BY <1>6, <2>1, <2>2, <2>3
<1>9. ASSUME NEW l \in Leads, NEW d \in {"approved", "rejected"}, decideEmail(l, d), followup' # followup
      PROVE  RowsMoved
  <2> DEFINE Of(f) == followup[f].rec = lead[l].rec /\ followup[f].step = lead[l].step
  <2>1. followup' = [f \in Rows |-> IF Of(f) THEN [followup[f] EXCEPT !.afresh = FALSE] ELSE followup[f]]
    BY <1>9 DEF decideEmail
  <2> HIDE DEF Of
  <2>2. ASSUME NEW f \in Rows PROVE followup'[f] \in Followup /\ KeptRow(f)
    <3>1. /\ [followup[f] EXCEPT !.afresh = FALSE] \in Followup
          /\ [followup[f] EXCEPT !.afresh = FALSE].rec = followup[f].rec
          /\ [followup[f] EXCEPT !.afresh = FALSE].step = followup[f].step
          /\ [followup[f] EXCEPT !.afresh = FALSE].status = followup[f].status
      BY <1>1 DEF Followup
    <3>2. followup'[f] = [followup[f] EXCEPT !.afresh = FALSE] \/ followup'[f] = followup[f]
      BY <2>1
    <3> QED
      BY <1>1, <3>1, <3>2 DEF KeptRow
  <2> QED
    BY <2>1, <2>2 DEF RowsMoved
<1> QED
  BY <1>2, <1>3, <1>4, <1>5, <1>7, <1>8, <1>9, WhoWritesRows

LEMMA RowsStaySound ==
  ASSUME TypeOK, SessionsAreSound, RowsAreSound, [Next]_vars
  PROVE  RowsAreSound' /\ followup' \in [Rows -> Followup]
<1>1. RowsMoved /\ RecordsPersist
  BY RowMoves, RecordsStay
<1>2. ASSUME NEW f \in Rows PROVE RowIsSound(f)'
  <2>1. CASE KeptRow(f)
    <3>1. RowIsSound(f)
      BY DEF RowsAreSound
    <3> QED
      BY <1>1, <2>1, <3>1 DEF RowIsSound, KeptRow, RecordsPersist, used
  <2>2. CASE AddedRow(f)
    BY <1>1, <2>2 DEF RowIsSound, AddedRow, NewRow, RecordsPersist, used
  <2> QED
    BY <1>1, <2>1, <2>2 DEF RowsMoved
<1> QED
  BY <1>1, <1>2 DEF RowsAreSound, RowsMoved

(***************************************************************************)
(* Message rows                                                            *)
(***************************************************************************)
(* No message row is written; an e-mail that went out has none yet. *)
NothingEnrolled ==
  \A l \in Leads :
    /\ DOMAIN message'[l] = DOMAIN mailed'[l]
    /\ \A i \in DOMAIN message'[l] :
         \/ i \in DOMAIN message[l] /\ message'[l][i] = message[l][i]
         \/ i \notin DOMAIN message[l] /\ message'[l][i] = <<>>
    /\ \A i \in DOMAIN message[l] : i \in DOMAIN message'[l] /\ message'[l][i] = message[l][i]

(* The e-mail of the session is enrolled in its record. *)
EnrolledNow(w) ==
  LET l == worker[w].lead
      i == worker[w].n
      r == worker[w].rec
  IN
  /\ enrollCommit(w) /\ worker[w].op = "enroll"
  /\ l \in Leads /\ i \in DOMAIN message[l] /\ r \in Records /\ used(r) /\ record[r].lead = l
  /\ message[l][i] = <<>> /\ message'[l][i] = <<r>>
  /\ \A k \in Leads : /\ DOMAIN message'[k] = DOMAIN message[k]
                       /\ \A j \in DOMAIN message[k] : k # l \/ j # i => message'[k][j] = message[k][j]
  /\ UNCHANGED mailed
  /\ record' = [record EXCEPT ![r] = enrolledRecord(@, mailed[l][i].step)]
  /\ past' = [past EXCEPT ![r] = @ \cup reopening(r, Sent(mailed[l][i].step))]

LEMMA SameLength ==
  ASSUME NEW a \in Nat, NEW b \in Nat, 1..a = 1..b
  PROVE  a = b
<1>1. a > 0 => a \in 1..b
  OBVIOUS
<1>2. b > 0 => b \in 1..a
  OBVIOUS
<1> QED
  BY <1>1, <1>2

LEMMA MessagesMove ==
  ASSUME TypeOK, SessionsAreSound, EnrolledInOwnRecord, [Next]_vars
  PROVE  /\ message' \in [Leads -> Seq(Seq(Records))]
         /\ NothingEnrolled \/ \E w \in Workers : EnrolledNow(w)
<1>0. /\ message \in [Leads -> Seq(Seq(Records))] /\ mailed \in [Leads -> Seq(Mail)] /\ lead \in [Leads -> Lead]
      /\ <<>> \in Seq(Records) /\ \A l \in Leads : DOMAIN message[l] = DOMAIN mailed[l]
  BY DEF TypeOK, EnrolledInOwnRecord
<1>1. CASE UNCHANGED <<message, mailed>>
  BY <1>0, <1>1 DEF NothingEnrolled
<1>2. ASSUME NEW w \in Workers, MailSent(w)
      PROVE  message' \in [Leads -> Seq(Seq(Records))] /\ NothingEnrolled
  <2> DEFINE k == worker[w].lead
             e == [step |-> lead[k].step, rec |-> lead[k].rec]
  <2>1. k \in Leads /\ lead[k] \in Lead
    BY <1>0, <1>2 DEF MailSent, SessionsAreSound, SessionIsSound
  <2>2. e \in Mail
    BY <2>1 DEF Lead, Mail
  <2>3. mailed' = [mailed EXCEPT ![k] = Append(mailed[k], e)]
        /\ message' = [message EXCEPT ![k] = Append(message[k], <<>>)]
    BY <1>2 DEF MailSent
  <2>4. mailed[k] \in Seq(Mail) /\ message[k] \in Seq(Seq(Records))
    BY <1>0, <2>1
  <2> HIDE DEF e, k
  <2>5. /\ DOMAIN Append(mailed[k], e) = 1..(Len(mailed[k]) + 1) /\ DOMAIN mailed[k] = 1..Len(mailed[k])
        /\ Len(mailed[k]) \in Nat
    BY <2>2, <2>4, AppendFacts
  <2>6. /\ Append(message[k], <<>>) \in Seq(Seq(Records)) /\ Len(message[k]) \in Nat
        /\ DOMAIN Append(message[k], <<>>) = 1..(Len(message[k]) + 1) /\ DOMAIN message[k] = 1..Len(message[k])
        /\ Append(message[k], <<>>)[Len(message[k]) + 1] = <<>>
        /\ \A i \in DOMAIN message[k] : /\ i \in DOMAIN Append(message[k], <<>>)
                                        /\ Append(message[k], <<>>)[i] = message[k][i]
    BY <1>0, <2>4, AppendFacts
  <2>7. Len(message[k]) = Len(mailed[k])
    BY <1>0, <2>1, <2>5, <2>6, SameLength
  <2>8. message'[k] = Append(message[k], <<>>) /\ mailed'[k] = Append(mailed[k], e)
        /\ \A l \in Leads \ {k} : message'[l] = message[l] /\ mailed'[l] = mailed[l]
    BY <1>0, <2>1, <2>3
  <2>9. \A i \in DOMAIN message'[k] : i \in DOMAIN message[k] \/ i = Len(message[k]) + 1
    BY <2>6, <2>8
  <2>10. message' \in [Leads -> Seq(Seq(Records))]
    BY <1>0, <2>3, <2>6
  <2>11. Len(message[k]) + 1 \notin DOMAIN message[k]
    BY <2>6
  <2>12. DOMAIN message'[k] = DOMAIN mailed'[k]
    BY <2>5, <2>6, <2>7, <2>8
  <2>13. \A i \in DOMAIN message'[k] :
           \/ i \in DOMAIN message[k] /\ message'[k][i] = message[k][i]
           \/ i \notin DOMAIN message[k] /\ message'[k][i] = <<>>
    BY <2>6, <2>8, <2>9, <2>11
  <2>14. \A i \in DOMAIN message[k] : i \in DOMAIN message'[k] /\ message'[k][i] = message[k][i]
    BY <2>6, <2>8
  <2> QED
    BY <1>0, <2>8, <2>10, <2>12, <2>13, <2>14 DEF NothingEnrolled
<1>3. ASSUME NEW w \in Workers, enrollCommit(w), message' # message
      PROVE  message' \in [Leads -> Seq(Seq(Records))] /\ EnrolledNow(w)
  <2> DEFINE l == worker[w].lead
             i == worker[w].n
             r == worker[w].rec
             step == mailed[l][i].step
  <2>1. /\ worker[w].op = "enroll" /\ message[l][i] = <<>> /\ UNCHANGED mailed
        /\ message' = [message EXCEPT ![l][i] = Append(@, r)]
        /\ record' = [record EXCEPT ![r] = enrolledRecord(@, step)]
        /\ past' = [past EXCEPT ![r] = @ \cup reopening(r, Sent(step))]
    BY <1>3 DEF enrollCommit, messageIndexAdmits
  <2>2. /\ l \in Leads /\ i \in DOMAIN message[l] /\ r \in Records /\ used(r) /\ record[r].lead = l
    BY <1>0, <2>1 DEF SessionsAreSound, SessionIsSound, OfALead, OfARecord
  <2> HIDE DEF l, i, r, step
  <2>3. Append(<<>>, r) = <<r>> /\ <<r>> \in Seq(Records)
    BY <2>2
  <2>4. message' = [message EXCEPT ![l] = [message[l] EXCEPT ![i] = <<r>>]]
    BY <2>1, <2>3
  <2>5. message[l] \in Seq(Seq(Records))
    BY <1>0, <2>2
  <2>6. [message[l] EXCEPT ![i] = <<r>>] \in Seq(Seq(Records))
    BY <2>2, <2>3, <2>5
  <2>7. message' \in [Leads -> Seq(Seq(Records))]
    BY <1>0, <2>4, <2>6
  <2>8. message'[l] = [message[l] EXCEPT ![i] = <<r>>] /\ \A k \in Leads \ {l} : message'[k] = message[k]
    BY <1>0, <2>2, <2>4
  <2>9. message'[l][i] = <<r>> /\ \A j \in DOMAIN message[l] \ {i} : message'[l][j] = message[l][j]
    BY <2>2, <2>8
  <2>10. \A k \in Leads : DOMAIN message'[k] = DOMAIN message[k]
    BY <2>8
  <2> QED
    BY <1>3, <2>1, <2>2, <2>7, <2>8, <2>9, <2>10 DEF EnrolledNow, l, i, r, step
<1>4. message' # message => \E w \in Workers : enrollCommit(w) \/ MailSent(w)
  BY WhoWritesMessages, SendMoves
<1>5. mailed' # mailed => \E w \in Workers : MailSent(w)
  <2>1. ASSUME NEW w \in Workers, composeCommit(w) PROVE UNCHANGED mailed
    BY <2>1 DEF composeCommit
  <2>2. ASSUME NEW l \in Leads, \/ progress(l) \/ resumeReview(l)
                                \/ \E d \in {"approved", "rejected"} : decideEmail(l, d)
        PROVE  UNCHANGED mailed
    BY <2>2 DEF progress, resumeReview, decideEmail
  <2> QED
    BY <2>1, <2>2, SendMoves, WhoWritesLeads
<1> QED
  BY <1>1, <1>2, <1>3, <1>4, <1>5

LEMMA EnrolmentsStaySound ==
  ASSUME TypeOK, SessionsAreSound, EnrolledInOwnRecord, EnrolledOnce, [Next]_vars
  PROVE  EnrolledInOwnRecord' /\ EnrolledOnce'
<1>0. RecordsPersist /\ \A l \in Leads : DOMAIN message[l] = DOMAIN mailed[l]
  BY RecordsStay DEF EnrolledInOwnRecord
<1>1. \A l \in Leads, r \in Records :
        enrolledIn(l, r) # {} => record'[r].status # St("UNUSED") /\ record'[r].lead = l
  BY <1>0 DEF EnrolledInOwnRecord, RecordsPersist
<1>2. CASE NothingEnrolled
  <2>1. ASSUME NEW l \in Leads, NEW r \in Records PROVE enrolledIn(l, r)' \subseteq enrolledIn(l, r)
    BY <1>2 DEF NothingEnrolled, enrolledIn
  <2>2. EnrolledOnce'
    <3>1. Len(<<>>) = 0
      OBVIOUS
    <3> QED
      BY <1>2, <3>1 DEF NothingEnrolled, EnrolledOnce
  <2>3. EnrolledInOwnRecord'
    BY <1>1, <1>2, <2>1 DEF EnrolledInOwnRecord, NothingEnrolled, used
  <2> QED
    BY <2>2, <2>3
<1>3. ASSUME NEW w \in Workers, EnrolledNow(w) PROVE EnrolledInOwnRecord' /\ EnrolledOnce'
  <2> DEFINE k == worker[w].lead
             i == worker[w].n
             q == worker[w].rec
  <2>1. /\ k \in Leads /\ q \in Records /\ used(q) /\ record[q].lead = k /\ message'[k][i] = <<q>>
        /\ mailed' = mailed
        /\ \A l \in Leads : DOMAIN message'[l] = DOMAIN message[l]
        /\ \A l \in Leads : \A j \in DOMAIN message[l] : l # k \/ j # i => message'[l][j] = message[l][j]
    BY <1>3 DEF EnrolledNow
  <2> HIDE DEF k, i, q
  <2>2. Len(<<q>>) = 1 /\ DOMAIN <<q>> = {1} /\ <<q>>[1] = q
    OBVIOUS
  <2>3. EnrolledOnce'
    <3>1. ASSUME NEW l \in Leads, NEW j \in DOMAIN message[l] PROVE Len(message'[l][j]) <= 1
      <4>1. CASE l = k /\ j = i
        <5>1. message'[l][j] = <<q>>
          BY <2>1, <4>1
        <5>2. Len(message'[l][j]) = 1
          BY <2>2, <5>1
        <5> QED
          BY <5>2
      <4>2. CASE l # k \/ j # i
        BY <2>1, <4>2 DEF EnrolledOnce
      <4> QED
        BY <4>1, <4>2
    <3> QED
      BY <2>1, <3>1 DEF EnrolledOnce
  <2>4. ASSUME NEW l \in Leads, NEW r \in Records, NEW j \in enrolledIn(l, r)'
        PROVE  j \in enrolledIn(l, r) \/ (l = k /\ r = q)
    <3>1. j \in DOMAIN message[l]
      BY <2>1 DEF enrolledIn
    <3>2. CASE l # k \/ j # i
      BY <2>1, <3>1, <3>2 DEF enrolledIn
    <3>3. CASE l = k /\ j = i
      BY <2>1, <2>2, <3>3 DEF enrolledIn
    <3> QED
      BY <3>2, <3>3
  <2>5. record'[q].status # St("UNUSED") /\ record'[q].lead = k
    BY <1>0, <2>1 DEF RecordsPersist
  <2>6. EnrolledInOwnRecord'
    <3>1. ASSUME NEW l \in Leads, NEW r \in Records, enrolledIn(l, r)' # {}
          PROVE  record'[r].status # St("UNUSED") /\ record'[r].lead = l
      BY <1>1, <2>4, <2>5, <3>1
    <3> QED
      BY <1>0, <2>1, <3>1 DEF EnrolledInOwnRecord, used
  <2> QED
    BY <2>3, <2>6
<1> QED
  BY <1>2, <1>3, MessagesMove

(***************************************************************************)
(* What sessions set out to do                                             *)
(***************************************************************************)
(* Only the final suppression check clears an e-mail, only the bridge's reading
   makes a session enrol one and only reply sync's makes it apply a reply. *)
LEMMA ReadsLeadTo ==
  ASSUME TypeOK, NEW w \in Workers, ReadStep(w) \/ WriteStep(w)
  PROVE  \/ \E l \in Leads : clearForSend(w, l)
         \/ enrollRead(w)
         \/ worker'[w].op = "reply" /\ \E r \in Records, i \in Replies : replyRead(w, r, i)
         \/ worker'[w].op \notin {"cleared", "enroll", "reply"}
<1>0. worker[w] \in Worker
  BY DEF TypeOK
<1>1. CASE Finish(w)
  <2>1. worker'[w] = Idle
    BY <1>1, Becomes DEF Finish
  <2> QED
    BY <2>1 DEF Idle
<1>2. ASSUME Become(w, [worker[w] EXCEPT !.op = "track"]) PROVE worker'[w].op = "track"
  <2>1. worker'[w] = [worker[w] EXCEPT !.op = "track"]
    BY <1>2, Becomes
  <2> QED
    BY <1>0, <2>1 DEF Worker
<1>3. ASSUME NEW r, Become(w, [worker[w] EXCEPT !.op = "tracked", !.rec = r]) PROVE worker'[w].op = "tracked"
  <2>1. worker'[w] = [worker[w] EXCEPT !.op = "tracked", !.rec = r]
    BY <1>3, Becomes
  <2> QED
    BY <1>0, <2>1 DEF Worker
<1>4. ASSUME trackRead(w) \/ insertRecord(w), ~ Finish(w) PROVE worker'[w].op \in {"track", "tracked"}
  BY <1>2, <1>3, <1>4 DEF trackRead, insertRecord
<1>5. ASSUME SendMail(w), ~ Finish(w) PROVE worker'[w].op = "confirmed"
  <2>1. worker'[w] = [Idle EXCEPT !.op = "confirmed", !.lead = worker[w].lead,
                              !.n = Len(mailed[worker[w].lead]) + 1]
    BY <1>5, Becomes DEF SendMail
  <2> QED
    BY <2>1 DEF Idle
<1>6. ASSUME NEW l \in Leads, NEW i \in 1..MaxMails, unenrolledConfirmedSends(w, l, i) PROVE worker'[w].op = "confirmed"
  <2>1. worker'[w] = [Idle EXCEPT !.op = "confirmed", !.lead = l, !.n = i]
    BY <1>6, Becomes DEF unenrolledConfirmedSends
  <2> QED
    BY <2>1 DEF Idle
<1>7. ASSUME NEW r \in Records, NEW to \in OperatorTargets, transitionRead(w, r, to) PROVE worker'[w].op = "transition"
  <2>1. worker'[w] = [Idle EXCEPT !.op = "transition", !.rec = r, !.seen = record[r].status, !.to = to]
    BY <1>7, Becomes DEF transitionRead
  <2> QED
    BY <2>1 DEF Idle
<1>8. ASSUME NEW r \in Records, NEW step \in Steps, scheduleRead(w, r, step) PROVE worker'[w].op = "schedule"
  <2>1. worker'[w] = [Idle EXCEPT !.op = "schedule", !.rec = r, !.n = step]
    BY <1>8, Becomes DEF scheduleRead
  <2> QED
    BY <2>1 DEF Idle
<1>9. ASSUME NEW r \in Records, NEW i \in Replies, replyRead(w, r, i) PROVE worker'[w].op = "reply"
  <2>1. worker'[w] = [Idle EXCEPT !.op = "reply", !.rec = r, !.n = i, !.seen = record[r].status,
                              !.to = classificationToStatus(inbox[i].class)]
    BY <1>9, Becomes DEF replyRead
  <2> QED
    BY <2>1 DEF Idle
<1>10. ASSUME NEW r \in Records, NEW b \in Bounces, bounceRead(w, r, b) PROVE worker'[w].op = "bounce"
  <2>1. worker'[w] = [Idle EXCEPT !.op = "bounce", !.rec = r, !.n = b, !.seen = record[r].status]
    BY <1>10, Becomes DEF bounceRead
  <2> QED
    BY <2>1 DEF Idle
<1>11. ASSUME NEW f \in Rows, promoteRead(w, f) PROVE worker'[w].op = "promote"
  <2>1. worker'[w] = [Idle EXCEPT !.op = "promote", !.rec = followup[f].rec,
                              !.seen = record[followup[f].rec].status, !.to = Due(followup[f].step)]
    BY <1>11, Becomes DEF promoteRead
  <2> QED
    BY <2>1 DEF Idle
<1>12. ASSUME NEW f \in Rows, composeRead(w, f) PROVE worker'[w].op = "compose"
  <2>1. worker'[w] = [Idle EXCEPT !.op = "compose", !.rec = followup[f].rec, !.n = followup[f].step]
    BY <1>12, Becomes DEF composeRead
  <2> QED
    BY <2>1 DEF Idle
<1>13. ASSUME WriteStep(w), ~ Finish(w) PROVE SendMail(w) \/ insertRecord(w)
  BY <1>13 DEF WriteStep, enrollCommit, transitionCommit, scheduleCommit, promoteCommit, composeCommit,
     replyCommit, bounceCommit
<1>14. ASSUME Crash(w) PROVE Finish(w)
  BY <1>14 DEF Crash
<1> QED
  BY <1>1, <1>4, <1>5, <1>6, <1>7, <1>8, <1>9, <1>10, <1>11, <1>12, <1>13, <1>14 DEF ReadStep

LEMMA WhoClearsOrEnrols ==
  ASSUME TypeOK, [Next]_vars, NEW w \in Workers, worker'[w].op \in {"cleared", "enroll"}
  PROVE  worker'[w] = worker[w] \/ enrollRead(w) \/ \E l \in Leads : clearForSend(w, l)
<1>1. CASE ReadStep(w) \/ WriteStep(w)
  BY <1>1, ReadsLeadTo
<1>2. ASSUME NEW v \in Workers \ {w}, ReadStep(v) \/ WriteStep(v) PROVE worker'[w] = worker[w]
  <2>1. PICK local : Become(v, local)
    BY <1>2, StepsOfOneSession
  <2> QED
    BY <2>1, Becomes
<1> QED
  BY <1>1, <1>2, NextIs, AroundKeepsSessions

LEMMA WhoApplies ==
  ASSUME TypeOK, [Next]_vars, NEW w \in Workers, worker'[w].op = "reply"
  PROVE  worker'[w] = worker[w] \/ \E r \in Records, i \in Replies : replyRead(w, r, i)
<1>1. ASSUME ReadStep(w) \/ WriteStep(w), ~ \E r \in Records, i \in Replies : replyRead(w, r, i)
      PROVE  FALSE
  <2>1. enrollRead(w) \/ \E l \in Leads : clearForSend(w, l)
    BY <1>1, ReadsLeadTo
  <2>2. ASSUME NEW l \in Leads, clearForSend(w, l) PROVE FALSE
    <3>1. worker'[w] = [Idle EXCEPT !.op = "cleared", !.lead = l, !.rec = lead[l].rec, !.n = lead[l].step]
      BY <2>2, Becomes DEF clearForSend
    <3> QED
      BY <3>1 DEF Idle
  <2>3. ASSUME enrollRead(w) PROVE FALSE
    <3>1. \/ Finish(w)
          \/ Become(w, [worker[w] EXCEPT !.op = "enroll", !.seen = record[worker[w].rec].status])
      BY <2>3 DEF enrollRead
    <3>2. \/ worker'[w] = Idle
          \/ worker'[w] = [worker[w] EXCEPT !.op = "enroll", !.seen = record[worker[w].rec].status]
      BY <3>1, Becomes DEF Finish
    <3>3. worker[w] \in Worker
      BY DEF TypeOK
    <3>4. Idle.op = "idle"
      BY DEF Idle
    <3>5. worker'[w].op \in {"idle", "enroll"}
      BY <3>2, <3>3, <3>4 DEF Worker
    <3> QED
      BY <3>5
  <2> QED
    BY <2>1, <2>2, <2>3
<1>2. ASSUME NEW v \in Workers \ {w}, ReadStep(v) \/ WriteStep(v) PROVE worker'[w] = worker[w]
  <2>1. PICK local : Become(v, local)
    BY <1>2, StepsOfOneSession
  <2> QED
    BY <2>1, Becomes
<1> QED
  BY <1>1, <1>2, NextIs, AroundKeepsSessions

(***************************************************************************)
(* Opt-outs and active records                                             *)
(***************************************************************************)
LEMMA ActiveStatuses ==
  /\ \A n \in Int : Sent(n) \notin Terminal /\ Due(n) \notin Terminal
  /\ \A n \in Int : Sent(n) \notin NoFollowup /\ Due(n) \notin NoFollowup
  /\ \A n \in Int : Sent(n) \notin EnrollPath /\ Due(n) \notin EnrollPath
  /\ \A m, n \in Int : Sent(m) # Due(n) /\ (Sent(m) = Sent(n) => m = n) /\ (Due(m) = Due(n) => m = n)
BY DEF Sent, Due, St, Terminal, NoFollowup, Replied, SendBlocked, EnrollPath

(* What a step adds to the past of a record. *)
LEMMA PastMoves ==
  ASSUME TypeOK, SessionsAreSound, [Next]_vars
  PROVE  \/ UNCHANGED past
         \/ \E r \in Records, kinds \in SUBSET Past :
              used(r) /\ past' = [past EXCEPT ![r] = @ \cup kinds]
<1>1. ASSUME NEW w \in Workers, worker[w].op \in {"enroll", "transition", "reply"}
      PROVE  worker[w].rec \in Records /\ used(worker[w].rec)
  BY <1>1 DEF SessionsAreSound, SessionIsSound, OfARecord
<1>2. ASSUME NEW r, NEW to, NEW marked \in BOOLEAN
      PROVE  /\ reopening(r, to) \in SUBSET Past /\ optingOut(to, marked) \in SUBSET Past
             /\ reopening(r, to) \cup optingOut(to, marked) \cup {h \in {"byHand"} : to \notin NoFollowup}
                  \in SUBSET Past
  BY DEF reopening, optingOut, Past
<1>3. ASSUME NEW w \in Workers, enrollCommit(w), past' # past
      PROVE  \E r \in Records, kinds \in SUBSET Past : used(r) /\ past' = [past EXCEPT ![r] = @ \cup kinds]
  <2>1. worker[w].op = "enroll" /\ \E to : past' = [past EXCEPT ![worker[w].rec] = @ \cup reopening(worker[w].rec, to)]
    BY <1>3 DEF enrollCommit
  <2> QED
    BY <1>1, <1>2, <2>1
<1>4. ASSUME NEW w \in Workers, transitionCommit(w), past' # past
      PROVE  \E r \in Records, kinds \in SUBSET Past : used(r) /\ past' = [past EXCEPT ![r] = @ \cup kinds]
  <2> DEFINE r == worker[w].rec
             to == worker[w].to
  <2>1. /\ worker[w].op = "transition"
        /\ past' = [past EXCEPT ![r] = @ \cup reopening(r, to) \cup optingOut(to, TRUE)
                                          \cup {h \in {"byHand"} : to \notin NoFollowup}]
    BY <1>4 DEF transitionCommit
  <2>2. past' = [past EXCEPT ![r] = @ \cup (reopening(r, to) \cup optingOut(to, TRUE)
                                             \cup {h \in {"byHand"} : to \notin NoFollowup})]
    <3>1. \A A, B, C, D : A \cup B \cup C \cup D = A \cup (B \cup C \cup D)
      OBVIOUS
    <3> QED
      BY <2>1, <3>1
  <2>3. r \in Records /\ used(r)
    BY <1>1, <2>1
  <2> HIDE DEF r, to
  <2> QED
    BY <1>2, <2>2, <2>3
<1>5. ASSUME NEW w \in Workers, replyCommit(w), past' # past
      PROVE  \E r \in Records, kinds \in SUBSET Past : used(r) /\ past' = [past EXCEPT ![r] = @ \cup kinds]
  <2>1. /\ worker[w].op = "reply"
        /\ past' = [past EXCEPT ![worker[w].rec] =
             @ \cup optingOut(worker[w].to, canOutreachTransition(worker[w].seen, worker[w].to))]
    BY <1>5 DEF replyCommit
  <2>2. canOutreachTransition(worker[w].seen, worker[w].to) \in BOOLEAN
    BY DEF canOutreachTransition
  <2> QED
    BY <1>1, <1>2, <2>1, <2>2
<1> QED
  BY <1>3, <1>4, <1>5, WhoWritesThePast

LEMMA PastStays ==
  ASSUME TypeOK, SessionsAreSound, [Next]_vars
  PROVE  /\ past' \in [Records -> SUBSET Past]
         /\ \A r \in Records : past[r] \subseteq past'[r] /\ (past'[r] # past[r] => used(r))
<1>0. past \in [Records -> SUBSET Past]
  BY DEF TypeOK
<1>1. ASSUME NEW q \in Records, NEW kinds \in SUBSET Past, used(q),
             past' = [past EXCEPT ![q] = @ \cup kinds]
      PROVE  /\ past' \in [Records -> SUBSET Past]
             /\ \A r \in Records : past[r] \subseteq past'[r] /\ (past'[r] # past[r] => used(r))
  <2>1. past'[q] = past[q] \cup kinds /\ \A r \in Records \ {q} : past'[r] = past[r]
    BY <1>0, <1>1
  <2>2. past[q] \cup kinds \in SUBSET Past
    BY <1>0
  <2> QED
    BY <1>0, <1>1, <2>1, <2>2
<1> QED
  BY <1>0, <1>1, PastMoves

(* A record that leaves the statuses that forbid follow-ups was moved by an
   enrolment or an operator, and its past says so. *)
LEMMA WhoReopens ==
  ASSUME TypeOK, SessionsAreSound, [Next]_vars, NEW r \in Records,
         record[r].status \in NoFollowup, record'[r].status \notin NoFollowup
  PROVE  \E w \in Workers : EnrolledBy(w, r) \/ MovedBy(w, r)
<1>1. record[r].status # St("UNUSED")
  BY StatusTypes, StatusesAreUsed
<1>2. record'[r] # record[r]
  OBVIOUS
<1>3. PICK q \in Records : Inserted(q) \/ Rewritten(q)
  BY <1>2, RecordMoves
<1>4. q = r
  <2>1. record \in [Records -> Record] /\ \E row : record' = [record EXCEPT ![q] = row]
    BY <1>3 DEF Inserted, Rewritten, TypeOK
  <2> QED
    BY <1>2, <2>1
<1>5. Restatused(r)
  BY <1>1, <1>3, <1>4 DEF Inserted, Rewritten, used
<1>6. ~ \E n \in Steps : record[r].status = Sent(n - 1)
  <2>1. \A n \in Steps : n - 1 \in Int
    BY DEF Steps
  <2> QED
    BY <2>1, ActiveStatuses
<1> QED
  BY <1>5, <1>6 DEF Restatused

closedNext(r) == record'[r].status \in NoFollowup \/ "reopened" \in past'[r]

LEMMA ClosedStays ==
  ASSUME TypeOK, SessionsAreSound, [Next]_vars, NEW r \in Records, closedOrReopened(r)
  PROVE  closedNext(r)
<1>1. CASE "reopened" \in past[r]
  BY <1>1, PastStays DEF closedNext
<1>2. ASSUME record[r].status \in NoFollowup, record'[r].status \notin NoFollowup
      PROVE  "reopened" \in past'[r]
  <2>1. PICK w \in Workers : EnrolledBy(w, r) \/ MovedBy(w, r)
    BY <1>2, WhoReopens
  <2>2. \E kinds : past' = [past EXCEPT ![r] = @ \cup kinds] /\ "reopened" \in kinds
    <3>1. "reopened" \in reopening(r, record'[r].status)
      BY <1>2 DEF reopening
    <3>2. "reopened" \in byOperator(r, record'[r].status)
      BY <3>1 DEF byOperator
    <3> QED
      BY <2>1, <3>1, <3>2 DEF EnrolledBy, MovedBy
  <2> QED
    BY <2>2 DEF TypeOK
<1> QED
  BY <1>1, <1>2 DEF closedOrReopened, closedNext

(* An opt-out marks its record unless a reply found it closed. *)
LEMMA WhoOptsOut ==
  ASSUME TypeOK, SessionsAreSound, [Next]_vars, NEW r \in Records,
         NEW h \in {"optedOut", "blocked"}, h \in past'[r], h \notin past[r]
  PROVE  \/ record'[r].dnc /\ "blocked" \in past'[r]
         \/ /\ h = "optedOut"
            /\ \E w \in Workers : /\ worker[w].op = "reply" /\ worker[w].rec = r
                                  /\ worker[w].seen \in NoFollowup
<1>0. past \in [Records -> SUBSET Past]
  BY DEF TypeOK
<1>1. ASSUME NEW w \in Workers, enrollCommit(w) PROVE FALSE
  <2>1. past' # past
    OBVIOUS
  <2>2. PICK to : past' = [past EXCEPT ![worker[w].rec] = @ \cup reopening(worker[w].rec, to)]
    BY <1>1, <2>1 DEF enrollCommit
  <2>3. h \notin reopening(worker[w].rec, to)
    BY DEF reopening
  <2> QED
    BY <1>0, <2>2, <2>3
<1>2. ASSUME NEW w \in Workers, transitionCommit(w) PROVE record'[r].dnc /\ "blocked" \in past'[r]
  <2> DEFINE q == worker[w].rec
             to == worker[w].to
             kinds == reopening(q, to) \cup optingOut(to, TRUE) \cup {k \in {"byHand"} : to \notin NoFollowup}
  <2>1. past' # past
    OBVIOUS
  <2>2. /\ worker[w].op = "transition"
        /\ record' = [record EXCEPT ![q].status = to, ![q].dnc = @ \/ optsOut(to)]
        /\ past' = [past EXCEPT ![q] = @ \cup kinds]
    <3>1. \A A, B, C, D : A \cup B \cup C \cup D = A \cup (B \cup C \cup D)
      OBVIOUS
    <3>2. /\ worker[w].op = "transition"
          /\ record' = [record EXCEPT ![q].status = to, ![q].dnc = @ \/ optsOut(to)]
          /\ past' = [past EXCEPT ![q] = @ \cup reopening(q, to) \cup optingOut(to, TRUE)
                                            \cup {k \in {"byHand"} : to \notin NoFollowup}]
      BY <1>2, <2>1 DEF transitionCommit
    <3> QED
      BY <3>1, <3>2
  <2>3. h \in kinds => optsOut(to) /\ "blocked" \in kinds
    BY DEF reopening, optingOut
  <2>4. q \in Records /\ used(q) /\ to \in OperatorTargets
    BY <2>2 DEF SessionsAreSound, SessionIsSound, OfARecord
  <2>5. to \in Status /\ to # St("UNUSED") /\ optsOut(to) \in BOOLEAN
    BY <2>4, TargetsAssumption, StatusesAreUsed DEF optsOut
  <2>6. optsOut(to) => record'[q].dnc
    BY <2>2, <2>4, <2>5, StatusRewrites
  <2> HIDE DEF q, to, kinds
  <2>7. q = r /\ h \in kinds
    BY <1>0, <2>2
  <2> QED
    BY <1>0, <2>2, <2>3, <2>6, <2>7
<1>3. ASSUME NEW w \in Workers, replyCommit(w)
      PROVE  \/ record'[r].dnc /\ "blocked" \in past'[r]
             \/ /\ h = "optedOut"
                /\ worker[w].op = "reply" /\ worker[w].rec = r /\ worker[w].seen \in NoFollowup
  <2> DEFINE q == worker[w].rec
             to == worker[w].to
             legal == canOutreachTransition(worker[w].seen, to)
  <2>1. past' # past
    OBVIOUS
  <2>2. /\ worker[w].op = "reply"
        /\ legal => record' = [record EXCEPT ![q].status = to, ![q].dnc = @ \/ optsOut(to)]
        /\ past' = [past EXCEPT ![q] = @ \cup optingOut(to, legal)]
    BY <1>3, <2>1 DEF replyCommit
  <2>3. q \in Records /\ used(q) /\ to \in NoFollowup
    BY <2>2 DEF SessionsAreSound, SessionIsSound, OfARecord
  <2>4. to \in Status /\ to # St("UNUSED") /\ optsOut(to) \in BOOLEAN
    BY <2>3, StatusTypes, StatusesAreUsed DEF optsOut
  <2>5. optsOut(to) /\ legal => record'[q].dnc
    <3> SUFFICES ASSUME optsOut(to), legal PROVE record'[q].dnc
      OBVIOUS
    <3>1. record' = [record EXCEPT ![q].status = to, ![q].dnc = @ \/ optsOut(to)]
      BY <2>2
    <3> HIDE DEF q, to, legal
    <3> QED
      BY <2>3, <2>4, <3>1, StatusRewrites
  <2>6. optsOut(to) /\ ~ legal => worker[w].seen \in NoFollowup
    BY <2>3 DEF optsOut, canOutreachTransition, Interrupts, NoFollowup, SendBlocked
  <2>7. /\ h \in optingOut(to, legal) => optsOut(to)
        /\ optsOut(to) /\ legal => "blocked" \in optingOut(to, legal)
        /\ h \in optingOut(to, legal) /\ ~ legal => h = "optedOut"
    BY DEF optingOut
  <2> HIDE DEF q, to, legal
  <2>8. q = r /\ h \in optingOut(to, legal)
    BY <1>0, <2>2
  <2>9. past'[r] = past[r] \cup optingOut(to, legal)
    BY <1>0, <2>2, <2>8
  <2> QED
    BY <2>2, <2>5, <2>6, <2>7, <2>8, <2>9 DEF q
<1> QED
  BY <1>1, <1>2, <1>3, WhoWritesThePast

LEMMA OptOutsStayMarked ==
  ASSUME TypeOK, SessionsAreSound, OptOutsAreMarked, [Next]_vars
  PROVE  OptOutsAreMarked' /\ past' \in [Records -> SUBSET Past]
<1>0. RecordsPersist /\ past' \in [Records -> SUBSET Past]
  BY RecordsStay, PastStays
<1>1. ASSUME NEW r \in Records, past'[r] # {} PROVE used(r)'
  <2>1. used(r)
    BY <1>1, PastStays DEF OptOutsAreMarked
  <2> QED
    BY <1>0, <2>1 DEF RecordsPersist, used
<1>2. ASSUME NEW r \in Records, "blocked" \in past'[r] PROVE record'[r].dnc
  <2>1. CASE "blocked" \in past[r]
    <3>1. used(r) /\ record[r].dnc
      BY <2>1 DEF OptOutsAreMarked
    <3> QED
      BY <1>0, <3>1 DEF RecordsPersist
  <2>2. CASE "blocked" \notin past[r]
    BY <1>2, <2>2, WhoOptsOut
  <2> QED
    BY <2>1, <2>2
<1>3. ASSUME NEW w \in Workers, worker[w].op = "reply", worker[w].seen \in NoFollowup
      PROVE  worker[w].rec \in Records /\ closedNext(worker[w].rec)
  <2>1. worker[w].rec \in Records /\ closedOrReopened(worker[w].rec)
    BY <1>3 DEF OptOutsAreMarked, SessionsAreSound, SessionIsSound, OfARecord
  <2>2. PICK q \in Records : q = worker[w].rec
    BY <2>1
  <2> QED
    BY <2>1, <2>2, ClosedStays
<1>4. ASSUME NEW r \in Records, "optedOut" \in past'[r], "blocked" \notin past'[r]
      PROVE  closedNext(r)
  <2>1. CASE "optedOut" \in past[r]
    <3>1. "blocked" \notin past[r]
      BY <1>4, PastStays
    <3>2. closedOrReopened(r)
      BY <2>1, <3>1 DEF OptOutsAreMarked
    <3> QED
      BY <3>2, ClosedStays
  <2>2. CASE "optedOut" \notin past[r]
    <3>1. \E w \in Workers : /\ worker[w].op = "reply" /\ worker[w].rec = r
                             /\ worker[w].seen \in NoFollowup
      BY <1>4, <2>2, WhoOptsOut
    <3> QED
      BY <1>3, <3>1
  <2> QED
    BY <2>1, <2>2
<1>5. ASSUME NEW w \in Workers, worker'[w].op = "reply", worker'[w].seen \in NoFollowup
      PROVE  closedNext(worker'[w].rec)
  <2>1. CASE worker'[w] = worker[w]
    BY <1>3, <1>5, <2>1
  <2>2. ASSUME NEW r \in Records, NEW i \in Replies, replyRead(w, r, i)
        PROVE  closedNext(worker'[w].rec)
    <3>1. /\ worker'[w] = [Idle EXCEPT !.op = "reply", !.rec = r, !.n = i, !.seen = record[r].status,
                                       !.to = classificationToStatus(inbox[i].class)]
          /\ record' = record
      BY <2>2, Becomes DEF replyRead, allButWorker
    <3>2. worker'[w].rec = r /\ worker'[w].seen = record[r].status
      BY <3>1 DEF Idle
    <3> QED
      BY <1>5, <3>1, <3>2 DEF closedNext
  <2> QED
    BY <1>5, <2>1, <2>2, WhoApplies
<1>6. /\ \A r \in Records :
           /\ past'[r] # {} => used(r)'
           /\ "blocked" \in past'[r] => record'[r].dnc
           /\ "optedOut" \in past'[r] /\ "blocked" \notin past'[r] => closedNext(r)
      /\ \A w \in Workers : worker'[w].op = "reply" /\ worker'[w].seen \in NoFollowup
                              => closedNext(worker'[w].rec)
  BY <1>1, <1>2, <1>4, <1>5
<1> QED
  BY <1>0, <1>6 DEF OptOutsAreMarked, closedOrReopened, closedNext

LEMMA OneActiveStays ==
  ASSUME TypeOK, SessionsAreSound, OneActiveRecord, [Next]_vars
  PROVE  OneActiveRecord'
<1>0. record \in [Records -> Record]
  BY DEF TypeOK
<1>1. CASE UNCHANGED record
  BY <1>1 DEF OneActiveRecord, active, used
<1>2. ASSUME NEW r \in Records, NEW record2, record2 = record',
             \A q \in Records \ {r} : record'[q] = record[q],
             active(r)' => \A q \in Records : active(q) /\ record[q].lead = record'[r].lead => q = r
      PROVE  OneActiveRecord'
  <2>1. ASSUME NEW q \in Records \ {r}, active(q)', active(r)', record'[q].lead = record'[r].lead
        PROVE  FALSE
    <3>1. active(q) /\ record[q].lead = record'[r].lead
      BY <1>2, <2>1 DEF active, used
    <3> QED
      BY <1>2, <2>1, <3>1
  <2>2. ASSUME NEW p \in Records \ {r}, NEW q \in Records \ {r}, active(p)', active(q)',
               record'[p].lead = record'[q].lead
        PROVE  p = q
    <3>1. active(p) /\ active(q) /\ record[p].lead = record[q].lead
      BY <1>2, <2>2 DEF active, used
    <3> QED
      BY <3>1 DEF OneActiveRecord
  <2> QED
    BY <2>1, <2>2 DEF OneActiveRecord
<1>3. ASSUME NEW r \in Records, Inserted(r) PROVE OneActiveRecord'
  <2>1. PICK l \in Leads :
          /\ findActiveRecord(l) = {}
          /\ record' = [record EXCEPT ![r] = [lead |-> l, status |-> St("DRAFT_READY"),
                                              sent |-> FALSE, dnc |-> FALSE]]
    BY <1>3 DEF Inserted
  <2>2. record'[r].lead = l /\ \A q \in Records \ {r} : record'[q] = record[q]
    BY <1>0, <2>1
  <2>3. \A q \in Records : active(q) => record[q].lead # l
    BY <2>1 DEF findActiveRecord
  <2> QED
    BY <1>2, <2>2, <2>3
<1>4. ASSUME NEW r \in Records, Rewritten(r) PROVE OneActiveRecord'
  <2>1. /\ used(r) /\ record'[r].lead = record[r].lead /\ Restatused(r)
        /\ \A q \in Records \ {r} : record'[q] = record[q]
    BY <1>0, <1>4 DEF Rewritten
  <2>2. ASSUME active(r)', NEW q \in Records, active(q), record[q].lead = record[r].lead
        PROVE  q = r
    <3>1. record'[r].status \notin Terminal
      BY <2>2 DEF active
    <3>2. CASE record'[r].status = record[r].status
      BY <2>1, <2>2, <3>1, <3>2 DEF OneActiveRecord, active
    <3>3. CASE \E n \in Steps : record[r].status = Sent(n - 1)
      <4>1. \A n \in Steps : n - 1 \in Int
        BY DEF Steps
      <4>2. active(r)
        BY <2>1, <3>3, <4>1, ActiveStatuses DEF active
      <4> QED
        BY <2>2, <4>2 DEF OneActiveRecord
    <3>4. CASE mayActivate(r, record'[r].status)
      BY <2>2, <3>1, <3>4 DEF mayActivate, findActiveRecord
    <3> QED
      BY <2>1, <3>2, <3>3, <3>4 DEF Restatused
  <2> QED
    BY <1>2, <2>1, <2>2
<1> QED
  BY <1>1, <1>3, <1>4, RecordMoves

(***************************************************************************)
(* Leads, their drafts and their e-mails                                   *)
(***************************************************************************)
LEMMA LeadKept ==
  ASSUME RecordsPersist, NEW l \in Leads, LeadIsSound(l), lead'[l] = lead[l], mailed'[l] = mailed[l],
         lead[l].step > 0 => draft'[lead[l].rec] = draft[lead[l].rec]
  PROVE  LeadIsSound(l)'
<1> DEFINE r == lead[l].rec
<1>1. lead[l].step > 0 => r \in Records /\ record'[r].status # St("UNUSED") /\ record'[r].lead = l
  BY DEF LeadIsSound, RecordsPersist
<1> QED
  BY <1>1 DEF LeadIsSound, used

LEMMA MailKept ==
  ASSUME RecordsPersist, MailsPersist, NEW l \in Leads, NEW i \in DOMAIN mailed[l], MailIsSound(l, i),
         NEW r, NEW step, mailed[l][i].rec = r, mailed[l][i].step = step,
         step > 0 => /\ draft'[r][step] = draft[r][step]
                     /\ lead'[l].rec = r /\ lead'[l].step = step =>
                          lead'[l].status \in {"SENT", "NEEDS_MANUAL_REVIEW"}
  PROVE  MailIsSound(l, i)'
<1>1. mailed'[l][i] = mailed[l][i]
  BY DEF MailsPersist
<1>2. step > 0 => r \in Records /\ record'[r].status # St("UNUSED") /\ record'[r].lead = l
  BY DEF MailIsSound, RecordsPersist
<1> QED
  BY <1>1, <1>2 DEF MailIsSound, used

(* A lead no step is about. *)
LEMMA OtherLeads ==
  ASSUME RecordsPersist, MailsPersist, LeadsAreSound, MailsAreSound, NEW K,
         \A l \in Leads \ K : lead'[l] = lead[l] /\ mailed'[l] = mailed[l],
         \A r \in Records : used(r) /\ record[r].lead \notin K => draft'[r] = draft[r]
  PROVE  \A l \in Leads \ K : LeadIsSound(l)' /\ \A i \in DOMAIN mailed'[l] : MailIsSound(l, i)'
<1> SUFFICES ASSUME NEW l \in Leads \ K
             PROVE  LeadIsSound(l)' /\ \A i \in DOMAIN mailed'[l] : MailIsSound(l, i)'
  OBVIOUS
<1>1. LeadIsSound(l)'
  <2>1. LeadIsSound(l)
    BY DEF LeadsAreSound
  <2>2. lead[l].step > 0 => draft'[lead[l].rec] = draft[lead[l].rec]
    BY <2>1 DEF LeadIsSound
  <2> QED
    BY <2>1, <2>2, LeadKept
<1>2. ASSUME NEW i \in DOMAIN mailed[l] PROVE MailIsSound(l, i)'
  <2> DEFINE r == mailed[l][i].rec
             step == mailed[l][i].step
  <2>1. MailIsSound(l, i)
    BY DEF MailsAreSound
  <2>2. step > 0 => /\ draft'[r] = draft[r]
                    /\ lead'[l].rec = r /\ lead'[l].step = step =>
                          lead'[l].status \in {"SENT", "NEEDS_MANUAL_REVIEW"}
    BY <2>1 DEF MailIsSound
  <2> HIDE DEF r, step
  <2>3. step > 0 => draft'[r][step] = draft[r][step]
    BY <2>2
  <2>4. mailed[l][i].rec = r /\ mailed[l][i].step = step
    BY DEF r, step
  <2> QED
    BY <2>1, <2>2, <2>3, <2>4, MailKept
<1> QED
  BY <1>1, <1>2

LEMMA LeadsStayWhere ==
  ASSUME TypeOK, RecordsPersist, MailsPersist, LeadsAreSound, MailsAreSound,
         UNCHANGED <<lead, draft, mailed>>
  PROVE  LeadsAreSound' /\ MailsAreSound'
<1>1. \A l \in Leads \ {} : LeadIsSound(l)' /\ \A i \in DOMAIN mailed'[l] : MailIsSound(l, i)'
  BY OtherLeads
<1> QED
  BY <1>1 DEF LeadsAreSound, MailsAreSound

LEMMA SendingIsSound ==
  ASSUME TypeOK, RecordsPersist, MailsPersist, SessionsAreSound, LeadsAreSound, MailsAreSound,
         StepMailedOnce, NEW w \in Workers, SendMail(w)
  PROVE  LeadsAreSound' /\ MailsAreSound' /\ StepMailedOnce' /\ lead' \in [Leads -> Lead]
<1>0. PICK k \in Leads : worker[w].lead = k
  BY SendMoves DEF SessionsAreSound, SessionIsSound
<1>1. /\ lead \in [Leads -> Lead] /\ lead[k] \in Lead /\ mailed \in [Leads -> Seq(Mail)]
      /\ mailed[k] \in Seq(Mail)
  BY <1>0 DEF TypeOK
<1>2. LeadIsSound(k) /\ \A i \in DOMAIN mailed[k] : MailIsSound(k, i)
  BY <1>0 DEF LeadsAreSound, MailsAreSound
<1>3. draft' = draft
  BY SendMoves
<1>4. \A s \in {"SENT", "NEEDS_MANUAL_REVIEW"} :
        /\ [lead[k] EXCEPT !.status = s] \in Lead
        /\ [lead[k] EXCEPT !.status = s].status = s
        /\ [lead[k] EXCEPT !.status = s].rec = lead[k].rec
        /\ [lead[k] EXCEPT !.status = s].step = lead[k].step
  BY <1>1 DEF Lead
<1>5. CASE MailSent(w)
  <2> DEFINE e == [step |-> lead[k].step, rec |-> lead[k].rec]
  <2>1. /\ lead[k].status = "SCHEDULED"
        /\ mailed' = [mailed EXCEPT ![k] = Append(mailed[k], e)]
        /\ lead' = [lead EXCEPT ![k] = [lead[k] EXCEPT !.status = "SENT"]]
    BY <1>0, <1>5 DEF MailSent
  <2>2. e \in Mail /\ e.step = lead[k].step /\ e.rec = lead[k].rec
    BY <1>1 DEF Lead, Mail
  <2> HIDE DEF e
  <2>3. /\ mailed'[k] = Append(mailed[k], e) /\ lead'[k] = [lead[k] EXCEPT !.status = "SENT"]
        /\ \A l \in Leads \ {k} : lead'[l] = lead[l] /\ mailed'[l] = mailed[l]
    BY <1>0, <1>1, <2>1
  <2>4. /\ lead'[k].status = "SENT" /\ lead'[k].rec = lead[k].rec /\ lead'[k].step = lead[k].step
        /\ lead' \in [Leads -> Lead]
    BY <1>0, <1>1, <1>4, <2>1, <2>3
  <2>5. \A l \in Leads \ {k} : LeadIsSound(l)' /\ \A i \in DOMAIN mailed'[l] : MailIsSound(l, i)'
    BY <1>3, <2>3, OtherLeads
  <2>6. lead[k].step > 0 => /\ lead[k].rec \in Records /\ record'[lead[k].rec].status # St("UNUSED")
                            /\ record'[lead[k].rec].lead = k
                            /\ draft[lead[k].rec][lead[k].step] = "approved"
    BY <1>2, <2>1 DEF LeadIsSound, RecordsPersist
  <2>7. LeadIsSound(k)'
    BY <1>2, <2>4, <2>6 DEF LeadIsSound, used
  <2>8. /\ DOMAIN mailed[k] = 1..Len(mailed[k]) /\ Len(mailed[k]) \in Nat
        /\ DOMAIN Append(mailed[k], e) = 1..(Len(mailed[k]) + 1)
        /\ Append(mailed[k], e)[Len(mailed[k]) + 1] = e
        /\ \A i \in DOMAIN mailed[k] : Append(mailed[k], e)[i] = mailed[k][i]
    BY <1>1, <2>2, AppendFacts
  <2>9. ASSUME NEW i \in DOMAIN mailed[k] PROVE MailIsSound(k, i)' /\ mailed[k][i] # e
    <3> DEFINE r == mailed[k][i].rec
               step == mailed[k][i].step
    <3>1. MailIsSound(k, i)
      BY <1>2
    <3>2. mailed[k][i].rec = r /\ mailed[k][i].step = step /\ step \in Nat
      BY <1>0, MailTypes
    <3> HIDE DEF r, step
    <3>3. step > 0 => (lead[k].rec = r /\ lead[k].step = step => lead[k].status \in {"SENT", "NEEDS_MANUAL_REVIEW"})
      BY <3>1, <3>2 DEF MailIsSound
    <3>4. MailIsSound(k, i)'
      BY <1>0, <1>3, <2>4, <3>1, <3>2, MailKept
    <3>5. step = 0 => lead[k].step # 0
      BY <1>2, <2>1, <2>8 DEF LeadIsSound
    <3>6. mailed[k][i] # e
      BY <2>1, <2>2, <3>2, <3>3, <3>5
    <3> QED
      BY <3>4, <3>6
  <2>0. PICK n \in Nat : n = Len(mailed[k]) + 1
    BY <2>8
  <2>10. MailIsSound(k, n)'
    <3>1. mailed'[k][n] = e
      BY <2>0, <2>3, <2>8
    <3>2. e.step = 0 => n = 1 /\ e.rec = 0
      <4>1. e.step = 0 => mailed[k] = <<>> /\ e.rec = 0
        BY <1>2, <2>1, <2>2 DEF LeadIsSound
      <4>2. Len(<<>>) + 1 = 1
        OBVIOUS
      <4> QED
        BY <2>0, <4>1, <4>2
    <3>3. mailed'[k][n].step = e.step /\ mailed'[k][n].rec = e.rec
      BY <3>1
    <3> QED
      BY <1>3, <2>2, <2>4, <2>6, <3>2, <3>3 DEF MailIsSound, used
  <2>11. \A i \in DOMAIN mailed'[k] : i \in DOMAIN mailed[k] \/ i = n
    BY <2>0, <2>3, <2>8
  <2>12. ASSUME NEW i \in DOMAIN mailed'[k] PROVE MailIsSound(k, i)'
    BY <2>9, <2>10, <2>11
  <2>13. LeadsAreSound' /\ MailsAreSound'
    BY <2>5, <2>7, <2>12 DEF LeadsAreSound, MailsAreSound
  <2>14. ASSUME NEW i \in DOMAIN mailed'[k], NEW j \in DOMAIN mailed'[k], mailed'[k][i] = mailed'[k][j]
         PROVE  i = j
    BY <1>0, <2>0, <2>3, <2>8, <2>9, <2>11, <2>14 DEF StepMailedOnce
  <2>15. StepMailedOnce'
    BY <2>3, <2>14 DEF StepMailedOnce
  <2> QED
    BY <2>4, <2>13, <2>15
<1>6. CASE /\ UNCHANGED mailed
           /\ lead' = [lead EXCEPT ![k].status = IF @ = "SCHEDULED" THEN "NEEDS_MANUAL_REVIEW" ELSE @]
  <2>1. CASE lead[k].status # "SCHEDULED"
    <3>1. [lead[k] EXCEPT !.status = lead[k].status] = lead[k]
      BY <1>1 DEF Lead
    <3>2. lead' = lead
      BY <1>1, <1>6, <2>1, <3>1
    <3> QED
      BY <1>1, <1>3, <1>6, <3>2, LeadsStayWhere DEF StepMailedOnce
  <2>2. CASE lead[k].status = "SCHEDULED"
    <3>1. lead' = [lead EXCEPT ![k] = [lead[k] EXCEPT !.status = "NEEDS_MANUAL_REVIEW"]]
      BY <1>6, <2>2
    <3>0. lead'[k] = [lead[k] EXCEPT !.status = "NEEDS_MANUAL_REVIEW"]
      BY <1>1, <3>1
    <3>2. /\ lead'[k].status = "NEEDS_MANUAL_REVIEW" /\ lead'[k].rec = lead[k].rec
          /\ lead'[k].step = lead[k].step /\ lead' \in [Leads -> Lead]
          /\ \A l \in Leads \ {k} : lead'[l] = lead[l] /\ mailed'[l] = mailed[l]
      BY <1>1, <1>4, <1>6, <3>0, <3>1
    <3>3. \A l \in Leads \ {k} : LeadIsSound(l)' /\ \A i \in DOMAIN mailed'[l] : MailIsSound(l, i)'
      BY <1>3, <3>2, OtherLeads
    <3>4. lead[k].step > 0 => /\ lead[k].rec \in Records /\ record'[lead[k].rec].status # St("UNUSED")
                              /\ record'[lead[k].rec].lead = k
      BY <1>2 DEF LeadIsSound, RecordsPersist
    <3>5. LeadIsSound(k)'
      BY <1>2, <3>2, <3>4 DEF LeadIsSound, used
    <3>6. ASSUME NEW i \in DOMAIN mailed[k] PROVE MailIsSound(k, i)'
      BY <1>0, <1>2, <1>3, <3>2, MailKept
    <3> QED
      BY <1>6, <3>2, <3>3, <3>5, <3>6 DEF LeadsAreSound, MailsAreSound, StepMailedOnce
  <2> QED
    BY <2>1, <2>2
<1> QED
  BY <1>0, <1>5, <1>6, SendMoves

(* A lead whose e-mail at hand moves on, with its copy as it was. *)
LEMMA ProgressIsSound ==
  ASSUME TypeOK, RecordsPersist, MailsPersist, LeadsAreSound, MailsAreSound, NEW l \in Leads,
         UNCHANGED <<draft, mailed>>, NEW e \in Lead, lead' = [lead EXCEPT ![l] = e],
         e.step = lead[l].step, e.rec = lead[l].rec, lead[l].step > 0,
         \/ /\ lead[l].status = "EMAIL_REVIEW_FAILED" /\ e.status = "READY_FOR_HUMAN_APPROVAL"
         \/ /\ lead[l].status \in {"HUMAN_APPROVED", "DRAFT_CREATED"}
            /\ e.status \in {"HUMAN_APPROVED", "DRAFT_CREATED", "SCHEDULED"}
  PROVE  LeadsAreSound' /\ MailsAreSound' /\ lead' \in [Leads -> Lead]
<1>1. /\ lead' \in [Leads -> Lead] /\ lead'[l] = e
      /\ \A k \in Leads \ {l} : lead'[k] = lead[k] /\ mailed'[k] = mailed[k]
  BY DEF TypeOK
<1>2. LeadIsSound(l) /\ \A i \in DOMAIN mailed[l] : MailIsSound(l, i)
  BY DEF LeadsAreSound, MailsAreSound
<1>3. \A k \in Leads \ {l} : LeadIsSound(k)' /\ \A i \in DOMAIN mailed'[k] : MailIsSound(k, i)'
  BY <1>1, OtherLeads
<1>4. lead[l].rec \in Records /\ record'[lead[l].rec].status # St("UNUSED") /\ record'[lead[l].rec].lead = l
  BY <1>2 DEF LeadIsSound, RecordsPersist
<1>5. LeadIsSound(l)'
  <2>1. lead[l].step # 0
    BY DEF TypeOK, Lead
  <2> QED
    BY <1>1, <1>2, <1>4, <2>1 DEF LeadIsSound, used
<1>6. ASSUME NEW i \in DOMAIN mailed[l] PROVE MailIsSound(l, i)'
  <2> DEFINE r == mailed[l][i].rec
             step == mailed[l][i].step
  <2>1. step > 0 => ~ (lead[l].rec = r /\ lead[l].step = step)
    BY <1>2 DEF MailIsSound
  <2>2. mailed[l][i].rec = r /\ mailed[l][i].step = step /\ MailIsSound(l, i)
    BY <1>2
  <2> HIDE DEF r, step
  <2> QED
    BY <1>1, <2>1, <2>2, MailKept
<1> QED
  BY <1>1, <1>3, <1>5, <1>6 DEF LeadsAreSound, MailsAreSound

LEMMA LeadSteps ==
  ASSUME TypeOK, LeadsAreSound, NEW l \in Leads, progress(l) \/ resumeReview(l)
  PROVE  /\ UNCHANGED <<draft, mailed>> /\ lead[l].step > 0
         /\ \E e \in Lead :
              /\ lead' = [lead EXCEPT ![l] = e] /\ e.step = lead[l].step /\ e.rec = lead[l].rec
              /\ \/ /\ lead[l].status = "EMAIL_REVIEW_FAILED" /\ e.status = "READY_FOR_HUMAN_APPROVAL"
                 \/ /\ lead[l].status \in {"HUMAN_APPROVED", "DRAFT_CREATED"}
                    /\ e.status \in {"HUMAN_APPROVED", "DRAFT_CREATED", "SCHEDULED"}
<1>1. lead[l] \in Lead /\ LeadIsSound(l)
  BY DEF TypeOK, LeadsAreSound
<1>2. ASSUME NEW e \in Lead PROVE e.step \in Nat
  BY DEF Lead
<1>3. \A s \in {"READY_FOR_HUMAN_APPROVAL", "DRAFT_CREATED", "SCHEDULED"} :
        /\ [lead[l] EXCEPT !.status = s] \in Lead
        /\ [lead[l] EXCEPT !.status = s].status = s
        /\ [lead[l] EXCEPT !.status = s].rec = lead[l].rec
        /\ [lead[l] EXCEPT !.status = s].step = lead[l].step
  BY <1>1 DEF Lead
<1>4. CASE resumeReview(l)
  <2> DEFINE e == [lead[l] EXCEPT !.status = "READY_FOR_HUMAN_APPROVAL"]
  <2>1. /\ lead[l].status = "EMAIL_REVIEW_FAILED" /\ UNCHANGED <<draft, mailed>>
        /\ lead' = [lead EXCEPT ![l] = e]
    BY <1>4 DEF resumeReview
  <2>2. lead[l].step > 0
    BY <1>1, <1>2, <2>1 DEF LeadIsSound
  <2> QED
    BY <1>3, <2>1, <2>2
<1>5. CASE progress(l)
  <2>1. lead[l].step > 0 /\ UNCHANGED <<draft, mailed>>
    BY <1>5 DEF progress, progressionCandidate
  <2>2. CASE finalize(l)
    <3> DEFINE e == [lead[l] EXCEPT !.finalized = TRUE]
    <3>1. lead[l].status = "HUMAN_APPROVED" /\ lead' = [lead EXCEPT ![l] = e]
      BY <2>2 DEF finalize
    <3>2. e \in Lead /\ e.step = lead[l].step /\ e.rec = lead[l].rec /\ e.status = lead[l].status
      BY <1>1 DEF Lead
    <3> QED
      BY <2>1, <3>1, <3>2
  <2>3. CASE createGmailDraft(l)
    <3>1. lead[l].status = "HUMAN_APPROVED"
          /\ lead' = [lead EXCEPT ![l] = [lead[l] EXCEPT !.status = "DRAFT_CREATED"]]
      BY <2>3 DEF createGmailDraft
    <3> QED
      BY <1>3, <2>1, <3>1
  <2>4. CASE schedule(l)
    <3>1. lead[l].status = "DRAFT_CREATED"
          /\ lead' = [lead EXCEPT ![l] = [lead[l] EXCEPT !.status = "SCHEDULED"]]
      BY <2>4 DEF schedule
    <3> QED
      BY <1>3, <2>1, <3>1
  <2> QED
    BY <1>5, <2>2, <2>3, <2>4 DEF progress
<1> QED
  BY <1>4, <1>5

DraftStates == {"none", "pending", "approved", "rejected"}

LEMMA DraftUpdate ==
  ASSUME TypeOK, NEW r \in Records, NEW step \in Steps, NEW d \in DraftStates,
         draft' = [draft EXCEPT ![r][step] = d]
  PROVE  /\ draft' \in [Records -> [Steps -> DraftStates]]
         /\ draft'[r][step] = d
         /\ \A q \in Records \ {r} : draft'[q] = draft[q]
         /\ \A n \in Steps \ {step} : draft'[r][n] = draft[r][n]
<1>1. draft \in [Records -> [Steps -> DraftStates]]
  BY DEF TypeOK, DraftStates
<1>2. draft[r] \in [Steps -> DraftStates]
  BY <1>1
<1>3. draft' = [draft EXCEPT ![r] = [draft[r] EXCEPT ![step] = d]]
  OBVIOUS
<1>4. [draft[r] EXCEPT ![step] = d] \in [Steps -> DraftStates]
  BY <1>2
<1>5. draft'[r] = [draft[r] EXCEPT ![step] = d] /\ \A q \in Records \ {r} : draft'[q] = draft[q]
  BY <1>1, <1>3
<1>6. draft'[r][step] = d /\ \A n \in Steps \ {step} : draft'[r][n] = draft[r][n]
  BY <1>2, <1>5
<1>7. draft' \in [Records -> [Steps -> DraftStates]]
  BY <1>1, <1>3, <1>4
<1> QED
  BY <1>5, <1>6, <1>7

(* A copy that is written or decided on: no e-mail of the step has gone out. *)
LEMMA CopyIsSound ==
  ASSUME TypeOK, RecordsPersist, MailsPersist, LeadsAreSound, MailsAreSound,
         NEW r \in Records, used(r), NEW step \in Steps, NEW d \in DraftStates,
         draft' = [draft EXCEPT ![r][step] = d], draft[r][step] # "approved",
         NEW l \in Leads, record[r].lead = l, UNCHANGED mailed,
         NEW e \in Lead, lead' = [lead EXCEPT ![l] = e],
         \/ e = lead[l] /\ draft[r][step] # "pending"
         \/ /\ e.rec = r /\ e.step = step
            /\ \/ e.status \in {"READY_FOR_HUMAN_APPROVAL", "EMAIL_REVIEW_FAILED"} /\ d = "pending"
               \/ e.status = "HUMAN_APPROVED" /\ d = "approved"
               \/ e.status = "SENT"
  PROVE  /\ LeadsAreSound' /\ MailsAreSound' /\ lead' \in [Leads -> Lead]
         /\ draft' \in [Records -> [Steps -> DraftStates]]
<1>1. /\ lead' \in [Leads -> Lead] /\ lead'[l] = e
      /\ \A k \in Leads \ {l} : lead'[k] = lead[k] /\ mailed'[k] = mailed[k]
  BY DEF TypeOK
<1>2. /\ draft' \in [Records -> [Steps -> DraftStates]] /\ draft'[r][step] = d
      /\ \A q \in Records \ {r} : draft'[q] = draft[q]
      /\ \A n \in Steps \ {step} : draft'[r][n] = draft[r][n]
  BY DraftUpdate
<1>3. LeadIsSound(l) /\ \A i \in DOMAIN mailed[l] : MailIsSound(l, i)
  BY DEF LeadsAreSound, MailsAreSound
<1>4. \A k \in Leads \ {l} : LeadIsSound(k)' /\ \A i \in DOMAIN mailed'[k] : MailIsSound(k, i)'
  BY <1>1, <1>2, OtherLeads
<1>5. record'[r].status # St("UNUSED") /\ record'[r].lead = l
  BY DEF RecordsPersist
<1>6. step > 0 /\ \A n \in 0..FinalStep : n > 0 => n \in Steps
  BY DEF Steps
<1>7. LeadIsSound(l)'
  <2>1. CASE e = lead[l]
    <3> DEFINE q == lead[l].rec
               n == lead[l].step
    <3>1. CASE n > 0 /\ q = r /\ n = step
      <4>1. lead'[l].status \notin {"HUMAN_APPROVED", "DRAFT_CREATED", "SCHEDULED"}
        BY <1>1, <1>3, <2>1, <3>1 DEF LeadIsSound
      <4>2. CASE draft[r][step] # "pending"
        <5>1. lead'[l].status \notin {"READY_FOR_HUMAN_APPROVAL", "EMAIL_REVIEW_FAILED"}
          BY <1>1, <1>3, <2>1, <3>1, <4>2 DEF LeadIsSound
        <5> QED
          BY <1>1, <1>5, <1>6, <2>1, <3>1, <4>1, <5>1 DEF LeadIsSound, used
      <4>3. CASE draft[r][step] = "pending"
        BY <1>1, <1>2, <1>5, <1>6, <4>3 DEF LeadIsSound, used
      <4> QED
        BY <4>2, <4>3
    <3>2. CASE ~ (n > 0 /\ q = r /\ n = step)
      <4>1. n > 0 => draft'[q][n] = draft[q][n]
        <5>1. n > 0 => q \in Records /\ n \in Steps
          <6>1. n \in 0..FinalStep
            BY DEF TypeOK, Lead
          <6> QED
            BY <1>3, <1>6, <6>1 DEF LeadIsSound
        <5> QED
          BY <1>2, <3>2, <5>1
      <4>2. n > 0 => q \in Records /\ record'[q].status # St("UNUSED") /\ record'[q].lead = l
        BY <1>3 DEF LeadIsSound, RecordsPersist
      <4>3. lead'[l] = lead[l] /\ mailed'[l] = mailed[l]
        BY <1>1, <2>1
      <4> QED
        BY <1>3, <4>1, <4>2, <4>3 DEF LeadIsSound, used
    <3> QED
      BY <3>1, <3>2
  <2>2. CASE e # lead[l]
    BY <1>1, <1>2, <1>5, <1>6, <2>2 DEF LeadIsSound, used
  <2> QED
    BY <2>1, <2>2
<1>8. ASSUME NEW i \in DOMAIN mailed[l] PROVE MailIsSound(l, i)'
  <2>1. PICK q, n : mailed[l][i].rec = q /\ mailed[l][i].step = n
    OBVIOUS
  <2>2. MailIsSound(l, i) /\ n \in 0..FinalStep
    BY <1>3, <2>1, MailTypes
  <2>3. n > 0 => q \in Records /\ n \in Steps /\ ~ (q = r /\ n = step)
                 /\ (lead[l].rec = q /\ lead[l].step = n => lead[l].status \in {"SENT", "NEEDS_MANUAL_REVIEW"})
    BY <1>6, <2>1, <2>2 DEF MailIsSound
  <2>4. n > 0 => draft'[q][n] = draft[q][n]
    BY <1>2, <2>3
  <2>5. n > 0 => (lead'[l].rec = q /\ lead'[l].step = n => lead'[l].status \in {"SENT", "NEEDS_MANUAL_REVIEW"})
    BY <1>1, <2>3
  <2> QED
    BY <2>1, <2>2, <2>4, <2>5, MailKept
<1> QED
  BY <1>1, <1>2, <1>4, <1>7, <1>8 DEF LeadsAreSound, MailsAreSound

LEMMA CopyStatuses ==
  ASSUME TypeOK, NEW r \in Records, NEW step \in Steps
  PROVE  draft[r][step] \in DraftStates
BY DEF TypeOK, DraftStates

LEMMA ComposingIsSound ==
  ASSUME TypeOK, RecordsPersist, MailsPersist, SessionsAreSound, LeadsAreSound, MailsAreSound,
         NEW w \in Workers, composeCommit(w)
  PROVE  /\ LeadsAreSound' /\ MailsAreSound' /\ lead' \in [Leads -> Lead]
         /\ draft' \in [Records -> [Steps -> DraftStates]] /\ UNCHANGED mailed
<1>1. worker[w].op = "compose" /\ UNCHANGED mailed
  BY DEF composeCommit
<1>2. PICK r \in Records, step \in Steps : worker[w].rec = r /\ worker[w].n = step /\ used(r)
  BY <1>1 DEF SessionsAreSound, SessionIsSound, OfARecord
<1>3. record[r].lead \in Leads \cup {Nobody} /\ lead \in [Leads -> Lead]
      /\ draft \in [Records -> [Steps -> DraftStates]]
  BY DEF TypeOK, Record, DraftStates
<1>4. CASE UNCHANGED <<draft, lead>>
  BY <1>1, <1>3, <1>4, LeadsStayWhere
<1>5. CASE ~ UNCHANGED <<draft, lead>>
  <2>1. /\ draft[r][step] \in {"none", "rejected"} /\ draft' = [draft EXCEPT ![r][step] = "pending"]
        /\ \/ UNCHANGED lead
           \/ \E s \in {"READY_FOR_HUMAN_APPROVAL", "EMAIL_REVIEW_FAILED"} :
                lead' = [lead EXCEPT ![record[r].lead] =
                           [status |-> s, step |-> step, rec |-> r, finalized |-> FALSE]]
    BY <1>2, <1>5 DEF composeCommit, draftIndexAdmits
  <2>2. "pending" \in DraftStates
    BY DEF DraftStates
  <2>3. CASE record[r].lead \in Leads
    <3>1. PICK l \in Leads : record[r].lead = l
      BY <2>3
    <3>2. CASE UNCHANGED lead
      <4>1. lead' = [lead EXCEPT ![l] = lead[l]] /\ lead[l] \in Lead
        BY <1>3, <3>2
      <4> QED
        BY <1>1, <1>2, <2>1, <2>2, <3>1, <4>1, CopyIsSound
    <3>3. ASSUME NEW s \in {"READY_FOR_HUMAN_APPROVAL", "EMAIL_REVIEW_FAILED"},
                 lead' = [lead EXCEPT ![l] = [status |-> s, step |-> step, rec |-> r, finalized |-> FALSE]]
          PROVE  /\ LeadsAreSound' /\ MailsAreSound' /\ lead' \in [Leads -> Lead]
                 /\ draft' \in [Records -> [Steps -> DraftStates]]
      <4> DEFINE e == [status |-> s, step |-> step, rec |-> r, finalized |-> FALSE]
      <4>1. step \in 0..FinalStep /\ r \in 0..MaxRecords
        BY OutreachAssumption DEF Steps, Records
      <4>2. e \in Lead /\ e.rec = r /\ e.step = step /\ e.status = s
        BY <4>1 DEF Lead
      <4> QED
        BY <1>1, <1>2, <2>1, <2>2, <3>1, <3>3, <4>2, CopyIsSound
    <3> QED
      BY <1>1, <2>1, <3>1, <3>2, <3>3
  <2>4. CASE record[r].lead \notin Leads
    <3>1. /\ draft' \in [Records -> [Steps -> DraftStates]]
          /\ \A q \in Records \ {r} : draft'[q] = draft[q]
      BY <2>1, <2>2, DraftUpdate
    <3>2. lead' = lead
      BY <1>3, <2>1, <2>4
    <3>3. \A l \in Leads \ {} : LeadIsSound(l)' /\ \A i \in DOMAIN mailed'[l] : MailIsSound(l, i)'
      <4>1. \A q \in Records : record[q].lead \in Leads => draft'[q] = draft[q]
        BY <2>4, <3>1
      <4>2. ASSUME NEW l \in Leads PROVE LeadIsSound(l)'
        <5>1. LeadIsSound(l) /\ (lead[l].step > 0 => draft'[lead[l].rec] = draft[lead[l].rec])
          BY <4>1 DEF LeadsAreSound, LeadIsSound
        <5> QED
          BY <1>1, <3>2, <5>1, LeadKept
      <4>3. ASSUME NEW l \in Leads, NEW i \in DOMAIN mailed[l] PROVE MailIsSound(l, i)'
        <5>1. PICK q, n : mailed[l][i].rec = q /\ mailed[l][i].step = n
          OBVIOUS
        <5>2. MailIsSound(l, i)
          BY DEF MailsAreSound
        <5>3. n > 0 => draft'[q][n] = draft[q][n]
          BY <4>1, <5>1, <5>2 DEF MailIsSound
        <5>4. n > 0 => (lead'[l].rec = q /\ lead'[l].step = n => lead'[l].status \in {"SENT", "NEEDS_MANUAL_REVIEW"})
          BY <3>2, <5>1, <5>2 DEF MailIsSound
        <5> QED
          BY <5>1, <5>2, <5>3, <5>4, MailKept
      <4> QED
        BY <1>1, <4>2, <4>3
    <3> QED
      BY <1>1, <1>3, <3>1, <3>2, <3>3 DEF LeadsAreSound, MailsAreSound
  <2> QED
    BY <1>1, <2>3, <2>4
<1> QED
  BY <1>4, <1>5

LEMMA DecidingIsSound ==
  ASSUME TypeOK, RecordsPersist, MailsPersist, LeadsAreSound, MailsAreSound,
         NEW l \in Leads, NEW d \in {"approved", "rejected"}, decideEmail(l, d)
  PROVE  /\ LeadsAreSound' /\ MailsAreSound' /\ lead' \in [Leads -> Lead]
         /\ draft' \in [Records -> [Steps -> DraftStates]] /\ UNCHANGED mailed
<1>1. lead[l] \in Lead /\ LeadIsSound(l) /\ lead[l].step \in 0..FinalStep
  BY DEF TypeOK, Lead, LeadsAreSound
<1>2. lead[l].status = "READY_FOR_HUMAN_APPROVAL" /\ UNCHANGED mailed
  BY DEF decideEmail
<1>3. lead[l].step > 0
  BY <1>1, <1>2 DEF LeadIsSound
<1>4. PICK r \in Records, step \in Steps : lead[l].rec = r /\ lead[l].step = step
  BY <1>1, <1>3 DEF LeadIsSound, Steps
<1>5. used(r) /\ record[r].lead = l /\ draft[r][step] = "pending"
  BY <1>1, <1>2, <1>3, <1>4 DEF LeadIsSound
<1>6. draft' = [draft EXCEPT ![r][step] = d] /\ d \in DraftStates /\ draft[r][step] # "approved"
  BY <1>4, <1>5 DEF decideEmail, DraftStates
<1>7. PICK s \in {"HUMAN_APPROVED", "SENT"} :
        lead' = [lead EXCEPT ![l] = [lead[l] EXCEPT !.status = s]] /\ (s = "SENT" \/ d = "approved")
  BY DEF decideEmail
<1>8. PICK e \in Lead : /\ lead' = [lead EXCEPT ![l] = e] /\ e.rec = r /\ e.step = step
                       /\ e.status = s
  <2>1. LET e == [lead[l] EXCEPT !.status = s]
        IN e \in Lead /\ e.rec = r /\ e.step = step /\ e.status = s
    BY <1>1, <1>4 DEF Lead
  <2> QED
    BY <1>7, <2>1
<1>9. \/ e.status \in {"READY_FOR_HUMAN_APPROVAL", "EMAIL_REVIEW_FAILED"} /\ d = "pending"
      \/ e.status = "HUMAN_APPROVED" /\ d = "approved"
      \/ e.status = "SENT"
  BY <1>7, <1>8
<1>10. lead' = [lead EXCEPT ![l] = e] /\ e.rec = r /\ e.step = step
  BY <1>8
<1>11. mailed' = mailed
  BY <1>2
<1>12. /\ LeadsAreSound' /\ MailsAreSound' /\ lead' \in [Leads -> Lead]
       /\ draft' \in [Records -> [Steps -> DraftStates]]
  BY <1>5, <1>6, <1>9, <1>10, <1>11, CopyIsSound
<1> QED
  BY <1>2, <1>12

LEMMA LeadsStaySound ==
  ASSUME TypeOK, SessionsAreSound, LeadsAreSound, MailsAreSound, StepMailedOnce, [Next]_vars
  PROVE  /\ LeadsAreSound' /\ MailsAreSound' /\ StepMailedOnce'
         /\ lead' \in [Leads -> Lead] /\ draft' \in [Records -> [Steps -> DraftStates]]
<1>1. RecordsPersist /\ MailsPersist
  BY RecordsStay, MailsStay
<1>2. lead \in [Leads -> Lead] /\ draft \in [Records -> [Steps -> DraftStates]]
  BY DEF TypeOK, DraftStates
<1>3. UNCHANGED mailed => StepMailedOnce'
  BY DEF StepMailedOnce
<1>4. CASE UNCHANGED <<lead, draft, mailed>>
  BY <1>1, <1>2, <1>3, <1>4, LeadsStayWhere
<1>5. ASSUME NEW w \in Workers, SendMail(w)
      PROVE  /\ LeadsAreSound' /\ MailsAreSound' /\ StepMailedOnce'
             /\ lead' \in [Leads -> Lead] /\ draft' = draft
  BY <1>1, <1>5, SendingIsSound, SendMoves
<1>6. ASSUME NEW w \in Workers, composeCommit(w)
      PROVE  /\ LeadsAreSound' /\ MailsAreSound' /\ lead' \in [Leads -> Lead]
             /\ draft' \in [Records -> [Steps -> DraftStates]] /\ UNCHANGED mailed
  BY <1>1, <1>6, ComposingIsSound
<1>7. ASSUME NEW l \in Leads, progress(l) \/ resumeReview(l)
      PROVE  LeadsAreSound' /\ MailsAreSound' /\ lead' \in [Leads -> Lead] /\ UNCHANGED <<draft, mailed>>
  <2>1. UNCHANGED <<draft, mailed>> /\ lead[l].step > 0
    BY <1>7, LeadSteps
  <2>2. PICK e \in Lead :
              /\ lead' = [lead EXCEPT ![l] = e] /\ e.step = lead[l].step /\ e.rec = lead[l].rec
              /\ \/ /\ lead[l].status = "EMAIL_REVIEW_FAILED" /\ e.status = "READY_FOR_HUMAN_APPROVAL"
                 \/ /\ lead[l].status \in {"HUMAN_APPROVED", "DRAFT_CREATED"}
                    /\ e.status \in {"HUMAN_APPROVED", "DRAFT_CREATED", "SCHEDULED"}
    BY <1>7, LeadSteps
  <2> QED
    BY <1>1, <2>1, <2>2, ProgressIsSound
<1>8. ASSUME NEW l \in Leads, NEW d \in {"approved", "rejected"}, decideEmail(l, d)
      PROVE  /\ LeadsAreSound' /\ MailsAreSound' /\ lead' \in [Leads -> Lead]
             /\ draft' \in [Records -> [Steps -> DraftStates]] /\ UNCHANGED mailed
  BY <1>1, <1>8, DecidingIsSound
<1> QED
  BY <1>2, <1>3, <1>4, <1>5, <1>6, <1>7, <1>8, WhoWritesLeads

(***************************************************************************)
(* The invariant                                                           *)
(***************************************************************************)
LEMMA RecordTypes ==
  ASSUME TypeOK, SessionsAreSound, [Next]_vars
  PROVE  record' \in [Records -> Record]
<1>0. record \in [Records -> Record]
  BY DEF TypeOK
<1>1. ASSUME NEW r \in Records, Inserted(r) PROVE record' \in [Records -> Record]
  <2>1. PICK l \in Leads : record' = [record EXCEPT ![r] = [lead |-> l, status |-> St("DRAFT_READY"),
                                                         sent |-> FALSE, dnc |-> FALSE]]
    BY <1>1 DEF Inserted
  <2>2. [lead |-> l, status |-> St("DRAFT_READY"), sent |-> FALSE, dnc |-> FALSE] \in Record
    BY StatusTypes DEF Record
  <2> QED
    BY <1>0, <2>1, <2>2
<1>2. ASSUME NEW r \in Records, Rewritten(r) PROVE record' \in [Records -> Record]
  BY <1>0, <1>2 DEF Rewritten
<1> QED
  BY <1>0, <1>1, <1>2, RecordMoves

LEMMA InboxTypes ==
  ASSUME TypeOK, SessionsAreSound, [Next]_vars
  PROVE  /\ inbox' \in [Replies -> Inbound] /\ reply' \in [Replies -> 0..MaxRecords]
         /\ bounce' \in [Bounces -> [rec : 0..MaxRecords, superseded : BOOLEAN]]
<1>0. /\ inbox \in [Replies -> Inbound] /\ mailed \in [Leads -> Seq(Mail)] /\ reply \in [Replies -> 0..MaxRecords]
      /\ bounce \in [Bounces -> [rec : 0..MaxRecords, superseded : BOOLEAN]]
  BY DEF TypeOK
<1>1. CASE UNCHANGED <<inbox, reply, bounce>>
  BY <1>0, <1>1
<1>2. ASSUME NEW i \in Replies, NEW l \in Leads, NEW c \in Classes, ReplyArrives(i, l, c)
      PROVE  inbox' \in [Replies -> Inbound] /\ UNCHANGED <<reply, bounce>>
  <2> DEFINE e == [lead |-> l, class |-> c, seq |-> Len(mailed[l])]
  <2>1. inbox' = [inbox EXCEPT ![i] = e] /\ UNCHANGED <<reply, bounce>>
    BY <1>2 DEF ReplyArrives
  <2>2. mailed[l] \in Seq(Mail)
    BY <1>0
  <2>3. Len(mailed[l]) \in Nat
    BY <2>2
  <2>4. e \in Inbound
    BY <2>3 DEF Inbound
  <2> HIDE DEF e
  <2> QED
    BY <1>0, <2>1, <2>4
<1>3. ASSUME NEW w \in Workers, replyCommit(w)
      PROVE  reply' \in [Replies -> 0..MaxRecords] /\ UNCHANGED <<inbox, bounce>>
  <2>1. worker[w].rec \in 0..MaxRecords
    BY DEF TypeOK, Worker
  <2>2. UNCHANGED reply \/ reply' = [reply EXCEPT ![worker[w].n] = worker[w].rec]
    BY <1>3 DEF replyCommit
  <2>3. UNCHANGED <<inbox, bounce>>
    BY <1>3 DEF replyCommit
  <2> QED
    BY <1>0, <2>1, <2>2, <2>3
<1>4. ASSUME NEW b \in Bounces, NEW row, bounce' = [bounce EXCEPT ![b] = row],
             row \in [rec : 0..MaxRecords, superseded : BOOLEAN]
      PROVE  bounce' \in [Bounces -> [rec : 0..MaxRecords, superseded : BOOLEAN]]
  BY <1>0, <1>4
<1>5. ASSUME NEW w \in Workers, bounceCommit(w)
      PROVE  /\ UNCHANGED <<inbox, reply>>
             /\ bounce' \in [Bounces -> [rec : 0..MaxRecords, superseded : BOOLEAN]]
  <2>1. worker[w].op = "bounce" /\ UNCHANGED <<inbox, reply>>
    BY <1>5 DEF bounceCommit
  <2>2. PICK b \in Bounces, r \in 0..MaxRecords : worker[w].n = b /\ worker[w].rec = r
    BY <2>1 DEF SessionsAreSound, SessionIsSound, TypeOK, Worker
  <2>3. UNCHANGED bounce \/ bounce' = [bounce EXCEPT ![b] = [bounce[b] EXCEPT !.rec = r]]
    BY <1>5, <2>2 DEF bounceCommit
  <2>4. bounce[b] \in [rec : 0..MaxRecords, superseded : BOOLEAN]
    BY <1>0
  <2>5. [bounce[b] EXCEPT !.rec = r] \in [rec : 0..MaxRecords, superseded : BOOLEAN]
    BY <2>4
  <2> QED
    BY <1>0, <1>4, <2>1, <2>3, <2>5
<1>6. ASSUME NEW b \in Bounces, correctDeliveryEvent(b)
      PROVE  /\ UNCHANGED <<inbox, reply>>
             /\ bounce' \in [Bounces -> [rec : 0..MaxRecords, superseded : BOOLEAN]]
  <2>1. UNCHANGED <<inbox, reply>> /\ bounce' = [bounce EXCEPT ![b] = [bounce[b] EXCEPT !.superseded = TRUE]]
    BY <1>6 DEF correctDeliveryEvent
  <2>2. bounce[b] \in [rec : 0..MaxRecords, superseded : BOOLEAN]
    BY <1>0
  <2>3. [bounce[b] EXCEPT !.superseded = TRUE] \in [rec : 0..MaxRecords, superseded : BOOLEAN]
    BY <2>2
  <2> QED
    BY <1>4, <2>1, <2>3
<1>7. ASSUME NEW w \in Workers,
             \/ SendMail(w) \/ insertRecord(w) \/ enrollCommit(w) \/ transitionCommit(w)
             \/ scheduleCommit(w) \/ promoteCommit(w) \/ composeCommit(w)
      PROVE  UNCHANGED <<inbox, reply, bounce>>
  BY <1>7 DEF SendMail, insertRecord, enrollCommit, transitionCommit, scheduleCommit, promoteCommit,
     composeCommit
<1>8. ASSUME \/ \E f \in Rows : \/ DueTimePasses(f) \/ cancelRejected(f)
                                \/ \E s \in {"CANCELLED", "POSTPONED"} : EditFollowup(f, s)
             \/ \E r \in Records : recordMessage(r)
             \/ \E l \in Leads : \/ progress(l) \/ resumeReview(l)
                                 \/ \E d \in {"approved", "rejected"} : decideEmail(l, d)
      PROVE  UNCHANGED <<inbox, reply, bounce>>
  BY <1>8 DEF DueTimePasses, cancelRejected, EditFollowup, recordMessage, progress, resumeReview, decideEmail
<1> QED
  BY <1>0, <1>1, <1>2, <1>3, <1>5, <1>6, <1>7, <1>8, NextIs, ReadsKeepTables DEF WriteStep, AroundStep, vars

LEMMA BudgetTypes ==
  ASSUME TypeOK, [Next]_vars
  PROVE  edits' \in 0..MaxEdits /\ crashes' \in 0..MaxCrashes
<1>0. edits \in 0..MaxEdits /\ crashes \in 0..MaxCrashes /\ MaxEdits \in Nat /\ MaxCrashes \in Nat
  BY OutreachAssumption DEF TypeOK
<1>1. ASSUME NEW w \in Workers, WriteStep(w) PROVE UNCHANGED <<edits, crashes>>
  BY <1>1 DEF WriteStep, SendMail, insertRecord, enrollCommit, transitionCommit, scheduleCommit,
     promoteCommit, composeCommit, replyCommit, bounceCommit, budget
<1>2. ASSUME NEW w \in Workers, ReadStep(w)
      PROVE  \/ UNCHANGED <<edits, crashes>>
             \/ crashes < MaxCrashes /\ crashes' = crashes + 1 /\ UNCHANGED edits
             \/ edits < MaxEdits /\ edits' = edits + 1 /\ UNCHANGED crashes
  BY <1>2 DEF ReadStep, trackRead, enrollRead, Crash, clearForSend, unenrolledConfirmedSends,
     transitionRead, scheduleRead, replyRead, bounceRead, promoteRead, composeRead, allButWorker
<1>3. ASSUME AroundStep
      PROVE  \/ UNCHANGED <<edits, crashes>>
             \/ edits < MaxEdits /\ edits' = edits + 1 /\ UNCHANGED crashes
  BY <1>3 DEF AroundStep, DueTimePasses, cancelRejected, EditFollowup, recordMessage, progress,
     resumeReview, decideEmail, ReplyArrives, correctDeliveryEvent, budget
<1> QED
  BY <1>0, <1>1, <1>2, <1>3, NextIs DEF vars

LEMMA InitIsSound ==
  ASSUME Init
  PROVE  TypeOK /\ OutreachInv
<1>0. /\ NoRecord \in Record /\ NoRow \in Followup /\ Idle \in Worker
      /\ 0 \in 0..MaxRecords /\ 0 \in 0..FinalStep /\ 0 \in 0..MaxEdits /\ 0 \in 0..MaxCrashes
      /\ <<>> \in Seq(Mail) /\ <<>> \in Seq(Seq(Records)) /\ DOMAIN <<>> = {}
  BY IdleTypes, OutreachAssumption
<1>1. TypeOK
  <2>1. record \in [Records -> Record] /\ followup \in [Rows -> Followup] /\ worker \in [Workers -> Worker]
    BY <1>0 DEF Init
  <2>2. draft \in [Records -> [Steps -> {"none", "pending", "approved", "rejected"}]]
    BY DEF Init
  <2>3. lead \in [Leads -> Lead] /\ mailed \in [Leads -> Seq(Mail)] /\ message \in [Leads -> Seq(Seq(Records))]
    BY <1>0 DEF Init, Lead
  <2>4. inbox \in [Replies -> Inbound] /\ reply \in [Replies -> 0..MaxRecords]
        /\ bounce \in [Bounces -> [rec : 0..MaxRecords, superseded : BOOLEAN]]
    BY <1>0 DEF Init, Inbound
  <2>5. past \in [Records -> SUBSET Past] /\ edits \in 0..MaxEdits /\ crashes \in 0..MaxCrashes
    BY <1>0 DEF Init
  <2> QED
    BY <2>1, <2>2, <2>3, <2>4, <2>5 DEF TypeOK
<1>2. SessionsAreSound /\ RowsAreSound
  BY DEF Init, SessionsAreSound, SessionIsSound, Idle, OfALead, OfARecord, RowsAreSound, RowIsSound, NoRow
<1>3. EnrolledInOwnRecord /\ EnrolledOnce /\ StepMailedOnce
  BY <1>0 DEF Init, EnrolledInOwnRecord, enrolledIn, EnrolledOnce, StepMailedOnce
<1>4. OptOutsAreMarked /\ OneActiveRecord
  BY DEF Init, OptOutsAreMarked, OneActiveRecord, active, used, NoRecord, Idle
<1>5. LeadsAreSound /\ MailsAreSound
  BY <1>0 DEF Init, LeadsAreSound, LeadIsSound, MailsAreSound
<1> QED
  BY <1>1, <1>2, <1>3, <1>4, <1>5 DEF OutreachInv

LEMMA StepIsSound ==
  ASSUME TypeOK, OutreachInv, [Next]_vars
  PROVE  TypeOK' /\ OutreachInv'
<1>0. /\ SessionsAreSound /\ RowsAreSound /\ EnrolledInOwnRecord /\ EnrolledOnce /\ OptOutsAreMarked
      /\ OneActiveRecord /\ LeadsAreSound /\ MailsAreSound /\ StepMailedOnce
  BY DEF OutreachInv
<1>1. SessionsAreSound' /\ worker' \in [Workers -> Worker]
  BY <1>0, SessionsStaySound
<1>2. RowsAreSound' /\ followup' \in [Rows -> Followup]
  BY <1>0, RowsStaySound
<1>3. EnrolledInOwnRecord' /\ EnrolledOnce' /\ message' \in [Leads -> Seq(Seq(Records))]
  BY <1>0, EnrolmentsStaySound, MessagesMove
<1>4. OptOutsAreMarked' /\ past' \in [Records -> SUBSET Past] /\ OneActiveRecord'
  BY <1>0, OptOutsStayMarked, OneActiveStays
<1>5. /\ LeadsAreSound' /\ MailsAreSound' /\ StepMailedOnce'
      /\ lead' \in [Leads -> Lead] /\ draft' \in [Records -> [Steps -> DraftStates]]
  BY <1>0, LeadsStaySound
<1>6. /\ record' \in [Records -> Record] /\ mailed' \in [Leads -> Seq(Mail)]
      /\ inbox' \in [Replies -> Inbound] /\ reply' \in [Replies -> 0..MaxRecords]
      /\ bounce' \in [Bounces -> [rec : 0..MaxRecords, superseded : BOOLEAN]]
      /\ edits' \in 0..MaxEdits /\ crashes' \in 0..MaxCrashes
  BY <1>0, RecordTypes, MailsStay, InboxTypes, BudgetTypes
<1>7. TypeOK'
  BY <1>1, <1>2, <1>3, <1>4, <1>5, <1>6 DEF TypeOK, DraftStates
<1> QED
  BY <1>1, <1>2, <1>3, <1>4, <1>5, <1>7 DEF OutreachInv

(* Whatever the commands interleave: sessions only act on rows that exist, a
   lead has one active record, a confirmed e-mail has one message row, in a
   record of its lead, and a copy that went out stays approved. *)
THEOREM OutreachInvariant == Spec => [](TypeOK /\ OutreachInv)
<1>1. Init => TypeOK /\ OutreachInv
  BY InitIsSound
<1>2. TypeOK /\ OutreachInv /\ [Next]_vars => TypeOK' /\ OutreachInv'
  BY StepIsSound
<1> QED
  BY <1>1, <1>2, PTL DEF Spec

(* No follow-up of a record is mailed twice. *)
THEOREM StepsMailedOnce == Spec => []StepMailedOnce
<1>1. TypeOK /\ OutreachInv => StepMailedOnce
  BY DEF OutreachInv
<1> QED
  BY <1>1, OutreachInvariant, PTL

(* An opt-out that marked its record is final, and one that found the record
   closed is passed over only after a command in flight reopened it. *)
THEOREM OptOutsStick == Spec => OptOutSticks
<1>1. ASSUME TypeOK, OutreachInv, [Next]_vars, NEW w \in Workers, clearsFollowup(w)
      PROVE  LET history == past[worker'[w].rec] IN
             "blocked" \notin history /\ ("optedOut" \in history => "reopened" \in history)
  <2>1. worker[w].op = "idle" /\ worker'[w].op = "cleared" /\ worker'[w].n > 0
    BY <1>1 DEF clearsFollowup
  <2>2. PICK l \in Leads : clearForSend(w, l)
    BY <1>1, <2>1, WhoClearsOrEnrols DEF enrollRead
  <2>3. /\ worker'[w] = [Idle EXCEPT !.op = "cleared", !.lead = l, !.rec = lead[l].rec, !.n = lead[l].step]
        /\ stillAllowed(l)
    BY <1>1, <2>2, Becomes DEF clearForSend
  <2>4. worker'[w].rec = lead[l].rec /\ worker'[w].n = lead[l].step
    BY <2>3 DEF Idle
  <2>5. PICK r \in Records : r = lead[l].rec
    BY <1>1, <2>1, <2>4 DEF OutreachInv, LeadsAreSound, LeadIsSound
  <2>6. ~ record[r].dnc /\ record[r].status = Due(lead[l].step)
    BY <2>1, <2>3, <2>4, <2>5 DEF stillAllowed, checkFollowupSendAllowed
  <2>7. record[r].status \notin NoFollowup
    <3>1. lead[l].step \in Int
      BY <1>1 DEF TypeOK, Lead
    <3> QED
      BY <2>6, <3>1, ActiveStatuses
  <2> QED
    BY <1>1, <2>4, <2>5, <2>6, <2>7 DEF OutreachInv, OptOutsAreMarked, closedOrReopened
<1>2. TypeOK /\ OutreachInv /\ [Next]_vars =>
        [\A w \in Workers : clearsFollowup(w) =>
           LET history == past[worker'[w].rec] IN
           "blocked" \notin history /\ ("optedOut" \in history => "reopened" \in history)]_vars
  BY <1>1
<1> QED
  BY <1>2, OutreachInvariant, PTL DEF Spec, OptOutSticks

(* No timer and no session but an enrolment or an operator's takes a record
   out of a status that forbids follow-ups. *)
THEOREM OnlyEnrolmentsRevive == Spec => OnlyEnrolmentRevives
<1>1. ASSUME TypeOK, OutreachInv, [Next]_vars, NEW r \in Records,
             record[r].status \in NoFollowup, record'[r].status \notin NoFollowup
      PROVE  \E w \in Workers : worker[w].op \in {"enroll", "transition"} /\ worker[w].rec = r
  BY <1>1, WhoReopens DEF OutreachInv, EnrolledBy, MovedBy
<1>2. TypeOK /\ OutreachInv /\ [Next]_vars =>
        [\A r \in Records :
           record[r].status \in NoFollowup /\ record'[r].status \notin NoFollowup
             => \E w \in Workers : worker[w].op \in {"enroll", "transition"} /\ worker[w].rec = r]_vars
  BY <1>1
<1> QED
  BY <1>2, OutreachInvariant, PTL DEF Spec, OnlyEnrolmentRevives

(***************************************************************************)
(* The history of a record.  An operator may record by hand that an e-mail *)
(* was sent: then the status says more than the history, and only that no  *)
(* step is enrolled twice is left of what follows.                         *)
(***************************************************************************)
LEMMA Intervals ==
  /\ 0..(0 - 1) = {}
  /\ \A n \in Nat : 0..n = 0..(n - 1) \cup {n}
  /\ \A m, n \in Nat : 0..(m - 1) = 0..(n - 1) => m = n
<1>1. ASSUME NEW m \in Nat, NEW n \in Nat, 0..(m - 1) = 0..(n - 1), m < n PROVE FALSE
  <2>1. m \in 0..(n - 1) /\ m \notin 0..(m - 1)
    BY <1>1
  <2> QED
    BY <1>1, <2>1
<1>2. \A m, n \in Nat : 0..(m - 1) = 0..(n - 1) => m = n
  BY <1>1
<1>3. 0..(0 - 1) = {}
  OBVIOUS
<1>4. \A n \in Nat : 0..n = 0..(n - 1) \cup {n}
  OBVIOUS
<1> QED
  BY <1>2, <1>3, <1>4

LEMMA HistoryStays ==
  ASSUME EnrolledInOwnRecord, MailsPersist, NothingEnrolled, NEW r \in Records
  PROVE  stepsOf(r)' = stepsOf(r)
<1>1. ASSUME NEW l \in Leads PROVE enrolledIn(l, r)' = enrolledIn(l, r)
  BY DEF NothingEnrolled, enrolledIn
<1>2. \A l \in Leads : \A i \in enrolledIn(l, r) : mailed'[l][i] = mailed[l][i]
  BY DEF enrolledIn, EnrolledInOwnRecord, MailsPersist
<1> QED
  BY <1>1, <1>2 DEF stepsOf

LEMMA HistoryGrows ==
  ASSUME TypeOK, EnrolledInOwnRecord, NEW w \in Workers, EnrolledNow(w),
         NEW l \in Leads, NEW i \in DOMAIN mailed[l], NEW q \in Records,
         worker[w].lead = l, worker[w].n = i, worker[w].rec = q
  PROVE  /\ stepsOf(q)' = stepsOf(q) \cup {mailed[l][i].step}
         /\ \A r \in Records \ {q} : stepsOf(r)' = stepsOf(r)
<1>1. /\ i \in DOMAIN message[l] /\ message[l][i] = <<>> /\ message'[l][i] = <<q>> /\ mailed' = mailed
      /\ \A k \in Leads : DOMAIN message'[k] = DOMAIN message[k]
      /\ \A k \in Leads : \A j \in DOMAIN message[k] : k # l \/ j # i => message'[k][j] = message[k][j]
  BY DEF EnrolledNow
<1>2. DOMAIN <<q>> = {1} /\ <<q>>[1] = q /\ DOMAIN <<>> = {}
  OBVIOUS
<1>3. mailed[l][i].step \in 0..FinalStep
  BY MailTypes
<1>4. ASSUME NEW r \in Records, NEW k \in Leads, NEW j \in DOMAIN message[k], k # l \/ j # i
      PROVE  j \in enrolledIn(k, r)' <=> j \in enrolledIn(k, r)
  BY <1>1, <1>4 DEF enrolledIn
<1>5. ASSUME NEW r \in Records PROVE i \notin enrolledIn(l, r) /\ (i \in enrolledIn(l, r)' <=> r = q)
  <2>1. i \notin enrolledIn(l, r)
    BY <1>1, <1>2 DEF enrolledIn
  <2>2. i \in enrolledIn(l, r)' <=> \E k \in DOMAIN message'[l][i] : message'[l][i][k] = r
    BY <1>1 DEF enrolledIn
  <2>3. DOMAIN message'[l][i] = {1} /\ message'[l][i][1] = q
    BY <1>1, <1>2
  <2> QED
    BY <2>1, <2>2, <2>3
<1>6. \A r \in Records, k \in Leads : /\ enrolledIn(k, r) \subseteq DOMAIN message[k]
                                      /\ enrolledIn(k, r)' \subseteq DOMAIN message[k]
  BY <1>1 DEF enrolledIn
<1>7. ASSUME NEW r \in Records \ {q} PROVE stepsOf(r)' = stepsOf(r)
  <2>1. ASSUME NEW k \in Leads PROVE enrolledIn(k, r)' = enrolledIn(k, r)
    BY <1>4, <1>5, <1>6
  <2> QED
    BY <1>1, <2>1 DEF stepsOf
<1>8. \A k \in Leads : enrolledIn(k, q)' = IF k = l THEN enrolledIn(k, q) \cup {i} ELSE enrolledIn(k, q)
  BY <1>4, <1>5, <1>6
<1>9. stepsOf(q)' = stepsOf(q) \cup {mailed[l][i].step}
  BY <1>1, <1>3, <1>8 DEF stepsOf
<1> QED
  BY <1>7, <1>9

(* An e-mail that is not enrolled yet is of a step its record does not have:
   no other e-mail of the lead is of the same step and record. *)
LEMMA StepIsNew ==
  ASSUME TypeOK, EnrolledInOwnRecord, StepMailedOnce, MailsAreSound, EnrolledWhereMeant,
         NEW l \in Leads, NEW q \in Records, NEW i \in DOMAIN mailed[l],
         record[q].lead = l, message[l][i] = <<>>, mailed[l][i].step > 0 => mailed[l][i].rec = q
  PROVE  mailed[l][i].step \notin stepsOf(q)
<1> SUFFICES ASSUME NEW k \in Leads, NEW j \in enrolledIn(k, q), mailed[k][j].step = mailed[l][i].step
             PROVE  FALSE
  BY DEF stepsOf
<1>1. k = l /\ j \in DOMAIN mailed[l]
  BY DEF EnrolledInOwnRecord, enrolledIn
<1>2. j # i
  <2>1. DOMAIN <<>> = {}
    OBVIOUS
  <2> QED
    BY <1>1, <2>1 DEF enrolledIn
<1>3. mailed[l][i] \in Mail /\ mailed[l][j] \in Mail /\ mailed[l][i].step \in Nat
  BY <1>1, MailTypes
<1>4. mailed[l][i].step # 0
  <2>1. MailIsSound(l, i) /\ MailIsSound(l, j)
    BY <1>1 DEF MailsAreSound
  <2> QED
    BY <1>1, <1>2, <2>1 DEF MailIsSound
<1>5. mailed[l][i].rec = q /\ mailed[l][j].rec = q
  BY <1>1, <1>3, <1>4 DEF EnrolledWhereMeant
<1>6. mailed[l][i] = mailed[l][j]
  BY <1>1, <1>3, <1>5 DEF Mail
<1> QED
  BY <1>1, <1>2, <1>6 DEF StepMailedOnce

(* The record of an e-mail that is enrolled, and what it knew before. *)
EnrolmentOf(w, l, q, i) ==
  /\ worker[w].lead = l /\ worker[w].n = i /\ worker[w].rec = q
  /\ used(q) /\ record[q].lead = l /\ message'[l][i] # <<>>
  /\ record' = [record EXCEPT ![q] = enrolledRecord(@, mailed[l][i].step)]
  /\ past' = [past EXCEPT ![q] = @ \cup reopening(q, Sent(mailed[l][i].step))]
  /\ mailed[l][i].step \notin stepsOf(q)
  /\ "byHand" \notin past[q] => stepsOf(q) = 0..(mailed[l][i].step - 1)
  /\ stepsOf(q)' = stepsOf(q) \cup {mailed[l][i].step}
  /\ \A r \in Records \ {q} : stepsOf(r)' = stepsOf(r)
  /\ mailed[l][i].step > 0 => mailed[l][i].rec = q

LEMMA EnrolmentFacts ==
  ASSUME TypeOK, OutreachInv, EnrolsNext, EnrolledWhereMeant, NEW w \in Workers, EnrolledNow(w)
  PROVE  \E l \in Leads, q \in Records : \E i \in DOMAIN mailed[l] : EnrolmentOf(w, l, q, i)
<1>0. SessionsAreSound /\ EnrolledInOwnRecord /\ StepMailedOnce /\ MailsAreSound
  BY DEF OutreachInv
<1>1. PICK l \in Leads, q \in Records :
        /\ worker[w].op = "enroll" /\ worker[w].lead = l /\ worker[w].rec = q
        /\ used(q) /\ record[q].lead = l
  BY DEF EnrolledNow
<1>2. PICK i \in DOMAIN mailed[l] : worker[w].n = i
  BY <1>0, <1>1 DEF SessionsAreSound, SessionIsSound, OfALead
<1>3. /\ message[l][i] = <<>> /\ message'[l][i] = <<q>>
      /\ record' = [record EXCEPT ![q] = enrolledRecord(@, mailed[l][i].step)]
      /\ past' = [past EXCEPT ![q] = @ \cup reopening(q, Sent(mailed[l][i].step))]
  BY <1>1, <1>2 DEF EnrolledNow
<1>4. mailed[l][i].step > 0 => mailed[l][i].rec = q
  BY <1>0, <1>1, <1>2 DEF SessionsAreSound, SessionIsSound
<1>5. "byHand" \notin past[q] => stepsOf(q) = 0..(mailed[l][i].step - 1)
  BY <1>1, <1>2, <1>3 DEF EnrolsNext
<1>6. /\ stepsOf(q)' = stepsOf(q) \cup {mailed[l][i].step}
      /\ \A r \in Records \ {q} : stepsOf(r)' = stepsOf(r)
  BY <1>0, <1>1, <1>2, HistoryGrows
<1>7. mailed[l][i].step \notin stepsOf(q)
  BY <1>0, <1>1, <1>3, <1>4, StepIsNew
<1>8. <<q>> # <<>>
  OBVIOUS
<1> QED
  BY <1>1, <1>2, <1>3, <1>4, <1>5, <1>6, <1>7, <1>8 DEF EnrolmentOf

(* HistoryMatchesStatus for one record. *)
HistoryOf(r) == "byHand" \notin past[r] =>
  /\ record[r].status \in EnrollPath => stepsOf(r) = {}
  /\ \A n \in 0..FinalStep : record[r].status = Sent(n) => stepsOf(r) = 0..n
  /\ \A n \in Steps : record[r].status = Due(n) => stepsOf(r) = 0..(n - 1)

LEMMA HistoryKeepsMatching ==
  ASSUME TypeOK, OutreachInv, HistoryInv, [Next]_vars
  PROVE  HistoryMatchesStatus'
<1>0. /\ record \in [Records -> Record] /\ SessionsAreSound /\ EnrolledInOwnRecord /\ MailsPersist
      /\ EnrolsNext /\ EnrolledWhereMeant /\ \A r \in Records : HistoryOf(r)
      /\ \A r \in Records : "byHand" \notin past'[r] => "byHand" \notin past[r]
  <2>1. SessionsAreSound /\ \A r \in Records : past[r] \subseteq past'[r]
    BY PastStays DEF OutreachInv
  <2> QED
    BY <2>1, MailsStay DEF TypeOK, OutreachInv, HistoryInv, HistoryMatchesStatus, HistoryOf
<1>1. ASSUME NEW r \in Records, stepsOf(r)' = stepsOf(r), record'[r].status = record[r].status
      PROVE  HistoryOf(r)'
  BY <1>0, <1>1 DEF HistoryOf
<1>2. \A n \in 0..FinalStep : n \in Int
  OBVIOUS
<1>3. \A n \in Steps : n \in Int /\ n - 1 \in 0..FinalStep
  BY OutreachAssumption DEF Steps
<1>4. ASSUME NEW r \in Records, record'[r].status \in NoFollowup PROVE HistoryOf(r)'
  <2>1. \A s \in EnrollPath : s \notin NoFollowup
    BY DEF EnrollPath, NoFollowup, Replied, SendBlocked, Terminal, St
  <2> QED
    BY <1>2, <1>3, <1>4, <2>1, ActiveStatuses DEF HistoryOf
<1>5. CASE NothingEnrolled
  <2>1. \A r \in Records : stepsOf(r)' = stepsOf(r)
    BY <1>0, <1>5, HistoryStays
  <2>2. CASE UNCHANGED record
    BY <1>1, <2>1, <2>2 DEF HistoryMatchesStatus, HistoryOf
  <2>3. ASSUME NEW q \in Records, HistoryOf(q)', \A r \in Records \ {q} : record'[r] = record[r]
        PROVE  HistoryMatchesStatus'
    <3>1. \A r \in Records \ {q} : HistoryOf(r)'
      BY <1>1, <2>1, <2>3
    <3> QED
      BY <2>3, <3>1 DEF HistoryMatchesStatus, HistoryOf
  <2>4. ASSUME NEW q \in Records, Inserted(q) PROVE HistoryMatchesStatus'
    <3>1. ~ used(q) /\ record'[q].status = St("DRAFT_READY") /\ \A r \in Records \ {q} : record'[r] = record[r]
      BY <1>0, <2>4 DEF Inserted
    <3>2. stepsOf(q) = {}
      BY <1>0, <3>1 DEF EnrolledInOwnRecord, stepsOf
    <3>3. St("DRAFT_READY") \in EnrollPath
      BY DEF EnrollPath
    <3>4. HistoryOf(q)'
      BY <1>2, <1>3, <2>1, <3>1, <3>2, <3>3, ActiveStatuses DEF HistoryOf
    <3> QED
      BY <2>3, <3>1, <3>4
  <2>5. ASSUME NEW q \in Records, Rewritten(q) PROVE HistoryMatchesStatus'
    <3>1. Restatused(q) /\ \A r \in Records \ {q} : record'[r] = record[r]
      BY <1>0, <2>5 DEF Rewritten
    <3>2. CASE record'[q].status = record[q].status
      BY <1>1, <2>1, <2>3, <3>1, <3>2
    <3>3. ASSUME NEW n \in Steps, record[q].status = Sent(n - 1), record'[q].status = Due(n)
          PROVE  HistoryOf(q)'
      <4>1. "byHand" \notin past'[q] => stepsOf(q) = 0..(n - 1)
        BY <1>0, <1>3, <3>3 DEF HistoryOf
      <4> QED
        BY <1>2, <1>3, <2>1, <3>3, <4>1, ActiveStatuses DEF HistoryOf
    <3>4. ASSUME NEW w \in Workers, EnrolledBy(w, q) PROVE FALSE
      <4>1. PICK l, i : worker[w].lead = l /\ worker[w].n = i
        OBVIOUS
      <4>2. /\ l \in Leads /\ i \in DOMAIN message[l] /\ message[l][i] = <<>>
            /\ message' = [message EXCEPT ![l][i] = Append(@, q)]
        BY <1>0, <3>4, <4>1 DEF EnrolledBy, SessionsAreSound, SessionIsSound, OfALead, EnrolledInOwnRecord,
           messageIndexAdmits
      <4>3. message'[l][i] = Append(<<>>, q)
        BY <4>2 DEF TypeOK
      <4>4. Append(<<>>, q) # <<>>
        OBVIOUS
      <4> QED
        BY <1>5, <4>2, <4>3, <4>4 DEF NothingEnrolled
    <3>5. ASSUME NEW w \in Workers, MovedBy(w, q), record'[q].status \notin NoFollowup
          PROVE  HistoryOf(q)'
      <4>1. "byHand" \in byOperator(q, record'[q].status)
        BY <3>5 DEF byOperator
      <4>2. past'[q] = past[q] \cup byOperator(q, record'[q].status)
        BY <3>5 DEF MovedBy, TypeOK
      <4> QED
        BY <4>1, <4>2 DEF HistoryOf
    <3> QED
      BY <1>4, <2>3, <3>1, <3>2, <3>3, <3>4, <3>5 DEF Restatused
  <2> QED
    BY <1>0, <2>2, <2>4, <2>5, RecordMoves
<1>6. ASSUME NEW w \in Workers, EnrolledNow(w) PROVE HistoryMatchesStatus'
  <2>1. PICK l \in Leads, q \in Records : \E i \in DOMAIN mailed[l] : EnrolmentOf(w, l, q, i)
    BY <1>0, <1>6, EnrolmentFacts
  <2>2. PICK i \in DOMAIN mailed[l] : EnrolmentOf(w, l, q, i)
    BY <2>1
  <2>3. PICK step \in 0..FinalStep : step = mailed[l][i].step
    BY MailTypes
  <2>4. /\ record' = [record EXCEPT ![q] = enrolledRecord(@, step)]
        /\ "byHand" \notin past[q] => stepsOf(q) = 0..(step - 1)
        /\ stepsOf(q)' = stepsOf(q) \cup {step}
        /\ \A r \in Records \ {q} : stepsOf(r)' = stepsOf(r)
    BY <2>2, <2>3 DEF EnrolmentOf
  <2>5. record'[q].status = Sent(step) /\ \A r \in Records \ {q} : record'[r] = record[r]
    BY <1>0, <2>4 DEF enrolledRecord, Record
  <2>6. "byHand" \notin past[q] => stepsOf(q)' = 0..step
    BY <2>4, Intervals
  <2>7. HistoryOf(q)'
    BY <1>0, <1>2, <1>3, <2>5, <2>6, ActiveStatuses DEF HistoryOf
  <2>8. \A r \in Records \ {q} : HistoryOf(r)'
    BY <1>1, <2>4, <2>5
  <2> QED
    BY <2>7, <2>8 DEF HistoryMatchesStatus, HistoryOf
<1> QED
  BY <1>0, <1>5, <1>6, MessagesMove

LEMMA EnrolmentsStayMeant ==
  ASSUME TypeOK, OutreachInv, HistoryInv, [Next]_vars
  PROVE  EnrolledWhereMeant'
<1>0. SessionsAreSound /\ EnrolledInOwnRecord /\ MailsPersist /\ EnrolsNext /\ EnrolledWhereMeant
  BY MailsStay DEF OutreachInv, HistoryInv
<1>1. \A l \in Leads, r \in Records : \A i \in enrolledIn(l, r) : mailed'[l][i] = mailed[l][i]
  BY <1>0 DEF enrolledIn, EnrolledInOwnRecord, MailsPersist
<1>2. CASE NothingEnrolled
  <2>1. \A l \in Leads, r \in Records : enrolledIn(l, r)' \subseteq enrolledIn(l, r)
    BY <1>2 DEF NothingEnrolled, enrolledIn
  <2> QED
    BY <1>0, <1>1, <2>1 DEF EnrolledWhereMeant
<1>3. ASSUME NEW w \in Workers, EnrolledNow(w) PROVE EnrolledWhereMeant'
  <2>1. PICK k \in Leads, q \in Records : \E i \in DOMAIN mailed[k] : EnrolmentOf(w, k, q, i)
    BY <1>0, <1>3, EnrolmentFacts
  <2>2. PICK i \in DOMAIN mailed[k] : EnrolmentOf(w, k, q, i)
    BY <2>1
  <2>3. /\ message'[k][i] = <<q>> /\ mailed' = mailed
        /\ \A l \in Leads : DOMAIN message'[l] = DOMAIN message[l]
        /\ \A l \in Leads : \A j \in DOMAIN message[l] : l # k \/ j # i => message'[l][j] = message[l][j]
        /\ mailed[k][i].step > 0 => mailed[k][i].rec = q
    BY <1>3, <2>2 DEF EnrolledNow, EnrolmentOf
  <2>4. DOMAIN <<q>> = {1} /\ <<q>>[1] = q
    OBVIOUS
  <2>5. ASSUME NEW l \in Leads, NEW r \in Records, NEW j \in enrolledIn(l, r)'
        PROVE  j \in enrolledIn(l, r) \/ (l = k /\ j = i /\ r = q)
    BY <2>3, <2>4 DEF enrolledIn
  <2> QED
    BY <1>0, <2>3, <2>5 DEF EnrolledWhereMeant
<1> QED
  BY <1>0, <1>2, <1>3, MessagesMove

LEMMA EnrolmentsStayNext ==
  ASSUME TypeOK, OutreachInv, HistoryInv, [Next]_vars
  PROVE  EnrolsNext'
<1>0. /\ SessionsAreSound /\ EnrolledInOwnRecord /\ StepMailedOnce /\ MailsAreSound /\ MailsPersist
      /\ EnrolsNext /\ EnrolledWhereMeant /\ \A r \in Records : HistoryOf(r)
      /\ \A r \in Records : "byHand" \notin past'[r] => "byHand" \notin past[r]
  <2>1. SessionsAreSound /\ \A r \in Records : past[r] \subseteq past'[r]
    BY PastStays DEF OutreachInv
  <2> QED
    BY <2>1, MailsStay DEF OutreachInv, HistoryInv, HistoryMatchesStatus, HistoryOf
<1> SUFFICES ASSUME NEW v \in Workers, NEW l \in Leads, NEW r \in Records, NEW i \in DOMAIN mailed'[l],
                    worker'[v].op = "enroll", worker'[v].lead = l, worker'[v].rec = r, worker'[v].n = i,
                    message'[l][i] = <<>>, "byHand" \notin past[r]
             PROVE  stepsOf(r)' = 0..(mailed'[l][i].step - 1)
  BY <1>0 DEF EnrolsNext
<1>1. CASE enrollRead(v)
  <2>1. UNCHANGED <<record, mailed, message>>
    BY <1>1 DEF enrollRead, allButWorker
  <2>2. \/ Finish(v)
        \/ /\ Become(v, [worker[v] EXCEPT !.op = "enroll", !.seen = record[worker[v].rec].status])
           /\ enrollable(worker[v].rec, mailed[worker[v].lead][worker[v].n])
    BY <1>1 DEF enrollRead
  <2>3. ~ Finish(v)
    <3>1. ASSUME worker'[v] = Idle PROVE FALSE
      BY <3>1 DEF Idle
    <3> QED
      BY <3>1, Becomes DEF Finish
  <2>4. worker'[v] = [worker[v] EXCEPT !.op = "enroll", !.seen = record[worker[v].rec].status]
    BY <2>2, <2>3, Becomes
  <2>5. worker[v].rec = r /\ worker[v].lead = l /\ worker[v].n = i
    BY <2>4 DEF TypeOK, Worker
  <2>6. enrollable(r, mailed[l][i]) /\ mailed[l][i].step \in 0..FinalStep
    BY <2>1, <2>2, <2>3, <2>5, MailTypes
  <2>7. stepsOf(r) = 0..(mailed[l][i].step - 1)
    <3>1. CASE enrollConfirmedSend(r, mailed[l][i])
      BY <1>0, <3>1, Intervals DEF enrollConfirmedSend, HistoryOf
    <3>2. CASE enrollConfirmedFollowup(r, mailed[l][i])
      BY <1>0, <2>6, <3>2 DEF enrollConfirmedFollowup, HistoryOf, Steps
    <3> QED
      BY <2>6, <3>1, <3>2 DEF enrollable
  <2>8. NothingEnrolled
    BY <1>0, <2>1 DEF NothingEnrolled, EnrolledInOwnRecord
  <2> QED
    BY <1>0, <2>1, <2>7, <2>8, HistoryStays
<1>2. CASE worker'[v] = worker[v]
  <2>1. /\ worker[v].op = "enroll" /\ worker[v].lead = l /\ worker[v].rec = r /\ worker[v].n = i
        /\ record[r].lead = l /\ i \in DOMAIN mailed[l]
        /\ mailed[l][i].step > 0 => mailed[l][i].rec = r
    BY <1>0, <1>2 DEF SessionsAreSound, SessionIsSound, OfALead
  <2>2. mailed'[l][i] = mailed[l][i] /\ i \in DOMAIN message[l]
    BY <1>0, <2>1 DEF MailsPersist, EnrolledInOwnRecord
  <2>3. CASE NothingEnrolled
    <3>1. message[l][i] = <<>>
      BY <2>2, <2>3 DEF NothingEnrolled
    <3>2. stepsOf(r) = 0..(mailed[l][i].step - 1)
      BY <1>0, <2>1, <3>1 DEF EnrolsNext
    <3> QED
      BY <1>0, <2>2, <2>3, <3>2, HistoryStays
  <2>4. ASSUME NEW w \in Workers, EnrolledNow(w) PROVE stepsOf(r)' = 0..(mailed'[l][i].step - 1)
    <3>1. PICK k \in Leads, q \in Records : \E j \in DOMAIN mailed[k] : EnrolmentOf(w, k, q, j)
      BY <1>0, <2>4, EnrolmentFacts
    <3>2. PICK j \in DOMAIN mailed[k] :
           /\ worker[w].lead = k /\ worker[w].n = j /\ worker[w].rec = q
           /\ used(q) /\ record[q].lead = k /\ message'[k][j] # <<>>
           /\ "byHand" \notin past[q] => stepsOf(q) = 0..(mailed[k][j].step - 1)
           /\ \A p \in Records \ {q} : stepsOf(p)' = stepsOf(p)
           /\ mailed[k][j].step > 0 => mailed[k][j].rec = q
      BY <3>1 DEF EnrolmentOf
    <3>3. message[l][i] = <<>>
      <4>1. l # k \/ i # j
        BY <3>2
      <4> QED
        BY <2>2, <2>4, <3>2, <4>1 DEF EnrolledNow
    <3>4. stepsOf(r) = 0..(mailed[l][i].step - 1)
      BY <1>0, <2>1, <3>3 DEF EnrolsNext
    <3>5. CASE r # q
      BY <2>2, <3>2, <3>4, <3>5
    <3>6. CASE r = q
      <4>1. l = k /\ i # j
        BY <2>1, <3>2, <3>6
      <4>2. mailed[l][i] \in Mail /\ mailed[l][j] \in Mail
        BY <2>1, <3>2, <4>1, MailTypes
      <4>3. mailed[l][i].step = mailed[l][j].step
        <5>1. mailed[l][i].step \in Nat /\ mailed[l][j].step \in Nat
          BY <4>2 DEF Mail
        <5> QED
          BY <3>2, <3>4, <3>6, <4>1, <5>1, Intervals
      <4>4. mailed[l][i].step = 0 => i = 1 /\ j = 1
        <5>1. MailIsSound(l, i) /\ MailIsSound(l, j)
          BY <1>0, <2>1, <3>2, <4>1 DEF MailsAreSound
        <5> QED
          BY <4>3, <5>1 DEF MailIsSound
      <4>5. mailed[l][i].step > 0 => mailed[l][i].rec = mailed[l][j].rec
        BY <2>1, <3>2, <3>6, <4>1, <4>3
      <4>6. mailed[l][i].step # 0
        BY <4>1, <4>4
      <4>7. mailed[l][i] = mailed[l][j]
        BY <4>2, <4>3, <4>5, <4>6 DEF Mail
      <4> QED
        BY <1>0, <2>1, <3>2, <4>1, <4>7 DEF StepMailedOnce
    <3> QED
      BY <3>5, <3>6
  <2> QED
    BY <1>0, <2>3, <2>4, MessagesMove
<1>3. ~ \E k \in Leads : clearForSend(v, k)
  <2> SUFFICES ASSUME NEW k \in Leads, clearForSend(v, k) PROVE FALSE
    OBVIOUS
  <2>1. worker'[v] = [Idle EXCEPT !.op = "cleared", !.lead = k, !.rec = lead[k].rec, !.n = lead[k].step]
    BY Becomes DEF clearForSend
  <2> QED
    BY <2>1 DEF Idle
<1> QED
  BY <1>1, <1>2, <1>3, WhoClearsOrEnrols

LEMMA InitHasNoHistory ==
  ASSUME Init
  PROVE  HistoryInv /\ \A r \in Records : stepsOf(r) = {}
<1>1. \A r \in Records : stepsOf(r) = {} /\ record[r].status = St("UNUSED")
  BY DEF Init, stepsOf, enrolledIn, NoRecord
<1>2. HistoryMatchesStatus
  <2>1. \A n \in 0..FinalStep : n \in Int
    OBVIOUS
  <2>2. \A n \in Steps : n \in Int
    BY DEF Steps
  <2> QED
    BY <1>1, <2>1, <2>2, StatusesAreUsed DEF HistoryMatchesStatus, Status
<1>3. EnrolsNext /\ EnrolledWhereMeant
  BY DEF Init, EnrolsNext, Idle, EnrolledWhereMeant, enrolledIn
<1> QED
  BY <1>1, <1>2, <1>3 DEF HistoryInv

(* The history of a record leads to its status, and no e-mail is enrolled out
   of its turn, whatever has become of the record since the bridge read it,
   unless an operator moved the record by hand. *)
THEOREM HistoryInvariant == Spec => []HistoryInv
<1>1. Init => HistoryInv
  BY InitHasNoHistory
<1>2. TypeOK /\ OutreachInv /\ HistoryInv /\ [Next]_vars => HistoryInv'
  BY HistoryKeepsMatching, EnrolmentsStayNext, EnrolmentsStayMeant DEF HistoryInv
<1> QED
  BY <1>1, <1>2, OutreachInvariant, PTL DEF Spec

(* The records agree with each other and with what was mailed. *)
THEOREM RecordsDoAgree == Spec => []RecordsAgree
<1>1. TypeOK /\ OutreachInv /\ HistoryInv => RecordsAgree
  BY DEF OutreachInv, HistoryInv, RecordsAgree
<1> QED
  BY <1>1, OutreachInvariant, HistoryInvariant, PTL

(***************************************************************************)
(* The outreach engine implements StepSequence                             *)
(***************************************************************************)
(* Every behaviour of the records is one of the sequence a contact should
   see: e-mail 0, then the follow-ups one at a time and in order, until an
   operator takes the record over; and no step twice. *)
THEOREM ImplementsStepSequence == Spec => SequenceSpec
<1> DEFINE history == [r \in Records |-> stepsOf(r)]
           taken == {r \in Records : "byHand" \in past[r]}
<1>1. Init => Sequence!Init
  BY InitHasNoHistory DEF Sequence!Init, Init
<1>2. TypeOK /\ OutreachInv /\ HistoryInv /\ [Next]_vars => [Sequence!Next]_<<history, taken>>
  <2> SUFFICES ASSUME TypeOK, OutreachInv, HistoryInv, [Next]_vars
               PROVE  [Sequence!Next]_<<history, taken>>
    OBVIOUS
  <2>0. /\ SessionsAreSound /\ EnrolledInOwnRecord /\ EnrolsNext /\ EnrolledWhereMeant /\ MailsPersist
        /\ past \in [Records -> SUBSET Past]
    BY MailsStay DEF OutreachInv, HistoryInv, TypeOK
  <2>1. CASE NothingEnrolled
    <3>1. history' = history
      <4>1. \A r \in Records : stepsOf(r)' = stepsOf(r)
        BY <2>0, <2>1, HistoryStays
      <4> QED
        BY <4>1
    <3>2. taken' = taken \/ \E r \in Records : taken' = taken \cup {r}
      <4>1. CASE UNCHANGED past
        BY <4>1
      <4>2. ASSUME NEW r \in Records, NEW kinds \in SUBSET Past, past' = [past EXCEPT ![r] = @ \cup kinds]
            PROVE  taken' = taken \/ taken' = taken \cup {r}
        <5>1. past'[r] = past[r] \cup kinds /\ \A q \in Records \ {r} : past'[q] = past[q]
          BY <2>0, <4>2
        <5> QED
          BY <5>1
      <4> QED
        BY <2>0, <4>1, <4>2, PastMoves
    <3> QED
      BY <3>1, <3>2 DEF Sequence!Next, Sequence!TakeOver
  <2>2. ASSUME NEW w \in Workers, EnrolledNow(w) PROVE Sequence!Next
    <3>1. PICK l \in Leads, q \in Records : \E i \in DOMAIN mailed[l] : EnrolmentOf(w, l, q, i)
      BY <2>0, <2>2, EnrolmentFacts
    <3>2. PICK i \in DOMAIN mailed[l] : EnrolmentOf(w, l, q, i)
      BY <3>1
    <3>3. PICK n \in 0..FinalStep : n = mailed[l][i].step
      BY MailTypes
    <3>4. /\ n \notin stepsOf(q) /\ ("byHand" \notin past[q] => stepsOf(q) = 0..(n - 1))
          /\ stepsOf(q)' = stepsOf(q) \cup {n}
          /\ \A r \in Records \ {q} : stepsOf(r)' = stepsOf(r)
          /\ past' = [past EXCEPT ![q] = @ \cup reopening(q, Sent(n))]
      BY <3>2, <3>3 DEF EnrolmentOf
    <3>5. history' = [history EXCEPT ![q] = @ \cup {n}] /\ n \notin history[q]
      BY <3>4
    <3>6. q \notin taken => history[q] = 0..(n - 1)
      BY <3>4
    <3>7. taken' = taken
      <4>1. past'[q] = past[q] \cup reopening(q, Sent(n)) /\ \A r \in Records \ {q} : past'[r] = past[r]
        BY <2>0, <3>4
      <4>2. "byHand" \notin reopening(q, Sent(n))
        BY DEF reopening
      <4> QED
        BY <4>1, <4>2
    <3> QED
      BY <3>5, <3>6, <3>7 DEF Sequence!Next, Sequence!EnrolNext
  <2> QED
    BY <2>0, <2>1, <2>2, MessagesMove
<1> QED
  BY <1>1, <1>2, OutreachInvariant, HistoryInvariant, PTL DEF Spec, SequenceSpec, Sequence!Spec

=============================================================================
