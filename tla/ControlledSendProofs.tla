------------------------- MODULE ControlledSendProofs -------------------------
(***************************************************************************)
(* Theorems about ControlledSend, for any number of leads, schedules,      *)
(* attempts, senders and operators and any caps and time limits.           *)
(***************************************************************************)
EXTENDS ControlledSend, FiniteSetTheorems, TLAPS

(* Updating a function at a point that may lie outside its domain. *)
LEMMA UpdateKeepsRange ==
  ASSUME NEW S, NEW T, NEW f \in [S -> T], NEW x, NEW e, x \in S => e \in T
  PROVE  [f EXCEPT ![x] = e] \in [S -> T]
OBVIOUS

(* What an update of the status column leaves behind. *)
LEMMA RowStatusTypes ==
  ASSUME TypeOK
  PROVE  /\ \A s \in Schedules, st \in ScheduleStatus : [sched[s] EXCEPT !.status = st] \in Schedule
         /\ \A a \in Attempts, st \in AttemptStatus : [att[a] EXCEPT !.status = st] \in Attempt
         /\ \A a \in Attempts, st \in AttemptStatus : completeAttempt(a, st) \in Attempt
<1>1. \A s \in Schedules, st \in ScheduleStatus : [sched[s] EXCEPT !.status = st] \in Schedule
  BY DEF TypeOK, Schedule
<1>2. \A a \in Attempts, st \in AttemptStatus : [att[a] EXCEPT !.status = st] \in Attempt
  BY DEF TypeOK, Attempt
<1>3. \A a \in Attempts, st \in AttemptStatus : completeAttempt(a, st) \in Attempt
  BY DEF TypeOK, completeAttempt, Attempt
<1> QED
  BY <1>1, <1>2, <1>3

(* Every sender step keeps the types of the rows and of the local states. *)
LEMMA SenderStepTypes ==
  ASSUME TypeOK, NEW p \in Senders, SenderStep(p)
  PROVE  TypeOK'
<1> USE ConstantsAssumption
<1> USE DEF TypeOK
<1>0. sender[p] \in Sender
  OBVIOUS
<1>1. CASE \E l \in Leads : Load(p, l)
  <2>1. PICK l \in Leads, s \in Schedules :
          sender' = [sender EXCEPT ![p].pc = "loaded", ![p].lead = l, ![p].sched = s,
                                   ![p].leadStatus = leadStatus[l], ![p].recipient = contact[l]]
    BY <1>1 DEF Load, activeForLead
  <2>2. leadStatus[l] \in LeadStatus /\ contact[l] \in Recipients
    OBVIOUS
  <2>3. sender' \in [Senders -> Sender]
    BY <2>1, <2>2, <1>0 DEF Sender, SenderPC
  <2> QED
    BY <1>1, <2>3 DEF Load, database
<1>2. CASE PreflightCheck(p)
  <2>1. currentReadiness(p).id \in Nat
    BY DEF currentReadiness, Readiness, Sources
  <2> QED
    BY <1>2, <2>1, <1>0 DEF PreflightCheck, database, Sender, SenderPC
<1>3. CASE PreflightReady(p)
  BY <1>3, <1>0 DEF PreflightReady, database, Sender, SenderPC
<1>4. CASE Confirm(p)
  BY <1>4, <1>0 DEF Confirm, database, Sender, SenderPC
<1>. IdleSender \in Sender
  BY DEF IdleSender, Sender, SenderPC, LeadStatus
<1>5. CASE Abandon(p)
  BY <1>5, <1>0 DEF Abandon, Finish, database
<1>6. CASE SendCheck(p)
  <2>1. currentReadiness(p).approvedAt \in Nat
    BY DEF currentReadiness, Readiness, Sources
  <2> QED
    <3>1. \/ sender' = [sender EXCEPT ![p] = IdleSender]
          \/ \E pc \in {"invalidate", "manual"} : sender' = [sender EXCEPT ![p].pc = pc]
          \/ sender' = [sender EXCEPT ![p].pc = "verify",
                                      ![p].readyAt = currentReadiness(p).approvedAt]
      BY <1>6 DEF SendCheck, GoTo, Finish
    <3>2. sender' \in [Senders -> Sender]
      BY <3>1, <2>1, <1>0 DEF Sender, SenderPC
    <3> QED
      BY <1>6, <3>2 DEF SendCheck, database
<1>7. CASE routeInvalidate(p)
  <2>1. sched' \in [Schedules -> Schedule]
    BY <1>7, RowStatusTypes, UpdateKeepsRange DEF routeInvalidate, ScheduleStatus
  <2> QED
    BY <1>7, <2>1, <1>0 DEF routeInvalidate, Finish, MoveLead, LeadStatus
<1>8. CASE routeManual(p)
  BY <1>8, <1>0 DEF routeManual, Finish, MoveLead, LeadStatus
<1>9. CASE VerifyProvider(p)
  BY <1>9, <1>0 DEF VerifyProvider, GoTo, database, Sender, SenderPC
<1>10. CASE SuppressionRecheck(p)
  BY <1>10, <1>0 DEF SuppressionRecheck, Finish, database, Sender, SenderPC
<1>11. CASE reserveAttempt(p)
  <2>1. reservation(sender[p]) \in Attempt
    BY <1>0 DEF reservation, Attempt, AttemptStatus, Outcomes, Sender
  <2> QED
    <3>1. PICK a \in Attempts :
            /\ att' = [att EXCEPT ![a] = reservation(sender[p])]
            /\ sender' = [sender EXCEPT ![p].pc = "reserved", ![p].att = a]
      BY <1>11 DEF reserveAttempt
    <3>2. sender' \in [Senders -> Sender]
      BY <3>1, <1>0 DEF Sender, SenderPC
    <3>3. att' \in [Attempts -> Attempt]
      BY <3>1, <2>1
    <3> QED
      BY <1>11, <3>2, <3>3 DEF reserveAttempt
<1>12. CASE ReservationRefused(p)
  BY <1>12, <1>0 DEF ReservationRefused, Finish, database
<1>13. CASE StartCall(p)
  <2>1. att' \in [Attempts -> Attempt]
    BY <1>13, RowStatusTypes, UpdateKeepsRange DEF StartCall, AttemptStatus
  <2> QED
    BY <1>13, <2>1, <1>0 DEF StartCall, GoTo, Sender, SenderPC
<1>14. CASE IssueCall(p)
  BY <1>14, <1>0 DEF IssueCall, GoTo, database, Sender, SenderPC, RequestState
<1>15. CASE CompleteConfirmed(p)
  <2>1. sched' \in [Schedules -> Schedule]
    BY <1>15, RowStatusTypes, UpdateKeepsRange DEF CompleteConfirmed, ScheduleStatus
  <2>2. att' \in [Attempts -> Attempt]
    BY <1>15, RowStatusTypes, UpdateKeepsRange DEF CompleteConfirmed, AttemptStatus
  <2> QED
    BY <1>15, <2>1, <2>2, <1>0 DEF CompleteConfirmed, Finish, MoveLead, LeadStatus
<1>16. CASE finishUnknown(p)
  BY <1>16, <1>0, RowStatusTypes DEF finishUnknown, Finish, MoveLead, LeadStatus, AttemptStatus
<1>17. CASE CompleteFailed(p)
  BY <1>17, <1>0, RowStatusTypes DEF CompleteFailed, Finish, AttemptStatus
<1>18. CASE Crash(p)
  BY <1>18, <1>0 DEF Crash, Finish, database
<1> QED
  BY <1>1, <1>2, <1>3, <1>4, <1>5, <1>6, <1>7, <1>8, <1>9, <1>10, <1>11, <1>12,
     <1>13, <1>14, <1>15, <1>16, <1>17, <1>18 DEF SenderStep

(* So do the scheduling commands. *)
LEMMA OperatorStepTypes ==
  ASSUME TypeOK, NEW o \in Operators, OperatorStep(o)
  PROVE  TypeOK'
<1> USE ConstantsAssumption
<1> USE DEF TypeOK
<1>0. op[o] \in Operator
  OBVIOUS
<1>. IdleOperator \in Operator
  BY DEF IdleOperator, Operator
<1>1. ASSUME NEW l \in Leads, NEW task \in {"schedule", "timezone", "reschedule", "cancel"},
             NEW s \in Schedules \cup {Nobody}, NEW at \in Nat, ReadActive(o, l, task, s, at)
      PROVE  TypeOK'
  BY <1>1 DEF ReadActive, Operator, database
<1>2. CASE \E l \in Leads : ScheduleRead(o, l)
  BY <1>1, <1>2 DEF ScheduleRead
<1>3. CASE \E l \in Leads : TimezoneRead(o, l)
  BY <1>1, <1>3 DEF TimezoneRead
<1>4. CASE \E l \in Leads : RescheduleRead(o, l)
  BY <1>1, <1>4 DEF RescheduleRead, activeForLead
<1>5. CASE \E l \in Leads : CancelRead(o, l)
  BY <1>1, <1>5 DEF CancelRead, activeForLead
<1>6. buildRecord(op[o]) \in Schedule
  BY <1>0 DEF buildRecord, Operator, Schedule, ScheduleStatus
<1>7. CASE ScheduleWrite(o)
  <2>1. sched' \in [Schedules -> Schedule]
    BY <1>7, <1>6 DEF ScheduleWrite
  <2>2. leadStatus' \in [Leads -> LeadStatus]
    BY <1>7 DEF ScheduleWrite, MoveLead, LeadStatus
  <2> QED
    BY <1>7, <2>1, <2>2 DEF ScheduleWrite, OperatorDone
<1>8. CASE TimezoneWrite(o)
  BY <1>8, <1>0 DEF TimezoneWrite, OperatorDone, MoveLead, LeadStatus
<1>9. CASE RescheduleWrite(o)
  <2>1. PICK s \in Schedules :
          sched' = [sched EXCEPT ![op[o].sched].status = "SUPERSEDED", ![s] = buildRecord(op[o])]
    BY <1>9 DEF RescheduleWrite
  <2>2. [sched EXCEPT ![op[o].sched].status = "SUPERSEDED"] \in [Schedules -> Schedule]
    BY RowStatusTypes, UpdateKeepsRange DEF ScheduleStatus
  <2>3. sched' \in [Schedules -> Schedule]
    BY <2>1, <2>2, <1>6
  <2> QED
    BY <1>9, <2>3 DEF RescheduleWrite, OperatorDone
<1>10. CASE CancelWrite(o)
  <2>1. sched' \in [Schedules -> Schedule]
    BY <1>10, RowStatusTypes, UpdateKeepsRange DEF CancelWrite, ScheduleStatus
  <2> QED
    BY <1>10, <2>1 DEF CancelWrite, OperatorDone, MoveLead, LeadStatus
<1>11. CASE OperatorFails(o)
  BY <1>11 DEF OperatorFails, OperatorDone, database
<1> QED
  BY <1>2, <1>3, <1>4, <1>5, <1>7, <1>8, <1>9, <1>10, <1>11 DEF OperatorStep

(* And administration, the provider and the clock. *)
LEMMA OtherStepTypes ==
  ASSUME TypeOK, AdminStep \/ GmailStep \/ Tick
  PROVE  TypeOK'
<1> USE ConstantsAssumption
<1> USE DEF TypeOK
<1>1. ASSUME NEW src \in Sources, CreateReadiness(src) PROVE TypeOK'
  BY <1>1 DEF CreateReadiness, Readiness
<1>2. ASSUME NEW src \in Sources, RevokeReadiness(src) PROVE TypeOK'
  BY <1>2 DEF RevokeReadiness, Readiness
<1>3. ASSUME NEW a \in Attempts, recoverStarted(a) PROVE TypeOK'
  BY <1>3, RowStatusTypes DEF recoverStarted, MoveLead, LeadStatus, AttemptStatus
<1>a. \A a \in Attempts, oc \in Outcomes :
       [att EXCEPT ![a].reconciled = oc, ![a].effectiveAt = now] \in [Attempts -> Attempt]
  BY DEF Attempt
<1>4. ASSUME NEW a \in Attempts, reconcileSent(a) PROVE TypeOK'
  <2>1. sched' \in [Schedules -> Schedule]
    BY <1>4, RowStatusTypes, UpdateKeepsRange DEF reconcileSent, ScheduleStatus
  <2> QED
    BY <1>4, <1>a, <2>1 DEF reconcileSent, reconciledAs, Outcomes, LeadStatus
<1>5. ASSUME NEW a \in Attempts, reconcileNotSent(a) PROVE TypeOK'
  BY <1>5, <1>a DEF reconcileNotSent, reconciledAs, Outcomes, LeadStatus
<1>6. ASSUME NEW v \in Suppressible, Suppress(v) \/ Unsuppress(v) PROVE TypeOK'
  BY <1>6 DEF Suppress, Unsuppress
<1>7. ASSUME NEW l \in Leads, NEW r \in Recipients, SetContactEmail(l, r) PROVE TypeOK'
  BY <1>7 DEF SetContactEmail
<1>8. CASE AdminStep
  BY <1>1, <1>2, <1>3, <1>4, <1>5, <1>6, <1>7, <1>8 DEF AdminStep
<1>9. CASE GmailStep
  BY <1>9 DEF GmailStep, Execute, Refuse, RequestState
<1>10. CASE Tick
  BY <1>10 DEF Tick, database
<1> QED
  BY <1>8, <1>9, <1>10

(* The rows and local states are well formed in every reachable state, for
   every instance of the constants: no unconditional update, however stale
   the id it was given, writes a value outside a column's vocabulary. *)
THEOREM TypeCorrect == Spec => []TypeOK
<1>1. Init => TypeOK
  BY ConstantsAssumption
     DEF Init, TypeOK, LeadStatus, Schedule, ScheduleStatus, UnusedSchedule, Attempt,
         AttemptStatus, Outcomes, UnusedAttempt, Readiness, NoReadiness, Sender, SenderPC,
         IdleSender, Operator, IdleOperator, RequestState, Suppressible
<1>2. TypeOK /\ [Next]_vars => TypeOK'
  <2> SUFFICES ASSUME TypeOK, [Next]_vars PROVE TypeOK'
    OBVIOUS
  <2>1. CASE UNCHANGED vars
    BY <2>1 DEF vars, TypeOK
  <2>2. CASE Next
    BY <2>2, SenderStepTypes, OperatorStepTypes, OtherStepTypes DEF Next
  <2> QED
    BY <2>1, <2>2
<1> QED
  BY <1>1, <1>2, PTL DEF Spec

(***************************************************************************)
(* The inductive invariant behind the at-most-once guarantee               *)
(***************************************************************************)
(* A step of a sender that neither takes nor gives up an attempt, or that
   ends one without touching its row (a crash), keeps SendInv. *)
LEMMA QuietSender ==
  ASSUME TypeOK, SendInv, NEW p \in Senders, NEW x,
         sender' = [sender EXCEPT ![p] = x],
         x.pc \notin Holding, x.att = Nobody,
         x.pc # "idle" => x.sched \in Schedules /\ x.lead \in Leads,
         UNCHANGED <<att, request>>
  PROVE  SendInv'
<1>1. sender'[p] = x /\ \A q \in Senders \ {p} : sender'[q] = sender[q]
  BY DEF TypeOK
<1>2. HeldAttempts'
  BY <1>1 DEF SendInv, HeldAttempts, Holding
<1>3. OneHolder'
  BY <1>1 DEF SendInv, OneHolder
<1>4. (EarlyRows /\ DeliveryStaysRecorded /\ OneLiveAttempt)'
  BY DEF SendInv, EarlyRows, DeliveryStaysRecorded, OneLiveAttempt, Live, IsNotSent
<1> QED
  BY <1>2, <1>3, <1>4 DEF SendInv

(* The fields of a row after completeAttempt. *)
LEMMA CompletedRow ==
  ASSUME TypeOK, NEW a \in Attempts, NEW st
  PROVE  /\ completeAttempt(a, st).status = st
         /\ completeAttempt(a, st).sched = att[a].sched
         /\ completeAttempt(a, st).reconciled = att[a].reconciled
BY DEF TypeOK, Attempt, completeAttempt

(* The answer to the call: the sender settles its row and is done. *)
LEMMA HolderSettles ==
  ASSUME TypeOK, SendInv, NEW p \in Senders, sender[p].pc = "waiting",
         NEW st \in {"SENT_CONFIRMED", "OUTCOME_UNKNOWN", "DEFINITIVE_FAILURE"},
         st = "DEFINITIVE_FAILURE" => request[sender[p].att] = "refused",
         att' = [att EXCEPT ![sender[p].att] = completeAttempt(sender[p].att, st)],
         sender' = [sender EXCEPT ![p] = IdleSender],
         UNCHANGED request
  PROVE  SendInv'
<1> DEFINE a == sender[p].att
<1>1. a \in Attempts /\ att[a].status \in {"CALL_STARTED", "OUTCOME_UNKNOWN"}
      /\ att[a].reconciled # "CONFIRMED_NOT_SENT" /\ a # Nobody
  BY DEF TypeOK, SendInv, HeldAttempts, Holding, Sender
<1>2. /\ att'[a].status = st /\ att'[a].sched = att[a].sched
      /\ att'[a].reconciled = att[a].reconciled
      /\ \A b \in Attempts \ {a} : att'[b] = att[b]
  BY <1>1, CompletedRow DEF TypeOK
<1>3. sender'[p] = IdleSender /\ \A q \in Senders \ {p} : sender'[q] = sender[q] /\ sender[q].att # a
  BY <1>1 DEF TypeOK, SendInv, OneHolder
<1>4. HeldAttempts'
  <2> SUFFICES ASSUME NEW q \in Senders PROVE HeldAttempts!(q)'
    BY DEF HeldAttempts
  <2>1. CASE q = p
    BY <2>1, <1>3 DEF IdleSender, Holding
  <2>2. CASE q # p
    <3>1. sender[q].pc \in Holding => sender[q].att \in Attempts \ {a}
      BY <2>2, <1>3 DEF TypeOK, Sender, SendInv, HeldAttempts
    <3> QED
      BY <2>2, <3>1, <1>3, <1>2 DEF SendInv, HeldAttempts, Holding
  <2> QED
    BY <2>1, <2>2
<1>5. OneHolder'
  BY <1>3 DEF SendInv, OneHolder, IdleSender
<1>6. EarlyRows'
  BY <1>1, <1>2 DEF SendInv, EarlyRows
<1>7. DeliveryStaysRecorded'
  BY <1>1, <1>2 DEF SendInv, DeliveryStaysRecorded, IsNotSent
<1>8. OneLiveAttempt'
  <2>1. Live(att[a])
    BY <1>1 DEF Live, IsNotSent
  <2>2. \A b \in Attempts : Live(att'[b]) => Live(att[b]) /\ att'[b].sched = att[b].sched
    BY <2>1, <1>2
  <2> QED
    BY <2>2 DEF SendInv, OneLiveAttempt
<1> QED
  BY <1>4, <1>5, <1>6, <1>7, <1>8 DEF SendInv

(* Of the rows of one schedule the blocking index lets only one be live:
   a live row is one the index counts. *)
LEMMA LiveRowsBlock ==
  ASSUME NEW r, r.status \in AttemptStatus, Live(r)
  PROVE  IsBlocking(r)
BY DEF Live, AttemptStatus, IsBlocking, IsInFlight, IsUnresolved, IsNotSent

(* The reservation: the only step that makes a row live. *)
LEMMA ReserveKeepsSendInv ==
  ASSUME TypeOK, SendInv, NEW p \in Senders, reserveAttempt(p)
  PROVE  SendInv'
<1> DEFINE row == reservation(sender[p])
<1>1. PICK a \in Attempts :
        /\ att[a].status = "UNUSED"
        /\ AttemptIndexesAdmit(a, row)
        /\ att' = [att EXCEPT ![a] = row]
        /\ sender' = [sender EXCEPT ![p].pc = "reserved", ![p].att = a]
  BY DEF reserveAttempt
<1>2. /\ row.status = "RESERVED" /\ row.sched = sender[p].sched /\ row.reconciled = "NONE"
      /\ att'[a] = row /\ \A b \in Attempts \ {a} : att'[b] = att[b]
      /\ request' = request
  BY <1>1 DEF reservation, TypeOK, reserveAttempt
<1>3. /\ sender'[p].pc = "reserved" /\ sender'[p].att = a
      /\ sender'[p].sched = sender[p].sched /\ sender'[p].lead = sender[p].lead
      /\ \A q \in Senders \ {p} : sender'[q] = sender[q]
  BY <1>1 DEF TypeOK, Sender
<1>4. \A q \in Senders : sender[q].pc \in Holding => sender[q].att \in Attempts \ {a}
  BY <1>1 DEF TypeOK, Sender, SendInv, HeldAttempts, Holding
<1>5. request[a] = "none" /\ a # Nobody
  BY <1>1, ConstantsAssumption DEF SendInv, EarlyRows
<1>6. HeldAttempts'
  <2> SUFFICES ASSUME NEW q \in Senders PROVE HeldAttempts!(q)'
    BY DEF HeldAttempts
  <2>1. CASE q = p
    BY <2>1, <1>2, <1>3, <1>5 DEF Holding, SendInv, HeldAttempts, reserveAttempt
  <2>2. CASE q # p
    BY <2>2, <1>2, <1>3, <1>4 DEF SendInv, HeldAttempts, Holding
  <2> QED
    BY <2>1, <2>2
<1>7. OneHolder'
  <2>1. \A q \in Senders \ {p} : sender[q].att # a
    BY <1>4, <1>5 DEF SendInv, HeldAttempts
  <2> QED
    BY <1>3, <2>1 DEF SendInv, OneHolder
<1>8. EarlyRows'
  BY <1>2, <1>5 DEF SendInv, EarlyRows
<1>9. DeliveryStaysRecorded'
  BY <1>2, <1>5 DEF SendInv, DeliveryStaysRecorded, IsNotSent
<1>10. OneLiveAttempt'
  <2>1. IsBlocking(row)
    BY <1>2 DEF IsBlocking, IsInFlight
  <2>2. \A b \in Attempts \ {a} : Live(att[b]) => att[b].sched # row.sched
    <3> SUFFICES ASSUME NEW b \in Attempts \ {a}, Live(att[b]), att[b].sched = row.sched
                 PROVE  FALSE
      OBVIOUS
    <3>1. IsBlocking(att[b])
      BY LiveRowsBlock DEF TypeOK, Attempt
    <3>2. b \in attemptsOf(row.sched) \ {a}
      BY DEF attemptsOf, Live
    <3> QED
      BY <1>1, <2>1, <3>1, <3>2 DEF AttemptIndexesAdmit
  <2> QED
    BY <1>2, <2>2 DEF SendInv, OneLiveAttempt
<1> QED
  BY <1>6, <1>7, <1>8, <1>9, <1>10 DEF SendInv

(* The two steps from the reservation to the wire. *)
LEMMA CallKeepsSendInv ==
  ASSUME TypeOK, SendInv, NEW p \in Senders, StartCall(p) \/ IssueCall(p)
  PROVE  SendInv'
<1> DEFINE a == sender[p].att
<1>1. /\ a \in Attempts /\ a # Nobody /\ request[a] = "none"
      /\ att[a].reconciled # "CONFIRMED_NOT_SENT" /\ att[a].sched = sender[p].sched
      /\ sender[p].pc = "reserved" => att[a].status = "RESERVED"
      /\ sender[p].pc = "call" => att[a].status \in {"CALL_STARTED", "OUTCOME_UNKNOWN"}
  BY DEF TypeOK, Sender, SendInv, HeldAttempts, Holding, StartCall, IssueCall
<1>2. \A q \in Senders \ {p} :
        sender[q].att # a /\ (sender[q].pc \in Holding => sender[q].att \in Attempts \ {a})
  BY <1>1 DEF TypeOK, Sender, SendInv, HeldAttempts, OneHolder
<1>3. ASSUME NEW pc \in {"call", "waiting"}, GoTo(p, pc)
      PROVE  /\ sender'[p].pc = pc /\ sender'[p].att = a
             /\ sender'[p].sched = sender[p].sched /\ sender'[p].lead = sender[p].lead
             /\ \A q \in Senders \ {p} : sender'[q] = sender[q]
  BY <1>3 DEF GoTo, TypeOK, Sender
<1>4. CASE StartCall(p)
  <2>1. /\ att'[a].status = "CALL_STARTED" /\ att'[a].sched = att[a].sched
        /\ att'[a].reconciled = att[a].reconciled
        /\ \A b \in Attempts \ {a} : att'[b] = att[b]
        /\ request' = request /\ sender[p].pc = "reserved" /\ GoTo(p, "call")
    BY <1>4, <1>1 DEF StartCall, TypeOK, Attempt
  <2>2. HeldAttempts'
    <3> SUFFICES ASSUME NEW q \in Senders PROVE HeldAttempts!(q)'
      BY DEF HeldAttempts
    <3>1. CASE q = p
      BY <3>1, <2>1, <1>1, <1>3 DEF Holding, SendInv, HeldAttempts
    <3>2. CASE q # p
      BY <3>2, <2>1, <1>2, <1>3 DEF SendInv, HeldAttempts, Holding
    <3> QED
      BY <3>1, <3>2
  <2>3. OneHolder'
    BY <2>1, <1>2, <1>3 DEF SendInv, OneHolder
  <2>4. EarlyRows' /\ DeliveryStaysRecorded'
    BY <2>1, <1>1 DEF SendInv, EarlyRows, DeliveryStaysRecorded, IsNotSent
  <2>5. OneLiveAttempt'
    BY <2>1, <1>1 DEF SendInv, OneLiveAttempt, Live, IsNotSent
  <2> QED
    BY <2>2, <2>3, <2>4, <2>5 DEF SendInv
<1>5. CASE IssueCall(p)
  <2>1. /\ request'[a] = "pending" /\ \A b \in Attempts \ {a} : request'[b] = request[b]
        /\ att' = att /\ sender[p].pc = "call" /\ GoTo(p, "waiting")
    BY <1>5, <1>1 DEF IssueCall, TypeOK, database
  <2>2. HeldAttempts'
    <3> SUFFICES ASSUME NEW q \in Senders PROVE HeldAttempts!(q)'
      BY DEF HeldAttempts
    <3>1. CASE q = p
      BY <3>1, <2>1, <1>1, <1>3 DEF Holding, SendInv, HeldAttempts
    <3>2. CASE q # p
      BY <3>2, <2>1, <1>2, <1>3 DEF SendInv, HeldAttempts, Holding
    <3> QED
      BY <3>1, <3>2
  <2>3. OneHolder'
    BY <2>1, <1>2, <1>3 DEF SendInv, OneHolder
  <2>4. EarlyRows' /\ DeliveryStaysRecorded'
    BY <2>1, <1>1 DEF SendInv, EarlyRows, DeliveryStaysRecorded, IsNotSent
  <2>5. OneLiveAttempt'
    BY <2>1 DEF SendInv, OneLiveAttempt, Live, IsNotSent
  <2> QED
    BY <2>2, <2>3, <2>4, <2>5 DEF SendInv
<1> QED
  BY <1>4, <1>5

(* The provider's side of a call. *)
LEMMA GmailKeepsSendInv ==
  ASSUME TypeOK, SendInv, NEW a \in Attempts, Execute(a) \/ Refuse(a)
  PROVE  SendInv'
<1>1. /\ request[a] = "pending" /\ request'[a] \in {"executed", "refused"}
      /\ \A b \in Attempts \ {a} : request'[b] = request[b]
      /\ att' = att /\ sender' = sender
  BY DEF Execute, Refuse, TypeOK
<1>2. HeldAttempts'
  <2> SUFFICES ASSUME NEW q \in Senders PROVE HeldAttempts!(q)'
    BY DEF HeldAttempts
  <2>1. sender[q].pc \in Holding =>
          sender[q].att \in Attempts /\ (request'[sender[q].att] # "none" <=> request[sender[q].att] # "none")
    BY <1>1 DEF TypeOK, Sender, SendInv, HeldAttempts
  <2> QED
    BY <1>1, <2>1 DEF SendInv, HeldAttempts
<1>3. OneHolder'
  BY <1>1 DEF SendInv, OneHolder
<1>4. EarlyRows' /\ DeliveryStaysRecorded'
  BY <1>1 DEF SendInv, EarlyRows, DeliveryStaysRecorded, IsNotSent
<1>5. OneLiveAttempt'
  BY <1>1 DEF SendInv, OneLiveAttempt, Live, IsNotSent
<1> QED
  BY <1>2, <1>3, <1>4, <1>5 DEF SendInv

(* Administrative changes of a row whose call was started. *)
LEMMA AdminKeepsSendInv ==
  ASSUME TypeOK, SendInv, NEW a \in Attempts,
         recoverStarted(a) \/ reconcileSent(a) \/ reconcileNotSent(a)
  PROVE  SendInv'
<1>1. /\ \A b \in Attempts \ {a} : att'[b] = att[b]
      /\ att'[a].sched = att[a].sched
      /\ att[a].status \in {"CALL_STARTED", "OUTCOME_UNKNOWN"}
      /\ att'[a].status = "OUTCOME_UNKNOWN"
      /\ request' = request /\ sender' = sender
  <2>1. CASE recoverStarted(a)
    BY <2>1, CompletedRow DEF recoverStarted, TypeOK
  <2>2. CASE reconcileSent(a) \/ reconcileNotSent(a)
    BY <2>2 DEF reconcileSent, reconcileNotSent, reconcilable, reconciledAs, IsUnresolved, TypeOK, Attempt
  <2> QED
    BY <2>1, <2>2
<1>2. att'[a].reconciled # "CONFIRMED_NOT_SENT" \/ cannotDeliver(a)
  <2>1. CASE recoverStarted(a)
    <3>1. att'[a].reconciled = att[a].reconciled /\ att[a].status = "CALL_STARTED"
      BY <2>1, CompletedRow DEF recoverStarted, TypeOK
    <3> QED
      BY <3>1 DEF SendInv, EarlyRows
  <2>2. CASE reconcileSent(a)
    BY <2>2 DEF reconcileSent, reconciledAs, TypeOK, Attempt
  <2>3. CASE reconcileNotSent(a)
    BY <2>3 DEF reconcileNotSent
  <2> QED
    BY <2>1, <2>2, <2>3
<1>3. HeldAttempts'
  <2> SUFFICES ASSUME NEW q \in Senders PROVE HeldAttempts!(q)'
    BY DEF HeldAttempts
  <2>1. CASE sender[q].att = a /\ sender[q].pc \in Holding
    BY <2>1, <1>1, <1>2 DEF SendInv, HeldAttempts, Holding, cannotDeliver
  <2>2. CASE ~ (sender[q].att = a /\ sender[q].pc \in Holding)
    BY <2>2, <1>1 DEF SendInv, HeldAttempts, Holding, TypeOK, Sender
  <2> QED
    BY <2>1, <2>2
<1>4. OneHolder'
  BY <1>1 DEF SendInv, OneHolder
<1>5. EarlyRows'
  BY <1>1 DEF SendInv, EarlyRows
<1>6. DeliveryStaysRecorded'
  BY <1>1, <1>2 DEF SendInv, DeliveryStaysRecorded, IsNotSent, cannotDeliver
<1>7. OneLiveAttempt'
  <2>1. Live(att[a])
    BY <1>1 DEF Live, IsNotSent, SendInv, EarlyRows, recoverStarted, reconcileSent,
                reconcileNotSent, reconcilable
  <2>2. \A b \in Attempts : Live(att'[b]) => Live(att[b]) /\ att'[b].sched = att[b].sched
    BY <1>1, <2>1
  <2> QED
    BY <2>2 DEF SendInv, OneLiveAttempt
<1> QED
  BY <1>3, <1>4, <1>5, <1>6, <1>7 DEF SendInv

(* The sender steps that touch neither attempts nor requests. *)
QuietStep(p) ==
  \/ \E l \in Leads : Load(p, l)
  \/ PreflightCheck(p) \/ PreflightReady(p) \/ Confirm(p) \/ Abandon(p)
  \/ SendCheck(p) \/ routeInvalidate(p) \/ routeManual(p)
  \/ VerifyProvider(p) \/ SuppressionRecheck(p) \/ ReservationRefused(p) \/ Crash(p)

LEMMA QuietStepKeepsSendInv ==
  ASSUME TypeOK, SendInv, NEW p \in Senders, QuietStep(p)
  PROVE  SendInv' /\ UNCHANGED <<att, request>>
<1>0. UNCHANGED <<att, request>>
  BY DEF QuietStep, Load, PreflightCheck, PreflightReady, Confirm, Abandon, SendCheck,
         routeInvalidate, routeManual, VerifyProvider, SuppressionRecheck,
         ReservationRefused, Crash, database
<1>1. sender[p] \in Sender /\ (sender[p].pc \notin Holding => sender[p].att = Nobody)
      /\ (sender[p].pc # "idle" => sender[p].sched \in Schedules /\ sender[p].lead \in Leads)
  BY DEF TypeOK, SendInv, HeldAttempts
<1>2. CASE Finish(p)
  <2>1. IdleSender.pc = "idle" /\ IdleSender.att = Nobody /\ IdleSender.pc \notin Holding
    BY DEF IdleSender, Holding
  <2>2. sender' = [sender EXCEPT ![p] = IdleSender]
    BY <1>2 DEF Finish
  <2> QED
    BY <1>0, <2>1, <2>2, QuietSender
<1>3. ASSUME NEW pc \in SenderPC \ Holding, GoTo(p, pc), sender[p].pc \notin Holding \cup {"idle"}
      PROVE  SendInv'
  <2> DEFINE x == [sender[p] EXCEPT !.pc = pc]
  <2>1. x.pc = pc /\ x.att = Nobody /\ x.sched \in Schedules /\ x.lead \in Leads
    BY <1>1, <1>3 DEF Sender
  <2>2. sender' = [sender EXCEPT ![p] = x]
    BY <1>3 DEF GoTo
  <2> QED
    BY <1>0, <2>1, <2>2, QuietSender
<1>4. CASE \E l \in Leads : Load(p, l)
  <2>1. PICK l \in Leads, s \in Schedules :
          /\ sender[p].pc = "idle"
          /\ sender' = [sender EXCEPT ![p].pc = "loaded", ![p].lead = l, ![p].sched = s,
                                   ![p].leadStatus = leadStatus[l], ![p].recipient = contact[l]]
    BY <1>4 DEF Load, activeForLead
  <2> DEFINE x == [sender[p] EXCEPT !.pc = "loaded", !.lead = l, !.sched = s,
                                    !.leadStatus = leadStatus[l], !.recipient = contact[l]]
  <2>2. x.pc = "loaded" /\ x.att = Nobody /\ x.sched \in Schedules /\ x.lead \in Leads
    BY <1>1, <2>1 DEF Sender, Holding
  <2>3. sender' = [sender EXCEPT ![p] = x]
    BY <2>1 DEF TypeOK
  <2> QED
    BY <1>0, <2>2, <2>3, QuietSender DEF Holding
<1>5. CASE PreflightCheck(p)
  <2> DEFINE x == [sender[p] EXCEPT !.pc = "preflight", !.readiness = currentReadiness(p).id]
  <2>1. x.pc = "preflight" /\ x.att = Nobody /\ x.sched \in Schedules /\ x.lead \in Leads
    BY <1>1, <1>5 DEF Sender, Holding, PreflightCheck
  <2>2. sender' = [sender EXCEPT ![p] = x]
    BY <1>5 DEF PreflightCheck, TypeOK
  <2> QED
    BY <1>0, <2>1, <2>2, QuietSender DEF Holding
<1>6. CASE PreflightReady(p)
  <2> DEFINE x == [sender[p] EXCEPT !.pc = "prompted", !.checkedAt = now]
  <2>1. x.pc = "prompted" /\ x.att = Nobody /\ x.sched \in Schedules /\ x.lead \in Leads
    BY <1>1, <1>6 DEF Sender, Holding, PreflightReady
  <2>2. sender' = [sender EXCEPT ![p] = x]
    BY <1>6 DEF PreflightReady, TypeOK
  <2> QED
    BY <1>0, <2>1, <2>2, QuietSender DEF Holding
<1>7. CASE Confirm(p)
  <2> DEFINE x == [sender[p] EXCEPT !.pc = "confirmed", !.confirmedAt = now]
  <2>1. x.pc = "confirmed" /\ x.att = Nobody /\ x.sched \in Schedules /\ x.lead \in Leads
    BY <1>1, <1>7 DEF Sender, Holding, Confirm
  <2>2. sender' = [sender EXCEPT ![p] = x]
    BY <1>7 DEF Confirm, TypeOK
  <2> QED
    BY <1>0, <2>1, <2>2, QuietSender DEF Holding
<1>8. CASE SendCheck(p)
  <2> DEFINE x == [sender[p] EXCEPT !.pc = "verify", !.readyAt = currentReadiness(p).approvedAt]
  <2>1. sender[p].pc = "confirmed"
    BY <1>8 DEF SendCheck
  <2>2. x.pc = "verify" /\ x.att = Nobody /\ x.sched \in Schedules /\ x.lead \in Leads
    BY <1>1, <2>1 DEF Sender, Holding
  <2>3. Finish(p) \/ GoTo(p, "invalidate") \/ GoTo(p, "manual") \/ sender' = [sender EXCEPT ![p] = x]
    BY <1>8 DEF SendCheck, TypeOK
  <2>4. CASE sender' = [sender EXCEPT ![p] = x]
    BY <1>0, <2>2, <2>4, QuietSender DEF Holding
  <2> QED
    BY <1>0, <1>2, <1>3, <2>1, <2>3, <2>4 DEF SenderPC, Holding
<1>9. CASE VerifyProvider(p)
  BY <1>0, <1>3, <1>9 DEF VerifyProvider, SenderPC, Holding
<1>10. CASE SuppressionRecheck(p)
  <2> DEFINE x == [sender[p] EXCEPT !.pc = "reserve", !.reservedAt = now]
  <2>1. x.pc = "reserve" /\ x.att = Nobody /\ x.sched \in Schedules /\ x.lead \in Leads
    BY <1>1, <1>10 DEF Sender, Holding, SuppressionRecheck
  <2>2. Finish(p) \/ sender' = [sender EXCEPT ![p] = x]
    BY <1>10 DEF SuppressionRecheck, TypeOK
  <2>3. CASE sender' = [sender EXCEPT ![p] = x]
    BY <1>0, <2>1, <2>3, QuietSender DEF Holding
  <2> QED
    BY <1>2, <2>2, <2>3
<1> QED
  BY <1>0, <1>2, <1>4, <1>5, <1>6, <1>7, <1>8, <1>9, <1>10
     DEF QuietStep, Abandon, routeInvalidate, routeManual, ReservationRefused, Crash

(* Steps that touch neither the senders nor the attempts nor Gmail. *)
LEMMA FrameKeepsSendInv ==
  ASSUME SendInv, UNCHANGED <<sender, att, request>>
  PROVE  SendInv'
BY DEF SendInv, HeldAttempts, OneHolder, EarlyRows, DeliveryStaysRecorded, OneLiveAttempt,
       Live, IsNotSent

(* What a step can be, as far as attempts and requests are concerned. *)
LEMMA StepKinds ==
  ASSUME TypeOK, Next
  PROVE  \/ \E p \in Senders : QuietStep(p)
         \/ \E p \in Senders : reserveAttempt(p)
         \/ \E p \in Senders : StartCall(p) \/ IssueCall(p)
         \/ \E p \in Senders : CompleteConfirmed(p) \/ finishUnknown(p) \/ CompleteFailed(p)
         \/ \E a \in Attempts : Execute(a) \/ Refuse(a)
         \/ \E a \in Attempts : recoverStarted(a) \/ reconcileSent(a) \/ reconcileNotSent(a)
         \/ UNCHANGED <<sender, att, request>>
<1>1. CASE \E p \in Senders : SenderStep(p)
  BY <1>1 DEF SenderStep, QuietStep
<1>2. CASE \E o \in Operators : OperatorStep(o)
  BY <1>2 DEF OperatorStep, ScheduleRead, TimezoneRead, RescheduleRead, CancelRead, ReadActive,
     ScheduleWrite, TimezoneWrite, RescheduleWrite, CancelWrite, OperatorFails, database
<1>3. CASE AdminStep
  BY <1>3 DEF AdminStep, CreateReadiness, RevokeReadiness, Suppress, Unsuppress, SetContactEmail
<1>4. CASE GmailStep
  BY <1>4 DEF GmailStep
<1>5. CASE Tick
  BY <1>5 DEF Tick, database
<1> QED
  BY <1>1, <1>2, <1>3, <1>4, <1>5 DEF Next

LEMMA SettleKeepsSendInv ==
  ASSUME TypeOK, SendInv, NEW p \in Senders,
         CompleteConfirmed(p) \/ finishUnknown(p) \/ CompleteFailed(p)
  PROVE  SendInv'
<1>1. CASE CompleteConfirmed(p)
  BY <1>1, HolderSettles DEF CompleteConfirmed, Finish
<1>2. CASE finishUnknown(p)
  BY <1>2, HolderSettles DEF finishUnknown, Finish
<1>3. CASE CompleteFailed(p)
  BY <1>3, HolderSettles DEF CompleteFailed, Finish
<1> QED
  BY <1>1, <1>2, <1>3

(* The invariant holds of every behaviour. *)
THEOREM SendInvariant == Spec => []SendInv
<1>1. Init => SendInv
  BY ConstantsAssumption
     DEF Init, SendInv, HeldAttempts, Holding, IdleSender, OneHolder, EarlyRows, UnusedAttempt,
         DeliveryStaysRecorded, OneLiveAttempt, Live
<1>2. TypeOK /\ SendInv /\ [Next]_vars => SendInv'
  <2> SUFFICES ASSUME TypeOK, SendInv, [Next]_vars PROVE SendInv'
    OBVIOUS
  <2>1. CASE UNCHANGED vars
    BY <2>1, FrameKeepsSendInv DEF vars
  <2>2. CASE Next
    BY <2>2, StepKinds, QuietStepKeepsSendInv, ReserveKeepsSendInv, CallKeepsSendInv,
       SettleKeepsSendInv, GmailKeepsSendInv, AdminKeepsSendInv, FrameKeepsSendInv
  <2> QED
    BY <2>1, <2>2
<1> QED
  BY <1>1, <1>2, TypeCorrect, PTL DEF Spec

(* However many senders, operators and crashes there are, Gmail carries out
   at most one drafts.send per schedule. *)
THEOREM AtMostOnce == Spec => []AtMostOneDeliveryPerSchedule
<1>1. TypeOK /\ SendInv => AtMostOneDeliveryPerSchedule
  BY DEF SendInv, DeliveryStaysRecorded, OneLiveAttempt, Live, AtMostOneDeliveryPerSchedule
<1> QED
  BY <1>1, TypeCorrect, SendInvariant, PTL

(* A call that was or may still be delivered is never recorded as not
   sent, so it keeps its schedule blocked. *)
THEOREM DeliveriesRecorded == Spec => []DeliveryStaysRecorded
<1>1. SendInv => DeliveryStaysRecorded
  BY DEF SendInv
<1> QED
  BY <1>1, SendInvariant, PTL

(***************************************************************************)
(* Controlled sending implements SendOnce                                  *)
(***************************************************************************)
claimOf == [a \in Attempts |-> att[a].sched]

(* A step under which one attempt at most changes its stage. *)
LEMMA StageSteps ==
  ASSUME TypeOK, SendInv, Next
  PROVE  \/ /\ attemptStage' = attemptStage /\ claimOf' = claimOf
         \/ \E a \in Attempts :
              /\ attemptStage[a] = "held"
              /\ \/ attemptStage' = [attemptStage EXCEPT ![a] = "released"]
                 \/ attemptStage' = [attemptStage EXCEPT ![a] = "delivered"]
              /\ claimOf' = claimOf
         \/ \E a \in Attempts, s \in Schedules :
              /\ attemptStage[a] = "free"
              /\ ~ \E b \in Attempts : claimOf[b] = s /\ attemptStage[b] \in {"held", "delivered"}
              /\ attemptStage' = [attemptStage EXCEPT ![a] = "held"]
              /\ claimOf' = [claimOf EXCEPT ![a] = s]
<1> DEFINE Same == attemptStage' = attemptStage /\ claimOf' = claimOf
           Ends(a) == /\ attemptStage[a] = "held"
                      /\ \/ attemptStage' = [attemptStage EXCEPT ![a] = "released"]
                         \/ attemptStage' = [attemptStage EXCEPT ![a] = "delivered"]
                      /\ claimOf' = claimOf
<1>1. CASE UNCHANGED <<att, request>>
  BY <1>1 DEF attemptStage, claimOf, IsNotSent
<1>2. ASSUME NEW p \in Senders, reserveAttempt(p)
      PROVE  \E a \in Attempts, s \in Schedules :
              /\ attemptStage[a] = "free"
              /\ ~ \E b \in Attempts : claimOf[b] = s /\ attemptStage[b] \in {"held", "delivered"}
              /\ attemptStage' = [attemptStage EXCEPT ![a] = "held"]
              /\ claimOf' = [claimOf EXCEPT ![a] = s]
  <2> DEFINE row == reservation(sender[p])
             s == sender[p].sched
  <2>1. PICK a \in Attempts :
          /\ att[a].status = "UNUSED"
          /\ AttemptIndexesAdmit(a, row)
          /\ att' = [att EXCEPT ![a] = row]
    BY <1>2 DEF reserveAttempt
  <2>2. /\ row.status = "RESERVED" /\ row.sched = s /\ row.reconciled = "NONE"
        /\ att'[a] = row /\ \A b \in Attempts \ {a} : att'[b] = att[b]
        /\ request' = request /\ request[a] = "none"
        /\ s \in Schedules /\ s # Nobody
    BY <1>2, <2>1, ConstantsAssumption
       DEF reservation, TypeOK, reserveAttempt, SendInv, EarlyRows, HeldAttempts
  <2>3. attemptStage[a] = "free"
    BY <2>1 DEF attemptStage
  <2>4. ASSUME NEW b \in Attempts, claimOf[b] = s, attemptStage[b] \in {"held", "delivered"}
        PROVE  FALSE
    <3>1. Live(att[b]) /\ att[b].sched = s
      BY <2>4 DEF attemptStage, claimOf, Live, SendInv, DeliveryStaysRecorded
    <3>2. b \in attemptsOf(row.sched) \ {a}
      BY <3>1, <2>1, <2>2 DEF attemptsOf, Live
    <3>3. IsBlocking(att[b]) /\ IsBlocking(row)
      BY <3>1, <2>2, LiveRowsBlock DEF TypeOK, Attempt, IsBlocking, IsInFlight
    <3> QED
      BY <2>1, <3>2, <3>3 DEF AttemptIndexesAdmit
  <2>5. attemptStage' = [attemptStage EXCEPT ![a] = "held"]
    BY <2>2 DEF attemptStage, IsNotSent
  <2>6. claimOf' = [claimOf EXCEPT ![a] = s]
    BY <2>2 DEF claimOf
  <2> QED
    BY <2>2, <2>3, <2>4, <2>5, <2>6
<1>3. ASSUME NEW p \in Senders, StartCall(p) \/ IssueCall(p)
      PROVE  Same
  <2> DEFINE a == sender[p].att
  <2>1. /\ a \in Attempts /\ request[a] = "none" /\ att[a].reconciled # "CONFIRMED_NOT_SENT"
        /\ att[a].status \in {"RESERVED", "CALL_STARTED", "OUTCOME_UNKNOWN"}
    BY <1>3 DEF TypeOK, Sender, SendInv, HeldAttempts, Holding, StartCall, IssueCall
  <2>2. /\ att'[a].status \in {"CALL_STARTED", "OUTCOME_UNKNOWN"} /\ att'[a].sched = att[a].sched
        /\ att'[a].reconciled = att[a].reconciled
        /\ request'[a] \in {"none", "pending"}
        /\ \A b \in Attempts \ {a} : att'[b] = att[b] /\ request'[b] = request[b]
    <3>1. CASE StartCall(p)
      BY <3>1, <2>1 DEF StartCall, TypeOK, Attempt
    <3>2. CASE IssueCall(p)
      BY <3>2, <2>1 DEF IssueCall, TypeOK, database, SendInv, HeldAttempts, Holding
    <3> QED
      BY <1>3, <3>1, <3>2
  <2> QED
    BY <2>1, <2>2 DEF attemptStage, claimOf, IsNotSent
<1>4. ASSUME NEW p \in Senders, CompleteConfirmed(p) \/ finishUnknown(p) \/ CompleteFailed(p)
      PROVE  Same \/ \E a \in Attempts : Ends(a)
  <2> DEFINE a == sender[p].att
  <2>1. /\ a \in Attempts /\ request[a] # "none" /\ att[a].reconciled # "CONFIRMED_NOT_SENT"
        /\ att[a].status \in {"CALL_STARTED", "OUTCOME_UNKNOWN"}
    BY <1>4 DEF TypeOK, Sender, SendInv, HeldAttempts, Holding, CompleteConfirmed,
                finishUnknown, CompleteFailed
  <2>2. PICK st \in {"SENT_CONFIRMED", "OUTCOME_UNKNOWN", "DEFINITIVE_FAILURE"} :
          /\ att' = [att EXCEPT ![a] = completeAttempt(a, st)]
          /\ request' = request
          /\ st = "DEFINITIVE_FAILURE" => request[a] = "refused"
    BY <1>4 DEF CompleteConfirmed, finishUnknown, CompleteFailed
  <2>3. /\ att'[a].status = st /\ att'[a].sched = att[a].sched
        /\ att'[a].reconciled = att[a].reconciled
        /\ \A b \in Attempts \ {a} : att'[b] = att[b]
    BY <2>1, <2>2, CompletedRow DEF TypeOK
  <2>4. claimOf' = claimOf
    BY <2>3 DEF claimOf
  <2>5. CASE st = "DEFINITIVE_FAILURE"
    <3>1. attemptStage[a] = "held"
      BY <2>1, <2>2, <2>5 DEF attemptStage, IsNotSent
    <3>2. attemptStage' = [attemptStage EXCEPT ![a] = "released"]
      BY <2>1, <2>2, <2>3, <2>5 DEF attemptStage, IsNotSent
    <3> QED
      BY <2>1, <2>4, <3>1, <3>2
  <2>6. CASE st # "DEFINITIVE_FAILURE"
    BY <2>1, <2>2, <2>3, <2>4, <2>6 DEF attemptStage, IsNotSent
  <2> QED
    BY <2>5, <2>6
<1>5. ASSUME NEW a \in Attempts, Execute(a) \/ Refuse(a)
      PROVE  Same \/ Ends(a)
  <2>1. /\ request[a] = "pending" /\ att' = att
        /\ \A b \in Attempts \ {a} : request'[b] = request[b]
        /\ request'[a] \in {"executed", "refused"}
    BY <1>5 DEF Execute, Refuse, TypeOK
  <2>2. attemptStage[a] = "held" /\ att[a].status # "UNUSED" /\ ~ IsNotSent(att[a])
    BY <2>1 DEF attemptStage, SendInv, DeliveryStaysRecorded
  <2>3. claimOf' = claimOf
    BY <2>1 DEF claimOf
  <2>4. CASE request'[a] = "executed"
    <3>1. attemptStage' = [attemptStage EXCEPT ![a] = "delivered"]
      BY <2>1, <2>2, <2>4 DEF attemptStage, IsNotSent
    <3> QED
      BY <2>2, <2>3, <3>1
  <2>5. CASE request'[a] = "refused"
    BY <2>1, <2>2, <2>3, <2>5 DEF attemptStage, IsNotSent
  <2> QED
    BY <2>1, <2>4, <2>5
<1>6. ASSUME NEW a \in Attempts, recoverStarted(a) \/ reconcileSent(a) \/ reconcileNotSent(a)
      PROVE  Same \/ Ends(a)
  <2>1. /\ \A b \in Attempts \ {a} : att'[b] = att[b]
        /\ request' = request
        /\ att'[a].sched = att[a].sched /\ att'[a].status = "OUTCOME_UNKNOWN"
        /\ att[a].status \in {"CALL_STARTED", "OUTCOME_UNKNOWN"} /\ att[a].reconciled = "NONE"
    <3>1. CASE recoverStarted(a)
      BY <3>1, CompletedRow DEF recoverStarted, TypeOK, SendInv, EarlyRows
    <3>2. CASE reconcileSent(a) \/ reconcileNotSent(a)
      BY <3>2 DEF reconcileSent, reconcileNotSent, reconcilable, reconciledAs, IsUnresolved, TypeOK, Attempt
    <3> QED
      BY <1>6, <3>1, <3>2
  <2>2. claimOf' = claimOf
    BY <2>1 DEF claimOf
  <2>3. CASE att'[a].reconciled # "CONFIRMED_NOT_SENT"
    BY <2>1, <2>2, <2>3 DEF attemptStage, IsNotSent
  <2>4. CASE att'[a].reconciled = "CONFIRMED_NOT_SENT"
    <3>1. request[a] # "executed"
      <4>1. CASE recoverStarted(a)
        BY <4>1, <2>1, <2>4, CompletedRow DEF recoverStarted, TypeOK
      <4>2. CASE reconcileSent(a)
        BY <4>2, <2>4 DEF reconcileSent, reconciledAs, TypeOK, Attempt
      <4>3. CASE reconcileNotSent(a)
        BY <4>3 DEF reconcileNotSent, cannotDeliver
      <4> QED
        BY <1>6, <4>1, <4>2, <4>3
    <3>2. attemptStage[a] = "held"
      BY <2>1, <3>1 DEF attemptStage, IsNotSent
    <3>3. attemptStage' = [attemptStage EXCEPT ![a] = "released"]
      BY <2>1, <2>4, <3>1 DEF attemptStage, IsNotSent
    <3> QED
      BY <2>2, <3>2, <3>3
  <2> QED
    BY <2>3, <2>4
<1>7. CASE \E p \in Senders : QuietStep(p)
  BY <1>1, <1>7, QuietStepKeepsSendInv
<1> QED
  BY <1>1, <1>2, <1>3, <1>4, <1>5, <1>6, <1>7, StepKinds

(* Every behaviour of controlled sending is a behaviour of SendOnce. *)
THEOREM ImplementsSendOnce == Spec => SendsOnce
<1>1. Init => Once!OnceInit
  BY DEF Init, Once!OnceInit, attemptStage, UnusedAttempt
<1>2. TypeOK /\ SendInv /\ [Next]_vars => [Once!OnceNext]_(Once!onceVars)
  <2> SUFFICES ASSUME TypeOK, SendInv, [Next]_vars
               PROVE  [Once!OnceNext]_(Once!onceVars)
    OBVIOUS
  <2>1. CASE UNCHANGED vars
    BY <2>1 DEF vars, Once!onceVars, attemptStage, IsNotSent
  <2>2. CASE Next
    BY <2>2, StageSteps
       DEF claimOf, Once!OnceNext, Once!onceVars, Once!Claim, Once!Claimed, Once!Release, Once!Deliver
  <2> QED
    BY <2>1, <2>2
<1> QED
  BY <1>1, <1>2, TypeCorrect, SendInvariant, PTL DEF Spec, SendsOnce, Once!OnceSpec

(*****************************************************************************)
(* Rows: what a process refers to, to whom a call is addressed, what a     *)
(* lead's status says, what a retry is approved by, and the daily cap.     *)
(*****************************************************************************)

(***************************************************************************)
(* What a step does to each of the tables                                  *)
(***************************************************************************)
(* A schedule row is written once, by an insert; what is written afterwards is
   its status, and only a row that was written. *)
Inserted(s) == \E o \in Operators :
  /\ op[o].task \in {"schedule", "reschedule"}
  /\ sched[s].status = "UNUSED" /\ sched'[s] = buildRecord(op[o])

Marked(s) ==
  /\ sched[s].status # "UNUSED"
  /\ \E st \in ScheduleStatus \ {"UNUSED"} : sched'[s] = [sched[s] EXCEPT !.status = st]

LEMMA ScheduleRowsKept ==
  ASSUME TypeOK, RowsInv, Next, NEW s \in Schedules
  PROVE  sched'[s] = sched[s] \/ Marked(s) \/ Inserted(s)
<1>1. CASE UNCHANGED sched
  BY <1>1
<1>2. ASSUME NEW t \in Schedules, sched[t].status # "UNUSED",
             NEW st \in {"INVALIDATED", "FULFILLED", "CANCELLED"}, sched' = [sched EXCEPT ![t].status = st]
      PROVE  sched'[s] = sched[s] \/ Marked(s)
  BY <1>2 DEF TypeOK, Marked, ScheduleStatus
<1>3. ASSUME NEW p \in Senders, routeInvalidate(p) \/ CompleteConfirmed(p)
      PROVE  sched'[s] = sched[s] \/ Marked(s)
  <2>1. sender[p].sched \in Schedules /\ sched[sender[p].sched].status # "UNUSED"
    BY <1>3 DEF routeInvalidate, CompleteConfirmed, RowsInv, BoundSenders, IsWritten
  <2> QED
    BY <1>2, <1>3, <2>1 DEF routeInvalidate, CompleteConfirmed
<1>4. ASSUME NEW a \in Attempts, reconcileSent(a)
      PROVE  sched'[s] = sched[s] \/ Marked(s)
  <2>1. att[a].sched \in Schedules /\ sched[att[a].sched].status # "UNUSED"
    BY <1>4 DEF reconcileSent, reconcilable, IsUnresolved, RowsInv, BoundAttempts, IsWritten
  <2> QED
    BY <1>2, <1>4, <2>1 DEF reconcileSent
<1>5. ASSUME NEW o \in Operators, CancelWrite(o)
      PROVE  sched'[s] = sched[s] \/ Marked(s)
  <2>1. op[o].sched \in Schedules /\ sched[op[o].sched].status # "UNUSED"
    BY <1>5 DEF CancelWrite, RowsInv, BoundOperators, IsWritten
  <2> QED
    BY <1>2, <1>5, <2>1 DEF CancelWrite
<1>6. CASE \E o \in Operators : ScheduleWrite(o)
  BY <1>6 DEF ScheduleWrite, TypeOK, Inserted
<1>7. ASSUME NEW o \in Operators, RescheduleWrite(o)
      PROVE  sched'[s] = sched[s] \/ Marked(s) \/ Inserted(s)
  <2>1. PICK t \in Schedules :
          /\ sched[t].status = "UNUSED"
          /\ sched' = [sched EXCEPT ![op[o].sched].status = "SUPERSEDED", ![t] = buildRecord(op[o])]
    BY <1>7 DEF RescheduleWrite
  <2>2. op[o].sched \in Schedules /\ sched[op[o].sched].status # "UNUSED"
    BY <1>7 DEF RescheduleWrite, RowsInv, BoundOperators, IsWritten
  <2>3. CASE s = t
    BY <1>7, <2>1, <2>2, <2>3 DEF Inserted, RescheduleWrite, TypeOK
  <2>4. CASE s # t
    BY <2>1, <2>2, <2>4 DEF TypeOK, ScheduleStatus, Marked
  <2> QED
    BY <2>3, <2>4
<1>8. ASSUME NEW p \in Senders, SenderStep(p), ~ routeInvalidate(p), ~ CompleteConfirmed(p)
      PROVE  UNCHANGED sched
  BY <1>8 DEF SenderStep, Load, PreflightCheck, PreflightReady, Confirm, Abandon, SendCheck, routeManual,
     VerifyProvider, SuppressionRecheck, reserveAttempt, ReservationRefused, StartCall, IssueCall,
     finishUnknown, CompleteFailed, Crash, database
<1>9. ASSUME NEW o \in Operators, OperatorStep(o), ~ ScheduleWrite(o), ~ RescheduleWrite(o), ~ CancelWrite(o)
      PROVE  UNCHANGED sched
  BY <1>9 DEF OperatorStep, ScheduleRead, TimezoneRead, RescheduleRead, CancelRead, ReadActive,
     TimezoneWrite, OperatorFails, database
<1>10. ASSUME AdminStep \/ GmailStep \/ Tick, ~ \E a \in Attempts : reconcileSent(a)
       PROVE  UNCHANGED sched
  BY <1>10 DEF AdminStep, GmailStep, Tick, CreateReadiness, RevokeReadiness, recoverStarted, reconcileNotSent,
     Suppress, Unsuppress, SetContactEmail, Execute, Refuse, database
<1> QED
  BY <1>1, <1>3, <1>4, <1>5, <1>6, <1>7, <1>8, <1>9, <1>10 DEF Next

WrittenAfter(s) == s \in Schedules /\ sched'[s].status # "UNUSED" /\ sched'[s].lead \in Leads

(* A written row stays written, for the same lead and the same address. *)
LEMMA WrittenStays ==
  ASSUME TypeOK, RowsInv, Next, NEW s, IsWritten(s)
  PROVE  WrittenAfter(s) /\ sched'[s].lead = sched[s].lead /\ sched'[s].recipient = sched[s].recipient
BY ScheduleRowsKept DEF IsWritten, WrittenAfter, Inserted, Marked, TypeOK, Schedule

(* What a step makes of a sender.  Only a passed check lets it into the stages that
   lead to the call, and from there on it keeps what it works with. *)
Passes(p) ==
  /\ sender[p].pc = "confirmed"
  /\ checkSendEligibility(sender[p], currentReadiness(p))
  /\ sender' = [sender EXCEPT ![p].pc = "verify", ![p].readyAt = currentReadiness(p).approvedAt]

Advances(p) ==
  /\ sender[p].pc # "idle" /\ sender'[p].pc # "idle"
  /\ sender'[p].sched = sender[p].sched /\ sender'[p].lead = sender[p].lead
  /\ sender'[p].confirmedAt \in {sender[p].confirmedAt, now}
  /\ sender'[p].reservedAt \in {sender[p].reservedAt, now}
  /\ sender'[p].pc \in Checked =>
       /\ sender[p].pc \in Checked
       /\ sender'[p].readyAt = sender[p].readyAt /\ sender'[p].confirmedAt = sender[p].confirmedAt
  /\ sender'[p].pc \in {"verify", "recheck", "reserve"} => sender[p].pc \in {"verify", "recheck"}

LEMMA SenderMoves ==
  ASSUME TypeOK, Next, NEW q \in Senders
  PROVE  \/ sender'[q] = sender[q]
         \/ sender'[q] = IdleSender
         \/ \E l \in Leads : Load(q, l)
         \/ Passes(q)
         \/ Advances(q)
<1> USE DEF TypeOK
<1> DEFINE Goal == \/ sender'[q] = sender[q] \/ sender'[q] = IdleSender
                   \/ \E l \in Leads : Load(q, l)
                   \/ Passes(q) \/ Advances(q)
<1>0. sender[q] \in Sender
  OBVIOUS
<1>1. CASE UNCHANGED sender
  BY <1>1
<1>2. ASSUME NEW p \in Senders, Finish(p) PROVE Goal
  BY <1>2 DEF Finish
<1>3. ASSUME NEW p \in Senders, SenderStep(p) PROVE Goal
  <2>1. CASE p # q
    BY <1>3, <2>1 DEF SenderStep, Load, PreflightCheck, PreflightReady, Confirm, Abandon, SendCheck, routeManual,
       routeInvalidate, VerifyProvider, SuppressionRecheck, reserveAttempt, ReservationRefused, StartCall,
       IssueCall, CompleteConfirmed, finishUnknown, CompleteFailed, Crash, GoTo, Finish
  <2>2. CASE p = q
    <3>1. ASSUME NEW pc \in SenderPC, GoTo(q, pc), sender[q].pc # "idle", pc # "idle",
                 pc \in Checked => sender[q].pc \in Checked,
                 pc \in {"verify", "recheck", "reserve"} => sender[q].pc \in {"verify", "recheck"}
          PROVE  Advances(q)
      BY <3>1, <1>0 DEF GoTo, Advances, Sender
    <3>2. CASE \E l \in Leads : Load(q, l)
      BY <3>2
    <3>3. CASE Finish(q)
      BY <3>3, <1>2
    <3>4. CASE PreflightCheck(q) \/ PreflightReady(q) \/ Confirm(q)
      BY <3>4, <1>0 DEF PreflightCheck, PreflightReady, Confirm, Advances, Sender, Checked, Holding
    <3>5. CASE SendCheck(q)
      BY <3>5, <3>1, <1>2 DEF SendCheck, Passes, SenderPC, Checked, Holding
    <3>6. CASE VerifyProvider(q) \/ StartCall(q) \/ IssueCall(q)
      BY <3>6, <3>1 DEF VerifyProvider, StartCall, IssueCall, SenderPC, Checked, Holding
    <3>7. CASE reserveAttempt(q)
      BY <3>7, <1>0 DEF reserveAttempt, Advances, Sender, Checked, Holding
    <3>8. CASE SuppressionRecheck(q)
      BY <3>8, <1>0, <1>2 DEF SuppressionRecheck, Advances, Sender, Checked, Holding
    <3> QED
      BY <1>3, <2>2, <3>2, <3>3, <3>4, <3>5, <3>6, <3>7, <3>8
         DEF SenderStep, Abandon, routeManual, routeInvalidate, ReservationRefused, CompleteConfirmed,
             finishUnknown, CompleteFailed, Crash
  <2> QED
    BY <2>1, <2>2
<1>4. ASSUME (\E o \in Operators : OperatorStep(o)) \/ AdminStep \/ GmailStep \/ Tick
      PROVE  UNCHANGED sender
  BY <1>4 DEF OperatorStep, ScheduleRead, TimezoneRead, RescheduleRead, CancelRead, ReadActive,
     ScheduleWrite, RescheduleWrite, CancelWrite, TimezoneWrite, OperatorFails,
     AdminStep, GmailStep, Tick, CreateReadiness, RevokeReadiness, recoverStarted, reconcileSent,
     reconcileNotSent, Suppress, Unsuppress, SetContactEmail, Execute, Refuse
<1> QED
  BY <1>1, <1>3, <1>4 DEF Next

LEMMA LoadStarts ==
  ASSUME TypeOK, NEW p \in Senders, NEW l \in Leads, Load(p, l)
  PROVE  /\ sender[p].pc = "idle" /\ sender'[p].pc = "loaded"
         /\ sender'[p].confirmedAt = sender[p].confirmedAt
         /\ sender'[p].reservedAt = sender[p].reservedAt
<1>1. PICK s \in activeForLead(l) :
        sender' = [sender EXCEPT ![p].pc = "loaded", ![p].lead = l, ![p].sched = s,
                                 ![p].leadStatus = leadStatus[l], ![p].recipient = contact[l]]
  BY DEF Load
<1> QED
  BY <1>1 DEF Load, TypeOK, Sender

(* What a step makes of an attempt: a new reservation, a new status of a row that is not
   known to have failed, or nothing. *)
Reserved(a) == \E p \in Senders : /\ reserveAttempt(p) /\ sender'[p].att = a
                                  /\ att[a].status = "UNUSED" /\ att'[a] = reservation(sender[p])

Settles(a) ==
  /\ att[a].status \notin {"UNUSED", "SENT_CONFIRMED"} /\ ~ IsNotSent(att[a]) /\ att'[a].status # "UNUSED"
  /\ att'[a].sched = att[a].sched /\ att'[a].reservedAt = att[a].reservedAt
  /\ att'[a].readiness = att[a].readiness
  /\ att'[a].status = "SENT_CONFIRMED" => att[a].status = "SENT_CONFIRMED" \/ request[a] = "executed"
  /\ att'[a].effectiveAt \in {att[a].effectiveAt, now}
  /\ \/ att[a].reconciled = "NONE"
     \/ att'[a].reconciled = att[a].reconciled /\ att'[a].effectiveAt = att[a].effectiveAt
  /\ IsNotSent(att'[a]) =>
       request[a] # "executed" /\ (att'[a].effectiveAt = now \/ att[a].reconciled = "CONFIRMED_SENT")
  /\ att'[a].reconciled = "CONFIRMED_SENT" => att[a].reconciled = "CONFIRMED_SENT" \/ request[a] = "executed"
  /\ att'[a].status = "SENT_CONFIRMED" \/ att'[a].reconciled # "NONE" =>
       att'[a].effectiveAt = now \/ (att[a].reconciled # "NONE" /\ att'[a].effectiveAt = att[a].effectiveAt)

LEMMA AttemptMoves ==
  ASSUME TypeOK, SendInv, Next, NEW a \in Attempts
  PROVE  att'[a] = att[a] \/ Reserved(a) \/ Settles(a)
<1> DEFINE Goal == att'[a] = att[a] \/ Reserved(a) \/ Settles(a)
<1>0. \A b \in Attempts : att[b] \in Attempt
  BY DEF TypeOK
<1>1. CASE UNCHANGED att
  BY <1>1
<1>2. ASSUME NEW p \in Senders, reserveAttempt(p) PROVE Goal
  <2>1. PICK b \in Attempts :
          /\ att[b].status = "UNUSED"
          /\ att' = [att EXCEPT ![b] = reservation(sender[p])]
          /\ sender' = [sender EXCEPT ![p].pc = "reserved", ![p].att = b]
    BY <1>2 DEF reserveAttempt
  <2>2. CASE a = b
    <3>1. att'[a] = reservation(sender[p]) /\ sender'[p].att = a
      BY <2>1, <2>2 DEF TypeOK, Sender
    <3> QED
      BY <1>2, <2>1, <2>2, <3>1 DEF Reserved
  <2>3. CASE a # b
    BY <2>1, <2>3 DEF TypeOK
  <2> QED
    BY <2>2, <2>3
<1>3. ASSUME NEW p \in Senders, StartCall(p) PROVE Goal
  <2>1. /\ att' = [att EXCEPT ![sender[p].att].status = "CALL_STARTED"]
        /\ sender[p].att \in Attempts /\ att[sender[p].att].status = "RESERVED"
        /\ att[sender[p].att].reconciled = "NONE"
    BY <1>3 DEF StartCall, SendInv, HeldAttempts, EarlyRows, Holding, TypeOK, Sender
  <2> QED
    BY <1>0, <2>1 DEF Settles, IsNotSent, TypeOK, Attempt
<1>4. ASSUME NEW b \in Attempts, NEW st \in {"SENT_CONFIRMED", "OUTCOME_UNKNOWN", "DEFINITIVE_FAILURE"},
             att' = [att EXCEPT ![b] = completeAttempt(b, st)],
             att[b].status \in {"CALL_STARTED", "OUTCOME_UNKNOWN"}, att[b].reconciled # "CONFIRMED_NOT_SENT",
             st = "DEFINITIVE_FAILURE" => request[b] = "refused",
             st = "SENT_CONFIRMED" => request[b] = "executed"
      PROVE  Goal
  BY <1>0, <1>4 DEF completeAttempt, Settles, IsNotSent, TypeOK, Attempt, Outcomes
<1>5. ASSUME NEW p \in Senders, CompleteConfirmed(p) \/ finishUnknown(p) \/ CompleteFailed(p) PROVE Goal
  <2>1. /\ sender[p].att \in Attempts /\ att[sender[p].att].reconciled # "CONFIRMED_NOT_SENT"
        /\ att[sender[p].att].status \in {"CALL_STARTED", "OUTCOME_UNKNOWN"}
    BY <1>5 DEF CompleteConfirmed, finishUnknown, CompleteFailed, SendInv, HeldAttempts, Holding, TypeOK, Sender
  <2>2. \E st \in {"SENT_CONFIRMED", "OUTCOME_UNKNOWN", "DEFINITIVE_FAILURE"} :
          /\ att' = [att EXCEPT ![sender[p].att] = completeAttempt(sender[p].att, st)]
          /\ st = "DEFINITIVE_FAILURE" => request[sender[p].att] = "refused"
          /\ st = "SENT_CONFIRMED" => request[sender[p].att] = "executed"
    BY <1>5 DEF CompleteConfirmed, finishUnknown, CompleteFailed
  <2> QED
    BY <2>1, <2>2, <1>4
<1>6. ASSUME NEW b \in Attempts, recoverStarted(b) PROVE Goal
  <2>1. att[b].reconciled = "NONE"
    BY <1>6 DEF recoverStarted, SendInv, EarlyRows
  <2> QED
    BY <1>4, <1>6, <2>1 DEF recoverStarted
<1>7. ASSUME NEW b \in Attempts, reconcileSent(b) \/ reconcileNotSent(b) PROVE Goal
  <2>1. /\ att[b].status = "OUTCOME_UNKNOWN" /\ att[b].reconciled = "NONE"
        /\ \E oc \in {"CONFIRMED_SENT", "CONFIRMED_NOT_SENT"} :
             /\ att' = [att EXCEPT ![b].reconciled = oc, ![b].effectiveAt = now]
             /\ oc = "CONFIRMED_SENT" <=> request[b] = "executed"
    BY <1>7 DEF reconcileSent, reconcileNotSent, reconcilable, reconciledAs, IsUnresolved, cannotDeliver
  <2> QED
    BY <1>0, <2>1 DEF Settles, IsNotSent, TypeOK, Attempt
<1>8. ASSUME NEW p \in Senders, QuietStep(p) \/ IssueCall(p) PROVE UNCHANGED att
  BY <1>8, QuietStepKeepsSendInv DEF IssueCall, database
<1>9. ASSUME NEW b \in Attempts, Execute(b) \/ Refuse(b) PROVE UNCHANGED att
  BY <1>9 DEF Execute, Refuse
<1> QED
  BY <1>1, <1>2, <1>3, <1>5, <1>6, <1>7, <1>8, <1>9, StepKinds

(* What a step makes of an operator. *)
LEMMA OperatorMoves ==
  ASSUME TypeOK, Next, NEW o \in Operators
  PROVE  \/ op'[o] = op[o]
         \/ op'[o] = IdleOperator
         \/ /\ op'[o].lead \in Leads /\ UNCHANGED <<database, now>>
            /\ op'[o].task \in {"reschedule", "cancel"} => op'[o].sched \in activeForLead(op'[o].lead)
<1> DEFINE Goal == \/ op'[o] = op[o]
                   \/ op'[o] = IdleOperator
                   \/ /\ op'[o].lead \in Leads /\ UNCHANGED <<database, now>>
                      /\ op'[o].task \in {"reschedule", "cancel"} => op'[o].sched \in activeForLead(op'[o].lead)
<1>1. CASE UNCHANGED op
  BY <1>1
<1>2. ASSUME NEW q \in Operators, OperatorDone(q) PROVE Goal
  BY <1>2 DEF OperatorDone, TypeOK
<1>3. ASSUME NEW q \in Operators, NEW l \in Leads, NEW task, NEW s, NEW at, ReadActive(q, l, task, s, at),
             task \in {"reschedule", "cancel"} => s \in activeForLead(l)
      PROVE  Goal
  BY <1>3 DEF ReadActive, TypeOK
<1>4. ASSUME NEW q \in Operators, OperatorStep(q) PROVE Goal
  <2>1. CASE \E l \in Leads : ScheduleRead(q, l) \/ TimezoneRead(q, l)
    BY <2>1, <1>3 DEF ScheduleRead, TimezoneRead
  <2>2. CASE \E l \in Leads : RescheduleRead(q, l) \/ CancelRead(q, l)
    BY <2>2, <1>3 DEF RescheduleRead, CancelRead
  <2> QED
    BY <1>2, <1>4, <2>1, <2>2
       DEF OperatorStep, ScheduleWrite, TimezoneWrite, RescheduleWrite, CancelWrite, OperatorFails
<1>5. ASSUME (\E p \in Senders : SenderStep(p)) \/ AdminStep \/ GmailStep \/ Tick
      PROVE  UNCHANGED op
  BY <1>5 DEF SenderStep, Load, PreflightCheck, PreflightReady, Confirm, Abandon, SendCheck, routeManual,
     routeInvalidate, VerifyProvider, SuppressionRecheck, reserveAttempt, ReservationRefused, StartCall,
     IssueCall, CompleteConfirmed, finishUnknown, CompleteFailed, Crash,
     AdminStep, GmailStep, Tick, CreateReadiness, RevokeReadiness, recoverStarted, reconcileSent,
     reconcileNotSent, Suppress, Unsuppress, SetContactEmail, Execute, Refuse
<1> QED
  BY <1>1, <1>4, <1>5 DEF Next

(***************************************************************************)
(* What processes and rows refer to                                        *)
(***************************************************************************)
LEMMA NextKeepsRows ==
  ASSUME TypeOK, SendInv, RowsInv, Next
  PROVE  RowsInv'
<1>1. BoundSenders'
  <2> SUFFICES ASSUME NEW p \in Senders, sender'[p].pc # "idle"
               PROVE  WrittenAfter(sender'[p].sched) /\ sched'[sender'[p].sched].lead = sender'[p].lead
    BY DEF BoundSenders, IsWritten, WrittenAfter
  <2>1. CASE sender'[p] = sender[p]
    BY <2>1, WrittenStays DEF RowsInv, BoundSenders
  <2>2. CASE sender'[p] = IdleSender
    BY <2>2 DEF IdleSender
  <2>3. CASE \E l \in Leads : Load(p, l)
    <3>1. PICK l \in Leads, s \in Schedules :
            /\ s \in activeForLead(l)
            /\ sender' = [sender EXCEPT ![p].pc = "loaded", ![p].lead = l, ![p].sched = s,
                                        ![p].leadStatus = leadStatus[l], ![p].recipient = contact[l]]
            /\ sched' = sched
      BY <2>3 DEF Load, database, activeForLead
    <3>2. sender'[p].sched = s /\ sender'[p].lead = l
      BY <3>1 DEF TypeOK, Sender
    <3> QED
      BY <3>1, <3>2 DEF activeForLead, Active, WrittenAfter
  <2>4. CASE Passes(p) \/ Advances(p)
    <3>1. /\ sender[p].pc # "idle"
          /\ sender'[p].sched = sender[p].sched /\ sender'[p].lead = sender[p].lead
      BY <2>4 DEF Passes, Advances, TypeOK, Sender
    <3> QED
      BY <3>1, WrittenStays DEF RowsInv, BoundSenders
  <2> QED
    BY <2>1, <2>2, <2>3, <2>4, SenderMoves
<1>2. BoundOperators'
  <2> SUFFICES ASSUME NEW o \in Operators PROVE BoundOperators!(o)'
    BY DEF BoundOperators
  <2>1. CASE op'[o] = op[o]
    BY <2>1, WrittenStays DEF RowsInv, BoundOperators, IsWritten, WrittenAfter
  <2>2. CASE op'[o] = IdleOperator
    BY <2>2 DEF IdleOperator
  <2>3. CASE /\ op'[o].lead \in Leads /\ UNCHANGED <<database, now>>
             /\ op'[o].task \in {"reschedule", "cancel"} => op'[o].sched \in activeForLead(op'[o].lead)
    BY <2>3 DEF database, activeForLead, Active, IsWritten
  <2> QED
    BY <2>1, <2>2, <2>3, OperatorMoves
<1>3. BoundAttempts'
  <2> SUFFICES ASSUME NEW a \in Attempts, att'[a].status # "UNUSED" PROVE WrittenAfter(att'[a].sched)
    BY DEF BoundAttempts, IsWritten, WrittenAfter
  <2>1. CASE att'[a] = att[a] \/ Settles(a)
    BY <2>1, WrittenStays DEF Settles, RowsInv, BoundAttempts
  <2>2. CASE Reserved(a)
    <3>1. PICK p \in Senders : sender[p].pc = "reserve" /\ att'[a] = reservation(sender[p])
      BY <2>2 DEF Reserved, reserveAttempt
    <3>2. att'[a].sched = sender[p].sched /\ IsWritten(sender[p].sched)
      BY <3>1 DEF reservation, RowsInv, BoundSenders
    <3> QED
      BY <3>2, WrittenStays
  <2> QED
    BY <2>1, <2>2, AttemptMoves
<1>4. WrittenRows'
  <2> SUFFICES ASSUME NEW s \in Schedules, sched'[s].status # "UNUSED" PROVE sched'[s].lead \in Leads
    BY DEF WrittenRows
  <2>1. CASE Inserted(s)
    <3>1. PICK o \in Operators : op[o].task \in {"schedule", "reschedule"} /\ sched'[s] = buildRecord(op[o])
      BY <2>1 DEF Inserted
    <3> QED
      BY <3>1 DEF RowsInv, BoundOperators, buildRecord
  <2>2. CASE sched[s].status # "UNUSED"
    BY <2>2, WrittenStays DEF RowsInv, WrittenRows, IsWritten, WrittenAfter
  <2>3. CASE sched[s].status = "UNUSED" /\ ~ Inserted(s)
    BY <2>3, ScheduleRowsKept DEF Marked
  <2> QED
    BY <2>1, <2>2, <2>3
<1> QED
  BY <1>1, <1>2, <1>3, <1>4 DEF RowsInv

(* Whoever holds the id of a schedule (a sender, an operator about to write, an attempt)
   holds that of a written row for the lead it works on: rows are never deleted and never
   move to another lead (send_schedules is append-only but for its status). *)
THEOREM RowsInvariant == Spec => []RowsInv
<1>1. Init => RowsInv
  BY DEF Init, RowsInv, BoundSenders, BoundOperators, BoundAttempts, WrittenRows,
         IdleSender, IdleOperator, UnusedAttempt, UnusedSchedule
<1>2. TypeOK /\ SendInv /\ RowsInv /\ [Next]_vars => RowsInv'
  <2> SUFFICES ASSUME TypeOK, SendInv, RowsInv, [Next]_vars PROVE RowsInv'
    OBVIOUS
  <2>1. CASE UNCHANGED vars
    BY <2>1 DEF vars, RowsInv, BoundSenders, BoundOperators, BoundAttempts, WrittenRows, IsWritten
  <2>2. CASE Next
    BY <2>2, NextKeepsRows
  <2> QED
    BY <2>1, <2>2
<1> QED
  BY <1>1, <1>2, TypeCorrect, SendInvariant, PTL DEF Spec

(***************************************************************************)
(* A lead's status tells what happened to its e-mail                       *)
(***************************************************************************)
LEMMA MovedLeads ==
  ASSUME TypeOK, NEW l, NEW from, NEW to \in LeadStatus, MoveLead(l, from, to)
  PROVE  \A k \in Leads : \/ leadStatus'[k] = leadStatus[k] /\ (k = l => leadStatus[k] # from)
                          \/ k = l /\ leadStatus[k] = from /\ leadStatus'[k] = to
BY DEF TypeOK, MoveLead

(* A row that stops waiting takes its own lead out of SCHEDULED. *)
LEMMA RowLeavesLead ==
  ASSUME TypeOK, ScheduledLeadHasActiveSchedule, NEW s, IsWritten(s), NEW st,
         sched' = [sched EXCEPT ![s].status = st],
         \A k \in Leads : leadStatus'[k] = "SCHEDULED" => leadStatus[k] = "SCHEDULED" /\ k # sched[s].lead
  PROVE  ScheduledLeadHasActiveSchedule'
BY DEF TypeOK, Schedule, IsWritten, ScheduledLeadHasActiveSchedule, activeForLead, Active

(* Where the rows stay as they are, a lead becomes SCHEDULED only beside an active one. *)
LEMMA RowsStayForLead ==
  ASSUME ScheduledLeadHasActiveSchedule, UNCHANGED sched,
         \A k \in Leads : leadStatus'[k] = "SCHEDULED" => leadStatus[k] = "SCHEDULED" \/ activeForLead(k) # {}
  PROVE  ScheduledLeadHasActiveSchedule'
BY DEF ScheduledLeadHasActiveSchedule, activeForLead, Active

LEMMA SenderKeepsScheduled ==
  ASSUME TypeOK, SendInv, RowsInv, ScheduledLeadHasActiveSchedule, NEW p \in Senders, SenderStep(p)
  PROVE  ScheduledLeadHasActiveSchedule'
<1> USE DEF LeadStatus
<1>1. CASE routeInvalidate(p) \/ CompleteConfirmed(p)
  <2>1. IsWritten(sender[p].sched) /\ sched[sender[p].sched].lead = sender[p].lead
    BY <1>1 DEF routeInvalidate, CompleteConfirmed, RowsInv, BoundSenders
  <2>2. \E to \in {"NEEDS_MANUAL_REVIEW", "SENT"} : MoveLead(sender[p].lead, "SCHEDULED", to)
    BY <1>1 DEF routeInvalidate, CompleteConfirmed
  <2>3. \E st : sched' = [sched EXCEPT ![sender[p].sched].status = st]
    BY <1>1 DEF routeInvalidate, CompleteConfirmed
  <2>4. \A k \in Leads : leadStatus'[k] = "SCHEDULED" => leadStatus[k] = "SCHEDULED" /\ k # sender[p].lead
    BY <2>2, MovedLeads
  <2> QED
    BY <2>1, <2>3, <2>4, RowLeavesLead
<1>2. CASE routeManual(p) \/ finishUnknown(p)
  <2>1. MoveLead(sender[p].lead, "SCHEDULED", "NEEDS_MANUAL_REVIEW") /\ UNCHANGED sched
    BY <1>2 DEF routeManual, finishUnknown
  <2> QED
    BY <2>1, MovedLeads, RowsStayForLead
<1>3. CASE ~ (routeInvalidate(p) \/ CompleteConfirmed(p) \/ routeManual(p) \/ finishUnknown(p))
  <2>1. UNCHANGED <<leadStatus, sched>>
    BY <1>3 DEF SenderStep, Load, PreflightCheck, PreflightReady, Confirm, Abandon, SendCheck,
       VerifyProvider, SuppressionRecheck, reserveAttempt, ReservationRefused, StartCall, IssueCall,
       CompleteFailed, Crash, database
  <2> QED
    BY <2>1, RowsStayForLead
<1> QED
  BY <1>1, <1>2, <1>3

LEMMA OperatorKeepsScheduled ==
  ASSUME TypeOK, RowsInv, ScheduledLeadHasActiveSchedule, NEW o \in Operators, OperatorStep(o)
  PROVE  ScheduledLeadHasActiveSchedule'
<1> USE DEF LeadStatus
<1>1. CASE CancelWrite(o)
  <2>1. IsWritten(op[o].sched) /\ sched[op[o].sched].lead = op[o].lead
    BY <1>1 DEF CancelWrite, RowsInv, BoundOperators
  <2>2. /\ MoveLead(op[o].lead, "SCHEDULED", "DRAFT_CREATED")
        /\ sched' = [sched EXCEPT ![op[o].sched].status = "CANCELLED"]
    BY <1>1 DEF CancelWrite
  <2>3. \A k \in Leads : leadStatus'[k] = "SCHEDULED" => leadStatus[k] = "SCHEDULED" /\ k # op[o].lead
    BY <2>2, MovedLeads
  <2> QED
    BY <2>1, <2>2, <2>3, RowLeavesLead
<1>2. CASE ScheduleWrite(o)
  <2>1. PICK s \in Schedules :
          sched[s].status = "UNUSED" /\ sched' = [sched EXCEPT ![s] = buildRecord(op[o])]
    BY <1>2 DEF ScheduleWrite
  <2>2. /\ sched'[s].status = "SCHEDULED" /\ sched'[s].lead = op[o].lead
        /\ \A t \in Schedules : t # s => sched'[t] = sched[t]
    BY <2>1 DEF TypeOK, buildRecord
  <2>3. \A k \in Leads : leadStatus'[k] = "SCHEDULED" => leadStatus[k] = "SCHEDULED" \/ k = op[o].lead
    BY <1>2, MovedLeads DEF ScheduleWrite
  <2>4. ASSUME NEW k \in Leads, leadStatus'[k] = "SCHEDULED"
        PROVE  \E t \in Schedules : sched'[t].status = "SCHEDULED" /\ sched'[t].lead = k
    <3>1. CASE k = op[o].lead
      BY <3>1, <2>2
    <3>2. CASE leadStatus[k] = "SCHEDULED"
      BY <3>2, <2>1, <2>2 DEF ScheduledLeadHasActiveSchedule, activeForLead, Active
    <3> QED
      BY <3>1, <3>2, <2>3, <2>4
  <2> QED
    BY <2>4 DEF ScheduledLeadHasActiveSchedule, activeForLead, Active
<1>3. CASE RescheduleWrite(o)
  <2>1. IsWritten(op[o].sched) /\ sched[op[o].sched].lead = op[o].lead /\ UNCHANGED leadStatus
    BY <1>3 DEF RescheduleWrite, RowsInv, BoundOperators
  <2>2. PICK s \in Schedules :
          /\ sched[s].status = "UNUSED"
          /\ sched' = [sched EXCEPT ![op[o].sched].status = "SUPERSEDED", ![s] = buildRecord(op[o])]
    BY <1>3 DEF RescheduleWrite
  <2>3. /\ sched'[s].status = "SCHEDULED" /\ sched'[s].lead = op[o].lead
        /\ \A t \in Schedules \ {s, op[o].sched} : sched'[t] = sched[t]
    BY <2>1, <2>2 DEF TypeOK, buildRecord
  <2>4. ASSUME NEW k \in Leads, leadStatus'[k] = "SCHEDULED"
        PROVE  \E t \in Schedules : sched'[t].status = "SCHEDULED" /\ sched'[t].lead = k
    <3>1. PICK t \in Schedules : sched[t].status = "SCHEDULED" /\ sched[t].lead = k
      BY <2>1, <2>4 DEF ScheduledLeadHasActiveSchedule, activeForLead, Active
    <3>2. CASE t = op[o].sched
      BY <3>1, <3>2, <2>1, <2>3
    <3>3. CASE t # op[o].sched
      BY <3>1, <3>3, <2>2, <2>3
    <3> QED
      BY <3>2, <3>3
  <2> QED
    BY <2>4 DEF ScheduledLeadHasActiveSchedule, activeForLead, Active
<1>4. CASE TimezoneWrite(o)
  <2>1. MoveLead(op[o].lead, "DRAFT_CREATED", "NEEDS_MANUAL_REVIEW") /\ UNCHANGED sched
    BY <1>4 DEF TimezoneWrite
  <2> QED
    BY <2>1, MovedLeads, RowsStayForLead
<1>5. CASE ~ (CancelWrite(o) \/ ScheduleWrite(o) \/ RescheduleWrite(o) \/ TimezoneWrite(o))
  <2>1. UNCHANGED <<leadStatus, sched>>
    BY <1>5 DEF OperatorStep, ScheduleRead, TimezoneRead, RescheduleRead, CancelRead, ReadActive,
       OperatorFails, database
  <2> QED
    BY <2>1, RowsStayForLead
<1> QED
  BY <1>1, <1>2, <1>3, <1>4, <1>5

LEMMA OthersKeepScheduled ==
  ASSUME TypeOK, SendInv, RowsInv, ScheduledLeadHasActiveSchedule, AdminStep \/ GmailStep \/ Tick
  PROVE  ScheduledLeadHasActiveSchedule'
<1> USE DEF LeadStatus
<1>1. ASSUME NEW a \in Attempts, recoverStarted(a)
      PROVE  ScheduledLeadHasActiveSchedule'
  BY <1>1, MovedLeads, RowsStayForLead DEF recoverStarted
<1>2. ASSUME NEW a \in Attempts, reconcileSent(a)
      PROVE  ScheduledLeadHasActiveSchedule'
  <2>1. IsWritten(att[a].sched)
    BY <1>2 DEF reconcileSent, reconcilable, IsUnresolved, RowsInv, BoundAttempts
  <2>2. \A k \in Leads : leadStatus'[k] = "SCHEDULED" => leadStatus[k] = "SCHEDULED" /\ k # sched[att[a].sched].lead
    BY <1>2 DEF reconcileSent, leadOf, TypeOK
  <2> QED
    BY <1>2, <2>1, <2>2, RowLeavesLead DEF reconcileSent
<1>3. ASSUME NEW a \in Attempts, reconcileNotSent(a)
      PROVE  ScheduledLeadHasActiveSchedule'
  <2>1. IsWritten(att[a].sched) /\ Active(att[a].sched) /\ UNCHANGED sched
    BY <1>3 DEF reconcileNotSent, reconcilable, IsUnresolved, RowsInv, BoundAttempts
  <2>2. \A k \in Leads : leadStatus'[k] = "SCHEDULED" => leadStatus[k] = "SCHEDULED" \/ k = sched[att[a].sched].lead
    BY <1>3 DEF reconcileNotSent, leadOf, TypeOK
  <2> QED
    BY <2>1, <2>2, RowsStayForLead DEF activeForLead, IsWritten
<1>4. ASSUME ~ \E a \in Attempts : recoverStarted(a) \/ reconcileSent(a) \/ reconcileNotSent(a)
      PROVE  UNCHANGED <<leadStatus, sched>>
  BY <1>4 DEF AdminStep, GmailStep, Tick, CreateReadiness, RevokeReadiness,
     Suppress, Unsuppress, SetContactEmail, Execute, Refuse, database
<1> QED
  BY <1>1, <1>2, <1>3, <1>4, RowsStayForLead

(* What was delivered stays delivered, for the same lead. *)
LEMMA DeliveredStays ==
  ASSUME TypeOK, SendInv, RowsInv, Next, NEW a \in Attempts, request[a] = "executed"
  PROVE  request'[a] = "executed" /\ sched'[att'[a].sched].lead = sched[att[a].sched].lead
<1>1. att[a].status # "UNUSED"
  BY DEF SendInv, DeliveryStaysRecorded
<1>2. att'[a].sched = att[a].sched
  BY <1>1, AttemptMoves DEF Reserved, Settles
<1>3. sched'[att[a].sched].lead = sched[att[a].sched].lead
  BY <1>1, WrittenStays DEF RowsInv, BoundAttempts
<1>4. request'[a] = "executed"
  <2>1. CASE \E p \in Senders : IssueCall(p)
    BY <2>1 DEF IssueCall, SendInv, HeldAttempts, Holding, TypeOK, Sender
  <2>2. CASE \E b \in Attempts : Execute(b) \/ Refuse(b)
    BY <2>2 DEF Execute, Refuse, TypeOK
  <2>3. ASSUME \E p \in Senders : \/ reserveAttempt(p) \/ StartCall(p) \/ CompleteConfirmed(p)
                                  \/ finishUnknown(p) \/ CompleteFailed(p)
        PROVE  UNCHANGED request
    BY <2>3 DEF reserveAttempt, StartCall, CompleteConfirmed, finishUnknown, CompleteFailed
  <2>4. ASSUME \E b \in Attempts : recoverStarted(b) \/ reconcileSent(b) \/ reconcileNotSent(b)
        PROVE  UNCHANGED request
    BY <2>4 DEF recoverStarted, reconcileSent, reconcileNotSent
  <2> QED
    BY <2>1, <2>2, <2>3, <2>4, StepKinds, QuietStepKeepsSendInv
<1> QED
  BY <1>2, <1>3, <1>4

(* Only a confirmation or a reconciliation of a delivered message makes a lead SENT. *)
LEMMA NewlySent ==
  ASSUME TypeOK, SendInv, RowsInv, Next, NEW l \in Leads, leadStatus'[l] = "SENT", leadStatus[l] # "SENT"
  PROVE  \E a \in Attempts : request[a] = "executed" /\ leadOf(a) = l
<1> USE DEF LeadStatus
<1>1. ASSUME NEW p \in Senders, CompleteConfirmed(p)
      PROVE  \E a \in Attempts : request[a] = "executed" /\ leadOf(a) = l
  <2>1. l = sender[p].lead
    BY <1>1, MovedLeads DEF CompleteConfirmed
  <2>2. /\ sender[p].att \in Attempts /\ request[sender[p].att] = "executed"
        /\ att[sender[p].att].sched = sender[p].sched /\ sched[sender[p].sched].lead = sender[p].lead
    BY <1>1 DEF CompleteConfirmed, SendInv, HeldAttempts, Holding, RowsInv, BoundSenders, TypeOK, Sender
  <2> QED
    BY <2>1, <2>2 DEF leadOf
<1>2. ASSUME NEW a \in Attempts, reconcileSent(a)
      PROVE  \E b \in Attempts : request[b] = "executed" /\ leadOf(b) = l
  BY <1>2 DEF reconcileSent, TypeOK
<1>3. ASSUME NEW p \in Senders, SenderStep(p), ~ CompleteConfirmed(p)
      PROVE  FALSE
  <2>1. CASE routeInvalidate(p) \/ routeManual(p) \/ finishUnknown(p)
    BY <2>1, MovedLeads DEF routeInvalidate, routeManual, finishUnknown
  <2>2. CASE ~ (routeInvalidate(p) \/ routeManual(p) \/ finishUnknown(p))
    BY <1>3, <2>2 DEF SenderStep, Load, PreflightCheck, PreflightReady, Confirm, Abandon, SendCheck,
       VerifyProvider, SuppressionRecheck, reserveAttempt, ReservationRefused, StartCall, IssueCall,
       CompleteFailed, Crash, database
  <2> QED
    BY <2>1, <2>2
<1>4. ASSUME NEW o \in Operators, OperatorStep(o)
      PROVE  FALSE
  <2>1. CASE ScheduleWrite(o) \/ TimezoneWrite(o) \/ CancelWrite(o)
    BY <2>1, MovedLeads DEF ScheduleWrite, TimezoneWrite, CancelWrite
  <2>2. CASE ~ (ScheduleWrite(o) \/ TimezoneWrite(o) \/ CancelWrite(o))
    BY <1>4, <2>2 DEF OperatorStep, ScheduleRead, TimezoneRead, RescheduleRead, CancelRead, ReadActive,
       RescheduleWrite, OperatorFails, database
  <2> QED
    BY <2>1, <2>2
<1>5. ASSUME NEW a \in Attempts, recoverStarted(a) \/ reconcileNotSent(a)
      PROVE  FALSE
  BY <1>5, MovedLeads DEF recoverStarted, reconcileNotSent, TypeOK
<1>6. ASSUME AdminStep \/ GmailStep \/ Tick,
             ~ \E a \in Attempts : recoverStarted(a) \/ reconcileSent(a) \/ reconcileNotSent(a)
      PROVE  FALSE
  BY <1>6 DEF AdminStep, GmailStep, Tick, CreateReadiness, RevokeReadiness,
     Suppress, Unsuppress, SetContactEmail, Execute, Refuse, database
<1> QED
  BY <1>1, <1>2, <1>3, <1>4, <1>5, <1>6 DEF Next

(* A lead is SCHEDULED only while a schedule of it waits, and SENT only once Gmail has
   delivered a message for it: routeInvalidate, cancel, the confirmed and the unknown
   outcome, recovery and reconciliation move the lead of the very schedule they settle. *)
THEOREM LeadStatusTrue == Spec => []LeadStatusIsTrue
<1>1. Init => LeadStatusIsTrue
  BY DEF Init, LeadStatusIsTrue, ScheduledLeadHasActiveSchedule, SentLeadWasDelivered
<1>2. TypeOK /\ SendInv /\ RowsInv /\ LeadStatusIsTrue /\ [Next]_vars => LeadStatusIsTrue'
  <2> SUFFICES ASSUME TypeOK, SendInv, RowsInv, LeadStatusIsTrue, [Next]_vars PROVE LeadStatusIsTrue'
    OBVIOUS
  <2>1. CASE UNCHANGED vars
    BY <2>1 DEF vars, LeadStatusIsTrue, ScheduledLeadHasActiveSchedule, SentLeadWasDelivered,
                activeForLead, Active, leadOf
  <2>2. CASE Next
    <3>1. ScheduledLeadHasActiveSchedule'
      BY <2>2, SenderKeepsScheduled, OperatorKeepsScheduled, OthersKeepScheduled DEF Next, LeadStatusIsTrue
    <3>2. SentLeadWasDelivered'
      <4> SUFFICES ASSUME NEW l \in Leads, leadStatus'[l] = "SENT"
                   PROVE  \E a \in Attempts : request'[a] = "executed" /\ sched'[att'[a].sched].lead = l
        BY DEF SentLeadWasDelivered, leadOf
      <4>1. \E a \in Attempts : request[a] = "executed" /\ leadOf(a) = l
        BY <2>2, NewlySent DEF LeadStatusIsTrue, SentLeadWasDelivered
      <4> QED
        BY <2>2, <4>1, DeliveredStays DEF leadOf
    <3> QED
      BY <3>1, <3>2 DEF LeadStatusIsTrue
  <2> QED
    BY <2>1, <2>2
<1> QED
  BY <1>1, <1>2, TypeCorrect, SendInvariant, RowsInvariant, PTL DEF Spec

(***************************************************************************)
(* To whom a call is addressed                                             *)
(***************************************************************************)
LEMMA NewCall ==
  ASSUME TypeOK, SendInv, Next, NEW a \in Attempts, request[a] = "none", request'[a] # "none"
  PROVE  \E p \in Senders : /\ sender[p].pc = "call" /\ att[a].sched = sender[p].sched
                            /\ UNCHANGED <<att, sched>>
<1>1. CASE \E p \in Senders : IssueCall(p)
  BY <1>1 DEF IssueCall, database, SendInv, HeldAttempts, Holding, TypeOK
<1>2. CASE \E b \in Attempts : Execute(b) \/ Refuse(b)
  BY <1>2 DEF Execute, Refuse, TypeOK
<1>3. ASSUME \E p \in Senders : \/ reserveAttempt(p) \/ StartCall(p) \/ CompleteConfirmed(p)
                                \/ finishUnknown(p) \/ CompleteFailed(p)
      PROVE  UNCHANGED request
  BY <1>3 DEF reserveAttempt, StartCall, CompleteConfirmed, finishUnknown, CompleteFailed
<1>4. ASSUME \E b \in Attempts : recoverStarted(b) \/ reconcileSent(b) \/ reconcileNotSent(b)
      PROVE  UNCHANGED request
  BY <1>4 DEF recoverStarted, reconcileSent, reconcileNotSent
<1> QED
  BY <1>1, <1>2, <1>3, <1>4, StepKinds, QuietStepKeepsSendInv

LEMMA NextKeepsCalls ==
  ASSUME TypeOK, SendInv, RowsInv, CallsInv, Next
  PROVE  CallsInv'
<1>1. CheckedRecipient'
  <2> SUFFICES ASSUME NEW p \in Senders, sender'[p].pc \in Checked
               PROVE  sched'[sender'[p].sched].recipient = DraftRecipient[sender'[p].lead]
    BY DEF CheckedRecipient
  <2>1. sender[p].pc # "idle" => sched'[sender[p].sched].recipient = sched[sender[p].sched].recipient
    BY WrittenStays DEF RowsInv, BoundSenders
  <2>2. CASE sender'[p] = sender[p] \/ Advances(p)
    BY <2>1, <2>2 DEF CallsInv, CheckedRecipient, Advances, Checked, Holding
  <2>3. CASE sender'[p] = IdleSender \/ \E l \in Leads : Load(p, l)
    BY <2>3, LoadStarts DEF IdleSender, Checked, Holding
  <2>4. CASE Passes(p)
    <3>1. sender'[p].sched = sender[p].sched /\ sender'[p].lead = sender[p].lead
      BY <2>4 DEF Passes, TypeOK, Sender
    <3>2. sched[sender[p].sched].recipient = DraftRecipient[sender[p].lead] /\ sender[p].pc # "idle"
      BY <2>4 DEF Passes, checkSendEligibility, bindingInvalid
    <3> QED
      BY <2>1, <3>1, <3>2
  <2> QED
    BY <2>2, <2>3, <2>4, SenderMoves
<1>2. CallsMatchTheDraftRecipient'
  <2> SUFFICES ASSUME NEW a \in Attempts, request'[a] # "none"
               PROVE  LET s == att'[a].sched IN sched'[s].recipient = DraftRecipient[sched'[s].lead]
    BY DEF CallsMatchTheDraftRecipient, leadOf
  <2>1. CASE request[a] # "none"
    <3>1. att[a].status # "UNUSED"
      BY <2>1 DEF SendInv, EarlyRows
    <3>2. att'[a].sched = att[a].sched
      BY <3>1, AttemptMoves DEF Reserved, Settles
    <3>3. /\ sched'[att[a].sched].recipient = sched[att[a].sched].recipient
          /\ sched'[att[a].sched].lead = sched[att[a].sched].lead
      BY <3>1, WrittenStays DEF RowsInv, BoundAttempts
    <3> QED
      BY <2>1, <3>2, <3>3 DEF CallsInv, CallsMatchTheDraftRecipient, leadOf
  <2>2. CASE request[a] = "none"
    <3>1. PICK p \in Senders : /\ sender[p].pc = "call" /\ att[a].sched = sender[p].sched
                               /\ UNCHANGED <<att, sched>>
      BY <2>2, NewCall
    <3>2. sched[sender[p].sched].lead = sender[p].lead
      BY <3>1 DEF RowsInv, BoundSenders
    <3> QED
      BY <3>1, <3>2 DEF CallsInv, CheckedRecipient, Checked, Holding
  <2> QED
    BY <2>1, <2>2
<1> QED
  BY <1>1, <1>2 DEF CallsInv

(* Every drafts.send is made for a schedule bound to the address the Gmail draft was
   created for, whatever set-contact-email and reschedule do between loading, confirming
   and sending: the binding is compared on what the sender loaded, and the row it names
   never changes its recipient. *)
THEOREM CallsAddressed == Spec => []CallsMatchTheDraftRecipient
<1>1. Init => CallsInv
  BY DEF Init, CallsInv, CheckedRecipient, CallsMatchTheDraftRecipient, IdleSender, Checked, Holding
<1>2. TypeOK /\ SendInv /\ RowsInv /\ CallsInv /\ [Next]_vars => CallsInv'
  <2> SUFFICES ASSUME TypeOK, SendInv, RowsInv, CallsInv, [Next]_vars PROVE CallsInv'
    OBVIOUS
  <2>1. CASE UNCHANGED vars
    BY <2>1 DEF vars, CallsInv, CheckedRecipient, CallsMatchTheDraftRecipient, leadOf
  <2>2. CASE Next
    BY <2>2, NextKeepsCalls
  <2> QED
    BY <2>1, <2>2
<1>3. CallsInv => CallsMatchTheDraftRecipient
  BY DEF CallsInv
<1> QED
  BY <1>1, <1>2, <1>3, TypeCorrect, SendInvariant, RowsInvariant, PTL DEF Spec

(***************************************************************************)
(* What a retry is approved by                                             *)
(***************************************************************************)
LEMMA TimePasses ==
  ASSUME TypeOK, Next
  PROVE  now' \in Nat /\ now <= now'
<1>1. ASSUME NEW p \in Senders, SenderStep(p) PROVE UNCHANGED now
  BY <1>1 DEF SenderStep, Load, PreflightCheck, PreflightReady, Confirm, Abandon, SendCheck, routeManual,
     routeInvalidate, VerifyProvider, SuppressionRecheck, reserveAttempt, ReservationRefused, StartCall,
     IssueCall, CompleteConfirmed, finishUnknown, CompleteFailed, Crash
<1>2. ASSUME NEW o \in Operators, OperatorStep(o) PROVE UNCHANGED now
  BY <1>2 DEF OperatorStep, ScheduleRead, TimezoneRead, RescheduleRead, CancelRead, ReadActive, ScheduleWrite,
     TimezoneWrite, RescheduleWrite, CancelWrite, OperatorFails
<1>3. ASSUME AdminStep \/ GmailStep PROVE UNCHANGED now
  BY <1>3 DEF AdminStep, GmailStep, CreateReadiness, RevokeReadiness, recoverStarted, reconcileSent,
     reconcileNotSent, Suppress, Unsuppress, SetContactEmail, Execute, Refuse
<1> QED
  BY <1>1, <1>2, <1>3 DEF Next, Tick, TypeOK

LEMMA NextKeepsRetries ==
  ASSUME TypeOK, SendInv, RowsInv, RetryInv, Next
  PROVE  RetryInv'
<1>0. \A p \in Senders : sender[p].confirmedAt \in Nat /\ sender[p].confirmedAt <= now
  BY DEF TypeOK, Sender, RetryInv, ConfirmedInThePast
<1>1. ConfirmedInThePast'
  <2> SUFFICES ASSUME NEW p \in Senders PROVE sender'[p].confirmedAt <= now'
    BY DEF ConfirmedInThePast
  <2>1. CASE sender'[p] = sender[p] \/ Advances(p)
    BY <1>0, <2>1, TimePasses DEF Advances, TypeOK
  <2>2. CASE sender'[p] = IdleSender
    BY <2>2, TimePasses DEF IdleSender, TypeOK
  <2>3. CASE Passes(p) \/ \E l \in Leads : Load(p, l)
    <3>1. sender'[p].confirmedAt = sender[p].confirmedAt
      BY <2>3, LoadStarts DEF Passes, TypeOK, Sender
    <3> QED
      BY <1>0, <3>1, TimePasses DEF TypeOK
  <2> QED
    BY <2>1, <2>2, <2>3, SenderMoves
<1>2. ReconciledAsSentWasDelivered'
  <2> SUFFICES ASSUME NEW a \in Attempts, att'[a].reconciled = "CONFIRMED_SENT"
               PROVE  request'[a] = "executed"
    BY DEF ReconciledAsSentWasDelivered
  <2>1. request[a] = "executed"
    <3>1. CASE att'[a] = att[a] \/ Settles(a)
      BY <3>1 DEF RetryInv, ReconciledAsSentWasDelivered, Settles
    <3>2. CASE Reserved(a)
      BY <3>2 DEF Reserved, reservation
    <3> QED
      BY <3>1, <3>2, AttemptMoves
  <2> QED
    BY <2>1, DeliveredStays
<1>3. FailuresWereSeen'
  <2> SUFFICES ASSUME NEW p \in Senders, sender'[p].pc \in {"verify", "recheck", "reserve"},
                      NEW a \in Attempts, att'[a].status # "UNUSED", att'[a].sched = sender'[p].sched,
                      IsNotSent(att'[a])
               PROVE  \/ att'[a].effectiveAt < sender'[p].readyAt
                      \/ sender'[p].confirmedAt <= att'[a].effectiveAt
    BY DEF FailuresWereSeen, attemptsOf
  <2>1. CASE att'[a] = att[a]
    <3>1. CASE sender'[p] = sender[p] \/ Advances(p)
      BY <2>1, <3>1 DEF RetryInv, FailuresWereSeen, attemptsOf, Advances, Checked
    <3>2. CASE sender'[p] = IdleSender \/ \E l \in Leads : Load(p, l)
      BY <3>2, LoadStarts DEF IdleSender
    <3>3. CASE Passes(p)
      <4>1. sender'[p].sched = sender[p].sched /\ sender'[p].readyAt = currentReadiness(p).approvedAt
        BY <3>3 DEF Passes, TypeOK, Sender
      <4>2. att[a].effectiveAt \in definitiveFailuresAt(sender[p].sched)
        BY <2>1, <4>1 DEF definitiveFailuresAt, attemptsOf
      <4>3. \A t \in definitiveFailuresAt(sender[p].sched) : t < currentReadiness(p).approvedAt
        BY <3>3 DEF Passes, checkSendEligibility, readinessValid
      <4> QED
        BY <2>1, <4>1, <4>2, <4>3
    <3> QED
      BY <3>1, <3>2, <3>3, SenderMoves
  <2>2. CASE Settles(a)
    <3>1. att'[a].effectiveAt = now
      BY <2>2 DEF Settles, RetryInv, ReconciledAsSentWasDelivered
    <3>2. sender'[p].confirmedAt = sender[p].confirmedAt
      <4>1. CASE sender'[p] = IdleSender \/ \E l \in Leads : Load(p, l)
        BY <4>1, LoadStarts DEF IdleSender
      <4>2. CASE sender'[p] = sender[p] \/ Advances(p) \/ Passes(p)
        BY <4>2 DEF Advances, Passes, Checked, TypeOK, Sender
      <4> QED
        BY <4>1, <4>2, SenderMoves
    <3> QED
      BY <1>0, <3>1, <3>2
  <2>3. CASE Reserved(a)
    BY <2>3 DEF Reserved, reservation, IsNotSent
  <2> QED
    BY <2>1, <2>2, <2>3, AttemptMoves
<1> QED
  BY <1>1, <1>2, <1>3 DEF RetryInv

(* The failures on record when a sender reserves are older than its approval, unless
   they were recorded only after it was confirmed. *)
THEOREM RetryInvariant == Spec => []RetryInv
<1>1. Init => RetryInv
  BY DEF Init, RetryInv, ConfirmedInThePast, ReconciledAsSentWasDelivered, FailuresWereSeen, IdleSender, UnusedAttempt
<1>2. TypeOK /\ SendInv /\ RowsInv /\ RetryInv /\ [Next]_vars => RetryInv'
  <2> SUFFICES ASSUME TypeOK, SendInv, RowsInv, RetryInv, [Next]_vars PROVE RetryInv'
    OBVIOUS
  <2>1. CASE UNCHANGED vars
    BY <2>1 DEF vars, RetryInv, ConfirmedInThePast, ReconciledAsSentWasDelivered, FailuresWereSeen, attemptsOf
  <2>2. CASE Next
    BY <2>2, NextKeepsRetries
  <2> QED
    BY <2>1, <2>2
<1> QED
  BY <1>1, <1>2, TypeCorrect, SendInvariant, RowsInvariant, PTL DEF Spec

(* A new attempt after a definitive failure is under an approval given after the failure,
   or the failure was recorded only once the retry was confirmed (fresh_readiness_required
   is checked before the reservation, not under it). *)
THEOREM RetriesApproved == Spec => RetryIsApprovedAfresh
<1>1. TypeOK /\ SendInv /\ SendInv' /\ RetryInv /\ [Next]_vars =>
        \A p \in Senders, a, b \in Attempts :
          Reserves(b) /\ sender'[p].att = b /\ att[a].sched = att'[b].sched /\ IsNotSent(att[a])
            => \/ att[a].effectiveAt < att'[b].readyAt
               \/ sender[p].confirmedAt <= att[a].effectiveAt
  <2> SUFFICES ASSUME TypeOK, SendInv, SendInv', RetryInv, [Next]_vars,
                      NEW p \in Senders, NEW a \in Attempts, NEW b \in Attempts,
                      Reserves(b), sender'[p].att = b, att[a].sched = att'[b].sched, IsNotSent(att[a])
               PROVE  \/ att[a].effectiveAt < att'[b].readyAt
                      \/ sender[p].confirmedAt <= att[a].effectiveAt
    OBVIOUS
  <2>1. Next
    BY DEF Reserves, vars
  <2>2. Reserved(b)
    BY <2>1, AttemptMoves DEF Reserves, Settles
  <2>3. PICK q \in Senders : /\ sender[q].pc = "reserve" /\ sender'[q].att = b
                             /\ att'[b] = reservation(sender[q])
    BY <2>2 DEF Reserved, reserveAttempt
  <2>4. p = q
    BY <2>3, ConstantsAssumption DEF SendInv, OneHolder
  <2>5. att[a].status # "UNUSED" /\ att[a].sched = sender[p].sched /\ att'[b].readyAt = sender[p].readyAt
    BY <2>3, <2>4 DEF SendInv, EarlyRows, UnusedAttempt, IsNotSent, reservation
  <2> QED
    BY <2>3, <2>4, <2>5 DEF RetryInv, FailuresWereSeen, attemptsOf
<1> QED
  BY <1>1, TypeCorrect, SendInvariant, RetryInvariant, PTL DEF Spec, RetryIsApprovedAfresh

(***************************************************************************)
(* Recording the outcome                                                   *)
(***************************************************************************)
LEMMA NextKeepsAnswers ==
  ASSUME TypeOK, SendInv, RowsInv, AnswerInv, Next
  PROVE  AnswerInv'
<1>1. ReadinessUsedOnce'
  <2> SUFFICES ASSUME NEW a \in Attempts, NEW b \in Attempts, a # b,
                      att'[a].status # "UNUSED", att'[b].status # "UNUSED", att'[a].sched = att'[b].sched
               PROVE  att'[a].readiness # att'[b].readiness
    BY DEF ReadinessUsedOnce
  <2>1. ASSUME NEW c \in Attempts, ~ Reserved(c)
        PROVE  /\ att'[c].status # "UNUSED" => att[c].status # "UNUSED"
               /\ att'[c].sched = att[c].sched /\ att'[c].readiness = att[c].readiness
    BY <2>1, AttemptMoves DEF Settles
  <2>2. ASSUME NEW c \in Attempts, NEW d \in Attempts, c # d, Reserved(c), att'[d].status # "UNUSED",
               att'[c].sched = att'[d].sched
        PROVE  att'[c].readiness # att'[d].readiness
    <3>1. PICK p \in Senders : /\ reserveAttempt(p) /\ sender'[p].att = c
                               /\ att'[c] = reservation(sender[p])
      BY <2>2 DEF Reserved
    <3>2. PICK e \in Attempts :
            /\ AttemptIndexesAdmit(e, reservation(sender[p]))
            /\ att' = [att EXCEPT ![e] = reservation(sender[p])]
            /\ sender' = [sender EXCEPT ![p].pc = "reserved", ![p].att = e]
      BY <3>1 DEF reserveAttempt
    <3>3. e = c
      BY <3>1, <3>2 DEF TypeOK, Sender
    <3>4. att'[d] = att[d]
      BY <2>2, <3>2, <3>3 DEF TypeOK
    <3>5. d \in attemptsOf(reservation(sender[p]).sched) \ {c}
      BY <2>2, <3>1, <3>4 DEF attemptsOf
    <3> QED
      BY <3>1, <3>2, <3>3, <3>4, <3>5 DEF AttemptIndexesAdmit
  <2>3. CASE Reserved(a) \/ Reserved(b)
    BY <2>2, <2>3
  <2>4. CASE ~ Reserved(a) /\ ~ Reserved(b)
    BY <2>1, <2>4 DEF AnswerInv, ReadinessUsedOnce
  <2> QED
    BY <2>3, <2>4
<1>2. ConfirmedWasDelivered'
  <2> SUFFICES ASSUME NEW a \in Attempts, att'[a].status = "SENT_CONFIRMED"
               PROVE  request'[a] = "executed"
    BY DEF ConfirmedWasDelivered
  <2>1. ASSUME NEW p \in Senders, att'[a] = reservation(sender[p]) PROVE FALSE
    <3>1. reservation(sender[p]).status = "RESERVED"
      BY DEF reservation
    <3> QED
      BY <2>1, <3>1
  <2>2. request[a] = "executed"
    BY <2>1, AttemptMoves DEF Reserved, Settles, AnswerInv, ConfirmedWasDelivered
  <2> QED
    BY <2>2, DeliveredStays
<1> QED
  BY <1>1, <1>2 DEF AnswerInv

(* Whatever happened to a schedule while a call for it was out, the unique indexes of
   send_attempts admit the row that records the answer: every other attempt of the
   schedule is known to have failed and was under another approval. *)
THEOREM AnswersRecordable == Spec => []OutcomeCanBeRecorded
<1>1. Init => AnswerInv
  BY DEF Init, AnswerInv, ReadinessUsedOnce, ConfirmedWasDelivered, UnusedAttempt
<1>2. TypeOK /\ SendInv /\ RowsInv /\ AnswerInv /\ [Next]_vars => AnswerInv'
  <2> SUFFICES ASSUME TypeOK, SendInv, RowsInv, AnswerInv, [Next]_vars PROVE AnswerInv'
    OBVIOUS
  <2>1. CASE UNCHANGED vars
    BY <2>1 DEF vars, AnswerInv, ReadinessUsedOnce, ConfirmedWasDelivered
  <2> QED
    BY <2>1, NextKeepsAnswers
<1>3. TypeOK /\ SendInv /\ RetryInv /\ AnswerInv => OutcomeCanBeRecorded
  <2> SUFFICES ASSUME TypeOK, SendInv, RetryInv, AnswerInv, NEW p \in Senders, sender[p].pc = "waiting",
                      NEW status \in {"SENT_CONFIRMED", "OUTCOME_UNKNOWN"},
                      NEW b \in attemptsOf(completeAttempt(sender[p].att, status).sched) \ {sender[p].att}
               PROVE  /\ ~ IsBlocking(att[b]) /\ ~ IsConfirmed(att[b])
                      /\ completeAttempt(sender[p].att, status).readiness # att[b].readiness
    BY DEF OutcomeCanBeRecorded, AttemptIndexesAdmit
  <2>1. PICK a \in Attempts : a = sender[p].att
    BY ConstantsAssumption DEF SendInv, HeldAttempts, Holding, TypeOK, Sender
  <2>2. /\ completeAttempt(a, status).sched = att[a].sched
        /\ completeAttempt(a, status).readiness = att[a].readiness
    BY DEF completeAttempt, TypeOK, Attempt
  <2>3. Live(att[a])
    BY <2>1 DEF SendInv, HeldAttempts, Holding, Live, IsNotSent
  <2>4. b \in Attempts /\ b # a /\ att[b].status # "UNUSED" /\ att[b].sched = att[a].sched
    BY <2>1, <2>2 DEF attemptsOf
  <2>5. IsNotSent(att[b])
    BY <2>3, <2>4 DEF SendInv, OneLiveAttempt, Live
  <2>6. request[b] # "executed"
    BY <2>4, <2>5 DEF SendInv, DeliveryStaysRecorded
  <2>7. att[b].status # "SENT_CONFIRMED" /\ att[b].reconciled # "CONFIRMED_SENT"
    BY <2>4, <2>6 DEF AnswerInv, ConfirmedWasDelivered, RetryInv, ReconciledAsSentWasDelivered
  <2>8. ~ IsInFlight(att[b]) /\ ~ IsUnresolved(att[b])
    BY <2>4, <2>5 DEF SendInv, EarlyRows, IsNotSent, IsInFlight, IsUnresolved
  <2>9. att[a].readiness # att[b].readiness
    BY <2>3, <2>4 DEF AnswerInv, ReadinessUsedOnce, Live
  <2> QED
    BY <2>1, <2>2, <2>7, <2>8, <2>9 DEF IsBlocking, IsConfirmed
<1> QED
  BY <1>1, <1>2, <1>3, TypeCorrect, SendInvariant, RowsInvariant, RetryInvariant, PTL DEF Spec

(***************************************************************************)
(* The daily cap                                                           *)
(***************************************************************************)
usedRows == {a \in Attempts : att[a].status # "UNUSED"}

LEMMA DaysAreOrdered ==
  ASSUME NEW t \in Nat, NEW u \in Nat, NEW v \in Nat, t <= u, u <= v, Day(t) = Day(v)
  PROVE  Day(u) = Day(v)
BY ConstantsAssumption DEF Day

LEMMA CapPerDay ==
  ASSUME CapInv, NEW d
  PROVE  /\ IsFiniteSet(chargedTo(d)) /\ Cardinality(chargedTo(d)) \in Nat
         /\ Cardinality(chargedTo(d)) <= DailyCap
<1>1. chargedTo(d) \in SUBSET usedRows /\ IsFiniteSet(usedRows)
  BY DEF CapInv, FinitelyManyRows, usedRows, chargedTo, Live
<1>2. IsFiniteSet(chargedTo(d)) /\ Cardinality(chargedTo(d)) \in Nat
  BY <1>1, FS_Subset, FS_CardinalityType
<1>3. CASE chargedTo(d) = {}
  BY <1>2, <1>3, FS_EmptySet, ConstantsAssumption
<1>4. CASE chargedTo(d) # {}
  <2>1. d \in {Day(att[a].reservedAt) : a \in Attempts}
    BY <1>4 DEF chargedTo
  <2> QED
    BY <1>2, <2>1 DEF CapInv, ReservationsPerDayWithinCap
<1> QED
  BY <1>2, <1>3, <1>4

(* Every attempt that is charged to a day is counted under the lock of that day. *)
LEMMA ChargedIsCounted ==
  ASSUME TypeOK, SendInv, CapInv, NEW d
  PROVE  countedOn(d) \in Nat /\ Cardinality(chargedTo(d)) <= countedOn(d)
<1> DEFINE counted == {a \in Attempts :
             \/ IsConfirmed(att[a]) /\ Day(att[a].effectiveAt) = d
             \/ (IsInFlight(att[a]) \/ IsUnresolved(att[a])) /\ Day(att[a].reservedAt) = d}
<1>1. ASSUME NEW a \in chargedTo(d) PROVE a \in counted
  <2>1. /\ a \in Attempts /\ Day(att[a].reservedAt) = d
        /\ att[a].status # "UNUSED" /\ ~ IsNotSent(att[a])
        /\ d = Day(now) \/ ~ ConfirmedLater(att[a], d)
    BY <1>1 DEF chargedTo, Live
  <2>2. CASE IsConfirmed(att[a])
    <3>1. CASE d = Day(now)
      <4>1. att[a].status = "SENT_CONFIRMED" \/ att[a].reconciled # "NONE"
        BY <2>2 DEF IsConfirmed
      <4>2. /\ att[a].reservedAt \in Nat /\ att[a].effectiveAt \in Nat /\ now \in Nat
            /\ att[a].reservedAt <= att[a].effectiveAt /\ att[a].effectiveAt <= now
        BY <2>1, <4>1 DEF TypeOK, Attempt, CapInv, RowTimes
      <4>3. Day(att[a].effectiveAt) = Day(now)
        BY <4>2, <2>1, <3>1, DaysAreOrdered
      <4> QED
        BY <2>1, <2>2, <3>1, <4>3
    <3>2. CASE d # Day(now)
      BY <2>1, <2>2, <3>2 DEF ConfirmedLater
    <3> QED
      BY <3>1, <3>2
  <2>3. CASE ~ IsConfirmed(att[a])
    BY <2>1, <2>3 DEF TypeOK, Attempt, AttemptStatus, IsConfirmed, IsNotSent, IsInFlight, IsUnresolved
  <2> QED
    BY <2>2, <2>3
<1>2. counted \in SUBSET usedRows
  BY DEF usedRows, SendInv, EarlyRows, UnusedAttempt, IsConfirmed, IsInFlight, IsUnresolved
<1>3. IsFiniteSet(counted)
  BY <1>2, FS_Subset DEF CapInv, FinitelyManyRows, usedRows
<1> QED
  BY <1>1, <1>3, FS_Subset, FS_CardinalityType DEF countedOn

(* The cap holds after a step that charges no more rows to any day than the cap allows. *)
LEMMA CapHolds ==
  ASSUME IsFiniteSet(usedRows)', \A d : Cardinality(chargedTo(d)') <= DailyCap
  PROVE  FinitelyManyRows' /\ ReservationsPerDayWithinCap'
<1>1. FinitelyManyRows'
  BY DEF FinitelyManyRows, usedRows
<1>2. ReservationsPerDayWithinCap'
  BY DEF ReservationsPerDayWithinCap
<1> QED
  BY <1>1, <1>2

LEMMA ReserveKeepsCap ==
  ASSUME TypeOK, SendInv, CapInv, NEW p \in Senders, reserveAttempt(p)
  PROVE  FinitelyManyRows' /\ ReservationsPerDayWithinCap'
<1>1. PICK b \in Attempts :
        /\ att[b].status = "UNUSED"
        /\ att' = [att EXCEPT ![b] = reservation(sender[p])]
  BY DEF reserveAttempt
<1>2. /\ att'[b].status = "RESERVED" /\ att'[b].reservedAt = sender[p].reservedAt
      /\ \A a \in Attempts \ {b} : att'[a] = att[a]
      /\ now' = now
  BY <1>1 DEF reservation, TypeOK, reserveAttempt
<1>3. IsFiniteSet(usedRows)'
  <2>1. usedRows' = usedRows \cup {b}
    BY <1>2 DEF usedRows
  <2> QED
    BY <2>1, FS_AddElement DEF CapInv, FinitelyManyRows, usedRows
<1>4. ASSUME NEW d PROVE Cardinality(chargedTo(d)') <= DailyCap
  <2>1. b \notin chargedTo(d)
    BY <1>1 DEF chargedTo, Live
  <2>2. CASE d = Day(sender[p].reservedAt)
    <3>1. chargedTo(d)' = chargedTo(d) \cup {b}
      <4>1. Live(att'[b]) /\ ~ IsConfirmed(att'[b])
        BY <1>1 DEF Live, reservation, IsNotSent, IsConfirmed, TypeOK
      <4> QED
        BY <1>2, <2>2, <4>1 DEF chargedTo, ConfirmedLater, Day
    <3>2. Cardinality(chargedTo(d)) < DailyCap
      <4>1. countedOn(d) < DailyCap
        BY <2>2 DEF reserveAttempt
      <4> QED
        BY <4>1, ChargedIsCounted, CapPerDay, ConstantsAssumption
    <3>3. IsFiniteSet(chargedTo(d)) /\ Cardinality(chargedTo(d)) \in Nat
      BY CapPerDay
    <3>4. Cardinality(chargedTo(d) \cup {b}) = Cardinality(chargedTo(d)) + 1
      BY <2>1, <3>3, FS_AddElement
    <3>5. Cardinality(chargedTo(d)) + 1 <= DailyCap
      BY <3>2, <3>3, ConstantsAssumption
    <3> QED
      BY <3>1, <3>4, <3>5
  <2>3. CASE d # Day(sender[p].reservedAt)
    <3>1. chargedTo(d)' = chargedTo(d)
      BY <1>2, <2>1, <2>3 DEF chargedTo, ConfirmedLater, Day
    <3> QED
      BY <3>1, CapPerDay
  <2> QED
    BY <2>2, <2>3
<1> QED
  BY <1>3, <1>4, CapHolds

(* No other step charges a row to a day: an attempt that was confirmed on a later day is
   taken off when the day is over, and none is put back, for no clock runs backwards. *)
LEMMA OthersKeepCap ==
  ASSUME TypeOK, SendInv, CapInv, Next, ~ \E p \in Senders : reserveAttempt(p)
  PROVE  FinitelyManyRows' /\ ReservationsPerDayWithinCap'
<1>0. now \in Nat /\ now' \in Nat /\ now <= now'
  BY TimePasses DEF TypeOK
<1>1. \A a \in Attempts : att'[a] = att[a] \/ Settles(a)
  BY AttemptMoves DEF Reserved
<1>2. IsFiniteSet(usedRows)'
  <2>1. usedRows' \in SUBSET usedRows
    BY <1>1 DEF usedRows, Settles
  <2> QED
    BY <2>1, FS_Subset DEF CapInv, FinitelyManyRows, usedRows
<1>3. ASSUME NEW d, NEW a \in Attempts, Live(att'[a]), Day(att'[a].reservedAt) = d,
             d = Day(now') \/ ~ ConfirmedLater(att'[a], d)
      PROVE  Live(att[a]) /\ Day(att[a].reservedAt) = d /\ (d = Day(now) \/ ~ ConfirmedLater(att[a], d))
  <2>1. Live(att[a]) /\ att'[a].reservedAt = att[a].reservedAt
    BY <1>1, <1>3 DEF Live, Settles
  <2>2. CASE d = Day(now')
    <3>1. att[a].reservedAt \in Nat /\ att[a].reservedAt <= now
      BY DEF TypeOK, Attempt, CapInv, RowTimes
    <3>2. Day(now) = d
      BY <1>0, <1>3, <2>1, <2>2, <3>1, DaysAreOrdered
    <3> QED
      BY <1>3, <2>1, <3>2
  <2>3. CASE d # Day(now')
    <3>1. ~ ConfirmedLater(att'[a], d)
      BY <1>3, <2>3
    <3>2. CASE ~ IsConfirmed(att[a])
      BY <1>3, <2>1, <3>2 DEF ConfirmedLater
    <3>3. CASE IsConfirmed(att[a])
      <4>1. att[a].status = "SENT_CONFIRMED" \/ att[a].reconciled = "CONFIRMED_SENT"
        BY <3>3 DEF IsConfirmed
      <4>2. CASE d = Day(now)
        BY <1>3, <2>1, <4>2
      <4>3. CASE d # Day(now) /\ att'[a] = att[a]
        BY <1>3, <2>1, <3>1, <4>3
      <4>4. CASE d # Day(now) /\ Settles(a)
        <5>1. att[a].reconciled = "CONFIRMED_SENT"
          BY <4>1, <4>4 DEF Settles
        <5>2. att'[a].reconciled = "CONFIRMED_SENT" /\ att'[a].effectiveAt = att[a].effectiveAt
          BY <4>4, <5>1 DEF Settles
        <5> QED
          BY <1>3, <2>1, <3>1, <5>1, <5>2 DEF ConfirmedLater, IsConfirmed
      <4> QED
        BY <1>1, <4>2, <4>3, <4>4
    <3> QED
      BY <3>2, <3>3
  <2> QED
    BY <2>2, <2>3
<1>4. ASSUME NEW d PROVE Cardinality(chargedTo(d)') <= DailyCap
  <2>1. chargedTo(d)' \in SUBSET chargedTo(d)
    BY <1>3 DEF chargedTo, Live, Day, ConfirmedLater, IsConfirmed, IsNotSent
  <2> QED
    BY <2>1, CapPerDay, FS_Subset, FS_CardinalityType, ConstantsAssumption
<1> QED
  BY <1>2, <1>4, CapHolds

LEMMA NextKeepsTimes ==
  ASSUME TypeOK, SendInv, RowTimes, BuiltInThePast, Next
  PROVE  RowTimes' /\ BuiltInThePast'
<1>0. now \in Nat /\ now' \in Nat /\ now <= now'
  BY TimePasses DEF TypeOK
<1>1. RowTimes'
  <2> SUFFICES ASSUME NEW a \in Attempts PROVE RowTimes!(a)'
    BY DEF RowTimes
  <2>1. /\ att[a].reservedAt \in Nat /\ att[a].effectiveAt \in Nat
        /\ att[a].reservedAt <= now /\ att[a].effectiveAt <= now
        /\ att[a].reconciled # "NONE" => att[a].reservedAt <= att[a].effectiveAt
    BY DEF TypeOK, Attempt, RowTimes
  <2>2. CASE att'[a] = att[a]
    BY <1>0, <2>1, <2>2 DEF RowTimes
  <2>3. CASE Reserved(a)
    <3>1. PICK p \in Senders : att'[a] = reservation(sender[p])
      BY <2>3 DEF Reserved
    <3>2. sender[p].reservedAt \in Nat /\ sender[p].reservedAt <= now
      BY DEF TypeOK, Sender, BuiltInThePast
    <3> QED
      BY <1>0, <3>1, <3>2 DEF reservation
  <2>4. CASE Settles(a)
    <3>1. /\ att'[a].reservedAt = att[a].reservedAt
          /\ att'[a].effectiveAt \in {att[a].effectiveAt, now}
          /\ att'[a].status = "SENT_CONFIRMED" \/ att'[a].reconciled # "NONE" =>
               att'[a].effectiveAt = now \/ (att[a].reconciled # "NONE" /\ att'[a].effectiveAt = att[a].effectiveAt)
      BY <2>4 DEF Settles
    <3> QED
      BY <1>0, <2>1, <3>1
  <2> QED
    BY <2>2, <2>3, <2>4, AttemptMoves
<1>2. BuiltInThePast'
  <2> SUFFICES ASSUME NEW p \in Senders PROVE sender'[p].reservedAt <= now'
    BY DEF BuiltInThePast
  <2>1. sender[p].reservedAt \in Nat /\ sender[p].reservedAt <= now
    BY DEF TypeOK, Sender, BuiltInThePast
  <2>2. CASE sender'[p] = sender[p] \/ Advances(p)
    BY <1>0, <2>1, <2>2 DEF Advances
  <2>3. CASE sender'[p] = IdleSender
    BY <1>0, <2>3 DEF IdleSender
  <2>4. CASE Passes(p) \/ \E l \in Leads : Load(p, l)
    <3>1. sender'[p].reservedAt = sender[p].reservedAt
      BY <2>4, LoadStarts DEF Passes, TypeOK, Sender
    <3> QED
      BY <1>0, <2>1, <3>1
  <2> QED
    BY <2>2, <2>3, <2>4, SenderMoves
<1> QED
  BY <1>1, <1>2

(* As long as a UTC day lasts, no more attempts are reserved on it that were or may still
   be delivered than the daily cap allows, and of a day that is over no more of them were
   confirmed on it or may still be delivered: reserveAttempt counts under its advisory lock,
   on the day its row was built, what is in flight or uncertain by the day of its
   reservation and what is confirmed by the day of its confirmation, which for a reservation
   of today is today. *)
THEOREM CapRespected == Spec => []ReservationsPerDayWithinCap
<1>1. Init => CapInv
  <2> SUFFICES ASSUME Init PROVE CapInv
    OBVIOUS
  <2>1. RowTimes /\ BuiltInThePast /\ {a \in Attempts : att[a].status # "UNUSED"} = {}
    BY DEF Init, RowTimes, BuiltInThePast, UnusedAttempt, IdleSender
  <2>2. FinitelyManyRows
    BY <2>1, FS_EmptySet DEF FinitelyManyRows
  <2>3. ReservationsPerDayWithinCap
    <3>1. Cardinality({}) = 0 /\ 0 <= DailyCap
      BY FS_EmptySet, ConstantsAssumption
    <3>2. \A d : chargedTo(d) = {}
      BY <2>1 DEF chargedTo, Live
    <3> QED
      BY <3>1, <3>2 DEF ReservationsPerDayWithinCap
  <2> QED
    BY <2>1, <2>2, <2>3 DEF CapInv
<1>2. TypeOK /\ SendInv /\ CapInv /\ [Next]_vars => CapInv'
  <2> SUFFICES ASSUME TypeOK, SendInv, CapInv, [Next]_vars PROVE CapInv'
    OBVIOUS
  <2>1. CASE UNCHANGED vars
    BY <2>1 DEF vars, CapInv, RowTimes, BuiltInThePast, FinitelyManyRows, ReservationsPerDayWithinCap,
                chargedTo, Live, ConfirmedLater, IsConfirmed, IsNotSent, Day
  <2>2. CASE Next
    BY <2>2, NextKeepsTimes, ReserveKeepsCap, OthersKeepCap DEF CapInv
  <2> QED
    BY <2>1, <2>2
<1>3. CapInv => ReservationsPerDayWithinCap
  BY DEF CapInv
<1> QED
  BY <1>1, <1>2, <1>3, TypeCorrect, SendInvariant, PTL DEF Spec

=============================================================================
