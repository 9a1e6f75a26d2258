---------------------------- MODULE ControlledSend ----------------------------
(***************************************************************************)
(* Controlled sending of one Gmail draft per lead: the scheduling service, *)
(* the send service run by any number of concurrent sender processes       *)
(* (interactive `send-scheduled` and the `run-scheduled-sends` timer), the *)
(* administrative recovery of uncertain sends, and the rows they share in  *)
(* Postgres.                                                               *)
(*                                                                         *)
(* Sources: src/domain/send, src/domain/schedule/schedule-service.ts,      *)
(* src/persistence/repositories/{send,send-admin,send-input,schedule}.repo *)
(* and the send tables of src/persistence/schema.ts.                       *)
(*                                                                         *)
(* A database transaction is one step, and so is a run of reads with no    *)
(* provider call, prompt or write between them.  Everything else (reads    *)
(* then writes, writes then the provider call, the call then its answer)   *)
(* is split, and a sender may crash between any two steps.  One account,   *)
(* one policy version and one approved finalized body per lead are fixed;  *)
(* the kill switches are on (with any of them off the service is inert).   *)
(***************************************************************************)
EXTENDS Naturals, FiniteSets

CONSTANTS
  Leads,            \* leads whose Gmail draft exists
  Schedules,        \* ids of send_schedules rows
  Attempts,         \* ids of send_attempts rows
  Senders,          \* sender processes
  Operators,        \* processes running schedule-drafts / reschedule / cancel
  Recipients,       \* contact_email addresses
  DraftRecipient,   \* the address the lead's Gmail draft was created for
  SenderSource,     \* readiness lineage each sender reads
  Scopes,           \* suppression scopes operators use in this instance
  DailyCap, MaxLate, ConfirmationTtl, ReadinessTtl,
  DayLength,        \* ticks in one UTC day
  MaxTime,          \* bound on the clock
  MaxReadiness,     \* bound on the readiness approvals ever created
  Nobody            \* "no row" / SQL NULL

Sources == {"INTERACTIVE", "SCHEDULED"}

ASSUME ConstantsAssumption ==
  /\ DraftRecipient \in [Leads -> Recipients]
  /\ SenderSource \in [Senders -> Sources]
  /\ Scopes \subseteq {"email", "domain", "business"}
  /\ DailyCap \in Nat \ {0} /\ DayLength \in Nat \ {0}
  /\ MaxLate \in Nat /\ ConfirmationTtl \in Nat /\ ReadinessTtl \in Nat \ {0}
  /\ MaxTime \in Nat /\ MaxReadiness \in Nat
  /\ Nobody \notin Leads \cup Schedules \cup Attempts \cup Recipients

VARIABLES
  leadStatus,   \* leads.status
  contact,      \* the current contact_email fact
  suppressed,   \* active suppression_list rows, as <<scope, value>>
  sched,        \* send_schedules
  att,          \* send_attempts
  readiness,    \* the latest sending_readiness_approvals row of each lineage
  minted,       \* readiness approvals created so far
  sender,       \* local state of each sender process
  op,           \* local state of each scheduling operator
  request,      \* Gmail: the fate of the drafts.send call of each attempt
  now           \* the clock

vars == <<leadStatus, contact, suppressed, sched, att, readiness, minted,
          sender, op, request, now>>

(***************************************************************************)
(* Rows and local states                                                   *)
(***************************************************************************)
LeadStatus == {"DRAFT_CREATED", "SCHEDULED", "SENT", "NEEDS_MANUAL_REVIEW"}

ScheduleStatus ==
  {"UNUSED", "SCHEDULED", "CANCELLED", "SUPERSEDED", "FULFILLED", "INVALIDATED"}

AttemptStatus ==
  {"UNUSED", "RESERVED", "CALL_STARTED", "SENT_CONFIRMED",
   "DEFINITIVE_FAILURE", "OUTCOME_UNKNOWN"}

Outcomes == {"NONE", "CONFIRMED_SENT", "CONFIRMED_NOT_SENT"}

Schedule == [status : ScheduleStatus, lead : Leads \cup {Nobody},
             at : Nat, recipient : Recipients \cup {Nobody}]

(* effectiveAt is COALESCE(reconciled_at, completed_at). *)
Attempt == [status : AttemptStatus, sched : Schedules \cup {Nobody},
            readiness : Nat, readyAt : Nat, reservedAt : Nat,
            effectiveAt : Nat, reconciled : Outcomes]

Readiness == [id : Nat, approvedAt : Nat, expiresAt : Nat, revoked : BOOLEAN]

SenderPC == {"idle", "loaded", "preflight", "prompted", "confirmed", "invalidate",
             "manual", "verify", "recheck", "reserve", "reserved", "call", "waiting"}

Sender == [pc : SenderPC, lead : Leads \cup {Nobody},
           sched : Schedules \cup {Nobody}, leadStatus : LeadStatus,
           recipient : Recipients \cup {Nobody}, readiness : Nat,
           readyAt : Nat, checkedAt : Nat, confirmedAt : Nat,
           reservedAt : Nat, att : Attempts \cup {Nobody}]

Operator == [task : {"idle", "schedule", "timezone", "reschedule", "cancel"},
             lead : Leads \cup {Nobody}, sched : Schedules \cup {Nobody},
             at : Nat, recipient : Recipients \cup {Nobody}]

RequestState == {"none", "pending", "executed", "refused"}

Suppressible ==
  ((Scopes \cap {"email"}) \X Recipients) \cup ((Scopes \ {"email"}) \X Leads)

UnusedSchedule == [status |-> "UNUSED", lead |-> Nobody, at |-> 0, recipient |-> Nobody]
UnusedAttempt == [status |-> "UNUSED", sched |-> Nobody, readiness |-> 0, readyAt |-> 0,
                  reservedAt |-> 0, effectiveAt |-> 0, reconciled |-> "NONE"]
NoReadiness == [id |-> 0, approvedAt |-> 0, expiresAt |-> 0, revoked |-> TRUE]
IdleSender == [pc |-> "idle", lead |-> Nobody, sched |-> Nobody,
               leadStatus |-> "DRAFT_CREATED", recipient |-> Nobody, readiness |-> 0,
               readyAt |-> 0, checkedAt |-> 0, confirmedAt |-> 0, reservedAt |-> 0,
               att |-> Nobody]
IdleOperator == [task |-> "idle", lead |-> Nobody, sched |-> Nobody,
                 at |-> 0, recipient |-> Nobody]

TypeOK ==
  /\ leadStatus \in [Leads -> LeadStatus]
  /\ contact \in [Leads -> Recipients]
  /\ suppressed \subseteq Suppressible
  /\ sched \in [Schedules -> Schedule]
  /\ att \in [Attempts -> Attempt]
  /\ readiness \in [Sources -> Readiness]
  /\ minted \in Nat
  /\ sender \in [Senders -> Sender]
  /\ op \in [Operators -> Operator]
  /\ request \in [Attempts -> RequestState]
  /\ now \in Nat

Init ==
  /\ leadStatus = [l \in Leads |-> "DRAFT_CREATED"]
  /\ contact = DraftRecipient
  /\ suppressed = {}
  /\ sched = [s \in Schedules |-> UnusedSchedule]
  /\ att = [a \in Attempts |-> UnusedAttempt]
  /\ readiness = [src \in Sources |-> NoReadiness]
  /\ minted = 0
  /\ sender = [p \in Senders |-> IdleSender]
  /\ op = [o \in Operators |-> IdleOperator]
  /\ request = [a \in Attempts |-> "none"]
  /\ now = 0

(***************************************************************************)
(* Queries                                                                 *)
(***************************************************************************)
Active(s) == sched[s].status = "SCHEDULED"

activeForLead(l) == {s \in Schedules : Active(s) /\ sched[s].lead = l}

attemptsOf(s) == {a \in Attempts : att[a].status # "UNUSED" /\ att[a].sched = s}

(* Row predicates of the repository queries and of the partial indexes. *)
IsConfirmed(r) == r.status = "SENT_CONFIRMED" \/ r.reconciled = "CONFIRMED_SENT"

IsUnresolved(r) ==
  r.status = "OUTCOME_UNKNOWN" /\ r.reconciled # "CONFIRMED_NOT_SENT"

IsInFlight(r) == r.status \in {"RESERVED", "CALL_STARTED"}

IsNotSent(r) == r.status = "DEFINITIVE_FAILURE" \/ r.reconciled = "CONFIRMED_NOT_SENT"

(* Mutant: the blocking index forgets uncertain attempts. *)
IsBlocking_ForgetsUnknown(r) == IsInFlight(r) \/ r.status = "SENT_CONFIRMED"

IsBlocking(r) == IsInFlight(r) \/ IsUnresolved(r) \/ r.status = "SENT_CONFIRMED"

hasConfirmedAttempt(s) == \E a \in attemptsOf(s) : IsConfirmed(att[a])

hasBlockingAttempt(s) ==
  \E a \in attemptsOf(s) : IsInFlight(att[a]) \/ IsUnresolved(att[a])

Day(t) == t \div DayLength

confirmedSendsToday ==
  Cardinality({a \in Attempts : IsConfirmed(att[a]) /\ Day(att[a].effectiveAt) = Day(now)})

(* Mutant: only confirmed sends count against the cap. *)
countedOn_ConfirmedOnly(d) ==
  Cardinality({a \in Attempts : IsConfirmed(att[a]) /\ Day(att[a].effectiveAt) = d})

(* What reserveAttempt counts under its advisory lock on the day of a row. *)
countedOn(d) ==
  Cardinality({a \in Attempts :
    \/ IsConfirmed(att[a]) /\ Day(att[a].effectiveAt) = d
    \/ (IsInFlight(att[a]) \/ IsUnresolved(att[a])) /\ Day(att[a].reservedAt) = d})

(* The send service asks for email, domain, phone and place_id rows.  The
   last three all identify the lead here ("domain"); a "business" row is
   not among the scopes it asks for. *)
activeSuppressions(l, r) == suppressed \cap {<<"email", r>>, <<"domain", l>>}

(* Mutant: without send_attempts_blocking_schedule_uk. *)
AttemptIndexesAdmit_NoBlockingIndex(a, r) ==
  \A b \in attemptsOf(r.sched) \ {a} :
    /\ ~ (IsConfirmed(r) /\ IsConfirmed(att[b]))
    /\ r.readiness # att[b].readiness

(* The unique indexes of send_attempts, for the row r about to be stored
   under id a.  The send fingerprint of a schedule varies only with the
   readiness approval. *)
AttemptIndexesAdmit(a, r) ==
  \A b \in attemptsOf(r.sched) \ {a} :
    /\ ~ (IsBlocking(r) /\ IsBlocking(att[b]))
    /\ ~ (IsConfirmed(r) /\ IsConfirmed(att[b]))
    /\ r.readiness # att[b].readiness

(* if (lead.status === from) leadService.transition(leadId, to) *)
MoveLead(l, from, to) ==
  leadStatus' = IF leadStatus[l] = from THEN [leadStatus EXCEPT ![l] = to] ELSE leadStatus

(***************************************************************************)
(* Send eligibility: SendService.state over the input a sender loaded.     *)
(* Schedule rows never change their instant or recipient, so only the      *)
(* lead status, the recipient fact and the schedule id are snapshots.      *)
(***************************************************************************)
currentReadiness(p) == readiness[SenderSource[p]]

AlreadySentOrBlocked(i) == hasConfirmedAttempt(i.sched) \/ hasBlockingAttempt(i.sched)

(* The recomputed integrity fingerprint differs from the stored one. *)
bindingInvalid(i) == sched[i.sched].recipient # i.recipient

notDue(i) == now < sched[i.sched].at

tooLate(i) == ~ notDue(i) /\ now - sched[i.sched].at > MaxLate

recipientSuppressed(i) == activeSuppressions(i.lead, i.recipient) # {}

(* lastDefinitiveFailureAt is the latest of these instants. *)
definitiveFailuresAt(s) == {att[a].effectiveAt : a \in {b \in attemptsOf(s) : IsNotSent(att[b])}}

(* Mutant: an approval older than the failure still counts. *)
readinessValid_NotFresh(r, s) ==
  r.id # 0 /\ ~ r.revoked /\ r.approvedAt <= now /\ now < r.expiresAt

readinessValid(r, s) ==
  /\ r.id # 0 /\ ~ r.revoked
  /\ r.approvedAt <= now /\ now < r.expiresAt
  /\ \A t \in definitiveFailuresAt(s) : t < r.approvedAt

(* Mutant: the draft's recipient is not compared with the contact fact. *)
checkSendEligibility_AnyDraftRecipient(i, r) ==
  /\ ~ AlreadySentOrBlocked(i)
  /\ confirmedSendsToday < DailyCap
  /\ i.leadStatus = "SCHEDULED"
  /\ ~ bindingInvalid(i) /\ ~ recipientSuppressed(i)
  /\ readinessValid(r, i.sched)
  /\ ~ notDue(i) /\ ~ tooLate(i)

checkSendEligibility(i, r) ==
  /\ ~ AlreadySentOrBlocked(i)
  /\ confirmedSendsToday < DailyCap
  /\ i.leadStatus = "SCHEDULED"
  /\ i.recipient = DraftRecipient[i.lead]
  /\ ~ bindingInvalid(i)
  /\ ~ recipientSuppressed(i)
  /\ readinessValid(r, i.sched)
  /\ ~ notDue(i) /\ ~ tooLate(i)

(* The confirmation and the preflight proof name the send fingerprint of
   this schedule under readiness r, and neither is stale. *)
confirmationValid(i, r) ==
  /\ i.readiness = r.id
  /\ now - i.confirmedAt <= ConfirmationTtl
  /\ now - i.checkedAt <= ConfirmationTtl

(***************************************************************************)
(* Gmail, as the send service uses it (external)                           *)
(***************************************************************************)
leadOf(a) == sched[att[a].sched].lead

(* Sending consumes the draft: drafts.get then answers not_found. *)
draftPresent(l) ==
  \A a \in Attempts : request[a] = "executed" => leadOf(a) # l

(* The provider carries out a dispatched drafts.send.  It offers no
   idempotency key, so nothing here looks at other requests. *)
Execute(a) ==
  /\ request[a] = "pending"
  /\ request' = [request EXCEPT ![a] = "executed"]
  /\ UNCHANGED <<leadStatus, contact, suppressed, sched, att, readiness, minted, sender, op, now>>

(* The provider definitively rejects it (4xx, rate limit, auth). *)
Refuse(a) ==
  /\ request[a] = "pending"
  /\ request' = [request EXCEPT ![a] = "refused"]
  /\ UNCHANGED <<leadStatus, contact, suppressed, sched, att, readiness, minted, sender, op, now>>

(***************************************************************************)
(* The sender process: preflight, confirmation, send                       *)
(***************************************************************************)
database == <<leadStatus, contact, suppressed, sched, att, readiness, minted>>

GoTo(p, pc) == sender' = [sender EXCEPT ![p].pc = pc]

Finish(p) == sender' = [sender EXCEPT ![p] = IdleSender]

(* Read the lead, its active schedule and its current recipient. *)
Load(p, l) ==
  /\ sender[p].pc = "idle"
  /\ \E s \in activeForLead(l) :
       sender' = [sender EXCEPT ![p].pc = "loaded", ![p].lead = l, ![p].sched = s,
                                ![p].leadStatus = leadStatus[l], ![p].recipient = contact[l]]
  /\ UNCHANGED <<database, op, request, now>>

(* preflight: the local gates, without a confirmation. *)
PreflightCheck(p) ==
  LET r == currentReadiness(p) IN
  /\ sender[p].pc = "loaded"
  /\ checkSendEligibility(sender[p], r)
  /\ sender' = [sender EXCEPT ![p].pc = "preflight", ![p].readiness = r.id]
  /\ UNCHANGED <<database, op, request, now>>

(* preflight: the read-only provider verification, then the proof. *)
PreflightReady(p) ==
  /\ sender[p].pc = "preflight"
  /\ draftPresent(sender[p].lead)
  /\ sender' = [sender EXCEPT ![p].pc = "prompted", ![p].checkedAt = now]
  /\ UNCHANGED <<database, op, request, now>>

(* The operator types the phrase, or the scheduled runner attests. *)
Confirm(p) ==
  /\ sender[p].pc = "prompted"
  /\ sender' = [sender EXCEPT ![p].pc = "confirmed", ![p].confirmedAt = now]
  /\ UNCHANGED <<database, op, request, now>>

(* A gate is closed, a verification fails or the prompt is declined: the
   command returns before it wrote anything. *)
Abandon(p) ==
  /\ sender[p].pc \in {"loaded", "preflight", "prompted", "verify"}
  /\ Finish(p)
  /\ UNCHANGED <<database, op, request, now>>

(* send: every gate again on the same input, in the service's order. *)
SendCheck(p) ==
  LET i == sender[p]
      r == currentReadiness(p)
  IN
  /\ i.pc = "confirmed"
  /\ \/ AlreadySentOrBlocked(i) /\ Finish(p)
     \/ /\ ~ AlreadySentOrBlocked(i)
        /\ bindingInvalid(i) \/ tooLate(i)
        /\ GoTo(p, "invalidate")
     \/ /\ ~ AlreadySentOrBlocked(i) /\ ~ bindingInvalid(i) /\ ~ tooLate(i)
        /\ recipientSuppressed(i)
        /\ GoTo(p, "manual")
     \/ /\ checkSendEligibility(i, r) /\ confirmationValid(i, r)
        /\ sender' = [sender EXCEPT ![p].pc = "verify", ![p].readyAt = r.approvedAt]
     \/ /\ ~ AlreadySentOrBlocked(i) /\ ~ bindingInvalid(i) /\ ~ tooLate(i)
        /\ ~ recipientSuppressed(i)
        /\ ~ (checkSendEligibility(i, r) /\ confirmationValid(i, r))
        /\ Finish(p)
  /\ UNCHANGED <<database, op, request, now>>

(* The update names the schedule id only: whatever the row became since it
   was loaded, it is INVALIDATED now. *)
routeInvalidate(p) ==
  /\ sender[p].pc = "invalidate"
  /\ sched' = [sched EXCEPT ![sender[p].sched].status = "INVALIDATED"]
  /\ MoveLead(sender[p].lead, "SCHEDULED", "NEEDS_MANUAL_REVIEW")
  /\ Finish(p)
  /\ UNCHANGED <<contact, suppressed, att, readiness, minted, op, request, now>>

routeManual(p) ==
  /\ sender[p].pc = "manual"
  /\ MoveLead(sender[p].lead, "SCHEDULED", "NEEDS_MANUAL_REVIEW")
  /\ Finish(p)
  /\ UNCHANGED <<contact, suppressed, sched, att, readiness, minted, op, request, now>>

(* The second provider verification succeeds (Abandon: it fails). *)
VerifyProvider(p) ==
  /\ sender[p].pc = "verify"
  /\ draftPresent(sender[p].lead)
  /\ GoTo(p, "recheck")
  /\ UNCHANGED <<database, op, request, now>>

(* Suppressions once more; then the row is built, reserved_at included, and
   only after that is its transaction awaited. *)
SuppressionRecheck(p) ==
  /\ sender[p].pc = "recheck"
  /\ IF recipientSuppressed(sender[p])
     THEN Finish(p)
     ELSE sender' = [sender EXCEPT ![p].pc = "reserve", ![p].reservedAt = now]
  /\ UNCHANGED <<database, op, request, now>>

reservation(i) ==
  [status |-> "RESERVED", sched |-> i.sched, readiness |-> i.readiness,
   readyAt |-> i.readyAt, reservedAt |-> i.reservedAt, effectiveAt |-> 0, reconciled |-> "NONE"]

(* One transaction under the advisory lock of the account and of the day the
   row was built on, which may be over. *)
reserveAttempt(p) ==
  /\ sender[p].pc = "reserve"
  /\ countedOn(Day(sender[p].reservedAt)) < DailyCap
  /\ \E a \in Attempts :
       /\ att[a].status = "UNUSED"
       /\ AttemptIndexesAdmit(a, reservation(sender[p]))
       /\ att' = [att EXCEPT ![a] = reservation(sender[p])]
       /\ sender' = [sender EXCEPT ![p].pc = "reserved", ![p].att = a]
  /\ UNCHANGED <<leadStatus, contact, suppressed, sched, readiness, minted, op, request, now>>

(* daily_cap, or a unique violation: the insert is refused. *)
ReservationRefused(p) ==
  /\ sender[p].pc = "reserve"
  /\ \/ countedOn(Day(sender[p].reservedAt)) >= DailyCap
     \/ ~ AttemptIndexesAdmit(Nobody, reservation(sender[p]))
  /\ Finish(p)
  /\ UNCHANGED <<database, op, request, now>>

(* completeAttempt: an update by id, whatever the row holds.  A reconciled
   row keeps its reconciled_at as the effective instant. *)
completeAttempt(a, status) ==
  [att[a] EXCEPT !.status = status,
                 !.effectiveAt = IF att[a].reconciled = "NONE" THEN now ELSE att[a].effectiveAt]

(* Mutant: a status the table's CHECK constraint does not know. *)
StartCall_UnknownStatus(p) ==
  /\ sender[p].pc = "reserved"
  /\ att' = [att EXCEPT ![sender[p].att].status = "STARTED"]
  /\ GoTo(p, "call")
  /\ UNCHANGED <<leadStatus, contact, suppressed, sched, readiness, minted, op, request, now>>

StartCall(p) ==
  /\ sender[p].pc = "reserved"
  /\ att' = [att EXCEPT ![sender[p].att].status = "CALL_STARTED"]
  /\ GoTo(p, "call")
  /\ UNCHANGED <<leadStatus, contact, suppressed, sched, readiness, minted, op, request, now>>

IssueCall(p) ==
  /\ sender[p].pc = "call"
  /\ request' = [request EXCEPT ![sender[p].att] = "pending"]
  /\ GoTo(p, "waiting")
  /\ UNCHANGED <<database, op, now>>

(* Mutant: any answer without an error counts as a delivery. *)
CompleteConfirmed_AnyAnswer(p) ==
  LET i == sender[p]
      row == completeAttempt(i.att, "SENT_CONFIRMED")
  IN
  /\ i.pc = "waiting"
  /\ AttemptIndexesAdmit(i.att, row)
  /\ att' = [att EXCEPT ![i.att] = row]
  /\ sched' = [sched EXCEPT ![i.sched].status = "FULFILLED"]
  /\ MoveLead(i.lead, "SCHEDULED", "SENT")
  /\ Finish(p)
  /\ UNCHANGED <<contact, suppressed, readiness, minted, op, request, now>>

(* A message id came back: attempt, schedule and lead in one transaction,
   which commits only if the unique indexes admit the row. *)
CompleteConfirmed(p) ==
  LET i == sender[p]
      row == completeAttempt(i.att, "SENT_CONFIRMED")
  IN
  /\ i.pc = "waiting" /\ request[i.att] = "executed"
  /\ AttemptIndexesAdmit(i.att, row)
  /\ att' = [att EXCEPT ![i.att] = row]
  /\ sched' = [sched EXCEPT ![i.sched].status = "FULFILLED"]
  /\ MoveLead(i.lead, "SCHEDULED", "SENT")
  /\ Finish(p)
  /\ UNCHANGED <<contact, suppressed, readiness, minted, op, request, now>>

(* Timeout, lost answer, 5xx or a malformed success, whatever became of
   the request. *)
finishUnknown(p) ==
  LET i == sender[p]
      row == completeAttempt(i.att, "OUTCOME_UNKNOWN")
  IN
  /\ i.pc = "waiting"
  /\ AttemptIndexesAdmit(i.att, row)
  /\ att' = [att EXCEPT ![i.att] = row]
  /\ MoveLead(i.lead, "SCHEDULED", "NEEDS_MANUAL_REVIEW")
  /\ Finish(p)
  /\ UNCHANGED <<contact, suppressed, sched, readiness, minted, op, request, now>>

(* Mutant: a timeout is recorded as a definitive failure. *)
CompleteFailed_OnTimeout(p) ==
  LET i == sender[p] IN
  /\ i.pc = "waiting"
  /\ att' = [att EXCEPT ![i.att] = completeAttempt(i.att, "DEFINITIVE_FAILURE")]
  /\ Finish(p)
  /\ UNCHANGED <<leadStatus, contact, suppressed, sched, readiness, minted, op, request, now>>

CompleteFailed(p) ==
  LET i == sender[p] IN
  /\ i.pc = "waiting" /\ request[i.att] = "refused"
  /\ att' = [att EXCEPT ![i.att] = completeAttempt(i.att, "DEFINITIVE_FAILURE")]
  /\ Finish(p)
  /\ UNCHANGED <<leadStatus, contact, suppressed, sched, readiness, minted, op, request, now>>

(* The process dies, or a database call throws, wherever it is. *)
Crash(p) ==
  /\ sender[p].pc # "idle"
  /\ Finish(p)
  /\ UNCHANGED <<database, op, request, now>>

(***************************************************************************)
(* Scheduling commands: the active schedule is read first, the write is a  *)
(* later transaction that does not look at it again.                       *)
(***************************************************************************)
ReadActive(o, l, task, s, at) ==
  /\ op[o].task = "idle"
  /\ op' = [op EXCEPT ![o] = [task |-> task, lead |-> l, sched |-> s, at |-> at,
                              recipient |-> contact[l]]]
  /\ UNCHANGED <<database, sender, request, now>>

(* schedule: eligible at an instant the slot computation picks, or with a
   missing or invalid timezone on file. *)
ScheduleRead(o, l) ==
  /\ leadStatus[l] = "DRAFT_CREATED"
  /\ activeForLead(l) = {}
  /\ \E at \in now .. MaxTime : ReadActive(o, l, "schedule", Nobody, at)

TimezoneRead(o, l) ==
  /\ leadStatus[l] = "DRAFT_CREATED"
  /\ activeForLead(l) = {}
  /\ ReadActive(o, l, "timezone", Nobody, 0)

(* reschedule: to any allowed future instant; the new row is bound to the
   recipient on file now.  Neither the lead nor the attempts are looked at. *)
RescheduleRead(o, l) ==
  \E s \in activeForLead(l), at \in now .. MaxTime : ReadActive(o, l, "reschedule", s, at)

CancelRead(o, l) ==
  \E s \in activeForLead(l) : ReadActive(o, l, "cancel", s, 0)

OperatorDone(o) == op' = [op EXCEPT ![o] = IdleOperator]

(* The row buildRecord makes. *)
buildRecord(i) ==
  [status |-> "SCHEDULED", lead |-> i.lead, at |-> i.at, recipient |-> i.recipient]

(* Insert under the one-active-schedule-per-draft unique index. *)
ScheduleWrite(o) ==
  /\ op[o].task = "schedule"
  /\ activeForLead(op[o].lead) = {}
  /\ \E s \in Schedules :
       /\ sched[s].status = "UNUSED"
       /\ sched' = [sched EXCEPT ![s] = buildRecord(op[o])]
  /\ MoveLead(op[o].lead, "DRAFT_CREATED", "SCHEDULED")
  /\ OperatorDone(o)
  /\ UNCHANGED <<contact, suppressed, att, readiness, minted, sender, request, now>>

TimezoneWrite(o) ==
  /\ op[o].task = "timezone"
  /\ MoveLead(op[o].lead, "DRAFT_CREATED", "NEEDS_MANUAL_REVIEW")
  /\ OperatorDone(o)
  /\ UNCHANGED <<contact, suppressed, sched, att, readiness, minted, sender, request, now>>

(* Supersede the row that was read, whatever it became, then insert. *)
RescheduleWrite(o) ==
  /\ op[o].task = "reschedule"
  /\ activeForLead(op[o].lead) \subseteq {op[o].sched}
  /\ \E s \in Schedules :
       /\ sched[s].status = "UNUSED"
       /\ sched' = [sched EXCEPT ![op[o].sched].status = "SUPERSEDED", ![s] = buildRecord(op[o])]
  /\ OperatorDone(o)
  /\ UNCHANGED <<leadStatus, contact, suppressed, att, readiness, minted, sender, request, now>>

(* Mutant: the lead is left SCHEDULED. *)
CancelWrite_KeepsLead(o) ==
  /\ op[o].task = "cancel"
  /\ sched' = [sched EXCEPT ![op[o].sched].status = "CANCELLED"]
  /\ OperatorDone(o)
  /\ UNCHANGED <<leadStatus, contact, suppressed, att, readiness, minted, sender, request, now>>

CancelWrite(o) ==
  /\ op[o].task = "cancel"
  /\ sched' = [sched EXCEPT ![op[o].sched].status = "CANCELLED"]
  /\ MoveLead(op[o].lead, "SCHEDULED", "DRAFT_CREATED")
  /\ OperatorDone(o)
  /\ UNCHANGED <<contact, suppressed, att, readiness, minted, sender, request, now>>

(* The command dies, or its insert violates the unique index. *)
OperatorFails(o) ==
  /\ op[o].task # "idle"
  /\ OperatorDone(o)
  /\ UNCHANGED <<database, sender, request, now>>

(***************************************************************************)
(* Administration                                                          *)
(***************************************************************************)
(* createReadiness (INTERACTIVE) and mintSessionReadiness (SCHEDULED): the
   row that is current afterwards supersedes the lineage's earlier ones. *)
CreateReadiness(src) ==
  /\ minted < MaxReadiness
  /\ minted' = minted + 1
  /\ readiness' = [readiness EXCEPT ![src] =
       [id |-> minted + 1, approvedAt |-> now, expiresAt |-> now + ReadinessTtl, revoked |-> FALSE]]
  /\ UNCHANGED <<leadStatus, contact, suppressed, sched, att, sender, op, request, now>>

RevokeReadiness(src) ==
  /\ ~ readiness[src].revoked
  /\ readiness' = [readiness EXCEPT ![src].revoked = TRUE]
  /\ UNCHANGED <<leadStatus, contact, suppressed, sched, att, minted, sender, op, request, now>>

(* Mutant: the recovered attempt is declared not sent, which frees its schedule. *)
recoverStarted_AsFailed(a) ==
  /\ att[a].status = "CALL_STARTED"
  /\ att' = [att EXCEPT ![a] = completeAttempt(a, "DEFINITIVE_FAILURE")]
  /\ MoveLead(leadOf(a), "SCHEDULED", "NEEDS_MANUAL_REVIEW")
  /\ UNCHANGED <<contact, suppressed, sched, readiness, minted, sender, op, request, now>>

(* recover-started-send.  Nothing tells a crashed sender from a slow one. *)
recoverStarted(a) ==
  /\ att[a].status = "CALL_STARTED"
  /\ att' = [att EXCEPT ![a] = completeAttempt(a, "OUTCOME_UNKNOWN")]
  /\ MoveLead(leadOf(a), "SCHEDULED", "NEEDS_MANUAL_REVIEW")
  /\ UNCHANGED <<contact, suppressed, sched, readiness, minted, sender, op, request, now>>

(* What reconcile revalidates under its row locks. *)
reconcilable(a) ==
  LET s == att[a].sched
      l == leadOf(a)
  IN
  /\ IsUnresolved(att[a]) /\ att[a].reconciled = "NONE"
  /\ attemptsOf(s) = {a}
  /\ leadStatus[l] = "NEEDS_MANUAL_REVIEW"
  /\ Active(s)
  /\ contact[l] = sched[s].recipient /\ contact[l] = DraftRecipient[l]

reconciledAs(a, outcome) ==
  att' = [att EXCEPT ![a].reconciled = outcome, ![a].effectiveAt = now]

(* The operator's independent evidence is truthful (external): the message
   was delivered. *)
reconcileSent(a) ==
  /\ reconcilable(a)
  /\ request[a] = "executed"
  /\ reconciledAs(a, "CONFIRMED_SENT")
  /\ sched' = [sched EXCEPT ![att[a].sched].status = "FULFILLED"]
  /\ leadStatus' = [leadStatus EXCEPT ![leadOf(a)] = "SENT"]
  /\ UNCHANGED <<contact, suppressed, readiness, minted, sender, op, request, now>>

(* Truthful evidence that it was not, and can no longer be: no request is
   outstanding and the process that would issue it is gone. *)
cannotDeliver(a) ==
  /\ request[a] \in {"none", "refused"}
  /\ \A p \in Senders : sender[p].att # a

reconcileNotSent(a) ==
  /\ reconcilable(a)
  /\ cannotDeliver(a)
  /\ reconciledAs(a, "CONFIRMED_NOT_SENT")
  /\ leadStatus' = [leadStatus EXCEPT ![leadOf(a)] = "SCHEDULED"]
  /\ UNCHANGED <<contact, suppressed, sched, readiness, minted, sender, op, request, now>>

Suppress(v) ==
  /\ v \notin suppressed
  /\ suppressed' = suppressed \cup {v}
  /\ UNCHANGED <<leadStatus, contact, sched, att, readiness, minted, sender, op, request, now>>

Unsuppress(v) ==
  /\ v \in suppressed
  /\ suppressed' = suppressed \ {v}
  /\ UNCHANGED <<leadStatus, contact, sched, att, readiness, minted, sender, op, request, now>>

(* set-contact-email has no guard on the lead's status. *)
SetContactEmail(l, r) ==
  /\ contact[l] # r
  /\ contact' = [contact EXCEPT ![l] = r]
  /\ UNCHANGED <<leadStatus, suppressed, sched, att, readiness, minted, sender, op, request, now>>

Tick ==
  /\ now < MaxTime
  /\ now' = now + 1
  /\ UNCHANGED <<database, sender, op, request>>

(***************************************************************************)
(* The specification                                                       *)
(***************************************************************************)
SenderStep(p) ==
  \/ \E l \in Leads : Load(p, l)
  \/ PreflightCheck(p) \/ PreflightReady(p) \/ Confirm(p) \/ Abandon(p)
  \/ SendCheck(p) \/ routeInvalidate(p) \/ routeManual(p)
  \/ VerifyProvider(p) \/ SuppressionRecheck(p)
  \/ reserveAttempt(p) \/ ReservationRefused(p)
  \/ StartCall(p) \/ IssueCall(p)
  \/ CompleteConfirmed(p) \/ finishUnknown(p) \/ CompleteFailed(p)
  \/ Crash(p)

OperatorStep(o) ==
  \/ \E l \in Leads :
       ScheduleRead(o, l) \/ TimezoneRead(o, l) \/ RescheduleRead(o, l) \/ CancelRead(o, l)
  \/ ScheduleWrite(o) \/ TimezoneWrite(o) \/ RescheduleWrite(o) \/ CancelWrite(o)
  \/ OperatorFails(o)

AdminStep ==
  \/ \E p \in Senders : CreateReadiness(SenderSource[p]) \/ RevokeReadiness(SenderSource[p])
  \/ \E a \in Attempts : recoverStarted(a) \/ reconcileSent(a) \/ reconcileNotSent(a)
  \/ \E v \in Suppressible : Suppress(v) \/ Unsuppress(v)
  \/ \E l \in Leads, r \in Recipients : SetContactEmail(l, r)

GmailStep == \E a \in Attempts : Execute(a) \/ Refuse(a)

Next ==
  \/ \E p \in Senders : SenderStep(p)
  \/ \E o \in Operators : OperatorStep(o)
  \/ AdminStep
  \/ GmailStep
  \/ Tick

Spec == Init /\ [][Next]_vars

(***************************************************************************)
(* Properties that hold                                                    *)
(***************************************************************************)
(* Whatever senders, operators, crashes and lost answers do, Gmail carries
   out at most one drafts.send for a schedule (the reservation and the
   partial unique indexes of send_attempts). *)
AtMostOneDeliveryPerSchedule ==
  \A a, b \in Attempts :
    request[a] = "executed" /\ request[b] = "executed" /\ att[a].sched = att[b].sched => a = b

(* A request that was delivered, or may still be, is on record as a call
   that was started and is never recorded as not sent: the row keeps
   blocking another attempt (CALL_STARTED is committed before the call and
   only a definitive answer releases the schedule). *)
DeliveryStaysRecorded ==
  \A a \in Attempts :
    request[a] \in {"pending", "executed"} =>
      /\ att[a].status \notin {"UNUSED", "RESERVED"}
      /\ ~ IsNotSent(att[a])

(* A lead is SCHEDULED only while it has an active schedule, across cancel,
   reschedule, invalidation, confirmed sends and reconciliation: nothing
   else would ever pick the lead up again. *)
ScheduledLeadHasActiveSchedule ==
  \A l \in Leads : leadStatus[l] = "SCHEDULED" => activeForLead(l) # {}

(* Every call is made for a schedule bound to the very address the Gmail
   draft carries, however the contact fact and the schedule were changed
   between loading, confirming and sending. *)
CallsMatchTheDraftRecipient ==
  \A a \in Attempts :
    request[a] # "none" => sched[att[a].sched].recipient = DraftRecipient[leadOf(a)]

(* A lead is SENT only if Gmail delivered a message for it: an unknown
   outcome, a crash or a reconciliation never turns into a false SENT. *)
SentLeadWasDelivered ==
  \A l \in Leads : leadStatus[l] = "SENT" =>
    \E a \in Attempts : request[a] = "executed" /\ leadOf(a) = l

(* Whatever came between a call and its answer (a recovery, a reconciliation, a retry of
   the same schedule by another sender), the unique indexes admit the row of the answer:
   a delivery is never left unrecorded because another attempt took its schedule. *)
OutcomeCanBeRecorded ==
  \A p \in Senders : sender[p].pc = "waiting" =>
    \A status \in {"SENT_CONFIRMED", "OUTCOME_UNKNOWN"} :
      AttemptIndexesAdmit(sender[p].att, completeAttempt(sender[p].att, status))

Reserves(b) == att[b].status = "UNUSED" /\ att'[b].status # "UNUSED"

(* docs/DECISIONS.md: after a definitive failure "fresh readiness approval and new
   human confirmation before a new attempt" (fresh_readiness_required).  It does
   not hold: only the checks before the reservation look at the failures. *)
FreshReadinessAfterFailure ==
  [][\A a, b \in Attempts :
       Reserves(b) /\ att[a].sched = att'[b].sched /\ IsNotSent(att[a])
         => att[a].effectiveAt < att'[b].readyAt]_vars

(* What does hold: a retry is under an approval newer than every failure of its
   schedule that was on record when the retry was confirmed. *)
RetryIsApprovedAfresh ==
  [][\A p \in Senders, a, b \in Attempts :
       Reserves(b) /\ sender'[p].att = b /\ att[a].sched = att'[b].sched /\ IsNotSent(att[a])
         => \/ att[a].effectiveAt < att'[b].readyAt
            \/ sender[p].confirmedAt <= att[a].effectiveAt]_vars

(* Why at most one message goes out, as an inductive invariant.  A sender that holds an
   attempt is the only one to hold it, and the row and the request are as
   far as the sender is, except that a recovery may already have declared
   the outcome unknown; what may have been delivered is never recorded as
   not sent; and a schedule has at most one attempt not known to have
   failed. *)
Holding == {"reserved", "call", "waiting"}

HeldAttempts ==
  \A p \in Senders :
    /\ sender[p].pc \in Holding <=> sender[p].att # Nobody
    /\ sender[p].pc # "idle" => sender[p].sched \in Schedules /\ sender[p].lead \in Leads
    /\ sender[p].pc \in Holding =>
         /\ att[sender[p].att].sched = sender[p].sched
         /\ att[sender[p].att].reconciled # "CONFIRMED_NOT_SENT"
         /\ att[sender[p].att].status \in
              (IF sender[p].pc = "reserved" THEN {"RESERVED"} ELSE {"CALL_STARTED", "OUTCOME_UNKNOWN"})
         /\ sender[p].pc = "waiting" <=> request[sender[p].att] # "none"

OneHolder ==
  \A p, q \in Senders :
    sender[p].att # Nobody /\ sender[p].att = sender[q].att => p = q

EarlyRows ==
  \A a \in Attempts :
    /\ att[a].status = "UNUSED" => att[a] = UnusedAttempt
    /\ att[a].status \in {"UNUSED", "RESERVED"} => request[a] = "none"
    /\ att[a].status \in {"RESERVED", "CALL_STARTED"} => att[a].reconciled = "NONE"

Live(r) == r.status # "UNUSED" /\ ~ IsNotSent(r)

OneLiveAttempt ==
  \A a, b \in Attempts :
    Live(att[a]) /\ Live(att[b]) /\ att[a].sched = att[b].sched => a = b

SendInv == HeldAttempts /\ OneHolder /\ EarlyRows /\ DeliveryStaysRecorded /\ OneLiveAttempt

(* What the rows and the processes refer to.  Whoever holds the id of a schedule
   holds that of a row that was written, for the lead the holder works on; such a
   row only ever changes its status. *)
IsWritten(s) == s \in Schedules /\ sched[s].status # "UNUSED" /\ sched[s].lead \in Leads

BoundSenders ==
  \A p \in Senders : sender[p].pc # "idle" =>
    IsWritten(sender[p].sched) /\ sched[sender[p].sched].lead = sender[p].lead

BoundOperators ==
  \A o \in Operators :
    /\ op[o].task # "idle" => op[o].lead \in Leads
    /\ op[o].task \in {"reschedule", "cancel"} =>
         IsWritten(op[o].sched) /\ sched[op[o].sched].lead = op[o].lead

BoundAttempts == \A a \in Attempts : att[a].status # "UNUSED" => IsWritten(att[a].sched)

WrittenRows == \A s \in Schedules : sched[s].status # "UNUSED" => sched[s].lead \in Leads

RowsInv == BoundSenders /\ BoundOperators /\ BoundAttempts /\ WrittenRows

(* Behind CallsMatchTheDraftRecipient: a sender past the gates works on a
   schedule that is bound to the address of the draft. *)
Checked == {"verify", "recheck", "reserve"} \cup Holding

CheckedRecipient ==
  \A p \in Senders : sender[p].pc \in Checked =>
    sched[sender[p].sched].recipient = DraftRecipient[sender[p].lead]

CallsInv == CheckedRecipient /\ CallsMatchTheDraftRecipient

(* Behind RetryIsApprovedAfresh: nobody confirmed in the future, a row reconciled
   as sent was delivered, and a sender between its check and its reservation
   holds an approval newer than the failures that were on record when it was
   confirmed. *)
ConfirmedInThePast == \A p \in Senders : sender[p].confirmedAt <= now

ReconciledAsSentWasDelivered ==
  \A a \in Attempts : att[a].reconciled = "CONFIRMED_SENT" => request[a] = "executed"

FailuresWereSeen ==
  \A p \in Senders : sender[p].pc \in {"verify", "recheck", "reserve"} =>
    \A a \in attemptsOf(sender[p].sched) : IsNotSent(att[a]) =>
      \/ att[a].effectiveAt < sender[p].readyAt
      \/ sender[p].confirmedAt <= att[a].effectiveAt

RetryInv == ConfirmedInThePast /\ ReconciledAsSentWasDelivered /\ FailuresWereSeen

(* Behind OutcomeCanBeRecorded: the attempts of a schedule are under different
   approvals, and a message on record as confirmed was delivered. *)
ReadinessUsedOnce ==
  \A a, b \in Attempts :
    /\ att[a].status # "UNUSED" /\ att[b].status # "UNUSED"
    /\ att[a].sched = att[b].sched /\ att[a].readiness = att[b].readiness
    => a = b

ConfirmedWasDelivered ==
  \A a \in Attempts : att[a].status = "SENT_CONFIRMED" => request[a] = "executed"

AnswerInv == ReadinessUsedOnce /\ ConfirmedWasDelivered

(* The attempts reserved on day d that count against its cap once and for all: those that
   were or may still be delivered, except that after the day is over those confirmed on a
   later day are taken off. *)
ConfirmedLater(r, d) == IsConfirmed(r) /\ Day(r.effectiveAt) # d

chargedTo(d) ==
  {a \in Attempts : /\ Live(att[a]) /\ Day(att[a].reservedAt) = d
                    /\ d = Day(now) \/ ~ ConfirmedLater(att[a], d)}

(* As long as a UTC day lasts, the attempts reserved on it that were or may still be
   delivered never exceed the daily cap; and of a day that is over, those that were
   confirmed on it or may still be delivered do not (the count under reserveAttempt's lock).
   A row is built before its transaction: one that is inserted after midnight no longer
   sees what was confirmed since, so a past day may hold more reservations than the cap. *)
ReservationsPerDayWithinCap ==
  \A d \in {Day(att[a].reservedAt) : a \in Attempts} : Cardinality(chargedTo(d)) <= DailyCap

(* Behind ReservationsPerDayWithinCap: nothing on a row, nor on a row about to be inserted,
   lies in the future, and a message is confirmed no earlier than its attempt was reserved;
   so on the day of its reservation a live attempt is counted, confirmed or not. *)
RowTimes ==
  \A a \in Attempts :
    /\ att[a].reservedAt <= now /\ att[a].effectiveAt <= now
    /\ att[a].status = "SENT_CONFIRMED" \/ att[a].reconciled # "NONE" =>
         att[a].reservedAt <= att[a].effectiveAt

BuiltInThePast == \A p \in Senders : sender[p].reservedAt <= now

FinitelyManyRows == IsFiniteSet({a \in Attempts : att[a].status # "UNUSED"})

CapInv == RowTimes /\ BuiltInThePast /\ FinitelyManyRows /\ ReservationsPerDayWithinCap

(* The stage of an attempt in SendOnce: the rows say whether it still holds
   its schedule, Gmail whether it was delivered. *)
attemptStage ==
  [a \in Attempts |->
     IF att[a].status = "UNUSED" THEN "free"
     ELSE IF request[a] = "executed" THEN "delivered"
     ELSE IF IsNotSent(att[a]) THEN "released"
     ELSE "held"]

Once == INSTANCE SendOnce WITH
  stage <- attemptStage, claim <- [a \in Attempts |-> att[a].sched], None <- Nobody

(* Every behaviour is one of SendOnce: a schedule is never claimed beside a
   live or delivered attempt, and a claim is given up only undelivered. *)
SendsOnce == Once!OnceSpec

(* A lead's status tells what happened to its e-mail: SCHEDULED while a schedule
   waits, SENT once Gmail has it, whoever cancelled, failed or crashed. *)
LeadStatusIsTrue == ScheduledLeadHasActiveSchedule /\ SentLeadWasDelivered

=============================================================================
