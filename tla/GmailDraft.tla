------------------------------ MODULE GmailDraft ------------------------------
(***************************************************************************)
(* Creating the Gmail draft of an approved e-mail.  Any number of workers  *)
(* (create-gmail-drafts, the follow-up progression timer) run the draft    *)
(* service at the same time as e-mails are written, decided and finalized  *)
(* (EmailApproval); they share the database rows and the mailbox.          *)
(*                                                                         *)
(* Sources: src/domain/gmail, src/persistence/repositories/gmail*.repo.ts, *)
(* src/cli/commands/create-gmail-drafts.ts and the gmail_drafts table.     *)
(*                                                                         *)
(* One mailbox; the feature switches are on.  Steps are split as in        *)
(* ControlledSend: a transaction or a run of reads is one step.            *)
(***************************************************************************)
EXTENDS EmailApproval

CONSTANTS
  Recipients,                 \* contact_email addresses
  Workers,                    \* processes running the Gmail draft service
  Runs,                       \* ids of gmail_drafts rows
  MaxPerDay, MinInterval,     \* the throttles
  DayLength,                  \* ticks in one UTC day
  MaxTime                     \* bound on the clock

ASSUME DraftAssumption ==
  /\ MaxPerDay \in Nat \ {0} /\ MinInterval \in Nat /\ DayLength \in Nat \ {0} /\ MaxTime \in Nat
  /\ Nobody \notin Recipients \cup Runs

VARIABLES
  contact,    \* the current contact_email fact of each lead
  row,        \* gmail_drafts
  request,    \* Gmail: the fate of the drafts.create call of each row
  worker,     \* local state of each worker
  now         \* the clock

draftVars == <<contact, row, request, worker, now>>
vars == <<approvalVars, draftVars>>

RowOutcome ==
  {"UNUSED", "TRANSIENT_ERROR", "RATE_LIMITED", "AUTH_ERROR", "DRAFT_FAILED",
   "DRAFT_CREATED", "DUPLICATE_REUSED", "MANUAL_REVIEW_REQUIRED"}

(* <<lead, finalized e-mail, recipient>> stands for the idempotency
   fingerprint of the row; draftId tells whether provider_draft_id is set. *)
Row == [outcome : RowOutcome, lead : Leads \cup {Nobody}, email : 0..MaxEmails,
        recipient : Recipients \cup {Nobody}, draftId : BOOLEAN, createdAt : Nat]

WorkerPC == {"idle", "listed", "verify", "reconcile", "reuse", "park", "reserve", "call", "waiting"}

Worker == [pc : WorkerPC, lead : Leads \cup {Nobody}, email : 0..MaxEmails,
           recipient : Recipients \cup {Nobody}, startedAt : Nat, run : Runs \cup {Nobody}]

RequestState == {"none", "pending", "executed", "refused"}

UnusedRow == [outcome |-> "UNUSED", lead |-> Nobody, email |-> 0, recipient |-> Nobody,
              draftId |-> FALSE, createdAt |-> 0]
IdleWorker == [pc |-> "idle", lead |-> Nobody, email |-> 0, recipient |-> Nobody,
               startedAt |-> 0, run |-> Nobody]

TypeOK ==
  /\ ApprovalTypeOK
  /\ contact \in [Leads -> Recipients \cup {Nobody}]
  /\ row \in [Runs -> Row]
  /\ request \in [Runs -> RequestState]
  /\ worker \in [Workers -> Worker]
  /\ now \in Nat

Init ==
  /\ ApprovalInit
  /\ contact \in [Leads -> Recipients \cup {Nobody}]
  /\ row = [r \in Runs |-> UnusedRow]
  /\ request = [r \in Runs |-> "none"]
  /\ worker = [w \in Workers |-> IdleWorker]
  /\ now = 0

(***************************************************************************)
(* Queries                                                                 *)
(***************************************************************************)
used == {r \in Runs : row[r].outcome # "UNUSED"}

(* Rows of the fingerprint the worker computed. *)
sameFingerprint(l, n, c) == {r \in used : row[r].lead = l /\ row[r].email = n /\ row[r].recipient = c}

existingByFingerprint(l, n, c) ==
  \E r \in sameFingerprint(l, n, c) : row[r].outcome = "DRAFT_CREATED"

findReservedByFingerprint(l, n, c) ==
  {r \in sameFingerprint(l, n, c) : row[r].outcome \notin {"DRAFT_CREATED", "DUPLICATE_REUSED"}}

Day(t) == t \div DayLength

draftsToday(t) == Cardinality({r \in used : row[r].createdAt >= Day(t) * DayLength})

(* Mutant: only the interval since the last attempt is looked at. *)
throttled_IntervalOnly(t) == \E r \in used : t < row[r].createdAt + MinInterval

throttled(t) ==
  \/ draftsToday(t) >= MaxPerDay
  \/ \E r \in used : t < row[r].createdAt + MinInterval

(* Mutant: the lead's latest e-mail, finalized or not. *)
latestFinalization_AnyDraft(l) == written[l]

(* GmailInputRepository.latest: the lead's latest finalization, whichever
   of its e-mails that is of. *)
latestFinalization(l) == finalized[l][Len(finalized[l])]

(***************************************************************************)
(* The mailbox (external)                                                  *)
(***************************************************************************)
Execute(r) ==
  /\ request[r] = "pending"
  /\ request' = [request EXCEPT ![r] = "executed"]
  /\ UNCHANGED <<approvalVars, contact, row, worker, now>>

Refuse(r) ==
  /\ request[r] = "pending"
  /\ request' = [request EXCEPT ![r] = "refused"]
  /\ UNCHANGED <<approvalVars, contact, row, worker, now>>

(***************************************************************************)
(* GmailDraftService.createDraft                                           *)
(***************************************************************************)
GoTo(w, pc) == worker' = [worker EXCEPT ![w].pc = pc]

Stop(w) == worker' = [worker EXCEPT ![w] = IdleWorker]

(* The row's outcome is written whatever it was. *)
completeRun(r, outcome) == row' = [row EXCEPT ![r].outcome = outcome]

(* if (lead.status === 'HUMAN_APPROVED') transition(leadId, to) *)
routeApproved(l, to) ==
  leadStatus' = IF leadStatus[l] = "HUMAN_APPROVED" THEN [leadStatus EXCEPT ![l] = to] ELSE leadStatus

restOfApproval == <<email, written, sent, finalized, validated, writer, shown>>

(* The command lists the HUMAN_APPROVED leads once, before its loop. *)
ListLead(w, l) ==
  /\ worker[w].pc = "idle"
  /\ leadStatus[l] = "HUMAN_APPROVED"
  /\ worker' = [worker EXCEPT ![w].pc = "listed", ![w].lead = l]
  /\ UNCHANGED <<approvalVars, contact, row, request, now>>

(* The input is read and eligible; it is not a draft that exists. *)
Eligible(w) ==
  LET l == worker[w].lead IN
  /\ worker[w].pc = "listed"
  /\ finalized[l] # <<>> /\ contact[l] # Nobody
  /\ ~ existingByFingerprint(l, latestFinalization(l), contact[l])
  /\ worker' = [worker EXCEPT ![w].pc = "verify", ![w].email = latestFinalization(l),
                              ![w].recipient = contact[l], ![w].startedAt = now]
  /\ UNCHANGED <<approvalVars, contact, row, request, now>>

(* DUPLICATE_REUSED, NO_RECIPIENT, INVALID_ELIGIBILITY: only an event. *)
NotEligible(w) ==
  LET l == worker[w].lead IN
  /\ worker[w].pc = "listed"
  /\ \/ finalized[l] = <<>> \/ contact[l] = Nobody
     \/ finalized[l] # <<>> /\ existingByFingerprint(l, latestFinalization(l), contact[l])
  /\ Stop(w)
  /\ UNCHANGED <<approvalVars, contact, row, request, now>>

(* The tokens resolve and the account is the configured one ... *)
Verified(w) ==
  /\ worker[w].pc = "verify"
  /\ GoTo(w, "reconcile")
  /\ UNCHANGED <<approvalVars, contact, row, request, now>>

(* ... or not: INVALID_TOKENS, ACCOUNT_MISMATCH, AUTH_ERROR. *)
NotVerified(w) ==
  /\ worker[w].pc = "verify"
  /\ routeApproved(worker[w].lead, "NEEDS_MANUAL_REVIEW")
  /\ Stop(w)
  /\ UNCHANGED <<restOfApproval, contact, row, request, now>>

(* Look for an earlier attempt of the same fingerprint, then the throttles. *)
Reconcile(w) ==
  LET i == worker[w]
      reserved == findReservedByFingerprint(i.lead, i.email, i.recipient)
  IN
  /\ i.pc = "reconcile"
  /\ \/ \E r \in reserved :
          worker' = [worker EXCEPT ![w].pc = IF row[r].draftId THEN "reuse" ELSE "park",
                                   ![w].run = r]
     \/ reserved = {} /\ throttled(i.startedAt) /\ Stop(w)
     \/ reserved = {} /\ ~ throttled(i.startedAt) /\ GoTo(w, "reserve")
  /\ UNCHANGED <<approvalVars, contact, row, request, now>>

(* terminal(..., reserved.id) of the two reconciling outcomes. *)
ReuseReserved(w) ==
  /\ worker[w].pc = "reuse"
  /\ completeRun(worker[w].run, "DUPLICATE_REUSED")
  /\ Stop(w)
  /\ UNCHANGED <<approvalVars, contact, request, now>>

ParkUncertain(w) ==
  /\ worker[w].pc = "park"
  /\ completeRun(worker[w].run, "MANUAL_REVIEW_REQUIRED")
  /\ routeApproved(worker[w].lead, "NEEDS_MANUAL_REVIEW")
  /\ Stop(w)
  /\ UNCHANGED <<restOfApproval, contact, request, now>>

(* Mutant: the table has no unique fingerprint index. *)
reserveRun_NoIndex(w, r) ==
  LET i == worker[w] IN
  /\ i.pc = "reserve" /\ r \notin used
  /\ row' = [row EXCEPT ![r] = [outcome |-> "TRANSIENT_ERROR", lead |-> i.lead, email |-> i.email,
                                recipient |-> i.recipient, draftId |-> FALSE,
                                createdAt |-> i.startedAt]]
  /\ worker' = [worker EXCEPT ![w].pc = "call", ![w].run = r]
  /\ UNCHANGED <<approvalVars, contact, request, now>>

(* The insert, under gmail_drafts_fingerprint_uk. *)
reserveRun(w, r) ==
  LET i == worker[w] IN
  /\ i.pc = "reserve" /\ r \notin used
  /\ sameFingerprint(i.lead, i.email, i.recipient) = {}
  /\ row' = [row EXCEPT ![r] = [outcome |-> "TRANSIENT_ERROR", lead |-> i.lead, email |-> i.email,
                                recipient |-> i.recipient, draftId |-> FALSE,
                                createdAt |-> i.startedAt]]
  /\ worker' = [worker EXCEPT ![w].pc = "call", ![w].run = r]
  /\ UNCHANGED <<approvalVars, contact, request, now>>

(* The unique violation is thrown out of the service. *)
ReserveRefused(w) ==
  LET i == worker[w] IN
  /\ i.pc = "reserve"
  /\ sameFingerprint(i.lead, i.email, i.recipient) # {}
  /\ Stop(w)
  /\ UNCHANGED <<approvalVars, contact, row, request, now>>

CallProvider(w) ==
  /\ worker[w].pc = "call"
  /\ request' = [request EXCEPT ![worker[w].run] = "pending"]
  /\ GoTo(w, "waiting")
  /\ UNCHANGED <<approvalVars, contact, row, now>>

(* Mutant: a success without a draft id counts as a created draft. *)
finish_AnyAnswer(w) ==
  /\ worker[w].pc = "waiting"
  /\ row' = [row EXCEPT ![worker[w].run].outcome = "DRAFT_CREATED", ![worker[w].run].draftId = TRUE]
  /\ routeApproved(worker[w].lead, "DRAFT_CREATED")
  /\ Stop(w)
  /\ UNCHANGED <<restOfApproval, contact, request, now>>

(* The answer carries the draft's id. *)
finish(w) ==
  /\ worker[w].pc = "waiting" /\ request[worker[w].run] = "executed"
  /\ row' = [row EXCEPT ![worker[w].run].outcome = "DRAFT_CREATED", ![worker[w].run].draftId = TRUE]
  /\ routeApproved(worker[w].lead, "DRAFT_CREATED")
  /\ Stop(w)
  /\ UNCHANGED <<restOfApproval, contact, request, now>>

(* Rate limited (the request was refused), or a lost answer, a timeout or a
   server error, after which the draft may exist. *)
terminalRetryable(w) ==
  LET r == worker[w].run IN
  /\ worker[w].pc = "waiting"
  /\ \/ request[r] = "refused" /\ completeRun(r, "RATE_LIMITED")
     \/ completeRun(r, "TRANSIENT_ERROR")
  /\ Stop(w)
  /\ UNCHANGED <<approvalVars, contact, request, now>>

(* Authorization failed, or the answer is invalid (which a success without a
   draft id also is). *)
terminalFailed(w) ==
  LET r == worker[w].run IN
  /\ worker[w].pc = "waiting"
  /\ \/ request[r] = "refused" /\ completeRun(r, "AUTH_ERROR")
     \/ request[r] # "pending" /\ completeRun(r, "DRAFT_FAILED")
  /\ routeApproved(worker[w].lead, "NEEDS_MANUAL_REVIEW")
  /\ Stop(w)
  /\ UNCHANGED <<restOfApproval, contact, request, now>>

(* A worker may die between any two steps. *)
Crash(w) ==
  /\ worker[w].pc # "idle"
  /\ Stop(w)
  /\ UNCHANGED <<approvalVars, contact, row, request, now>>

(***************************************************************************)
(* Around it                                                               *)
(***************************************************************************)
SetContactEmail(l, c) ==
  /\ contact[l] # c
  /\ contact' = [contact EXCEPT ![l] = c]
  /\ UNCHANGED <<approvalVars, row, request, worker, now>>

(* Scheduling and sending, which ControlledSend is about: they need a row
   recorded as DRAFT_CREATED. *)
SendDraft(l) ==
  /\ leadStatus[l] = "DRAFT_CREATED"
  /\ \E r \in used : row[r].lead = l /\ row[r].outcome = "DRAFT_CREATED"
  /\ sent[l] <= MaxSteps
  /\ Move(l, "SENT")
  /\ sent' = [sent EXCEPT ![l] = @ + 1]
  /\ UNCHANGED <<email, written, finalized, validated, writer, shown, draftVars>>

Tick ==
  /\ now < MaxTime
  /\ now' = now + 1
  /\ UNCHANGED <<approvalVars, contact, row, request, worker>>

WorkerStep(w) ==
  \/ Eligible(w) \/ NotEligible(w) \/ Verified(w) \/ NotVerified(w) \/ Reconcile(w)
  \/ ReuseReserved(w) \/ ParkUncertain(w) \/ ReserveRefused(w) \/ CallProvider(w)
  \/ finish(w) \/ terminalRetryable(w) \/ terminalFailed(w)
  \/ \E r \in Runs : reserveRun(w, r)

Next ==
  \/ ApprovalNext /\ UNCHANGED draftVars
  \/ \E w \in Workers : WorkerStep(w) \/ Crash(w) \/ \E l \in Leads : ListLead(w, l)
  \/ \E r \in Runs : Execute(r) \/ Refuse(r)
  \/ \E l \in Leads : SendDraft(l) \/ \E c \in Recipients : SetContactEmail(l, c)
  \/ Tick

Spec == Init /\ [][Next]_vars

(***************************************************************************)
(* Properties                                                              *)
(***************************************************************************)
(* However workers overlap, crash and retry, the mailbox is asked at most
   once for the draft of one finalized e-mail to one recipient
   (gmail_drafts_fingerprint_uk and the reservation before the call). *)
OneDraftPerFingerprint ==
  \A r, s \in used :
    r # s /\ request[r] # "none" /\ request[s] # "none"
      => <<row[r].lead, row[r].email, row[r].recipient>>
           # <<row[s].lead, row[s].email, row[s].recipient>>

(* A lead handed on to scheduling has a draft in the mailbox whose id is on
   record (GmailDraftService.finish). *)
DraftedLeadHasDraft ==
  \A l \in Leads : leadStatus[l] = "DRAFT_CREATED" =>
    \E r \in used : row[r].lead = l /\ row[r].draftId /\ request[r] = "executed"

(* The mailbox is only asked for the draft of an e-mail that is finalized for
   the lead of the row and that a person has decided on, however the listing,
   the rewriting of e-mails, the two transactions of a finalization and the
   workers overlap (checkGmailEligibility over the latest finalization, which
   the reply path inserted earlier).  The decision itself may since have
   become a rejection: nothing reads it again. *)
DraftsOnlyDecidedEmails ==
  [][\A r \in Runs :
       request[r] = "none" /\ request'[r] = "pending"
         => /\ isFinalized(row[r].lead, row[r].email)
            /\ isDecided(row[r].lead, row[r].email)]_vars

(* Rows of the table created in the n ticks from t on. *)
createdWithin(t, n) == {r \in used : t <= row[r].createdAt /\ row[r].createdAt < t + n}

(* The throttles are read before the insert and not enforced by it, so the operator's
   command and the timer, reading them at once, pass the daily limit together; they never
   pass it by more than one row for each worker but the first, however they go on, and the
   rows of one interval are never more than the workers.  With a single worker these are
   the limits of the configuration (createDraft, draftsToday, lastAttemptAt). *)
DraftsWithinBudget ==
  \A r \in used :
    /\ Cardinality(createdWithin(Day(row[r].createdAt) * DayLength, DayLength))
         <= MaxPerDay + Cardinality(Workers) - 1
    /\ Cardinality(createdWithin(row[r].createdAt, MinInterval)) <= Cardinality(Workers)

(***************************************************************************)
(* The inductive invariant behind OneDraftPerFingerprint and               *)
(* DraftedLeadHasDraft                                                     *)
(***************************************************************************)
(* A worker past the listing works for a lead. *)
WorkerHasLead == \A w \in Workers : worker[w].pc # "idle" => worker[w].lead \in Leads

(* The row a worker holds is a row of the lead it works for. *)
HeldRows ==
  \A w \in Workers : worker[w].pc \in {"reuse", "park", "call", "waiting"} =>
    worker[w].run \in used /\ row[worker[w].run].lead = worker[w].lead

(* Nobody has called the mailbox for a row still to be called for, and only
   one worker is about to. *)
OneCaller ==
  \A w \in Workers : worker[w].pc = "call" =>
    /\ request[worker[w].run] = "none"
    /\ \A v \in Workers \ {w} : worker[v].pc = "call" => worker[v].run # worker[w].run

(* The mailbox is called for rows only. *)
CallsHaveRows == \A r \in Runs \ used : request[r] = "none"

FingerprintUnique ==
  \A r, s \in used :
    <<row[r].lead, row[r].email, row[r].recipient>> = <<row[s].lead, row[s].email, row[s].recipient>>
      => r = s

DraftInv ==
  WorkerHasLead /\ HeldRows /\ OneCaller /\ CallsHaveRows /\ FingerprintUnique /\ DraftedLeadHasDraft

(***************************************************************************)
(* The inductive invariants behind DraftsOnlyDecidedEmails and             *)
(* DraftsWithinBudget                                                      *)
(***************************************************************************)
(* A decision falls on a stored e-mail: no new draft takes its number. *)
DecidedAreWritten ==
  \A l \in Leads, n \in Emails : isDecided(l, n) => n <= written[l]

(* What is validated or finalized was decided on. *)
FinalizedAreDecided ==
  /\ \A l \in Leads, n \in Emails : <<l, n>> \in validated => isDecided(l, n)
  /\ \A l \in Leads, n \in Emails : isFinalized(l, n) => isDecided(l, n)

(* A worker past the gate, and every row, is about a finalized e-mail. *)
WorksOnFinalized(w) ==
  worker[w].email \in Emails /\ isFinalized(worker[w].lead, worker[w].email)

IsOfFinalized(r) ==
  row[r].lead \in Leads /\ row[r].email \in Emails /\ isFinalized(row[r].lead, row[r].email)

DraftsAreFinalized ==
  /\ \A w \in Workers : worker[w].pc \notin {"idle", "listed"} => WorksOnFinalized(w)
  /\ \A r \in used : IsOfFinalized(r)

DecidedInv == DecidedAreWritten /\ FinalizedAreDecided /\ DraftsAreFinalized

FinitelyManyDrafts == IsFiniteSet(used)

(* The workers the throttles have let through for a start in those ticks. *)
aboutToReserve(t, n) ==
  {w \in Workers : worker[w].pc = "reserve" /\ t <= worker[w].startedAt /\ worker[w].startedAt < t + n}

(* Rows and workers let through, of a day and of an interval, count together: an insert
   turns the one into the other. *)
BudgetsWithWorkers ==
  /\ \A d \in Nat :
       Cardinality(createdWithin(d * DayLength, DayLength)) + Cardinality(aboutToReserve(d * DayLength, DayLength))
         <= MaxPerDay + Cardinality(Workers) - 1
  /\ \A t \in Nat :
       Cardinality(createdWithin(t, MinInterval)) + Cardinality(aboutToReserve(t, MinInterval))
         <= Cardinality(Workers)

BudgetInv == FinitelyManyDrafts /\ BudgetsWithWorkers

=============================================================================
