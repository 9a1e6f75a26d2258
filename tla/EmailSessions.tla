---------------------------- MODULE EmailSessions ----------------------------
(***************************************************************************)
(* The paid sessions around one e-mail of one lead: the writer composes    *)
(* it and has it reviewed, and as long as no verdict let it through a      *)
(* resumed review may be tried again.  Each model call costs money, which  *)
(* is to be booked whatever came of it and kept under the lead's cap.      *)
(*                                                                         *)
(* Sources: src/domain/email/{email-writer-service,resume-email-review,    *)
(* resume-commit}.ts, the e-mail repository, the debug store and the       *)
(* generate-emails and resume-email-review commands.                       *)
(*                                                                         *)
(* EmailApproval has the drafts' later life.  A call, a file and a         *)
(* transaction are a step each; the live provider is modelled, the mock    *)
(* one is free.                                                            *)
(***************************************************************************)
EXTENDS EmailRules

CONSTANTS
  Authors,              \* sessions of the two commands
  Places,               \* what the e-mail may be in its sequence
  Copies,               \* at each step, the writer's answers that satisfy its schema
  Reviews,              \* answers of the reviewer that satisfy its schema
  InputVersions,        \* at each step, what facts, findings and demo may be at a time
  CallCosts,            \* what a call may cost; 0 when the provider reports nothing
  WorstCase, CostCap, MaxCalls, \* worstCaseCostUsd, EMAIL_MAX_COST_USD_PER_LEAD, EMAIL_MAX_CALLS_PER_LEAD
  MaxRows, MaxAuthorings        \* bounds

ASSUME SessionAssumption ==
  /\ CallCosts \subseteq 0..WorstCase
  /\ \A n \in SequenceStep : \A copy \in Copies[n] : isWriterOutput(copy)
  /\ \A review \in Reviews : isReviewOutput(review)

VARIABLES
  place,        \* step, thread, messages sent so far, kind of recipient
  leadAt,       \* leads.status
  rows,         \* email_drafts of the lead at this step
  files,        \* debug records that hold a draft: run and draft
  author,       \* local state of each session
  world,        \* the inputs as they are now, and the verified recipient
  paid,         \* history: what the calls cost
  booked,       \* model_calls: what was recorded of it
  dropped,      \* history: cost of the sessions that ended without booking
  mixed,        \* history: two sessions of this e-mail were under way at once
  unpriced,     \* history: a call was made whose cost is not known
  authorings    \* sessions started so far; the run of each

sessionVars == <<place, leadAt, rows, files, author, world, paid, booked, dropped, mixed, unpriced, authorings>>

EmailOutcome ==
  {"none", "APPROVED", "REVIEW_REJECTED", "VALIDATION_FAILED", "SCHEMA_INVALID", "BUDGET_BLOCKED", "MODEL_REFUSAL", "failed"}

(* The columns of email_drafts a resumed review goes by. *)
isDraftRow(row) ==
  /\ row.run \in 1..MaxAuthorings /\ row.status \in {"APPROVED", "REVIEW_FAILED"}
  /\ row.totalCostUsd \in Nat /\ row.rendered.ask \in Asks \cup {"FINAL_CLOSE"}

Idle == [op |-> "idle", run |-> 0, inputs |-> [version |-> 0], copy |-> [body |-> <<>>], row |-> 0,
         total |-> 0, cost |-> 0, calls |-> 0, unaccountable |-> FALSE, outcome |-> "none"]

position == [step |-> place.step, thread |-> place.thread, prior |-> place.prior]
bound == place.step > 0

SessionsInit ==
  /\ place \in Places
  /\ leadAt = IF place.step = 0 THEN "OPPORTUNITY_READY" ELSE "SENT"
  /\ rows = <<>> /\ files = {} /\ author = [s \in Authors |-> Idle]
  /\ world \in [inputs : InputVersions[place.step], recipient : {place.recipient}]
  /\ paid = 0 /\ booked = 0 /\ dropped = 0 /\ mixed = FALSE /\ unpriced = FALSE /\ authorings = 0

at(s, op) == author[s].op = op
busy == {s \in Authors : author[s] # Idle}

open(s, session) ==
  /\ author[s] = Idle /\ authorings < MaxAuthorings
  /\ authorings' = authorings + 1
  /\ author' = [author EXCEPT ![s] = session]
  /\ mixed' = (mixed \/ busy # {})

step(s, session) == author' = [author EXCEPT ![s] = session] /\ UNCHANGED <<mixed, authorings>>
close(s) == author' = [author EXCEPT ![s] = Idle] /\ UNCHANGED <<mixed, authorings>>

(* An error reaches generateEmails, which counts it and goes on, or the
   process dies: what the session paid for is in no table. *)
giveUp(s) == close(s) /\ dropped' = dropped + author[s].cost

(***************************************************************************)
(* Writing                                                                 *)
(***************************************************************************)
canCall(a) == ~ a.unaccountable /\ a.calls < MaxCalls /\ a.cost + WorstCase <= CostCap

(* modelCalls, callsMade and cost after an answer. *)
record(a, cost) ==
  [a EXCEPT !.calls = @ + 1, !.cost = @ + cost, !.unaccountable = @ \/ cost = 0]

pay(cost) == paid' = paid + cost /\ unpriced' = (unpriced \/ cost = 0)

(* generate-emails lists the lead, or the follow-up of it is due and the
   preparation run finds no draft of it. *)
awaitsEmail ==
  /\ leadAt = (IF bound THEN "SENT" ELSE "OPPORTUNITY_READY")
  /\ bound => rows = <<>>

write(s) ==
  LET a == [Idle EXCEPT !.run = authorings + 1, !.inputs = world]
  IN
  /\ awaitsEmail
  /\ open(s, [a EXCEPT !.op = IF canCall(a) THEN "writing" ELSE "finishing", !.outcome = "BUDGET_BLOCKED"])
  /\ UNCHANGED <<place, leadAt, rows, files, world, paid, booked, dropped, unpriced>>

(* A refusal, a rate limit, a provider error: nothing to keep but the cost.
   Mutant: the command returns at once. *)
callFails_Returns(s, a) == close(s)

callFails(s, a) == step(s, [a EXCEPT !.op = "finishing", !.outcome = "MODEL_REFUSAL"])

writerFails(s, cost) ==
  /\ at(s, "writing")
  /\ pay(cost)
  /\ \/ callFails(s, record(author[s], cost))
     \/ step(s, [record(author[s], cost) EXCEPT !.op = "filing", !.outcome = "SCHEMA_INVALID"])
  /\ UNCHANGED <<place, leadAt, rows, files, world, booked, dropped>>

valid(copy, inputs) == validateEmail(copy, buildEmailContext(inputs), position)

(* Mutant: an e-mail the rules refuse is reviewed all the same. *)
afterWriting_Lenient(a) ==
  IF ~ canCall(a) THEN [a EXCEPT !.op = "finishing", !.outcome = "BUDGET_BLOCKED"]
                  ELSE [a EXCEPT !.op = "reviewing"]

afterWriting(a) ==
  IF ~ valid(a.copy, a.inputs.inputs) THEN [a EXCEPT !.op = "filing", !.outcome = "VALIDATION_FAILED"]
  ELSE IF ~ canCall(a) THEN [a EXCEPT !.op = "finishing", !.outcome = "BUDGET_BLOCKED"]
  ELSE [a EXCEPT !.op = "reviewing"]

writerAnswers(s, copy, cost) ==
  /\ at(s, "writing")
  /\ pay(cost)
  /\ step(s, afterWriting([record(author[s], cost) EXCEPT !.copy = copy]))
  /\ UNCHANGED <<place, leadAt, rows, files, world, booked, dropped>>

reviewerFails(s, cost) ==
  /\ at(s, "reviewing")
  /\ pay(cost)
  /\ \/ callFails(s, record(author[s], cost))
     \/ step(s, [record(author[s], cost) EXCEPT !.op = "filing", !.outcome = "SCHEMA_INVALID"])
  /\ UNCHANGED <<place, leadAt, rows, files, world, booked, dropped>>

verdictOn(review) ==
  IF isEmailReviewApprovable(review, place.step, place.thread # NoThread) THEN "APPROVED" ELSE "REVIEW_REJECTED"

reviewerAnswers(s, review, cost) ==
  /\ at(s, "reviewing")
  /\ pay(cost)
  /\ step(s, [record(author[s], cost) EXCEPT !.op = "filing", !.outcome = verdictOn(review)])
  /\ UNCHANGED <<place, leadAt, rows, files, world, booked, dropped>>

(* LocalEmailDebugStore.record, which is not caught here. *)
recordDebug(s) ==
  LET a == author[s] IN
  /\ at(s, "filing")
  /\ \/ /\ files' = IF a.copy # Idle.copy THEN files \cup {[run |-> a.run, draft |-> a.copy]} ELSE files
        /\ step(s, [a EXCEPT !.op = "finishing"]) /\ UNCHANGED dropped
     \/ giveUp(s) /\ UNCHANGED files
  /\ UNCHANGED <<place, leadAt, rows, world, paid, booked, unpriced>>

routed(status, rendered) ==
  IF status # "APPROVED" THEN "EMAIL_REVIEW_FAILED"
  ELSE IF hasDemoUrlPlaceholder(rendered) THEN "WAITING_FOR_DEMO_URL" ELSE "READY_FOR_HUMAN_APPROVAL"

(* email_drafts_outreach_sequence_uk *)
slotAdmits == Len(rows) < MaxRows /\ (bound => rows = <<>>)

draftRow(run, status, copy, rendered, cost) ==
  [run |-> run, status |-> status, copy |-> copy, rendered |-> rendered, totalCostUsd |-> cost]

buildPersist(a) ==
  draftRow(a.run, IF a.outcome = "APPROVED" THEN "APPROVED" ELSE "REVIEW_FAILED", a.copy,
           renderEmail(a.copy, a.inputs.inputs, a.inputs.recipient, position), a.cost)

(* The outcomes that leave an e-mail row; the others only book their calls. *)
persistsDraft(outcome) == outcome \in {"VALIDATION_FAILED", "REVIEW_REJECTED", "APPROVED"}

preOutreach == leadAt = IF bound THEN "SENT" ELSE "OPPORTUNITY_READY"

finishWriting(s) ==
  LET a == author[s]
      row == buildPersist(a)
  IN
  /\ at(s, "finishing")
  /\ IF persistsDraft(a.outcome)
     THEN /\ slotAdmits /\ rows' = Append(rows, row)
          /\ leadAt' = IF preOutreach THEN routed(row.status, row.rendered) ELSE leadAt
     ELSE /\ UNCHANGED rows
          /\ leadAt' = IF preOutreach THEN "EMAIL_REVIEW_FAILED" ELSE leadAt
  /\ booked' = booked + a.cost
  /\ close(s)
  /\ UNCHANGED <<place, files, world, paid, dropped, unpriced>>

(***************************************************************************)
(* resume-email-review                                                     *)
(***************************************************************************)
findByLeadAndRun(run) == {f \in files : f.run = run}

(* The recipient is not among the inputs the command loads. *)
rerendered(draft, inputs) == renderEmail(draft, inputs, "unknown", position)

(* Mutant: the retry is admitted when this one call fits. *)
withinBudget_OneCall(total) == WorstCase <= CostCap

withinBudget(total) == total + WorstCase <= CostCap

(* Everything is read before the paid call; any abort changes nothing. *)
resume(s, n) ==
  LET row == rows[n] IN
  /\ row.status = "REVIEW_FAILED"
  /\ leadAt = "EMAIL_REVIEW_FAILED"
  /\ place.step > 0 => place.thread # NoThread /\ place.prior # {}
  /\ \E f \in findByLeadAndRun(row.run) :
       /\ rerendered(f.draft, world.inputs) = row.rendered
       /\ valid(f.draft, world.inputs)
       /\ withinBudget(row.totalCostUsd)
       /\ open(s, [Idle EXCEPT !.op = "judging", !.run = authorings + 1, !.inputs = world, !.copy = f.draft,
                               !.row = n, !.total = row.totalCostUsd])
  /\ UNCHANGED <<place, leadAt, rows, files, world, paid, booked, dropped, unpriced>>

(* The provider answers with a verdict, or with nothing usable; the local
   diagnostic of the latter holds no draft and its failure is caught. *)
reviewResumed(s, outcome, cost) ==
  /\ at(s, "judging")
  /\ pay(cost)
  /\ step(s, [author[s] EXCEPT !.op = "committing", !.cost = cost, !.outcome = outcome])
  /\ UNCHANGED <<place, leadAt, rows, files, world, booked, dropped>>

resumedStatus(outcome) == IF outcome = "APPROVED" THEN "APPROVED" ELSE "REVIEW_FAILED"

append(a) ==
  /\ Len(rows) < MaxRows
  /\ rows' = Append(rows, draftRow(a.run, resumedStatus(a.outcome), a.copy, rows[a.row].rendered, a.cost))

(* applyReviewOutcome writes a total computed from the row as it was read. *)
recoverInPlace(a) ==
  rows' = [rows EXCEPT ![a.row].status = resumedStatus(a.outcome), ![a.row].totalCostUsd = a.total + a.cost]

(* Mutant: the failed attempt replaces the total. *)
recordFailedReviewAttempt_Set(a) == rows' = [rows EXCEPT ![a.row].totalCostUsd = a.cost]

(* Incremented in the database. *)
recordFailedReviewAttempt(a) == rows' = [rows EXCEPT ![a.row].totalCostUsd = @ + a.cost]

createResumeCommit(s) ==
  LET a == author[s] IN
  /\ at(s, "committing")
  /\ IF a.outcome = "failed" THEN recordFailedReviewAttempt(a)
     ELSE IF bound THEN recoverInPlace(a) ELSE append(a)
  /\ leadAt' = IF a.outcome # "failed" /\ leadAt = "EMAIL_REVIEW_FAILED"
               THEN routed(resumedStatus(a.outcome), rows[a.row].rendered) ELSE leadAt
  /\ booked' = booked + a.cost
  /\ close(s)
  /\ UNCHANGED <<place, files, world, paid, dropped, unpriced>>

(***************************************************************************)
(* The world around the sessions                                           *)
(***************************************************************************)
(* Facts are superseded, a finding or demo is judged anew. *)
inputsChange(inputs) ==
  /\ inputs # world.inputs
  /\ world' = [world EXCEPT !.inputs = inputs]
  /\ UNCHANGED <<place, leadAt, rows, files, author, paid, booked, dropped, mixed, unpriced, authorings>>

cleanupExpired(f) ==
  /\ f \in files /\ files' = files \ {f}
  /\ UNCHANGED <<place, leadAt, rows, author, world, paid, booked, dropped, mixed, unpriced, authorings>>

(* The process dies, or the transaction fails: a full database, the slot's
   unique index. *)
sessionFails(s) ==
  /\ author[s] # Idle /\ giveUp(s)
  /\ UNCHANGED <<place, leadAt, rows, files, world, paid, booked, unpriced>>

SessionsNext ==
  \/ \E s \in Authors :
       \/ write(s) \/ recordDebug(s) \/ finishWriting(s) \/ createResumeCommit(s) \/ sessionFails(s)
       \/ \E n \in DOMAIN rows : resume(s, n)
       \/ \E cost \in CallCosts :
            \/ writerFails(s, cost) \/ reviewerFails(s, cost)
            \/ \E copy \in Copies[place.step] : writerAnswers(s, copy, cost)
            \/ \E review \in Reviews : reviewerAnswers(s, review, cost) \/ reviewResumed(s, verdictOn(review), cost)
            \/ reviewResumed(s, "failed", cost)
  \/ \E inputs \in InputVersions[place.step] : inputsChange(inputs)
  \/ \E f \in files : cleanupExpired(f)

SessionsSpec == SessionsInit /\ [][SessionsNext]_sessionVars

(***************************************************************************)
(* Properties                                                              *)
(***************************************************************************)
SessionsTypeOK ==
  /\ leadAt \in {"OPPORTUNITY_READY", "SENT", "EMAIL_REVIEW_FAILED", "WAITING_FOR_DEMO_URL", "READY_FOR_HUMAN_APPROVAL"}
  /\ Len(rows) <= MaxRows /\ \A n \in DOMAIN rows : isDraftRow(rows[n])
  /\ \A s \in Authors : author[s].outcome \in EmailOutcome

inFlight == LET total[S \in SUBSET Authors] ==
                  IF S = {} THEN 0 ELSE LET s == CHOOSE s \in S : TRUE IN author[s].cost + total[S \ {s}]
            IN  total[Authors]

(* Whatever a session ended with - a refusal, a schema error, a refused or
   an approved e-mail - the calls it paid for are in model_calls; only a
   session that died or whose storage failed leaves a cost unbooked. *)
BooksBalance == paid = booked + dropped + inFlight

(* The draft of a follow-up carries the cost of every call made for it,
   failed attempts included, so long as its sessions did not overlap; it
   never carries more than was booked. *)
TotalsAddUp ==
  \A n \in DOMAIN rows : /\ rows[n].totalCostUsd <= booked
                         /\ bound /\ ~ mixed => rows[n].totalCostUsd = booked

(* Retrying the review of a follow-up never takes the calls for it past the
   cap, when one session runs after the other, each ends by itself and the
   provider reports what its calls cost. *)
KeptUnderCap == bound /\ ~ mixed /\ ~ unpriced /\ dropped = 0 => paid <= CostCap

(* Four content words in a row that a sent message has in a row. *)
replays(body) ==
  LET c == contentTokens(body, place.thread) IN
  \E b \in place.prior :
    LET p == contentTokens(b, place.thread) IN
    \E i \in 1..(Len(c) - 3), j \in 1..(Len(p) - 3) : SubSeq(c, i, i + 3) = SubSeq(p, j, j + 3)

(* An approved follow-up continues the thread under its subject, lifts no
   clause of a sent message if it is long enough to be judged, and, when it
   is the last one, asks for a yes or no.  Nobody is greeted by name whose
   address was not verified as their own. *)
ApprovedKeepTheRules ==
  \A n \in DOMAIN rows : rows[n].status = "APPROVED" =>
    LET mail == rows[n].rendered IN
    /\ mail.named => world.recipient = "PERSONAL_VERIFIED"
    /\ bound => /\ mail.subject = replySubject(place.thread)
                /\ Len(contentTokens(mail.body, place.thread)) >= 10 => ~ replays(mail.body)
    /\ place.step = FINAL_FOLLOWUP_STEP => mail.ask = "FINAL_CLOSE"

(* A lead that waits for a person or for its demo has a draft the reviewer
   approved; only an overlapping review may have taken the approval of a
   follow-up away again. *)
ReadyIsApproved ==
  leadAt \in {"READY_FOR_HUMAN_APPROVAL", "WAITING_FOR_DEMO_URL"} =>
    (\E n \in DOMAIN rows : rows[n].status = "APPROVED") \/ (bound /\ mixed)

SessionsSound == SessionsTypeOK /\ BooksBalance /\ TotalsAddUp /\ KeptUnderCap /\ ApprovedKeepTheRules /\ ReadyIsApproved

=============================================================================
