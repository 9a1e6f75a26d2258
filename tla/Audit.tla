------------------------------- MODULE Audit --------------------------------
(***************************************************************************)
(* The website audit: paid model calls under a budget, the recovery        *)
(* envelope that protects what was paid for, its replay, the one-time      *)
(* repair of a failed validation, and the requeue of a parked lead.        *)
(*                                                                         *)
(* Sources: src/domain/audit, src/pipeline/audit-websites.ts,              *)
(* src/integrations/audit, src/integrations/llm/openai-responses.ts,       *)
(* src/persistence/repositories/audit.repo.ts, audit-input.repo.ts, and    *)
(* the commands audit-websites, resume-audit and requeue-lead-for-audit.   *)
(*                                                                         *)
(* An audit is known by the order it was started in.  Money is counted in  *)
(* units of the cheapest call.  What the models write is reduced to whether*)
(* it passes the validators.                                               *)
(***************************************************************************)
EXTENDS LeadPipeline, FiniteSetsExt

CONSTANTS
  CallCosts,               \* what a model call may cost
  WorstCaseCost,           \* worstCaseCostUsd of a call: no call costs more
  MaxCostPerLead,          \* MAX_LLM_COST_USD_PER_LEAD
  MaxCallsPerLead,         \* MAX_LLM_CALLS_PER_LEAD
  MaxCallsPerRun,          \* MAX_LLM_CALLS_PER_RUN
  MaxGeneratorAttempts, MaxReviewerAttempts,
  MaxAudits, MaxAuditEvents    \* bounds: audits started; crashes, edits, recaptures

ASSUME AuditAssumption ==
  /\ CallCosts \subseteq 0..WorstCaseCost
  /\ {WorstCaseCost, MaxCostPerLead, MaxCallsPerLead, MaxCallsPerRun, MaxGeneratorAttempts,
      MaxReviewerAttempts, MaxAudits, MaxAuditEvents} \subseteq Nat

VARIABLES
  stage,        \* leads.status
  captured,     \* the latest usable audit capture: its number, and whether its screenshots can be read
  audits,       \* audit_runs with their model_calls
  envelopes,    \* recovery envelopes on disk
  debugFiles,   \* debug envelopes of failed validations
  auditor,      \* what each session is doing
  started,      \* audits started so far
  ledger,       \* history: the calls and the money each audit really took
  auditEvents

auditVars == <<stage, captured, audits, envelopes, debugFiles, auditor, started, ledger, auditEvents>>

AuditIds == 1..MaxAudits

(* AUDITED with or without findings, RATE_LIMITED and TRANSIENT_PROVIDER_ERROR
   are told apart by nobody downstream; the outcomes no code produces are left
   out. *)
AuditOutcomes ==
  {"AUDITED", "MODEL_REFUSAL", "VALIDATION_FAILED", "PROVIDER_ERROR", "BUDGET_BLOCKED",
   "MANUAL_REVIEW_REQUIRED"}

(* repairs: the failed audit this one repairs, 0 for none.  repairable: it
   failed validation at its first and only generator call. *)
Row == [lead : Leads \cup {"none"}, outcome : AuditOutcomes \cup {"none"}, calls : 0..MaxCallsPerLead,
        capture : Nat, repairs : {0} \cup AuditIds, repairable : BOOLEAN]
NoRow == [lead |-> "none", outcome |-> "none", calls |-> 0, capture |-> 0, repairs |-> 0,
          repairable |-> FALSE]

AuditOps == {"idle", "recover", "replay", "batch", "model", "save", "persist", "commit", "delete", "move"}

(* A lead's evidence package, built when the batch is listed. *)
Package == [lead : Leads, run : Nat, images : BOOLEAN]
buildEvidencePackage(l) == [lead |-> l, run |-> captured[l].run, images |-> captured[l].images]

(* files: envelopes still to replay.  todo: packages still to audit.  made:
   calls of the batch.  attempts: LLM_MAX_GENERATOR_ATTEMPTS of this process.
   turn, attempt, calls, cost, blind: where the audit's loops are, what they
   spent, and whether a call's cost is unknown.  row: the result.  route: the
   status the transaction will write. *)
Auditor == [op : AuditOps, command : {"none", "audit-websites", "resume-audit", "repair", "requeue"},
            files : SUBSET AuditIds, todo : SUBSET Package, made : Nat,
            id : {0} \cup AuditIds, row : Row, images : BOOLEAN,
            attempts : 0..MaxGeneratorAttempts, turn : {"generate", "review"},
            attempt : 0..(MaxGeneratorAttempts + MaxReviewerAttempts),
            cost : Nat, blind : BOOLEAN, route : {"keep"} \cup LeadStatuses]
NoAuditor == [op |-> "idle", command |-> "none", files |-> {}, todo |-> {}, made |-> 0, id |-> 0,
              row |-> NoRow, images |-> FALSE, attempts |-> 0, turn |-> "generate", attempt |-> 0,
              cost |-> 0, blind |-> FALSE, route |-> "keep"]

AuditTypeOK ==
  /\ stage \in [Leads -> LeadStatuses]
  /\ captured \in [Leads -> [run : Nat, images : BOOLEAN]]
  /\ audits \in [AuditIds -> Row]
  /\ envelopes \in [AuditIds -> Row]
  /\ debugFiles \in [AuditIds -> {"none", "active", "archived"}]
  /\ auditor \in [Sessions -> Auditor]
  /\ started \in 0..MaxAudits
  /\ ledger \in [AuditIds -> [calls : Nat, cost : Nat, done : BOOLEAN]]
  /\ auditEvents \in 0..MaxAuditEvents

AuditInit ==
  /\ stage = [l \in Leads |-> "READY_FOR_AUDIT"]
  /\ captured = [l \in Leads |-> [run |-> 1, images |-> TRUE]]
  /\ audits = [a \in AuditIds |-> NoRow]
  /\ envelopes = [a \in AuditIds |-> NoRow]
  /\ debugFiles = [a \in AuditIds |-> "none"]
  /\ auditor = [w \in Sessions |-> NoAuditor]
  /\ started = 0
  /\ ledger = [a \in AuditIds |-> [calls |-> 0, cost |-> 0, done |-> FALSE]]
  /\ auditEvents = 0

Now(w, local) == auditor' = [auditor EXCEPT ![w] = local]
db == <<stage, captured, audits>>
disk == <<envelopes, debugFiles>>
history == <<started, ledger, auditEvents>>

(* The next lead of the batch; the calls of an audit that threw are not counted. *)
nextLead(w, calls) == [NoAuditor EXCEPT !.op = "batch", !.command = auditor[w].command,
                                        !.todo = auditor[w].todo, !.made = auditor[w].made + calls]

(***************************************************************************)
(* Commands                                                                *)
(***************************************************************************)
(* audit-websites replays the envelopes before it spends anything. *)
recoverEnvelopes(w) ==
  /\ auditor[w].op = "idle"
  /\ \E command \in {"audit-websites", "resume-audit"} :
       Now(w, [NoAuditor EXCEPT !.op = "recover", !.command = command,
                                !.files = {a \in AuditIds : envelopes[a] # NoRow}])
  /\ UNCHANGED <<db, disk, history>>

(* Mutant: the file goes when it has been read. *)
recoverOne_Consumed(w) ==
  /\ auditor[w].op = "recover"
  /\ \E a \in auditor[w].files :
       /\ envelopes' = [envelopes EXCEPT ![a] = NoRow]
       /\ Now(w, IF audits[a] # NoRow THEN [auditor[w] EXCEPT !.files = @ \ {a}]
                 ELSE [auditor[w] EXCEPT !.op = "persist", !.files = @ \ {a}, !.id = a,
                                         !.row = envelopes[a]])
  /\ UNCHANGED <<db, debugFiles, history>>

(* One envelope: already persisted and deleted, or replayed. *)
recoverOne(w) ==
  /\ auditor[w].op = "recover"
  /\ \E a \in auditor[w].files :
       IF audits[a] # NoRow
       THEN /\ envelopes' = [envelopes EXCEPT ![a] = NoRow]
            /\ Now(w, [auditor[w] EXCEPT !.files = @ \ {a}])
       ELSE /\ Now(w, [auditor[w] EXCEPT !.op = "persist", !.files = @ \ {a}, !.id = a,
                                         !.row = envelopes[a]])
            /\ UNCHANGED envelopes
  /\ UNCHANGED <<db, debugFiles, history>>

(* Then resume-audit ends and audit-websites lists the READY_FOR_AUDIT leads
   that have a usable capture. *)
listLeads(w) ==
  /\ auditor[w].op = "recover" /\ auditor[w].files = {}
  /\ IF auditor[w].command = "resume-audit" THEN Now(w, NoAuditor)
     ELSE Now(w, [NoAuditor EXCEPT !.op = "batch", !.command = "audit-websites",
                    !.todo = {buildEvidencePackage(l) :
                                l \in {m \in Leads : stage[m] = "READY_FOR_AUDIT" /\ captured[m].run > 0}}])
  /\ UNCHANGED <<db, disk, history>>

(* The audit's own state: a new run of the captured pages. *)
newAudit(w, package, prior, attempts) ==
  [NoAuditor EXCEPT !.op = "model", !.command = auditor[w].command,
     !.todo = auditor[w].todo \ {package}, !.made = auditor[w].made, !.id = started + 1,
     !.row = [lead |-> package.lead, outcome |-> "none", calls |-> 0, capture |-> package.run,
              repairs |-> prior, repairable |-> FALSE],
     !.images = package.images, !.attempts = attempts, !.attempt = IF prior = 0 THEN 0 ELSE 1]

(* One lead of the batch: audited, or skipped once the run's calls are spent. *)
auditOne(w) ==
  /\ auditor[w].op = "batch"
  /\ \/ auditor[w].todo = {} /\ Now(w, NoAuditor) /\ UNCHANGED started
     \/ \E package \in auditor[w].todo :
          IF auditor[w].made >= MaxCallsPerRun
          THEN Now(w, [auditor[w] EXCEPT !.todo = @ \ {package}]) /\ UNCHANGED started
          ELSE /\ started < MaxAudits /\ started' = started + 1
               /\ \E attempts \in 1..MaxGeneratorAttempts : Now(w, newAudit(w, package, 0, attempts))
  /\ UNCHANGED <<db, disk, ledger, auditEvents>>

(***************************************************************************)
(* The audit's model calls                                                 *)
(***************************************************************************)
(* Mutant: the cap is checked against what was spent. *)
canCall_Spent(s) ==
  ~ s.blind /\ s.row.calls < MaxCallsPerLead /\ s.images /\ s.cost < MaxCostPerLead

(* Mutant: an unknown cost counts as nothing. *)
canCall_Blind(s) ==
  s.row.calls < MaxCallsPerLead /\ s.images /\ s.cost + WorstCaseCost <= MaxCostPerLead

(* The worst case of the next call must fit, and be known. *)
canCall(s) ==
  ~ s.blind /\ s.row.calls < MaxCallsPerLead /\ s.images /\ s.cost + WorstCaseCost <= MaxCostPerLead

(* The loops end; what they kept count of is of no more use. *)
finish(s, outcome) ==
  [s EXCEPT !.op = "save", !.row.outcome = outcome, !.images = FALSE, !.attempts = 1, !.turn = "generate",
            !.attempt = 0, !.cost = 0, !.blind = FALSE]

(* What follows a call with this result; "ok" passed schema and validation. *)
afterCall(s, result, last) ==
  CASE result = "refusal" -> IF last THEN finish(s, "MODEL_REFUSAL") ELSE [s EXCEPT !.attempt = @ + 1]
    [] result = "provider_error" -> finish(s, "PROVIDER_ERROR")
    [] result \in {"incomplete", "invalid"} ->
         IF last THEN finish(s, "VALIDATION_FAILED") ELSE [s EXCEPT !.attempt = @ + 1]

(* Mutant: only a completed call is put on record. *)
recordCall_Completed(s, cost, known_, result) ==
  [s EXCEPT !.row.calls = IF result \in {"ok", "invalid"} THEN @ + 1 ELSE @,
            !.cost = @ + IF known_ THEN cost ELSE 0, !.blind = @ \/ ~ known_]

(* record: every call counts; one without a known cost ends the spending. *)
recordCall(s, cost, known_, result) ==
  [s EXCEPT !.row.calls = @ + 1,
            !.cost = @ + IF known_ THEN cost ELSE 0, !.blind = @ \/ ~ known_]

(* One turn of the generator's or the reviewer's loop.  The provider bills
   what it bills; a failed request reports no cost. *)
modelCall(w) ==
  LET s == auditor[w]
      generating == s.turn = "generate"
      last == s.attempt + 1 >= IF generating THEN s.attempts ELSE MaxReviewerAttempts
  IN
  /\ s.op = "model"
  /\ IF ~ canCall(s)
     THEN Now(w, finish(s, "BUDGET_BLOCKED")) /\ UNCHANGED <<ledger, debugFiles>>
     ELSE \E result \in {"ok", "invalid", "refusal", "incomplete", "provider_error"},
             cost \in CallCosts, known_ \in BOOLEAN :
          LET r == recordCall(s, cost, known_ /\ result # "provider_error", result) IN
          /\ ledger' = [ledger EXCEPT ![s.id].calls = @ + 1, ![s.id].cost = @ + cost]
          /\ debugFiles' = [debugFiles EXCEPT ![s.id] =
               IF generating /\ result = "invalid" /\ s.attempt = 0 THEN "active" ELSE @]
          /\ \/ result = "ok" /\ generating /\ Now(w, [r EXCEPT !.turn = "review", !.attempt = 0])
             \/ /\ result = "ok" /\ ~ generating
                /\ \E outcome \in {"AUDITED", "MANUAL_REVIEW_REQUIRED"} :
                     Now(w, finish(r, outcome))
             \/ /\ result # "ok"
                /\ Now(w, [afterCall(r, result, last) EXCEPT
                     !.row.repairable = generating /\ result = "invalid" /\ last /\ s.attempt = 0])
  /\ UNCHANGED <<db, envelopes, started, auditEvents>>

(* The envelope, before the transaction. *)
saveEnvelope(w) ==
  /\ auditor[w].op = "save"
  /\ envelopes' = [envelopes EXCEPT ![auditor[w].id] = auditor[w].row]
  /\ ledger' = [ledger EXCEPT ![auditor[w].id].done = TRUE]
  /\ Now(w, [auditor[w] EXCEPT !.op = "persist"])
  /\ UNCHANGED <<db, debugFiles, started, auditEvents>>

(***************************************************************************)
(* Persisting a result, live or replayed                                   *)
(***************************************************************************)
(* Mutant: a failed validation is an audit too. *)
routeAuditOutcome_Validated(outcome) ==
  CASE outcome \in {"AUDITED", "VALIDATION_FAILED"} -> "OPPORTUNITY_READY"
    [] outcome \in {"PROVIDER_ERROR", "BUDGET_BLOCKED"} -> "keep"
    [] OTHER -> "NEEDS_MANUAL_REVIEW"

(* Mutant: the outcome is written as the status. *)
routeAuditOutcome_Raw(outcome) == outcome

routeAuditOutcome(outcome) ==
  CASE outcome = "AUDITED" -> "OPPORTUNITY_READY"
    [] outcome \in {"PROVIDER_ERROR", "BUDGET_BLOCKED"} -> "keep"
    [] OTHER -> "NEEDS_MANUAL_REVIEW"

live(w) == auditor[w].command \in {"audit-websites", "repair"} /\ auditor[w].attempts > 0

(* The transaction reads the lead; a replay first asks whether the run is
   there. *)
persistRead(w) ==
  LET l == auditor[w].row.lead IN
  /\ auditor[w].op = "persist"
  /\ IF ~ live(w) /\ audits[auditor[w].id] # NoRow
     THEN Now(w, [auditor[w] EXCEPT !.op = "delete"])
     ELSE Now(w, [auditor[w] EXCEPT !.op = "commit",
            !.route = IF stage[l] = "READY_FOR_AUDIT" THEN routeAuditOutcome(auditor[w].row.outcome)
                      ELSE "keep"])
  /\ UNCHANGED <<db, disk, history>>

(* Mutant: insert ... on conflict do nothing. *)
keyIsFree_Always(a) == TRUE

(* audit_runs.id, the primary key *)
keyIsFree(a) == audits[a] = NoRow

(* A refused insert undoes the transition and
   leaves the envelope; a failed replay ends audit-websites before it spends. *)
persistCommit(w) ==
  LET a == auditor[w].id
      l == auditor[w].row.lead
  IN
  /\ auditor[w].op = "commit"
  /\ IF keyIsFree(a)
     THEN /\ audits' = [audits EXCEPT ![a] = auditor[w].row]
          /\ stage' = [stage EXCEPT ![l] = IF auditor[w].route = "keep" THEN @ ELSE auditor[w].route]
          /\ Now(w, [auditor[w] EXCEPT !.op = "delete"])
     ELSE /\ IF live(w) THEN Now(w, nextLead(w, 0))
             ELSE Now(w, [NoAuditor EXCEPT !.op = "recover", !.command = "resume-audit",
                                           !.files = auditor[w].files])
          /\ UNCHANGED <<audits, stage>>
  /\ UNCHANGED <<captured, disk, history>>

(* A successful audit archives its debug files and those of what it repaired. *)
archiveForRun(s) ==
  [a \in AuditIds |->
     IF s.row.outcome = "AUDITED" /\ a \in {s.id, s.row.repairs} /\ debugFiles[a] = "active"
     THEN "archived" ELSE debugFiles[a]]

deleteEnvelope(w) ==
  /\ auditor[w].op = "delete"
  /\ envelopes' = [envelopes EXCEPT ![auditor[w].id] = NoRow]
  /\ IF live(w)
     THEN debugFiles' = archiveForRun(auditor[w]) /\ Now(w, nextLead(w, auditor[w].row.calls))
     ELSE /\ Now(w, [NoAuditor EXCEPT !.op = "recover", !.command = auditor[w].command,
                                      !.files = auditor[w].files])
          /\ UNCHANGED debugFiles
  /\ UNCHANGED <<db, history>>

(***************************************************************************)
(* Operator                                                                *)
(***************************************************************************)
(* The latest failed validation of the lead, if its only generator call was
   the first attempt and its debug file is still there. *)
latestValidationRepair(l) ==
  LET failed == {a \in AuditIds : audits[a].lead = l /\ audits[a].outcome = "VALIDATION_FAILED"}
      a == Max(failed)
  IN IF failed # {} /\ audits[a].repairable /\ debugFiles[a] = "active" /\ audits[a].capture = captured[l].run
     THEN a ELSE 0

(* requeue-lead-for-audit, and audit-websites --resume-validation, whose
   recovery scan found nothing to do *)
moveRead(w, l) ==
  /\ auditor[w].op = "idle" /\ stage[l] = "NEEDS_MANUAL_REVIEW"
  /\ \/ Now(w, [NoAuditor EXCEPT !.op = "move", !.command = "requeue", !.row.lead = l])
     \/ /\ latestValidationRepair(l) # 0 /\ MaxGeneratorAttempts = 2
        /\ Now(w, [NoAuditor EXCEPT !.op = "move", !.command = "repair",
                                    !.row = [NoRow EXCEPT !.lead = l,
                                                          !.repairs = latestValidationRepair(l)],
                                    !.todo = {buildEvidencePackage(l)}])
  /\ UNCHANGED <<db, disk, history>>

moveCommit(w) ==
  LET l == auditor[w].row.lead IN
  /\ auditor[w].op = "move"
  /\ stage' = [stage EXCEPT ![l] = "READY_FOR_AUDIT"]
  /\ IF auditor[w].command = "requeue" THEN Now(w, NoAuditor) /\ UNCHANGED started
     ELSE /\ started < MaxAudits /\ started' = started + 1
          /\ \E package \in auditor[w].todo : Now(w, newAudit(w, package, auditor[w].row.repairs, 2))
  /\ UNCHANGED <<captured, audits, disk, ledger, auditEvents>>

auditEvent == auditEvents < MaxAuditEvents /\ auditEvents' = auditEvents + 1

(* The lead was captured anew, perhaps without storing the screenshots. *)
recapture(l) ==
  /\ auditEvent /\ stage[l] = "NEEDS_MANUAL_REVIEW"
  /\ stage' = [stage EXCEPT ![l] = "READY_FOR_AUDIT"]
  /\ \E images \in BOOLEAN : captured' = [captured EXCEPT ![l] = [run |-> @.run + 1, images |-> images]]
  /\ UNCHANGED <<audits, disk, auditor, started, ledger>>

(* clean-audit-debug *)
cleanAuditDebug(a) ==
  /\ auditEvent /\ debugFiles[a] # "none"
  /\ debugFiles' = [debugFiles EXCEPT ![a] = "none"]
  /\ UNCHANGED <<db, envelopes, auditor, started, ledger>>

auditCrash(w) ==
  /\ auditEvent /\ auditor[w].op # "idle" /\ Now(w, NoAuditor)
  /\ UNCHANGED <<db, disk, started, ledger>>

AuditNext ==
  \/ \E w \in Sessions :
       \/ recoverEnvelopes(w) \/ recoverOne(w) \/ listLeads(w) \/ auditOne(w) \/ modelCall(w)
       \/ saveEnvelope(w) \/ persistRead(w) \/ persistCommit(w) \/ deleteEnvelope(w)
       \/ moveCommit(w) \/ auditCrash(w)
       \/ \E l \in Leads : moveRead(w, l)
  \/ \E l \in Leads : recapture(l)
  \/ \E a \in AuditIds : cleanAuditDebug(a)

AuditSpec == AuditInit /\ [][AuditNext]_auditVars

(***************************************************************************)
(* Properties                                                              *)
(***************************************************************************)
(* What an audit really cost never exceeds the lead's cap, whatever its calls
   cost and even if one of them does not report its cost. *)
SpendWithinCap == \A a \in AuditIds : ledger[a].cost <= MaxCostPerLead

(* A finished audit is on record or in its envelope: a crash, a failed
   transaction or two recoveries at once never lose what was paid for. *)
PaidResultKept ==
  \A a \in AuditIds : ledger[a].done => audits[a] # NoRow \/ envelopes[a] # NoRow

(* An audit on record accounts for every call that was made for it. *)
EveryCallOnRecord ==
  \A a \in AuditIds : audits[a] # NoRow => audits[a].calls = ledger[a].calls

(* A lead that is OPPORTUNITY_READY has a reviewed audit on record. *)
OpportunityWasAudited ==
  \A l \in Leads : stage[l] = "OPPORTUNITY_READY" =>
    \E a \in AuditIds : audits[a].lead = l /\ audits[a].outcome = "AUDITED"

(* A lead leaves READY_FOR_AUDIT only together with a new audit on record: an
   audit that is persisted by its process and by a recovery decides once. *)
EachAuditDecidesOnce ==
  [][\A l \in Leads : stage[l] = "READY_FOR_AUDIT" /\ stage'[l] # stage[l]
       => \E a \in AuditIds : audits[a] = NoRow /\ audits'[a].lead = l]_auditVars

(* The books of the audits: no batch spends more than its cap, and whatever was
   paid for is on record, kept for a recovery, and decides its own lead. *)
AuditSound ==
  AuditTypeOK /\ SpendWithinCap /\ PaidResultKept /\ EveryCallOnRecord /\ OpportunityWasAudited

(***************************************************************************)
(* The inductive invariant                                                 *)
(***************************************************************************)
(* This row is the result of the audit a, which has ended. *)
isResult(a, row) ==
  /\ row.lead \in Leads /\ row.outcome # "none"
  /\ ledger[a].done /\ row.calls = ledger[a].calls

(* What a session holds agrees with the ledger.  While its models are called
   an audit is in nobody else's hands, and its own count of the money is exact
   until a call does not report what it cost. *)
AuditorIsSound(s) ==
  /\ s.op \in {"model", "save"} =>
       /\ s.id \in 1..started /\ ~ ledger[s.id].done
       /\ s.row.lead \in Leads /\ s.row.calls = ledger[s.id].calls
  /\ s.op = "model" => s.attempts >= 1 /\ (~ s.blind => s.cost = ledger[s.id].cost)
  /\ s.op = "save" => s.row.outcome # "none"
  /\ s.op \in {"persist", "commit", "delete"} => s.id \in AuditIds /\ isResult(s.id, s.row)
  /\ s.op = "commit" /\ s.route = "OPPORTUNITY_READY" => s.row.outcome = "AUDITED"
  /\ s.op = "delete" => audits[s.id] # NoRow
  /\ s.op = "move" => s.row.lead \in Leads /\ (s.command # "requeue" => MaxGeneratorAttempts = 2)
  /\ \A a \in s.files : ledger[a].done

AuditorsAreSound == \A w \in Sessions : AuditorIsSound(auditor[w])

(* No audit is worked on by two sessions. *)
AuditsHaveOneAuthor ==
  \A v, w \in Sessions :
    auditor[v].op \in {"model", "save"} /\ auditor[w].op \in {"model", "save"}
      /\ auditor[v].id = auditor[w].id => v = w

(* Nothing was spent for an audit that was not started. *)
SpentOnStarted ==
  \A a \in AuditIds : a > started => ledger[a] = [calls |-> 0, cost |-> 0, done |-> FALSE]

(* What is on record or in an envelope is the result of an ended audit. *)
RowsAreResults ==
  \A a \in AuditIds : /\ audits[a] # NoRow => isResult(a, audits[a])
                      /\ envelopes[a] # NoRow => isResult(a, envelopes[a])

AuditInv ==
  /\ AuditorsAreSound /\ AuditsHaveOneAuthor /\ SpentOnStarted /\ RowsAreResults
  /\ SpendWithinCap /\ PaidResultKept /\ OpportunityWasAudited

=============================================================================
