----------------------------- MODULE AuditProofs -----------------------------
(***************************************************************************)
(* Theorems about Audit, for any number of leads, sessions and audits, any *)
(* cap of the money and of the calls, any price of a call within its worst *)
(* case, and any number of crashes, recaptures and cleanings.              *)
(***************************************************************************)
EXTENDS Audit, WellFoundedInduction, TLAPS

(***************************************************************************)
(* Types                                                                   *)
(***************************************************************************)
LEMMA Constants ==
  /\ WorstCaseCost \in Nat /\ MaxCostPerLead \in Nat /\ MaxCallsPerLead \in Nat
  /\ MaxCallsPerRun \in Nat /\ MaxGeneratorAttempts \in Nat /\ MaxReviewerAttempts \in Nat
  /\ MaxAudits \in Nat /\ MaxAuditEvents \in Nat
  /\ \A cost \in CallCosts : cost \in Nat /\ cost <= WorstCaseCost
BY AuditAssumption

LEMMA NothingTyped ==
  NoRow \in Row /\ NoAuditor \in Auditor /\ NoRow.outcome = "none" /\ NoRow.lead = "none"
<1>1. NoRow \in Row
  BY Constants DEF NoRow, Row
<1> QED
  BY <1>1, Constants DEF NoAuditor, Auditor, AuditOps, NoRow

LEMMA RowTypes ==
  ASSUME NEW r \in Row
  PROVE  /\ r.lead \in Leads \cup {"none"} /\ r.outcome \in AuditOutcomes \cup {"none"}
         /\ r.calls \in 0..MaxCallsPerLead /\ r.capture \in Nat
         /\ r.repairs \in {0} \cup AuditIds /\ r.repairable \in BOOLEAN
         /\ r.outcome # "none" => r # NoRow
BY NothingTyped DEF Row

LEMMA AuditorTypes ==
  ASSUME NEW s \in Auditor
  PROVE  /\ s.op \in AuditOps /\ s.files \in SUBSET AuditIds /\ s.todo \in SUBSET Package
         /\ s.command \in {"none", "audit-websites", "resume-audit", "repair", "requeue"}
         /\ s.made \in Nat /\ s.id \in {0} \cup AuditIds /\ s.row \in Row /\ s.images \in BOOLEAN
         /\ s.attempts \in 0..MaxGeneratorAttempts /\ s.turn \in {"generate", "review"}
         /\ s.attempt \in 0..(MaxGeneratorAttempts + MaxReviewerAttempts)
         /\ s.cost \in Nat /\ s.blind \in BOOLEAN /\ s.route \in {"keep"} \cup LeadStatuses
BY DEF Auditor

LEMMA PackageTypes ==
  ASSUME AuditTypeOK, NEW l \in Leads PROVE buildEvidencePackage(l) \in Package
BY DEF AuditTypeOK, buildEvidencePackage, Package

(* The latest of some audits is one of them. *)
LEMMA LatestIsOne ==
  ASSUME NEW S, S \subseteq AuditIds, S # {} PROVE Max(S) \in S
<1> DEFINE T == {MaxAudits - a : a \in S}
<1>1. T \subseteq Nat /\ T # {} /\ S \subseteq Int
  <2>1. \A a \in S : a \in Int /\ MaxAudits - a \in Nat
    BY Constants DEF AuditIds
  <2>2. PICK a \in S : TRUE
    OBVIOUS
  <2>3. MaxAudits - a \in T
    BY <2>2
  <2> QED BY <2>1, <2>3
<1>2. PICK x \in T : \A y \in T : ~ (<<y, x>> \in OpToRel(<, Nat))
  <2> HIDE DEF T
  <2> QED BY <1>1, NatLessThanWellFounded, WFMin
<1>3. \A y \in T : ~ (y < x)
  BY <1>1, <1>2 DEF OpToRel
<1>4. PICK a \in S : x = MaxAudits - a
  OBVIOUS
<1>5. \A b \in S : a >= b
  <2> TAKE b \in S
  <2>1. ~ (MaxAudits - b < x)
    BY <1>3
  <2> QED BY <2>1, <1>1, <1>4, Constants
<1> QED
  BY <1>5 DEF Max

LEMMA RepairTypes ==
  ASSUME NEW l PROVE latestValidationRepair(l) \in {0} \cup AuditIds
<1> DEFINE failed == {a \in AuditIds : audits[a].lead = l /\ audits[a].outcome = "VALIDATION_FAILED"}
<1>1. failed # {} => Max(failed) \in AuditIds
  <2>1. failed \subseteq AuditIds
    OBVIOUS
  <2> HIDE DEF failed
  <2> QED BY <2>1, LatestIsOne
<1> QED
  BY <1>1 DEF latestValidationRepair

(***************************************************************************)
(* What sessions hold                                                      *)
(***************************************************************************)
(* AuditorIsSound and isResult, of the ledger, the rows on record and the
   number of audits started that they are told. *)
ResultIn(a, row, books) ==
  row.lead \in Leads /\ row.outcome # "none" /\ books[a].done /\ row.calls = books[a].calls

Holds(s, books, rows, count) ==
  /\ s.op \in {"model", "save"} =>
       /\ s.id \in 1..count /\ ~ books[s.id].done
       /\ s.row.lead \in Leads /\ s.row.calls = books[s.id].calls
  /\ s.op = "model" => s.attempts >= 1 /\ (~ s.blind => s.cost = books[s.id].cost)
  /\ s.op = "save" => s.row.outcome # "none"
  /\ s.op \in {"persist", "commit", "delete"} => s.id \in AuditIds /\ ResultIn(s.id, s.row, books)
  /\ s.op = "commit" /\ s.route = "OPPORTUNITY_READY" => s.row.outcome = "AUDITED"
  /\ s.op = "delete" => rows[s.id] # NoRow
  /\ s.op = "move" => s.row.lead \in Leads /\ (s.command # "requeue" => MaxGeneratorAttempts = 2)
  /\ \A a \in s.files : books[a].done

LEMMA SoundSessions ==
  /\ AuditorsAreSound <=> \A w \in Sessions : Holds(auditor[w], ledger, audits, started)
  /\ AuditorsAreSound' <=> \A w \in Sessions : Holds(auditor'[w], ledger', audits', started')
BY DEF AuditorsAreSound, AuditorIsSound, isResult, Holds, ResultIn

LEMMA SoundRows ==
  /\ RowsAreResults <=>
       \A a \in AuditIds : /\ audits[a] # NoRow => ResultIn(a, audits[a], ledger)
                           /\ envelopes[a] # NoRow => ResultIn(a, envelopes[a], ledger)
  /\ RowsAreResults' <=>
       \A a \in AuditIds : /\ audits'[a] # NoRow => ResultIn(a, audits'[a], ledger')
                           /\ envelopes'[a] # NoRow => ResultIn(a, envelopes'[a], ledger')
BY DEF RowsAreResults, isResult, ResultIn

LEMMA NothingHeld ==
  ASSUME NEW books, NEW rows, NEW count PROVE Holds(NoAuditor, books, rows, count)
BY DEF Holds, NoAuditor

(* An ended audit is not entered again, what is on record stays, and the audit
   another session works on is its own. *)
LEMMA StaysHeld ==
  ASSUME NEW s \in Auditor, NEW books, NEW rows, NEW count \in Nat,
         NEW later, NEW kept, NEW more \in Nat, Holds(s, books, rows, count), count <= more,
         s.op \in {"model", "save"} => later[s.id] = books[s.id],
         \A a \in AuditIds : books[a].done => later[a] = books[a],
         \A a \in AuditIds : rows[a] # NoRow => kept[a] # NoRow
  PROVE  Holds(s, later, kept, more)
<1>1. s.files \subseteq AuditIds
  BY AuditorTypes
<1> QED
  BY <1>1 DEF Holds, ResultIn

(* What a step of session w may do to the audits of the others. *)
Grows(w) ==
  /\ started' \in Nat /\ started <= started'
  /\ \A a \in AuditIds : ledger[a].done => ledger'[a] = ledger[a]
  /\ \A a \in AuditIds : audits[a] # NoRow => audits'[a] # NoRow
  /\ \A v \in Sessions \ {w} : auditor[v].op \in {"model", "save"} =>
       ledger'[auditor[v].id] = ledger[auditor[v].id]

(* The audit the session works on after the step was its own or is new. *)
OwnAudit(w, local) ==
  local.op \in {"model", "save"} =>
    \/ local.id = started + 1
    \/ auditor[w].op \in {"model", "save"} /\ local.id = auditor[w].id

LEMMA Becomes ==
  ASSUME AuditTypeOK, NEW w \in Sessions, NEW local \in Auditor, Now(w, local)
  PROVE  /\ auditor' \in [Sessions -> Auditor] /\ auditor'[w] = local
         /\ \A v \in Sessions \ {w} : auditor'[v] = auditor[v]
BY DEF AuditTypeOK, Now

LEMMA SessionsStep ==
  ASSUME AuditTypeOK, AuditInv, NEW w \in Sessions, NEW local \in Auditor, Now(w, local),
         Grows(w), OwnAudit(w, local), Holds(local, ledger', audits', started')
  PROVE  auditor' \in [Sessions -> Auditor] /\ AuditorsAreSound' /\ AuditsHaveOneAuthor'
<1>1. /\ auditor' \in [Sessions -> Auditor] /\ auditor'[w] = local
      /\ \A v \in Sessions \ {w} : auditor'[v] = auditor[v]
  BY Becomes
<1>2. \A v \in Sessions : auditor[v] \in Auditor /\ Holds(auditor[v], ledger, audits, started)
  BY SoundSessions DEF AuditInv, AuditTypeOK
<1>3. ASSUME NEW v \in Sessions \ {w} PROVE Holds(auditor'[v], ledger', audits', started')
  <2>1. auditor[v] \in Auditor /\ Holds(auditor[v], ledger, audits, started) /\ started \in Nat
    BY <1>2 DEF AuditTypeOK
  <2>2. auditor[v].op \in {"model", "save"} => ledger'[auditor[v].id] = ledger[auditor[v].id]
    BY DEF Grows
  <2>3. Holds(auditor[v], ledger', audits', started')
    BY <2>1, <2>2, StaysHeld DEF Grows
  <2> QED BY <1>1, <2>3
<1>4. AuditorsAreSound'
  BY <1>1, <1>3, SoundSessions
<1>5. ASSUME NEW v \in Sessions, NEW u \in Sessions,
             auditor'[v].op \in {"model", "save"}, auditor'[u].op \in {"model", "save"},
             auditor'[v].id = auditor'[u].id
      PROVE  v = u
  <2>1. \A x \in Sessions : auditor[x].op \in {"model", "save"} =>
          auditor[x].id \in Int /\ auditor[x].id <= started
    BY <1>2 DEF Holds, AuditTypeOK
  <2>2. \A x, y \in Sessions :
          auditor[x].op \in {"model", "save"} /\ auditor[y].op \in {"model", "save"}
            /\ auditor[x].id = auditor[y].id => x = y
    BY DEF AuditInv, AuditsHaveOneAuthor
  <2>3. ASSUME NEW x \in Sessions \ {w}, auditor'[x].op \in {"model", "save"},
               auditor'[x].id = local.id, local.op \in {"model", "save"}
        PROVE  FALSE
    BY <1>1, <2>1, <2>2, <2>3 DEF OwnAudit, AuditTypeOK
  <2> QED BY <1>1, <1>5, <2>2, <2>3
<1>6. AuditsHaveOneAuthor'
  BY <1>5 DEF AuditsHaveOneAuthor
<1> QED
  BY <1>1, <1>4, <1>6

(***************************************************************************)
(* What a step does to the books                                           *)
(***************************************************************************)
(* Rows are added and never changed; an envelope goes only when its result is
   on record; money is spent on audits that have started, within the cap. *)
BooksGrow ==
  /\ \A a \in AuditIds : ledger[a].done => ledger'[a] = ledger[a]
  /\ \A a \in AuditIds : ledger'[a].done => ledger[a].done \/ envelopes'[a] # NoRow
  /\ \A a \in AuditIds : ledger'[a].cost <= MaxCostPerLead
  /\ \A a \in AuditIds : a > started' => ledger'[a] = ledger[a]
  /\ \A a \in AuditIds :
       audits'[a] = audits[a] \/ (audits[a] = NoRow /\ ResultIn(a, audits'[a], ledger'))
  /\ \A a \in AuditIds : \/ envelopes'[a] = envelopes[a]
                         \/ ResultIn(a, envelopes'[a], ledger')
                         \/ envelopes'[a] = NoRow /\ audits'[a] # NoRow
  /\ \A l \in Leads : stage'[l] = "OPPORTUNITY_READY" =>
       \/ stage[l] = "OPPORTUNITY_READY"
       \/ \E a \in AuditIds : audits'[a].lead = l /\ audits'[a].outcome = "AUDITED"

LEMMA ResultsAreRows ==
  ASSUME NEW a, NEW row, NEW books, ResultIn(a, row, books) PROVE row # NoRow
BY NothingTyped DEF ResultIn

LEMMA BooksStep ==
  ASSUME AuditTypeOK, AuditInv, BooksGrow, started' \in Nat, started <= started'
  PROVE  /\ RowsAreResults' /\ SpentOnStarted' /\ SpendWithinCap' /\ PaidResultKept'
         /\ OpportunityWasAudited'
         /\ \A a \in AuditIds : audits[a] # NoRow => audits'[a] # NoRow
<1>1. \A a \in AuditIds : /\ audits[a] # NoRow => ResultIn(a, audits[a], ledger)
                          /\ envelopes[a] # NoRow => ResultIn(a, envelopes[a], ledger)
  BY SoundRows DEF AuditInv
<1>2. \A a \in AuditIds : \A row : ResultIn(a, row, ledger) => ResultIn(a, row, ledger')
  BY DEF BooksGrow, ResultIn
<1>3. \A a \in AuditIds : audits[a] # NoRow => audits'[a] = audits[a]
  BY DEF BooksGrow
<1>4. ASSUME NEW a \in AuditIds
      PROVE  /\ audits'[a] # NoRow => ResultIn(a, audits'[a], ledger')
             /\ envelopes'[a] # NoRow => ResultIn(a, envelopes'[a], ledger')
  BY <1>1, <1>2 DEF BooksGrow
<1>5. RowsAreResults'
  BY <1>4, SoundRows
<1>6. SpentOnStarted'
  <2>1. \A a \in AuditIds : a > started' => a > started
    BY DEF AuditIds, AuditTypeOK
  <2> QED BY <2>1 DEF BooksGrow, SpentOnStarted, AuditInv
<1>7. SpendWithinCap'
  BY DEF BooksGrow, SpendWithinCap
<1>8. PaidResultKept'
  <2> SUFFICES ASSUME NEW a \in AuditIds, ledger'[a].done, audits'[a] = NoRow
               PROVE  envelopes'[a] # NoRow
    BY DEF PaidResultKept
  <2>1. CASE ~ ledger[a].done
    BY <2>1 DEF BooksGrow
  <2>2. CASE ledger[a].done
    <3>1. envelopes[a] # NoRow
      BY <1>3, <2>2 DEF AuditInv, PaidResultKept
    <3>2. ResultIn(a, envelopes'[a], ledger') => envelopes'[a] # NoRow
      BY ResultsAreRows
    <3> QED BY <3>1, <3>2 DEF BooksGrow
  <2> QED BY <2>1, <2>2
<1>9. OpportunityWasAudited'
  <2> SUFFICES ASSUME NEW l \in Leads, stage'[l] = "OPPORTUNITY_READY"
               PROVE  \E a \in AuditIds : audits'[a].lead = l /\ audits'[a].outcome = "AUDITED"
    BY DEF OpportunityWasAudited
  <2>1. CASE stage[l] = "OPPORTUNITY_READY"
    <3>1. PICK a \in AuditIds : audits[a].lead = l /\ audits[a].outcome = "AUDITED"
      BY <2>1 DEF AuditInv, OpportunityWasAudited
    <3>2. audits[a] # NoRow
      BY <3>1, NothingTyped
    <3> QED BY <1>3, <3>1, <3>2
  <2> QED BY <2>1 DEF BooksGrow
<1> QED
  BY <1>3, <1>5, <1>6, <1>7, <1>8, <1>9

(* What is left when the books and the disk stay as they are. *)
LEMMA QuietBooks ==
  ASSUME AuditTypeOK, AuditInv, UNCHANGED <<audits, envelopes, ledger>>,
         started' \in Nat, started <= started',
         \A l \in Leads : stage'[l] = "OPPORTUNITY_READY" => stage[l] = "OPPORTUNITY_READY"
  PROVE  BooksGrow /\ \A w \in Sessions : Grows(w)
<1>1. \A a \in AuditIds : ledger'[a] = ledger[a] /\ ledger'[a].cost <= MaxCostPerLead
  BY DEF AuditInv, SpendWithinCap
<1>2. \A a \in AuditIds : audits'[a] = audits[a] /\ envelopes'[a] = envelopes[a]
  OBVIOUS
<1>3. BooksGrow
  <2>1. \A a \in AuditIds : ledger'[a].done => ledger[a].done
    BY <1>1
  <2>2. \A a \in AuditIds : ledger[a].done => ledger'[a] = ledger[a]
    BY <1>1
  <2>3. \A a \in AuditIds : a > started' => ledger'[a] = ledger[a]
    BY <1>1
  <2> QED BY <1>1, <1>2, <2>1, <2>2, <2>3, Zenon DEF BooksGrow
<1>4. \A w \in Sessions : Grows(w)
  BY <1>1, <1>2 DEF Grows
<1> QED BY <1>3, <1>4

(* A step of a session that fits the books keeps the invariant. *)
LEMMA StepKeeps ==
  ASSUME AuditTypeOK, AuditInv, NEW w \in Sessions, NEW local \in Auditor, Now(w, local),
         Grows(w), OwnAudit(w, local), Holds(local, ledger', audits', started'), BooksGrow
  PROVE  auditor' \in [Sessions -> Auditor] /\ AuditInv'
<1>1. auditor' \in [Sessions -> Auditor] /\ AuditorsAreSound' /\ AuditsHaveOneAuthor'
  BY SessionsStep
<1>2. /\ RowsAreResults' /\ SpentOnStarted' /\ SpendWithinCap' /\ PaidResultKept'
      /\ OpportunityWasAudited'
  BY BooksStep DEF Grows
<1> QED
  BY <1>1, <1>2 DEF AuditInv

(* ... and in particular one that only reads. *)
LEMMA ReadKeeps ==
  ASSUME AuditTypeOK, AuditInv, NEW w \in Sessions, NEW local \in Auditor, Now(w, local),
         UNCHANGED <<db, disk, history>>, OwnAudit(w, local), Holds(local, ledger, audits, started)
  PROVE  AuditTypeOK' /\ AuditInv'
<1>1. UNCHANGED <<stage, captured, audits, envelopes, debugFiles, started, ledger, auditEvents>>
  BY DEF db, disk, history
<1>2. BooksGrow /\ Grows(w)
  BY <1>1, QuietBooks DEF AuditTypeOK
<1>3. auditor' \in [Sessions -> Auditor] /\ AuditInv'
  BY <1>1, <1>2, StepKeeps
<1>4. AuditTypeOK'
  BY <1>1, <1>3 DEF AuditTypeOK
<1> QED BY <1>3, <1>4

(* What is known of a session. *)
LEMMA Held ==
  ASSUME AuditTypeOK, AuditInv, NEW w \in Sessions
  PROVE  auditor[w] \in Auditor /\ Holds(auditor[w], ledger, audits, started)
BY SoundSessions DEF AuditInv, AuditTypeOK

(***************************************************************************)
(* The steps that only read                                                *)
(***************************************************************************)
LEMMA RecoverEnvelopesKeeps ==
  ASSUME AuditTypeOK, AuditInv, NEW w \in Sessions, recoverEnvelopes(w)
  PROVE  AuditTypeOK' /\ AuditInv'
<1> DEFINE found == {a \in AuditIds : envelopes[a] # NoRow}
<1>1. PICK command \in {"audit-websites", "resume-audit"} :
        Now(w, [NoAuditor EXCEPT !.op = "recover", !.command = command, !.files = found])
  BY DEF recoverEnvelopes
<1>2. found \subseteq AuditIds /\ \A a \in found : ledger[a].done
  BY SoundRows DEF AuditInv, ResultIn
<1> DEFINE local == [NoAuditor EXCEPT !.op = "recover", !.command = command, !.files = found]
<1> HIDE DEF found
<1>3. local \in Auditor /\ local.op = "recover" /\ local.files = found
  BY <1>2, NothingTyped DEF Auditor, AuditOps, NoAuditor
<1>4. Now(w, local)
  BY <1>1
<1> HIDE DEF local
<1>5. Holds(local, ledger, audits, started) /\ OwnAudit(w, local)
  BY <1>2, <1>3 DEF Holds, OwnAudit
<1> QED BY <1>3, <1>4, <1>5, ReadKeeps DEF recoverEnvelopes

(* A session that goes idle holds nothing. *)
LEMMA IdleFits ==
  ASSUME NEW w \in Sessions, NEW books, NEW rows, NEW count
  PROVE  NoAuditor \in Auditor /\ Holds(NoAuditor, books, rows, count) /\ OwnAudit(w, NoAuditor)
BY NothingTyped, NothingHeld DEF OwnAudit, NoAuditor

(* A batch holds no audit. *)
LEMMA BatchFits ==
  ASSUME NEW w \in Sessions, NEW books, NEW rows, NEW count, NEW s \in Auditor, s.op = "batch",
         s.files = {}
  PROVE  Holds(s, books, rows, count) /\ OwnAudit(w, s)
BY DEF Holds, OwnAudit

LEMMA ListLeadsKeeps ==
  ASSUME AuditTypeOK, AuditInv, NEW w \in Sessions, listLeads(w)
  PROVE  AuditTypeOK' /\ AuditInv'
<1> DEFINE ready == {m \in Leads : stage[m] = "READY_FOR_AUDIT" /\ captured[m].run > 0}
           packages == {buildEvidencePackage(l) : l \in ready}
           local == [NoAuditor EXCEPT !.op = "batch", !.command = "audit-websites", !.todo = packages]
<1>1. CASE Now(w, NoAuditor)
  BY <1>1, IdleFits, ReadKeeps DEF listLeads
<1>2. CASE Now(w, local)
  <2>1. packages \subseteq Package
    BY PackageTypes
  <2> HIDE DEF packages
  <2>2. local \in Auditor /\ local.op = "batch" /\ local.files = {}
    BY <2>1, NothingTyped DEF Auditor, AuditOps, NoAuditor
  <2> HIDE DEF local
  <2>3. Holds(local, ledger, audits, started) /\ OwnAudit(w, local)
    BY <2>2, BatchFits
  <2> QED BY <1>2, <2>2, <2>3, ReadKeeps DEF listLeads
<1> QED BY <1>1, <1>2 DEF listLeads

LEMMA PersistReadKeeps ==
  ASSUME AuditTypeOK, AuditInv, NEW w \in Sessions, persistRead(w)
  PROVE  AuditTypeOK' /\ AuditInv'
<1> DEFINE s == auditor[w]
           route == IF stage[s.row.lead] = "READY_FOR_AUDIT" THEN routeAuditOutcome(s.row.outcome)
                    ELSE "keep"
           deleting == [s EXCEPT !.op = "delete"]
           committing == [s EXCEPT !.op = "commit", !.route = route]
<1>1. s \in Auditor /\ Holds(s, ledger, audits, started) /\ s.op = "persist"
  BY Held DEF persistRead
<1>2. CASE audits[s.id] # NoRow /\ Now(w, deleting)
  <2>1. /\ deleting \in Auditor /\ deleting.op = "delete" /\ deleting.id = s.id /\ deleting.row = s.row
        /\ deleting.files = s.files
    BY <1>1 DEF Auditor, AuditOps
  <2> HIDE DEF deleting, s
  <2>2. Holds(deleting, ledger, audits, started) /\ OwnAudit(w, deleting)
    BY <1>1, <1>2, <2>1 DEF Holds, OwnAudit
  <2> QED BY <1>2, <2>1, <2>2, ReadKeeps DEF persistRead
<1>3. CASE Now(w, committing)
  <2>1. /\ route \in {"keep"} \cup LeadStatuses
        /\ route = "OPPORTUNITY_READY" => s.row.outcome = "AUDITED"
    BY DEF routeAuditOutcome, LeadStatuses
  <2> HIDE DEF route
  <2>2. /\ committing \in Auditor /\ committing.op = "commit" /\ committing.id = s.id
        /\ committing.row = s.row /\ committing.files = s.files /\ committing.route = route
    BY <1>1, <2>1 DEF Auditor, AuditOps
  <2> HIDE DEF committing, s
  <2>3. Holds(committing, ledger, audits, started) /\ OwnAudit(w, committing)
    BY <1>1, <2>1, <2>2 DEF Holds, OwnAudit
  <2> QED BY <1>3, <2>2, <2>3, ReadKeeps DEF persistRead
<1> QED BY <1>2, <1>3 DEF persistRead

LEMMA MoveReadKeeps ==
  ASSUME AuditTypeOK, AuditInv, NEW w \in Sessions, NEW l \in Leads, moveRead(w, l)
  PROVE  AuditTypeOK' /\ AuditInv'
<1> DEFINE prior == latestValidationRepair(l)
           package == buildEvidencePackage(l)
           requeuing == [NoAuditor EXCEPT !.op = "move", !.command = "requeue", !.row.lead = l]
           moved == [NoRow EXCEPT !.lead = l, !.repairs = prior]
           repairing == [NoAuditor EXCEPT !.op = "move", !.command = "repair", !.row = moved,
                                          !.todo = {package}]
<1>1. CASE Now(w, requeuing)
  <2>1. /\ requeuing \in Auditor /\ requeuing.op = "move" /\ requeuing.command = "requeue"
        /\ requeuing.row.lead = l /\ requeuing.files = {}
    BY NothingTyped DEF Auditor, AuditOps, Row, NoAuditor, NoRow
  <2> HIDE DEF requeuing
  <2>2. Holds(requeuing, ledger, audits, started) /\ OwnAudit(w, requeuing)
    BY <2>1 DEF Holds, OwnAudit
  <2> QED BY <1>1, <2>1, <2>2, ReadKeeps DEF moveRead
<1>2. CASE MaxGeneratorAttempts = 2 /\ Now(w, repairing)
  <2>1. prior \in {0} \cup AuditIds /\ package \in Package
    BY RepairTypes, PackageTypes
  <2> HIDE DEF prior, package
  <2>2. moved \in Row /\ moved.lead = l
    BY <2>1, NothingTyped DEF Row, NoRow
  <2> HIDE DEF moved
  <2>3. /\ repairing \in Auditor /\ repairing.op = "move" /\ repairing.row = moved
        /\ repairing.files = {}
    BY <2>1, <2>2, NothingTyped DEF Auditor, AuditOps, NoAuditor
  <2> HIDE DEF repairing
  <2>4. Holds(repairing, ledger, audits, started) /\ OwnAudit(w, repairing)
    BY <1>2, <2>2, <2>3 DEF Holds, OwnAudit
  <2> QED BY <1>2, <2>3, <2>4, ReadKeeps DEF moveRead
<1> QED BY <1>1, <1>2 DEF moveRead

(***************************************************************************)
(* The model calls                                                         *)
(***************************************************************************)
LEMMA FinishTypes ==
  ASSUME NEW s \in Auditor, s.attempts >= 1, NEW outcome \in AuditOutcomes
  PROVE  LET ended == finish(s, outcome) IN
         /\ ended \in Auditor /\ ended.op = "save" /\ ended.id = s.id /\ ended.files = s.files
         /\ ended.row.lead = s.row.lead /\ ended.row.calls = s.row.calls
         /\ ended.row.outcome = outcome
<1> DEFINE row == [s.row EXCEPT !.outcome = outcome]
           ended == finish(s, outcome)
<1>1. row \in Row /\ row.lead = s.row.lead /\ row.calls = s.row.calls /\ row.outcome = outcome
  BY AuditorTypes DEF Row
<1> DEFINE kept == [s EXCEPT !.op = "save", !.row = row, !.images = FALSE, !.attempts = 1,
                             !.turn = "generate", !.attempt = 0, !.cost = 0, !.blind = FALSE]
<1>2. ended = kept
  BY DEF finish, Auditor
<1> HIDE DEF row, ended
<1>3. 1 \in 0..MaxGeneratorAttempts /\ 0 \in 0..(MaxGeneratorAttempts + MaxReviewerAttempts)
  BY AuditorTypes, Constants
<1>4. kept \in Auditor
  BY <1>1, <1>3 DEF Auditor, AuditOps
<1>5. kept.op = "save" /\ kept.id = s.id /\ kept.files = s.files /\ kept.row = row
  BY DEF Auditor
<1> HIDE DEF kept
<1> QED BY <1>1, <1>2, <1>4, <1>5 DEF ended

(* A call is counted once, and its cost while it is known. *)
LEMMA RecordTypes ==
  ASSUME NEW s \in Auditor, canCall(s), NEW cost \in CallCosts, NEW known_ \in BOOLEAN, NEW result
  PROVE  LET r == recordCall(s, cost, known_, result) IN
         /\ r \in Auditor /\ r.op = s.op /\ r.id = s.id /\ r.files = s.files
         /\ r.attempts = s.attempts /\ r.attempt = s.attempt
         /\ r.row.lead = s.row.lead /\ r.row.calls = s.row.calls + 1
         /\ ~ r.blind => r.cost = s.cost + cost
<1> DEFINE row == [s.row EXCEPT !.calls = @ + 1]
           spent == s.cost + IF known_ THEN cost ELSE 0
           blind == s.blind \/ ~ known_
           r == recordCall(s, cost, known_, result)
<1>1. s.row.calls < MaxCallsPerLead
  BY DEF canCall
<1>2. row \in Row /\ row.lead = s.row.lead /\ row.calls = s.row.calls + 1
  BY <1>1, AuditorTypes, Constants DEF Row
<1>3. spent \in Nat /\ blind \in BOOLEAN /\ (~ blind => spent = s.cost + cost)
  BY AuditorTypes, Constants
<1>4. r = [s EXCEPT !.row = row, !.cost = spent, !.blind = blind]
  BY DEF recordCall, Auditor
<1> HIDE DEF row, spent, blind
<1>5. /\ r \in Auditor /\ r.op = s.op /\ r.id = s.id /\ r.files = s.files
      /\ r.attempts = s.attempts /\ r.attempt = s.attempt
      /\ r.row = row /\ r.cost = spent /\ r.blind = blind
  BY <1>2, <1>3, <1>4 DEF Auditor
<1> HIDE DEF r
<1> QED BY <1>2, <1>3, <1>5 DEF r

(* What follows a call that did not pass either ends the loops or stays within
   the attempts of its loop. *)
LEMMA AfterCallTypes ==
  ASSUME NEW r \in Auditor, r.attempts >= 1, r.op = "model", NEW last \in BOOLEAN,
         NEW result \in {"invalid", "refusal", "incomplete", "provider_error"},
         ~ last => r.attempt + 1 <= MaxGeneratorAttempts + MaxReviewerAttempts,
         NEW repairable \in BOOLEAN
  PROVE  LET after == [afterCall(r, result, last) EXCEPT !.row.repairable = repairable] IN
         /\ after \in Auditor /\ after.op \in {"model", "save"} /\ after.id = r.id
         /\ after.files = r.files /\ after.row.lead = r.row.lead /\ after.row.calls = r.row.calls
         /\ after.op = "save" => after.row.outcome # "none"
         /\ after.op = "model" => after.attempts >= 1 /\ after.blind = r.blind /\ after.cost = r.cost
<1> DEFINE went == afterCall(r, result, last)
           again == [r EXCEPT !.attempt = @ + 1]
<1>1. \/ ~ last /\ went = again
      \/ \E outcome \in {"MODEL_REFUSAL", "PROVIDER_ERROR", "VALIDATION_FAILED"} :
           went = finish(r, outcome)
  BY DEF afterCall
<1>2. /\ went \in Auditor /\ went.op \in {"model", "save"} /\ went.id = r.id
      /\ went.files = r.files /\ went.row.lead = r.row.lead /\ went.row.calls = r.row.calls
      /\ went.op = "save" => went.row.outcome # "none"
      /\ went.op = "model" => went.attempts >= 1 /\ went.blind = r.blind /\ went.cost = r.cost
  <2>1. CASE ~ last /\ went = again
    <3>1. /\ again \in Auditor /\ again.op = r.op /\ again.id = r.id /\ again.files = r.files
          /\ again.row = r.row /\ again.attempts = r.attempts /\ again.blind = r.blind
          /\ again.cost = r.cost
      BY <2>1, AuditorTypes, Constants DEF Auditor
    <3> HIDE DEF again, went
    <3> QED BY <2>1, <3>1
  <2>2. ASSUME NEW outcome \in {"MODEL_REFUSAL", "PROVIDER_ERROR", "VALIDATION_FAILED"},
               went = finish(r, outcome)
        PROVE  /\ went \in Auditor /\ went.op = "save" /\ went.id = r.id
               /\ went.files = r.files /\ went.row.lead = r.row.lead /\ went.row.calls = r.row.calls
               /\ went.row.outcome # "none"
    <3>1. outcome \in AuditOutcomes /\ outcome # "none"
      BY DEF AuditOutcomes
    <3> HIDE DEF went
    <3> QED BY <2>2, <3>1, FinishTypes
  <2> QED BY <1>1, <2>1, <2>2
<1> HIDE DEF went
<1> DEFINE row == [went.row EXCEPT !.repairable = repairable]
           after == [went EXCEPT !.row = row]
<1>3. row \in Row /\ row.lead = went.row.lead /\ row.calls = went.row.calls
      /\ row.outcome = went.row.outcome
  BY <1>2, AuditorTypes DEF Row
<1> HIDE DEF row
<1>4. /\ after \in Auditor /\ after.op = went.op /\ after.id = went.id /\ after.files = went.files
      /\ after.row = row /\ after.attempts = went.attempts /\ after.blind = went.blind
      /\ after.cost = went.cost
  BY <1>2, <1>3 DEF Auditor
<1>5. [went EXCEPT !.row.repairable = repairable] = after
  BY <1>2 DEF row, Auditor
<1> HIDE DEF after
<1> QED BY <1>2, <1>3, <1>4, <1>5 DEF went

LEMMA ModelCallKeeps ==
  ASSUME AuditTypeOK, AuditInv, NEW w \in Sessions, modelCall(w)
  PROVE  AuditTypeOK' /\ AuditInv'
<1> DEFINE s == auditor[w]
           generating == s.turn = "generate"
           last == s.attempt + 1 >= IF generating THEN s.attempts ELSE MaxReviewerAttempts
<1>1. /\ s \in Auditor /\ Holds(s, ledger, audits, started) /\ s.op = "model"
      /\ UNCHANGED <<stage, captured, audits, envelopes, started, auditEvents>>
  BY Held DEF modelCall, db
<1>2. /\ s.id \in AuditIds /\ s.id <= started /\ ~ ledger[s.id].done /\ s.row.lead \in Leads
      /\ s.row.calls = ledger[s.id].calls /\ s.attempts >= 1
      /\ started \in Nat /\ started <= MaxAudits
      /\ ~ s.blind => s.cost = ledger[s.id].cost
  <2>1. started \in Nat /\ started <= MaxAudits
    BY Constants DEF AuditTypeOK
  <2> HIDE DEF s
  <2>2. /\ s.id \in 1..started /\ ~ ledger[s.id].done /\ s.row.lead \in Leads
        /\ s.row.calls = ledger[s.id].calls /\ s.attempts >= 1
        /\ ~ s.blind => s.cost = ledger[s.id].cost
    BY <1>1 DEF Holds
  <2> QED BY <2>1, <2>2, Constants DEF AuditIds
<1>3. ASSUME ~ canCall(s), Now(w, finish(s, "BUDGET_BLOCKED")), UNCHANGED <<ledger, debugFiles>>
      PROVE  AuditTypeOK' /\ AuditInv'
  <2> DEFINE local == finish(s, "BUDGET_BLOCKED")
  <2>1. /\ local \in Auditor /\ local.op = "save" /\ local.id = s.id /\ local.files = s.files
        /\ local.row.lead = s.row.lead /\ local.row.calls = s.row.calls
        /\ local.row.outcome = "BUDGET_BLOCKED"
    BY <1>1, <1>2, FinishTypes DEF AuditOutcomes
  <2>2. Now(w, local)
    BY <1>3
  <2> HIDE DEF local, s
  <2>3. Holds(local, ledger, audits, started) /\ OwnAudit(w, local)
    BY <1>1, <1>2, <2>1 DEF Holds, OwnAudit, s
  <2> QED BY <1>1, <1>3, <2>1, <2>2, <2>3, ReadKeeps DEF db, disk, history
<1>4. CASE canCall(s)
  <2>0. PICK result \in {"ok", "invalid", "refusal", "incomplete", "provider_error"},
             cost \in CallCosts, known_ \in BOOLEAN :
          LET r == recordCall(s, cost, known_ /\ result # "provider_error", result) IN
          /\ ledger' = [ledger EXCEPT ![s.id].calls = @ + 1, ![s.id].cost = @ + cost]
          /\ debugFiles' = [debugFiles EXCEPT ![s.id] =
               IF generating /\ result = "invalid" /\ s.attempt = 0 THEN "active" ELSE @]
          /\ \/ result = "ok" /\ generating /\ Now(w, [r EXCEPT !.turn = "review", !.attempt = 0])
             \/ /\ result = "ok" /\ ~ generating
                /\ \E outcome \in {"AUDITED", "MANUAL_REVIEW_REQUIRED"} :
                     Now(w, finish(r, outcome))
             \/ /\ result # "ok"
                /\ Now(w, [afterCall(r, result, last) EXCEPT
                     !.row.repairable = generating /\ result = "invalid" /\ last /\ s.attempt = 0])
    BY <1>4 DEF modelCall
  <2> DEFINE reported == known_ /\ result # "provider_error"
             r == recordCall(s, cost, reported, result)
             repairable == generating /\ result = "invalid" /\ last /\ s.attempt = 0
             reviewing == [r EXCEPT !.turn = "review", !.attempt = 0]
             after == [afterCall(r, result, last) EXCEPT !.row.repairable = repairable]
  <2>1. /\ r \in Auditor /\ r.op = "model" /\ r.id = s.id /\ r.files = s.files
        /\ r.attempts = s.attempts /\ r.attempt = s.attempt
        /\ r.row.lead = s.row.lead /\ r.row.calls = s.row.calls + 1
        /\ ~ r.blind => r.cost = s.cost + cost
    <3>1. reported \in BOOLEAN
      OBVIOUS
    <3> HIDE DEF reported, s
    <3> QED BY <1>1, <1>4, <3>1, RecordTypes
  <2>2. ~ s.blind /\ s.cost + WorstCaseCost <= MaxCostPerLead /\ cost <= WorstCaseCost /\ cost \in Nat
    BY <1>4, Constants DEF canCall
  <2>3. /\ ledger' \in [AuditIds -> [calls : Nat, cost : Nat, done : BOOLEAN]]
        /\ ledger'[s.id].calls = ledger[s.id].calls + 1
        /\ ledger'[s.id].cost = ledger[s.id].cost + cost
        /\ ledger'[s.id].done = ledger[s.id].done
        /\ \A a \in AuditIds \ {s.id} : ledger'[a] = ledger[a]
    BY <1>2, <2>0, <2>2 DEF AuditTypeOK
  <2>4. ledger'[s.id].cost <= MaxCostPerLead
    BY <1>1, <1>2, <2>2, <2>3, AuditorTypes, Constants
  <2>5. debugFiles' \in [AuditIds -> {"none", "active", "archived"}]
    BY <2>0 DEF AuditTypeOK
  <2>6. PICK local \in Auditor :
          /\ Now(w, local) /\ local.op \in {"model", "save"} /\ local.id = s.id
          /\ local.files = s.files /\ local.row.lead = s.row.lead
          /\ local.row.calls = s.row.calls + 1
          /\ local.op = "save" => local.row.outcome # "none"
          /\ local.op = "model" => local.attempts >= 1 /\ (~ local.blind => local.cost = s.cost + cost)
    <3>1. CASE Now(w, reviewing)
      <4>1. 0 \in 0..(MaxGeneratorAttempts + MaxReviewerAttempts)
        BY Constants
      <4> HIDE DEF r
      <4>2. reviewing \in Auditor
        BY <2>1, <4>1 DEF Auditor
      <4>3. /\ reviewing.op = r.op /\ reviewing.id = r.id /\ reviewing.files = r.files
            /\ reviewing.row = r.row /\ reviewing.attempts = r.attempts
            /\ reviewing.blind = r.blind /\ reviewing.cost = r.cost
        BY <2>1 DEF Auditor
      <4> HIDE DEF reviewing, s
      <4> QED BY <1>2, <2>1, <3>1, <4>2, <4>3
    <3>2. ASSUME NEW outcome \in {"AUDITED", "MANUAL_REVIEW_REQUIRED"}, Now(w, finish(r, outcome))
          PROVE  \E local \in Auditor :
            /\ Now(w, local) /\ local.op \in {"model", "save"} /\ local.id = s.id
            /\ local.files = s.files /\ local.row.lead = s.row.lead
            /\ local.row.calls = s.row.calls + 1
            /\ local.op = "save" => local.row.outcome # "none"
            /\ local.op = "model" => local.attempts >= 1 /\ (~ local.blind => local.cost = s.cost + cost)
      <4>1. outcome \in AuditOutcomes /\ outcome # "none"
        BY DEF AuditOutcomes
      <4> DEFINE ended == finish(r, outcome)
      <4> HIDE DEF r, s
      <4>2. /\ ended \in Auditor /\ ended.op = "save" /\ ended.id = r.id /\ ended.files = r.files
            /\ ended.row.lead = r.row.lead /\ ended.row.calls = r.row.calls
            /\ ended.row.outcome = outcome
        BY <1>2, <2>1, <4>1, FinishTypes
      <4>3. Now(w, ended)
        BY <3>2
      <4> HIDE DEF ended
      <4> QED BY <2>1, <4>1, <4>2, <4>3
    <3>3. CASE result # "ok" /\ Now(w, after)
      <4>1. repairable \in BOOLEAN /\ last \in BOOLEAN
        OBVIOUS
      <4>2. ~ last => s.attempt + 1 <= MaxGeneratorAttempts + MaxReviewerAttempts
        BY <1>1, <1>2, AuditorTypes, Constants
      <4>3. result \in {"invalid", "refusal", "incomplete", "provider_error"}
        BY <3>3
      <4>4. Now(w, after)
        BY <3>3
      <4> HIDE DEF r, s, repairable, last
      <4>5. /\ after \in Auditor /\ after.op \in {"model", "save"} /\ after.id = r.id
            /\ after.files = r.files /\ after.row.lead = r.row.lead /\ after.row.calls = r.row.calls
            /\ after.op = "save" => after.row.outcome # "none"
            /\ after.op = "model" => after.attempts >= 1 /\ after.blind = r.blind /\ after.cost = r.cost
        <5>1. /\ r \in Auditor /\ r.attempts >= 1 /\ r.op = "model"
              /\ ~ last => r.attempt + 1 <= MaxGeneratorAttempts + MaxReviewerAttempts
          BY <1>2, <2>1, <4>2
        <5> QED BY <4>1, <4>3, <5>1, AfterCallTypes
      <4> HIDE DEF after
      <4> QED BY <2>1, <4>4, <4>5
    <3> QED BY <2>0, <3>1, <3>2, <3>3
  <2> HIDE DEF s, generating, last, r, reported, reviewing, after, repairable
  <2>7. Holds(local, ledger', audits', started')
    <3>1. \A a \in s.files : a # s.id /\ ledger[a].done
      BY <1>1, <1>2 DEF Holds
    <3>2. s.files \subseteq AuditIds
      BY <1>1, AuditorTypes
    <3>3. \A a \in local.files : ledger'[a].done
      BY <2>3, <2>6, <3>1, <3>2
    <3>4. local.id \in 1..started' /\ ~ ledger'[local.id].done /\ local.row.lead \in Leads
      BY <1>1, <1>2, <2>3, <2>6 DEF AuditIds
    <3>5. local.row.calls = ledger'[local.id].calls
      BY <1>2, <2>3, <2>6
    <3>6. local.op = "model" =>
            local.attempts >= 1 /\ (~ local.blind => local.cost = ledger'[local.id].cost)
      BY <1>2, <2>2, <2>3, <2>6
    <3> QED BY <2>6, <3>3, <3>4, <3>5, <3>6 DEF Holds
  <2>8. OwnAudit(w, local)
    BY <1>1, <2>6 DEF OwnAudit, s
  <2>9. Grows(w)
    <3>1. \A v \in Sessions \ {w} : auditor[v].op \in {"model", "save"} =>
            auditor[v].id # s.id /\ auditor[v].id \in AuditIds
      <4> SUFFICES ASSUME NEW v \in Sessions \ {w}, auditor[v].op \in {"model", "save"}
                   PROVE  auditor[v].id # s.id /\ auditor[v].id \in AuditIds
        OBVIOUS
      <4>1. auditor[v].id # s.id
        BY <1>1 DEF AuditInv, AuditsHaveOneAuthor, s
      <4>2. auditor[v].id \in 1..started
        BY Held DEF Holds
      <4> QED BY <1>2, <4>1, <4>2, Constants DEF AuditIds
    <3>2. \A a \in AuditIds : ledger[a].done => ledger'[a] = ledger[a]
      BY <1>2, <2>3
    <3> QED BY <1>1, <1>2, <2>3, <3>1, <3>2 DEF Grows
  <2>10. BooksGrow
    <3>1. \A a \in AuditIds : ledger[a].done => ledger'[a] = ledger[a]
      BY <1>2, <2>3
    <3>2. \A a \in AuditIds : ledger'[a].done => ledger[a].done
      BY <1>2, <2>3
    <3>3. \A a \in AuditIds : ledger'[a].cost <= MaxCostPerLead
      BY <2>3, <2>4 DEF AuditInv, SpendWithinCap
    <3>4. \A a \in AuditIds : a > started' => ledger'[a] = ledger[a]
      <4>1. \A a \in AuditIds : a > started' => a # s.id
        BY <1>1, <1>2 DEF AuditIds
      <4> QED BY <2>3, <4>1
    <3>5. \A a \in AuditIds : audits'[a] = audits[a] /\ envelopes'[a] = envelopes[a]
      BY <1>1
    <3>6. \A l \in Leads : stage'[l] = stage[l]
      BY <1>1
    <3> QED BY <3>1, <3>2, <3>3, <3>4, <3>5, <3>6 DEF BooksGrow
  <2>11. auditor' \in [Sessions -> Auditor] /\ AuditInv'
    BY <2>6, <2>7, <2>8, <2>9, <2>10, StepKeeps
  <2>12. AuditTypeOK'
    BY <1>1, <2>3, <2>5, <2>11 DEF AuditTypeOK
  <2> QED BY <2>11, <2>12
<1> QED
  BY <1>3, <1>4 DEF modelCall

(***************************************************************************)
(* The steps that write                                                    *)
(***************************************************************************)
LEMMA RecoverOneKeeps ==
  ASSUME AuditTypeOK, AuditInv, NEW w \in Sessions, recoverOne(w)
  PROVE  AuditTypeOK' /\ AuditInv'
<1> DEFINE s == auditor[w]
<1>1. /\ s \in Auditor /\ Holds(s, ledger, audits, started) /\ s.op = "recover"
      /\ UNCHANGED <<stage, captured, audits, debugFiles, started, ledger, auditEvents>>
  BY Held DEF recoverOne, db, history
<1>2. PICK a \in s.files :
        IF audits[a] # NoRow
        THEN envelopes' = [envelopes EXCEPT ![a] = NoRow] /\ Now(w, [s EXCEPT !.files = @ \ {a}])
        ELSE /\ Now(w, [s EXCEPT !.op = "persist", !.files = @ \ {a}, !.id = a, !.row = envelopes[a]])
             /\ UNCHANGED envelopes
  BY DEF recoverOne
<1>3. a \in AuditIds /\ ledger[a].done /\ \A b \in s.files : ledger[b].done
  BY <1>1, AuditorTypes DEF Holds
<1>4. CASE audits[a] # NoRow
  <2> DEFINE local == [s EXCEPT !.files = @ \ {a}]
  <2>1. local \in Auditor /\ local.op = "recover" /\ local.files \subseteq s.files /\ Now(w, local)
    BY <1>1, <1>2, <1>4 DEF Auditor
  <2> HIDE DEF local, s
  <2>2. Holds(local, ledger', audits', started') /\ OwnAudit(w, local)
    BY <1>1, <1>3, <2>1 DEF Holds, OwnAudit
  <2>3. Grows(w)
    BY <1>1 DEF Grows, AuditTypeOK
  <2>4. envelopes' \in [AuditIds -> Row] /\ envelopes'[a] = NoRow
        /\ \A b \in AuditIds \ {a} : envelopes'[b] = envelopes[b]
    BY <1>2, <1>3, <1>4, NothingTyped DEF AuditTypeOK
  <2>5. BooksGrow
    <3>1. \A b \in AuditIds : ledger'[b] = ledger[b] /\ ledger'[b].cost <= MaxCostPerLead
      BY <1>1 DEF AuditInv, SpendWithinCap
    <3>2. \A b \in AuditIds : ledger'[b].done => ledger[b].done
      BY <1>1
    <3>3. \A b \in AuditIds : \/ envelopes'[b] = envelopes[b]
                              \/ envelopes'[b] = NoRow /\ audits'[b] # NoRow
      BY <1>1, <1>4, <2>4
    <3>4. \A b \in AuditIds : audits'[b] = audits[b]
      BY <1>1
    <3>5. \A l \in Leads : stage'[l] = stage[l]
      BY <1>1
    <3> QED BY <3>1, <3>2, <3>3, <3>4, <3>5 DEF BooksGrow
  <2>6. auditor' \in [Sessions -> Auditor] /\ AuditInv'
    BY <2>1, <2>2, <2>3, <2>5, StepKeeps
  <2> QED BY <1>1, <2>4, <2>6 DEF AuditTypeOK
<1>5. CASE audits[a] = NoRow
  <2> DEFINE local == [s EXCEPT !.op = "persist", !.files = @ \ {a}, !.id = a, !.row = envelopes[a]]
  <2>1. ResultIn(a, envelopes[a], ledger) /\ envelopes[a] \in Row
    BY <1>3, <1>5, SoundRows DEF AuditInv, PaidResultKept, AuditTypeOK
  <2>2. /\ local \in Auditor /\ local.op = "persist" /\ local.files \subseteq s.files
        /\ local.id = a /\ local.row = envelopes[a]
    BY <1>1, <1>3, <2>1 DEF Auditor, AuditOps
  <2>3. Now(w, local) /\ UNCHANGED envelopes
    BY <1>2, <1>5
  <2> HIDE DEF local, s
  <2>4. Holds(local, ledger, audits, started) /\ OwnAudit(w, local)
    BY <1>1, <1>3, <2>1, <2>2 DEF Holds, OwnAudit
  <2> QED BY <1>1, <2>2, <2>3, <2>4, ReadKeeps DEF db, disk, history
<1> QED
  BY <1>4, <1>5

(* A new audit is nobody's and has spent nothing. *)
LEMMA NewAuditFits ==
  ASSUME AuditTypeOK, AuditInv, NEW w \in Sessions,
         NEW package \in Package, NEW prior \in {0} \cup AuditIds, NEW attempts \in 1..MaxGeneratorAttempts,
         prior # 0 => MaxGeneratorAttempts >= 1, started < MaxAudits, started' = started + 1,
         UNCHANGED <<ledger, audits>>
  PROVE  LET local == newAudit(w, package, prior, attempts) IN
         local \in Auditor /\ OwnAudit(w, local) /\ Holds(local, ledger', audits', started')
<1> DEFINE row == [lead |-> package.lead, outcome |-> "none", calls |-> 0, capture |-> package.run,
                   repairs |-> prior, repairable |-> FALSE]
           todo == auditor[w].todo \ {package}
           attempt == IF prior = 0 THEN 0 ELSE 1
           local == newAudit(w, package, prior, attempts)
<1>1. /\ started \in Nat /\ started + 1 \in AuditIds /\ started + 1 \in 1..started'
      /\ auditor[w] \in Auditor
  BY Constants DEF AuditTypeOK, AuditIds
<1>2. /\ row \in Row /\ row.lead \in Leads /\ row.calls = 0
      /\ package.images \in BOOLEAN
  BY Constants DEF Row, Package
<1>3. todo \in SUBSET Package /\ attempt \in 0..(MaxGeneratorAttempts + MaxReviewerAttempts)
      /\ attempts \in 0..MaxGeneratorAttempts /\ attempts >= 1
  BY <1>1, AuditorTypes, Constants
<1>4. auditor[w].command \in {"none", "audit-websites", "resume-audit", "repair", "requeue"}
      /\ auditor[w].made \in Nat
  BY <1>1, AuditorTypes
<1> DEFINE begun == [NoAuditor EXCEPT !.op = "model", !.command = auditor[w].command, !.todo = todo,
                       !.made = auditor[w].made, !.id = started + 1, !.row = row,
                       !.images = package.images, !.attempts = attempts, !.attempt = attempt]
<1>5. local = begun
  BY DEF newAudit
<1> HIDE DEF row, todo, attempt, local
<1>6. /\ local \in Auditor /\ local.op = "model" /\ local.id = started + 1 /\ local.row = row
      /\ local.attempts = attempts /\ local.cost = 0 /\ local.files = {}
  <2>1. begun \in Auditor
    BY <1>1, <1>2, <1>3, <1>4, NothingTyped DEF Auditor, AuditOps
  <2>2. /\ begun.op = "model" /\ begun.id = started + 1 /\ begun.row = row
        /\ begun.attempts = attempts /\ begun.cost = 0 /\ begun.files = {}
    BY DEF NoAuditor
  <2> HIDE DEF begun
  <2> QED BY <1>5, <2>1, <2>2
<1>7. OwnAudit(w, local)
  BY <1>6 DEF OwnAudit
<1>8. ledger'[started + 1] = [calls |-> 0, cost |-> 0, done |-> FALSE]
  BY <1>1 DEF AuditInv, SpentOnStarted
<1>9. Holds(local, ledger', audits', started')
  BY <1>1, <1>2, <1>3, <1>6, <1>8 DEF Holds
<1> QED
  BY <1>6, <1>7, <1>9 DEF local

LEMMA AuditOneKeeps ==
  ASSUME AuditTypeOK, AuditInv, NEW w \in Sessions, auditOne(w)
  PROVE  AuditTypeOK' /\ AuditInv'
<1> DEFINE s == auditor[w]
<1>1. /\ s \in Auditor /\ Holds(s, ledger, audits, started) /\ s.op = "batch"
      /\ UNCHANGED <<stage, captured, audits, envelopes, debugFiles, ledger, auditEvents>>
  BY Held DEF auditOne, db, disk
<1>2. CASE Now(w, NoAuditor) /\ UNCHANGED started
  BY <1>1, <1>2, IdleFits, ReadKeeps DEF db, disk, history
<1>3. ASSUME NEW package \in s.todo, Now(w, [s EXCEPT !.todo = @ \ {package}]), UNCHANGED started
      PROVE  AuditTypeOK' /\ AuditInv'
  <2> DEFINE local == [s EXCEPT !.todo = @ \ {package}]
  <2>1. /\ local \in Auditor /\ local.op = "batch" /\ local.files = s.files
    BY <1>1 DEF Auditor
  <2>2. Now(w, local)
    BY <1>3
  <2> HIDE DEF local, s
  <2>3. Holds(local, ledger, audits, started) /\ OwnAudit(w, local)
    BY <1>1, <2>1 DEF Holds, OwnAudit
  <2> QED BY <1>1, <1>3, <2>1, <2>2, <2>3, ReadKeeps DEF db, disk, history
<1>4. ASSUME NEW package \in s.todo, started < MaxAudits, started' = started + 1,
             NEW attempts \in 1..MaxGeneratorAttempts, Now(w, newAudit(w, package, 0, attempts))
      PROVE  AuditTypeOK' /\ AuditInv'
  <2> DEFINE local == newAudit(w, package, 0, attempts)
  <2>1. package \in Package
    BY <1>1, AuditorTypes
  <2>2. local \in Auditor /\ OwnAudit(w, local) /\ Holds(local, ledger', audits', started')
    BY <1>1, <1>4, <2>1, NewAuditFits
  <2>3. started' \in Nat /\ started <= started' /\ started' \in 0..MaxAudits
    BY <1>4, Constants DEF AuditTypeOK
  <2>4. BooksGrow /\ Grows(w)
    BY <1>1, <2>3, QuietBooks
  <2>5. Now(w, local)
    BY <1>4
  <2> HIDE DEF local
  <2>6. auditor' \in [Sessions -> Auditor] /\ AuditInv'
    BY <2>2, <2>4, <2>5, StepKeeps
  <2> QED BY <1>1, <2>3, <2>6 DEF AuditTypeOK
<1> QED
  BY <1>2, <1>3, <1>4 DEF auditOne

LEMMA SaveEnvelopeKeeps ==
  ASSUME AuditTypeOK, AuditInv, NEW w \in Sessions, saveEnvelope(w)
  PROVE  AuditTypeOK' /\ AuditInv'
<1> DEFINE s == auditor[w]
           local == [s EXCEPT !.op = "persist"]
<1>1. /\ s \in Auditor /\ Holds(s, ledger, audits, started) /\ s.op = "save"
      /\ UNCHANGED <<stage, captured, audits, debugFiles, started, auditEvents>>
      /\ envelopes' = [envelopes EXCEPT ![s.id] = s.row]
      /\ ledger' = [ledger EXCEPT ![s.id].done = TRUE] /\ Now(w, local)
  BY Held DEF saveEnvelope, db
<1>2. started \in Nat /\ started <= MaxAudits
  BY Constants DEF AuditTypeOK
<1>3. /\ s.id \in 1..started /\ ~ ledger[s.id].done /\ s.row.lead \in Leads
      /\ s.row.calls = ledger[s.id].calls /\ s.row.outcome # "none" /\ s.row \in Row
      /\ \A a \in s.files : ledger[a].done
  <2>1. s.row \in Row
    BY <1>1, AuditorTypes
  <2> HIDE DEF s
  <2> QED BY <1>1, <2>1 DEF Holds
<1>4. s.id \in AuditIds
  BY <1>2, <1>3, Constants DEF AuditIds
<1>5. /\ ledger' \in [AuditIds -> [calls : Nat, cost : Nat, done : BOOLEAN]]
      /\ ledger'[s.id].done /\ ledger'[s.id].calls = ledger[s.id].calls
      /\ ledger'[s.id].cost = ledger[s.id].cost
      /\ \A a \in AuditIds \ {s.id} : ledger'[a] = ledger[a]
  BY <1>1, <1>4 DEF AuditTypeOK
<1>6. /\ envelopes' \in [AuditIds -> Row] /\ envelopes'[s.id] = s.row
      /\ \A a \in AuditIds \ {s.id} : envelopes'[a] = envelopes[a]
  BY <1>1, <1>3, <1>4 DEF AuditTypeOK
<1>7. /\ local \in Auditor /\ local.op = "persist" /\ local.id = s.id /\ local.row = s.row
      /\ local.files = s.files
  BY <1>1 DEF Auditor, AuditOps
<1> HIDE DEF local
<1>8. ResultIn(s.id, s.row, ledger')
  BY <1>3, <1>5 DEF ResultIn
<1>9. Holds(local, ledger', audits', started') /\ OwnAudit(w, local)
  <2>1. \A a \in s.files : ledger'[a].done
    <3>1. s.files \subseteq AuditIds
      BY <1>1, AuditorTypes
    <3> QED BY <1>3, <1>5, <3>1
  <2> QED BY <1>4, <1>7, <1>8, <2>1 DEF Holds, OwnAudit
<1>10. \A a \in AuditIds : ledger[a].done => ledger'[a] = ledger[a]
  BY <1>3, <1>5
<1>11. Grows(w)
  <2>1. \A v \in Sessions \ {w} : auditor[v].op \in {"model", "save"} =>
          auditor[v].id # s.id /\ auditor[v].id \in AuditIds
    <3> SUFFICES ASSUME NEW v \in Sessions \ {w}, auditor[v].op \in {"model", "save"}
                 PROVE  auditor[v].id # s.id /\ auditor[v].id \in AuditIds
      OBVIOUS
    <3>1. auditor[v].id # s.id
      BY <1>1 DEF AuditInv, AuditsHaveOneAuthor
    <3>2. auditor[v].id \in 1..started
      BY Held DEF Holds
    <3> QED BY <1>2, <3>1, <3>2, Constants DEF AuditIds
  <2> HIDE DEF s
  <2> QED BY <1>1, <1>2, <1>5, <1>10, <2>1 DEF Grows
<1>12. BooksGrow
  <2> HIDE DEF s
  <2>1. \A a \in AuditIds : ledger'[a].done => ledger[a].done \/ envelopes'[a] # NoRow
    BY <1>5, <1>6, <1>8, ResultsAreRows
  <2>2. \A a \in AuditIds : ledger'[a].cost <= MaxCostPerLead
    BY <1>5 DEF AuditInv, SpendWithinCap
  <2>3. \A a \in AuditIds : a > started' => ledger'[a] = ledger[a]
    <3>1. \A a \in AuditIds : a > started' => a # s.id
      BY <1>1, <1>2, <1>3 DEF AuditIds
    <3> QED BY <1>5, <3>1
  <2>4. \A a \in AuditIds : envelopes'[a] = envelopes[a] \/ ResultIn(a, envelopes'[a], ledger')
    BY <1>6, <1>8
  <2>5. \A a \in AuditIds : audits'[a] = audits[a]
    BY <1>1
  <2>6. \A l \in Leads : stage'[l] = stage[l]
    BY <1>1
  <2> QED BY <1>10, <2>1, <2>2, <2>3, <2>4, <2>5, <2>6 DEF BooksGrow
<1>13. auditor' \in [Sessions -> Auditor] /\ AuditInv'
  BY <1>1, <1>7, <1>9, <1>11, <1>12, StepKeeps
<1> QED
  BY <1>1, <1>5, <1>6, <1>13 DEF AuditTypeOK

(* The next lead of a batch, and the next envelope of a recovery. *)
LEMMA NextTypes ==
  ASSUME AuditTypeOK, NEW w \in Sessions, NEW calls \in Nat,
         NEW command \in {"none", "audit-websites", "resume-audit", "repair", "requeue"},
         NEW books, NEW rows, NEW count, \A a \in auditor[w].files : books[a].done
  PROVE  /\ nextLead(w, calls) \in Auditor /\ Holds(nextLead(w, calls), books, rows, count)
         /\ OwnAudit(w, nextLead(w, calls))
         /\ LET local == [NoAuditor EXCEPT !.op = "recover", !.command = command,
                                           !.files = auditor[w].files] IN
            local \in Auditor /\ Holds(local, books, rows, count) /\ OwnAudit(w, local)
<1> DEFINE s == auditor[w]
           made == s.made + calls
           batch == [NoAuditor EXCEPT !.op = "batch", !.command = s.command, !.todo = s.todo, !.made = made]
           local == [NoAuditor EXCEPT !.op = "recover", !.command = command, !.files = s.files]
<1>1. s \in Auditor
  BY DEF AuditTypeOK
<1>2. /\ s.todo \in SUBSET Package /\ s.files \in SUBSET AuditIds /\ made \in Nat
      /\ s.command \in {"none", "audit-websites", "resume-audit", "repair", "requeue"}
  BY <1>1, AuditorTypes
<1>3. nextLead(w, calls) = batch
  BY DEF nextLead
<1> HIDE DEF s, made
<1>4. batch \in Auditor /\ batch.op = "batch" /\ batch.files = {}
  BY <1>2, NothingTyped DEF Auditor, AuditOps, NoAuditor
<1>5. local \in Auditor /\ local.op = "recover" /\ local.files = s.files
  BY <1>2, NothingTyped DEF Auditor, AuditOps, NoAuditor
<1> HIDE DEF batch, local
<1>6. Holds(batch, books, rows, count) /\ OwnAudit(w, batch)
  BY <1>4, BatchFits
<1>7. Holds(local, books, rows, count) /\ OwnAudit(w, local)
  BY <1>5 DEF Holds, OwnAudit, s
<1> QED
  BY <1>3, <1>4, <1>5, <1>6, <1>7 DEF local, s

LEMMA PersistCommitKeeps ==
  ASSUME AuditTypeOK, AuditInv, NEW w \in Sessions, persistCommit(w)
  PROVE  AuditTypeOK' /\ AuditInv'
<1> DEFINE s == auditor[w]
           a == s.id
           l == s.row.lead
<1>1. /\ s \in Auditor /\ Holds(s, ledger, audits, started) /\ s.op = "commit"
      /\ UNCHANGED <<captured, envelopes, debugFiles, started, ledger, auditEvents>>
  BY Held DEF persistCommit, disk, history
<1>2. /\ a \in AuditIds /\ ResultIn(a, s.row, ledger) /\ l \in Leads
      /\ s.route = "OPPORTUNITY_READY" => s.row.outcome = "AUDITED"
      /\ \A b \in s.files : ledger[b].done
  <2> HIDE DEF s
  <2> QED BY <1>1 DEF Holds, ResultIn
<1>3. ASSUME keyIsFree(a), audits' = [audits EXCEPT ![a] = s.row],
             stage' = [stage EXCEPT ![l] = IF s.route = "keep" THEN @ ELSE s.route],
             Now(w, [s EXCEPT !.op = "delete"])
      PROVE  AuditTypeOK' /\ AuditInv'
  <2> DEFINE local == [s EXCEPT !.op = "delete"]
  <2>1. /\ local \in Auditor /\ local.op = "delete" /\ local.id = a /\ local.row = s.row
        /\ local.files = s.files
    BY <1>1 DEF Auditor, AuditOps
  <2>2. s.row \in Row /\ s.route \in {"keep"} \cup LeadStatuses
    BY <1>1, AuditorTypes
  <2>3. Now(w, local) /\ audits[a] = NoRow
    BY <1>3 DEF keyIsFree
  <2> HIDE DEF local
  <2>4. /\ audits' \in [AuditIds -> Row] /\ audits'[a] = s.row
        /\ \A b \in AuditIds \ {a} : audits'[b] = audits[b]
    BY <1>2, <1>3, <2>2 DEF AuditTypeOK
  <2>5. /\ stage' \in [Leads -> LeadStatuses]
        /\ stage'[l] = stage[l] \/ stage'[l] = s.route
        /\ \A m \in Leads \ {l} : stage'[m] = stage[m]
    BY <1>2, <1>3, <2>2 DEF AuditTypeOK
  <2> HIDE DEF s
  <2>6. Holds(local, ledger', audits', started') /\ OwnAudit(w, local)
    BY <1>1, <1>2, <2>1, <2>4, ResultsAreRows DEF Holds, OwnAudit
  <2>7. \A b \in AuditIds : audits[b] # NoRow => audits'[b] # NoRow
    BY <2>3, <2>4
  <2>8. Grows(w)
    BY <1>1, <2>7 DEF Grows, AuditTypeOK
  <2>9. BooksGrow
    <3>1. \A b \in AuditIds : ledger'[b] = ledger[b] /\ ledger'[b].cost <= MaxCostPerLead
      BY <1>1 DEF AuditInv, SpendWithinCap
    <3>2. \A b \in AuditIds : ledger'[b].done => ledger[b].done
      BY <1>1
    <3>3. \A b \in AuditIds :
            audits'[b] = audits[b] \/ (audits[b] = NoRow /\ ResultIn(b, audits'[b], ledger'))
      BY <1>1, <1>2, <2>3, <2>4
    <3>4. \A b \in AuditIds : envelopes'[b] = envelopes[b]
      BY <1>1
    <3>5. \A m \in Leads : stage'[m] = "OPPORTUNITY_READY" =>
            \/ stage[m] = "OPPORTUNITY_READY"
            \/ \E b \in AuditIds : audits'[b].lead = m /\ audits'[b].outcome = "AUDITED"
      BY <1>2, <2>4, <2>5
    <3> QED BY <3>1, <3>2, <3>3, <3>4, <3>5 DEF BooksGrow
  <2>10. auditor' \in [Sessions -> Auditor] /\ AuditInv'
    BY <2>1, <2>3, <2>6, <2>8, <2>9, StepKeeps
  <2> QED BY <1>1, <2>4, <2>5, <2>10 DEF AuditTypeOK
<1>4. ASSUME NEW local \in Auditor, Holds(local, ledger, audits, started), OwnAudit(w, local),
             Now(w, local), UNCHANGED <<audits, stage>>
      PROVE  AuditTypeOK' /\ AuditInv'
  BY <1>1, <1>4, ReadKeeps DEF db, disk, history
<1>5. CASE Now(w, nextLead(w, 0)) /\ UNCHANGED <<audits, stage>>
  <2> DEFINE local == nextLead(w, 0)
  <2>1. local \in Auditor /\ Holds(local, ledger, audits, started) /\ OwnAudit(w, local)
    BY <1>2, NextTypes
  <2> HIDE DEF local
  <2> QED BY <1>4, <1>5, <2>1 DEF local
<1>6. CASE /\ Now(w, [NoAuditor EXCEPT !.op = "recover", !.command = "resume-audit", !.files = s.files])
           /\ UNCHANGED <<audits, stage>>
  <2> DEFINE local == [NoAuditor EXCEPT !.op = "recover", !.command = "resume-audit", !.files = s.files]
  <2>1. local \in Auditor /\ Holds(local, ledger, audits, started) /\ OwnAudit(w, local)
    BY <1>2, NextTypes
  <2>2. Now(w, local)
    BY <1>6
  <2> HIDE DEF local
  <2> QED BY <1>4, <1>6, <2>1, <2>2
<1> QED
  BY <1>3, <1>5, <1>6 DEF persistCommit

LEMMA DeleteEnvelopeKeeps ==
  ASSUME AuditTypeOK, AuditInv, NEW w \in Sessions, deleteEnvelope(w)
  PROVE  AuditTypeOK' /\ AuditInv'
<1> DEFINE s == auditor[w]
           again == [NoAuditor EXCEPT !.op = "recover", !.command = s.command, !.files = s.files]
<1>1. /\ s \in Auditor /\ Holds(s, ledger, audits, started) /\ s.op = "delete"
      /\ UNCHANGED <<stage, captured, audits, started, ledger, auditEvents>>
      /\ envelopes' = [envelopes EXCEPT ![s.id] = NoRow]
      /\ \/ debugFiles' = archiveForRun(s) /\ Now(w, nextLead(w, s.row.calls))
         \/ Now(w, again) /\ UNCHANGED debugFiles
  BY Held DEF deleteEnvelope, db, history
<1>2. /\ s.id \in AuditIds /\ audits[s.id] # NoRow /\ \A b \in s.files : ledger[b].done
      /\ s.command \in {"none", "audit-websites", "resume-audit", "repair", "requeue"}
      /\ s.row.calls \in Nat
  <2>1. s.row \in Row /\ s.command \in {"none", "audit-websites", "resume-audit", "repair", "requeue"}
    BY <1>1, AuditorTypes
  <2>2. s.row.calls \in Nat
    BY <2>1, RowTypes, Constants
  <2> HIDE DEF s
  <2> QED BY <1>1, <2>1, <2>2 DEF Holds
<1>3. debugFiles' \in [AuditIds -> {"none", "active", "archived"}]
  BY <1>1 DEF archiveForRun, AuditTypeOK
<1>4. /\ envelopes' \in [AuditIds -> Row] /\ envelopes'[s.id] = NoRow
      /\ \A a \in AuditIds \ {s.id} : envelopes'[a] = envelopes[a]
  BY <1>1, <1>2, NothingTyped DEF AuditTypeOK
<1>5. PICK local \in Auditor :
        Now(w, local) /\ Holds(local, ledger, audits, started) /\ OwnAudit(w, local)
  <2> DEFINE next == nextLead(w, s.row.calls)
  <2>1. /\ next \in Auditor /\ Holds(next, ledger, audits, started) /\ OwnAudit(w, next)
        /\ again \in Auditor /\ Holds(again, ledger, audits, started) /\ OwnAudit(w, again)
    BY <1>2, NextTypes
  <2>2. Now(w, next) \/ Now(w, again)
    BY <1>1
  <2> HIDE DEF next, again
  <2> QED BY <2>1, <2>2
<1> HIDE DEF s
<1>6. Grows(w)
  BY <1>1 DEF Grows, AuditTypeOK
<1>7. BooksGrow
  <2>1. \A b \in AuditIds : ledger'[b] = ledger[b] /\ ledger'[b].cost <= MaxCostPerLead
    BY <1>1 DEF AuditInv, SpendWithinCap
  <2>2. \A b \in AuditIds : ledger'[b].done => ledger[b].done
    BY <1>1
  <2>3. \A b \in AuditIds : \/ envelopes'[b] = envelopes[b]
                            \/ envelopes'[b] = NoRow /\ audits'[b] # NoRow
    BY <1>1, <1>2, <1>4
  <2>4. \A b \in AuditIds : audits'[b] = audits[b]
    BY <1>1
  <2>5. \A l \in Leads : stage'[l] = stage[l]
    BY <1>1
  <2> QED BY <2>1, <2>2, <2>3, <2>4, <2>5 DEF BooksGrow
<1>8. Holds(local, ledger', audits', started')
  BY <1>1, <1>5
<1>9. auditor' \in [Sessions -> Auditor] /\ AuditInv'
  BY <1>5, <1>6, <1>7, <1>8, StepKeeps
<1> QED
  BY <1>1, <1>3, <1>4, <1>9 DEF AuditTypeOK

LEMMA MoveCommitKeeps ==
  ASSUME AuditTypeOK, AuditInv, NEW w \in Sessions, moveCommit(w)
  PROVE  AuditTypeOK' /\ AuditInv'
<1> DEFINE s == auditor[w]
           l == s.row.lead
<1>1. /\ s \in Auditor /\ Holds(s, ledger, audits, started) /\ s.op = "move"
      /\ UNCHANGED <<captured, audits, envelopes, debugFiles, ledger, auditEvents>>
      /\ stage' = [stage EXCEPT ![l] = "READY_FOR_AUDIT"]
  BY Held DEF moveCommit, disk
<1>2. l \in Leads /\ (s.command # "requeue" => MaxGeneratorAttempts = 2) /\ s.row \in Row
      /\ s.todo \in SUBSET Package
  <2>1. s.row \in Row /\ s.todo \in SUBSET Package
    BY <1>1, AuditorTypes
  <2> HIDE DEF s
  <2> QED BY <1>1, <2>1 DEF Holds
<1>3. stage' \in [Leads -> LeadStatuses]
      /\ \A m \in Leads : stage'[m] = "OPPORTUNITY_READY" => stage[m] = "OPPORTUNITY_READY"
  <2>1. "READY_FOR_AUDIT" \in LeadStatuses
    BY DEF LeadStatuses
  <2> QED BY <1>1, <1>2, <2>1 DEF AuditTypeOK
<1>4. ASSUME NEW local \in Auditor, Now(w, local), OwnAudit(w, local),
             Holds(local, ledger', audits', started'), started' \in 0..MaxAudits, started <= started'
      PROVE  AuditTypeOK' /\ AuditInv'
  <2>1. started' \in Nat
    BY <1>4, Constants
  <2>2. BooksGrow /\ Grows(w)
    BY <1>1, <1>3, <1>4, <2>1, QuietBooks
  <2>3. auditor' \in [Sessions -> Auditor] /\ AuditInv'
    BY <1>4, <2>2, StepKeeps
  <2> QED BY <1>1, <1>3, <1>4, <2>3 DEF AuditTypeOK
<1>5. CASE Now(w, NoAuditor) /\ UNCHANGED started
  <2>1. started' \in 0..MaxAudits /\ started <= started'
    BY <1>5, Constants DEF AuditTypeOK
  <2> QED BY <1>4, <1>5, <2>1, IdleFits
<1>6. ASSUME s.command # "requeue", started < MaxAudits, started' = started + 1,
             NEW package \in s.todo, Now(w, newAudit(w, package, s.row.repairs, 2))
      PROVE  AuditTypeOK' /\ AuditInv'
  <2> DEFINE local == newAudit(w, package, s.row.repairs, 2)
  <2>1. package \in Package /\ s.row.repairs \in {0} \cup AuditIds /\ 2 \in 1..MaxGeneratorAttempts
    BY <1>2, <1>6, RowTypes
  <2>2. started' \in 0..MaxAudits /\ started <= started'
    BY <1>6, Constants DEF AuditTypeOK
  <2>3. MaxGeneratorAttempts >= 1
    BY <1>2, <1>6
  <2>4. Now(w, local)
    BY <1>6
  <2>5. local \in Auditor /\ OwnAudit(w, local) /\ Holds(local, ledger', audits', started')
    <3> HIDE DEF s
    <3> QED BY <1>1, <1>6, <2>1, <2>3, NewAuditFits
  <2> HIDE DEF local
  <2> QED BY <1>4, <2>2, <2>4, <2>5
<1> QED
  BY <1>5, <1>6 DEF moveCommit

LEMMA EventsKeep ==
  ASSUME AuditTypeOK, AuditInv, auditEvent, UNCHANGED <<auditor, audits, envelopes, started, ledger>>,
         \A l \in Leads : stage'[l] = "OPPORTUNITY_READY" => stage[l] = "OPPORTUNITY_READY"
  PROVE  AuditInv' /\ auditEvents' \in 0..MaxAuditEvents
<1>1. auditEvents' \in 0..MaxAuditEvents
  BY Constants DEF auditEvent, AuditTypeOK
<1>2. BooksGrow
  BY QuietBooks DEF AuditTypeOK
<1>3. /\ RowsAreResults' /\ SpentOnStarted' /\ SpendWithinCap' /\ PaidResultKept'
      /\ OpportunityWasAudited'
  BY <1>2, BooksStep DEF AuditTypeOK
<1>4. AuditorsAreSound'
  BY SoundSessions DEF AuditInv
<1>5. AuditsHaveOneAuthor'
  BY DEF AuditInv, AuditsHaveOneAuthor
<1> QED
  BY <1>1, <1>3, <1>4, <1>5 DEF AuditInv

LEMMA RecaptureKeeps ==
  ASSUME AuditTypeOK, AuditInv, NEW l \in Leads, recapture(l)
  PROVE  AuditTypeOK' /\ AuditInv'
<1>1. PICK images \in BOOLEAN : captured' = [captured EXCEPT ![l] = [run |-> @.run + 1, images |-> images]]
  BY DEF recapture
<1>2. /\ auditEvent /\ UNCHANGED <<auditor, audits, envelopes, debugFiles, started, ledger>>
      /\ stage' = [stage EXCEPT ![l] = "READY_FOR_AUDIT"]
  BY DEF recapture, disk
<1>3. captured' \in [Leads -> [run : Nat, images : BOOLEAN]]
  BY <1>1 DEF AuditTypeOK
<1>4. stage' \in [Leads -> LeadStatuses]
      /\ \A m \in Leads : stage'[m] = "OPPORTUNITY_READY" => stage[m] = "OPPORTUNITY_READY"
  <2>1. "READY_FOR_AUDIT" \in LeadStatuses
    BY DEF LeadStatuses
  <2> QED BY <1>2, <2>1 DEF AuditTypeOK
<1>5. AuditInv' /\ auditEvents' \in 0..MaxAuditEvents
  BY <1>2, <1>4, EventsKeep
<1> QED
  BY <1>2, <1>3, <1>4, <1>5 DEF AuditTypeOK

LEMMA CleanAuditDebugKeeps ==
  ASSUME AuditTypeOK, AuditInv, NEW a \in AuditIds, cleanAuditDebug(a)
  PROVE  AuditTypeOK' /\ AuditInv'
<1>1. /\ auditEvent /\ UNCHANGED <<stage, captured, auditor, audits, envelopes, started, ledger>>
      /\ debugFiles' = [debugFiles EXCEPT ![a] = "none"]
  BY DEF cleanAuditDebug, db
<1>2. AuditInv' /\ auditEvents' \in 0..MaxAuditEvents
  BY <1>1, EventsKeep
<1> QED
  BY <1>1, <1>2 DEF AuditTypeOK

LEMMA AuditCrashKeeps ==
  ASSUME AuditTypeOK, AuditInv, NEW w \in Sessions, auditCrash(w)
  PROVE  AuditTypeOK' /\ AuditInv'
<1>1. /\ auditEvent /\ Now(w, NoAuditor)
      /\ UNCHANGED <<stage, captured, audits, envelopes, debugFiles, started, ledger>>
  BY DEF auditCrash, db, disk
<1>2. BooksGrow /\ Grows(w)
  BY <1>1, QuietBooks DEF AuditTypeOK
<1>3. auditor' \in [Sessions -> Auditor] /\ AuditInv'
  BY <1>1, <1>2, IdleFits, StepKeeps
<1>4. auditEvents' \in 0..MaxAuditEvents
  BY <1>1, Constants DEF auditEvent, AuditTypeOK
<1> QED
  BY <1>1, <1>3, <1>4 DEF AuditTypeOK

(***************************************************************************)
(* The theorems                                                            *)
(***************************************************************************)
LEMMA InitKeeps ==
  ASSUME AuditInit PROVE AuditTypeOK /\ AuditInv
<1>1. AuditTypeOK
  <2>1. "READY_FOR_AUDIT" \in LeadStatuses
    BY DEF LeadStatuses
  <2> QED BY <2>1, NothingTyped, Constants DEF AuditInit, AuditTypeOK
<1>2. AuditorsAreSound
  BY SoundSessions, NothingHeld DEF AuditInit
<1>3. AuditsHaveOneAuthor
  BY DEF AuditInit, AuditsHaveOneAuthor, NoAuditor
<1>4. SpentOnStarted /\ RowsAreResults /\ SpendWithinCap /\ PaidResultKept
  BY Constants DEF AuditInit, SpentOnStarted, RowsAreResults, SpendWithinCap, PaidResultKept
<1>5. OpportunityWasAudited
  BY DEF AuditInit, OpportunityWasAudited
<1> QED
  BY <1>1, <1>2, <1>3, <1>4, <1>5 DEF AuditInv

LEMMA NextKeeps ==
  ASSUME AuditTypeOK, AuditInv, [AuditNext]_auditVars
  PROVE  AuditTypeOK' /\ AuditInv'
<1>1. ASSUME NEW w \in Sessions,
             \/ recoverEnvelopes(w) \/ recoverOne(w) \/ listLeads(w) \/ auditOne(w) \/ modelCall(w)
             \/ saveEnvelope(w) \/ persistRead(w) \/ persistCommit(w) \/ deleteEnvelope(w)
             \/ moveCommit(w) \/ auditCrash(w)
      PROVE  AuditTypeOK' /\ AuditInv'
  BY <1>1, RecoverEnvelopesKeeps, RecoverOneKeeps, ListLeadsKeeps, AuditOneKeeps, ModelCallKeeps,
     SaveEnvelopeKeeps, PersistReadKeeps, PersistCommitKeeps, DeleteEnvelopeKeeps, MoveCommitKeeps,
     AuditCrashKeeps
<1>2. ASSUME NEW w \in Sessions, NEW l \in Leads, moveRead(w, l) PROVE AuditTypeOK' /\ AuditInv'
  BY <1>2, MoveReadKeeps
<1>3. ASSUME NEW l \in Leads, recapture(l) PROVE AuditTypeOK' /\ AuditInv'
  BY <1>3, RecaptureKeeps
<1>4. ASSUME NEW a \in AuditIds, cleanAuditDebug(a) PROVE AuditTypeOK' /\ AuditInv'
  BY <1>4, CleanAuditDebugKeeps
<1>5. CASE UNCHANGED auditVars
  <2>1. UNCHANGED <<stage, captured, audits, envelopes, debugFiles, auditor, started, ledger, auditEvents>>
    BY <1>5 DEF auditVars
  <2>2. AuditTypeOK'
    BY <2>1 DEF AuditTypeOK
  <2>3. BooksGrow
    BY <2>1, QuietBooks DEF AuditTypeOK
  <2>4. /\ RowsAreResults' /\ SpentOnStarted' /\ SpendWithinCap' /\ PaidResultKept'
        /\ OpportunityWasAudited'
    BY <2>1, <2>3, BooksStep DEF AuditTypeOK
  <2>5. AuditorsAreSound'
    BY <2>1, SoundSessions DEF AuditInv
  <2>6. AuditsHaveOneAuthor'
    BY <2>1 DEF AuditInv, AuditsHaveOneAuthor
  <2> QED BY <2>2, <2>4, <2>5, <2>6 DEF AuditInv
<1> QED
  BY <1>1, <1>2, <1>3, <1>4, <1>5 DEF AuditNext

(* The types and the inductive invariant of the audit: while the models of an
   audit are called it is in one session's hands and the ledger knows no more
   than the session does, and everything on record, in an envelope or about to
   be committed is the result of an audit that has ended. *)
THEOREM AuditInvariant == AuditSpec => [](AuditTypeOK /\ AuditInv)
<1>1. AuditInit => AuditTypeOK /\ AuditInv
  BY InitKeeps
<1>2. AuditTypeOK /\ AuditInv /\ [AuditNext]_auditVars => (AuditTypeOK /\ AuditInv)'
  BY NextKeeps
<1> QED
  BY <1>1, <1>2, PTL DEF AuditSpec

(* No audit costs more than the cap of its lead, even if a call does not report
   its cost; what was paid for is on record or in its envelope after any crash
   and any two recoveries; an audit on record accounts for all its calls; and
   an OPPORTUNITY_READY lead has a reviewed audit. *)
THEOREM AuditIsSound == AuditSpec => []AuditSound
<1>1. AuditTypeOK /\ AuditInv => AuditSound
  <2> SUFFICES ASSUME AuditTypeOK, AuditInv PROVE AuditSound
    OBVIOUS
  <2>1. EveryCallOnRecord
    BY SoundRows DEF AuditInv, EveryCallOnRecord, ResultIn
  <2> QED BY <2>1 DEF AuditSound, AuditInv
<1> QED
  BY <1>1, AuditInvariant, PTL

(* A lead leaves READY_FOR_AUDIT only with a new audit of its own on record:
   an audit persisted by its process and replayed by a recovery decides once. *)
THEOREM AuditsDecideOnce == AuditSpec => EachAuditDecidesOnce
<1> DEFINE Decided(l) == \E a \in AuditIds : audits[a] = NoRow /\ audits'[a].lead = l
<1>1. ASSUME AuditTypeOK, AuditInv, AuditNext, NEW l \in Leads,
             stage[l] = "READY_FOR_AUDIT", stage'[l] # stage[l]
      PROVE  Decided(l)
  <2>1. ASSUME NEW w \in Sessions, persistCommit(w) PROVE Decided(l)
    <3> DEFINE s == auditor[w]
    <3>1. s \in Auditor /\ Holds(s, ledger, audits, started) /\ s.op = "commit"
      BY <1>1, <2>1, Held DEF persistCommit
    <3>2. s.id \in AuditIds /\ s.row.lead \in Leads
      <4> HIDE DEF s
      <4> QED BY <3>1 DEF Holds, ResultIn
    <3>3. /\ audits[s.id] = NoRow /\ audits' = [audits EXCEPT ![s.id] = s.row]
          /\ stage' = [stage EXCEPT ![s.row.lead] = IF s.route = "keep" THEN @ ELSE s.route]
      BY <1>1, <2>1 DEF persistCommit, keyIsFree
    <3> HIDE DEF s
    <3>4. l = s.row.lead
      BY <1>1, <3>2, <3>3 DEF AuditTypeOK
    <3> QED BY <1>1, <3>2, <3>3, <3>4 DEF AuditTypeOK
  <2>2. ASSUME NEW w \in Sessions, moveCommit(w) PROVE FALSE
    BY <1>1, <2>2 DEF moveCommit, AuditTypeOK
  <2>3. ASSUME NEW m \in Leads, recapture(m) PROVE FALSE
    BY <1>1, <2>3 DEF recapture, AuditTypeOK
  <2>4. \/ \E w \in Sessions : persistCommit(w) \/ moveCommit(w)
        \/ \E m \in Leads : recapture(m)
        \/ UNCHANGED stage
    BY <1>1 DEF AuditNext, recoverEnvelopes, recoverOne, listLeads, auditOne, modelCall, saveEnvelope,
       persistRead, deleteEnvelope, auditCrash, moveRead, cleanAuditDebug, db
  <2> QED BY <1>1, <2>1, <2>2, <2>3, <2>4
<1>2. AuditTypeOK /\ AuditInv /\ [AuditNext]_auditVars =>
        [\A l \in Leads : stage[l] = "READY_FOR_AUDIT" /\ stage'[l] # stage[l]
           => \E a \in AuditIds : audits[a] = NoRow /\ audits'[a].lead = l]_auditVars
  BY <1>1
<1> QED
  BY <1>2, AuditInvariant, PTL DEF AuditSpec, EachAuditDecidesOnce

=============================================================================
