----------------------------- MODULE EnrichedEmail -----------------------------
(***************************************************************************)
(* How one approved competitor pattern is put into an e-mail: the prospect's *)
(* issue it is about, the pattern that is taken, the sentences that are      *)
(* added, the ledger of claims and the check of the result.                  *)
(*                                                                           *)
(* Sources: domain/email/competitor-enrichment.ts and                        *)
(* competitor-email-composer.ts.                                             *)
(*                                                                           *)
(* Sentences are their claim types. "leak" and "prohibited" stand for the    *)
(* scan of the body, which also holds what the model wrote.                  *)
(***************************************************************************)
EXTENDS Naturals, FiniteSets, Sequences

CONSTANTS
  PatternKinds,    \* the patterns a package may hold
  FindingKinds,    \* the prospect's findings
  MaxPatterns,     \* bounds
  MaxFindings

VARIABLES
  brief,       \* what the composer is given
  composed     \* the e-mail that results

enrichedVars == <<brief, composed>>

EvidenceCategories == {"BOOKING_CTA_VISIBLE", "PHONE_VISIBLE", "WHATSAPP_OR_DIRECT_MESSAGE_VISIBLE", "FAQ_VISIBLE"}
PriorityOfIssue == [BOOKING_FRICTION |-> 1, CONTACT_FRICTION |-> 2, CTA_CLARITY |-> 3, TRUST |-> 4]
Aligned ==
  [BOOKING_FRICTION |-> {"BOOKING_CTA_VISIBLE"}, CTA_CLARITY |-> {"BOOKING_CTA_VISIBLE"},
   CONTACT_FRICTION |-> {"PHONE_VISIBLE", "WHATSAPP_OR_DIRECT_MESSAGE_VISIBLE"}, TRUST |-> {}]
ClaimTypes == {"PROSPECT_OBSERVATION", "COMPETITOR_PATTERN", "PROSPECT_CONTRAST", "CAUTIOUS_CONSEQUENCE", "RECOMMENDATION"}

EnrichmentPattern ==
  [id : Nat, category : EvidenceCategories, result : {"ALL_OBSERVED", "MAJORITY_OBSERVED", "NO_PATTERN"},
   confidence : {"HIGH", "MEDIUM", "LOW"}, present : Nat, denominator : Nat, worded : BOOLEAN]
Finding == [id : Nat, category : DOMAIN PriorityOfIssue]
Nobody == [id |-> 0]

NotComposed == [at |-> "asked", issue |-> Nobody, pattern |-> Nobody, body |-> <<>>, ledger |-> <<>>]
EmptyBrief == [patterns |-> {}, contrasts |-> {}, findings |-> {}, requested |-> 0, language |-> "en",
               opening |-> TRUE, recommendation |-> TRUE, scan |-> TRUE]

EnrichedTypeOK ==
  /\ brief.patterns \subseteq EnrichmentPattern /\ brief.contrasts \subseteq EvidenceCategories
  /\ brief.findings \subseteq Finding /\ brief.requested \in Nat
  /\ brief.language \in {"en", "de"} /\ {brief.opening, brief.recommendation, brief.scan} \subseteq BOOLEAN
  /\ composed.at \in {"asked", "refused", "composed", "valid"}
  /\ composed.body \in Seq(ClaimTypes) /\ composed.ledger \in Seq(ClaimTypes)

EnrichedInit ==
  /\ \E held \in SUBSET PatternKinds, findings \in SUBSET FindingKinds,
        contrasts \in SUBSET {"BOOKING_CTA_VISIBLE", "PHONE_VISIBLE"},
        requested \in {0} \cup {p.id : p \in PatternKinds}, language \in {"en", "de"}, opening, rec, scan \in BOOLEAN :
       /\ Cardinality(held) <= MaxPatterns /\ Cardinality(findings) <= MaxFindings
       /\ brief = [patterns |-> held, contrasts |-> contrasts, findings |-> findings, requested |-> requested,
                   language |-> language, opening |-> opening, recommendation |-> rec, scan |-> scan]
  /\ composed = NotComposed

(***************************************************************************)
(* The plan                                                                *)
(***************************************************************************)
(* "worded" is that wording, its form and the consequence go with the counts. *)
isEnrichablePattern(p) ==
  /\ p.result # "NO_PATTERN" /\ p.confidence # "LOW" /\ p.worded
  /\ p.present >= 2 /\ p.denominator >= 2 /\ p.category # "FAQ_VISIBLE"

enrichable == {p \in brief.patterns : isEnrichablePattern(p)}

canBeEnriched(f) == \E p \in enrichable : p.category \in Aligned[f.category]

moreUrgent(f, g) ==
  \/ PriorityOfIssue[f.category] < PriorityOfIssue[g.category]
  \/ PriorityOfIssue[f.category] = PriorityOfIssue[g.category] /\ f.id < g.id

(* Mutant: the finding that was recorded first. *)
selectPrimaryIssue_First ==
  LET candidates == {f \in brief.findings : canBeEnriched(f)} IN
  IF candidates = {} THEN Nobody ELSE CHOOSE f \in candidates : \A g \in candidates : f.id <= g.id

selectPrimaryIssue ==
  LET candidates == {f \in brief.findings : canBeEnriched(f)} IN
  IF candidates = {} THEN Nobody ELSE CHOOSE f \in candidates : \A g \in candidates \ {f} : moreUrgent(f, g)

strength(p) == <<IF p.category \in brief.contrasts THEN 1 ELSE 0, IF p.confidence = "HIGH" THEN 1 ELSE 0,
                 IF p.result = "ALL_OBSERVED" THEN 1 ELSE 0, p.denominator, p.present>>

(* By contrast, confidence, result, denominator and count, in this order, and
   then by id. *)
preferred(p, q) ==
  \/ \E k \in 1..5 : strength(p)[k] > strength(q)[k] /\ \A j \in 1..(k - 1) : strength(p)[j] = strength(q)[j]
  \/ strength(p) = strength(q) /\ p.id < q.id

selectPattern(aligned) == CHOOSE p \in aligned : \A q \in aligned \ {p} : preferred(p, q)

(* The pattern of the plan, or nobody: what the operator asked for has to pass
   the same gates. *)
plannedPattern(issue) ==
  LET aligned == {p \in enrichable : p.category \in Aligned[issue.category]} IN
  IF brief.requested = 0 THEN selectPattern(aligned)
  ELSE IF \E p \in aligned : p.id = brief.requested THEN CHOOSE p \in aligned : p.id = brief.requested
  ELSE Nobody

planEnrichment ==
  /\ composed.at = "asked"
  /\ LET issue == IF brief.language = "en" THEN selectPrimaryIssue ELSE Nobody
         pattern == IF issue = Nobody THEN Nobody ELSE plannedPattern(issue)
     IN composed' = [composed EXCEPT !.at = IF pattern = Nobody THEN "refused" ELSE "composed",
                                     !.issue = issue, !.pattern = pattern]
  /\ UNCHANGED brief

(***************************************************************************)
(* The e-mail                                                              *)
(***************************************************************************)
hasContrast == composed.pattern.category \in brief.contrasts

(* decideCompetitorRender: a further sentence only where the base draft has
   nothing of the kind. *)
renders(opening, recommendation) == [contrast |-> hasContrast /\ ~ opening, consequence |-> ~ recommendation]

only(wanted, claim) == IF wanted THEN <<claim>> ELSE <<>>

(* Mutant: the call to action is a section as well. *)
buildCompositionSections_Cta == <<"COMPETITOR_PATTERN", "CTA">>

buildCompositionSections ==
  LET decision == renders(brief.opening, brief.recommendation) IN
  only(brief.opening, "PROSPECT_OBSERVATION") \o <<"COMPETITOR_PATTERN">>
    \o only(decision.contrast, "PROSPECT_CONTRAST") \o only(decision.consequence, "CAUTIOUS_CONSEQUENCE")
    \o only(brief.recommendation, "RECOMMENDATION")

has(claims, claim) == \E k \in DOMAIN claims : claims[k] = claim

(* Mutant: the ledger is written from the plan. *)
buildClaimLedger_Planned(sections) ==
  only(has(sections, "PROSPECT_OBSERVATION"), "PROSPECT_OBSERVATION") \o <<"COMPETITOR_PATTERN">>
    \o only(hasContrast, "PROSPECT_CONTRAST") \o <<"CAUTIOUS_CONSEQUENCE">>
    \o only(has(sections, "RECOMMENDATION"), "RECOMMENDATION")

(* The decision is made again, from the sections that were built. *)
buildClaimLedger(sections) ==
  LET decision == renders(has(sections, "PROSPECT_OBSERVATION"), has(sections, "RECOMMENDATION")) IN
  only(has(sections, "PROSPECT_OBSERVATION"), "PROSPECT_OBSERVATION") \o <<"COMPETITOR_PATTERN">>
    \o only(decision.contrast, "PROSPECT_CONTRAST") \o only(decision.consequence, "CAUTIOUS_CONSEQUENCE")
    \o only(has(sections, "RECOMMENDATION"), "RECOMMENDATION")

(* Mutant: a consequence beside a recommendation only. *)
detectStructuredRedundancy_Recommended(ledger) ==
  has(ledger, "CAUTIOUS_CONSEQUENCE") /\ has(ledger, "RECOMMENDATION")

detectStructuredRedundancy(ledger) ==
  \/ has(ledger, "CAUTIOUS_CONSEQUENCE") /\ (has(ledger, "RECOMMENDATION") \/ has(ledger, "PROSPECT_CONTRAST"))
  \/ has(ledger, "PROSPECT_CONTRAST") /\ has(ledger, "PROSPECT_OBSERVATION")

(* "scan" is that no competitor's name and no prohibited claim is in the body. *)
validateEnrichedComposition(ledger) ==
  brief.scan /\ ~ detectStructuredRedundancy(ledger) /\ isEnrichablePattern(composed.pattern)

composeEnrichedEmail ==
  /\ composed.at = "composed" /\ composed.body = <<>>
  /\ LET body == buildCompositionSections ledger == buildClaimLedger(body) IN
     composed' = [composed EXCEPT !.body = body, !.ledger = ledger,
                                  !.at = IF validateEnrichedComposition(ledger) THEN "valid" ELSE "refused"]
  /\ UNCHANGED brief

EnrichedNext == planEnrichment \/ composeEnrichedEmail

EnrichedSpec == EnrichedInit /\ [][EnrichedNext]_enrichedVars

(***************************************************************************)
(* Properties                                                              *)
(***************************************************************************)
(* The pattern speaks to the issue, no more urgent issue could have been spoken
   to, and a pattern nobody asked for is the strongest there is for it. *)
PatternAnswersTheIssue ==
  composed.pattern # Nobody =>
    /\ composed.pattern.category \in Aligned[composed.issue.category]
    /\ \A f \in brief.findings, p \in enrichable : p.category \in Aligned[f.category] => ~ moreUrgent(f, composed.issue)
    /\ brief.requested = 0 =>
         \A q \in enrichable : q.category \in Aligned[composed.issue.category] => ~ preferred(q, composed.pattern)

(* The ledger accounts for the body: every sentence is a claim of the ledger and
   every claim a sentence, in the same order. *)
LedgerAccountsForTheBody == composed.ledger = composed.body

(* An e-mail that passes says nothing twice: beside the pattern there is at most
   one more sentence, the one whose counterpart the model's draft lacks. *)
NothingIsSaidTwice ==
  composed.at = "valid" =>
    /\ ~ (has(composed.body, "PROSPECT_CONTRAST") /\ has(composed.body, "CAUTIOUS_CONSEQUENCE"))
    /\ has(composed.body, "PROSPECT_CONTRAST") => ~ brief.opening
    /\ has(composed.body, "CAUTIOUS_CONSEQUENCE") => ~ brief.recommendation

(* A composed e-mail compares where it matters, once, and can account for it. *)
EnrichedSound == EnrichedTypeOK /\ PatternAnswersTheIssue /\ LedgerAccountsForTheBody /\ NothingIsSaidTwice

=============================================================================
