------------------------------ MODULE ReviewLoop ------------------------------
(***************************************************************************)
(* The visual review of a demo page: the loop of reviews and revisions with *)
(* its limits, the budget of the live reviewer, and the revisions it may    *)
(* ask for.                                                                 *)
(*                                                                          *)
(* Sources: visual-review-loop.ts, visual-review-cost.ts, visual-review.ts, *)
(* revision-executor.ts and the commands demo-v2-review-loop,               *)
(* demo-v2-review-loop-live and demo-v2-revise.                             *)
(*                                                                          *)
(* A plan is the sequence of its sections; "of" is what a section shows.    *)
(* The ten operations that only set a bounded value in the overlay are one. *)
(***************************************************************************)
EXTENDS Naturals, Sequences, FiniteSets

CONSTANTS
  Sections,        \* the plan: a sequence of component families
  Variants,        \* component variants
  Projections,     \* what one live call may cost at worst
  CeilingUsd,      \* DEMO_V2_MAX_COST_USD_PER_DEMO
  MaxOperations    \* 12 in the code

ASSUME LoopAssumption == Projections \cup {CeilingUsd, MaxOperations} \subseteq Nat

VARIABLES
  limits,      \* of the loop
  loop,        \* the controller
  sections,    \* the plan's sections, in order
  overlay,     \* anchors that have presentation values
  revised      \* the last revision: its operations and the plan before

loopVars == <<limits, loop, sections, overlay, revised>>

(* The first section of a family is called by it, the others by it and their number. *)
anchorOf(families, k) == <<families[k], Cardinality({m \in 1..k : families[m] = families[k]})>>

Anchors == {anchorOf(Sections, k) : k \in DOMAIN Sections}
Limits == [maxReviewCalls : 1..3, maxRevisions : 0..2]
ReviewDecisions == {"APPROVE", "REVISE", "REJECT"}
NoLoop == [at |-> "idle", calls |-> 0, revisions |-> 0, spend |-> 0, last |-> "none", worst |-> 0]
LoopSteps == {"idle", "review", "revise", "live", "done", "failed"}

LoopTypeOK ==
  /\ limits \in Limits
  /\ loop \in [at : LoopSteps, calls : 0..3, revisions : 0..2, spend : Nat, last : ReviewDecisions \cup {"none"},
               worst : Nat]
  /\ sections \in Seq([of : Nat, family : STRING, variant : Variants])
  /\ overlay \subseteq Anchors

LoopInit ==
  /\ limits \in Limits
  /\ loop = NoLoop
  /\ \E v \in Variants : sections = [k \in DOMAIN Sections |-> [of |-> k, family |-> Sections[k], variant |-> v]]
  /\ overlay = {}
  /\ revised = [ops |-> <<>>, before |-> <<>>]

(***************************************************************************)
(* The controller                                                          *)
(***************************************************************************)
canReview == loop.calls < limits.maxReviewCalls

(* Mutant: nobody asks whether a review is left for the result. *)
canRevise_Unjudged(c) == c.last = "REVISE" /\ c.revisions < limits.maxRevisions

canRevise(c) == c.last = "REVISE" /\ c.revisions < limits.maxRevisions /\ c.calls < limits.maxReviewCalls

(* What the mock and the live reviewer may answer: an approval has no blockers,
   a rejection has some. *)
verdicts(cost) == {[decision |-> d, cost |-> cost] : d \in ReviewDecisions}

recordReview(result) == [loop EXCEPT !.calls = @ + 1, !.spend = @ + result.cost, !.last = result.decision]

(* The mock command: the reviewer's answers come from a list that may end. *)
demoV2ReviewLoop ==
  /\ loop.at \in {"idle", "done", "failed"}
  /\ loop' = [NoLoop EXCEPT !.at = "review"]
  /\ UNCHANGED <<limits, sections, overlay, revised>>

review ==
  /\ loop.at = "review"
  /\ \/ \E result \in verdicts(0) :
          LET c == recordReview(result) IN
          canReview /\ loop' = [c EXCEPT !.at = IF canRevise(c) THEN "revise" ELSE "done"]
     \/ loop' = [loop EXCEPT !.at = "done"]
  /\ UNCHANGED <<limits, sections, overlay, revised>>

recordRevision ==
  /\ loop.at = "revise"
  /\ loop' = [loop EXCEPT !.revisions = @ + 1, !.at = "review"]
  /\ UNCHANGED <<limits, sections, overlay, revised>>

(* Mutant: a call whose price is not known is taken as free. *)
evaluateDemoV2Budget_Unknown(known, projected, prior) == known => prior + projected <= CeilingUsd

(* The worst case of the call on top of what was spent; an unknown price blocks. *)
evaluateDemoV2Budget(known, projected, prior) == known /\ prior + projected <= CeilingUsd

LiveRequirements == {"confirmed", "demo_v2", "openai_reviewer", "openai_llm", "paid_calls", "api_key", "fixed_model",
                     "price"}
assertLiveReviewEnvironment(met) == met = LiveRequirements

(* Every screenshot still has the hash that the package records. *)
loadReviewImages(intact) == intact

(* The live command has a controller, and a cache, of its own and makes one
   call. *)
runLiveReviewLoop ==
  /\ loop.at \in {"idle", "done", "failed"}
  /\ \E met \in {LiveRequirements} \cup {LiveRequirements \ {r} : r \in LiveRequirements}, known, intact \in BOOLEAN,
        projected \in Projections :
       LET go == /\ assertLiveReviewEnvironment(met) /\ loadReviewImages(intact)
                 /\ evaluateDemoV2Budget(known, projected, NoLoop.spend)
       IN loop' = [NoLoop EXCEPT !.at = IF go THEN "live" ELSE "failed", !.worst = projected]
  /\ UNCHANGED <<limits, sections, overlay, revised>>

(* The call costs up to its worst case; one that fails leaves no trace. *)
liveReview ==
  /\ loop.at = "live"
  /\ \/ \E cost \in 0..loop.worst : \E result \in verdicts(cost) :
          LET c == recordReview(result) IN loop' = [c EXCEPT !.at = IF c.spend > CeilingUsd THEN "failed" ELSE "done"]
     \/ loop' = [loop EXCEPT !.at = "failed"]
  /\ UNCHANGED <<limits, sections, overlay, revised>>

(***************************************************************************)
(* Revisions                                                               *)
(***************************************************************************)
(* "bound" is whether the anchor and the value are within the contract and the
   reviewer permitted the operation. *)
Operation ==
  [operation : {"SECTION_ORDER"}, target : Anchors, position : DOMAIN Sections, bound : BOOLEAN]
    \cup [operation : {"COMPONENT_VARIANT"}, target : Anchors, variant : Variants, bound : BOOLEAN]
    \cup [operation : {"OVERLAY"}, target : Anchors, bound : BOOLEAN]

(* Mutant: the place the section had when the revision began. *)
placeOf_Before(plan, target) == CHOOSE k \in DOMAIN Sections : anchorOf(Sections, k) = target

(* deriveSectionAnchors, in the plan as the operations before have left it: of
   two sections of a family the anchors may have changed places. *)
placeOf(plan, target) ==
  LET families == [k \in DOMAIN plan |-> plan[k].family] IN CHOOSE k \in DOMAIN plan : anchorOf(families, k) = target

moved(plan, from, to) ==
  LET rest == SubSeq(plan, 1, from - 1) \o SubSeq(plan, from + 1, Len(plan))
  IN SubSeq(rest, 1, to - 1) \o <<plan[from]>> \o SubSeq(rest, to, Len(rest))

(* Mutant: an overlay value is kept under its position. *)
applyOne_Position(state, op, allowed) ==
  IF op.operation = "OVERLAY" THEN [state EXCEPT !.overlay = @ \cup {<<"section", 1>>}] ELSE state

(* "ok" stays FALSE once an operation was rejected. *)
applyOne(state, op, allowed) ==
  LET k == placeOf(state.plan, op.target) IN
  IF ~ state.ok \/ ~ op.bound \/ (op.operation = "COMPONENT_VARIANT" /\ op.variant \notin allowed)
  THEN [state EXCEPT !.ok = FALSE]
  ELSE CASE op.operation = "SECTION_ORDER" -> [state EXCEPT !.plan = moved(@, k, op.position)]
         [] op.operation = "COMPONENT_VARIANT" -> [state EXCEPT !.plan[k].variant = op.variant]
         [] op.operation = "OVERLAY" -> [state EXCEPT !.overlay = @ \cup {op.target}]

(* All operations or none; what comes back is printed, and the page is rendered
   anew from it by hand. *)
executeRevision ==
  /\ revised.ops = <<>>
  /\ \E n \in 1..MaxOperations : \E ops \in [1..n -> Operation], allowed \in SUBSET Variants :
       LET upTo[k \in 0..n] == IF k = 0 THEN [ok |-> TRUE, plan |-> sections, overlay |-> overlay]
                               ELSE applyOne(upTo[k - 1], ops[k], allowed)
       IN /\ revised' = [ops |-> ops, before |-> sections]
          /\ IF upTo[n].ok THEN sections' = upTo[n].plan /\ overlay' = upTo[n].overlay
             ELSE UNCHANGED <<sections, overlay>>
  /\ UNCHANGED <<limits, loop>>

LoopNext == demoV2ReviewLoop \/ review \/ recordRevision \/ runLiveReviewLoop \/ liveReview

LoopSpec == LoopInit /\ [][LoopNext \/ executeRevision]_loopVars

(***************************************************************************)
(* Properties                                                              *)
(***************************************************************************)
(* Every revision made can still be judged: there are never as many revisions
   as reviews with no review left. *)
EveryRevisionCanBeJudged ==
  /\ loop.revisions <= loop.calls
  /\ loop.revisions = loop.calls /\ loop.calls > 0 => canReview

(* No run of the live command spends more than the ceiling. *)
LiveSpendWithinCeiling == loop.spend <= CeilingUsd

(* A revision is presentation only: the plan shows the same sections, each
   once.  A section has another variant only if an operation that named it gave
   it that one, or one that named a section of its family did after the
   sections of the family had been put in another order. *)
RevisionKeepsTheSections ==
  revised.ops # <<>> =>
    /\ Len(sections) = Len(revised.before)
    /\ \A k \in DOMAIN revised.before :
         LET b == revised.before[k]
             mine == anchorOf([m \in DOMAIN revised.before |-> revised.before[m].family], k) IN
         \E m \in DOMAIN sections :
           /\ sections[m].of = b.of /\ sections[m].family = b.family
           /\ \/ sections[m].variant = b.variant
              \/ \E j \in DOMAIN revised.ops :
                   LET op == revised.ops[j] IN
                   /\ op.operation = "COMPONENT_VARIANT" /\ op.variant = sections[m].variant
                   /\ \/ op.target = mine
                      \/ /\ op.target[1] = b.family
                         /\ \E i \in 1..(j - 1) : revised.ops[i].operation = "SECTION_ORDER"
                                                 /\ revised.ops[i].target[1] = b.family

(* The loop leaves no revision that could not be judged (the mock's list of
   answers may end before it is), keeps within its budget, and the page stays
   the plan's. *)
LoopSound == LoopTypeOK /\ EveryRevisionCanBeJudged /\ LiveSpendWithinCeiling /\ RevisionKeepsTheSections

=============================================================================
