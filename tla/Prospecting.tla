------------------------------ MODULE Prospecting ------------------------------
(***************************************************************************)
(* prospect-run: a search around a place, whose candidates are taken one   *)
(* after the other until enough of them qualify.                           *)
(*                                                                         *)
(* Sources: src/domain/prospect, src/pipeline/prospect-candidate-          *)
(* processor.ts, src/integrations/prospect and prospect.repo.ts.           *)
(*                                                                         *)
(* Runs may overlap, and one that dies leaves its row RUNNING.  What a     *)
(* provider, the verifier and the qualification answer is a choice.        *)
(***************************************************************************)
EXTENDS Collection

CONSTANTS
  Prospectors,
  Nearby,             \* of every run, the place lists its search may return
  DetailAnswers,      \* outcomes the details alone may lead to
  VerifierAnswers,    \* outcomes of looking at the website, with the failure's signature and haste
  Blocklists,         \* the places that may be on the suppression list
  TargetQualified, MaxDetails, MaxWebsiteVerifications,
  CacheDays,          \* age at which a resolved location expires
  MaxProspects, MaxDate  \* bounds: runs begun, days

VARIABLES
  runs,        \* prospect_runs with their prospect_candidates
  prospecting, \* local state of the runs
  suppressed,  \* places on the suppression list
  prospectStatus,  \* of every lead: active or terminal
  cachedOn,    \* day the location's cache row was resolved; -1: no row
  date,
  detailCalls, websiteCalls  \* history: calls made in the name of each run

prospectVars == <<runs, prospecting, suppressed, prospectStatus, cachedOn, date, detailCalls, websiteCalls>>

ProspectCandidateOutcome ==
  {"QUALIFIED", "DUPLICATE", "SUPPRESSED", "NO_WEBSITE", "CLOSED", "WEBSITE_TRANSIENT", "WEBSITE_INVALID", "DISQUALIFIED",
   "MANUAL_REVIEW", "SYSTEMIC_FAILURE"}

ASSUME ProspectAssumption ==
  /\ DetailAnswers \subseteq {"SYSTEMIC_FAILURE", "SUPPRESSED", "CLOSED", "DISQUALIFIED", "NO_WEBSITE", "WEBSITE_INVALID"}
  /\ \A a \in VerifierAnswers : a.outcome \in {"QUALIFIED", "WEBSITE_TRANSIENT", "WEBSITE_INVALID", "DISQUALIFIED", "MANUAL_REVIEW", "SYSTEMIC_FAILURE"}
  /\ TargetQualified \in Nat \ {0} /\ MaxDetails \in Nat /\ MaxWebsiteVerifications \in Nat

(* The breaker's three counters. *)
ProspectCircuitBreaker == [same |-> 0, last |-> "none", fast |-> 0]

Resting == [run |-> 0, at |-> "idle", position |-> 1, details |-> 0, website |-> 0, breaker |-> ProspectCircuitBreaker,
            what |-> NotCollecting.what, seen |-> 0, request |-> 0, result |-> "none"]

ProspectInit ==
  /\ runs = <<>> /\ prospecting = [p \in Prospectors |-> Resting]
  /\ suppressed \in Blocklists /\ prospectStatus = <<>> /\ cachedOn = -1 /\ date = 0
  /\ detailCalls = <<>> /\ websiteCalls = <<>>

prospectAt(p, at) == prospecting' = [prospecting EXCEPT ![p].at = at]

(***************************************************************************)
(* The location and the search                                             *)
(***************************************************************************)
(* Mutant: a row never expires. *)
find_Forever(d) == cachedOn # -1

find(d) == cachedOn # -1 /\ d - cachedOn <= CacheDays

(* A row that is there is kept, however old. *)
save(d) == cachedOn' = IF cachedOn = -1 THEN d ELSE cachedOn

locationRow(resolvedAt, begun, paid) ==
  [status |-> "RUNNING", result |-> "none", places |-> <<>>, outcomes |-> <<>>, resolvedAt |-> resolvedAt, begun |-> begun,
   locationCalls |-> paid, qualified |-> 0, processed |-> 0, details |-> 0, website |-> 0]

(* resolve, then start: the run is on record before anything is searched. *)
startRun(p, d) ==
  /\ prospecting[p] = Resting /\ Len(runs) < MaxProspects
  /\ date' = d
  /\ IF find(d) THEN runs' = Append(runs, locationRow(cachedOn, d, 0)) /\ UNCHANGED cachedOn
     ELSE runs' = Append(runs, locationRow(d, d, 1)) /\ save(d)
  /\ prospecting' = [prospecting EXCEPT ![p].run = Len(runs) + 1, ![p].at = "search"]
  /\ detailCalls' = Append(detailCalls, 0) /\ websiteCalls' = Append(websiteCalls, 0)
  /\ UNCHANGED <<collectVars, suppressed, prospectStatus>>

finishRow(run, result, s) ==
  [run EXCEPT !.status = IF result = "SYSTEMIC_FAILURE" THEN "FAILED" ELSE "COMPLETED", !.result = result, !.processed = Len(run.outcomes),
              !.qualified = Cardinality({n \in DOMAIN run.outcomes : run.outcomes[n].outcome = "QUALIFIED"}),
              !.details = s.details, !.website = s.website]

restProspector(p) == prospecting' = [prospecting EXCEPT ![p] = Resting]

discoverFails(p) ==
  /\ prospecting[p].at = "search"
  /\ runs' = [runs EXCEPT ![prospecting[p].run] = finishRow(@, "SYSTEMIC_FAILURE", prospecting[p])]
  /\ restProspector(p)
  /\ UNCHANGED <<collectVars, suppressed, prospectStatus, cachedOn, date, detailCalls, websiteCalls>>

(* The answer is put on record as a request and as rows of the run. *)
discover(p, places) ==
  /\ prospecting[p].at = "search"
  /\ requests' = Append(requests, [run |-> 0, status |-> IF places = <<>> THEN "EMPTY" ELSE "OK"])
  /\ runs' = [runs EXCEPT ![prospecting[p].run].places = places]
  /\ prospecting' = [prospecting EXCEPT ![p].at = "next", ![p].request = Len(requests) + 1]
  /\ UNCHANGED <<gathered, entities, sightings, collecting, collects, suppressed, prospectStatus, cachedOn, date, detailCalls, websiteCalls>>

(***************************************************************************)
(* One candidate                                                           *)
(***************************************************************************)
(* Mutant: a signature that comes again is not counted. *)
observe_Stuck(b, r) ==
  IF r.outcome \notin {"WEBSITE_TRANSIENT", "WEBSITE_INVALID"} THEN ProspectCircuitBreaker
  ELSE [same |-> IF r.signature = b.last THEN b.same ELSE 1, last |-> r.signature, fast |-> IF r.fast THEN b.fast + 1 ELSE 0]

observe(b, r) ==
  IF r.outcome \notin {"WEBSITE_TRANSIENT", "WEBSITE_INVALID"} THEN ProspectCircuitBreaker
  ELSE [same |-> IF r.signature = b.last THEN b.same + 1 ELSE 1, last |-> r.signature, fast |-> IF r.fast THEN b.fast + 1 ELSE 0]

tripped(b) == b.same >= 3 \/ b.fast >= 3

currentRun(p) == runs[prospecting[p].run]
currentPlace(p) == currentRun(p).places[prospecting[p].position]

(* Mutant: the calls are compared one too late. *)
withinLimits_Late(s) == s.details <= MaxDetails /\ s.website <= MaxWebsiteVerifications

withinLimits(s) == s.details < MaxDetails /\ s.website < MaxWebsiteVerifications

attachedToOtherActiveRun(place, run) ==
  \E r \in DOMAIN runs \ {run} : runs[r].status = "RUNNING" /\ \E n \in DOMAIN runs[r].places : runs[r].places[n] = place

existingLeadForPlace(place) == {n \in DOMAIN gathered : gathered[n].place = place} \cup {entities[m].lead : m \in findByProviderPlaceId(place)}

outcomeRow(outcome, lead, signature, fast) == [outcome |-> outcome, lead |-> lead, signature |-> signature, fast |-> fast]
plainly(outcome, lead) == outcomeRow(outcome, lead, "UNKNOWN", FALSE)

(* updateCandidate, and where the run goes from there. *)
settleCandidate(p, r, details, website) ==
  LET s == prospecting[p]
      outcomes == Append(currentRun(p).outcomes, r)
      b == observe(s.breaker, r)
      enough == Cardinality({n \in DOMAIN outcomes : outcomes[n].outcome = "QUALIFIED"}) >= TargetQualified
      result == IF r.outcome = "SYSTEMIC_FAILURE" \/ tripped(b) THEN "SYSTEMIC_FAILURE" ELSE IF enough THEN "TARGET_REACHED" ELSE "none"
  IN  /\ runs' = [runs EXCEPT ![s.run].outcomes = outcomes]
      /\ prospecting' = [prospecting EXCEPT ![p] =
           [s EXCEPT !.details = @ + details, !.website = @ + website, !.breaker = b, !.position = @ + 1, !.result = result,
                     !.at = IF result = "none" THEN "next" ELSE "finish", !.what = NotCollecting.what, !.seen = 0]]
      /\ detailCalls' = [detailCalls EXCEPT ![s.run] = @ + details]
      /\ websiteCalls' = [websiteCalls EXCEPT ![s.run] = @ + website]
      /\ UNCHANGED <<cachedOn, date>>

(* The limits are compared before the next candidate. *)
exhausted(p) ==
  LET s == prospecting[p]
      out == s.position <= Len(currentRun(p).places)
  IN  /\ s.at = "next" /\ (out => ~ withinLimits(s))
      /\ prospecting' = [prospecting EXCEPT ![p].at = "finish",
                                           ![p].result = IF out THEN "EXTERNAL_BUDGET_EXHAUSTED" ELSE "CANDIDATE_BUDGET_EXHAUSTED"]
      /\ UNCHANGED <<collectVars, runs, suppressed, prospectStatus, cachedOn, date, detailCalls, websiteCalls>>

finishRun(p) ==
  LET s == prospecting[p] IN
  /\ s.at = "finish"
  /\ runs' = [runs EXCEPT ![s.run] = finishRow(@, s.result, s)]
  /\ restProspector(p)
  /\ UNCHANGED <<collectVars, suppressed, prospectStatus, cachedOn, date, detailCalls, websiteCalls>>

mayTake(p) == prospecting[p].at = "next" /\ prospecting[p].position <= Len(currentRun(p).places) /\ withinLimits(prospecting[p])

(* The reads that come before a lead is made; the first that speaks decides. *)
screen(p) ==
  LET place == currentPlace(p)
      existing == existingLeadForPlace(place)
  IN  /\ mayTake(p)
      /\ IF attachedToOtherActiveRun(place, prospecting[p].run) THEN settleCandidate(p, plainly("DUPLICATE", 0), 0, 0)
         ELSE IF existing # {}
         THEN \E n \in existing : settleCandidate(p, plainly(IF prospectStatus[n] = "terminal" THEN "DISQUALIFIED" ELSE "DUPLICATE", n), 0, 0)
         ELSE IF place \in suppressed THEN settleCandidate(p, plainly("SUPPRESSED", 0), 0, 0)
         ELSE prospectAt(p, "collect") /\ UNCHANGED <<runs, cachedOn, date, detailCalls, websiteCalls>>
      /\ UNCHANGED <<collectVars, suppressed, prospectStatus>>

idOnlyCandidate(place) == [place |-> place, idOnly |-> TRUE]

readPlace(p) ==
  /\ prospecting[p].at = "collect"
  /\ \E d \in decideCandidate(idOnlyCandidate(currentPlace(p))) :
       prospecting' = [prospecting EXCEPT ![p].at = "commit", ![p].what = d, ![p].seen = Len(gathered)]
  /\ UNCHANGED <<collectVars, runs, suppressed, prospectStatus, cachedOn, date, detailCalls, websiteCalls>>

(* Collected as a place without facts; lost to the index, the run fails. *)
collectPlace(p) ==
  LET s == prospecting[p]
      created == newLead(s.what) /\ placeIsFree(currentPlace(p))
  IN  /\ s.at = "commit"
      /\ writeCandidate(idOnlyCandidate(currentPlace(p)), s.what, s.seen, s.request)
      /\ IF created
         THEN /\ prospectAt(p, "examine") /\ prospectStatus' = Append(prospectStatus, "active")
              /\ UNCHANGED <<runs, cachedOn, date, detailCalls, websiteCalls>>
         ELSE /\ settleCandidate(p, IF newLead(s.what) THEN plainly("SYSTEMIC_FAILURE", 0) ELSE plainly("DUPLICATE", s.what.lead), 0, 0)
              /\ UNCHANGED prospectStatus
      /\ UNCHANGED <<requests, collecting, collects, suppressed>>

leadOf(place) == CHOOSE n \in DOMAIN gathered : gathered[n].place = place

(* What an outcome leaves the lead as. *)
judged(outcome) == IF outcome \in {"DISQUALIFIED", "SUPPRESSED", "CLOSED"} THEN "terminal" ELSE "active"

(* The details: no answer is taken for a failure of the provider; what they
   show may end it before the website is looked at. *)
examine(p, outcome) ==
  LET lead == leadOf(currentPlace(p)) IN
  /\ prospecting[p].at = "examine"
  /\ settleCandidate(p, plainly(outcome, lead), 1, 0)
  /\ prospectStatus' = [prospectStatus EXCEPT ![lead] = judged(outcome)]
  /\ UNCHANGED <<collectVars, suppressed>>

(* The verifier's answer, and the second qualification if it found the site. *)
verifyWebsite(p, answer) ==
  LET lead == leadOf(currentPlace(p)) IN
  /\ prospecting[p].at = "examine"
  /\ settleCandidate(p, outcomeRow(answer.outcome, lead, answer.signature, answer.fast), 1, 1)
  /\ prospectStatus' = [prospectStatus EXCEPT ![lead] = judged(answer.outcome)]
  /\ UNCHANGED <<collectVars, suppressed>>

(***************************************************************************)
(* The runs                                                                *)
(***************************************************************************)
prospectorDies(p) ==
  /\ prospecting[p] # Resting /\ restProspector(p)
  /\ UNCHANGED <<collectVars, runs, suppressed, prospectStatus, cachedOn, date, detailCalls, websiteCalls>>

ProspectNext ==
  \E p \in Prospectors :
       \/ \E d \in date..MaxDate : startRun(p, d)
       \/ discoverFails(p) \/ exhausted(p) \/ finishRun(p) \/ screen(p) \/ readPlace(p) \/ collectPlace(p) \/ prospectorDies(p)
       \/ prospecting[p].run # 0 /\ \E places \in Nearby[prospecting[p].run] : discover(p, places)
       \/ \E outcome \in DetailAnswers : examine(p, outcome)
       \/ \E answer \in VerifierAnswers : verifyWebsite(p, answer)

ProspectSpec == CollectInit /\ ProspectInit /\ [][ProspectNext]_<<collectVars, prospectVars>>

(***************************************************************************)
(* Properties                                                              *)
(***************************************************************************)
ProspectTypeOK ==
  /\ Len(prospectStatus) <= Len(gathered) /\ Len(detailCalls) = Len(runs) /\ Len(websiteCalls) = Len(runs)
  /\ \A r \in DOMAIN runs : /\ Len(runs[r].outcomes) <= Len(runs[r].places)
                             /\ \A n \in DOMAIN runs[r].outcomes : runs[r].outcomes[n].outcome \in ProspectCandidateOutcome

(* No run makes more paid calls than it may, and one that ended has every
   call it made on its row. *)
CallsWithinLimits ==
  \A r \in DOMAIN runs :
    /\ detailCalls[r] <= MaxDetails /\ websiteCalls[r] <= MaxWebsiteVerifications
    /\ runs[r].status # "RUNNING" => runs[r].details = detailCalls[r] /\ runs[r].website = websiteCalls[r]

(* A failure of the system ends the run and is named as such: a candidate
   that failed so, or three websites in a row that failed alike or at once. *)
StopsWhenBroken ==
  \A r \in DOMAIN runs : \A n \in DOMAIN runs[r].outcomes :
    LET o == runs[r].outcomes
        failures == {m \in (n - 2)..n : m > 0 /\ o[m].outcome \in {"WEBSITE_TRANSIENT", "WEBSITE_INVALID"}}
        broken == \/ o[n].outcome = "SYSTEMIC_FAILURE"
                  \/ Cardinality(failures) = 3 /\ Cardinality({o[m].signature : m \in failures}) = 1
                  \/ Cardinality(failures) = 3 /\ \A m \in failures : o[m].fast
    IN  broken => n = Len(o) /\ (runs[r].status # "RUNNING" => runs[r].result = "SYSTEMIC_FAILURE")

(* A run says what it did: it reached its target exactly if enough of its
   candidates qualified, it ran out of candidates only if it took them all,
   and it failed only if the system did. *)
ResultsAreTrue ==
  \A r \in DOMAIN runs : runs[r].status # "RUNNING" =>
    LET run == runs[r] IN
    /\ (run.result = "TARGET_REACHED") <=> (run.qualified >= TargetQualified)
    /\ run.result = "CANDIDATE_BUDGET_EXHAUSTED" => run.processed = Len(run.places)
    /\ (run.status = "FAILED") <=> (run.result = "SYSTEMIC_FAILURE")

(* Whatever overlaps, a place's lead is worked on by the one run that made
   it, and the search started from a location that had not expired. *)
LeadsBelongToOneRun ==
  /\ \A q, r \in DOMAIN runs : \A m \in DOMAIN runs[q].outcomes, n \in DOMAIN runs[r].outcomes :
       (/\ runs[q].outcomes[m].lead # 0 /\ runs[q].outcomes[m].lead = runs[r].outcomes[n].lead
        /\ {runs[q].outcomes[m].outcome, runs[r].outcomes[n].outcome} \cap {"DUPLICATE", "DISQUALIFIED"} = {})
       => q = r /\ m = n
  /\ \A r \in DOMAIN runs : runs[r].begun - runs[r].resolvedAt <= CacheDays

ProspectSound == ProspectTypeOK /\ CallsWithinLimits /\ StopsWhenBroken /\ ResultsAreTrue /\ LeadsBelongToOneRun

=============================================================================
