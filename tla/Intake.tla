------------------------------- MODULE Intake -------------------------------
(***************************************************************************)
(* From a collected lead to a website captured for audit: qualification,   *)
(* enrichment (the search for the official website), verification by       *)
(* browser, audit capture, and the operator's reject and reopen.           *)
(*                                                                         *)
(* Sources: src/domain/qualification, src/domain/enrichment,               *)
(* src/domain/capture, src/persistence/google-place-details-store.ts,      *)
(* src/integrations/capture, and the commands qualify-leads, enrich-lead,  *)
(* enrich-leads, places-backfill, capture-websites, reject-lead and        *)
(* reopen-lead.                                                            *)
(*                                                                         *)
(* A fact is who said it and, for the official website, which site.  Five  *)
(* types stand for all: business_name; category, with the other facts of a *)
(* place (business status, ownership, address), "open" or "out" when one   *)
(* of them rules the business out; rating, with review count and phone;    *)
(* official_domain; official_website_url, with the location page.          *)
(***************************************************************************)
EXTENDS LeadPipeline

CONSTANTS
  Sites,                              \* websites that may be a lead's
  BaseViability, RatingViability,     \* viability without rating, and what rating adds
  MaxIntakeEvents                     \* bound: operator commands, crashes and disk failures

ASSUME IntakeAssumption ==
  /\ {BaseViability, RatingViability, MaxIntakeEvents} \subseteq Nat
  /\ {"nothing", "open", "out"} \cap Sites = {}

VARIABLES
  status,       \* leads.status
  fact,         \* lead_facts: the current fact of each type
  target,       \* the candidate of the last BROWSER_REQUIRED enrichment attempt
  capture,      \* website_capture_runs: the last usable audit capture
  suppressed,   \* leads matched by a suppression entry
  session,      \* what each session is doing
  officials,    \* history: every site that was ever an official fact of the lead
  intakeEdits, intakeFaults

intakeVars == <<status, fact, target, capture, suppressed, session, officials,
                intakeEdits, intakeFaults>>
intakeBounds == <<intakeEdits, intakeFaults>>
leadState == <<status, fact, target, capture, suppressed, officials, intakeBounds>>

FactTypes == {"business_name", "category", "rating", "official_domain", "official_website_url"}
OfficialTypes == {"official_domain", "official_website_url"}
Sources == {"none", "google_places", "manual", "website"}
Values == Sites \cup {"nothing", "open", "out"}
Fact == [src : Sources, val : Values]
NoFact == [src |-> "none", val |-> "nothing"]
NoFacts == [t \in FactTypes |-> NoFact]
NoOfficial == [t \in OfficialTypes |-> NoFact]

EnrichmentOutcomes ==
  {"VERIFIED", "AMBIGUOUS", "INSUFFICIENT_CONTEXT", "NO_CANDIDATE", "NO_VERIFIED_CANDIDATE",
   "BROWSER_REQUIRED", "TRANSIENT_ERROR", "POLICY_BLOCKED", "INVALID_INPUT"}
CaptureOutcomes ==
  {"CAPTURED", "PARTIAL_CAPTURE", "BROWSER_BLOCKED", "BOT_CHALLENGE", "AUTH_REQUIRED",
   "NO_RENDERABLE_CONTENT", "TRANSIENT_ERROR", "POLICY_BLOCKED", "INVALID_TARGET"}

IntakeOps == {"idle", "qualify", "details", "google", "backfill", "verify", "enrich", "toCapture",
              "render", "record", "blobs", "reject", "reopen"}

(* path: the transitions to make.  write: the facts to write, NoFact for none.
   seen: the official facts listed before the browser started.  site: the
   website at hand.  audit: an audit capture, not a verification.  verified:
   the site was verified, or the capture is usable. *)
Session == [op : IntakeOps, lead : Leads \cup {"none"}, path : Seq(LeadStatuses),
            write : [FactTypes -> Fact], seen : [OfficialTypes -> Fact],
            site : Values, audit : BOOLEAN, verified : BOOLEAN]
NoSession == [op |-> "idle", lead |-> "none", path |-> <<>>, write |-> NoFacts,
              seen |-> NoOfficial, site |-> "nothing", audit |-> FALSE,
              verified |-> FALSE]

(* artifacts: screenshots in the temporary directory, in the blob store, gone. *)
Capture == [site : Values, artifacts : {"none", "staged", "stored", "lost"}, by : Sessions \cup {"none"}]
NoCapture == [site |-> "nothing", artifacts |-> "none", by |-> "none"]

IntakeTypeOK ==
  /\ status \in [Leads -> LeadStatuses]
  /\ fact \in [Leads -> [FactTypes -> Fact]]
  /\ target \in [Leads -> Values]
  /\ capture \in [Leads -> Capture]
  /\ suppressed \subseteq Leads
  /\ session \in [Sessions -> Session]
  /\ officials \in [Leads -> SUBSET Sites]
  /\ intakeEdits \in 0..MaxIntakeEvents /\ intakeFaults \in 0..MaxIntakeEvents

(* Collection created the lead from a Place ID alone, or from a list that may
   name the website (src/pipeline/collect-leads.ts). *)
CollectedFacts ==
  {NoFacts} \cup
  {[NoFacts EXCEPT !["business_name"] = [src |-> "manual", val |-> "nothing"],
                   !["official_domain"] = official] :
     official \in {NoFact} \cup [src : {"manual"}, val : Sites]}

IntakeInit ==
  /\ status = [l \in Leads |-> "NEW"]
  /\ fact \in [Leads -> CollectedFacts]
  /\ target = [l \in Leads |-> "nothing"]
  /\ capture = [l \in Leads |-> NoCapture]
  /\ suppressed = {}
  /\ session = [w \in Sessions |-> NoSession]
  /\ officials = [l \in Leads |-> {fact[l]["official_domain"].val} \cap Sites]
  /\ intakeEdits = 0 /\ intakeFaults = 0

Become(w, local) == session' = [session EXCEPT ![w] = local]
Finish(w) == Become(w, NoSession)
idle(w) == session[w].op = "idle"
known(l, t) == fact[l][t].src # "none"

(* writeCurrentFact demotes whatever is current: the facts to write replace
   the current ones. *)
writeCurrentFact(l, write) ==
  /\ fact' = [fact EXCEPT ![l] =
       [t \in FactTypes |-> IF write[t] = NoFact THEN @[t] ELSE write[t]]]
  /\ officials' = [officials EXCEPT ![l] = @ \cup ({write[t].val : t \in OfficialTypes} \cap Sites)]

(***************************************************************************)
(* Qualification                                                           *)
(***************************************************************************)
QUALIFIABLE_FROM ==
  {"NEW", "NORMALIZED", "READY_FOR_QUALIFICATION", "ENRICHED", "NEEDS_MANUAL_REVIEW"}

advanceToReady(from) ==
  CASE from = "NEW" -> <<"NORMALIZED", "READY_FOR_QUALIFICATION">>
    [] from = "READY_FOR_QUALIFICATION" -> <<>>
    [] OTHER -> <<"READY_FOR_QUALIFICATION">>

acceptThreshold == 55

(* Math.round(0.6 * viability + 0.4 * auditability) *)
composite(viability, auditability) == (60 * viability + 40 * auditability + 50) \div 100

(* The confident gates never fire on a missing fact. *)
rejectedByGate(l) == l \in suppressed \/ fact[l]["category"].val = "out"

missingRequiredFacts(l) ==
  \/ ~ known(l, "business_name") \/ ~ known(l, "category")
  \/ ~ known(l, "official_domain") /\ ~ known(l, "rating")

(* Mutant: every accepted lead goes to audit. *)
evaluateQualification_NoDiscovery(l) ==
  CASE rejectedByGate(l) -> "SKIP"
    [] ~ rejectedByGate(l) /\ missingRequiredFacts(l) -> "NEEDS_ENRICHMENT"
    [] OTHER -> "AUDIT"

evaluateQualification(l) ==
  LET viability == BaseViability + IF known(l, "rating") THEN RatingViability ELSE 0
      auditability == IF known(l, "official_domain") THEN 100 ELSE 0
  IN CASE rejectedByGate(l) -> "SKIP"
       [] ~ rejectedByGate(l) /\ missingRequiredFacts(l) -> "NEEDS_ENRICHMENT"
       [] ~ rejectedByGate(l) /\ ~ missingRequiredFacts(l) ->
            IF composite(viability, auditability) < acceptThreshold THEN "MANUAL_REVIEW"
            ELSE IF known(l, "official_domain") THEN "AUDIT" ELSE "WEBSITE_DISCOVERY"

(* Mutant: the next step is written as the status. *)
targetState_Raw(nextStep) == nextStep

targetState(nextStep) ==
  CASE nextStep = "AUDIT" -> "QUALIFIED"
    [] nextStep \in {"WEBSITE_DISCOVERY", "NEEDS_ENRICHMENT"} -> "READY_FOR_ENRICHMENT"
    [] nextStep = "MANUAL_REVIEW" -> "NEEDS_MANUAL_REVIEW"
    [] nextStep = "SKIP" -> "REJECTED"

(* qualify-leads, one lead of the batch *)
qualifyRead(w, l) ==
  /\ idle(w) /\ status[l] \in QUALIFIABLE_FROM
  /\ Become(w, [NoSession EXCEPT !.op = "qualify", !.lead = l,
                                 !.path = Append(advanceToReady(status[l]),
                                                 targetState(evaluateQualification(l)))])
  /\ UNCHANGED leadState

(* The lead is written by id, as it was decided. *)
written(w) == [status EXCEPT ![session[w].lead] =
                 IF session[w].path = <<>> THEN @ ELSE session[w].path[Len(session[w].path)]]

qualifyCommit(w) ==
  /\ session[w].op = "qualify"
  /\ status' = written(w)
  /\ Finish(w)
  /\ UNCHANGED <<fact, target, capture, suppressed, officials, intakeBounds>>

(***************************************************************************)
(* Enrichment                                                              *)
(***************************************************************************)
(* selectLeadsToEnrich lists READY_FOR_ENRICHMENT; enrich-lead takes any lead. *)
enrichBegin(w, l) ==
  /\ idle(w)
  /\ \/ status[l] = "READY_FOR_ENRICHMENT" /\ Become(w, [NoSession EXCEPT !.op = "details", !.lead = l])
     \/ Become(w, [NoSession EXCEPT !.op = "verify", !.lead = l])
  /\ UNCHANGED leadState

PlaceFacts == {"business_name", "category", "rating"}

(* persist: only missing facts and Google's own are written. *)
placeFactsToWrite(l, standing, given) ==
  [t \in FactTypes |->
     LET new == [src |-> "google_places", val |-> IF t = "category" THEN standing ELSE "nothing"] IN
     IF t \in given /\ fact[l][t].src \in {"none", "google_places"} THEN new ELSE NoFact]

(* Place Details, read when the budget allows it; what they say of the
   business is Google's. *)
googleRead(w) ==
  LET l == session[w].lead IN
  /\ session[w].op = "details"
  /\ \/ Become(w, [session[w] EXCEPT !.op = "verify"])
     \/ \E standing \in {"open", "out"}, given \in {PlaceFacts, PlaceFacts \ {"rating"}} :
          /\ standing = "open" \/ given = PlaceFacts
          /\ Become(w, [session[w] EXCEPT !.op = "google", !.write = placeFactsToWrite(l, standing, given)])
  /\ UNCHANGED leadState

googleCommit(w) ==
  /\ session[w].op = "google"
  /\ writeCurrentFact(session[w].lead, session[w].write)
  /\ Become(w, [session[w] EXCEPT !.op = "verify", !.write = NoFacts])
  /\ UNCHANGED <<status, target, capture, suppressed, intakeBounds>>

(* places-backfill: a lead Google already described, not in outreach, not
   terminal, without rating, review count or phone *)
backfillRead(w, l) ==
  /\ idle(w)
  /\ fact[l]["category"].src = "google_places" /\ ~ known(l, "rating")
  /\ status[l] \notin TERMINAL
  /\ Become(w, [NoSession EXCEPT !.op = "backfill", !.lead = l,
                !.write = [NoFacts EXCEPT !["rating"] = [src |-> "google_places", val |-> "nothing"]]])
  /\ UNCHANGED leadState

backfillCommit(w) ==
  /\ session[w].op = "backfill"
  /\ writeCurrentFact(session[w].lead, session[w].write)
  /\ Finish(w)
  /\ UNCHANGED <<status, target, capture, suppressed, intakeBounds>>

(* Mutant: a verified website beats a manual entry. *)
resolveFactWrite_Stronger(existing, site) ==
  CASE existing = NoFact -> "insert"
    [] existing # NoFact /\ existing.val = site -> "noop"
    [] OTHER -> "supersede"

(* What a verified website fact does to the current one: a website beats
   everything but a manual entry, and not another website as confident. *)
resolveFactWrite(existing, site) ==
  CASE existing = NoFact -> "insert"
    [] existing # NoFact /\ existing.val = site -> "noop"
    [] existing.src = "manual" /\ existing.val # site -> "conflict"
    [] existing.src = "google_places" /\ existing.val # site -> "supersede"
    [] OTHER -> "noop"

routeOutcome(outcome) ==
  CASE outcome = "VERIFIED" -> <<"ENRICHED", "READY_FOR_QUALIFICATION">>
    [] outcome \in {"AMBIGUOUS", "NO_VERIFIED_CANDIDATE", "BROWSER_REQUIRED", "POLICY_BLOCKED",
                    "INVALID_INPUT"} -> <<"NEEDS_MANUAL_REVIEW">>
    [] OTHER -> <<>>

(* Phase B of enrich, the outcome of phase A in hand.  The site's structured
   data may give a business name too, which differs from a manual one. *)
enrichRead(w) ==
  LET l == session[w].lead IN
  /\ session[w].op = "verify"
  /\ \/ status[l] # "READY_FOR_ENRICHMENT" /\ Finish(w)
     \/ /\ status[l] = "READY_FOR_ENRICHMENT"
        /\ \E outcome \in EnrichmentOutcomes \ {"VERIFIED"} :
           \E site \in IF outcome = "BROWSER_REQUIRED" THEN Sites ELSE {"nothing"} :
             Become(w, [session[w] EXCEPT !.op = "enrich", !.site = site, !.path = routeOutcome(outcome)])
     \/ /\ status[l] = "READY_FOR_ENRICHMENT"
        /\ \E site \in Sites, named \in BOOLEAN :
             LET found == OfficialTypes \cup (IF named THEN {"business_name"} ELSE {})
                 value(t) == IF t \in OfficialTypes THEN site ELSE "open"
                 action(t) == resolveFactWrite(fact[l][t], value(t))
                 conflict == \E t \in found : action(t) = "conflict"
             IN Become(w, [session[w] EXCEPT !.op = "enrich", !.verified = TRUE,
                  !.write = [t \in FactTypes |->
                               IF t \in found /\ action(t) \in {"insert", "supersede"}
                               THEN [src |-> "website", val |-> value(t)] ELSE NoFact],
                  !.path = IF conflict THEN <<"NEEDS_MANUAL_REVIEW">> ELSE routeOutcome("VERIFIED")])
  /\ UNCHANGED leadState

(* Facts, attempt and status in one transaction.  The projection leads.domain
   is read by none of these commands and is left out. *)
enrichCommit(w) ==
  LET l == session[w].lead
      found == session[w].site
  IN
  /\ session[w].op = "enrich"
  /\ writeCurrentFact(l, session[w].write)
  /\ target' = [target EXCEPT ![l] = IF session[w].verified \/ found = "nothing" THEN @ ELSE found]
  /\ status' = written(w)
  /\ Finish(w)
  /\ UNCHANGED <<capture, suppressed, intakeBounds>>

(***************************************************************************)
(* Capture                                                                 *)
(***************************************************************************)
officialFacts(l) == [t \in OfficialTypes |-> fact[l][t]]

(* The website URL before the domain. *)
primaryAuditTarget(facts) ==
  IF facts["official_website_url"] # NoFact THEN facts["official_website_url"].val
  ELSE facts["official_domain"].val

(* The browser may open only the sites that are official already. *)
isAllowedMainFrame(facts, site) == \E t \in OfficialTypes : facts[t].val = site

startRender(w, l, audit, site) ==
  Become(w, [NoSession EXCEPT !.op = "render", !.lead = l, !.audit = audit, !.site = site,
                              !.seen = officialFacts(l)])

(* capture-websites --purpose audit, for a lead already READY_FOR_CAPTURE *)
auditList(w, l) ==
  /\ idle(w) /\ status[l] = "READY_FOR_CAPTURE"
  /\ startRender(w, l, TRUE, primaryAuditTarget(officialFacts(l)))
  /\ UNCHANGED leadState

(* ... and for one it has to move there first; --purpose verification moves
   leads parked with a BROWSER_REQUIRED attempt. *)
moveToCapture(w, l) ==
  /\ idle(w)
  /\ \E audit \in BOOLEAN :
       /\ IF audit THEN status[l] = "QUALIFIED"
          ELSE status[l] = "NEEDS_MANUAL_REVIEW" /\ target[l] # "nothing"
       /\ Become(w, [NoSession EXCEPT !.op = "toCapture", !.lead = l, !.audit = audit,
                                      !.path = <<"READY_FOR_CAPTURE">>,
                                      !.site = IF audit THEN @ ELSE target[l]])
  /\ UNCHANGED leadState

movedToCapture(w) ==
  LET l == session[w].lead IN
  /\ session[w].op = "toCapture"
  /\ status' = written(w)
  /\ startRender(w, l, session[w].audit,
                 IF session[w].audit THEN primaryAuditTarget(officialFacts(l)) ELSE session[w].site)
  /\ UNCHANGED <<fact, target, capture, suppressed, officials, intakeBounds>>

usable(outcome) == outcome \in {"CAPTURED", "PARTIAL_CAPTURE"}

(* Mutant: whatever the browser met, the audit may go on. *)
routeAuditCapture_Blocked(outcome) ==
  IF outcome = "TRANSIENT_ERROR" THEN <<>> ELSE <<"CAPTURED", "READY_FOR_AUDIT">>

routeAuditCapture(outcome) ==
  CASE usable(outcome) -> <<"CAPTURED", "READY_FOR_AUDIT">>
    [] outcome = "TRANSIENT_ERROR" -> <<>>
    [] OTHER -> <<"NEEDS_MANUAL_REVIEW">>

(* What the rendered pages amount to.  A main frame the policy refuses is an
   aborted navigation. *)
decideAuditOutcome(facts, site) ==
  IF site = "nothing" THEN {"INVALID_TARGET"}
  ELSE IF ~ isAllowedMainFrame(facts, site) THEN {"POLICY_BLOCKED", "TRANSIENT_ERROR"}
  ELSE CaptureOutcomes \ {"INVALID_TARGET"}

(* auditCapture's transaction: NOT_CAPTURABLE, or the run and the route. *)
auditCapture(w) ==
  LET l == session[w].lead IN
  /\ session[w].op = "render" /\ session[w].audit
  /\ \/ status[l] # "READY_FOR_CAPTURE" /\ Finish(w)
     \/ /\ status[l] = "READY_FOR_CAPTURE"
        /\ \E outcome \in decideAuditOutcome(session[w].seen, session[w].site) :
             Become(w, [NoSession EXCEPT !.op = "record", !.lead = l, !.audit = TRUE,
                                         !.verified = usable(outcome),
                                         !.site = IF usable(outcome) THEN session[w].site ELSE @,
                                         !.path = routeAuditCapture(outcome)])
  /\ UNCHANGED leadState

(* Never overrides a manual fact; otherwise the verified site replaces what is there. *)
writeOfficialFact(existing, site) ==
  IF existing.val = site \/ existing.src = "manual" THEN NoFact
  ELSE [src |-> "website", val |-> site]

(* verificationCapture's transaction: facts if the rendered site is verified,
   manual review if it is not, nothing when the page did not load. *)
verificationCapture(w) ==
  LET l == session[w].lead
      site == session[w].site
  IN
  /\ session[w].op = "render" /\ ~ session[w].audit
  /\ \/ status[l] # "READY_FOR_CAPTURE" /\ Finish(w)
     \/ /\ status[l] = "READY_FOR_CAPTURE"
        /\ Become(w, [NoSession EXCEPT !.op = "record", !.lead = l])
     \/ /\ status[l] = "READY_FOR_CAPTURE" /\ isAllowedMainFrame(session[w].seen, site)
        /\ Become(w, [NoSession EXCEPT !.op = "record", !.lead = l, !.path = <<"NEEDS_MANUAL_REVIEW">>])
     \/ /\ status[l] = "READY_FOR_CAPTURE" /\ isAllowedMainFrame(session[w].seen, site)
        /\ Become(w, [NoSession EXCEPT !.op = "record", !.lead = l,
             !.write = [t \in FactTypes |-> IF t \in OfficialTypes
                                            THEN writeOfficialFact(fact[l][t], site) ELSE NoFact]])
  /\ UNCHANGED leadState

(* Mutant: a partial capture's screenshots are left in the temporary directory. *)
captureCommit_Staged(w) ==
  LET l == session[w].lead IN
  /\ session[w].op = "record"
  /\ writeCurrentFact(l, session[w].write)
  /\ capture' = [capture EXCEPT ![l] =
       IF session[w].audit /\ session[w].verified
       THEN [site |-> session[w].site, artifacts |-> "staged", by |-> w] ELSE @]
  /\ status' = written(w)
  /\ Finish(w)
  /\ UNCHANGED <<target, suppressed, intakeBounds>>

(* recordRun, the facts and the route; the screenshots are moved after it. *)
captureCommit(w) ==
  LET l == session[w].lead IN
  /\ session[w].op = "record"
  /\ writeCurrentFact(l, session[w].write)
  /\ capture' = [capture EXCEPT ![l] =
       IF session[w].audit /\ session[w].verified
       THEN [site |-> session[w].site, artifacts |-> "staged", by |-> w] ELSE @]
  /\ status' = written(w)
  /\ Become(w, [NoSession EXCEPT !.op = "blobs", !.lead = l])
  /\ UNCHANGED <<target, suppressed, intakeBounds>>

settleArtifacts(w, result) ==
  capture' = [capture EXCEPT ![session[w].lead] =
    IF @.by = w /\ @.artifacts = "staged" THEN [@ EXCEPT !.artifacts = result, !.by = "none"] ELSE @]

(* A crash or a disk failure. *)
intakeFault == intakeEdits + intakeFaults < MaxIntakeEvents /\ intakeFaults' = intakeFaults + 1

(* commitAll, after the commit; if it fails the screenshots are discarded. *)
commitAll(w) ==
  /\ session[w].op = "blobs"
  /\ \/ settleArtifacts(w, "stored") /\ UNCHANGED intakeFaults
     \/ /\ intakeFault
        /\ settleArtifacts(w, "lost")
  /\ Finish(w)
  /\ UNCHANGED <<status, fact, target, suppressed, officials, intakeEdits>>

(***************************************************************************)
(* Operator                                                                *)
(***************************************************************************)
spendEdit == intakeEdits + intakeFaults < MaxIntakeEvents /\ intakeEdits' = intakeEdits + 1

suppress(l) ==
  /\ spendEdit /\ suppressed' = suppressed \cup {l}
  /\ UNCHANGED <<status, fact, target, capture, session, officials, intakeFaults>>

(* reject-lead plans its transitions and makes them one by one. *)
rejectLead(w, l) ==
  /\ idle(w) /\ status[l] \in REJECTABLE_STATES /\ spendEdit
  /\ Become(w, [NoSession EXCEPT !.op = "reject", !.lead = l, !.path = planRejectionPath(status[l])])
  /\ UNCHANGED <<status, fact, target, capture, suppressed, officials, intakeFaults>>

rejectStep(w) ==
  LET l == session[w].lead
      path == session[w].path
  IN
  /\ session[w].op = "reject"
  /\ IF canTransition(status[l], path[1])
     THEN /\ status' = [status EXCEPT ![l] = path[1]]
          /\ IF Len(path) = 1 THEN Finish(w) ELSE Become(w, [session[w] EXCEPT !.path = Tail(@)])
     ELSE status' = status /\ Finish(w)
  /\ UNCHANGED <<fact, target, capture, suppressed, officials, intakeBounds>>

reopenLead(w, l) ==
  /\ idle(w) /\ status[l] = "REJECTED" /\ spendEdit
  /\ Become(w, [NoSession EXCEPT !.op = "reopen", !.lead = l, !.path = <<"NEEDS_MANUAL_REVIEW">>])
  /\ UNCHANGED <<status, fact, target, capture, suppressed, officials, intakeFaults>>

reopened(w) ==
  /\ session[w].op = "reopen"
  /\ status' = written(w) /\ Finish(w)
  /\ UNCHANGED <<fact, target, capture, suppressed, officials, intakeBounds>>

(* The process dies: an open transaction rolls back, staged files stay behind. *)
intakeCrash(w) ==
  /\ ~ idle(w) /\ intakeFault
  /\ Finish(w)
  /\ UNCHANGED <<status, fact, target, capture, suppressed, officials, intakeEdits>>

IntakeNext ==
  \/ \E w \in Sessions, l \in Leads :
       \/ qualifyRead(w, l) \/ enrichBegin(w, l) \/ backfillRead(w, l)
       \/ auditList(w, l) \/ moveToCapture(w, l)
       \/ rejectLead(w, l) \/ reopenLead(w, l)
  \/ \E w \in Sessions :
       \/ qualifyCommit(w) \/ googleRead(w) \/ googleCommit(w) \/ backfillCommit(w)
       \/ enrichRead(w) \/ enrichCommit(w)
       \/ movedToCapture(w) \/ auditCapture(w) \/ verificationCapture(w)
       \/ captureCommit(w) \/ commitAll(w)
       \/ rejectStep(w) \/ reopened(w) \/ intakeCrash(w)
  \/ \E l \in Leads : suppress(l)

IntakeSpec == IntakeInit /\ [][IntakeNext]_intakeVars

(***************************************************************************)
(* Properties                                                              *)
(***************************************************************************)
(* Whatever the sessions do to each other, a lead is QUALIFIED for audit only
   with an official website on record: capture would find no target. *)
QualifiedLeadHasSite ==
  \A l \in Leads : status[l] = "QUALIFIED" => known(l, "official_domain")

(* A lead is READY_FOR_AUDIT only after a usable audit capture of a site that
   was verified or given as official: rendering, a stale list or a
   BROWSER_REQUIRED candidate is never enough. *)
AuditReadyWasCaptured ==
  \A l \in Leads :
    status[l] = "READY_FOR_AUDIT" => capture[l].site \in officials[l]

(* The screenshots of a recorded capture are stored or about to be, unless a
   process died or the disk failed after the transaction. *)
ScreenshotsFollowTheRun ==
  \A l \in Leads :
    \/ capture[l].artifacts \in {"none", "stored"}
    \/ capture[l].artifacts = "staged" /\ session[capture[l].by].op = "blobs"
                                       /\ session[capture[l].by].lead = l
    \/ intakeFaults > 0

(* A manual official domain is never replaced, by enrichment, by verification
   or by Google. *)
ManualDomainKept ==
  [][\A l \in Leads : fact[l]["official_domain"].src = "manual"
                        => fact'[l]["official_domain"] = fact[l]["official_domain"]]_intakeVars

(* What the later stages rely on: a site for a QUALIFIED lead, a capture of it for
   one that is READY_FOR_AUDIT, and the files of every capture on record. *)
IntakeSound ==
  IntakeTypeOK /\ QualifiedLeadHasSite /\ AuditReadyWasCaptured /\ ScreenshotsFollowTheRun

(***************************************************************************)
(* The inductive invariant                                                 *)
(***************************************************************************)
IsOfficial(l, f) == f # NoFact => f.val \in officials[l] /\ f.src # "none"

OfficialFactsAreOnRecord == \A l \in Leads, t \in OfficialTypes : IsOfficial(l, fact[l][t])

(* Facts about to be written are stated by somebody, an official one by a
   website, and none of them is aimed at a manual domain. *)
WritesAreSound(w) ==
  /\ \A t \in FactTypes : session[w].write[t] # NoFact =>
       /\ session[w].write[t].src \in {"google_places", "website"}
       /\ t \in OfficialTypes => session[w].write[t].val \in Sites
  /\ session[w].write["official_domain"] # NoFact =>
       fact[session[w].lead]["official_domain"].src # "manual"

(* A status about to be written: QUALIFIED on the strength of a domain,
   READY_FOR_AUDIT on that of a capture. *)
PathIsSound(w) ==
  LET path == session[w].path
      last == path[Len(path)]
  IN
  /\ session[w].op = "reject" => path \in {<<"REJECTED">>, <<"NEEDS_MANUAL_REVIEW", "REJECTED">>}
  /\ path # <<>> /\ last = "QUALIFIED" =>
       session[w].op = "qualify" /\ known(session[w].lead, "official_domain")
  /\ path # <<>> /\ last = "READY_FOR_AUDIT" =>
       session[w].op = "record" /\ session[w].audit /\ session[w].verified

(* What the browser was allowed to open is official, and so is what it captured. *)
BrowsesOfficialSites(w) ==
  /\ session[w].op = "render" =>
       \A t \in OfficialTypes : IsOfficial(session[w].lead, session[w].seen[t])
  /\ session[w].op \in {"toCapture", "render"} /\ ~ session[w].audit => session[w].site # "nothing"
  /\ session[w].op = "record" /\ session[w].audit /\ session[w].verified =>
       session[w].site \in officials[session[w].lead]

IntakeSessionIsSound(w) ==
  session[w].op # "idle" =>
    session[w].lead \in Leads /\ WritesAreSound(w) /\ PathIsSound(w) /\ BrowsesOfficialSites(w)

IntakeSessionsAreSound == \A w \in Sessions : IntakeSessionIsSound(w)

StagedByASession == \A l \in Leads : capture[l].artifacts = "staged" => capture[l].by \in Sessions

IntakeInv ==
  /\ OfficialFactsAreOnRecord /\ IntakeSessionsAreSound /\ StagedByASession
  /\ QualifiedLeadHasSite /\ AuditReadyWasCaptured /\ ScreenshotsFollowTheRun

=============================================================================
