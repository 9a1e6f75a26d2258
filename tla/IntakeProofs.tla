----------------------------- MODULE IntakeProofs -----------------------------
(***************************************************************************)
(* Theorems about Intake, for any number of leads, sessions and sites, any *)
(* viability of the businesses and any number of crashes and commands.     *)
(***************************************************************************)
EXTENDS Intake, TLAPS

(***************************************************************************)
(* Type correctness                                                        *)
(***************************************************************************)
LEMMA NothingTypes ==
  /\ NoFact \in Fact /\ NoFacts \in [FactTypes -> Fact] /\ NoOfficial \in [OfficialTypes -> Fact]
  /\ NoSession \in Session /\ NoCapture \in Capture
  /\ OfficialTypes \subseteq FactTypes
<1>1. NoFact \in Fact
  BY DEF NoFact, Fact, Sources, Values
<1>2. NoFacts \in [FactTypes -> Fact] /\ NoOfficial \in [OfficialTypes -> Fact]
  BY <1>1 DEF NoFacts, NoOfficial
<1>3. NoSession \in Session
  BY <1>2 DEF NoSession, Session, IntakeOps, Values
<1>4. NoCapture \in Capture
  BY DEF NoCapture, Capture, Values
<1> QED
  BY <1>1, <1>2, <1>3, <1>4 DEF OfficialTypes, FactTypes

(* The statuses the stages write are statuses of a lead. *)
LEMMA PathTypes ==
  /\ \A from : advanceToReady(from) \in Seq(LeadStatuses)
  /\ \A l : targetState(evaluateQualification(l)) \in LeadStatuses
  /\ \A from : planRejectionPath(from) \in Seq(LeadStatuses)
  /\ \A outcome : routeOutcome(outcome) \in Seq(LeadStatuses)
  /\ \A outcome : routeAuditCapture(outcome) \in Seq(LeadStatuses)
<1> DEFINE S == LeadStatuses
<1>1. /\ <<>> \in Seq(S) /\ \A s \in S : <<s>> \in Seq(S)
      /\ \A s, t \in S : <<s, t>> \in Seq(S)
  OBVIOUS
<1>2. {"NORMALIZED", "READY_FOR_QUALIFICATION", "QUALIFIED", "READY_FOR_ENRICHMENT", "ENRICHED",
       "NEEDS_MANUAL_REVIEW", "REJECTED", "CAPTURED", "READY_FOR_AUDIT"} \subseteq S
  BY DEF LeadStatuses
<1> HIDE DEF S
<1>3. \A from : advanceToReady(from) \in Seq(S)
  BY <1>1, <1>2 DEF advanceToReady
<1>4. ASSUME NEW l PROVE targetState(evaluateQualification(l)) \in S
  <2>1. evaluateQualification(l) \in
          {"SKIP", "NEEDS_ENRICHMENT", "MANUAL_REVIEW", "AUDIT", "WEBSITE_DISCOVERY"}
    BY DEF evaluateQualification
  <2> QED
    BY <1>2, <2>1 DEF targetState
<1>5. \A from : planRejectionPath(from) \in Seq(S)
  BY <1>1, <1>2 DEF planRejectionPath
<1>6. \A outcome : routeOutcome(outcome) \in Seq(S)
  BY <1>1, <1>2 DEF routeOutcome
<1>7. \A outcome : routeAuditCapture(outcome) \in Seq(S)
  BY <1>1, <1>2 DEF routeAuditCapture
<1> QED
  BY <1>3, <1>4, <1>5, <1>6, <1>7 DEF S

(* What is written replaces what is current and nothing is taken away. *)
LEMMA WriteFacts ==
  ASSUME NEW l \in Leads, NEW write \in [FactTypes -> Fact], writeCurrentFact(l, write),
         fact \in [Leads -> [FactTypes -> Fact]], officials \in [Leads -> SUBSET Sites]
  PROVE  /\ fact' \in [Leads -> [FactTypes -> Fact]]
         /\ officials' \in [Leads -> SUBSET Sites]
         /\ \A k \in Leads \ {l} : fact'[k] = fact[k] /\ officials'[k] = officials[k]
         /\ \A t \in FactTypes : fact'[l][t] = IF write[t] = NoFact THEN fact[l][t] ELSE write[t]
         /\ officials[l] \subseteq officials'[l]
         /\ \A t \in OfficialTypes : write[t].val \in Sites => write[t].val \in officials'[l]
<1>1. fact' = [fact EXCEPT ![l] =
                 [t \in FactTypes |-> IF write[t] = NoFact THEN fact[l][t] ELSE write[t]]]
  BY DEF writeCurrentFact
<1>2. [t \in FactTypes |-> IF write[t] = NoFact THEN fact[l][t] ELSE write[t]] \in [FactTypes -> Fact]
  OBVIOUS
<1>3. officials' = [officials EXCEPT ![l] =
                      officials[l] \cup ({write[t].val : t \in OfficialTypes} \cap Sites)]
  BY DEF writeCurrentFact
<1> QED
  BY <1>1, <1>2, <1>3

(* A session's status to write is one of a lead's. *)
LEMMA WrittenTypes ==
  ASSUME IntakeTypeOK, NEW w \in Sessions
  PROVE  written(w) \in [Leads -> LeadStatuses]
<1>1. session[w].path \in Seq(LeadStatuses) /\ status \in [Leads -> LeadStatuses]
  BY DEF IntakeTypeOK, Session
<1>2. session[w].path # <<>> => session[w].path[Len(session[w].path)] \in LeadStatuses
  BY <1>1
<1> QED
  BY <1>1, <1>2 DEF written

(***************************************************************************)
(* What a step does to the sessions                                        *)
(***************************************************************************)
(* A step of session w leaves it as the step says and the others alone. *)
LEMMA Becomes ==
  ASSUME session \in [Sessions -> Session], NEW w \in Sessions, NEW local, Become(w, local)
  PROVE  /\ session'[w] = local
         /\ \A v \in Sessions \ {w} : session'[v] = session[v]
         /\ local \in Session => session' \in [Sessions -> Session]
BY DEF Become

(* The fields a step starts from. *)
LEMMA Fields ==
  ASSUME NEW s \in Session
  PROVE  /\ s.op \in IntakeOps /\ s.path \in Seq(LeadStatuses) /\ s.write \in [FactTypes -> Fact]
         /\ s.seen \in [OfficialTypes -> Fact] /\ s.site \in Values
         /\ s.audit \in BOOLEAN /\ s.verified \in BOOLEAN
         /\ s.lead \in Leads \cup {"none"}
BY DEF Session

(* A session record made of typed fields. *)
LEMMA EditTypes ==
  ASSUME NEW s \in Session,
         NEW op \in IntakeOps, NEW l \in Leads, NEW path \in Seq(LeadStatuses),
         NEW write \in [FactTypes -> Fact], NEW seen \in [OfficialTypes -> Fact],
         NEW site \in Values, NEW audit \in BOOLEAN, NEW verified \in BOOLEAN
  PROVE  [op |-> op, lead |-> l, path |-> path, write |-> write, seen |-> seen,
          site |-> site, audit |-> audit, verified |-> verified] \in Session
BY DEF Session

LEMMA Idles == ~ (NoSession.op # "idle")
BY DEF NoSession

(* The official facts of a lead are typed. *)
LEMMA OfficialTyped ==
  ASSUME IntakeTypeOK, NEW l \in Leads
  PROVE  /\ officialFacts(l) \in [OfficialTypes -> Fact]
         /\ \A t \in OfficialTypes : officialFacts(l)[t] = fact[l][t]
         /\ primaryAuditTarget(officialFacts(l)) \in Values
<1>1. /\ officialFacts(l) \in [OfficialTypes -> Fact]
      /\ \A t \in OfficialTypes : officialFacts(l)[t] = fact[l][t]
  BY NothingTypes DEF IntakeTypeOK, officialFacts
<1>2. {"official_website_url", "official_domain"} \subseteq OfficialTypes
  BY DEF OfficialTypes
<1> QED
  BY <1>1, <1>2 DEF primaryAuditTarget, Fact

Kept(w) ==
  /\ session' \in [Sessions -> Session]
  /\ \A v \in Sessions \ {w} : session'[v] = session[v]
  /\ IntakeSessionIsSound(w)'

LEMMA FinishKeeps ==
  ASSUME IntakeTypeOK, NEW w \in Sessions, Finish(w) PROVE Kept(w)
<1>1. Become(w, NoSession) /\ session \in [Sessions -> Session]
  BY DEF Finish, IntakeTypeOK
<1>2. /\ session'[w] = NoSession /\ \A v \in Sessions \ {w} : session'[v] = session[v]
      /\ session' \in [Sessions -> Session]
  BY <1>1, Becomes, NothingTypes
<1>3. IntakeSessionIsSound(w)'
  BY <1>2, Idles DEF IntakeSessionIsSound
<1> QED
  BY <1>2, <1>3 DEF Kept

(* What a session may hold, as a condition on the record itself. *)
SoundWrites(local) ==
  /\ \A t \in FactTypes : local.write[t] # NoFact =>
       /\ local.write[t].src \in {"google_places", "website"}
       /\ t \in OfficialTypes => local.write[t].val \in Sites
  /\ local.write["official_domain"] # NoFact => fact[local.lead]["official_domain"].src # "manual"

SoundPath(local) ==
  /\ local.op = "reject" => local.path \in {<<"REJECTED">>, <<"NEEDS_MANUAL_REVIEW", "REJECTED">>}
  /\ local.path # <<>> /\ local.path[Len(local.path)] = "QUALIFIED" =>
       local.op = "qualify" /\ known(local.lead, "official_domain")
  /\ local.path # <<>> /\ local.path[Len(local.path)] = "READY_FOR_AUDIT" =>
       local.op = "record" /\ local.audit /\ local.verified

SoundSites(local) ==
  /\ local.op = "render" => \A t \in OfficialTypes : IsOfficial(local.lead, local.seen[t])
  /\ local.op \in {"toCapture", "render"} /\ ~ local.audit => local.site # "nothing"
  /\ local.op = "record" /\ local.audit /\ local.verified => local.site \in officials[local.lead]

LEMMA SoundAsHeld ==
  ASSUME NEW w \in Sessions
  PROVE  /\ WritesAreSound(w) <=> SoundWrites(session[w])
         /\ PathIsSound(w) <=> SoundPath(session[w])
         /\ BrowsesOfficialSites(w) <=> SoundSites(session[w])
BY DEF WritesAreSound, PathIsSound, BrowsesOfficialSites, SoundWrites, SoundPath, SoundSites

LEMMA LocalKeeps ==
  ASSUME IntakeTypeOK, NEW w \in Sessions, NEW local \in Session, Become(w, local),
         UNCHANGED <<fact, officials>>, local.lead \in Leads,
         SoundWrites(local), SoundPath(local), SoundSites(local)
  PROVE  Kept(w)
<1>1. /\ session'[w] = local /\ session' \in [Sessions -> Session]
      /\ \A v \in Sessions \ {w} : session'[v] = session[v]
  BY Becomes DEF IntakeTypeOK
<1>2. WritesAreSound(w)'
  BY <1>1 DEF WritesAreSound, SoundWrites
<1>3. PathIsSound(w)'
  BY <1>1 DEF PathIsSound, SoundPath, known
<1>4. BrowsesOfficialSites(w)'
  BY <1>1 DEF BrowsesOfficialSites, SoundSites, IsOfficial
<1> QED
  BY <1>1, <1>2, <1>3, <1>4 DEF Kept, IntakeSessionIsSound

LEMMA NothingToWrite ==
  ASSUME NEW local, local.write = NoFacts PROVE SoundWrites(local)
<1>1. \A t \in FactTypes : NoFacts[t] = NoFact
  BY DEF NoFacts
<1>2. "official_domain" \in FactTypes
  BY DEF FactTypes
<1> QED BY <1>1, <1>2 DEF SoundWrites

LEMMA NoPath ==
  ASSUME NEW local, local.path = <<>>, local.op # "reject" PROVE SoundPath(local)
BY DEF SoundPath

(* One move to a status that is neither of the two the audit relies on. *)
LEMMA PlainPath ==
  ASSUME NEW local, local.op # "reject", NEW to, to \notin {"QUALIFIED", "READY_FOR_AUDIT"},
         local.path = <<to>>
  PROVE  SoundPath(local)
BY DEF SoundPath

LEMMA QualifyKeeps ==
  ASSUME IntakeTypeOK, NEW w \in Sessions, NEW l \in Leads, qualifyRead(w, l)
  PROVE  Kept(w)
<1> DEFINE to == targetState(evaluateQualification(l))
           path == Append(advanceToReady(status[l]), to)
           local == [NoSession EXCEPT !.op = "qualify", !.lead = l, !.path = path]
<1>1. Become(w, local) /\ UNCHANGED <<fact, officials>>
  BY DEF qualifyRead, leadState
<1>2. to \in LeadStatuses /\ advanceToReady(status[l]) \in Seq(LeadStatuses)
  BY PathTypes
<1>3. path \in Seq(LeadStatuses) /\ path # <<>> /\ path[Len(path)] = to
  <2> HIDE DEF to
  <2> QED BY <1>2
<1>4. CASE evaluateQualification(l) = "AUDIT"
  <2>1. to = "QUALIFIED" /\ known(l, "official_domain")
    BY <1>4 DEF evaluateQualification, targetState
  <2> HIDE DEF to, path
  <2>2. /\ local.op = "qualify" /\ local.lead = l /\ local.path = path /\ local.write = NoFacts
        /\ local \in Session
    BY <1>3, NothingTypes DEF NoSession, Session, IntakeOps
  <2> HIDE DEF local
  <2>3. SoundWrites(local)
    BY <2>2, NothingToWrite
  <2>4. SoundPath(local) /\ SoundSites(local)
    BY <1>3, <2>1, <2>2 DEF SoundPath, SoundSites
  <2> QED BY <1>1, <2>2, <2>3, <2>4, LocalKeeps
<1>5. CASE evaluateQualification(l) # "AUDIT"
  <2>1. evaluateQualification(l) \in {"SKIP", "NEEDS_ENRICHMENT", "MANUAL_REVIEW", "WEBSITE_DISCOVERY"}
    BY <1>5 DEF evaluateQualification
  <2>2. to \notin {"QUALIFIED", "READY_FOR_AUDIT"}
    BY <2>1 DEF targetState
  <2> HIDE DEF to, path
  <2>3. /\ local.op = "qualify" /\ local.lead = l /\ local.path = path /\ local.write = NoFacts
        /\ local \in Session
    BY <1>3, NothingTypes DEF NoSession, Session, IntakeOps
  <2> HIDE DEF local
  <2>4. SoundWrites(local)
    BY <2>3, NothingToWrite
  <2>5. SoundPath(local) /\ SoundSites(local)
    BY <1>3, <2>2, <2>3 DEF SoundPath, SoundSites
  <2> QED BY <1>1, <2>3, <2>4, <2>5, LocalKeeps
<1> QED
  BY <1>4, <1>5

LEMMA EnrichBeginKeeps ==
  ASSUME IntakeTypeOK, NEW w \in Sessions, NEW l \in Leads, enrichBegin(w, l)
  PROVE  Kept(w)
<1>1. PICK op \in {"details", "verify"} :
        Become(w, [NoSession EXCEPT !.op = op, !.lead = l]) /\ UNCHANGED <<fact, officials>>
  BY DEF enrichBegin, leadState
<1> DEFINE local == [NoSession EXCEPT !.op = op, !.lead = l]
<1>2. /\ local.op = op /\ local.lead = l /\ local.path = <<>> /\ local.write = NoFacts
      /\ local \in Session
  BY NothingTypes DEF NoSession, Session, IntakeOps
<1> HIDE DEF local
<1>3. SoundWrites(local)
  BY <1>2, NothingToWrite
<1>4. SoundPath(local)
  BY <1>2, NoPath
<1>5. SoundSites(local)
  BY <1>2 DEF SoundSites
<1> QED BY <1>1, <1>2, <1>3, <1>4, <1>5, LocalKeeps DEF local

(* What is known of a session at work. *)
LEMMA AtWork ==
  ASSUME IntakeTypeOK, IntakeInv, NEW w \in Sessions, session[w].op # "idle"
  PROVE  /\ session[w] \in Session /\ session[w].lead \in Leads
         /\ SoundWrites(session[w]) /\ SoundPath(session[w]) /\ SoundSites(session[w])
<1>1. IntakeSessionIsSound(w) /\ session[w] \in Session
  BY DEF IntakeInv, IntakeSessionsAreSound, IntakeTypeOK
<1> QED BY <1>1, SoundAsHeld DEF IntakeSessionIsSound

LEMMA GoogleReadKeeps ==
  ASSUME IntakeTypeOK, IntakeInv, NEW w \in Sessions, googleRead(w)
  PROVE  Kept(w)
<1> DEFINE s == session[w]
           l == s.lead
<1>1. /\ s \in Session /\ l \in Leads /\ SoundWrites(s) /\ SoundPath(s) /\ SoundSites(s)
      /\ s.op = "details" /\ UNCHANGED <<fact, officials>>
  BY AtWork DEF googleRead, leadState
<1>2. CASE Become(w, [s EXCEPT !.op = "verify"])
  <2> DEFINE local == [s EXCEPT !.op = "verify"]
  <2>1. /\ local \in Session /\ local.op = "verify" /\ local.lead = l /\ local.path = s.path
        /\ local.write = s.write
    BY <1>1 DEF Session, IntakeOps
  <2> HIDE DEF local, s
  <2>2. SoundWrites(local)
    BY <1>1, <2>1 DEF SoundWrites
  <2>3. SoundPath(local) /\ SoundSites(local)
    BY <1>1, <2>1 DEF SoundPath, SoundSites
  <2> QED BY <1>1, <1>2, <2>1, <2>2, <2>3, LocalKeeps DEF local
<1>3. ASSUME NEW standing \in {"open", "out"}, NEW given \in {PlaceFacts, PlaceFacts \ {"rating"}},
             Become(w, [s EXCEPT !.op = "google", !.write = placeFactsToWrite(l, standing, given)])
      PROVE  Kept(w)
  <2> DEFINE write == placeFactsToWrite(l, standing, given)
             local == [s EXCEPT !.op = "google", !.write = write]
  <2>1. /\ write \in [FactTypes -> Fact]
        /\ \A t \in FactTypes : write[t] # NoFact => write[t].src = "google_places" /\ t \in PlaceFacts
    BY NothingTypes DEF placeFactsToWrite, Fact, Sources, Values, PlaceFacts
  <2> HIDE DEF write
  <2>2. /\ local \in Session /\ local.op = "google" /\ local.lead = l /\ local.path = s.path
        /\ local.write = write
    BY <1>1, <2>1 DEF Session, IntakeOps
  <2> HIDE DEF local, s
  <2>3. SoundWrites(local)
    BY <2>1, <2>2 DEF SoundWrites, PlaceFacts, OfficialTypes, FactTypes
  <2>4. SoundPath(local) /\ SoundSites(local)
    BY <1>1, <2>2 DEF SoundPath, SoundSites
  <2> QED BY <1>1, <1>3, <2>2, <2>3, <2>4, LocalKeeps DEF local, write
<1> QED
  BY <1>2, <1>3 DEF googleRead

LEMMA BackfillReadKeeps ==
  ASSUME IntakeTypeOK, NEW w \in Sessions, NEW l \in Leads, backfillRead(w, l)
  PROVE  Kept(w)
<1> DEFINE write == [NoFacts EXCEPT !["rating"] = [src |-> "google_places", val |-> "nothing"]]
           local == [NoSession EXCEPT !.op = "backfill", !.lead = l, !.write = write]
<1>1. Become(w, local) /\ UNCHANGED <<fact, officials>>
  BY DEF backfillRead, leadState
<1>2. /\ write \in [FactTypes -> Fact] /\ write["official_domain"] = NoFact
      /\ \A t \in FactTypes : write[t] # NoFact => write[t].src = "google_places" /\ t = "rating"
  BY NothingTypes DEF NoFacts, Fact, Sources, Values, FactTypes
<1> HIDE DEF write
<1>3. /\ local \in Session /\ local.op = "backfill" /\ local.lead = l /\ local.path = <<>>
      /\ local.write = write
  BY <1>2, NothingTypes DEF NoSession, Session, IntakeOps
<1> HIDE DEF local
<1>4. SoundWrites(local)
  BY <1>2, <1>3 DEF SoundWrites, OfficialTypes
<1>5. SoundPath(local)
  BY <1>3, NoPath
<1>6. SoundSites(local)
  BY <1>3 DEF SoundSites
<1> QED BY <1>1, <1>3, <1>4, <1>5, <1>6, LocalKeeps DEF local

LEMMA EnrichReadKeeps ==
  ASSUME IntakeTypeOK, IntakeInv, NEW w \in Sessions, enrichRead(w)
  PROVE  Kept(w)
<1> DEFINE s == session[w]
           l == s.lead
<1>1. /\ s \in Session /\ l \in Leads /\ SoundWrites(s) /\ SoundSites(s)
      /\ s.op = "verify" /\ UNCHANGED <<fact, officials>>
  BY AtWork DEF enrichRead, leadState
<1>2. ASSUME NEW outcome \in EnrichmentOutcomes \ {"VERIFIED"}, NEW site \in Sites \cup {"nothing"},
             Become(w, [s EXCEPT !.op = "enrich", !.site = site, !.path = routeOutcome(outcome)])
      PROVE  Kept(w)
  <2> DEFINE path == routeOutcome(outcome)
             local == [s EXCEPT !.op = "enrich", !.site = site, !.path = path]
  <2>1. path = <<>> \/ path = <<"NEEDS_MANUAL_REVIEW">>
    BY <1>2 DEF routeOutcome
  <2>2. path \in Seq(LeadStatuses)
    BY PathTypes
  <2> HIDE DEF path
  <2>3. /\ local \in Session /\ local.op = "enrich" /\ local.lead = l /\ local.path = path
        /\ local.write = s.write
    BY <1>1, <2>2 DEF Session, IntakeOps, Values
  <2> HIDE DEF local, s
  <2>4. SoundWrites(local)
    BY <1>1, <2>3 DEF SoundWrites
  <2>5. SoundPath(local)
    BY <2>1, <2>3, NoPath, PlainPath
  <2>6. SoundSites(local)
    BY <2>3 DEF SoundSites
  <2> QED BY <1>1, <1>2, <2>3, <2>4, <2>5, <2>6, LocalKeeps DEF local, path
<1>3. ASSUME NEW site \in Sites, NEW named \in BOOLEAN,
        LET found == OfficialTypes \cup (IF named THEN {"business_name"} ELSE {})
            value(t) == IF t \in OfficialTypes THEN site ELSE "open"
            action(t) == resolveFactWrite(fact[l][t], value(t))
            conflict == \E t \in found : action(t) = "conflict"
        IN Become(w, [s EXCEPT !.op = "enrich", !.verified = TRUE,
             !.write = [t \in FactTypes |->
                          IF t \in found /\ action(t) \in {"insert", "supersede"}
                          THEN [src |-> "website", val |-> value(t)] ELSE NoFact],
             !.path = IF conflict THEN <<"NEEDS_MANUAL_REVIEW">> ELSE routeOutcome("VERIFIED")])
      PROVE  Kept(w)
  <2> DEFINE found == OfficialTypes \cup (IF named THEN {"business_name"} ELSE {})
             value(t) == IF t \in OfficialTypes THEN site ELSE "open"
             action(t) == resolveFactWrite(fact[l][t], value(t))
             conflict == \E t \in found : action(t) = "conflict"
             write == [t \in FactTypes |->
                         IF t \in found /\ action(t) \in {"insert", "supersede"}
                         THEN [src |-> "website", val |-> value(t)] ELSE NoFact]
             path == IF conflict THEN <<"NEEDS_MANUAL_REVIEW">> ELSE routeOutcome("VERIFIED")
             local == [s EXCEPT !.op = "enrich", !.verified = TRUE, !.write = write, !.path = path]
  <2>1. Become(w, local)
    BY <1>3
  <2>2. /\ path = <<"NEEDS_MANUAL_REVIEW">> \/ path = <<"ENRICHED", "READY_FOR_QUALIFICATION">>
        /\ path \in Seq(LeadStatuses)
    <3>1. routeOutcome("VERIFIED") = <<"ENRICHED", "READY_FOR_QUALIFICATION">>
      BY DEF routeOutcome
    <3>2. routeOutcome("VERIFIED") \in Seq(LeadStatuses)
      BY PathTypes
    <3>3. <<"NEEDS_MANUAL_REVIEW">> \in Seq(LeadStatuses)
      BY DEF LeadStatuses
    <3> HIDE DEF conflict
    <3>4. path = <<"NEEDS_MANUAL_REVIEW">> \/ path = routeOutcome("VERIFIED")
      OBVIOUS
    <3> QED BY <3>1, <3>2, <3>3, <3>4
  <2>3. action("official_domain") \in {"insert", "supersede"} =>
          fact[l]["official_domain"].src # "manual"
    BY DEF resolveFactWrite, NoFact
  <2> HIDE DEF action, conflict, path
  <2>4. /\ write \in [FactTypes -> Fact]
        /\ \A t \in FactTypes : write[t] # NoFact =>
             write[t].src = "website" /\ (t \in OfficialTypes => write[t].val \in Sites)
    BY NothingTypes DEF Fact, Sources, Values
  <2>5. write["official_domain"] # NoFact => fact[l]["official_domain"].src # "manual"
    BY <2>3 DEF FactTypes
  <2> HIDE DEF write
  <2>6. /\ local \in Session /\ local.op = "enrich" /\ local.lead = l /\ local.path = path
        /\ local.write = write
    BY <1>1, <2>2, <2>4 DEF Session, IntakeOps
  <2> HIDE DEF local, s
  <2>7. SoundWrites(local)
    BY <2>4, <2>5, <2>6 DEF SoundWrites, s
  <2>8. SoundPath(local)
    BY <2>2, <2>6 DEF SoundPath
  <2>9. SoundSites(local)
    BY <2>6 DEF SoundSites
  <2> QED BY <1>1, <2>1, <2>6, <2>7, <2>8, <2>9, LocalKeeps
<1>4. CASE Finish(w)
  BY <1>4, FinishKeeps
<1> QED
  <2>1. CASE \E outcome \in EnrichmentOutcomes \ {"VERIFIED"} :
             \E site \in IF outcome = "BROWSER_REQUIRED" THEN Sites ELSE {"nothing"} :
             Become(w, [s EXCEPT !.op = "enrich", !.site = site, !.path = routeOutcome(outcome)])
    BY <1>2, <2>1
  <2> QED BY <1>3, <1>4, <2>1 DEF enrichRead

(* The browser starts with the official facts of the lead as they stand. *)
LEMMA RenderKeeps ==
  ASSUME IntakeTypeOK, IntakeInv, NEW w \in Sessions, NEW l \in Leads,
         NEW audit \in BOOLEAN, NEW site \in Values, ~ audit => site # "nothing",
         startRender(w, l, audit, site), UNCHANGED <<fact, officials>>
  PROVE  Kept(w)
<1> DEFINE local == [NoSession EXCEPT !.op = "render", !.lead = l, !.audit = audit, !.site = site,
                                      !.seen = officialFacts(l)]
<1>1. Become(w, local)
  BY DEF startRender
<1>2. /\ officialFacts(l) \in [OfficialTypes -> Fact]
      /\ \A t \in OfficialTypes : IsOfficial(l, officialFacts(l)[t])
  <2>1. \A t \in OfficialTypes : IsOfficial(l, fact[l][t])
    BY DEF IntakeInv, OfficialFactsAreOnRecord
  <2> QED BY <2>1, OfficialTyped DEF IsOfficial
<1>3. /\ local \in Session /\ local.op = "render" /\ local.lead = l /\ local.path = <<>>
      /\ local.write = NoFacts /\ local.audit = audit /\ local.site = site
      /\ local.seen = officialFacts(l)
  BY <1>2, NothingTypes DEF NoSession, Session, IntakeOps
<1> HIDE DEF local
<1>4. SoundWrites(local)
  BY <1>3, NothingToWrite
<1>5. SoundPath(local)
  BY <1>3, NoPath
<1>6. SoundSites(local)
  BY <1>2, <1>3 DEF SoundSites
<1> QED BY <1>1, <1>3, <1>4, <1>5, <1>6, LocalKeeps

LEMMA AuditListKeeps ==
  ASSUME IntakeTypeOK, IntakeInv, NEW w \in Sessions, NEW l \in Leads, auditList(w, l)
  PROVE  Kept(w)
<1>1. primaryAuditTarget(officialFacts(l)) \in Values
  BY OfficialTyped
<1>2. startRender(w, l, TRUE, primaryAuditTarget(officialFacts(l))) /\ UNCHANGED <<fact, officials>>
  BY DEF auditList, leadState
<1> QED BY <1>1, <1>2, RenderKeeps

LEMMA MoveToCaptureKeeps ==
  ASSUME IntakeTypeOK, NEW w \in Sessions, NEW l \in Leads, moveToCapture(w, l)
  PROVE  Kept(w)
<1>1. PICK audit \in BOOLEAN, site \in Values :
        /\ ~ audit => site # "nothing"
        /\ Become(w, [NoSession EXCEPT !.op = "toCapture", !.lead = l, !.audit = audit,
                                       !.path = <<"READY_FOR_CAPTURE">>, !.site = site])
        /\ UNCHANGED <<fact, officials>>
  <2>1. PICK audit \in BOOLEAN :
          /\ ~ audit => target[l] # "nothing"
          /\ Become(w, [NoSession EXCEPT !.op = "toCapture", !.lead = l, !.audit = audit,
                                         !.path = <<"READY_FOR_CAPTURE">>,
                                         !.site = IF audit THEN @ ELSE target[l]])
          /\ UNCHANGED <<fact, officials>>
    BY DEF moveToCapture, leadState
  <2>2. target[l] \in Values /\ NoSession.site = "nothing" /\ "nothing" \in Values
    BY DEF IntakeTypeOK, NoSession, Values
  <2>3. CASE audit
    BY <2>1, <2>2, <2>3
  <2>4. CASE ~ audit
    BY <2>1, <2>2, <2>4
  <2> QED BY <2>3, <2>4
<1> DEFINE path == <<"READY_FOR_CAPTURE">>
           local == [NoSession EXCEPT !.op = "toCapture", !.lead = l, !.audit = audit,
                                      !.path = path, !.site = site]
<1>2. path \in Seq(LeadStatuses)
  BY DEF LeadStatuses
<1> HIDE DEF path
<1>3. /\ local \in Session /\ local.op = "toCapture" /\ local.lead = l /\ local.path = path
      /\ local.write = NoFacts /\ local.audit = audit /\ local.site = site
  BY <1>2, NothingTypes DEF NoSession, Session, IntakeOps
<1> HIDE DEF local
<1>4. SoundWrites(local)
  BY <1>3, NothingToWrite
<1>5. SoundPath(local)
  BY <1>3, PlainPath DEF path
<1>6. SoundSites(local)
  BY <1>1, <1>3 DEF SoundSites
<1> QED BY <1>1, <1>3, <1>4, <1>5, <1>6, LocalKeeps DEF local, path

LEMMA MovedToCaptureKeeps ==
  ASSUME IntakeTypeOK, IntakeInv, NEW w \in Sessions, movedToCapture(w)
  PROVE  Kept(w)
<1> DEFINE s == session[w]
           l == s.lead
           site == IF s.audit THEN primaryAuditTarget(officialFacts(l)) ELSE s.site
<1>1. /\ s \in Session /\ l \in Leads /\ SoundSites(s) /\ s.op = "toCapture"
      /\ startRender(w, l, s.audit, site) /\ UNCHANGED <<fact, officials>>
  BY AtWork DEF movedToCapture
<1>2. /\ s.audit \in BOOLEAN /\ site \in Values
      /\ ~ s.audit => site # "nothing"
  BY <1>1, OfficialTyped, Fields DEF SoundSites
<1> HIDE DEF site
<1> QED BY <1>1, <1>2, RenderKeeps

(* Only a site the browser was allowed to open comes out of a usable capture. *)
LEMMA AuditCaptureKeeps ==
  ASSUME IntakeTypeOK, IntakeInv, NEW w \in Sessions, auditCapture(w)
  PROVE  Kept(w)
<1> DEFINE s == session[w]
           l == s.lead
<1>1. /\ s \in Session /\ l \in Leads /\ SoundSites(s) /\ s.op = "render"
      /\ UNCHANGED <<fact, officials>>
  BY AtWork DEF auditCapture, leadState
<1>2. ASSUME NEW outcome \in decideAuditOutcome(s.seen, s.site),
             Become(w, [NoSession EXCEPT !.op = "record", !.lead = l, !.audit = TRUE,
                                         !.verified = usable(outcome),
                                         !.site = IF usable(outcome) THEN s.site ELSE @,
                                         !.path = routeAuditCapture(outcome)])
      PROVE  Kept(w)
  <2> DEFINE path == routeAuditCapture(outcome)
             site == IF usable(outcome) THEN s.site ELSE NoSession.site
             local == [NoSession EXCEPT !.op = "record", !.lead = l, !.audit = TRUE,
                                        !.verified = usable(outcome), !.site = site, !.path = path]
  <2>1. Become(w, local)
    BY <1>2
  <2>2. path \in Seq(LeadStatuses) /\ usable(outcome) \in BOOLEAN
    BY PathTypes DEF usable
  <2>3. ~ usable(outcome) => path = <<>> \/ path = <<"NEEDS_MANUAL_REVIEW">>
    BY DEF routeAuditCapture
  <2>4. usable(outcome) => path = <<"CAPTURED", "READY_FOR_AUDIT">>
    BY DEF routeAuditCapture, usable
  <2>5. site \in Values
    BY <1>1, Fields DEF NoSession, Values
  <2>6. usable(outcome) => s.site \in officials[l]
    <3>1. SUFFICES ASSUME usable(outcome) PROVE s.site \in officials[l]
      OBVIOUS
    <3>2. s.site # "nothing" /\ isAllowedMainFrame(s.seen, s.site)
      BY <1>2, <3>1 DEF decideAuditOutcome, usable
    <3>3. PICK t \in OfficialTypes : s.seen[t].val = s.site
      BY <3>2 DEF isAllowedMainFrame
    <3>4. IsOfficial(l, s.seen[t])
      BY <1>1 DEF SoundSites
    <3> QED BY <3>2, <3>3, <3>4 DEF IsOfficial, NoFact
  <2>7. usable(outcome) => site = s.site
    OBVIOUS
  <2> HIDE DEF path, site
  <2>8. /\ local \in Session /\ local.op = "record" /\ local.lead = l /\ local.path = path
        /\ local.write = NoFacts /\ local.audit = TRUE /\ local.site = site
        /\ local.verified = usable(outcome)
    BY <1>1, <2>2, <2>5, NothingTypes DEF NoSession, Session, IntakeOps
  <2> HIDE DEF local, s
  <2>9. SoundWrites(local)
    BY <2>8, NothingToWrite
  <2>10. SoundPath(local)
    BY <2>3, <2>4, <2>8 DEF SoundPath
  <2>11. SoundSites(local)
    BY <2>6, <2>7, <2>8 DEF SoundSites
  <2> QED BY <1>1, <2>1, <2>8, <2>9, <2>10, <2>11, LocalKeeps
<1>3. CASE Finish(w)
  BY <1>3, FinishKeeps
<1> QED
  BY <1>2, <1>3 DEF auditCapture

LEMMA VerificationCaptureKeeps ==
  ASSUME IntakeTypeOK, IntakeInv, NEW w \in Sessions, verificationCapture(w)
  PROVE  Kept(w)
<1> DEFINE s == session[w]
           l == s.lead
           site == s.site
           write == [t \in FactTypes |-> IF t \in OfficialTypes
                                         THEN writeOfficialFact(fact[l][t], site) ELSE NoFact]
           empty == [NoSession EXCEPT !.op = "record", !.lead = l]
           parked == [NoSession EXCEPT !.op = "record", !.lead = l, !.path = <<"NEEDS_MANUAL_REVIEW">>]
           proved == [NoSession EXCEPT !.op = "record", !.lead = l, !.write = write]
<1>1. /\ s \in Session /\ l \in Leads /\ SoundSites(s) /\ s.op = "render" /\ ~ s.audit
      /\ UNCHANGED <<fact, officials>>
  BY AtWork DEF verificationCapture, leadState
<1>2. CASE Finish(w)
  BY <1>2, FinishKeeps
<1>3. CASE Become(w, empty)
  <2>1. /\ empty \in Session /\ empty.op = "record" /\ empty.lead = l /\ empty.path = <<>>
        /\ empty.write = NoFacts /\ empty.audit = FALSE
    BY <1>1, NothingTypes DEF NoSession, Session, IntakeOps
  <2> HIDE DEF empty
  <2>2. SoundWrites(empty)
    BY <2>1, NothingToWrite
  <2>3. SoundPath(empty)
    BY <2>1, NoPath
  <2>4. SoundSites(empty)
    BY <2>1 DEF SoundSites
  <2> QED BY <1>1, <1>3, <2>1, <2>2, <2>3, <2>4, LocalKeeps
<1>4. CASE Become(w, parked)
  <2> DEFINE path == <<"NEEDS_MANUAL_REVIEW">>
  <2>1. path \in Seq(LeadStatuses)
    BY DEF LeadStatuses
  <2> HIDE DEF path
  <2>2. /\ parked \in Session /\ parked.op = "record" /\ parked.lead = l /\ parked.path = path
        /\ parked.write = NoFacts /\ parked.audit = FALSE
    BY <1>1, <2>1, NothingTypes DEF NoSession, Session, IntakeOps, path
  <2> HIDE DEF parked
  <2>3. SoundWrites(parked)
    BY <2>2, NothingToWrite
  <2>4. SoundPath(parked)
    BY <2>2, PlainPath DEF path
  <2>5. SoundSites(parked)
    BY <2>2 DEF SoundSites
  <2> QED BY <1>1, <1>4, <2>2, <2>3, <2>4, <2>5, LocalKeeps
<1>5. CASE isAllowedMainFrame(s.seen, site) /\ Become(w, proved)
  <2>1. site \in Sites /\ site \in Values
    <3>1. PICK t \in OfficialTypes : s.seen[t].val = site
      BY <1>5 DEF isAllowedMainFrame
    <3>2. IsOfficial(l, s.seen[t]) /\ site # "nothing"
      BY <1>1 DEF SoundSites
    <3>3. site \in officials[l]
      BY <3>1, <3>2 DEF IsOfficial, NoFact
    <3> QED BY <1>1, <3>3 DEF IntakeTypeOK, Values
  <2> HIDE DEF site
  <2>2. \A f \in Fact : /\ writeOfficialFact(f, site) \in Fact
                        /\ writeOfficialFact(f, site) # NoFact =>
                             /\ writeOfficialFact(f, site) = [src |-> "website", val |-> site]
                             /\ f.src # "manual"
    BY <2>1, NothingTypes DEF writeOfficialFact, Fact, Sources
  <2>3. \A t \in OfficialTypes : fact[l][t] \in Fact
    BY <1>1, NothingTypes DEF IntakeTypeOK
  <2>4. /\ write \in [FactTypes -> Fact]
        /\ \A t \in FactTypes : write[t] # NoFact =>
             /\ write[t].src = "website" /\ write[t].val \in Sites
             /\ t \in OfficialTypes /\ fact[l][t].src # "manual"
    BY <2>1, <2>2, <2>3, NothingTypes
  <2> HIDE DEF write
  <2>5. /\ proved \in Session /\ proved.op = "record" /\ proved.lead = l /\ proved.path = <<>>
        /\ proved.write = write /\ proved.audit = FALSE
    BY <1>1, <2>4, NothingTypes DEF NoSession, Session, IntakeOps
  <2> HIDE DEF proved
  <2>6. SoundWrites(proved)
    BY <2>4, <2>5 DEF SoundWrites, FactTypes
  <2>7. SoundPath(proved)
    BY <2>5, NoPath
  <2>8. SoundSites(proved)
    BY <2>5 DEF SoundSites
  <2> QED BY <1>1, <1>5, <2>5, <2>6, <2>7, <2>8, LocalKeeps
<1> QED
  BY <1>2, <1>3, <1>4, <1>5 DEF verificationCapture

LEMMA RejectPaths ==
  /\ \A from : planRejectionPath(from) \in {<<"REJECTED">>, <<"NEEDS_MANUAL_REVIEW", "REJECTED">>}
  /\ \A path \in {<<"REJECTED">>, <<"NEEDS_MANUAL_REVIEW", "REJECTED">>} :
       /\ path \in Seq(LeadStatuses) /\ path # <<>>
       /\ path[1] \in {"REJECTED", "NEEDS_MANUAL_REVIEW"}
       /\ path[Len(path)] = "REJECTED"
       /\ Len(path) # 1 => Tail(path) = <<"REJECTED">>
<1>1. \A from : planRejectionPath(from) \in {<<"REJECTED">>, <<"NEEDS_MANUAL_REVIEW", "REJECTED">>}
  BY DEF planRejectionPath
<1>2. "REJECTED" \in LeadStatuses /\ "NEEDS_MANUAL_REVIEW" \in LeadStatuses
  BY DEF LeadStatuses
<1> QED BY <1>1, <1>2

LEMMA RejectLeadKeeps ==
  ASSUME IntakeTypeOK, NEW w \in Sessions, NEW l \in Leads, rejectLead(w, l)
  PROVE  Kept(w)
<1> DEFINE path == planRejectionPath(status[l])
           local == [NoSession EXCEPT !.op = "reject", !.lead = l, !.path = path]
<1>1. Become(w, local) /\ UNCHANGED <<fact, officials>>
  BY DEF rejectLead
<1>2. /\ path \in {<<"REJECTED">>, <<"NEEDS_MANUAL_REVIEW", "REJECTED">>}
      /\ path \in Seq(LeadStatuses) /\ path[Len(path)] = "REJECTED"
  BY RejectPaths
<1> HIDE DEF path
<1>3. /\ local \in Session /\ local.op = "reject" /\ local.lead = l /\ local.path = path
      /\ local.write = NoFacts
  BY <1>2, NothingTypes DEF NoSession, Session, IntakeOps
<1> HIDE DEF local
<1>4. SoundWrites(local)
  BY <1>3, NothingToWrite
<1>5. SoundPath(local) /\ SoundSites(local)
  BY <1>2, <1>3 DEF SoundPath, SoundSites
<1> QED BY <1>1, <1>3, <1>4, <1>5, LocalKeeps

LEMMA RejectStepKeeps ==
  ASSUME IntakeTypeOK, IntakeInv, NEW w \in Sessions, rejectStep(w)
  PROVE  Kept(w)
<1> DEFINE s == session[w]
           path == s.path
           rest == Tail(path)
           local == [s EXCEPT !.path = rest]
<1>1. /\ s \in Session /\ s.lead \in Leads /\ SoundWrites(s) /\ SoundPath(s) /\ SoundSites(s)
      /\ s.op = "reject" /\ UNCHANGED <<fact, officials>>
  BY AtWork DEF rejectStep
<1>2. path \in {<<"REJECTED">>, <<"NEEDS_MANUAL_REVIEW", "REJECTED">>}
  BY <1>1 DEF SoundPath
<1>3. CASE Finish(w)
  BY <1>3, FinishKeeps
<1>4. CASE Len(path) # 1 /\ Become(w, local)
  <2>1. rest = <<"REJECTED">>
    BY <1>2, <1>4, RejectPaths
  <2>2. rest \in Seq(LeadStatuses) /\ rest # <<>> /\ rest[Len(rest)] = "REJECTED"
    BY <2>1, RejectPaths
  <2> HIDE DEF rest, path
  <2>3. /\ local \in Session /\ local.op = "reject" /\ local.lead = s.lead /\ local.path = rest
        /\ local.write = s.write
    BY <1>1, <2>2 DEF Session
  <2> HIDE DEF local, s
  <2>4. SoundWrites(local)
    BY <1>1, <2>3 DEF SoundWrites
  <2>5. SoundPath(local) /\ SoundSites(local)
    BY <2>1, <2>2, <2>3 DEF SoundPath, SoundSites
  <2> QED BY <1>1, <1>4, <2>3, <2>4, <2>5, LocalKeeps
<1> QED
  BY <1>3, <1>4 DEF rejectStep

LEMMA ReopenLeadKeeps ==
  ASSUME IntakeTypeOK, NEW w \in Sessions, NEW l \in Leads, reopenLead(w, l)
  PROVE  Kept(w)
<1> DEFINE path == <<"NEEDS_MANUAL_REVIEW">>
           local == [NoSession EXCEPT !.op = "reopen", !.lead = l, !.path = path]
<1>1. Become(w, local) /\ UNCHANGED <<fact, officials>>
  BY DEF reopenLead
<1>2. path \in Seq(LeadStatuses)
  BY DEF LeadStatuses
<1> HIDE DEF path
<1>3. /\ local \in Session /\ local.op = "reopen" /\ local.lead = l /\ local.path = path
      /\ local.write = NoFacts
  BY <1>2, NothingTypes DEF NoSession, Session, IntakeOps
<1> HIDE DEF local
<1>4. SoundWrites(local)
  BY <1>3, NothingToWrite
<1>5. SoundPath(local)
  BY <1>3, PlainPath DEF path
<1>6. SoundSites(local)
  BY <1>3 DEF SoundSites
<1> QED BY <1>1, <1>3, <1>4, <1>5, <1>6, LocalKeeps

(***************************************************************************)
(* What a step does to the facts                                           *)
(***************************************************************************)
(* Nothing is forgotten, no domain is taken back, and a manual domain is
   neither replaced nor made up. *)
FactsGrow ==
  \A l \in Leads :
    /\ officials[l] \subseteq officials'[l]
    /\ known(l, "official_domain") => fact'[l]["official_domain"].src # "none"
    /\ fact[l]["official_domain"].src # "manual" => fact'[l]["official_domain"].src # "manual"
    /\ fact[l]["official_domain"].src = "manual" =>
         fact'[l]["official_domain"] = fact[l]["official_domain"]

LEMMA SameFactsGrow ==
  ASSUME UNCHANGED <<fact, officials>> PROVE FactsGrow
BY DEF FactsGrow, known

LEMMA WritesGrow ==
  ASSUME IntakeTypeOK, IntakeInv, NEW w \in Sessions, session[w].op # "idle",
         writeCurrentFact(session[w].lead, session[w].write)
  PROVE  /\ fact' \in [Leads -> [FactTypes -> Fact]] /\ officials' \in [Leads -> SUBSET Sites]
         /\ FactsGrow /\ OfficialFactsAreOnRecord'
<1>1. PICK l \in Leads, write \in [FactTypes -> Fact] : l = session[w].lead /\ write = session[w].write
  BY AtWork, Fields
<1>2. /\ \A t \in FactTypes : write[t] # NoFact =>
           /\ write[t].src \in {"google_places", "website"}
           /\ t \in OfficialTypes => write[t].val \in Sites
      /\ write["official_domain"] # NoFact => fact[l]["official_domain"].src # "manual"
  BY <1>1, AtWork DEF SoundWrites
<1>3. /\ fact \in [Leads -> [FactTypes -> Fact]] /\ officials \in [Leads -> SUBSET Sites]
  BY DEF IntakeTypeOK
<1>4. /\ fact' \in [Leads -> [FactTypes -> Fact]] /\ officials' \in [Leads -> SUBSET Sites]
      /\ \A k \in Leads \ {l} : fact'[k] = fact[k] /\ officials'[k] = officials[k]
      /\ \A t \in FactTypes : fact'[l][t] = IF write[t] = NoFact THEN fact[l][t] ELSE write[t]
      /\ officials[l] \subseteq officials'[l]
      /\ \A t \in OfficialTypes : write[t].val \in Sites => write[t].val \in officials'[l]
  BY <1>1, <1>3, WriteFacts
<1>5. "official_domain" \in FactTypes
  BY DEF FactTypes
<1>6. ASSUME NEW k \in Leads
      PROVE  /\ officials[k] \subseteq officials'[k]
             /\ known(k, "official_domain") => fact'[k]["official_domain"].src # "none"
             /\ fact[k]["official_domain"].src # "manual" => fact'[k]["official_domain"].src # "manual"
             /\ fact[k]["official_domain"].src = "manual" =>
                  fact'[k]["official_domain"] = fact[k]["official_domain"]
  <2>1. CASE k # l
    BY <1>4, <2>1 DEF known
  <2>2. CASE k = l
    BY <1>2, <1>4, <1>5, <2>2 DEF known
  <2> QED BY <2>1, <2>2
<1>7. ASSUME NEW k \in Leads, NEW t \in OfficialTypes PROVE IsOfficial(k, fact[k][t])'
  <2>1. IsOfficial(k, fact[k][t]) /\ t \in FactTypes
    BY NothingTypes DEF IntakeInv, OfficialFactsAreOnRecord
  <2>2. CASE k # l
    BY <1>4, <2>1, <2>2 DEF IsOfficial
  <2>3. CASE k = l /\ write[t] = NoFact
    BY <1>4, <2>1, <2>3 DEF IsOfficial
  <2>4. CASE k = l /\ write[t] # NoFact
    BY <1>2, <1>4, <2>1, <2>4 DEF IsOfficial
  <2> QED BY <2>2, <2>3, <2>4
<1> QED
  BY <1>4, <1>6, <1>7 DEF FactsGrow, OfficialFactsAreOnRecord

(* What the other sessions hold stays sound as facts grow. *)
LEMMA OthersStaySound ==
  ASSUME NEW v \in Sessions, session'[v] = session[v], FactsGrow, IntakeSessionIsSound(v)
  PROVE  IntakeSessionIsSound(v)'
<1>1. SUFFICES ASSUME session[v].op # "idle" PROVE IntakeSessionIsSound(v)'
  BY DEF IntakeSessionIsSound
<1>2. session[v].lead \in Leads /\ WritesAreSound(v) /\ PathIsSound(v) /\ BrowsesOfficialSites(v)
  BY <1>1 DEF IntakeSessionIsSound
<1>3. WritesAreSound(v)'
  BY <1>2 DEF WritesAreSound, FactsGrow
<1>4. PathIsSound(v)'
  BY <1>2 DEF PathIsSound, FactsGrow, known
<1>5. BrowsesOfficialSites(v)'
  BY <1>2 DEF BrowsesOfficialSites, FactsGrow, IsOfficial
<1> QED
  BY <1>2, <1>3, <1>4, <1>5 DEF IntakeSessionIsSound

(* A session goes on with what it had, or with no facts left to write. *)
LEMMA GoogleCommitKeeps ==
  ASSUME IntakeTypeOK, IntakeInv, NEW w \in Sessions, googleCommit(w)
  PROVE  Kept(w)
<1> DEFINE s == session[w]
           local == [s EXCEPT !.op = "verify", !.write = NoFacts]
<1>1. /\ s \in Session /\ s.lead \in Leads /\ SoundPath(s) /\ s.op = "google"
      /\ Become(w, local) /\ FactsGrow
  BY AtWork, WritesGrow DEF googleCommit
<1>2. /\ local \in Session /\ local.op = "verify" /\ local.lead = s.lead /\ local.path = s.path
      /\ local.write = NoFacts
  BY <1>1, NothingTypes DEF Session, IntakeOps
<1>3. /\ s.path # <<>> => s.path[Len(s.path)] \notin {"QUALIFIED", "READY_FOR_AUDIT"}
  BY <1>1 DEF SoundPath
<1> HIDE DEF local
<1>4. /\ session'[w] = local /\ session' \in [Sessions -> Session]
      /\ \A v \in Sessions \ {w} : session'[v] = session[v]
  BY <1>1, <1>2, Becomes DEF IntakeTypeOK
<1>5. WritesAreSound(w)'
  BY <1>2, <1>4 DEF WritesAreSound, NoFacts, FactTypes
<1>6. PathIsSound(w)' /\ BrowsesOfficialSites(w)'
  BY <1>2, <1>3, <1>4 DEF PathIsSound, BrowsesOfficialSites
<1> QED BY <1>1, <1>2, <1>4, <1>5, <1>6 DEF Kept, IntakeSessionIsSound

LEMMA CaptureCommitKeeps ==
  ASSUME IntakeTypeOK, IntakeInv, NEW w \in Sessions, captureCommit(w)
  PROVE  Kept(w) /\ session'[w].op = "blobs" /\ session'[w].lead = session[w].lead
<1> DEFINE l == session[w].lead
           local == [NoSession EXCEPT !.op = "blobs", !.lead = l]
<1>1. l \in Leads /\ session[w].op = "record" /\ Become(w, local)
  BY AtWork DEF captureCommit
<1>2. /\ local \in Session /\ local.op = "blobs" /\ local.lead = l /\ local.path = <<>>
      /\ local.write = NoFacts
  BY <1>1, NothingTypes DEF NoSession, Session, IntakeOps
<1> HIDE DEF local
<1>3. /\ session'[w] = local /\ session' \in [Sessions -> Session]
      /\ \A v \in Sessions \ {w} : session'[v] = session[v]
  BY <1>1, <1>2, Becomes DEF IntakeTypeOK
<1>4. WritesAreSound(w)'
  BY <1>2, <1>3 DEF WritesAreSound, NoFacts, FactTypes
<1>5. PathIsSound(w)' /\ BrowsesOfficialSites(w)'
  BY <1>2, <1>3 DEF PathIsSound, BrowsesOfficialSites
<1> QED BY <1>1, <1>2, <1>3, <1>4, <1>5 DEF Kept, IntakeSessionIsSound

(***************************************************************************)
(* What a step does to statuses, captures and screenshots                  *)
(***************************************************************************)
StatusesMove ==
  \A l \in Leads :
    \/ status'[l] = status[l]
    \/ /\ status'[l] = "QUALIFIED" => known(l, "official_domain")
       /\ status'[l] = "READY_FOR_AUDIT" => capture'[l].site \in officials[l]

CapturesMove ==
  \A l \in Leads : capture'[l].site = capture[l].site \/ capture'[l].site \in officials[l]

LEMMA StatusesStaySound ==
  ASSUME IntakeInv, FactsGrow, StatusesMove, CapturesMove
  PROVE  QualifiedLeadHasSite' /\ AuditReadyWasCaptured'
<1>1. QualifiedLeadHasSite'
  BY DEF IntakeInv, FactsGrow, StatusesMove, QualifiedLeadHasSite, known
<1>2. ASSUME NEW l \in Leads, status'[l] = "READY_FOR_AUDIT"
      PROVE  capture'[l].site \in officials'[l]
  <2>1. officials[l] \subseteq officials'[l]
    BY DEF FactsGrow
  <2>2. CASE status[l] = "READY_FOR_AUDIT"
    BY <2>1, <2>2 DEF IntakeInv, AuditReadyWasCaptured, CapturesMove
  <2>3. CASE status[l] # "READY_FOR_AUDIT"
    BY <1>2, <2>1, <2>3 DEF StatusesMove
  <2> QED BY <2>2, <2>3
<1> QED BY <1>1, <1>2 DEF AuditReadyWasCaptured

(* A session writes the last status of its path to the lead it works on. *)
LEMMA WrittenMoves ==
  ASSUME IntakeTypeOK, IntakeInv, NEW w \in Sessions, session[w].op # "idle", status' = written(w)
  PROVE  /\ status' \in [Leads -> LeadStatuses]
         /\ \A l \in Leads :
              \/ status'[l] = status[l]
              \/ /\ l = session[w].lead
                 /\ status'[l] = "QUALIFIED" => known(l, "official_domain")
                 /\ status'[l] = "READY_FOR_AUDIT" =>
                      session[w].op = "record" /\ session[w].audit /\ session[w].verified
<1>1. PICK k \in Leads, path \in Seq(LeadStatuses) : k = session[w].lead /\ path = session[w].path
  BY AtWork, Fields
<1>2. status' = [status EXCEPT ![k] = IF path = <<>> THEN status[k] ELSE path[Len(path)]]
  BY <1>1 DEF written
<1>3. /\ path # <<>> /\ path[Len(path)] = "QUALIFIED" => known(k, "official_domain")
      /\ path # <<>> /\ path[Len(path)] = "READY_FOR_AUDIT" =>
           session[w].op = "record" /\ session[w].audit /\ session[w].verified
  BY <1>1, AtWork DEF SoundPath
<1>4. status \in [Leads -> LeadStatuses] /\ status' \in [Leads -> LeadStatuses]
  BY WrittenTypes DEF IntakeTypeOK
<1> QED
  BY <1>1, <1>2, <1>3, <1>4

(* As long as the session that has files to move does not end, they follow. *)
LEMMA FilesStay ==
  ASSUME IntakeTypeOK, IntakeInv, NEW w \in Sessions, session[w].op # "blobs",
         \A v \in Sessions \ {w} : session'[v] = session[v], UNCHANGED <<capture, intakeFaults>>
  PROVE  ScreenshotsFollowTheRun' /\ StagedByASession'
<1>1. ScreenshotsFollowTheRun /\ StagedByASession
  BY DEF IntakeInv
<1>2. StagedByASession'
  BY <1>1 DEF StagedByASession
<1>3. ASSUME NEW l \in Leads, capture[l].artifacts = "staged", ~ (intakeFaults > 0)
      PROVE  session'[capture[l].by].op = "blobs" /\ session'[capture[l].by].lead = l
  <2>1. session[capture[l].by].op = "blobs" /\ session[capture[l].by].lead = l
    BY <1>1, <1>3 DEF ScreenshotsFollowTheRun
  <2>2. capture[l].by \in Sessions \ {w}
    BY <1>1, <1>3, <2>1 DEF StagedByASession
  <2> QED BY <2>1, <2>2
<1>4. ScreenshotsFollowTheRun'
  BY <1>1, <1>3 DEF ScreenshotsFollowTheRun
<1> QED BY <1>2, <1>4

(***************************************************************************)
(* Every step preserves the invariant                                      *)
(***************************************************************************)
Preserved == IntakeTypeOK' /\ IntakeInv'

LEMMA Assembles ==
  ASSUME IntakeTypeOK, IntakeInv, NEW w \in Sessions, Kept(w),
         FactsGrow, OfficialFactsAreOnRecord', StatusesMove, CapturesMove,
         ScreenshotsFollowTheRun', StagedByASession',
         status' \in [Leads -> LeadStatuses], fact' \in [Leads -> [FactTypes -> Fact]],
         officials' \in [Leads -> SUBSET Sites], target' \in [Leads -> Values],
         capture' \in [Leads -> Capture], suppressed' \subseteq Leads,
         intakeEdits' \in 0..MaxIntakeEvents, intakeFaults' \in 0..MaxIntakeEvents
  PROVE  Preserved
<1>1. session' \in [Sessions -> Session]
  BY DEF Kept
<1>2. IntakeTypeOK'
  BY <1>1 DEF IntakeTypeOK
<1>3. ASSUME NEW v \in Sessions PROVE IntakeSessionIsSound(v)'
  <2>1. CASE v = w
    BY <2>1 DEF Kept
  <2>2. CASE v # w
    BY <2>2, OthersStaySound DEF Kept, IntakeInv, IntakeSessionsAreSound
  <2> QED BY <2>1, <2>2
<1>4. QualifiedLeadHasSite' /\ AuditReadyWasCaptured'
  BY StatusesStaySound
<1> QED
  BY <1>2, <1>3, <1>4 DEF Preserved, IntakeInv, IntakeSessionsAreSound

(* Steps that decide and write nothing of the lead. *)
LEMMA ReadsPreserve ==
  ASSUME IntakeTypeOK, IntakeInv, NEW w \in Sessions, Kept(w), session[w].op # "blobs",
         UNCHANGED <<fact, officials, target, capture, suppressed, status, intakeFaults>>,
         intakeEdits' \in 0..MaxIntakeEvents
  PROVE  Preserved
<1>1. FactsGrow
  BY SameFactsGrow
<1>2. OfficialFactsAreOnRecord'
  BY DEF IntakeInv, OfficialFactsAreOnRecord, IsOfficial
<1>3. StatusesMove /\ CapturesMove
  BY DEF StatusesMove, CapturesMove
<1>4. ScreenshotsFollowTheRun' /\ StagedByASession'
  BY FilesStay DEF Kept
<1>5. /\ status' \in [Leads -> LeadStatuses] /\ fact' \in [Leads -> [FactTypes -> Fact]]
      /\ officials' \in [Leads -> SUBSET Sites] /\ target' \in [Leads -> Values]
      /\ capture' \in [Leads -> Capture] /\ suppressed' \subseteq Leads
      /\ intakeFaults' \in 0..MaxIntakeEvents
  BY DEF IntakeTypeOK
<1> QED BY <1>1, <1>2, <1>3, <1>4, <1>5, Assembles

(* Steps that move the lead and write nothing else of it. *)
LEMMA MovesPreserve ==
  ASSUME IntakeTypeOK, IntakeInv, NEW w \in Sessions, Kept(w),
         session[w].op \notin {"idle", "blobs", "record"}, status' = written(w),
         UNCHANGED <<fact, officials, target, capture, suppressed, intakeEdits, intakeFaults>>
  PROVE  Preserved
<1>1. FactsGrow
  BY SameFactsGrow
<1>2. OfficialFactsAreOnRecord'
  BY DEF IntakeInv, OfficialFactsAreOnRecord, IsOfficial
<1>3. StatusesMove /\ CapturesMove /\ status' \in [Leads -> LeadStatuses]
  BY WrittenMoves DEF StatusesMove, CapturesMove
<1>4. ScreenshotsFollowTheRun' /\ StagedByASession'
  BY FilesStay DEF Kept
<1>5. /\ fact' \in [Leads -> [FactTypes -> Fact]]
      /\ officials' \in [Leads -> SUBSET Sites] /\ target' \in [Leads -> Values]
      /\ capture' \in [Leads -> Capture] /\ suppressed' \subseteq Leads
      /\ intakeEdits' \in 0..MaxIntakeEvents /\ intakeFaults' \in 0..MaxIntakeEvents
  BY DEF IntakeTypeOK
<1> QED BY <1>1, <1>2, <1>3, <1>4, <1>5, Assembles

(* Steps that write facts, and perhaps the lead and the candidate. *)
LEMMA FactWritesPreserve ==
  ASSUME IntakeTypeOK, IntakeInv, NEW w \in Sessions, Kept(w),
         session[w].op \notin {"idle", "blobs", "record"},
         status' = status \/ status' = written(w),
         writeCurrentFact(session[w].lead, session[w].write),
         target' \in [Leads -> Values],
         UNCHANGED <<capture, suppressed, intakeEdits, intakeFaults>>
  PROVE  Preserved
<1>1. /\ fact' \in [Leads -> [FactTypes -> Fact]] /\ officials' \in [Leads -> SUBSET Sites]
      /\ FactsGrow /\ OfficialFactsAreOnRecord'
  BY WritesGrow
<1>2. StatusesMove /\ CapturesMove /\ status' \in [Leads -> LeadStatuses]
  BY WrittenMoves DEF StatusesMove, CapturesMove, IntakeTypeOK
<1>3. ScreenshotsFollowTheRun' /\ StagedByASession'
  BY FilesStay DEF Kept
<1>4. /\ capture' \in [Leads -> Capture] /\ suppressed' \subseteq Leads
      /\ intakeEdits' \in 0..MaxIntakeEvents /\ intakeFaults' \in 0..MaxIntakeEvents
  BY DEF IntakeTypeOK
<1> QED BY <1>1, <1>2, <1>3, <1>4, Assembles

LEMMA RejectStepPreserves ==
  ASSUME IntakeTypeOK, IntakeInv, NEW w \in Sessions, rejectStep(w)
  PROVE  Preserved
<1> DEFINE l == session[w].lead
           to == session[w].path[1]
<1>1. /\ session[w].op = "reject" /\ l \in Leads /\ SoundPath(session[w]) /\ Kept(w)
      /\ UNCHANGED <<fact, officials, target, capture, suppressed, intakeEdits, intakeFaults>>
  BY AtWork, RejectStepKeeps DEF rejectStep, intakeBounds
<1>2. to \in {"REJECTED", "NEEDS_MANUAL_REVIEW"}
  BY <1>1, RejectPaths DEF SoundPath
<1>3. status' = status \/ status' = [status EXCEPT ![l] = to]
  BY DEF rejectStep
<1>4. StatusesMove /\ CapturesMove /\ status' \in [Leads -> LeadStatuses]
  <2>1. to \in LeadStatuses
    BY <1>2 DEF LeadStatuses
  <2>2. status \in [Leads -> LeadStatuses]
    BY DEF IntakeTypeOK
  <2> HIDE DEF to
  <2> QED BY <1>1, <1>2, <1>3, <2>1, <2>2 DEF StatusesMove, CapturesMove
<1>5. FactsGrow
  BY <1>1, SameFactsGrow
<1>6. OfficialFactsAreOnRecord'
  BY <1>1 DEF IntakeInv, OfficialFactsAreOnRecord, IsOfficial
<1>7. ScreenshotsFollowTheRun' /\ StagedByASession'
  BY <1>1, FilesStay DEF Kept
<1>8. /\ fact' \in [Leads -> [FactTypes -> Fact]]
      /\ officials' \in [Leads -> SUBSET Sites] /\ target' \in [Leads -> Values]
      /\ capture' \in [Leads -> Capture] /\ suppressed' \subseteq Leads
      /\ intakeEdits' \in 0..MaxIntakeEvents /\ intakeFaults' \in 0..MaxIntakeEvents
  BY <1>1 DEF IntakeTypeOK
<1> QED BY <1>1, <1>4, <1>5, <1>6, <1>7, <1>8, Assembles

LEMMA CaptureCommitPreserves ==
  ASSUME IntakeTypeOK, IntakeInv, NEW w \in Sessions, captureCommit(w)
  PROVE  Preserved
<1> DEFINE s == session[w]
           l == s.lead
           taken == [site |-> s.site, artifacts |-> "staged", by |-> w]
<1>1. /\ s \in Session /\ s.op = "record" /\ l \in Leads /\ SoundSites(s) /\ Kept(w)
      /\ session'[w].op = "blobs" /\ session'[w].lead = l
      /\ status' = written(w) /\ writeCurrentFact(l, s.write)
      /\ UNCHANGED <<target, suppressed, intakeEdits, intakeFaults>>
  BY AtWork, CaptureCommitKeeps DEF captureCommit, intakeBounds
<1>2. /\ capture \in [Leads -> Capture] /\ taken \in Capture
      /\ ~ (s.audit /\ s.verified) => capture' = capture
      /\ s.audit /\ s.verified => capture' = [capture EXCEPT ![l] = taken]
  <2>1. capture \in [Leads -> Capture]
    BY DEF IntakeTypeOK
  <2>2. taken \in Capture
    BY <1>1, Fields DEF Capture
  <2>3. ~ (s.audit /\ s.verified) => capture' = capture
    BY <2>1, <1>1 DEF captureCommit
  <2>4. s.audit /\ s.verified => capture' = [capture EXCEPT ![l] = taken]
    BY DEF captureCommit
  <2> QED BY <2>1, <2>2, <2>3, <2>4
<1>3. /\ fact' \in [Leads -> [FactTypes -> Fact]] /\ officials' \in [Leads -> SUBSET Sites]
      /\ FactsGrow /\ OfficialFactsAreOnRecord'
  BY <1>1, WritesGrow
<1>4. capture' \in [Leads -> Capture] /\ CapturesMove
  BY <1>1, <1>2 DEF CapturesMove, SoundSites
<1>5. StatusesMove /\ status' \in [Leads -> LeadStatuses]
  <2>1. s.audit /\ s.verified => capture'[l].site \in officials[l]
    BY <1>1, <1>2 DEF SoundSites
  <2> QED BY <1>1, <2>1, WrittenMoves DEF StatusesMove
<1>6. StagedByASession'
  BY <1>1, <1>2 DEF IntakeInv, StagedByASession
<1>7. ScreenshotsFollowTheRun'
  <2>1. ASSUME NEW k \in Leads, capture'[k] = capture[k],
               capture[k].artifacts = "staged", ~ (intakeFaults > 0)
        PROVE  session'[capture[k].by].op = "blobs" /\ session'[capture[k].by].lead = k
    <3>1. session[capture[k].by].op = "blobs" /\ session[capture[k].by].lead = k
      BY <2>1 DEF IntakeInv, ScreenshotsFollowTheRun
    <3>2. capture[k].by \in Sessions \ {w}
      BY <1>1, <2>1, <3>1 DEF IntakeInv, StagedByASession
    <3> QED BY <1>1, <3>1, <3>2 DEF Kept
  <2>2. ASSUME NEW k \in Leads, capture'[k] = capture[k]
        PROVE  \/ capture'[k].artifacts \in {"none", "stored"}
               \/ capture'[k].artifacts = "staged" /\ session'[capture'[k].by].op = "blobs"
                                                   /\ session'[capture'[k].by].lead = k
               \/ intakeFaults' > 0
    BY <1>1, <2>1, <2>2 DEF IntakeInv, ScreenshotsFollowTheRun
  <2>3. \A k \in Leads : capture'[k] = capture[k] \/ (k = l /\ capture'[k] = taken)
    BY <1>1, <1>2
  <2> QED BY <1>1, <2>2, <2>3 DEF ScreenshotsFollowTheRun
<1>8. /\ target' \in [Leads -> Values] /\ suppressed' \subseteq Leads
      /\ intakeEdits' \in 0..MaxIntakeEvents /\ intakeFaults' \in 0..MaxIntakeEvents
  BY <1>1 DEF IntakeTypeOK
<1> QED BY <1>1, <1>3, <1>4, <1>5, <1>6, <1>7, <1>8, Assembles

LEMMA CommitAllPreserves ==
  ASSUME IntakeTypeOK, IntakeInv, NEW w \in Sessions, commitAll(w)
  PROVE  Preserved
<1> DEFINE l == session[w].lead
           settled(result) == [capture[l] EXCEPT !.artifacts = result, !.by = "none"]
<1>1. /\ session[w].op = "blobs" /\ l \in Leads /\ Kept(w)
      /\ UNCHANGED <<fact, officials, target, status, suppressed, intakeEdits>>
  BY AtWork, FinishKeeps DEF commitAll
<1>2. PICK result \in {"stored", "lost"} :
        /\ settleArtifacts(w, result)
        /\ result = "stored" => intakeFaults' = intakeFaults
        /\ result = "lost" => intakeFault
  BY DEF commitAll
<1>3. intakeFaults \in Nat /\ intakeFaults' \in 0..MaxIntakeEvents
      /\ (result = "lost" => intakeFaults' > 0) /\ intakeFaults' >= intakeFaults
  <2>1. intakeFaults \in 0..MaxIntakeEvents /\ intakeEdits \in 0..MaxIntakeEvents /\ MaxIntakeEvents \in Nat
    BY IntakeAssumption DEF IntakeTypeOK
  <2>2. CASE result = "stored"
    BY <1>2, <2>1, <2>2
  <2>3. CASE result = "lost"
    <3>1. intakeEdits + intakeFaults < MaxIntakeEvents /\ intakeFaults' = intakeFaults + 1
      BY <1>2, <2>3 DEF intakeFault
    <3> QED BY <2>1, <2>3, <3>1
  <2> QED BY <2>2, <2>3
<1>4. /\ capture \in [Leads -> Capture]
      /\ \A k \in Leads \ {l} : capture'[k] = capture[k]
      /\ \/ capture' = capture /\ ~ (capture[l].by = w /\ capture[l].artifacts = "staged")
         \/ capture' = [capture EXCEPT ![l] = settled(result)]
  <2>1. capture \in [Leads -> Capture]
    BY DEF IntakeTypeOK
  <2>2. CASE capture[l].by = w /\ capture[l].artifacts = "staged"
    BY <1>1, <1>2, <2>1, <2>2 DEF settleArtifacts
  <2>3. CASE ~ (capture[l].by = w /\ capture[l].artifacts = "staged")
    BY <1>1, <1>2, <2>1, <2>3 DEF settleArtifacts
  <2> QED BY <2>1, <2>2, <2>3
<1>5. settled(result) \in Capture /\ settled(result).site = capture[l].site
      /\ settled(result).artifacts = result
  <2>1. PICK c \in Capture : c = capture[l]
    BY <1>1, <1>4
  <2>2. settled(result) = [c EXCEPT !.artifacts = result, !.by = "none"]
    BY <2>1
  <2>3. [c EXCEPT !.artifacts = result, !.by = "none"] \in Capture
    BY DEF Capture
  <2>4. [c EXCEPT !.artifacts = result, !.by = "none"].site = c.site
    BY DEF Capture
  <2>5. [c EXCEPT !.artifacts = result, !.by = "none"].artifacts = result
    BY DEF Capture
  <2> HIDE DEF settled
  <2> QED BY <2>1, <2>2, <2>3, <2>4, <2>5
<1> HIDE DEF settled
<1>6. /\ capture' \in [Leads -> Capture]
      /\ \A k \in Leads : capture'[k].site = capture[k].site
  BY <1>1, <1>4, <1>5
<1>7. CapturesMove /\ StatusesMove
  BY <1>1, <1>6 DEF CapturesMove, StatusesMove
<1>8. \A k \in Leads : \/ capture'[k] = capture[k] /\ ~ (k = l /\ capture[l].by = w
                                                            /\ capture[l].artifacts = "staged")
                       \/ k = l /\ capture'[k].artifacts = result
  BY <1>1, <1>4, <1>5
<1>9. StagedByASession'
  BY <1>2, <1>8 DEF IntakeInv, StagedByASession
<1>10. ScreenshotsFollowTheRun'
  <2>1. ASSUME NEW k \in Leads, capture'[k] = capture[k], ~ (k = l /\ capture[l].by = w),
               capture[k].artifacts = "staged", ~ (intakeFaults > 0)
        PROVE  session'[capture[k].by].op = "blobs" /\ session'[capture[k].by].lead = k
    <3>1. session[capture[k].by].op = "blobs" /\ session[capture[k].by].lead = k
      BY <2>1 DEF IntakeInv, ScreenshotsFollowTheRun
    <3>2. capture[k].by \in Sessions \ {w}
      BY <2>1, <3>1 DEF IntakeInv, StagedByASession
    <3> QED BY <1>1, <3>1, <3>2 DEF Kept
  <2>2. ASSUME NEW k \in Leads
        PROVE  \/ capture'[k].artifacts \in {"none", "stored"}
               \/ capture'[k].artifacts = "staged" /\ session'[capture'[k].by].op = "blobs"
                                                   /\ session'[capture'[k].by].lead = k
               \/ intakeFaults' > 0
    <3>1. CASE k = l /\ capture'[k].artifacts = result
      BY <1>2, <1>3, <3>1
    <3>2. CASE capture'[k] = capture[k] /\ ~ (k = l /\ capture[l].by = w
                                                /\ capture[l].artifacts = "staged")
      <4>1. \/ capture[k].artifacts \in {"none", "stored"}
            \/ capture[k].artifacts = "staged"
            \/ intakeFaults > 0
        BY DEF IntakeInv, ScreenshotsFollowTheRun
      <4> QED BY <1>3, <2>1, <3>2, <4>1
    <3> QED BY <1>8, <3>1, <3>2
  <2> QED BY <2>2 DEF ScreenshotsFollowTheRun
<1>11. FactsGrow
  BY <1>1, SameFactsGrow
<1>12. OfficialFactsAreOnRecord'
  BY <1>1 DEF IntakeInv, OfficialFactsAreOnRecord, IsOfficial
<1>13. /\ fact' \in [Leads -> [FactTypes -> Fact]] /\ status' \in [Leads -> LeadStatuses]
       /\ officials' \in [Leads -> SUBSET Sites] /\ target' \in [Leads -> Values]
       /\ suppressed' \subseteq Leads /\ intakeEdits' \in 0..MaxIntakeEvents
  BY <1>1 DEF IntakeTypeOK
<1> QED BY <1>1, <1>3, <1>6, <1>7, <1>9, <1>10, <1>11, <1>12, <1>13, Assembles

(* A process that dies takes the promise of its files with it. *)
LEMMA CrashPreserves ==
  ASSUME IntakeTypeOK, IntakeInv, NEW w \in Sessions, intakeCrash(w)
  PROVE  Preserved
<1>1. /\ Kept(w)
      /\ UNCHANGED <<fact, officials, target, capture, status, suppressed, intakeEdits>>
  BY FinishKeeps DEF intakeCrash
<1>2. intakeFaults' \in 0..MaxIntakeEvents /\ intakeFaults' > 0
  <2>1. intakeFaults \in 0..MaxIntakeEvents /\ intakeEdits \in 0..MaxIntakeEvents /\ MaxIntakeEvents \in Nat
    BY IntakeAssumption DEF IntakeTypeOK
  <2>2. intakeEdits + intakeFaults < MaxIntakeEvents /\ intakeFaults' = intakeFaults + 1
    BY DEF intakeCrash, intakeFault
  <2> QED BY <2>1, <2>2
<1>3. FactsGrow
  BY <1>1, SameFactsGrow
<1>4. OfficialFactsAreOnRecord' /\ StagedByASession'
  BY <1>1 DEF IntakeInv, OfficialFactsAreOnRecord, IsOfficial, StagedByASession
<1>5. StatusesMove /\ CapturesMove
  BY <1>1 DEF StatusesMove, CapturesMove
<1>6. ScreenshotsFollowTheRun'
  BY <1>2 DEF ScreenshotsFollowTheRun
<1>7. /\ fact' \in [Leads -> [FactTypes -> Fact]] /\ status' \in [Leads -> LeadStatuses]
      /\ officials' \in [Leads -> SUBSET Sites] /\ target' \in [Leads -> Values]
      /\ capture' \in [Leads -> Capture] /\ suppressed' \subseteq Leads
      /\ intakeEdits' \in 0..MaxIntakeEvents
  BY <1>1 DEF IntakeTypeOK
<1> QED BY <1>1, <1>2, <1>3, <1>4, <1>5, <1>6, <1>7, Assembles

LEMMA EditCounts ==
  ASSUME IntakeTypeOK, spendEdit PROVE intakeEdits' \in 0..MaxIntakeEvents
<1>1. intakeFaults \in 0..MaxIntakeEvents /\ intakeEdits \in 0..MaxIntakeEvents /\ MaxIntakeEvents \in Nat
  BY IntakeAssumption DEF IntakeTypeOK
<1> QED BY <1>1 DEF spendEdit

LEMMA SuppressPreserves ==
  ASSUME IntakeTypeOK, IntakeInv, NEW l \in Leads, suppress(l)
  PROVE  Preserved
<1>1. /\ UNCHANGED <<status, fact, target, capture, session, officials, intakeFaults>>
      /\ suppressed' = suppressed \cup {l} /\ intakeEdits' \in 0..MaxIntakeEvents
  BY EditCounts DEF suppress
<1>2. IntakeTypeOK'
  BY <1>1 DEF IntakeTypeOK
<1>3. ASSUME NEW v \in Sessions PROVE IntakeSessionIsSound(v)'
  BY <1>1, SameFactsGrow, OthersStaySound DEF IntakeInv, IntakeSessionsAreSound
<1>4. OfficialFactsAreOnRecord' /\ StagedByASession' /\ QualifiedLeadHasSite'
      /\ AuditReadyWasCaptured' /\ ScreenshotsFollowTheRun'
  BY <1>1 DEF IntakeInv, OfficialFactsAreOnRecord, IsOfficial, StagedByASession, QualifiedLeadHasSite,
              known, AuditReadyWasCaptured, ScreenshotsFollowTheRun
<1> QED
  BY <1>2, <1>3, <1>4 DEF Preserved, IntakeInv, IntakeSessionsAreSound

LEMMA StutterPreserves ==
  ASSUME IntakeTypeOK, IntakeInv, UNCHANGED intakeVars
  PROVE  Preserved
<1>1. UNCHANGED <<status, fact, target, capture, suppressed, session, officials, intakeEdits, intakeFaults>>
  BY DEF intakeVars
<1>2. IntakeTypeOK'
  BY <1>1 DEF IntakeTypeOK
<1>3. ASSUME NEW v \in Sessions PROVE IntakeSessionIsSound(v)'
  BY <1>1, SameFactsGrow, OthersStaySound DEF IntakeInv, IntakeSessionsAreSound
<1>4. OfficialFactsAreOnRecord' /\ StagedByASession' /\ QualifiedLeadHasSite'
      /\ AuditReadyWasCaptured' /\ ScreenshotsFollowTheRun'
  BY <1>1 DEF IntakeInv, OfficialFactsAreOnRecord, IsOfficial, StagedByASession, QualifiedLeadHasSite,
              known, AuditReadyWasCaptured, ScreenshotsFollowTheRun
<1> QED
  BY <1>2, <1>3, <1>4 DEF Preserved, IntakeInv, IntakeSessionsAreSound

LEMMA StepPreserves ==
  ASSUME IntakeTypeOK, IntakeInv, [IntakeNext]_intakeVars
  PROVE  Preserved
<1>1. ASSUME NEW w \in Sessions, NEW l \in Leads,
             \/ qualifyRead(w, l) \/ enrichBegin(w, l) \/ backfillRead(w, l)
             \/ auditList(w, l) \/ moveToCapture(w, l)
      PROVE  Preserved
  <2>1. /\ session[w].op # "blobs"
        /\ UNCHANGED <<fact, officials, target, capture, suppressed, status, intakeEdits, intakeFaults>>
    BY <1>1 DEF qualifyRead, enrichBegin, backfillRead, auditList, moveToCapture, idle, leadState,
                intakeBounds
  <2>2. Kept(w)
    BY <1>1, QualifyKeeps, EnrichBeginKeeps, BackfillReadKeeps, AuditListKeeps, MoveToCaptureKeeps
  <2>3. intakeEdits' \in 0..MaxIntakeEvents
    BY <2>1 DEF IntakeTypeOK
  <2> QED BY <2>1, <2>2, <2>3, ReadsPreserve
<1>2. ASSUME NEW w \in Sessions,
             googleRead(w) \/ enrichRead(w) \/ auditCapture(w) \/ verificationCapture(w)
      PROVE  Preserved
  <2>1. /\ session[w].op # "blobs"
        /\ UNCHANGED <<fact, officials, target, capture, suppressed, status, intakeEdits, intakeFaults>>
    BY <1>2 DEF googleRead, enrichRead, auditCapture, verificationCapture, leadState, intakeBounds
  <2>2. Kept(w)
    BY <1>2, GoogleReadKeeps, EnrichReadKeeps, AuditCaptureKeeps, VerificationCaptureKeeps
  <2>3. intakeEdits' \in 0..MaxIntakeEvents
    BY <2>1 DEF IntakeTypeOK
  <2> QED BY <2>1, <2>2, <2>3, ReadsPreserve
<1>3. ASSUME NEW w \in Sessions, NEW l \in Leads, rejectLead(w, l) \/ reopenLead(w, l)
      PROVE  Preserved
  <2>1. /\ session[w].op # "blobs" /\ spendEdit
        /\ UNCHANGED <<fact, officials, target, capture, suppressed, status, intakeFaults>>
    BY <1>3 DEF rejectLead, reopenLead, idle
  <2>2. Kept(w)
    BY <1>3, RejectLeadKeeps, ReopenLeadKeeps
  <2> QED BY <2>1, <2>2, EditCounts, ReadsPreserve
<1>4. ASSUME NEW w \in Sessions, qualifyCommit(w) \/ movedToCapture(w) \/ reopened(w)
      PROVE  Preserved
  <2>1. /\ session[w].op \in {"qualify", "toCapture", "reopen"} /\ status' = written(w)
        /\ UNCHANGED <<fact, officials, target, capture, suppressed, intakeEdits, intakeFaults>>
    BY <1>4 DEF qualifyCommit, movedToCapture, reopened, intakeBounds
  <2>2. Kept(w)
    BY <1>4, MovedToCaptureKeeps, FinishKeeps DEF qualifyCommit, reopened
  <2> QED BY <2>1, <2>2, MovesPreserve
<1>5. ASSUME NEW w \in Sessions, googleCommit(w) \/ backfillCommit(w)
      PROVE  Preserved
  <2>1. /\ session[w].op \in {"google", "backfill"}
        /\ writeCurrentFact(session[w].lead, session[w].write)
        /\ UNCHANGED <<status, target, capture, suppressed, intakeEdits, intakeFaults>>
    BY <1>5 DEF googleCommit, backfillCommit, intakeBounds
  <2>2. Kept(w)
    BY <1>5, GoogleCommitKeeps, FinishKeeps DEF backfillCommit
  <2>3. target' \in [Leads -> Values]
    BY <2>1 DEF IntakeTypeOK
  <2> QED BY <2>1, <2>2, <2>3, FactWritesPreserve
<1>6. ASSUME NEW w \in Sessions, enrichCommit(w) PROVE Preserved
  <2> DEFINE l == session[w].lead
  <2>1. /\ session[w].op = "enrich" /\ writeCurrentFact(l, session[w].write)
        /\ status' = written(w) /\ Kept(w)
        /\ UNCHANGED <<capture, suppressed, intakeEdits, intakeFaults>>
    BY <1>6, FinishKeeps DEF enrichCommit, intakeBounds
  <2>2. target' \in [Leads -> Values]
    <3>1. target \in [Leads -> Values] /\ session[w].site \in Values /\ l \in Leads
      BY <2>1, AtWork, Fields DEF IntakeTypeOK
    <3>2. target' = [target EXCEPT ![l] =
                       IF session[w].verified \/ session[w].site = "nothing" THEN @ ELSE session[w].site]
      BY <1>6 DEF enrichCommit
    <3> QED BY <3>1, <3>2
  <2> QED BY <2>1, <2>2, FactWritesPreserve
<1>7. ASSUME NEW w \in Sessions,
             captureCommit(w) \/ commitAll(w) \/ rejectStep(w) \/ intakeCrash(w)
      PROVE  Preserved
  BY <1>7, CaptureCommitPreserves, CommitAllPreserves, RejectStepPreserves, CrashPreserves
<1>8. ASSUME NEW l \in Leads, suppress(l) PROVE Preserved
  BY <1>8, SuppressPreserves
<1>9. CASE UNCHANGED intakeVars
  BY <1>9, StutterPreserves
<1> QED
  BY <1>1, <1>2, <1>3, <1>4, <1>5, <1>6, <1>7, <1>8, <1>9 DEF IntakeNext

LEMMA InitSound ==
  ASSUME IntakeInit PROVE IntakeTypeOK /\ IntakeInv
<1>1. CollectedFacts \subseteq [FactTypes -> Fact]
  <2>1. [src |-> "manual", val |-> "nothing"] \in Fact /\ [src : {"manual"}, val : Sites] \subseteq Fact
    BY DEF Fact, Sources, Values
  <2> QED BY <2>1, NothingTypes DEF CollectedFacts
<1>2. IntakeTypeOK
  <2>1. status \in [Leads -> LeadStatuses]
    BY DEF IntakeInit, LeadStatuses
  <2>2. /\ fact \in [Leads -> [FactTypes -> Fact]] /\ target \in [Leads -> Values]
        /\ capture \in [Leads -> Capture] /\ suppressed \subseteq Leads
        /\ session \in [Sessions -> Session]
    BY <1>1, NothingTypes DEF IntakeInit, Values
  <2>3. officials \in [Leads -> SUBSET Sites]
    BY DEF IntakeInit
  <2>4. intakeEdits \in 0..MaxIntakeEvents /\ intakeFaults \in 0..MaxIntakeEvents
    BY IntakeAssumption DEF IntakeInit
  <2> QED BY <2>1, <2>2, <2>3, <2>4 DEF IntakeTypeOK
<1>3. \A l \in Leads : status[l] = "NEW" /\ capture[l] = NoCapture
  BY DEF IntakeInit
<1>4. \A w \in Sessions : session[w] = NoSession
  BY DEF IntakeInit
<1>5. OfficialFactsAreOnRecord
  <2>1. SUFFICES ASSUME NEW l \in Leads, NEW t \in OfficialTypes PROVE IsOfficial(l, fact[l][t])
    BY DEF OfficialFactsAreOnRecord
  <2>2. fact[l] \in CollectedFacts /\ officials[l] = {fact[l]["official_domain"].val} \cap Sites
    BY DEF IntakeInit
  <2>3. CASE fact[l] = NoFacts
    BY <2>3, NothingTypes DEF NoFacts, IsOfficial
  <2>4. CASE fact[l] # NoFacts
    <3>1. PICK official \in {NoFact} \cup [src : {"manual"}, val : Sites] :
            fact[l] = [NoFacts EXCEPT !["business_name"] = [src |-> "manual", val |-> "nothing"],
                                      !["official_domain"] = official]
      BY <2>2, <2>4 DEF CollectedFacts
    <3>2. fact[l]["official_domain"] = official /\ fact[l]["official_website_url"] = NoFact
      BY <3>1 DEF NoFacts, FactTypes
    <3>3. official # NoFact => official.val \in Sites /\ official.src = "manual"
      BY <3>1
    <3> QED BY <2>2, <3>2, <3>3 DEF IsOfficial, OfficialTypes
  <2> QED BY <2>3, <2>4
<1>6. IntakeSessionsAreSound
  BY <1>4, Idles DEF IntakeSessionsAreSound, IntakeSessionIsSound
<1>7. StagedByASession /\ QualifiedLeadHasSite /\ AuditReadyWasCaptured /\ ScreenshotsFollowTheRun
  BY <1>3 DEF StagedByASession, QualifiedLeadHasSite, AuditReadyWasCaptured, ScreenshotsFollowTheRun,
              NoCapture
<1> QED BY <1>2, <1>5, <1>6, <1>7 DEF IntakeInv

(***************************************************************************)
(* Theorems                                                                *)
(***************************************************************************)
(* The inductive invariant of the intake: what sessions are about to write
   rests on facts that stay, whatever the other sessions write first. *)
THEOREM IntakeInvariant == IntakeSpec => [](IntakeTypeOK /\ IntakeInv)
<1>1. IntakeInit => IntakeTypeOK /\ IntakeInv
  BY InitSound
<1>2. IntakeTypeOK /\ IntakeInv /\ [IntakeNext]_intakeVars => (IntakeTypeOK /\ IntakeInv)'
  BY StepPreserves DEF Preserved
<1> QED BY <1>1, <1>2, PTL DEF IntakeSpec

(* A QUALIFIED lead has a site, one that is READY_FOR_AUDIT was captured on an
   official one, and recorded screenshots are stored unless something failed. *)
THEOREM IntakeIsSound == IntakeSpec => []IntakeSound
<1>1. IntakeTypeOK /\ IntakeInv => IntakeSound
  BY DEF IntakeInv, IntakeSound
<1> QED BY <1>1, IntakeInvariant, PTL

LEMMA ManualDomainSteps ==
  ASSUME IntakeTypeOK, IntakeInv, [IntakeNext]_intakeVars PROVE FactsGrow
<1>1. ASSUME NEW w \in Sessions,
             googleCommit(w) \/ backfillCommit(w) \/ enrichCommit(w) \/ captureCommit(w)
      PROVE  FactsGrow
  BY <1>1, WritesGrow DEF googleCommit, backfillCommit, enrichCommit, captureCommit
<1>2. ASSUME NEW w \in Sessions, NEW l \in Leads,
             \/ qualifyRead(w, l) \/ enrichBegin(w, l) \/ backfillRead(w, l)
             \/ auditList(w, l) \/ moveToCapture(w, l) \/ rejectLead(w, l) \/ reopenLead(w, l)
      PROVE  FactsGrow
  BY <1>2, SameFactsGrow DEF qualifyRead, enrichBegin, backfillRead, auditList, moveToCapture,
     rejectLead, reopenLead, leadState
<1>3. ASSUME NEW w \in Sessions,
             \/ qualifyCommit(w) \/ googleRead(w) \/ enrichRead(w) \/ movedToCapture(w)
             \/ auditCapture(w) \/ verificationCapture(w) \/ commitAll(w)
             \/ rejectStep(w) \/ reopened(w) \/ intakeCrash(w)
      PROVE  FactsGrow
  BY <1>3, SameFactsGrow DEF qualifyCommit, googleRead, enrichRead, movedToCapture, auditCapture,
     verificationCapture, commitAll, rejectStep, reopened, intakeCrash, leadState
<1>4. CASE (\E l \in Leads : suppress(l)) \/ UNCHANGED intakeVars
  BY <1>4, SameFactsGrow DEF suppress, intakeVars
<1> QED BY <1>1, <1>2, <1>3, <1>4 DEF IntakeNext

(* No step replaces a manual official domain: what is pending against a lead
   was computed while its domain was not manual, and none becomes so later. *)
THEOREM ManualDomainStays == IntakeSpec => ManualDomainKept
<1>1. IntakeTypeOK /\ IntakeInv /\ [IntakeNext]_intakeVars =>
        [\A l \in Leads : fact[l]["official_domain"].src = "manual"
                            => fact'[l]["official_domain"] = fact[l]["official_domain"]]_intakeVars
  BY ManualDomainSteps DEF FactsGrow
<1> QED BY <1>1, IntakeInvariant, PTL DEF IntakeSpec, ManualDomainKept

=============================================================================
