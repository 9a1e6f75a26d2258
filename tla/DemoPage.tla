------------------------------ MODULE DemoPage ------------------------------
(***************************************************************************)
(* The second demo engine: from the evidence about a clinic to a rendered  *)
(* page.  Intelligence, content and FAQ, the English version, the images   *)
(* of the clinic's own site, the plan, the foundation written to the       *)
(* database, the page.                                                     *)
(*                                                                         *)
(* Sources: src/domain/demo-v2, demo-v2-orchestration.repo.ts and the      *)
(* command demo-v2-render-evidence.                                        *)
(*                                                                         *)
(* A record of the evidence is a key and a value; wording is left out, so  *)
(* an item of content is its key and the records it cites.  Labels cite    *)
(* nothing and are left out; of the facts that identify a clinic there are *)
(* its name and its website.  The links of a page (booking, phone, e-mail, *)
(* location) and the name in its bar are no content and cite nothing: they *)
(* are modelled by the record they are taken from.                         *)
(***************************************************************************)
EXTENDS Naturals, Sequences, FiniteSets, FiniteSetsExt

CONSTANTS
  Records,        \* the evidence there may be, in the order of the ids: [key, value]
  Images,         \* what the captured pages may refer to
  MaxUnusable,    \* bound: records that are there and cannot be used
  MaxImages       \* bound: images referred to

Ids == DOMAIN Records
Standings == {"absent", "usable", "stale", "blank", "rejected"}
Languages == {"de", "en"}
Owners == {"FIRST_PARTY", "APPROVED_FIRST_PARTY_CDN", "THIRD_PARTY"}
(* from: who serves the URL; to: who serves the end of its redirects. *)
Image == [from : Owners, to : Owners, content : Nat, category : STRING, suitable : BOOLEAN]

ASSUME PageAssumption ==
  /\ \A i \in Ids : Records[i] \in [key : STRING, value : STRING]
  /\ Images \subseteq Image /\ {MaxUnusable, MaxImages} \subseteq Nat

VARIABLES
  evidence,    \* the standing of every record
  source,      \* "fixture", or "export": an evidence file
  making,      \* the step of the orchestration
  work,        \* what it has made so far
  shown        \* the rendered page

pageVars == <<evidence, source, making, work, shown>>

Item == [key : STRING, cites : SUBSET Ids]
Work == [sources : SUBSET Ids, usable : SUBSET Ids, language : Languages \cup {"none"}, items : SUBSET Item,
         english : BOOLEAN, linked : SUBSET Ids, channels : SUBSET Ids, name : SUBSET Ids]
NoWork == [sources |-> {}, usable |-> {}, language |-> "none", items |-> {}, english |-> FALSE, linked |-> {},
           channels |-> {}, name |-> {}, assets |-> <<>>, selections |-> <<>>, family |-> "none"]
NoShown == [items |-> {}, images |-> <<>>, languages |-> {}, name |-> {},
            links |-> [appointment |-> {}, contact |-> {}, location |-> {}]]
Steps == {"start", "intelligence", "content", "translation", "assets", "selections", "persist", "render",
          "rendered", "refused"}

PageTypeOK ==
  /\ evidence \in [Ids -> Standings]
  /\ source \in {"fixture", "export"}
  /\ making \in Steps
  /\ work.sources \subseteq Ids /\ work.usable \subseteq work.sources /\ work.items \subseteq Item
  /\ work.channels \subseteq work.sources
  /\ shown.languages \subseteq Languages

PageInit ==
  /\ evidence \in {e \in [Ids -> Standings] : Cardinality({i \in Ids : e[i] \notin {"absent", "usable"}}) <= MaxUnusable}
  /\ source \in {"fixture", "export"}
  /\ making = "start"
  /\ work = NoWork
  /\ shown = NoShown

Step(next) == making' = next /\ UNCHANGED <<evidence, source, shown>>
refuse == Step("refused") /\ UNCHANGED work

having(set, key) == {i \in set : Records[i].key = key}
websites(set) == having(set, "fact.official_website_url") \cup having(set, "fact.official_domain")
smallest(set) == IF set = {} THEN {} ELSE {Min(set)}

(***************************************************************************)
(* Evidence and intelligence                                               *)
(***************************************************************************)
ContactKeys == {"fact.booking_url", "fact.phone", "fact.contact_email", "fact.official_location_page_url"}
ExportedKeys ==
  {"fact.business_name", "fact.official_website_url", "fact.official_domain", "fact.country", "capture.lang"} \cup ContactKeys

(* An export gives the first current value of every fact type, and no claims;
   of the captured languages it takes the first, superseded or not. *)
exported ==
  LET there(i) == IF Records[i].key = "capture.lang" THEN evidence[i] \notin {"absent", "blank"}
                  ELSE evidence[i] \in {"usable", "stale"}
      found == {i \in Ids : Records[i].key \in ExportedKeys /\ there(i)}
  IN {i \in found : having(found, Records[i].key) \subseteq {j \in Ids : j >= i}}

(* Mutant: a link from any record of its kind, in force or not. *)
channelsOf_Any(sources) == {i \in Ids : evidence[i] # "absent" /\ Records[i].key \in ContactKeys}

(* The contacts go to the page as they are, however old. *)
channelsOf(sources) == {i \in sources : Records[i].key \in ContactKeys}

buildEvidenceRenderInput ==
  /\ making = "start" /\ source = "export"
  /\ IF having(exported, "fact.business_name") = {} \/ websites(exported) = {}
     THEN refuse
     ELSE /\ work' = [work EXCEPT !.sources = exported, !.channels = channelsOf(exported),
                                  !.name = having(exported, "fact.business_name")]
          /\ Step("intelligence")

(* A fixture writes the name and the links of its page itself, beside its records. *)
orchestrateDemoV2Fixture ==
  /\ making = "start" /\ source = "fixture"
  /\ work' = [work EXCEPT !.sources = {i \in Ids : evidence[i] # "absent"}]
  /\ Step("intelligence")

(* An export's language is as of the export, whenever it was captured. *)
stampedNow(i) == source = "export" /\ Records[i].key = "capture.lang"

(* Mutant: old records count. *)
usableSources_Stale(sources) == {i \in sources : evidence[i] \in {"usable", "stale"}}

(* Mutant: every record the capture has, not only the exported ones. *)
usableSources_All(sources) == {i \in Ids : evidence[i] = "usable"}

usableSources(sources) == {i \in sources : evidence[i] = "usable" \/ stampedNow(i)}

(* What a record says about the clinic's language, and how much that weighs. *)
signalWeight(i) ==
  CASE Records[i].key = "capture.lang" -> 5
    [] Records[i].key = "capture.text" -> 3
    [] Records[i].key = "fact.country" -> 2
    [] Records[i].key \in {"fact.official_website_url", "fact.official_domain"} -> 1
    [] OTHER -> 0
languageScore(usable, language) ==
  MapThenSumSet(signalWeight, {i \in usable : signalWeight(i) > 0 /\ Records[i].value = language})

(* detectLanguages: the strongest language; English without any signal. *)
primaryLanguage(usable) ==
  IF languageScore(usable, "de") = 0 \/ languageScore(usable, "en") > languageScore(usable, "de") THEN "en" ELSE "de"
manualReviewRequired(usable) ==
  LET de == languageScore(usable, "de")
      en == languageScore(usable, "en")
  IN de > 0 /\ en > 0 /\ de < en + 2 /\ en < de + 2
signalSources(usable) == {i \in usable : signalWeight(i) > 0}
supportedLanguages(usable) == {primaryLanguage(usable)} \cup {l \in Languages : languageScore(usable, l) >= 3}

CriticalKeys == {"fact.business_name", "fact.official_domain", "fact.official_website_url", "fact.opening_hours"}
contradicted(usable, key) == Cardinality({Records[i].value : i \in having(usable, key)}) > 1

buildClinicIntelligence ==
  LET usable == usableSources(work.sources)
      blocked == \/ \E key \in CriticalKeys : contradicted(usable, key)
                 \/ manualReviewRequired(usable)
                 \/ having(usable, "fact.business_name") = {}
                 \/ websites(usable) = {}
  IN
  /\ making = "intelligence"
  /\ IF blocked THEN refuse
     ELSE work' = [work EXCEPT !.usable = usable, !.language = primaryLanguage(usable)] /\ Step("content")

(***************************************************************************)
(* Content, FAQ and the English version                                    *)
(***************************************************************************)
(* A topic is answered when a record supports it, and cites all that do. *)
buildFaqPackage(usable) ==
  LET topics == [booking |-> having(usable, "fact.booking_url"),
                 anxious_patient |-> having(usable, "claim.concern.anxiety"),
                 supported_languages |-> IF Cardinality(supportedLanguages(usable)) > 1 THEN signalSources(usable)
                                         ELSE {}]
  IN {[key |-> t, cites |-> topics[t]] : t \in {x \in DOMAIN topics : topics[x] # {}}}

(* The heading and the appointment cite one record, a member of the team its own. *)
buildPrimaryContent ==
  LET usable == work.usable
      one(key, set) == IF set = {} THEN {} ELSE {[key |-> key, cites |-> smallest(set)]}
  IN
  /\ making = "content"
  /\ work' = [work EXCEPT !.items =
       one("hero.heading", having(usable, "fact.business_name"))
         \cup one("appointment.verified_method", having(usable, "fact.booking_url"))
         \cup {[key |-> "team", cites |-> {i}] : i \in having(usable, "claim.team")}
         \cup buildFaqPackage(usable)]
  /\ Step(IF work.language = "en" THEN "assets" ELSE "translation")

(* A translation that leaves an item out, or changes a link, stops the run. *)
prepareEnglishTranslation ==
  /\ making = "translation"
  /\ \/ work' = [work EXCEPT !.english = TRUE] /\ Step("assets")
     \/ refuse

(***************************************************************************)
(* Images                                                                  *)
(***************************************************************************)
(* Mutant: only the URL on the page is looked at. *)
ownedThroughout_First(image) == image.from # "THIRD_PARTY"

(* The URL and every hop of its redirects. *)
ownedThroughout(image) == image.from # "THIRD_PARTY" /\ image.to # "THIRD_PARTY"

(* One image of each content, in the order in which they are met. *)
discovered(seen) ==
  LET upTo[n \in 0..Len(seen)] ==
        IF n = 0 THEN <<>>
        ELSE IF ownedThroughout(seen[n]) /\ \A k \in DOMAIN upTo[n - 1] : upTo[n - 1][k].content # seen[n].content
        THEN Append(upTo[n - 1], seen[n]) ELSE upTo[n - 1]
  IN upTo[Len(seen)]

(* An export comes with a pool of its own images, on a host that counts as the clinic's. *)
discoverFirstPartyAssets ==
  /\ making = "assets"
  /\ \E seen \in UNION {[1..n -> Images] : n \in 0..MaxImages} :
       /\ source = "export" => \A k \in DOMAIN seen : seen[k].from = "FIRST_PARTY" /\ seen[k].to = "FIRST_PARTY"
       /\ work' = [work EXCEPT !.assets = discovered(seen)]
  /\ Step("selections")

suitableCategories(assets) == {assets[k].category : k \in {x \in DOMAIN assets : assets[x].suitable}}

Families == {"warm-family-dental", "luxury-cosmetic-dental", "advanced-specialist-clinic",
             "premium-dental-editorial", "modern-medical-minimal"}

(* The families the images allow; all but the last also depend on a word in
   the clinic's texts, which may or may not be there. *)
selectReferenceFamily(assets) ==
  LET suitable == suitableCategories(assets) IN
  {f \in Families :
     CASE f = "luxury-cosmetic-dental" -> "CLINIC_INTERIOR" \in suitable
       [] f = "advanced-specialist-clinic" -> {"DOCTOR", "EQUIPMENT"} \cap suitable # {}
       [] f = "modern-medical-minimal" -> "CLINIC_INTERIOR" \notin suitable
       [] OTHER -> TRUE}

referencePriority(family) ==
  CASE family = "premium-dental-editorial" -> <<"CLINIC_INTERIOR", "HERO", "EXTERIOR", "DOCTOR", "TEAM", "TREATMENT">>
    [] family = "warm-family-dental" -> <<"TEAM", "CLINIC_INTERIOR", "HERO", "DOCTOR", "EXTERIOR", "TREATMENT">>
    [] family = "advanced-specialist-clinic" ->
         <<"DOCTOR", "EQUIPMENT", "CLINIC_INTERIOR", "TEAM", "TREATMENT", "EXTERIOR">>
    [] family = "modern-medical-minimal" ->
         <<"CLINIC_INTERIOR", "EXTERIOR", "DOCTOR", "TEAM", "EQUIPMENT", "TREATMENT">>
    [] family = "luxury-cosmetic-dental" ->
         <<"CLINIC_INTERIOR", "HERO", "EXTERIOR", "TREATMENT", "DOCTOR", "LOCATION", "TEAM">>

MaxSelections == 5

(* The first suitable image of each category, by the family's priority. *)
proposed(assets, family) ==
  LET fit(category) == {k \in DOMAIN assets : assets[k].suitable /\ assets[k].category = category}
      priority == SelectSeq(referencePriority(family), LAMBDA c : fit(c) # {})
      chosen == [k \in DOMAIN priority |-> assets[Min(fit(priority[k]))]]
  IN SubSeq(chosen, 1, Min({Len(chosen), MaxSelections}))

proposeAssetSelections ==
  /\ making = "selections"
  /\ \E family \in selectReferenceFamily(work.assets) :
       work' = [work EXCEPT !.family = family, !.selections = proposed(work.assets, family)]
  /\ Step("persist")

(***************************************************************************)
(* The foundation and the page                                             *)
(***************************************************************************)
(* Mutant: claims get no row. *)
linkedSources_FactsOnly(sources) ==
  {i \in sources : evidence[i] \in {"usable", "blank"} /\ Records[i].key # "claim.team"}

(* The rows of demo_v2_clinic_intelligence_sources. *)
linkedSources(sources) == {i \in sources : evidence[i] \in {"usable", "blank"}}

(* The transaction fails when an item cites a record that has no row; only
   demo-v2-persist writes. *)
persistFoundation ==
  /\ making = "persist"
  /\ \/ /\ source = "fixture"
        /\ work' = [work EXCEPT !.linked = linkedSources(work.sources)]
     \/ UNCHANGED work
  /\ Step("render")

(* The places for images, in the order of the page: the categories each takes
   and how many. *)
COMPONENT_SPECS(mode) ==
  LET people == Cardinality({i \in work.items : i.key = "team"}) IN
  << [takes |-> <<"HERO", "CLINIC_INTERIOR", "EXTERIOR">>, most |-> 1],
     [takes |-> IF mode = "group-photo" THEN <<"TEAM">> ELSE <<"DOCTOR">>,
      most |-> IF mode = "text-only" \/ people = 0 THEN 0 ELSE 1],
     [takes |-> <<"CLINIC_INTERIOR", "EXTERIOR", "HERO", "LOCATION">>, most |-> 3] >>

takeAssets(spec, selections, used) ==
  LET free(category) == SelectSeq(selections, LAMBDA a : a.category = category /\ a \notin used)
      upTo[n \in 0..Len(spec.takes)] == IF n = 0 THEN <<>> ELSE upTo[n - 1] \o free(spec.takes[n])
      all == upTo[Len(spec.takes)]
  IN SubSeq(all, 1, Min({Len(all), spec.most}))

placed(selections, mode) ==
  LET specs == COMPONENT_SPECS(mode)
      upTo[n \in 0..Len(specs)] ==
        IF n = 0 THEN <<>>
        ELSE upTo[n - 1] \o takeAssets(specs[n], selections, {upTo[n - 1][k] : k \in DOMAIN upTo[n - 1]})
  IN upTo[Len(specs)]

renderedLanguages(reviewed) == {work.language} \cup (IF work.english /\ reviewed THEN {"en"} ELSE {})

(* What sanitizeUrl, telHref and mailtoHref make a link of. *)
linkable(i) == Records[i].value # "no link"

(* The links of the page, each with its second choice. *)
linksOf(channels) ==
  LET of(key) == {i \in having(channels, key) : linkable(i)}
      orElse(first, second) == IF first = {} THEN second ELSE first
  IN [appointment |-> orElse(of("fact.booking_url"), of("fact.phone")),
      contact |-> orElse(of("fact.phone"), of("fact.contact_email")),
      location |-> of("fact.official_location_page_url")]

(* Nobody has reviewed the English of an export, and it shows no people. *)
renderDemoV2 ==
  /\ making = "render"
  /\ \E reviewed \in BOOLEAN, mode \in {"doctor-portrait", "group-photo", "text-only"} :
       /\ source = "export" => ~ reviewed /\ mode = "text-only"
       /\ shown' = [items |-> work.items, images |-> placed(work.selections, mode),
                    languages |-> renderedLanguages(reviewed), name |-> work.name, links |-> linksOf(work.channels)]
  /\ making' = "rendered"
  /\ UNCHANGED <<evidence, source, work>>

PageNext ==
  \/ buildEvidenceRenderInput \/ orchestrateDemoV2Fixture \/ buildClinicIntelligence \/ buildPrimaryContent
  \/ prepareEnglishTranslation \/ discoverFirstPartyAssets \/ proposeAssetSelections \/ persistFoundation
  \/ renderDemoV2

PageSpec == PageInit /\ [][PageNext]_pageVars

(***************************************************************************)
(* Properties                                                              *)
(***************************************************************************)
(* The content of a rendered page is cited, by records that are accepted,
   current and not blank (the language of an export apart), and nothing on
   which the page rests is contradicted among them.  The name in its bar is the
   name its heading cites. *)
ShownIsCurrentEvidence ==
  making = "rendered" =>
    /\ \A i \in shown.items : i.cites # {} /\ \A r \in i.cites : evidence[r] = "usable" \/ stampedNow(r)
    /\ \A key \in CriticalKeys :
         Cardinality({Records[r].value : r \in {x \in work.sources : evidence[x] = "usable" /\ Records[x].key = key}}) <= 1
    /\ source = "export" => \E i \in shown.items : i.key = "hero.heading" /\ i.cites = shown.name

(* The links are not held to this: one may rest on an old record that no
   content may cite.  But it leads where a record in force says, the only one of
   its kind in the export; and a page that names a booking address with a usable
   link leads there from its appointment button. *)
LinksLeadToTheRecords ==
  making = "rendered" =>
    /\ \A l \in DOMAIN shown.links : Cardinality(shown.links[l]) <= 1 /\ \A r \in shown.links[l] :
         evidence[r] \in {"usable", "stale"} /\ \A s \in Ids : s < r /\ Records[s].key = Records[r].key =>
                                                         evidence[s] \notin {"usable", "stale"}
    /\ \A i \in shown.items :
         source = "export" /\ i.key = "appointment.verified_method" /\ (\A r \in i.cites : linkable(r))
           => shown.links.appointment = i.cites

(* The foundation's transaction never meets an item whose record got no row. *)
EveryCitationHasARow == work.linked # {} => \A i \in work.items : i.cites \subseteq work.linked

(* The images on a page are the clinic's at both ends of their redirects, fit
   to be shown, and none is shown twice. *)
ImagesAreTheClinicsOwn ==
  /\ \A k \in DOMAIN shown.images :
       /\ shown.images[k].suitable /\ {shown.images[k].from, shown.images[k].to} \cap {"THIRD_PARTY"} = {}
  /\ \A k, m \in DOMAIN shown.images : shown.images[k].content = shown.images[m].content => k = m

(* What a rendered page may rest on: current evidence for what it says, records
   in force for its links, rows that exist, and the clinic's own images. *)
PageSound ==
  PageTypeOK /\ ShownIsCurrentEvidence /\ LinksLeadToTheRecords /\ EveryCitationHasARow /\ ImagesAreTheClinicsOwn

=============================================================================
