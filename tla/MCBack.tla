------------------------------- MODULE MCBack -------------------------------
(***************************************************************************)
(* The parts that share no state with each other: a behaviour exercises    *)
(* the one that "part" names.                                              *)
(***************************************************************************)
EXTENDS DemoPage, RenderStore, ReviewLoop, CompetitorSelection, CompetitorEvidence, EnrichedEmail,
        ContactResolve, DecisionMakers, TLC

CONSTANTS c1, c2    \* competitors

VARIABLE part

backVars == <<part, pageVars, storeVars, loopVars, selectionVars, evidenceVars, enrichedVars, contactVars,
              crawlVars, discoveryVars>>

Parts == {"page", "store", "loop", "revise", "selection", "evidence", "enriched", "contact",
          "crawl", "discovery"}

(* The parts that do not run rest in one of their initial states. *)
BackInit ==
  /\ part \in Parts
  /\ StoreInit /\ EvidenceInit
  /\ LoopInit
  /\ part # "loop" => limits = [maxReviewCalls |-> 3, maxRevisions |-> 2]
  /\ part # "revise" => sections[1].variant = CHOOSE v \in Variants : TRUE
  /\ IF part = "page" THEN PageInit
     ELSE /\ source = "fixture" /\ evidence = [i \in Ids |-> "absent"]
          /\ making = "start" /\ work = NoWork /\ shown = NoShown
  /\ IF part = "selection" THEN SelectionInit ELSE rows = <<>> /\ chosen = NotChosen
  /\ IF part = "enriched" THEN EnrichedInit ELSE brief = EmptyBrief /\ composed = NotComposed
  /\ IF part = "contact" THEN ContactInit
     ELSE /\ prospect = [p \in TheProspects |-> [status |-> "workable", email |-> NoFact]] /\ lookups = <<>>
          /\ recipient = [p \in TheProspects |-> Unresolved]
          /\ search = [o \in Operators |-> NoSearch] /\ commands = 0
  /\ IF part = "crawl" THEN CrawlInit ELSE website = Sites[1][1] /\ gathered = NothingGathered
  /\ DiscoveryInit

BackNext ==
  /\ IF part = "page" THEN PageNext ELSE UNCHANGED pageVars
  /\ IF part = "store" THEN StoreNext ELSE UNCHANGED storeVars
  /\ IF part = "loop" THEN LoopNext ELSE IF part = "revise" THEN executeRevision ELSE UNCHANGED loopVars
  /\ IF part = "selection" THEN selectCompetitors ELSE UNCHANGED selectionVars
  /\ IF part = "evidence" THEN EvidenceNext ELSE UNCHANGED evidenceVars
  /\ IF part = "enriched" THEN EnrichedNext ELSE UNCHANGED enrichedVars
  /\ IF part = "contact" THEN ContactNext ELSE UNCHANGED contactVars
  /\ IF part = "crawl" THEN crawl ELSE UNCHANGED crawlVars
  /\ IF part = "discovery" THEN DiscoveryNext ELSE UNCHANGED discoveryVars
  /\ UNCHANGED part

BackSpec == BackInit /\ [][BackNext]_backVars

rec(k, v) == [key |-> k, value |-> v]
TheRecords == <<rec("fact.business_name", "A"), rec("fact.business_name", "B"),
                rec("fact.official_website_url", "en"), rec("fact.booking_url", "A"), rec("fact.booking_url", "no link"),
                rec("fact.phone", "A"), rec("capture.lang", "de"), rec("fact.country", "en"), rec("claim.team", "A")>>
img(f, t, n, c, s) == [from |-> f, to |-> t, content |-> n, category |-> c, suitable |-> s]
TheImages == {img("FIRST_PARTY", "FIRST_PARTY", 1, "CLINIC_INTERIOR", TRUE),
              img("APPROVED_FIRST_PARTY_CDN", "FIRST_PARTY", 1, "TEAM", TRUE),
              img("FIRST_PARTY", "THIRD_PARTY", 2, "HERO", TRUE)}

ThePlan == <<"team", "hero", "team">>

row(p, d, n, b, kin, c, o, km, t, m, l) ==
  [provider |-> p, domain |-> d, name |-> n, brand |-> b, kin |-> kin, listing |-> FALSE, malformed |-> FALSE,
   category |-> c, services |-> o > 0, overlap |-> o, km |-> km, type |-> t, market |-> m, language |-> l]
TheRows == {row(1, 1, 1, 0, "none", "EXACT", 2, 3, "same", "same", TRUE),
            row(2, 2, 2, 0, "none", "EXACT", 3, 4, "unknown", "unknown", FALSE),
            row(3, 3, 3, 7, "none", "RELATED", 4, 3, "same", "unknown", FALSE),
            row(4, 4, 4, 7, "none", "EXACT", 2, 8, "same", "same", TRUE),
            row(1, 5, 5, 0, "none", "EXACT", 4, 2, "same", "same", TRUE),
            row(6, 6, 6, 7, "none", "EXACT", 1, 4, "other", "same", FALSE),
            row(0, 8, 0, 8, "none", "EXACT", 1, 9, "same", "same", FALSE),
            row(9, 9, 9, 0, "self", "EXACT", 4, 1, "same", "same", TRUE)}

SelectedByInput == <<{c1, c2}, {}>>

pattern(i, c, r, conf, d) ==
  [id |-> i, category |-> c, result |-> r, confidence |-> conf, present |-> 2, denominator |-> d, worded |-> TRUE]
ThePatterns == {pattern(1, "PHONE_VISIBLE", "ALL_OBSERVED", "MEDIUM", 2),
                pattern(2, "WHATSAPP_OR_DIRECT_MESSAGE_VISIBLE", "MAJORITY_OBSERVED", "HIGH", 3),
                pattern(3, "BOOKING_CTA_VISIBLE", "ALL_OBSERVED", "HIGH", 2),
                pattern(4, "BOOKING_CTA_VISIBLE", "NO_PATTERN", "LOW", 3)}
TheFindings == {[id |-> 1, category |-> "CTA_CLARITY"], [id |-> 2, category |-> "CONTACT_FRICTION"],
                [id |-> 3, category |-> "TRUST"], [id |-> 4, category |-> "BOOKING_FRICTION"]}

answer(e, c, v) == [email |-> e, checked |-> c, verifier |-> v, name |-> e # "none", host |-> "own",
                    identity |-> "none", title |-> "match"]
TheAnswers == {answer("person", "valid", "none"), answer("person", "unknown", "deliverable"),
               answer("generic", "valid", "none"), answer("none", "unknown", "none")}
ask(p, m, f) == [provider |-> p, mode |-> m, force |-> f]
TheRequests == {ask("hunter", "DOMAIN_SEARCH_ONLY", FALSE), ask("instantly", "ENRICH", TRUE),
                ask("instantly", "PREVIEW", FALSE)}
TheConfigurations == {{}, {"instantly"}, {"instantly", "hunter"}}
OneProspect == <<1>>
OneFile == [people |-> 2]
TheEmailFacts == {[source |-> "manual", host |-> "own", mailbox |-> "front"],
                  [source |-> "website", host |-> "own", mailbox |-> "person"]}

noMatch == [TEAM |-> "none", ABOUT_OWNERSHIP |-> "none", CONTACT |-> "none"]
link(c, p, u) == [unusable |-> FALSE, transactional |-> FALSE, negative |-> FALSE, weakAnchor |-> FALSE,
                  weakPath |-> FALSE, anchor |-> [noMatch EXCEPT ![c] = "exact"], path |-> [noMatch EXCEPT ![c] = p],
                  url |-> u, fragment |-> FALSE]
TheLinks == {link("TEAM", "segment", "team"), link("TEAM", "none", "people"), link("ABOUT_OWNERSHIP", "segment", "about"),
             link("CONTACT", "none", "contact"), [link("TEAM", "none", Home) EXCEPT !.fragment = TRUE],
             [link("TEAM", "segment", "people") EXCEPT !.negative = TRUE],
             [link("TEAM", "none", "why") EXCEPT !.anchor = noMatch, !.weakAnchor = TRUE, !.weakPath = TRUE]}
text(ok, d, c, g, o) == [ok |-> ok, signals |-> [deciding |-> d, clinical |-> c, gdc |-> g, ownership |-> o], text |-> 1]
(* The redirects of a website: none, the home page's, or one between two pages. *)
addresses == {Home, "start", "team", "people", "about", "why", "contact"}
straight == [a \in addresses |-> a]
TheRedirects == {straight, [straight EXCEPT ![Home] = "start"], [straight EXCEPT !["team"] = "people"]}
thePages(h, t) ==
  [a \in addresses |->
     CASE a \in {Home, "start"} -> text(h, 1, 0, 0, 0)
       [] a = "team" -> (CASE t = "good" -> text(TRUE, 1, 1, 0, 0) [] t = "empty" -> text(TRUE, 0, 0, 0, 0)
                           [] t = "gone" -> text(FALSE, 1, 1, 0, 0))
       [] a = "people" -> text(TRUE, 0, 1, 1, 0)
       [] a = "about" -> text(TRUE, 0, 0, 0, IF t = "good" THEN 0 ELSE 1)
       [] OTHER -> text(TRUE, 0, 0, 0, 0)]
TheCrawled ==
  {[finalUrl |-> f, pages |-> thePages(h, t), section |-> text(s, 0, 2, 0, 0), links |-> ls] :
   f \in TheRedirects, h \in BOOLEAN, s \in BOOLEAN, t \in {"good", "empty", "gone"},
   ls \in UNION {[1..n -> TheLinks] : n \in 0..3}}

TwoPractices == <<1, 2>>
withTeam == [finalUrl |-> straight, section |-> text(FALSE, 0, 0, 0, 0), links |-> <<link("TEAM", "none", "team")>>,
             pages |-> [straight EXCEPT ![Home] = text(TRUE, 0, 0, 0, 0), !["team"] = text(TRUE, 1, 0, 0, 0)]]
TheSites == <<<<withTeam, [withTeam EXCEPT !.links = <<>>]>>, <<withTeam>>>>
person(n, t, cites, c, s) == [fullName |-> n, title |-> t, usable |-> TRUE, organization |-> FALSE, cites |-> cites,
                              confidence |-> c, snippet |-> s]
TheReplies ==
  {[kind |-> k, candidates |-> <<>>] : k \in {"throws", "refused", "malformed"}}
    \cup {[kind |-> "ok", candidates |->
            <<person("A", "hygienist", <<1>>, 2, "plain"), person("B", "practice manager", <<1>>, 2, "plain"),
              person("C", "director", <<0, 2>>, 1, "plain"), person("A", "owner", <<1>>, 1, "plain"),
              person("D", "director", <<2, 1>>, 2, "group")>>]}
order(l, r, a) == [lead |-> l, limit |-> 2, refresh |-> r, minConfidence |-> 1, affordable |-> a]
TheOrders == {order(0, FALSE, TRUE), order(0, FALSE, FALSE), order(1, TRUE, TRUE)}
TheContacts == {<<"open", "verified">>}
TheFiles == {<<<<>>, <<[fullName |-> "M", title |-> "practice manager", confidence |-> 1],
                       [fullName |-> "O", title |-> "director", confidence |-> 1]>>>>}

BackSymmetric == Permutations(Editors) \cup Permutations(Renders) \cup Permutations(Competitors)

=============================================================================
