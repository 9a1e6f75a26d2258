--------------------------- MODULE WebsiteEvidence ---------------------------
(***************************************************************************)
(* Which pages of a practice's own website are read for decision-makers:    *)
(* the classification and ranking of the links of the home page, and the    *)
(* fetches that at most MaxPages allow.                                     *)
(*                                                                          *)
(* Sources: domain/decision-makers/link-classification.ts,                  *)
(* evidence-extraction.ts and website-evidence.ts.                          *)
(*                                                                          *)
(* A link says what its wording and its path have in common with the lists  *)
(* of a category; a page says which signals its text carries.  A request    *)
(* follows redirects, so that the page that comes back may be another one   *)
(* than was asked for, and is recorded as that other one.                   *)
(***************************************************************************)
EXTENDS Naturals, FiniteSets, Sequences, SequencesExt

CONSTANTS
  MaxPages,    \* DISCOVER_DECISION_MAKERS_MAX_PAGES_PER_LEAD
  Crawled      \* the websites that are looked at

ASSUME CrawlAssumption == MaxPages \in Nat \ {0}

VARIABLES
  website,     \* the website of one practice
  gathered     \* what gatherWebsiteEvidence returns for it

crawlVars == <<website, gathered>>

Categories == <<"TEAM", "ABOUT_OWNERSHIP", "CONTACT">>
RoleOf == [TEAM |-> "team", ABOUT_OWNERSHIP |-> "about", CONTACT |-> "contact"]
Home == "home"              \* the address of the practice that is on file
Section == "home#section"   \* a section of the page it leads to
MIN_CANDIDATE_SCORE == 4
MAX_FETCH_ATTEMPTS_PER_CATEGORY == 2

Link == [unusable : BOOLEAN,         \* a menu control, not http(s), or off the site
         transactional : BOOLEAN, negative : BOOLEAN, weakAnchor : BOOLEAN, weakPath : BOOLEAN,
         anchor : [Range(Categories) -> {"exact", "contains", "none"}],
         path : [Range(Categories) -> {"segment", "token", "none"}],
         url : STRING, fragment : BOOLEAN]

(* How many names stand near a role that decides, near a clinical role, how many
   registration numbers and named ownership statements the text has. *)
Signals == [deciding : Nat, clinical : Nat, gdc : Nat, ownership : Nat]
Page == [ok : BOOLEAN, signals : Signals, text : Nat]

(* "finalUrl": where the redirects of an address end; "links": those of the home page. *)
Website == [finalUrl : [STRING -> STRING], pages : [STRING -> Page], section : Page, links : Seq(Link)]

(* What the crawl has in hand; the length of "asked" is fetchCount. *)
NothingGathered == [pages |-> <<>>, asked |-> <<>>, visited |-> {}]

(***************************************************************************)
(* link-classification.ts                                                  *)
(***************************************************************************)
anchorPoints == [exact |-> 10, contains |-> 6, none |-> 0]
pathPoints == [segment |-> 8, token |-> 5, none |-> 0]

scoreTeam(l) == anchorPoints[l.anchor["TEAM"]] + pathPoints[l.path["TEAM"]]
scoreContact(l) == anchorPoints[l.anchor["CONTACT"]] + pathPoints[l.path["CONTACT"]]
scoreAbout(l) ==
  LET strong == anchorPoints[l.anchor["ABOUT_OWNERSHIP"]] + pathPoints[l.path["ABOUT_OWNERSHIP"]] IN
  IF strong > 0 THEN strong ELSE (IF l.weakAnchor THEN 3 ELSE 0) + (IF l.weakPath THEN 3 ELSE 0)

(* Mutant: a negative word vetoes nothing. *)
linkScore_Unvetoed(l, c) ==
  CASE c = "TEAM" -> scoreTeam(l) [] c = "ABOUT_OWNERSHIP" -> scoreAbout(l) [] c = "CONTACT" -> scoreContact(l)

(* A negative word vetoes a team or about page, not a contact page. *)
linkScore(l, c) ==
  CASE c = "TEAM" -> IF l.negative THEN 0 ELSE scoreTeam(l)
    [] c = "ABOUT_OWNERSHIP" -> IF l.negative THEN 0 ELSE scoreAbout(l)
    [] c = "CONTACT" -> scoreContact(l)

(* The first of the categories with the most points, or none. *)
classifyLink(l) ==
  LET most == CHOOSE c \in 1..3 : \A d \in 1..3 :
                \/ linkScore(l, Categories[c]) > linkScore(l, Categories[d])
                \/ linkScore(l, Categories[c]) = linkScore(l, Categories[d]) /\ c <= d
  IN IF l.unusable \/ l.transactional \/ linkScore(l, Categories[most]) < MIN_CANDIDATE_SCORE
     THEN "IRRELEVANT" ELSE Categories[most]

(* A link to a section of the page that is already in hand, at "here". *)
sameDocument(l, here) == l.url = here /\ l.fragment

(* A stable sort by falling score. *)
byScore(links, c) ==
  LET before(i, j) == \/ linkScore(links[i], c) > linkScore(links[j], c)
                      \/ linkScore(links[i], c) = linkScore(links[j], c) /\ i < j
  IN [n \in DOMAIN links |-> links[SetToSortSeq(DOMAIN links, before)[n]]]

(* One entry per address, where its best link stood; the form that needs no fetch
   is preferred. *)
rankLinks(links, c, here) ==
  LET sorted == byScore(SelectSeq(links, LAMBDA l : classifyLink(l) = c), c)
      First == {n \in DOMAIN sorted : \A m \in 1..n - 1 : sorted[m].url # sorted[n].url}
      forms(n) == SelectSeq(sorted, LAMBDA l : l.url = sorted[n].url)
      inPage(n) == SelectSeq(forms(n), LAMBDA l : sameDocument(l, here))
      form(n) == IF inPage(n) # <<>> THEN inPage(n)[1] ELSE sorted[n]
      positions == SetToSortSeq(First, <)
  IN byScore([k \in 1..Cardinality(First) |-> form(positions[k])], c)

(***************************************************************************)
(* evidence-extraction.ts and website-evidence.ts                          *)
(***************************************************************************)
(* Mutant: any page behind a promising link is believed. *)
confirmsCategory_Link(signals, c) == TRUE

(* Does the text bear out what the link promised? *)
confirmsCategory(signals, c) ==
  CASE c = "TEAM" -> \/ signals.deciding >= 1 \/ signals.clinical >= 2 \/ signals.gdc >= 2
                     \/ signals.clinical >= 1 /\ signals.gdc >= 1
    [] c = "ABOUT_OWNERSHIP" -> signals.ownership >= 1 \/ signals.deciding >= 1
    [] c = "CONTACT" -> TRUE

(* Mutant: the budget counts the pages that were kept, not the requests. *)
budgetLeft_Kept(g) == Len(g.pages) < MaxPages

budgetLeft(g) == Len(g.asked) < MaxPages /\ Len(g.pages) < MaxPages

evidencePage(role, url, page) == [role |-> role, url |-> url, text |-> page.text]

(* Where the home page was found, which is the page the links are on. *)
homeNormalized(site) == site.finalUrl[Home]

trySameDocumentSection(site, ranked, c, g) ==
  /\ Len(g.pages) < MaxPages
  /\ \E l \in Range(ranked) : sameDocument(l, homeNormalized(site))
  /\ site.section.ok /\ confirmsCategory(site.section.signals, c)

(* One candidate of a category: [g, attempts, found].  What comes back is kept
   under the address where it was found, which nobody looks at again. *)
tryFetch(site, c, try, l) ==
  LET at == site.finalUrl[l.url]
      page == site.pages[at]
      g == [try.g EXCEPT !.asked = Append(@, l.url), !.visited = @ \cup {l.url}]
  IN IF \/ try.found \/ try.attempts >= MAX_FETCH_ATTEMPTS_PER_CATEGORY \/ ~ budgetLeft(try.g)
        \/ sameDocument(l, homeNormalized(site)) \/ l.url \in try.g.visited
     THEN try
     ELSE IF page.ok /\ confirmsCategory(page.signals, c)
     THEN [g |-> [g EXCEPT !.pages = Append(@, evidencePage(RoleOf[c], at, page))],
           attempts |-> try.attempts + 1, found |-> TRUE]
     ELSE [g |-> g, attempts |-> try.attempts + 1, found |-> FALSE]

tryFetchCategory(site, ranked, c, g) ==
  FoldLeft(LAMBDA try, l : tryFetch(site, c, try, l), [g |-> g, attempts |-> 0, found |-> FALSE], ranked)

(* One category after those before it: [g, found]. A contact page is looked for
   for want of both others, and not within the home page. *)
tryCategory(site, ranked, c, so) ==
  IF c = "CONTACT" /\ so.found THEN so
  ELSE IF c # "CONTACT" /\ trySameDocumentSection(site, ranked, c, so.g)
  THEN [g |-> [so.g EXCEPT !.pages = Append(@, evidencePage(RoleOf[c], Section, site.section))], found |-> TRUE]
  ELSE LET try == tryFetchCategory(site, ranked, c, so.g) IN [g |-> try.g, found |-> so.found \/ try.found]

gatherWebsiteEvidence(site) ==
  LET here == homeNormalized(site)
      home == [pages |-> <<evidencePage("home", here, site.pages[here])>>, asked |-> <<Home>>, visited |-> {here}]
      next(so, c) == tryCategory(site, rankLinks(site.links, c, here), c, so)
  IN IF ~ site.pages[here].ok THEN [NothingGathered EXCEPT !.asked = <<Home>>]
     ELSE FoldLeft(next, [g |-> home, found |-> FALSE], Categories).g

(***************************************************************************)
(* A crawl of any of the websites                                          *)
(***************************************************************************)
CrawlInit == website \in Crawled /\ gathered = NothingGathered

crawl ==
  /\ gathered = NothingGathered
  /\ gathered' = gatherWebsiteEvidence(website)
  /\ UNCHANGED website

CrawlSpec == CrawlInit /\ [][crawl]_crawlVars

(***************************************************************************)
(* Properties                                                              *)
(***************************************************************************)
CrawlTypeOK ==
  gathered \in [pages : Seq([role : {"home", "team", "about", "contact"}, url : STRING, text : Nat]),
                asked : Seq(STRING), visited : SUBSET STRING]

(* No crawl makes more requests than the bound or keeps more pages: in-page
   sections cost nothing, a page that is rejected or cannot be had costs a
   request.  No link is followed twice; the address on file is asked for again
   only if it led elsewhere and a link of that page leads back to it. *)
RequestsWithinBound ==
  /\ Len(gathered.asked) <= MaxPages /\ Len(gathered.pages) <= MaxPages
  /\ \A i, j \in DOMAIN gathered.asked :
       i < j /\ gathered.asked[i] = gathered.asked[j] => i = 1 /\ homeNormalized(website) # Home

(* A page is evidence in the role its text bears out, at most one per role, and a
   contact page only where neither a team nor an about page was found. *)
EvidenceIsConfirmed ==
  LET of(p) == IF p.url = Section THEN website.section ELSE website.pages[p.url]
      count(s) == s.deciding + s.clinical + s.gdc + s.ownership
  IN /\ \A i, j \in DOMAIN gathered.pages : gathered.pages[i].role = gathered.pages[j].role => i = j
     /\ \A p \in Range(gathered.pages) : /\ p.role \in {"team", "about"} => count(of(p).signals) > 0
                                         /\ p.role = "contact" => Len(gathered.pages) = 2

(* A team or about page is where a link of the home page led, and that link was
   no careers or sales link, whatever it scored.  The veto is of links: a link
   that passes may be redirected to an address another link of which was vetoed,
   or to a page that is in hand already. *)
VetoedPagesStayOut ==
  \A i \in DOMAIN gathered.pages :
    LET p == gathered.pages[i] IN
    p.role \in {"team", "about"} /\ p.url # Section =>
      \E l \in Range(website.links) :
        /\ l.url \in Range(Tail(gathered.asked)) /\ website.finalUrl[l.url] = p.url
        /\ ~ l.negative /\ ~ l.transactional /\ ~ l.unusable

(* Without redirects no page is read twice, in whatever roles. *)
EveryPageOnce ==
  (\A l \in Range(website.links) : website.finalUrl[l.url] = l.url) =>
    \A i, j \in DOMAIN gathered.pages :
      gathered.pages[i].url = gathered.pages[j].url /\ gathered.pages[i].url # Section => i = j

GatherSound == CrawlTypeOK /\ RequestsWithinBound /\ EvidenceIsConfirmed /\ VetoedPagesStayOut /\ EveryPageOnce

=============================================================================
