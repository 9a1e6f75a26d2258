------------------------------ MODULE Collection ------------------------------
(***************************************************************************)
(* collect-leads: pages of a provider's search become leads, one business  *)
(* one lead.                                                               *)
(*                                                                         *)
(* Sources: src/pipeline/collect-leads.ts, src/domain/leads (dedup,        *)
(* normalize, lead-factory) and the source repositories.                   *)
(*                                                                         *)
(* Every candidate is handled in one transaction, which reads what is      *)
(* known and then inserts.  Nothing but the index on the place id keeps    *)
(* the transactions of two overlapping runs apart.                         *)
(*                                                                         *)
(* A text is the word it comes down to and the dress it comes in (case,    *)
(* spacing, punctuation, scheme, www, path).  Nothing is left, 0, of a     *)
(* text that is absent, blank, or bare: no more than a scheme, punctuation *)
(* or a telephone number without digits.  A number that is a single zero   *)
(* is left out.                                                            *)
(***************************************************************************)
EXTENDS Integers, Sequences, FiniteSets, FiniteSetsExt

CONSTANTS
  Collectors,
  Candidates,    \* sequence of what the provider has: [place, idOnly, facts]
  SearchPages,   \* the pages a search may return, each a sequence of candidates
  NearMeters,    \* DEDUP_NEAR_ADDRESS_METERS
  DedupLimit,    \* rows findDedupCandidates reads
  MaxLeads,      \* caps.maxLeads of a run
  MaxPages,      \* caps.maxPages of a run
  MaxCollects    \* bound: runs begun

VARIABLES
  gathered,     \* leads, in the order they were committed; seen: how many the transaction could see
  entities,     \* source_entities: place and lead
  requests,     \* source_requests: run and status
  sightings,    \* source_observations: place, request and result
  collecting,   \* local state of the runs
  collects      \* runs begun so far

collectVars == <<gathered, entities, requests, sightings, collecting, collects>>

Dress == {"none", "blank", "bare", "plain", "dressed"}
Text == {t \in [word : Nat, dress : Dress] : (t.word = 0) <=> (t.dress \in {"none", "blank", "bare"})}
Phone == {t \in [word : Nat, dress : Dress, intl : BOOLEAN, code : Nat, trunk : BOOLEAN] :
            (t.word = 0) <=> (t.dress \in {"none", "blank", "bare"})}
LeadFactsInput == [businessName : Text, domain : Text, phone : Phone, formattedAddress : Text, spot : Int, city : Text]
RawCandidate == [place : Nat, idOnly : BOOLEAN, facts : LeadFactsInput]

ASSUME CollectAssumption ==
  /\ \A i \in DOMAIN Candidates : Candidates[i] \in RawCandidate
  /\ DedupLimit \in Nat \ {0} /\ MaxLeads \in Nat /\ NearMeters \in Nat

(***************************************************************************)
(* Normalisation                                                           *)
(***************************************************************************)
normalizeName(name) == name.word
normalizeDomain(domain) == domain.word
normalizeAddress(address) == address.word
normalizeCity(city) == normalizeName(city)

COUNTRY_CODES == {44, 972, 353, 1}

(* Mutant: the country code stays on. *)
normalizePhone_Kept(phone) ==
  IF phone.word = 0 THEN <<>> ELSE IF phone.intl THEN <<phone.code, phone.word>> ELSE <<phone.word>>

(* The national number: a known country code goes, and in national form one
   leading zero; a zero kept behind the country code stays. *)
normalizePhone(phone) ==
  IF phone.word = 0 THEN <<>>
  ELSE IF ~ phone.intl THEN <<phone.word>>
  ELSE IF phone.code \notin COUNTRY_CODES THEN <<phone.code, phone.word>>
  ELSE IF phone.trunk THEN <<0, phone.word>> ELSE <<phone.word>>

(* Mutant: whatever has a place passes. *)
hasIdentity_Any(facts) == TRUE

(* The text is trimmed, not normalised: one that is bare will do. *)
hasIdentity(facts) == \E t \in {facts.businessName.dress, facts.domain.dress, facts.phone.dress} : t \notin {"none", "blank"}

factsToDedupInput(facts) ==
  [name |-> normalizeName(facts.businessName), domain |-> normalizeDomain(facts.domain), phone |-> normalizePhone(facts.phone),
   address |-> normalizeAddress(facts.formattedAddress), spot |-> facts.spot, city |-> normalizeCity(facts.city)]

noKeys == [name |-> 0, domain |-> 0, phone |-> <<>>, address |-> 0, spot |-> 0, city |-> 0]

(***************************************************************************)
(* Which lead a record belongs to                                          *)
(***************************************************************************)
sameDomain(a, b) == a.domain # 0 /\ a.domain = b.domain
samePhone(a, b) == a.phone # <<>> /\ a.phone = b.phone
sameName(a, b) == a.name # 0 /\ a.name = b.name
sameCity(a, b) == a.city # 0 /\ a.city = b.city

distance(a, b) == IF a > b THEN a - b ELSE b - a

(* Mutant: the coordinates are asked only when an address is missing. *)
nearAddress_Text(a, b) ==
  IF a.address # 0 /\ b.address # 0 THEN a.address = b.address
  ELSE a.spot # 0 /\ b.spot # 0 /\ distance(a.spot, b.spot) <= NearMeters

nearAddress(a, b) ==
  \/ a.address # 0 /\ a.address = b.address
  \/ a.spot # 0 /\ b.spot # 0 /\ distance(a.spot, b.spot) <= NearMeters

(* The leads one read may return: no order is asked for, and a limit is set. *)
findDedupCandidates(keys) ==
  LET known == {n \in DOMAIN gathered :
                  /\ gathered[n].dedupStatus = "UNIQUE"
                  /\ \/ sameDomain(keys, gathered[n].keys) \/ samePhone(keys, gathered[n].keys) \/ sameName(keys, gathered[n].keys)}
  IN  kSubset(IF Cardinality(known) > DedupLimit THEN DedupLimit ELSE Cardinality(known), known)

decision(result, lead, tier) == [result |-> result, lead |-> lead, tier |-> tier]

(* Mutant: the name alone makes a duplicate, wherever the two are. *)
decideMatch_Name(keys, known) ==
  LET k(n) == gathered[n].keys
      twins == {n \in known : sameName(keys, k(n))}
  IN  IF twins # {} THEN {decision("DUPLICATE", n, "NAME_ADDRESS") : n \in twins} ELSE {decision("CREATED", 0, "NONE")}

(* The decisions the rule may come to, the strongest kind of match first. *)
decideMatch(keys, known) ==
  LET k(n) == gathered[n].keys
      near == {n \in known : nearAddress(keys, k(n))}
      byDomain == {n \in near : sameDomain(keys, k(n))}
      byPhone == {n \in near : samePhone(keys, k(n))}
      byName == {n \in near : sameName(keys, k(n))}
      branches == {n \in known \ near : sameDomain(keys, k(n)) \/ samePhone(keys, k(n))}
      namesakes == {n \in known : sameName(keys, k(n)) /\ sameCity(keys, k(n))}
  IN  IF byDomain # {} THEN {decision("DUPLICATE", n, "DOMAIN_ADDRESS") : n \in byDomain}
      ELSE IF byPhone # {} THEN {decision("DUPLICATE", n, "PHONE_ADDRESS") : n \in byPhone}
      ELSE IF byName # {} THEN {decision("DUPLICATE", n, "NAME_ADDRESS") : n \in byName}
      ELSE IF branches # {} THEN {decision("BRANCH", n, "BRANCH") : n \in branches}
      ELSE IF namesakes # {} THEN {decision("AMBIGUOUS", n, "AMBIGUOUS") : n \in namesakes}
      ELSE {decision("CREATED", 0, "NONE")}

findByProviderPlaceId(place) == {n \in DOMAIN entities : entities[n].place = place}

(* What a transaction reads and makes of a candidate. *)
decideCandidate(candidate) ==
  IF candidate.place = 0 \/ ~ (candidate.idOnly \/ hasIdentity(candidate.facts)) THEN {decision("REJECTED", 0, "NONE")}
  ELSE IF findByProviderPlaceId(candidate.place) # {}
  THEN {decision("REFRESHED", entities[n].lead, "PLACE_ID") : n \in findByProviderPlaceId(candidate.place)}
  ELSE IF candidate.idOnly THEN {decision("CREATED", 0, "NONE")}
  ELSE LET keys == factsToDedupInput(candidate.facts) IN UNION {decideMatch(keys, known) : known \in findDedupCandidates(keys)}

(***************************************************************************)
(* What it writes                                                          *)
(***************************************************************************)
(* A place's id alone, or with the facts a provider may keep. *)
buildCandidateLead(candidate, seen) ==
  [place |-> candidate.place, keys |-> noKeys, dedupStatus |-> "UNIQUE", duplicateOf |-> 0, facts |-> {}, seen |-> seen]

(* Every text that is not empty, with what it comes down to, which may be nothing. *)
buildLeadFactInputs(facts) ==
  LET keys == factsToDedupInput(facts)
      inputs == {<<"business_name", facts.businessName.dress, keys.name>>, <<"domain", facts.domain.dress, keys.domain>>,
                 <<"phone", facts.phone.dress, keys.phone>>, <<"formatted_address", facts.formattedAddress.dress, keys.address>>,
                 <<"city", facts.city.dress, keys.city>>}
  IN {[type |-> i[1], blank |-> i[2] = "blank", normalized |-> i[3]] : i \in {x \in inputs : x[2] # "none"}}

buildLeadFromFacts(candidate, d, seen) ==
  [place |-> candidate.place, keys |-> factsToDedupInput(candidate.facts),
   dedupStatus |-> IF d.result = "AMBIGUOUS" THEN "AMBIGUOUS" ELSE "UNIQUE",
   duplicateOf |-> IF d.result = "AMBIGUOUS" THEN d.lead ELSE 0, facts |-> buildLeadFactInputs(candidate.facts), seen |-> seen]

newLead(d) == d.result \in {"CREATED", "BRANCH", "AMBIGUOUS"}

(* Mutant: no index on the place. *)
placeIsFree_Always(place) == TRUE

(* source_entities_provider_placeid_uk *)
placeIsFree(place) == findByProviderPlaceId(place) = {}

leadRow(candidate, d, seen) ==
  IF candidate.idOnly THEN buildCandidateLead(candidate, seen) ELSE buildLeadFromFacts(candidate, d, seen)

sighting(place, request, result) ==
  Append(sightings, [place |-> place, request |-> request, result |-> IF result = "BRANCH" THEN "CREATED" ELSE result])

(* The inserts, all or none: the entity's fails if the place has come to be known. *)
writeCandidate(candidate, d, seen, request) ==
  CASE d.result = "REJECTED" -> UNCHANGED <<gathered, entities, sightings>>
    [] d.result = "REFRESHED" ->
         /\ sightings' = sighting(candidate.place, request, "REFRESHED") /\ UNCHANGED <<gathered, entities>>
    [] OTHER ->
         IF ~ placeIsFree(candidate.place) THEN UNCHANGED <<gathered, entities, sightings>>
         ELSE /\ gathered' = IF newLead(d) THEN Append(gathered, leadRow(candidate, d, seen)) ELSE gathered
              /\ entities' = Append(entities, [place |-> candidate.place, lead |-> IF newLead(d) THEN Len(gathered) + 1 ELSE d.lead])
              /\ sightings' = sighting(candidate.place, request, d.result)

(***************************************************************************)
(* A run                                                                   *)
(***************************************************************************)
NotCollecting == [run |-> 0, pages |-> 0, request |-> 0, page |-> <<>>, created |-> 0, read |-> FALSE, seen |-> 0,
                  what |-> [result |-> "REJECTED", lead |-> 0, tier |-> "NONE"]]

CollectInit ==
  /\ gathered = <<>> /\ entities = <<>> /\ requests = <<>> /\ sightings = <<>>
  /\ collecting = [c \in Collectors |-> NotCollecting] /\ collects = 0

beginCollect(c) ==
  /\ collecting[c] = NotCollecting /\ collects < MaxCollects
  /\ collects' = collects + 1
  /\ collecting' = [collecting EXCEPT ![c].run = collects + 1]
  /\ UNCHANGED <<gathered, entities, requests, sightings>>

endCollect(c) == collecting' = [collecting EXCEPT ![c] = NotCollecting]

(* The request is on record before its candidates; a failed page, 0, ends the run. *)
nextPage(c, page) ==
  LET s == collecting[c] IN
  /\ s.run # 0 /\ s.page = <<>> /\ ~ s.read /\ s.pages < MaxPages
  /\ requests' = Append(requests, [run |-> s.run, status |-> IF page = 0 THEN "FAILED" ELSE "OK"])
  /\ IF page = 0 THEN endCollect(c)
     ELSE collecting' = [collecting EXCEPT ![c].page = SearchPages[page], ![c].pages = @ + 1, ![c].request = Len(requests) + 1]
  /\ UNCHANGED <<gathered, entities, sightings, collects>>

noMorePages(c) ==
  /\ collecting[c].run # 0 /\ collecting[c].page = <<>>
  /\ endCollect(c) /\ UNCHANGED <<gathered, entities, requests, sightings, collects>>

(* Mutant: the cap is compared too late. *)
capReached_Late(s) == s.created > MaxLeads

capReached(s) == s.created >= MaxLeads

stopAtCap(c) ==
  /\ collecting[c].page # <<>> /\ ~ collecting[c].read /\ capReached(collecting[c])
  /\ endCollect(c) /\ UNCHANGED <<gathered, entities, requests, sightings, collects>>

readCandidate(c) ==
  /\ collecting[c].page # <<>> /\ ~ collecting[c].read /\ ~ capReached(collecting[c])
  /\ \E d \in decideCandidate(Candidates[Head(collecting[c].page)]) :
       collecting' = [collecting EXCEPT ![c].read = TRUE, ![c].what = d, ![c].seen = Len(gathered)]
  /\ UNCHANGED <<gathered, entities, requests, sightings, collects>>

(* The transaction commits, or it is rolled back and the run goes on. *)
candidateDone(c, created) ==
  collecting' = [collecting EXCEPT ![c].read = FALSE, ![c].page = Tail(@), ![c].created = @ + created,
                                   ![c].what = NotCollecting.what, ![c].seen = 0]

processCandidate(c) ==
  LET s == collecting[c]
      candidate == Candidates[Head(s.page)]
  IN  /\ s.read
      /\ writeCandidate(candidate, s.what, s.seen, s.request)
      /\ candidateDone(c, IF newLead(s.what) /\ placeIsFree(candidate.place) THEN 1 ELSE 0)
      /\ UNCHANGED <<requests, collects>>

candidateFails(c) ==
  /\ collecting[c].read /\ candidateDone(c, 0)
  /\ UNCHANGED <<gathered, entities, requests, sightings, collects>>

collectorDies(c) ==
  /\ collecting[c].run # 0 /\ endCollect(c)
  /\ UNCHANGED <<gathered, entities, requests, sightings, collects>>

CollectNext ==
  \E c \in Collectors :
    \/ beginCollect(c) \/ noMorePages(c) \/ stopAtCap(c) \/ readCandidate(c) \/ processCandidate(c) \/ candidateFails(c) \/ collectorDies(c)
    \/ \E page \in 0..Len(SearchPages) : nextPage(c, page)

CollectSpec == CollectInit /\ [][CollectNext]_collectVars

(***************************************************************************)
(* Properties                                                              *)
(***************************************************************************)
CollectTypeOK ==
  /\ \A n \in DOMAIN gathered : gathered[n].seen \in 0..(n - 1) /\ gathered[n].dedupStatus \in {"UNIQUE", "AMBIGUOUS"}
  /\ \A n \in DOMAIN entities : entities[n].lead \in DOMAIN gathered
  /\ \A n \in DOMAIN sightings : sightings[n].request \in DOMAIN requests

recordAt(place) == CHOOSE i \in DOMAIN Candidates : Candidates[i].place = place

(* Two places are the same business, as far as their records tell: a
   national number is one number in whatever form it is written, except
   that a zero kept behind the country code makes it another. *)
sameNumber(p, q) ==
  p.word # 0 /\ p.word = q.word /\ \A x \in {p, q} : x.intl => x.code \in COUNTRY_CODES /\ ~ x.trunk

sharesIdentifier(a, b) ==
  LET f == Candidates[recordAt(a)].facts
      g == Candidates[recordAt(b)].facts
  IN  \/ f.domain.word # 0 /\ f.domain.word = g.domain.word
      \/ sameNumber(f.phone, g.phone)
      \/ f.businessName.word # 0 /\ f.businessName.word = g.businessName.word

samePremises(a, b) ==
  LET f == Candidates[recordAt(a)].facts
      g == Candidates[recordAt(b)].facts
  IN  \/ f.formattedAddress.word # 0 /\ f.formattedAddress.word = g.formattedAddress.word
      \/ f.spot # 0 /\ g.spot # 0 /\ distance(f.spot, g.spot) <= NearMeters

withFacts(n) == ~ Candidates[recordAt(gathered[n].place)].idOnly

(* One business is one lead: two leads that dedup takes into account share
   an identifier at one address only if the later one's transaction began
   before the earlier one was committed, or more leads share an identifier
   with it than one read returns. *)
OneBusinessOneLead ==
  \A i, j \in DOMAIN gathered :
    (/\ i < j /\ withFacts(i) /\ withFacts(j)
     /\ gathered[i].dedupStatus = "UNIQUE" /\ gathered[j].dedupStatus = "UNIQUE"
     /\ sharesIdentifier(gathered[i].place, gathered[j].place) /\ samePremises(gathered[i].place, gathered[j].place))
    => \/ gathered[j].seen < i
       \/ Cardinality({n \in 1..(j - 1) : withFacts(n) /\ sharesIdentifier(gathered[n].place, gathered[j].place)}) > DedupLimit

(* A place is given to another place's lead only if the two share an
   identifier and stand at one address: a branch is never merged. *)
BranchesStaySeparate ==
  \A n \in DOMAIN entities :
    LET place == gathered[entities[n].lead].place IN
    place # entities[n].place => sharesIdentifier(place, entities[n].place) /\ samePremises(place, entities[n].place)

(* Runs can be repeated: a place has one entity and one lead, its first
   sighting made it and every later one only refreshed it. *)
PlacesAreTakenOnce ==
  /\ \A m, n \in DOMAIN entities : entities[m].place = entities[n].place => m = n
  /\ \A m, n \in DOMAIN gathered : gathered[m].place = gathered[n].place => m = n
  /\ \A n \in DOMAIN sightings :
       (sightings[n].result = "REFRESHED") <=> (\E m \in 1..(n - 1) : sightings[m].place = sightings[n].place)

(* A run adds no more leads than its cap, and none from a page that failed. *)
RunsKeepTheirCap ==
  /\ \A r \in 1..collects :
       Cardinality({n \in DOMAIN sightings : requests[sightings[n].request].run = r /\ sightings[n].result \in {"CREATED", "AMBIGUOUS"}})
         <= MaxLeads
  /\ \A n \in DOMAIN sightings : requests[sightings[n].request].status = "OK"

(* A lead that came with facts has one on file that names it, by a text that is
   not blank but that may come down to nothing, which no search finds.  What a lead is found by
   is on file, in that form. *)
FactsMatchTheKeys ==
  \A n \in DOMAIN gathered :
    LET keys == gathered[n].keys
        onFile(type) == {f.normalized : f \in {g \in gathered[n].facts : g.type = type}}
    IN /\ withFacts(n) => \E f \in gathered[n].facts : f.type \in {"business_name", "domain", "phone"} /\ ~ f.blank
       /\ keys.name # 0 => onFile("business_name") = {keys.name}
       /\ keys.domain # 0 => onFile("domain") = {keys.domain}
       /\ keys.phone # <<>> => onFile("phone") = {keys.phone}

CollectSound == CollectTypeOK /\ OneBusinessOneLead /\ BranchesStaySeparate /\ PlacesAreTakenOnce /\ RunsKeepTheirCap /\ FactsMatchTheKeys

=============================================================================
