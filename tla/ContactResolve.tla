--------------------------- MODULE ContactResolve ---------------------------
(***************************************************************************)
(* Who may be written to: the paid search for a decision maker's own        *)
(* address (contact-enrich, contact-resolve-batch) over Instantly and       *)
(* Hunter, and the clinic's published inbox when that search is exhausted.  *)
(*                                                                          *)
(* Sources: contact-enrichment/service.ts and verification.ts,              *)
(* contact-resolution/*, contact-resolve-batch/*, their repositories, the   *)
(* commands, and the providers under integrations/contact-enrichment.       *)
(*                                                                          *)
(* A file of candidates stands for its people in order, and for the hash of *)
(* them; Apollo and the mock are not part of the cascade. The batch reads   *)
(* everything in one step: what changes between its reads is nothing it     *)
(* would not meet with the change before or after them.                     *)
(***************************************************************************)
EXTENDS Naturals, FiniteSets, Sequences

CONSTANTS
  Operators,     \* processes that run a command
  Prospects,     \* the leads, strongest audit first
  CandidateFiles,  \* how many people each file names: a function of the files
  Answers,       \* what a provider may answer for one person
  Configurations,   \* the sets of providers with a key
  Requests,      \* what contact-enrich is asked for: provider, mode and forceRefresh
  FactKinds,     \* contact_email facts that are set
  MaxRequests,   \* CONTACT_ENRICHMENT_MAX_REQUESTS_PER_RUN
  MaxCredits,    \* CONTACT_ENRICHMENT_MAX_CREDITS_PER_RUN
  MaxTotalRequests,  \* --max-total-requests
  MaxTotalCredits,   \* --max-total-credits
  MaxTargets,    \* --limit
  MaxCommands    \* bound: commands, and what else happens to the lead

ASSUME ContactAssumption ==
  /\ {MaxRequests, MaxCredits, MaxTotalRequests, MaxTotalCredits, MaxTargets, MaxCommands} \subseteq Nat \ {0}
  /\ Prospects \in Seq(Nat) /\ Answers # {}
  /\ CandidateFiles \in [DOMAIN CandidateFiles -> Nat]

VARIABLES
  prospect,      \* per lead: whether it may be worked on, and its current contact_email fact
  lookups,       \* contact_enrichment_results
  recipient,     \* contact_resolutions: the current one of each lead
  search,        \* the sessions
  commands       \* commands started

contactVars == <<prospect, lookups, recipient, search, commands>>

TheProspects == {Prospects[k] : k \in DOMAIN Prospects}
Files == DOMAIN CandidateFiles
Hashes == Files \cup {"earlier"}   \* of the people named now, and of those named before

Providers == {"instantly", "hunter"}
CASCADE_ORDER == <<"instantly", "hunter">>
Modes == {"PREVIEW", "ENRICH", "DOMAIN_SEARCH_ONLY"}
Keys == [lead : TheProspects, provider : Providers, mode : Modes, file : Hashes]
Outcomes == {"VERIFIED", "NOT_FOUND", "CAPPED", "ERROR", "PREVIEW_MATCHED", "PREVIEW_NO_MATCH"}

(* The contact_email fact: where it is from and what kind of address it is. *)
Facts == [source : {"none", "website", "manual"}, host : {"own", "other"}, mailbox : {"front", "person", "denied"}]
NoFact == [source |-> "none", host |-> "own", mailbox |-> "front"]

(* What a provider says of one person: the address, whether it is checked, and
   what Hunter's verifier makes of it when it is asked; then whose it is. *)
Answer == [email : {"none", "person", "generic"}, checked : {"valid", "accept_all", "unknown"},
           verifier : {"deliverable", "risky", "none"}, name : BOOLEAN, host : {"own", "other"},
           identity : {"own", "other", "none"}, title : {"match", "mismatch", "unconfirmed"}]
NoAnswer == [email |-> "none", checked |-> "unknown", verifier |-> "none", name |-> FALSE, host |-> "other",
             identity |-> "none", title |-> "unconfirmed"]

ASSUME ContactValues ==
  /\ Answers \subseteq Answer /\ FactKinds \subseteq Facts /\ Configurations \subseteq SUBSET Providers
  /\ \A r \in Requests : r.provider \in Providers /\ r.mode \in Modes /\ r.force \in BOOLEAN

Lookup == [outcome : Outcomes, accepted : Answer, requests : Nat, credits : Nat]
Resolution == [type : {"PERSONAL_VERIFIED", "GENERIC_OFFICIAL", "UNRESOLVED"}, file : Hashes \cup {"none"},
               answer : Answer, fact : Facts]
Unresolved == [type |-> "UNRESOLVED", file |-> "none", answer |-> NoAnswer, fact |-> NoFact]

(* The providers left to ask about each lead, by the place of the lead among the
   prospects. *)
Queue == UNION {[places -> SUBSET Providers] : places \in SUBSET DOMAIN Prospects}
Inbox == [lead : TheProspects, fact : Facts]

(* A session: the command it runs and its targets, what is left of the current
   target's cascade, and what the service counts for the current provider. *)
Session ==
  [command : {"none", "batch", "enrich"}, file : Files \cup {"none"}, queue : Queue, inboxes : SUBSET Inbox,
   at : {"free", "step", "preview", "enrich", "domain", "save", "resolve", "inboxes"}, mode : Modes, force : BOOLEAN,
   stopFirst : BOOLEAN, left : Nat, result : Lookup, requests : Nat, credits : Nat, paid : Nat, lost : BOOLEAN,
   known : SUBSET TheProspects]
NoSearch == [command |-> "none", at |-> "free", file |-> "none", queue |-> <<>>, inboxes |-> {}, mode |-> "ENRICH",
             force |-> FALSE, stopFirst |-> FALSE, left |-> 0, result |-> [outcome |-> "NOT_FOUND", accepted |-> NoAnswer,
             requests |-> 0, credits |-> 0], requests |-> 0, credits |-> 0, paid |-> 0, lost |-> FALSE, known |-> {}]

ContactTypeOK ==
  /\ prospect \in [TheProspects -> [status : {"workable", "BOUNCED", "blocked"}, email : Facts]]
  /\ DOMAIN lookups \subseteq Keys /\ \A k \in DOMAIN lookups : lookups[k] \in Lookup
  /\ recipient \in [TheProspects -> Resolution]
  /\ search \in [Operators -> Session]

(***************************************************************************)
(* The trust boundaries                                                    *)
(***************************************************************************)
normalizeInstantlyVerification(a) ==
  CASE a.email = "none" -> "NOT_FOUND"
    [] a.email # "none" /\ a.checked = "valid" -> "VERIFIED"
    [] a.email # "none" /\ a.checked = "accept_all" -> "CATCH_ALL"
    [] OTHER -> "UNKNOWN"

(* Hunter's finder knows, or its verifier is asked too. *)
classifyFinderVerification(a) == a.checked = "unknown"
normalizeHunterVerification(a) ==
  CASE a.verifier = "deliverable" -> "VERIFIED" [] a.verifier = "risky" -> "RISKY" [] OTHER -> "UNKNOWN"
hunterEnrich(a) ==
  CASE a.email = "none" -> [status |-> "NOT_FOUND", cost |-> <<1, 0>>]
    [] a.email # "none" /\ ~ classifyFinderVerification(a) ->
         [status |-> IF a.checked = "valid" THEN "VERIFIED" ELSE "CATCH_ALL", cost |-> <<1, 1>>]
    [] a.email # "none" /\ classifyFinderVerification(a) ->
         [status |-> normalizeHunterVerification(a), cost |-> <<2, 2>>]

(* Of the whole domain: what the finder's check says is all there is. *)
classifyDomainSearchEmail(a) == IF a.checked = "valid" THEN "VERIFIED" ELSE "UNKNOWN"
estimateDomainSearchCredits(a) == IF a.email = "none" THEN 0 ELSE 1

(* The host or the returned company is the clinic's. *)
domainMatches(a) == a.host = "own" \/ a.identity = "own"

(* Mutant: a verified role address will do. *)
decideAcceptance_Generic(status, a) == status = "VERIFIED" /\ a.email # "none" /\ a.name /\ domainMatches(a)

decideAcceptance(status, a) ==
  /\ status = "VERIFIED" /\ a.email = "person" /\ a.name
  /\ domainMatches(a) /\ a.title # "mismatch"

classifyGenericMailbox(f) == f.mailbox = "front"

evaluateOfficialInboxFallback(f) == f.source = "website" /\ f.host = "own" /\ classifyGenericMailbox(f)

(***************************************************************************)
(* Selection                                                               *)
(***************************************************************************)
key(p, pr, m, f) == [lead |-> p, provider |-> pr, mode |-> m, file |-> f]

findByInputHash(k) == k \in DOMAIN lookups

isLifecycleEligibleForContactWork(p) == prospect[p].status # "blocked"

isProviderStepResolved(p, pr, f) ==
  \/ findByInputHash(key(p, pr, "ENRICH", f))
  \/ pr = "hunter" /\ findByInputHash(key(p, pr, "DOMAIN_SEARCH_ONLY", f))

(* Of any provider, mode and file. *)
hasUsableVerifiedContact(p) ==
  /\ \E k \in DOMAIN lookups : k.lead = p /\ lookups[k].outcome = "VERIFIED"
  /\ prospect[p].status # "BOUNCED"

(* Mutant: a provider that is not configured counts as tried. *)
pendingSteps_Available(p, f, available) == {pr \in available : ~ isProviderStepResolved(p, pr, f)}

pendingSteps(p, f, available) == {pr \in Providers : ~ isProviderStepResolved(p, pr, f)}

classifyLead(p, f, available) ==
  IF ~ isLifecycleEligibleForContactWork(p) THEN "rejected_or_active_outreach"
  ELSE IF hasUsableVerifiedContact(p) THEN "already_verified"
  ELSE IF pendingSteps(p, f, available) = {} THEN "personal_chain_exhausted"
  ELSE IF pendingSteps(p, f, available) \cap available = {} THEN "no_providers_configured"
  ELSE "eligible"

target(p, f, available) == pendingSteps(p, f, available) \cap available

selectResolveBatchTargets(f, available) ==
  LET eligible == {k \in DOMAIN Prospects : classifyLead(Prospects[k], f, available) = "eligible"}
      first == {k \in eligible : Cardinality({j \in eligible : j < k}) < MaxTargets}
  IN [k \in first |-> target(Prospects[k], f, available)]

(* Mutant: whoever is exhausted gets the inbox. *)
getCurrent_Any(p) == FALSE

getCurrent(p) == recipient[p].type # "UNRESOLVED"

(* The fallback, with the fact it was accepted from. *)
fallbackAccepted(f, available) ==
  {[lead |-> p, fact |-> prospect[p].email] :
     p \in {q \in TheProspects : /\ classifyLead(q, f, available) = "personal_chain_exhausted"
                                 /\ ~ getCurrent(q) /\ evaluateOfficialInboxFallback(prospect[q].email)}}

(* A lead as it was captured, whose people Instantly did not know, or whose
   person it found and whose e-mail came back. *)
ContactInit ==
  /\ \E before \in {"nothing", "nobody", "bounced"}, a \in {x \in Answers : decideAcceptance(normalizeInstantlyVerification(x), x)}, f \in Hashes,
        e \in {NoFact, [NoFact EXCEPT !.source = "website"]} :
       LET nobody == [NoSearch.result EXCEPT !.requests = 1, !.credits = 1]
           tried == IF before = "nobody" THEN nobody ELSE [nobody EXCEPT !.outcome = "VERIFIED", !.accepted = a]
           found == [type |-> "PERSONAL_VERIFIED", file |-> f, answer |-> a, fact |-> NoFact]
       IN
       /\ lookups = IF before = "nothing" THEN <<>>
                    ELSE [k \in {key(p, "instantly", "ENRICH", f) : p \in TheProspects} |-> tried]
       /\ recipient = [p \in TheProspects |-> IF before = "bounced" THEN found ELSE Unresolved]
       /\ prospect = [p \in TheProspects |-> [status |-> IF before = "bounced" THEN "BOUNCED" ELSE "workable",
                                              email |-> e]]
  /\ search = [o \in Operators |-> NoSearch]
  /\ commands = 0

(***************************************************************************)
(* The commands                                                            *)
(***************************************************************************)
contactResolveBatch(o) ==
  /\ search[o].at = "free" /\ commands < MaxCommands
  /\ \E f \in Files, available \in Configurations, stopFirst \in BOOLEAN :
       LET inboxes == fallbackAccepted(f, available)
           targets == selectResolveBatchTargets(f, available)
       IN
       /\ stopFirst => Cardinality(DOMAIN targets) > 1   \* of no effect otherwise
       /\ available # {} \/ inboxes # {}
       /\ search' = [search EXCEPT ![o] = [NoSearch EXCEPT !.command = "batch", !.at = "step", !.file = f,
                       !.queue = targets, !.inboxes = inboxes, !.stopFirst = stopFirst,
                       !.known = {p \in TheProspects : recipient[p].type = "PERSONAL_VERIFIED"}]]
  /\ commands' = commands + 1
  /\ UNCHANGED <<prospect, lookups, recipient>>

(* One lead, whatever its status, and one provider. *)
contactEnrich(o) ==
  /\ search[o].at = "free" /\ commands < MaxCommands
  /\ \E k \in DOMAIN Prospects, f \in Files, r \in Requests :
       /\ r.mode = "DOMAIN_SEARCH_ONLY" => r.provider = "hunter"
       /\ search' = [search EXCEPT ![o] = [NoSearch EXCEPT !.command = "enrich", !.at = "step", !.file = f,
                       !.queue = [j \in {k} |-> {r.provider}], !.mode = r.mode, !.force = r.force]]
  /\ commands' = commands + 1
  /\ UNCHANGED <<prospect, lookups, recipient>>

(***************************************************************************)
(* The search                                                              *)
(***************************************************************************)
(* The strongest of the leads left, and the first of its providers in the order
   of the cascade. *)
place(s) == CHOOSE k \in DOMAIN s.queue : \A j \in DOMAIN s.queue : k <= j
leadOf(s) == Prospects[place(s)]
provider(s) == IF "instantly" \in s.queue[place(s)] THEN "instantly" ELSE "hunter"
keyOf(s) == key(leadOf(s), provider(s), s.mode, s.file)

(* Mutant: the budget is spent before the run stops. *)
outOfBudget_Spent(s) == s.command = "batch" /\ (s.requests >= MaxTotalRequests \/ s.credits >= MaxTotalCredits)

(* The next provider must fit in whole. *)
outOfBudget(s) ==
  /\ s.command = "batch"
  /\ s.requests + MaxRequests > MaxTotalRequests \/ s.credits + MaxCredits > MaxTotalCredits

nextTarget(s) == [s EXCEPT !.at = "step", !.queue = [k \in DOMAIN s.queue \ {place(s)} |-> s.queue[k]]]

nextStep(s) ==
  IF s.queue[place(s)] \ {provider(s)} = {} THEN nextTarget(s)
  ELSE [s EXCEPT !.at = "step", !.queue[place(s)] = @ \ {provider(s)}]

(* A result in hand, saved just now or found: it counts, and a person is next. *)
settled(s, r) ==
  LET t == [s EXCEPT !.result = r, !.requests = @ + r.requests, !.credits = @ + r.credits] IN
  IF s.command = "enrich" THEN NoSearch
  ELSE IF r.outcome = "VERIFIED" THEN [t EXCEPT !.at = "resolve"] ELSE nextStep(t)

start(s) == [s EXCEPT !.at = IF s.mode = "DOMAIN_SEARCH_ONLY" THEN "domain" ELSE "preview", !.result = NoSearch.result]

run(o) ==
  /\ search[o].at = "step" /\ DOMAIN search[o].queue # {} /\ ~ outOfBudget(search[o])
  /\ LET s == search[o] IN
     search' = [search EXCEPT ![o] = IF ~ s.force /\ findByInputHash(keyOf(s)) THEN settled(s, lookups[keyOf(s)])
                                     ELSE start(s)]
  /\ UNCHANGED <<prospect, lookups, recipient, commands>>

finish(s, outcome) == [s EXCEPT !.at = "save", !.result.outcome = outcome]

(* Who of the file is known at the domain: of Hunter, everybody. A call that
   throws stops the search. *)
preview(o) ==
  /\ search[o].at = "preview"
  /\ \E n \in 0..CandidateFiles[search[o].file], throws \in BOOLEAN :
       LET s == search[o] IN
       /\ provider(s) = "hunter" => n = CandidateFiles[s.file] /\ ~ throws
       /\ search' = [search EXCEPT ![o] = IF throws THEN finish(s, "ERROR")
                                          ELSE IF n = 0 THEN finish(s, "PREVIEW_NO_MATCH")
                                          ELSE IF s.mode = "PREVIEW" THEN finish(s, "PREVIEW_MATCHED")
                                          ELSE [s EXCEPT !.at = "enrich", !.left = n]]
  /\ UNCHANGED <<prospect, lookups, recipient, commands>>

capReached(r) == r.requests >= MaxRequests \/ r.credits + 1 > MaxCredits

(* A call that throws is paid all the same, and counted nowhere. *)
thrown(s) == [finish(s, "ERROR") EXCEPT !.paid = @ + 1, !.lost = TRUE]

(* Instantly counts as one, whatever it reports. *)
instantlyEnrich(a) == [status |-> normalizeInstantlyVerification(a), cost |-> <<1, 1>>]

answered(s, a, outcome) ==
  LET t == [s EXCEPT !.result.requests = @ + outcome.cost[1], !.result.credits = @ + outcome.cost[2],
                     !.paid = @ + outcome.cost[1]]
  IN IF decideAcceptance(outcome.status, a) THEN [finish(t, "VERIFIED") EXCEPT !.result.accepted = a]
     ELSE [t EXCEPT !.left = @ - 1]

enrich(o) ==
  /\ search[o].at = "enrich"
  /\ LET s == search[o] IN
     \/ /\ s.left = 0
        /\ search' = [search EXCEPT ![o] = IF provider(s) = "hunter" THEN [s EXCEPT !.at = "domain"] ELSE finish(s, "NOT_FOUND")]
     \/ s.left > 0 /\ capReached(s.result) /\ search' = [search EXCEPT ![o] = finish(s, "CAPPED")]
     \/ s.left > 0 /\ ~ capReached(s.result) /\ search' = [search EXCEPT ![o] = thrown(s)]
     \/ /\ s.left > 0 /\ ~ capReached(s.result)
        /\ \E a \in Answers : search' = [search EXCEPT ![o] =
             answered(s, a, IF provider(s) = "hunter" THEN hunterEnrich(a) ELSE instantlyEnrich(a))]
  /\ UNCHANGED <<prospect, lookups, recipient, commands>>

(* One more call for the whole domain, free when it returns nobody. *)
attemptDomainSearch(o) ==
  /\ search[o].at = "domain"
  /\ LET s == search[o] IN
     \/ capReached(s.result) /\ search' = [search EXCEPT ![o] = finish(s, "CAPPED")]
     \/ ~ capReached(s.result) /\ search' = [search EXCEPT ![o] = thrown(s)]
     \/ /\ ~ capReached(s.result)
        /\ \E a \in Answers :
             LET t == answered([s EXCEPT !.left = 1], a, [status |-> classifyDomainSearchEmail(a),
                                                          cost |-> <<1, estimateDomainSearchCredits(a)>>]) IN
             search' = [search EXCEPT ![o] = IF t.at = "save" THEN t ELSE finish(t, "NOT_FOUND")]
  /\ UNCHANGED <<prospect, lookups, recipient, commands>>

(* An insert, which the index refuses when another session was first: what was
   paid is then counted nowhere. A forced refresh overwrites the row. *)
save(o) ==
  /\ search[o].at = "save"
  /\ LET s == search[o] k == keyOf(s) IN
     \/ /\ ~ s.force /\ findByInputHash(k)
        /\ search' = [search EXCEPT ![o] = IF s.command = "enrich" THEN NoSearch ELSE [nextTarget(s) EXCEPT !.lost = TRUE]]
        /\ UNCHANGED lookups
     \/ /\ s.force \/ ~ findByInputHash(k)
        /\ lookups' = [j \in DOMAIN lookups \cup {k} |-> IF j = k THEN s.result ELSE lookups[j]]
        /\ search' = [search EXCEPT ![o] = settled(s, s.result)]
  /\ UNCHANGED <<prospect, recipient, commands>>

(***************************************************************************)
(* The recipient                                                           *)
(***************************************************************************)
(* The current row is demoted and the new one inserted, in one transaction. *)
writeCurrentResolution(p, r) == recipient' = [recipient EXCEPT ![p] = r]

personal(s) == [type |-> "PERSONAL_VERIFIED", file |-> s.file, answer |-> s.result.accepted, fact |-> NoFact]

resolvePerson(o) ==
  /\ search[o].at = "resolve"
  /\ LET s == search[o] IN
     /\ writeCurrentResolution(leadOf(s), personal(s))
     /\ search' = [search EXCEPT ![o] = IF s.stopFirst THEN [nextTarget(s) EXCEPT !.queue = <<>>] ELSE nextTarget(s)]
  /\ UNCHANGED <<prospect, lookups, commands>>

loopEnds(o) ==
  /\ search[o].at = "step" /\ (DOMAIN search[o].queue = {} \/ outOfBudget(search[o]))
  /\ search' = [search EXCEPT ![o] = [@ EXCEPT !.at = "inboxes"]]
  /\ UNCHANGED <<prospect, lookups, recipient, commands>>

(* The inboxes accepted at the start, one by one, as they were then. *)
resolveInbox(o) ==
  /\ search[o].at = "inboxes"
  /\ \/ /\ search[o].inboxes = {} /\ search' = [search EXCEPT ![o] = NoSearch] /\ UNCHANGED recipient
     \/ \E i \in search[o].inboxes :
          /\ writeCurrentResolution(i.lead, [type |-> "GENERIC_OFFICIAL", file |-> search[o].file, answer |-> NoAnswer,
                                             fact |-> i.fact])
          /\ search' = [search EXCEPT ![o].inboxes = @ \ {i}]
  /\ UNCHANGED <<prospect, lookups, commands>>

contactCrash(o) ==
  /\ search[o].at # "free"
  /\ search' = [search EXCEPT ![o] = NoSearch]
  /\ UNCHANGED <<prospect, lookups, recipient, commands>>

(***************************************************************************)
(* The lead meanwhile                                                      *)
(***************************************************************************)
(* Captured from the site, or given by the operator. *)
setContactEmail(p) ==
  /\ commands < MaxCommands
  /\ \E f \in FactKinds : prospect[p].email # f /\ prospect' = [prospect EXCEPT ![p].email = f]
  /\ commands' = commands + 1
  /\ UNCHANGED <<lookups, recipient, search>>

(* Outreach begins, or an e-mail to the lead comes back. *)
outreachMoves(p) ==
  /\ prospect[p].status = "workable" /\ commands < MaxCommands
  /\ \E to \in {"BOUNCED", "blocked"} : prospect' = [prospect EXCEPT ![p].status = to]
  /\ commands' = commands + 1
  /\ UNCHANGED <<lookups, recipient, search>>

ContactNext ==
  \/ \E o \in Operators :
       \/ contactResolveBatch(o) \/ contactEnrich(o) \/ run(o) \/ preview(o) \/ enrich(o) \/ attemptDomainSearch(o)
       \/ save(o) \/ resolvePerson(o) \/ loopEnds(o) \/ resolveInbox(o) \/ contactCrash(o)
  \/ \E p \in TheProspects : setContactEmail(p) \/ outreachMoves(p)

ContactSpec == ContactInit /\ [][ContactNext]_contactVars

(***************************************************************************)
(* Properties                                                              *)
(***************************************************************************)
(* A clinic's front door is written to only when every provider of the cascade,
   configured or not, has been tried for the people named beside it, and only if
   the clinic itself publishes it. *)
GenericOnlyWhenExhausted ==
  \A p \in TheProspects :
    recipient[p].type = "GENERIC_OFFICIAL" =>
      /\ \A k \in DOMAIN CASCADE_ORDER : isProviderStepResolved(p, CASCADE_ORDER[k], recipient[p].file)
      /\ recipient[p].fact.source = "website" /\ recipient[p].fact.mailbox = "front" /\ recipient[p].fact.host = "own"

(* An address that is greeted by name is a person's own, verified for that person. *)
PersonalIsTheirOwn ==
  \A p \in TheProspects :
    recipient[p].type = "PERSONAL_VERIFIED" => recipient[p].answer.email = "person" /\ recipient[p].answer.name

(* A batch pays for no more requests than its cap and one: the last person may
   need a second call. Calls that threw and results another session had stored
   first are paid beyond it. *)
BatchWithinBudget ==
  \A o \in Operators : search[o].command = "batch" /\ ~ search[o].lost => search[o].paid <= MaxTotalRequests + 1

(* The search for recipients keeps to its rules. *)
ContactSound == ContactTypeOK /\ GenericOnlyWhenExhausted /\ PersonalIsTheirOwn /\ BatchWithinBudget

(* A person on record when a batch begins is not given up for an inbox by it, not
   even when an e-mail to that person came back. One that another batch finds in
   the meantime is. *)
PersonalIsKept ==
  [][\A p \in TheProspects :
       recipient[p].type = "PERSONAL_VERIFIED" /\ recipient'[p].type = "GENERIC_OFFICIAL" =>
         \E o \in Operators : search[o].at = "inboxes" /\ p \notin search[o].known]_contactVars

(***************************************************************************)
(* The inductive invariant                                                 *)
(***************************************************************************)
IsPersonal(a) == a.email = "person" /\ a.name
AcceptedIsPersonal(r) == r.outcome = "VERIFIED" => IsPersonal(r.accepted)
IsPublished(f) == f.source = "website" /\ f.mailbox = "front" /\ f.host = "own"
IsExhausted(p, f) == \A pr \in Providers : isProviderStepResolved(p, pr, f)

(* What a session takes to the recipients: a person's own address, or an inbox of
   a lead that is exhausted and had nobody when the session began. *)
SearchIsSound(s) ==
  /\ s.at # "free" => s.file \in Files
  /\ s.at \in {"preview", "enrich", "domain", "save", "resolve"} => DOMAIN s.queue # {}
  /\ s.at \in {"save", "resolve"} => AcceptedIsPersonal(s.result)
  /\ s.at = "resolve" => s.result.outcome = "VERIFIED"
  /\ \A i \in s.inboxes : IsExhausted(i.lead, s.file) /\ IsPublished(i.fact) /\ i.lead \notin s.known

(* What a batch has paid is counted, and a provider was begun only if its whole
   cap still fitted. *)
BatchCounts(s) ==
  s.command = "batch" /\ ~ s.lost =>
    /\ s.paid <= MaxTotalRequests + 1
    /\ s.at \in {"step", "resolve", "inboxes"} => s.paid <= s.requests
    /\ s.at \in {"preview", "enrich", "domain", "save"} =>
         /\ s.paid <= s.requests + s.result.requests /\ s.requests + MaxRequests <= MaxTotalRequests
         /\ s.result.requests <= MaxRequests + 1

ContactInv ==
  /\ \A o \in Operators : SearchIsSound(search[o]) /\ BatchCounts(search[o])
  /\ \A k \in DOMAIN lookups : AcceptedIsPersonal(lookups[k])
  /\ GenericOnlyWhenExhausted /\ PersonalIsTheirOwn

=============================================================================
