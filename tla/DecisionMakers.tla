--------------------------- MODULE DecisionMakers ---------------------------
(***************************************************************************)
(* Who to write to at a practice: discover-decision-makers reads the        *)
(* practice's website, pays a model to name people, filters and ranks them, *)
(* and keeps two files, WHAT WE FOUND (candidates.json) and WHAT WE DID     *)
(* (results.json), so that a question is not paid for twice.                *)
(* decision-makers-rerank reorders the first of them.                       *)
(*                                                                          *)
(* Sources: domain/decision-makers/{service,results-manifest,schema,        *)
(* title-priority}.ts, domain/contact-resolve-batch/candidates-file.ts,     *)
(* cli/commands/{discover-decision-makers,decision-makers-rerank}.ts.       *)
(*                                                                          *)
(* One discover command runs at a time, and may die at any point; rerank    *)
(* runs whenever. The command's memory is "discovery"; what a preview shows *)
(* changes nothing and is left out.                                         *)
(***************************************************************************)
EXTENDS WebsiteEvidence

CONSTANTS
  Practices,       \* leads that were ever qualified, in the order of the list: numbers from 1
  Sites,           \* for each practice the versions of its website, the present one first
  Replies,         \* what the model may answer
  Orders,          \* the option sets a discover command may be given
  Contacts,        \* how far contact work is before the first command
  StoredFiles,     \* candidates.json before the first command
  HardCap,         \* DISCOVER_DECISION_MAKERS_MAX_LEADS_PER_RUN
  MaxLlmCalls,     \* MAX_LLM_CALLS_PER_RUN
  MaxDiscoveries,  \* bound on the commands
  MaxSiteChanges   \* bound on changes of websites

VARIABLES
  outreach,     \* how far contact work on each practice is
  online,       \* the website each practice has now
  outFile,      \* candidates.json: [practice -> the people in order]
  manifest,     \* results.json: [practice -> record]
  discovery,    \* the memory of the running command
  charges,      \* every request to the model, oldest first
  discoveries, siteChanges

discoveryVars == <<outreach, online, outFile, manifest, discovery, charges, discoveries, siteChanges>>

MAX_PAID_ATTEMPTS_PER_FINGERPRINT == 2
AllPractices == Range(Practices)

(* "closed": rejected, opted out, or written to; "unknown": no verified domain. *)
Standing == {"open", "unknown", "verified", "bounced", "closed"}

Titles == {"owner", "clinical director", "director", "practice manager", "director and practice manager", "hygienist"}

(* A person the model names; "cites" are evidence tags, 0 one that is no tag.
   "snippet" says whether the excerpt names the practice, or a group, or neither. *)
decisionMakerCandidate ==
  [fullName : STRING, title : Titles, usable : BOOLEAN, organization : BOOLEAN, cites : Seq(Nat),
   confidence : Nat, snippet : {"practice", "group", "plain"}]

(* The request throws, is refused, comes back in the wrong shape, or is answered. *)
LlmReply == [kind : {"throws", "refused", "malformed", "ok"}, candidates : Seq(decisionMakerCandidate)]

Options == [lead : Nat, limit : Nat, refresh : BOOLEAN, minConfidence : Nat, affordable : BOOLEAN]

ASSUME DiscoveryAssumption ==
  /\ Practices \in Seq(Nat) /\ {HardCap, MaxLlmCalls, MaxDiscoveries, MaxSiteChanges} \subseteq Nat
  /\ Replies \subseteq LlmReply /\ Orders \subseteq Options

EXTRACTION_OUTCOMES == {"FOUND", "NO_CANDIDATE", "SCHEMA_INVALID", "PROVIDER_ERROR"}
NoResult == [fingerprint |-> <<>>, outcome |-> "none", attempts |-> 0]

NoDiscovery == [at |-> "idle", opts |-> [lead |-> 0, limit |-> 0, refresh |-> FALSE, minConfidence |-> 0, affordable |-> FALSE],
                eligible |-> <<>>, existing |-> <<>>, known |-> <<>>, paid |-> 0, calls |-> 0,
                pages |-> <<>>, outcome |-> "none", billed |-> FALSE]

(***************************************************************************)
(* title-priority.ts: 1, 2, 3, or 0 for a title that does not qualify      *)
(***************************************************************************)
isDirector(title) == title \in {"director", "director and practice manager"}
isManager(title) == title \in {"practice manager", "director and practice manager"}

(* A director whose employer is in doubt may still be a practice manager. *)
classify(title, employerConfirmed) ==
  CASE title = "owner" -> 1
    [] title = "clinical director" -> 2
    [] isDirector(title) /\ employerConfirmed -> 2
    [] isManager(title) /\ ~ (isDirector(title) /\ employerConfirmed) -> 3
    [] OTHER -> 0

directorEmployerConfirmed(snippet, role) ==
  snippet = "practice" \/ (snippet # "group" /\ role \in {"team", "about"})

(* A person on file passed the gate when they were found. *)
classifyValidatedTitlePriority(title) == classify(title, TRUE)

(***************************************************************************)
(* service.ts: the filter on what the model says                           *)
(***************************************************************************)
resolvedPages(cand, pages) == SelectSeq(cand.cites, LAMBDA tag : tag \in DOMAIN pages)

priority(cand, pages) ==
  classify(cand.title, directorEmployerConfirmed(cand.snippet, pages[resolvedPages(cand, pages)[1]].role))

(* Why a person is dropped is told by the first test that fails; that they are is
   the conjunction. *)
qualifies(cand, pages, minConfidence) ==
  /\ cand.usable
  /\ ~ cand.organization
  /\ resolvedPages(cand, pages) # <<>>
  /\ cand.confidence >= minConfidence
  /\ priority(cand, pages) # 0

entry(cand) == [fullName |-> cand.fullName, title |-> cand.title, confidence |-> cand.confidence]

(* A stable order by tier, then falling confidence. *)
byAuthority(people, tier(_)) ==
  LET before(i, j) ==
        LET a == people[i] b == people[j] IN
        \/ tier(a) < tier(b)
        \/ tier(a) = tier(b) /\ a.confidence > b.confidence
        \/ tier(a) = tier(b) /\ a.confidence = b.confidence /\ i < j
      order == SetToSortSeq(DOMAIN people, before)
  IN [n \in DOMAIN people |-> people[order[n]]]

firstThree(s) == SubSeq(s, 1, IF Len(s) < 3 THEN Len(s) ELSE 3)

(* Mutant: a name counts as seen although that mention of it was rejected. *)
filterAndRankCandidates_Seen(candidates, pages, minConfidence) ==
  LET Fresh == {n \in DOMAIN candidates : \A m \in 1..n - 1 : candidates[m].fullName # candidates[n].fullName}
      fresh == [k \in 1..Cardinality(Fresh) |-> candidates[SetToSortSeq(Fresh, <)[k]]]
      passed == SelectSeq(fresh, LAMBDA c : qualifies(c, pages, minConfidence))
      ranked == byAuthority(passed, LAMBDA c : priority(c, pages))
  IN firstThree([n \in DOMAIN ranked |-> entry(ranked[n])])

(* Of several mentions of one name the first that qualifies counts. *)
filterAndRankCandidates(candidates, pages, minConfidence) ==
  LET passed == SelectSeq(candidates, LAMBDA c : qualifies(c, pages, minConfidence))
      Fresh == {n \in DOMAIN passed : \A m \in 1..n - 1 : passed[m].fullName # passed[n].fullName}
      fresh == [k \in 1..Cardinality(Fresh) |-> passed[SetToSortSeq(Fresh, <)[k]]]
      ranked == byAuthority(fresh, LAMBDA c : priority(c, pages))
  IN firstThree([n \in DOMAIN ranked |-> entry(ranked[n])])

(***************************************************************************)
(* results-manifest.ts                                                     *)
(***************************************************************************)
(* What would be asked: the evidence, and the contract it is read under. *)
computeExtractionFingerprint(pages, opts) == <<pages, opts.minConfidence>>

(* Mutant: one attempt too many. *)
decideAttempt_Once(record, fingerprint, refresh) ==
  \/ refresh \/ record.outcome = "none" \/ record.fingerprint # fingerprint
  \/ record.outcome = "PROVIDER_ERROR" /\ record.attempts <= MAX_PAID_ATTEMPTS_PER_FINGERPRINT

decideAttempt(record, fingerprint, refresh) ==
  \/ refresh \/ record.outcome = "none" \/ record.fingerprint # fingerprint
  \/ record.outcome = "PROVIDER_ERROR" /\ record.attempts < MAX_PAID_ATTEMPTS_PER_FINGERPRINT

(* Attempts are counted at one fingerprint, and only where there was an answer. *)
buildResultRecord(previous, fingerprint, outcome, billed) ==
  [fingerprint |-> fingerprint, outcome |-> outcome,
   attempts |-> (IF previous.outcome # "none" /\ previous.fingerprint = fingerprint THEN previous.attempts ELSE 0)
                  + (IF billed THEN 1 ELSE 0)]

(***************************************************************************)
(* discover-decision-makers.ts                                             *)
(***************************************************************************)
DiscoveryInit ==
  /\ outreach \in Contacts
  /\ online = [p \in AllPractices |-> Sites[p][1]]
  /\ outFile \in StoredFiles
  /\ manifest = [p \in AllPractices |-> NoResult]
  /\ discovery = NoDiscovery
  /\ charges = <<>>
  /\ discoveries = 0 /\ siteChanges = 0

assertUsableOptions(o) == ~ (o.refresh /\ o.lead = 0)

(* Which practices a command looks at. One that bounced may be looked at again,
   but not while there is somebody on file for it. *)
selectable(p, o) ==
  /\ o.lead \in {0, p}
  /\ outreach[p] \notin {"closed", "unknown", "verified"}
  /\ o.refresh \/ outFile[p] = <<>>

paidLimit(o) == IF o.lead # 0 THEN 1 ELSE IF o.limit < HardCap THEN o.limit ELSE HardCap

(* Both files are read here, once. *)
discoverDecisionMakers(o) ==
  LET eligible == SelectSeq(Practices, LAMBDA p : selectable(p, o)) IN
  /\ discovery.at = "idle" /\ discoveries < MaxDiscoveries
  /\ assertUsableOptions(o)
  /\ o.lead # 0 => o.lead \in AllPractices /\ outreach[o.lead] # "closed"
  /\ discoveries' = discoveries + 1
  /\ discovery' = [NoDiscovery EXCEPT !.at = "next", !.opts = o, !.existing = outFile, !.known = manifest,
                     !.eligible = SubSeq(eligible, 1, IF Len(eligible) < HardCap THEN Len(eligible) ELSE HardCap)]
  /\ UNCHANGED <<outreach, online, outFile, manifest, charges, siteChanges>>

current == Head(discovery.eligible)
dropCurrent(d) == [d EXCEPT !.at = "next", !.eligible = Tail(@), !.pages = <<>>, !.outcome = "none", !.billed = FALSE]

commandEnds ==
  /\ discovery.at = "next"
  /\ discovery.eligible = <<>> \/ discovery.paid >= paidLimit(discovery.opts)
  /\ discovery' = NoDiscovery
  /\ UNCHANGED <<outreach, online, outFile, manifest, charges, discoveries, siteChanges>>

(* The website is read, for nothing; then the manifest that was read at the start
   decides whether it is worth a paid request. *)
examine ==
  /\ discovery.at = "next" /\ discovery.eligible # <<>> /\ discovery.paid < paidLimit(discovery.opts)
  /\ \E pages \in {gatherWebsiteEvidence(online[current]).pages} :
       LET wanted == /\ pages # <<>>
                     /\ decideAttempt(discovery.known[current], computeExtractionFingerprint(pages, discovery.opts),
                                      discovery.opts.refresh)
       IN discovery' = IF ~ wanted THEN dropCurrent(discovery)
                       ELSE IF discovery.calls >= MaxLlmCalls THEN NoDiscovery
                       ELSE IF ~ discovery.opts.affordable THEN dropCurrent(discovery)
                       ELSE [discovery EXCEPT !.at = "asking", !.pages = pages]
  /\ UNCHANGED <<outreach, online, outFile, manifest, charges, discoveries, siteChanges>>

outcomeOf(reply, accepted) ==
  CASE reply.kind \in {"throws", "refused"} -> "PROVIDER_ERROR"
    [] reply.kind = "malformed" -> "SCHEMA_INVALID"
    [] reply.kind = "ok" -> IF accepted = <<>> THEN "NO_CANDIDATE" ELSE "FOUND"

(* The one request for a practice. *)
extractDecisionMakers(reply) ==
  LET accepted == IF reply.kind = "ok"
                  THEN filterAndRankCandidates(reply.candidates, discovery.pages, discovery.opts.minConfidence) ELSE <<>>
      billed == reply.kind # "throws"
      count == IF billed THEN 1 ELSE 0
  IN /\ discovery.at = "asking"
     /\ charges' = Append(charges,
          [practice |-> current, question |-> computeExtractionFingerprint(discovery.pages, discovery.opts),
           billed |-> billed, outcome |-> outcomeOf(reply, accepted), forced |-> discovery.opts.refresh,
           recorded |-> FALSE])
     /\ discovery' = [discovery EXCEPT !.at = IF accepted = <<>> THEN "recording" ELSE "saving",
                        !.paid = @ + count, !.calls = @ + count, !.billed = billed,
                        !.outcome = outcomeOf(reply, accepted),
                        !.existing = IF accepted = <<>> THEN @ ELSE [@ EXCEPT ![current] = accepted]]
     /\ UNCHANGED <<outreach, online, outFile, manifest, discoveries, siteChanges>>

(* Mutant: the people are kept for the end of the run. *)
saveCandidatesFile_Later ==
  /\ discovery.at = "saving"
  /\ outFile' = outFile
  /\ discovery' = [discovery EXCEPT !.at = "recording"]
  /\ UNCHANGED <<outreach, online, manifest, charges, discoveries, siteChanges>>

(* The whole file is written from memory. *)
saveCandidatesFile ==
  /\ discovery.at = "saving"
  /\ outFile' = discovery.existing
  /\ discovery' = [discovery EXCEPT !.at = "recording"]
  /\ UNCHANGED <<outreach, online, manifest, charges, discoveries, siteChanges>>

saveResultsManifest ==
  LET record == buildResultRecord(discovery.known[current],
                  computeExtractionFingerprint(discovery.pages, discovery.opts), discovery.outcome, discovery.billed)
      known == [discovery.known EXCEPT ![current] = record]
  IN /\ discovery.at = "recording"
     /\ manifest' = known
     /\ discovery' = [dropCurrent(discovery) EXCEPT !.known = known]
     /\ charges' = [charges EXCEPT ![Len(charges)].recorded = TRUE]
     /\ UNCHANGED <<outreach, online, outFile, discoveries, siteChanges>>

discoveryDies ==
  /\ discovery.at # "idle"
  /\ discovery' = NoDiscovery
  /\ UNCHANGED <<outreach, online, outFile, manifest, charges, discoveries, siteChanges>>

(* decision-makers-rerank --confirm. One title that no longer counts stops it. *)
decisionMakersRerank(scope) ==
  LET tier(e) == classifyValidatedTitlePriority(e.title)
      next == [p \in AllPractices |-> IF p \in scope THEN byAuthority(outFile[p], tier) ELSE outFile[p]]
  IN /\ \A p \in scope : \A e \in Range(outFile[p]) : tier(e) # 0
     /\ next # outFile
     /\ outFile' = next
     /\ UNCHANGED <<outreach, online, manifest, discovery, charges, discoveries, siteChanges>>

(***************************************************************************)
(* What happens elsewhere: websites change; contact-resolve-batch finds an  *)
(* address for one of the people on file. A command looks at that once,     *)
(* when it starts.                                                          *)
(***************************************************************************)
websiteChanges(p) ==
  /\ siteChanges < MaxSiteChanges
  /\ \E s \in Range(Sites[p]) \ {online[p]} : online' = [online EXCEPT ![p] = s]
  /\ siteChanges' = siteChanges + 1
  /\ UNCHANGED <<outreach, outFile, manifest, discovery, charges, discoveries>>

contactVerified(p) ==
  /\ discovery.at = "idle" /\ discoveries < MaxDiscoveries
  /\ outreach[p] \in {"open", "bounced"} /\ outFile[p] # <<>>
  /\ outreach' = [outreach EXCEPT ![p] = "verified"]
  /\ UNCHANGED <<online, outFile, manifest, discovery, charges, discoveries, siteChanges>>

DiscoveryNext ==
  \/ \E o \in Orders : discoverDecisionMakers(o)
  \/ commandEnds \/ examine
  \/ \E reply \in Replies : extractDecisionMakers(reply)
  \/ saveCandidatesFile \/ saveResultsManifest \/ discoveryDies
  \/ \E scope \in {AllPractices} \cup {{p} : p \in AllPractices} : decisionMakersRerank(scope)
  \/ \E p \in AllPractices : websiteChanges(p) \/ contactVerified(p)

DiscoverySpec == DiscoveryInit /\ [][DiscoveryNext]_discoveryVars

(***************************************************************************)
(* Properties                                                              *)
(***************************************************************************)
DiscoveryTypeOK ==
  /\ outreach \in [AllPractices -> Standing] /\ \A p \in AllPractices : online[p] \in Range(Sites[p])
  /\ \A p \in AllPractices : outFile[p] \in Seq([fullName : STRING, title : Titles, confidence : Nat])
  /\ \A p \in AllPractices : manifest[p].outcome \in EXTRACTION_OUTCOMES \cup {"none"}
  /\ discovery.opts \in Options
  /\ discovery.at \in {"idle", "next", "asking", "saving", "recording"}

(* What results.json calls FOUND is in candidates.json, whenever a command dies
   and whoever reorders the file meanwhile: a lead that is settled as found but
   has nobody on file would never be looked at again. *)
FoundIsOnFile == \A p \in AllPractices : manifest[p].outcome = "FOUND" => outFile[p] # <<>>

(* From one charge to the next nobody asked anything else about that practice. *)
consecutive(i, j) ==
  \A k \in i..j : charges[k].practice = charges[i].practice => charges[k].question = charges[i].question

(* A question that was answered, or answered unusably, is not paid for again
   unless the operator asked for a refresh, the evidence changed, or the command
   died before it wrote the answer down. *)
AnsweredOnce ==
  \A i, j \in DOMAIN charges :
    /\ i < j /\ charges[i].practice = charges[j].practice /\ consecutive(i, j)
    /\ charges[i].recorded /\ charges[i].outcome # "PROVIDER_ERROR"
    => \E k \in i + 1..j : charges[k].practice = charges[i].practice /\ charges[k].forced

(* At one fingerprint at most two requests are paid for that end in a provider's
   error, whichever runs they are in. *)
ErrorsAreBounded ==
  \A i \in DOMAIN charges :
    Cardinality({j \in i..Len(charges) :
      /\ charges[j].practice = charges[i].practice /\ consecutive(i, j)
      /\ \A k \in i..j : charges[k].practice = charges[i].practice => ~ charges[k].forced
      /\ charges[j].billed /\ charges[j].recorded}) <= MAX_PAID_ATTEMPTS_PER_FINGERPRINT

(* Who is on file from the run that just answered is the best that the answer
   held: nobody who qualifies and is left out has more authority, or as much with
   more confidence. *)
BestAreKept ==
  discovery.at = "saving" =>
    LET on == discovery.existing[current]
        tier(e) == classifyValidatedTitlePriority(e.title)
    IN \E reply \in Replies :
         /\ reply.kind = "ok"
         /\ Range(on) \subseteq {entry(c) : c \in Range(reply.candidates)}
         /\ \A c \in Range(reply.candidates) :
              \/ ~ qualifies(c, discovery.pages, discovery.opts.minConfidence)
              \/ \E e \in Range(on) : e.fullName = c.fullName
              \/ /\ Len(on) = 3
                 /\ \A e \in Range(on) : \/ tier(e) < priority(c, discovery.pages)
                                         \/ tier(e) = priority(c, discovery.pages) /\ e.confidence >= c.confidence

DiscoverySound ==
  DiscoveryTypeOK /\ FoundIsOnFile /\ AnsweredOnce /\ ErrorsAreBounded /\ BestAreKept /\ GatherSound

=============================================================================
