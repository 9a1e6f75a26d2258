-------------------------- MODULE CompetitorEvidence --------------------------
(***************************************************************************)
(* What is kept about a lead's competitors, and how it reaches an e-mail:   *)
(* research runs, captures of the competitors' pages with the evidence they *)
(* yield, pattern packages built from that evidence and approved by a       *)
(* person, and e-mails enriched from an approved package.                   *)
(*                                                                          *)
(* Sources: research-service.ts, capture-service.ts, pattern-logic.ts,      *)
(* pattern-service.ts and their repositories, the competitor-* commands and *)
(* outreach-compose-preview.                                                *)
(*                                                                          *)
(* Of the evidence categories there is one, since patterns of different     *)
(* categories have nothing in common; an item is the capture and the        *)
(* competitor it was found at. The transactions of one lead exclude each    *)
(* other through the unique version indexes: the loser fails and leaves     *)
(* nothing.                                                                 *)
(***************************************************************************)
EXTENDS Naturals, FiniteSets, Sequences

CONSTANTS
  Desks,         \* terminals at which commands run
  Competitors,
  SelectedFor,   \* what a research input selects: a sequence of sets of competitors
  MaxAgeDays,    \* COMPETITOR_EVIDENCE_MAX_AGE_DAYS
  LastDay,       \* bounds
  MaxProspectCaptures,
  MaxCaptures,
  MaxInvalid,
  MaxPackages,
  MaxLetters

ASSUME EvidenceAssumption ==
  /\ {MaxAgeDays, LastDay, MaxProspectCaptures, MaxCaptures, MaxInvalid, MaxPackages, MaxLetters} \subseteq Nat
  /\ IsFiniteSet(Competitors) /\ SelectedFor \in Seq(SUBSET Competitors)

VARIABLES
  today,
  prospectCapture,   \* the newest capture of the prospect's own site
  research,    \* research runs by version
  captures,    \* capture runs, in the order they were inserted
  invalid,     \* items an operator has invalidated
  patterns,    \* pattern packages by version
  letters,     \* e-mails enriched from a package
  desk         \* the command under way at each terminal

evidenceVars == <<today, prospectCapture, research, captures, invalid, patterns, letters, desk>>

ResearchRun == [input : DOMAIN SelectedFor, status : {"DRAFT", "SUPERSEDED"}]
CaptureRun == [of : Nat, content : SUBSET Competitors, status : {"DRAFT", "SUPERSEDED"}, day : 0..LastDay]
PackageStatuses == {"DRAFT", "APPROVED", "REJECTED", "SUPERSEDED", "INVALIDATED"}
PatternPackage == [of : Nat, capture : Nat, prospect : Nat, eligible : SUBSET Competitors, status : PackageStatuses]
Letter == [package : Nat, cites : SUBSET Competitors, revalidatedAt : 0..LastDay]
DeskState == [at : {"free", "captured", "built", "rechecked", "composed"}, of : Nat, capture : Nat, package : Nat,
              prospect : Nat, found : SUBSET Competitors, day : 0..LastDay]

FreeDesk == [at |-> "free", of |-> 0, capture |-> 0, package |-> 0, prospect |-> 0, found |-> {}, day |-> 0]

EvidenceTypeOK ==
  /\ today \in 0..LastDay /\ prospectCapture \in 0..MaxProspectCaptures
  /\ research \in Seq(ResearchRun) /\ captures \in Seq(CaptureRun)
  /\ invalid \subseteq (DOMAIN captures) \X Competitors
  /\ patterns \in Seq(PatternPackage) /\ letters \in Seq(Letter)
  /\ desk \in [Desks -> DeskState]

EvidenceInit ==
  /\ today = 0 /\ prospectCapture = 0
  /\ research = <<>> /\ captures = <<>> /\ invalid = {} /\ patterns = <<>> /\ letters = <<>>
  /\ desk = [d \in Desks |-> FreeDesk]

selectedIn(r) == SelectedFor[research[r].input]

(***************************************************************************)
(* Research                                                                *)
(***************************************************************************)
(* Mutant: what is superseded is archived. *)
superseded_Archived(runs, scope) == [k \in DOMAIN runs |-> [runs[k] EXCEPT !.status = "ARCHIVED"]]

superseded(runs, scope) ==
  [k \in DOMAIN runs |-> IF k \in scope /\ runs[k].status = "DRAFT" THEN [runs[k] EXCEPT !.status = "SUPERSEDED"]
                         ELSE runs[k]]

findRunByHashes(input) == {r \in DOMAIN research : research[r].input = input}

(* An input that was researched before is that run again, whatever its status. *)
competitorResearchRun ==
  /\ \E input \in DOMAIN SelectedFor :
       /\ findRunByHashes(input) = {}
       /\ research' = Append(superseded(research, DOMAIN research), [input |-> input, status |-> "DRAFT"])
  /\ UNCHANGED <<today, prospectCapture, captures, invalid, patterns, letters, desk>>

(***************************************************************************)
(* Capture                                                                 *)
(***************************************************************************)
(* The run the operator names, of whatever status, or the draft. *)
resolveResearchRun(r) == r \in DOMAIN research

(* The pages are read, then the rows are written in one transaction. *)
captureCompetitors(d) ==
  /\ desk[d].at = "free" /\ Len(captures) < MaxCaptures
  /\ \E r \in DOMAIN research : \E content \in SUBSET selectedIn(r) :
       /\ resolveResearchRun(r)
       /\ desk' = [desk EXCEPT ![d] = [FreeDesk EXCEPT !.at = "captured", !.of = r, !.found = content, !.day = today]]
  /\ UNCHANGED <<today, prospectCapture, research, captures, invalid, patterns, letters>>

(* The content hash leaves the time of the capture out. *)
findRunByContent(r, content) == {c \in DOMAIN captures : captures[c].of = r /\ captures[c].content = content}

(* Mutant: a capture is put beside the one before it. *)
supersedePriorDraftRuns_Kept(r) == captures

supersedePriorDraftRuns(r) == superseded(captures, {c \in DOMAIN captures : captures[c].of = r})

insertEvidence(s) == [of |-> s.of, content |-> s.found, status |-> "DRAFT", day |-> s.day]

persistCapture(d) ==
  /\ desk[d].at = "captured"
  /\ LET s == desk[d] IN
     captures' = IF findRunByContent(s.of, s.found) # {} THEN captures
                 ELSE Append(supersedePriorDraftRuns(s.of), insertEvidence(s))
  /\ desk' = [desk EXCEPT ![d] = FreeDesk]
  /\ UNCHANGED <<today, prospectCapture, research, invalid, patterns, letters>>

competitorCaptureInvalidate(c, m) == m \in captures[c].content /\ <<c, m>> \notin invalid

(* Any item of the lead, of whatever capture. *)
invalidateEvidence ==
  /\ Cardinality(invalid) < MaxInvalid
  /\ \E c \in DOMAIN captures, m \in Competitors :
       competitorCaptureInvalidate(c, m) /\ invalid' = invalid \cup {<<c, m>>}
  /\ UNCHANGED <<today, prospectCapture, research, captures, patterns, letters, desk>>

(***************************************************************************)
(* Patterns                                                                *)
(***************************************************************************)
(* Mutant: the freshness the item was stored with. *)
evaluateFreshness_Stored(c) == TRUE

evaluateFreshness(c) == today - captures[c].day < MaxAgeDays

(* evaluateCompetitorEvidenceEligibility and supportingEvidenceFailure. *)
usableItem(c, m) == captures[c].status = "DRAFT" /\ <<c, m>> \notin invalid /\ evaluateFreshness(c)

(* Of a capture of another research run, no item belongs to a competitor of this
   one. *)
eligibleItems(r, c) == {m \in captures[c].content \cap selectedIn(r) : captures[c].of = r /\ usableItem(c, m)}

(* Live evidence is of presence only: a brand without an item is unknown and not
   counted, so that a pattern is a pattern of all that are counted. *)
presenceResult(eligible) == IF Cardinality(eligible) < 2 THEN "INSUFFICIENT_DATA" ELSE "ALL_OBSERVED"

buildPatterns(d) ==
  /\ desk[d].at = "free" /\ Len(patterns) < MaxPackages
  /\ \E r \in DOMAIN research, c \in DOMAIN captures :
       desk' = [desk EXCEPT ![d] = [FreeDesk EXCEPT !.at = "built", !.of = r, !.capture = c,
                                                       !.prospect = prospectCapture, !.found = eligibleItems(r, c)]]
  /\ UNCHANGED <<today, prospectCapture, research, captures, invalid, patterns, letters>>

findPackageByHashes(s) ==
  {p \in DOMAIN patterns : /\ patterns[p].of = s.of /\ patterns[p].capture = s.capture
                           /\ patterns[p].prospect = s.prospect /\ patterns[p].eligible = s.found}

insertPackage(s) ==
  [of |-> s.of, capture |-> s.capture, prospect |-> s.prospect, eligible |-> s.found, status |-> "DRAFT"]

persistPatterns(d) ==
  /\ desk[d].at = "built"
  /\ LET s == desk[d] IN
     patterns' = IF findPackageByHashes(s) # {} THEN patterns
                 ELSE Append(superseded(patterns, DOMAIN patterns), insertPackage(s))
  /\ desk' = [desk EXCEPT ![d] = FreeDesk]
  /\ UNCHANGED <<today, prospectCapture, research, captures, invalid, letters>>

recheckSupportingEvidence(p) == \A m \in patterns[p].eligible : usableItem(patterns[p].capture, m)

(* A package without a positive pattern has confidence LOW. *)
isApprovable(p) == presenceResult(patterns[p].eligible) = "ALL_OBSERVED"

(* The package and its evidence are read; the update comes after. *)
competitorPatternApprove(d) ==
  /\ desk[d].at = "free"
  /\ \E p \in DOMAIN patterns :
       /\ patterns[p].status = "DRAFT" /\ isApprovable(p) /\ recheckSupportingEvidence(p)
       /\ desk' = [desk EXCEPT ![d] = [FreeDesk EXCEPT !.at = "rechecked", !.package = p]]
  /\ UNCHANGED <<today, prospectCapture, research, captures, invalid, patterns, letters>>

(* Mutant: the update names the package and not its status. *)
approvable_ById(p) == TRUE

approvable(p) == patterns[p].status = "DRAFT"

approvePackage(d) ==
  /\ desk[d].at = "rechecked"
  /\ LET p == desk[d].package IN
     patterns' = IF approvable(p) THEN [patterns EXCEPT ![p].status = "APPROVED"] ELSE patterns
  /\ desk' = [desk EXCEPT ![d] = FreeDesk]
  /\ UNCHANGED <<today, prospectCapture, research, captures, invalid, letters>>

rejectPackage ==
  /\ \E p \in DOMAIN patterns : patterns[p].status = "DRAFT" /\ patterns' = [patterns EXCEPT ![p].status = "REJECTED"]
  /\ UNCHANGED <<today, prospectCapture, research, captures, invalid, letters, desk>>

invalidatePackage ==
  /\ \E p \in DOMAIN patterns :
       patterns[p].status \in {"DRAFT", "APPROVED"} /\ patterns' = [patterns EXCEPT ![p].status = "INVALIDATED"]
  /\ UNCHANGED <<today, prospectCapture, research, captures, invalid, letters, desk>>

(***************************************************************************)
(* The enriched e-mail                                                     *)
(***************************************************************************)
(* Recomputed from what is stored now, the package has the patterns, and the
   items, that it was stored with. *)
packageHashMatches(p) == eligibleItems(patterns[p].of, patterns[p].capture) = patterns[p].eligible

outreachComposePreview(d) ==
  /\ desk[d].at = "free" /\ Len(letters) < MaxLetters
  /\ \E p \in DOMAIN patterns :
       /\ patterns[p].status = "APPROVED" /\ packageHashMatches(p) /\ recheckSupportingEvidence(p)
       /\ desk' = [desk EXCEPT ![d] = [FreeDesk EXCEPT !.at = "composed", !.package = p, !.found = patterns[p].eligible,
                                                       !.day = today]]
  /\ UNCHANGED <<today, prospectCapture, research, captures, invalid, patterns, letters>>

insertLetter(s) == [package |-> s.package, cites |-> s.found, revalidatedAt |-> s.day]

(* The e-mail is composed and checked, which may refuse it, and stored. *)
persistEnrichedEmail(d) ==
  /\ desk[d].at = "composed"
  /\ \/ letters' = Append(letters, insertLetter(desk[d]))
     \/ UNCHANGED letters
  /\ desk' = [desk EXCEPT ![d] = FreeDesk]
  /\ UNCHANGED <<today, prospectCapture, research, captures, invalid, patterns>>

(* Before there is a capture, days make no difference. *)
nextDay ==
  /\ today < LastDay /\ captures # <<>>
  /\ today' = today + 1
  /\ UNCHANGED <<prospectCapture, research, captures, invalid, patterns, letters, desk>>

(* The prospect's site is captured anew: see Intake. Only packages refer to it. *)
recaptureProspect ==
  /\ prospectCapture < MaxProspectCaptures /\ patterns # <<>>
  /\ prospectCapture' = prospectCapture + 1
  /\ UNCHANGED <<today, research, captures, invalid, patterns, letters, desk>>

EvidenceNext ==
  \/ competitorResearchRun \/ invalidateEvidence \/ rejectPackage \/ invalidatePackage \/ nextDay \/ recaptureProspect
  \/ \E d \in Desks :
       \/ captureCompetitors(d) \/ persistCapture(d) \/ buildPatterns(d) \/ persistPatterns(d)
       \/ competitorPatternApprove(d) \/ approvePackage(d) \/ outreachComposePreview(d) \/ persistEnrichedEmail(d)

EvidenceSpec == EvidenceInit /\ [][EvidenceNext]_evidenceVars

(***************************************************************************)
(* Properties                                                              *)
(***************************************************************************)
(* The newest run is the one in force, and the only one: of research runs, and of
   the captures of each research run. *)
NewestRunIsInForce ==
  /\ \A r \in DOMAIN research : research[r].status = "DRAFT" <=> r = Len(research)
  /\ \A c \in DOMAIN captures :
       captures[c].status = "DRAFT" <=> \A e \in DOMAIN captures : captures[e].of = captures[c].of => e <= c

(* An enriched e-mail cites at least two competitors, all of one capture of the
   run that selected them, none seen longer ago than evidence may be old, from a
   package that a person approved. *)
EnrichedFromApprovedEvidence ==
  \A k \in DOMAIN letters :
    LET l == letters[k] p == patterns[l.package] c == captures[p.capture] IN
    /\ p.status \in {"APPROVED", "INVALIDATED"}
    /\ c.of = p.of /\ l.cites \subseteq c.content \cap selectedIn(p.of) /\ Cardinality(l.cites) >= 2
    /\ l.revalidatedAt - c.day < MaxAgeDays

(* A decision stands: a package that was rejected, superseded or invalidated
   never becomes anything else, whatever approval was under way. *)
PackageDecisionsStand ==
  [][\A p \in DOMAIN patterns :
       patterns[p].status \in {"REJECTED", "SUPERSEDED", "INVALIDATED"} => patterns'[p].status = patterns[p].status
    ]_evidenceVars

(* Evidence in force is the newest there is, and an e-mail cites nothing else. *)
EvidenceSound == EvidenceTypeOK /\ NewestRunIsInForce /\ EnrichedFromApprovedEvidence

(***************************************************************************)
(* The inductive invariant                                                 *)
(***************************************************************************)
IsApproved(p) == patterns[p].status \in {"APPROVED", "INVALIDATED"}

(* A package is of a research run and a capture that are stored, and one that was
   approved has a pattern. *)
PackagesAreSound ==
  \A p \in DOMAIN patterns :
    /\ patterns[p].of \in DOMAIN research /\ patterns[p].capture \in DOMAIN captures
    /\ patterns[p].status = "APPROVED" => Cardinality(patterns[p].eligible) >= 2

(* What may be cited of package p as of a day. *)
Citable(p, cites, day) ==
  LET c == captures[patterns[p].capture] IN
  /\ IsApproved(p) /\ c.of = patterns[p].of
  /\ cites \subseteq c.content \cap selectedIn(patterns[p].of) /\ Cardinality(cites) >= 2
  /\ day - c.day < MaxAgeDays

(* A command goes on with what is stored. *)
DeskIsSound(s) ==
  /\ s.at = "built" => s.of \in DOMAIN research /\ s.capture \in DOMAIN captures
  /\ s.at = "rechecked" => s.package \in DOMAIN patterns /\ Cardinality(patterns[s.package].eligible) >= 2
  /\ s.at = "composed" => s.package \in DOMAIN patterns /\ Citable(s.package, s.found, s.day)

LettersAreSound ==
  \A k \in DOMAIN letters :
    letters[k].package \in DOMAIN patterns
      /\ Citable(letters[k].package, letters[k].cites, letters[k].revalidatedAt)

EvidenceInv ==
  NewestRunIsInForce /\ PackagesAreSound /\ LettersAreSound /\ \A d \in Desks : DeskIsSound(desk[d])

=============================================================================
