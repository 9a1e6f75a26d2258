------------------------------ MODULE BackProofs ------------------------------
(***************************************************************************)
(* Theorems about three parts that share no state: CompetitorEvidence,     *)
(* RenderStore and ContactResolve, for any number of sessions, rows,       *)
(* competitors, pages, leads and answers.                                  *)
(***************************************************************************)
EXTENDS CompetitorEvidence, RenderStore, ContactResolve, FiniteSetTheorems, WellFoundedInduction, TLAPS

(* A row appended to a table leaves the rows before it alone. *)
LEMMA Appended ==
  ASSUME NEW T, NEW s \in Seq(T), NEW e \in T
  PROVE  /\ Append(s, e) \in Seq(T) /\ Len(Append(s, e)) = Len(s) + 1
         /\ DOMAIN Append(s, e) = (DOMAIN s) \cup {Len(s) + 1}
         /\ \A k \in DOMAIN s : Append(s, e)[k] = s[k]
         /\ Append(s, e)[Len(s) + 1] = e
OBVIOUS

LEMMA Longer ==
  ASSUME NEW T, NEW s \in Seq(T), NEW t \in Seq(T), Len(t) = Len(s) + 1
  PROVE  /\ Len(s) \in Nat /\ DOMAIN s = 1..Len(s) /\ DOMAIN t = (DOMAIN s) \cup {Len(s) + 1}
         /\ Len(s) + 1 \notin DOMAIN s
<1>1. Len(s) \in Nat /\ DOMAIN s = 1..Len(s) /\ DOMAIN t = 1..(Len(s) + 1)
  OBVIOUS
<1>2. 1..(Len(s) + 1) = 1..Len(s) \cup {Len(s) + 1}
  BY <1>1
<1> QED BY <1>1, <1>2

(* A set of natural numbers that is not empty has a least one. *)
LEMMA LeastNumber ==
  ASSUME NEW T \in SUBSET Nat, T # {}
  PROVE  \E m \in T : \A k \in T : m <= k
<1>1. PICK x \in T : \A y \in T : <<y, x>> \notin OpToRel(<, Nat)
  BY WFMin, NatLessThanWellFounded
<1>2. ASSUME NEW y \in T PROVE x <= y
  <2>1. <<y, x>> \notin OpToRel(<, Nat)
    BY <1>1
  <2>2. ~ (y < x)
    BY <2>1 DEF OpToRel
  <2> QED BY <2>2
<1> QED BY <1>2

(***************************************************************************)
(* Competitor evidence                                                     *)
(***************************************************************************)
LEMMA EvidenceLimits ==
  /\ MaxAgeDays \in Nat /\ LastDay \in Nat /\ MaxProspectCaptures \in Nat
  /\ IsFiniteSet(Competitors) /\ SelectedFor \in Seq(SUBSET Competitors)
BY EvidenceAssumption

(***************************************************************************)
(* What superseding does to a table                                        *)
(***************************************************************************)
LEMMA ResearchSuperseded ==
  ASSUME research \in Seq(ResearchRun), NEW scope
  PROVE  /\ superseded(research, scope) \in Seq(ResearchRun)
         /\ Len(superseded(research, scope)) = Len(research)
         /\ \A k \in DOMAIN research :
              /\ superseded(research, scope)[k].input = research[k].input
              /\ superseded(research, scope)[k].status =
                   IF k \in scope THEN "SUPERSEDED" ELSE research[k].status
<1> DEFINE t == superseded(research, scope)
<1>1. ASSUME NEW k \in 1..Len(research)
      PROVE  t[k] \in ResearchRun /\ t[k].input = research[k].input
               /\ t[k].status = IF k \in scope THEN "SUPERSEDED" ELSE research[k].status
  <2>1. research[k] \in ResearchRun
    OBVIOUS
  <2>2. t[k] = IF k \in scope /\ research[k].status = "DRAFT"
               THEN [research[k] EXCEPT !.status = "SUPERSEDED"] ELSE research[k]
    BY DEF superseded
  <2> QED BY <2>1, <2>2 DEF ResearchRun
<1>2. t = [k \in 1..Len(research) |-> t[k]]
  BY DEF superseded
<1>3. t \in Seq(ResearchRun) /\ Len(t) = Len(research)
  BY <1>1, <1>2
<1> QED BY <1>1, <1>3

LEMMA CapturesSuperseded ==
  ASSUME captures \in Seq(CaptureRun), NEW scope
  PROVE  /\ superseded(captures, scope) \in Seq(CaptureRun)
         /\ Len(superseded(captures, scope)) = Len(captures)
         /\ \A k \in DOMAIN captures :
              /\ superseded(captures, scope)[k].of = captures[k].of
              /\ superseded(captures, scope)[k].content = captures[k].content
              /\ superseded(captures, scope)[k].day = captures[k].day
              /\ superseded(captures, scope)[k].status =
                   IF k \in scope THEN "SUPERSEDED" ELSE captures[k].status
<1> DEFINE t == superseded(captures, scope)
<1>1. ASSUME NEW k \in 1..Len(captures)
      PROVE  /\ t[k] \in CaptureRun /\ t[k].of = captures[k].of /\ t[k].content = captures[k].content
             /\ t[k].day = captures[k].day
             /\ t[k].status = IF k \in scope THEN "SUPERSEDED" ELSE captures[k].status
  <2>1. captures[k] \in CaptureRun
    OBVIOUS
  <2>2. t[k] = IF k \in scope /\ captures[k].status = "DRAFT"
               THEN [captures[k] EXCEPT !.status = "SUPERSEDED"] ELSE captures[k]
    BY DEF superseded
  <2> QED BY <2>1, <2>2 DEF CaptureRun
<1>2. t = [k \in 1..Len(captures) |-> t[k]]
  BY DEF superseded
<1>3. t \in Seq(CaptureRun) /\ Len(t) = Len(captures)
  BY <1>1, <1>2
<1> QED BY <1>1, <1>3

LEMMA PatternsSuperseded ==
  ASSUME patterns \in Seq(PatternPackage), NEW scope
  PROVE  /\ superseded(patterns, scope) \in Seq(PatternPackage)
         /\ Len(superseded(patterns, scope)) = Len(patterns)
         /\ \A k \in DOMAIN patterns :
              /\ superseded(patterns, scope)[k].of = patterns[k].of
              /\ superseded(patterns, scope)[k].capture = patterns[k].capture
              /\ superseded(patterns, scope)[k].eligible = patterns[k].eligible
              /\ \/ superseded(patterns, scope)[k].status = patterns[k].status
                 \/ patterns[k].status = "DRAFT" /\ superseded(patterns, scope)[k].status = "SUPERSEDED"
<1> DEFINE t == superseded(patterns, scope)
<1>1. ASSUME NEW k \in 1..Len(patterns)
      PROVE  /\ t[k] \in PatternPackage /\ t[k].of = patterns[k].of /\ t[k].capture = patterns[k].capture
             /\ t[k].eligible = patterns[k].eligible
             /\ \/ t[k].status = patterns[k].status
                \/ patterns[k].status = "DRAFT" /\ t[k].status = "SUPERSEDED"
  <2>1. patterns[k] \in PatternPackage
    OBVIOUS
  <2>2. t[k] = IF k \in scope /\ patterns[k].status = "DRAFT"
               THEN [patterns[k] EXCEPT !.status = "SUPERSEDED"] ELSE patterns[k]
    BY DEF superseded
  <2> QED BY <2>1, <2>2 DEF PatternPackage, PackageStatuses
<1>2. t = [k \in 1..Len(patterns) |-> t[k]]
  BY DEF superseded
<1>3. t \in Seq(PatternPackage) /\ Len(t) = Len(patterns)
  BY <1>1, <1>2
<1> QED BY <1>1, <1>3

(* The status of a package set by a command. *)
LEMMA Decided ==
  ASSUME patterns \in Seq(PatternPackage), NEW p \in DOMAIN patterns, NEW st \in PackageStatuses
  PROVE  LET t == [patterns EXCEPT ![p].status = st] IN
         /\ t \in Seq(PatternPackage) /\ DOMAIN t = DOMAIN patterns /\ Len(t) = Len(patterns)
         /\ t[p].status = st
         /\ \A k \in DOMAIN patterns : k # p => t[k] = patterns[k]
         /\ \A k \in DOMAIN patterns : /\ t[k].of = patterns[k].of /\ t[k].capture = patterns[k].capture
                                       /\ t[k].eligible = patterns[k].eligible
<1> DEFINE row == [patterns[p] EXCEPT !.status = st]
           t == [patterns EXCEPT ![p] = row]
<1>1. patterns[p] \in PatternPackage
  OBVIOUS
<1>2. /\ row \in PatternPackage /\ row.status = st /\ row.of = patterns[p].of
      /\ row.capture = patterns[p].capture /\ row.eligible = patterns[p].eligible
  BY <1>1 DEF PatternPackage
<1>3. t = [patterns EXCEPT ![p].status = st]
  OBVIOUS
<1> HIDE DEF row
<1>4. t \in Seq(PatternPackage) /\ DOMAIN t = DOMAIN patterns /\ Len(t) = Len(patterns)
        /\ t[p] = row /\ \A k \in DOMAIN patterns : k # p => t[k] = patterns[k]
  BY <1>2
<1> HIDE DEF t
<1> QED BY <1>2, <1>3, <1>4

(***************************************************************************)
(* Types                                                                   *)
(***************************************************************************)
LEMMA DeskTypes ==
  ASSUME EvidenceTypeOK, NEW e \in Desks, NEW s \in DeskState, desk' = [desk EXCEPT ![e] = s]
  PROVE  desk' \in [Desks -> DeskState] /\ desk'[e] = s /\ \A d \in Desks : d # e => desk'[d] = desk[d]
BY DEF EvidenceTypeOK

LEMMA FreeDeskIsSound == FreeDesk \in DeskState /\ DeskIsSound(FreeDesk)
BY EvidenceLimits DEF FreeDesk, DeskState, DeskIsSound

LEMMA InitTypes == EvidenceInit => EvidenceTypeOK
<1> SUFFICES ASSUME EvidenceInit PROVE EvidenceTypeOK
  OBVIOUS
<1>1. today \in 0..LastDay /\ prospectCapture \in 0..MaxProspectCaptures
  BY EvidenceLimits DEF EvidenceInit
<1>2. desk \in [Desks -> DeskState]
  BY FreeDeskIsSound DEF EvidenceInit
<1>3. invalid \subseteq (DOMAIN captures) \X Competitors
  BY DEF EvidenceInit
<1>4. research \in Seq(ResearchRun) /\ captures \in Seq(CaptureRun) /\ patterns \in Seq(PatternPackage)
        /\ letters \in Seq(Letter)
  BY DEF EvidenceInit
<1> QED BY <1>1, <1>2, <1>3, <1>4 DEF EvidenceTypeOK

(* Research: the runs before are superseded and the new one appended. *)
LEMMA ResearchRunStep ==
  ASSUME EvidenceTypeOK, competitorResearchRun
  PROVE  /\ research' \in Seq(ResearchRun) /\ Len(research') = Len(research) + 1
         /\ \A r \in DOMAIN research : /\ research'[r].input = research[r].input
                                       /\ research'[r].status = "SUPERSEDED"
         /\ research'[Len(research) + 1].status = "DRAFT"
<1>1. PICK input \in DOMAIN SelectedFor :
        research' = Append(superseded(research, DOMAIN research), [input |-> input, status |-> "DRAFT"])
  BY DEF competitorResearchRun
<1> DEFINE row == [input |-> input, status |-> "DRAFT"]
           t == superseded(research, DOMAIN research)
<1>2. row \in ResearchRun /\ row.status = "DRAFT"
  BY DEF ResearchRun
<1>3. /\ t \in Seq(ResearchRun) /\ Len(t) = Len(research)
      /\ \A k \in DOMAIN research : t[k].input = research[k].input /\ t[k].status = "SUPERSEDED"
  BY ResearchSuperseded DEF EvidenceTypeOK
<1>4. research \in Seq(ResearchRun)
  BY DEF EvidenceTypeOK
<1>5. research' = Append(t, row)
  BY <1>1
<1> HIDE DEF row, t
<1>6. DOMAIN research = 1..Len(research) /\ DOMAIN t = 1..Len(t)
  BY <1>3, <1>4
<1> QED BY <1>2, <1>3, <1>5, <1>6, Appended

(* A capture: nothing, or the captures of the research run before it are
   superseded and it is appended. *)
LEMMA CaptureStep ==
  ASSUME EvidenceTypeOK, NEW d \in Desks, persistCapture(d)
  PROVE  \/ captures' = captures
         \/ /\ captures' \in Seq(CaptureRun) /\ Len(captures') = Len(captures) + 1
            /\ \A c \in DOMAIN captures :
                 /\ captures'[c].of = captures[c].of /\ captures'[c].content = captures[c].content
                 /\ captures'[c].day = captures[c].day
                 /\ captures'[c].status = IF captures[c].of = desk[d].of THEN "SUPERSEDED" ELSE captures[c].status
            /\ captures'[Len(captures) + 1].status = "DRAFT"
            /\ captures'[Len(captures) + 1].of = desk[d].of
<1> DEFINE s == desk[d]
           row == insertEvidence(s)
           t == supersedePriorDraftRuns(s.of)
<1>1. s \in DeskState
  BY DEF EvidenceTypeOK
<1>2. row \in CaptureRun /\ row.status = "DRAFT" /\ row.of = s.of
  BY <1>1 DEF insertEvidence, CaptureRun, DeskState
<1>3. captures \in Seq(CaptureRun)
  BY DEF EvidenceTypeOK
<1>4. /\ t \in Seq(CaptureRun) /\ Len(t) = Len(captures)
      /\ \A c \in DOMAIN captures :
           /\ t[c].of = captures[c].of /\ t[c].content = captures[c].content /\ t[c].day = captures[c].day
           /\ t[c].status = IF captures[c].of = s.of THEN "SUPERSEDED" ELSE captures[c].status
  BY <1>3, CapturesSuperseded DEF supersedePriorDraftRuns
<1>5. CASE captures' = captures
  BY <1>5
<1>6. CASE captures' = Append(t, row)
  <2> HIDE DEF row, t
  <2>1. DOMAIN captures = 1..Len(captures) /\ DOMAIN t = 1..Len(t)
    BY <1>3, <1>4
  <2>2. /\ captures' \in Seq(CaptureRun) /\ Len(captures') = Len(captures) + 1 /\ captures'[Len(captures) + 1] = row
        /\ \A c \in DOMAIN captures : captures'[c] = t[c]
    BY <1>2, <1>4, <1>6, <2>1, Appended
  <2> QED BY <1>2, <1>4, <2>2
<1>7. captures' = captures \/ captures' = Append(t, row)
  BY DEF persistCapture
<1> QED BY <1>5, <1>6, <1>7

(* A package: nothing, or the drafts before it are superseded and it is
   appended. *)
LEMMA PatternsStep ==
  ASSUME EvidenceTypeOK, NEW d \in Desks, persistPatterns(d)
  PROVE  \/ patterns' = patterns
         \/ /\ patterns' \in Seq(PatternPackage) /\ Len(patterns') = Len(patterns) + 1
            /\ \A p \in DOMAIN patterns :
                 /\ patterns'[p].of = patterns[p].of /\ patterns'[p].capture = patterns[p].capture
                 /\ patterns'[p].eligible = patterns[p].eligible
                 /\ \/ patterns'[p].status = patterns[p].status
                    \/ patterns[p].status = "DRAFT" /\ patterns'[p].status = "SUPERSEDED"
            /\ patterns'[Len(patterns) + 1].status = "DRAFT"
            /\ patterns'[Len(patterns) + 1].of = desk[d].of
            /\ patterns'[Len(patterns) + 1].capture = desk[d].capture
<1> DEFINE s == desk[d]
           row == insertPackage(s)
           t == superseded(patterns, DOMAIN patterns)
<1>1. s \in DeskState
  BY DEF EvidenceTypeOK
<1>2. row \in PatternPackage /\ row.status = "DRAFT" /\ row.of = s.of /\ row.capture = s.capture
  BY <1>1 DEF insertPackage, PatternPackage, PackageStatuses, DeskState
<1>3. patterns \in Seq(PatternPackage)
  BY DEF EvidenceTypeOK
<1>4. /\ t \in Seq(PatternPackage) /\ Len(t) = Len(patterns)
      /\ \A p \in DOMAIN patterns :
           /\ t[p].of = patterns[p].of /\ t[p].capture = patterns[p].capture /\ t[p].eligible = patterns[p].eligible
           /\ \/ t[p].status = patterns[p].status
              \/ patterns[p].status = "DRAFT" /\ t[p].status = "SUPERSEDED"
  BY <1>3, PatternsSuperseded
<1>5. CASE patterns' = patterns
  BY <1>5
<1>6. CASE patterns' = Append(t, row)
  <2> HIDE DEF row, t
  <2>1. DOMAIN patterns = 1..Len(patterns) /\ DOMAIN t = 1..Len(t)
    BY <1>3, <1>4
  <2>2. /\ patterns' \in Seq(PatternPackage) /\ Len(patterns') = Len(patterns) + 1 /\ patterns'[Len(patterns) + 1] = row
        /\ \A p \in DOMAIN patterns : patterns'[p] = t[p]
    BY <1>2, <1>4, <1>6, <2>1, Appended
  <2> QED BY <1>2, <1>4, <2>2
<1>7. patterns' = patterns \/ patterns' = Append(t, row)
  BY DEF persistPatterns
<1> QED BY <1>5, <1>6, <1>7


LEMMA StoredPackages ==
  ASSUME EvidenceTypeOK
  PROVE  /\ \A r \in DOMAIN research : r \in Nat /\ research[r].input \in DOMAIN SelectedFor
         /\ \A c \in DOMAIN captures : /\ c \in Nat /\ captures[c].of \in Nat /\ captures[c].day \in 0..LastDay
                                       /\ captures[c].content \in SUBSET Competitors
         /\ \A p \in DOMAIN patterns : /\ p \in Nat /\ patterns[p].status \in PackageStatuses
                                       /\ patterns[p].of \in Nat /\ patterns[p].capture \in Nat
                                       /\ patterns[p].eligible \in SUBSET Competitors
<1>1. research \in Seq(ResearchRun) /\ captures \in Seq(CaptureRun) /\ patterns \in Seq(PatternPackage)
  BY DEF EvidenceTypeOK
<1>2. ASSUME NEW r \in DOMAIN research PROVE r \in Nat /\ research[r] \in ResearchRun
  BY <1>1
<1>3. ASSUME NEW c \in DOMAIN captures PROVE c \in Nat /\ captures[c] \in CaptureRun
  BY <1>1
<1>4. ASSUME NEW p \in DOMAIN patterns PROVE p \in Nat /\ patterns[p] \in PatternPackage
  BY <1>1
<1> QED BY <1>2, <1>3, <1>4 DEF ResearchRun, CaptureRun, PatternPackage

(* A decision on a package, or none. *)
LEMMA DecisionStep ==
  ASSUME EvidenceTypeOK, rejectPackage \/ invalidatePackage \/ \E d \in Desks : approvePackage(d)
  PROVE  /\ patterns' \in Seq(PatternPackage) /\ Len(patterns') = Len(patterns)
         /\ \A p \in DOMAIN patterns :
              /\ patterns'[p].of = patterns[p].of /\ patterns'[p].capture = patterns[p].capture
              /\ patterns'[p].eligible = patterns[p].eligible
              /\ \/ patterns'[p].status = patterns[p].status
                 \/ patterns[p].status = "DRAFT" /\ patterns'[p].status = "REJECTED"
                 \/ patterns[p].status \in {"DRAFT", "APPROVED"} /\ patterns'[p].status = "INVALIDATED"
                 \/ /\ patterns[p].status = "DRAFT" /\ patterns'[p].status = "APPROVED"
                    /\ \E d \in Desks : approvePackage(d) /\ p = desk[d].package
<1>1. patterns \in Seq(PatternPackage)
  BY DEF EvidenceTypeOK
<1>2. CASE patterns' = patterns
  BY <1>1, <1>2
<1>3. ASSUME NEW p \in DOMAIN patterns, NEW st \in PackageStatuses, patterns' = [patterns EXCEPT ![p].status = st]
      PROVE  /\ patterns' \in Seq(PatternPackage) /\ Len(patterns') = Len(patterns)
             /\ \A k \in DOMAIN patterns :
                  /\ patterns'[k].of = patterns[k].of /\ patterns'[k].capture = patterns[k].capture
                  /\ patterns'[k].eligible = patterns[k].eligible
             /\ patterns'[p].status = st
             /\ \A k \in DOMAIN patterns : k # p => patterns'[k].status = patterns[k].status
  BY <1>1, <1>3, Decided
<1>4. CASE rejectPackage
  <2>1. PICK p \in DOMAIN patterns :
          patterns[p].status = "DRAFT" /\ patterns' = [patterns EXCEPT ![p].status = "REJECTED"]
    BY <1>4 DEF rejectPackage
  <2>2. "REJECTED" \in PackageStatuses
    BY DEF PackageStatuses
  <2> QED BY <1>3, <2>1, <2>2
<1>5. CASE invalidatePackage
  <2>1. PICK p \in DOMAIN patterns :
          patterns[p].status \in {"DRAFT", "APPROVED"} /\ patterns' = [patterns EXCEPT ![p].status = "INVALIDATED"]
    BY <1>5 DEF invalidatePackage
  <2>2. "INVALIDATED" \in PackageStatuses
    BY DEF PackageStatuses
  <2> QED BY <1>3, <2>1, <2>2
<1>6. ASSUME NEW d \in Desks, approvePackage(d), patterns' # patterns
      PROVE  /\ desk[d].package \in DOMAIN patterns /\ patterns[desk[d].package].status = "DRAFT"
             /\ patterns' = [patterns EXCEPT ![desk[d].package].status = "APPROVED"]
  BY <1>1, <1>6 DEF approvePackage, approvable
<1>7. CASE \E d \in Desks : approvePackage(d)
  <2>1. PICK d \in Desks : approvePackage(d)
    BY <1>7
  <2>2. "APPROVED" \in PackageStatuses
    BY DEF PackageStatuses
  <2>3. CASE patterns' # patterns
    <3> DEFINE q == desk[d].package
    <3>1. q \in DOMAIN patterns /\ patterns[q].status = "DRAFT" /\ patterns' = [patterns EXCEPT ![q].status = "APPROVED"]
      BY <1>6, <2>1, <2>3
    <3>2. approvePackage(d) /\ q = desk[d].package
      BY <2>1
    <3> HIDE DEF q
    <3> QED BY <1>3, <2>2, <3>1, <3>2
  <2> QED BY <1>2, <2>3
<1> QED BY <1>4, <1>5, <1>7

(* An e-mail is stored, or refused. *)
LEMMA LetterStep ==
  ASSUME EvidenceTypeOK, NEW d \in Desks, persistEnrichedEmail(d)
  PROVE  \/ letters' = letters
         \/ /\ letters' \in Seq(Letter) /\ Len(letters') = Len(letters) + 1
            /\ \A k \in DOMAIN letters : letters'[k] = letters[k]
            /\ letters'[Len(letters) + 1] = insertLetter(desk[d])
<1>1. letters \in Seq(Letter) /\ desk[d] \in DeskState
  BY DEF EvidenceTypeOK
<1>2. insertLetter(desk[d]) \in Letter
  BY <1>1 DEF insertLetter, Letter, DeskState
<1>3. letters' = letters \/ letters' = Append(letters, insertLetter(desk[d]))
  BY DEF persistEnrichedEmail
<1> QED BY <1>1, <1>2, <1>3, Appended

(* What a command is at after each step is of the right kind. *)
LEMMA DeskStep ==
  ASSUME EvidenceTypeOK, EvidenceNext
  PROVE  desk' \in [Desks -> DeskState]
<1>1. desk \in [Desks -> DeskState] /\ today \in 0..LastDay /\ prospectCapture \in Nat /\ 0 \in 0..LastDay
  BY EvidenceLimits DEF EvidenceTypeOK
<1>2. ASSUME NEW d \in Desks, desk' = [desk EXCEPT ![d] = FreeDesk]
      PROVE  desk' \in [Desks -> DeskState]
  BY <1>2, DeskTypes, FreeDeskIsSound
<1>3. ASSUME NEW d \in Desks, captureCompetitors(d)
      PROVE  desk' \in [Desks -> DeskState]
  <2>1. PICK r \in DOMAIN research : \E content \in SUBSET selectedIn(r) :
          desk' = [desk EXCEPT ![d] = [FreeDesk EXCEPT !.at = "captured", !.of = r, !.found = content, !.day = today]]
    BY <1>3 DEF captureCompetitors
  <2>3. research[r].input \in DOMAIN SelectedFor /\ r \in Nat
    BY StoredPackages
  <2>4. selectedIn(r) \subseteq Competitors
    BY <2>3, EvidenceLimits DEF selectedIn
  <2>5. PICK content \in SUBSET selectedIn(r) :
          desk' = [desk EXCEPT ![d] = [FreeDesk EXCEPT !.at = "captured", !.of = r, !.found = content, !.day = today]]
    BY <2>1
  <2>6. [FreeDesk EXCEPT !.at = "captured", !.of = r, !.found = content, !.day = today] \in DeskState
    BY <1>1, <2>3, <2>4 DEF FreeDesk, DeskState
  <2> QED BY <2>5, <2>6, DeskTypes
<1>4. ASSUME NEW d \in Desks, buildPatterns(d)
      PROVE  desk' \in [Desks -> DeskState]
  <2>1. PICK r \in DOMAIN research, c \in DOMAIN captures :
          desk' = [desk EXCEPT ![d] = [FreeDesk EXCEPT !.at = "built", !.of = r, !.capture = c,
                                         !.prospect = prospectCapture, !.found = eligibleItems(r, c)]]
    BY <1>4 DEF buildPatterns
  <2>3. r \in Nat /\ c \in Nat /\ captures[c].content \subseteq Competitors
    BY StoredPackages
  <2>4. eligibleItems(r, c) \in SUBSET Competitors
    BY <2>3 DEF eligibleItems
  <2>5. [FreeDesk EXCEPT !.at = "built", !.of = r, !.capture = c, !.prospect = prospectCapture,
                         !.found = eligibleItems(r, c)] \in DeskState
    BY <1>1, <2>3, <2>4 DEF FreeDesk, DeskState
  <2> QED BY <2>1, <2>5, DeskTypes
<1>5. ASSUME NEW d \in Desks, competitorPatternApprove(d)
      PROVE  desk' \in [Desks -> DeskState]
  <2>1. PICK p \in DOMAIN patterns :
          desk' = [desk EXCEPT ![d] = [FreeDesk EXCEPT !.at = "rechecked", !.package = p]]
    BY <1>5 DEF competitorPatternApprove
  <2>2. p \in Nat
    BY DEF EvidenceTypeOK
  <2>3. [FreeDesk EXCEPT !.at = "rechecked", !.package = p] \in DeskState
    BY <1>1, <2>2 DEF FreeDesk, DeskState
  <2> QED BY <2>1, <2>3, DeskTypes
<1>6. ASSUME NEW d \in Desks, outreachComposePreview(d)
      PROVE  desk' \in [Desks -> DeskState]
  <2>1. PICK p \in DOMAIN patterns :
          desk' = [desk EXCEPT ![d] = [FreeDesk EXCEPT !.at = "composed", !.package = p,
                                         !.found = patterns[p].eligible, !.day = today]]
    BY <1>6 DEF outreachComposePreview
  <2>3. p \in Nat /\ patterns[p].eligible \in SUBSET Competitors
    BY StoredPackages
  <2>4. [FreeDesk EXCEPT !.at = "composed", !.package = p, !.found = patterns[p].eligible, !.day = today] \in DeskState
    BY <1>1, <2>3 DEF FreeDesk, DeskState
  <2> QED BY <2>1, <2>4, DeskTypes
<1>7. CASE desk' = desk
  BY <1>1, <1>7
<1>8. ASSUME NEW d \in Desks, persistCapture(d) \/ persistPatterns(d) \/ approvePackage(d) \/ persistEnrichedEmail(d)
      PROVE  desk' = [desk EXCEPT ![d] = FreeDesk]
  BY <1>8 DEF persistCapture, persistPatterns, approvePackage, persistEnrichedEmail
<1>9. competitorResearchRun \/ invalidateEvidence \/ rejectPackage \/ invalidatePackage \/ nextDay \/ recaptureProspect
        => desk' = desk
  BY DEF competitorResearchRun, invalidateEvidence, rejectPackage, invalidatePackage, nextDay, recaptureProspect
<1> QED BY <1>2, <1>3, <1>4, <1>5, <1>6, <1>7, <1>8, <1>9 DEF EvidenceNext


(* Which tables a step may write. *)
LEMMA OneTable ==
  ASSUME EvidenceNext
  PROVE  \/ competitorResearchRun /\ UNCHANGED <<captures, invalid, patterns, letters, today, prospectCapture>>
         \/ /\ \E d \in Desks : persistCapture(d)
            /\ UNCHANGED <<research, invalid, patterns, letters, today, prospectCapture>>
         \/ invalidateEvidence /\ UNCHANGED <<research, captures, patterns, letters, today, prospectCapture>>
         \/ /\ \E d \in Desks : persistPatterns(d)
            /\ UNCHANGED <<research, captures, invalid, letters, today, prospectCapture>>
         \/ /\ rejectPackage \/ invalidatePackage \/ \E d \in Desks : approvePackage(d)
            /\ UNCHANGED <<research, captures, invalid, letters, today, prospectCapture>>
         \/ /\ \E d \in Desks : persistEnrichedEmail(d)
            /\ UNCHANGED <<research, captures, invalid, patterns, today, prospectCapture>>
         \/ nextDay /\ UNCHANGED <<research, captures, invalid, patterns, letters, prospectCapture>>
         \/ recaptureProspect /\ UNCHANGED <<research, captures, invalid, patterns, letters, today>>
         \/ UNCHANGED <<research, captures, invalid, patterns, letters, today, prospectCapture>>
<1>1. ASSUME NEW d \in Desks,
             captureCompetitors(d) \/ buildPatterns(d) \/ competitorPatternApprove(d) \/ outreachComposePreview(d)
      PROVE  UNCHANGED <<research, captures, invalid, patterns, letters, today, prospectCapture>>
  BY <1>1 DEF captureCompetitors, buildPatterns, competitorPatternApprove, outreachComposePreview
<1>2. ASSUME NEW d \in Desks, persistCapture(d)
      PROVE  UNCHANGED <<research, invalid, patterns, letters, today, prospectCapture>>
  BY <1>2 DEF persistCapture
<1>3. ASSUME NEW d \in Desks, persistPatterns(d) \/ approvePackage(d)
      PROVE  UNCHANGED <<research, captures, invalid, letters, today, prospectCapture>>
  BY <1>3 DEF persistPatterns, approvePackage
<1>4. ASSUME NEW d \in Desks, persistEnrichedEmail(d)
      PROVE  UNCHANGED <<research, captures, invalid, patterns, today, prospectCapture>>
  BY <1>4 DEF persistEnrichedEmail
<1>5. rejectPackage \/ invalidatePackage => UNCHANGED <<research, captures, invalid, letters, today, prospectCapture>>
  BY DEF rejectPackage, invalidatePackage
<1>6. /\ competitorResearchRun => UNCHANGED <<captures, invalid, patterns, letters, today, prospectCapture>>
      /\ invalidateEvidence => UNCHANGED <<research, captures, patterns, letters, today, prospectCapture>>
      /\ nextDay => UNCHANGED <<research, captures, invalid, patterns, letters, prospectCapture>>
      /\ recaptureProspect => UNCHANGED <<research, captures, invalid, patterns, letters, today>>
  BY DEF competitorResearchRun, invalidateEvidence, nextDay, recaptureProspect
<1> QED BY <1>1, <1>2, <1>3, <1>4, <1>5, <1>6 DEF EvidenceNext

LEMMA TypesStep ==
  ASSUME EvidenceTypeOK, [EvidenceNext]_evidenceVars
  PROVE  EvidenceTypeOK'
<1>1. CASE UNCHANGED evidenceVars
  BY <1>1 DEF evidenceVars, EvidenceTypeOK
<1>2. CASE EvidenceNext
  <2>1. desk' \in [Desks -> DeskState]
    BY <1>2, DeskStep
  <2>2. today' \in 0..LastDay /\ prospectCapture' \in 0..MaxProspectCaptures
    BY <1>2, OneTable, EvidenceLimits DEF EvidenceTypeOK, nextDay, recaptureProspect
  <2>3. research' \in Seq(ResearchRun)
    BY <1>2, OneTable, ResearchRunStep DEF EvidenceTypeOK
  <2>4. captures' \in Seq(CaptureRun) /\ DOMAIN captures \subseteq DOMAIN captures'
    <3>1. captures \in Seq(CaptureRun)
      BY DEF EvidenceTypeOK
    <3>2. ASSUME NEW d \in Desks, persistCapture(d)
          PROVE  captures' \in Seq(CaptureRun) /\ DOMAIN captures \subseteq DOMAIN captures'
      <4>1. CASE captures' = captures
        BY <3>1, <4>1
      <4>2. CASE captures' \in Seq(CaptureRun) /\ Len(captures') = Len(captures) + 1
        BY <3>1, <4>2
      <4> QED BY <3>2, <4>1, <4>2, CaptureStep
    <3>3. CASE captures' = captures
      BY <3>1, <3>3
    <3> QED BY <1>2, <3>2, <3>3, OneTable
  <2>5. invalid' \subseteq (DOMAIN captures') \X Competitors
    <3>1. invalid \subseteq (DOMAIN captures) \X Competitors
      BY DEF EvidenceTypeOK
    <3>2. CASE invalid' = invalid
      BY <2>4, <3>1, <3>2
    <3>3. CASE invalidateEvidence
      BY <2>4, <3>1, <3>3 DEF invalidateEvidence
    <3> QED BY <1>2, <3>2, <3>3, OneTable
  <2>6. patterns' \in Seq(PatternPackage)
    BY <1>2, OneTable, PatternsStep, DecisionStep DEF EvidenceTypeOK
  <2>7. letters' \in Seq(Letter)
    BY <1>2, OneTable, LetterStep DEF EvidenceTypeOK
  <2> QED BY <2>1, <2>2, <2>3, <2>4, <2>5, <2>6, <2>7 DEF EvidenceTypeOK
<1> QED BY <1>1, <1>2

(***************************************************************************)
(* What is stored stays stored                                             *)
(***************************************************************************)
Kept ==
  /\ \A r \in DOMAIN research : r \in DOMAIN research' /\ research'[r].input = research[r].input
  /\ \A c \in DOMAIN captures :
       /\ c \in DOMAIN captures' /\ captures'[c].of = captures[c].of
       /\ captures'[c].content = captures[c].content /\ captures'[c].day = captures[c].day
  /\ \A p \in DOMAIN patterns :
       /\ p \in DOMAIN patterns' /\ patterns'[p].of = patterns[p].of
       /\ patterns'[p].capture = patterns[p].capture /\ patterns'[p].eligible = patterns[p].eligible
       /\ IsApproved(p) => IsApproved(p)'

LEMMA NextKeeps ==
  ASSUME EvidenceTypeOK, EvidenceNext
  PROVE  Kept
<1>1. research \in Seq(ResearchRun) /\ captures \in Seq(CaptureRun) /\ patterns \in Seq(PatternPackage)
  BY DEF EvidenceTypeOK
<1>2. \A r \in DOMAIN research : r \in DOMAIN research' /\ research'[r].input = research[r].input
  <2>1. CASE competitorResearchRun
    <3>1. DOMAIN research = 1..Len(research) /\ DOMAIN research' = 1..Len(research') /\ Len(research) \in Nat
            /\ Len(research') = Len(research) + 1
      BY <1>1, <2>1, ResearchRunStep
    <3> QED BY <2>1, <3>1, ResearchRunStep
  <2>2. CASE research' = research
    BY <2>2
  <2> QED BY <2>1, <2>2, OneTable
<1>3. \A c \in DOMAIN captures :
        /\ c \in DOMAIN captures' /\ captures'[c].of = captures[c].of
        /\ captures'[c].content = captures[c].content /\ captures'[c].day = captures[c].day
  <2>1. ASSUME NEW d \in Desks, persistCapture(d), captures' # captures
        PROVE  \A c \in DOMAIN captures :
                 /\ c \in DOMAIN captures' /\ captures'[c].of = captures[c].of
                 /\ captures'[c].content = captures[c].content /\ captures'[c].day = captures[c].day
    <3>1. DOMAIN captures = 1..Len(captures) /\ DOMAIN captures' = 1..Len(captures') /\ Len(captures) \in Nat
            /\ Len(captures') = Len(captures) + 1
      BY <1>1, <2>1, CaptureStep
    <3> QED BY <2>1, <3>1, CaptureStep
  <2>2. CASE captures' = captures
    BY <2>2
  <2> QED BY <2>1, <2>2, OneTable
<1>4. \A p \in DOMAIN patterns :
        /\ p \in DOMAIN patterns' /\ patterns'[p].of = patterns[p].of
        /\ patterns'[p].capture = patterns[p].capture /\ patterns'[p].eligible = patterns[p].eligible
        /\ IsApproved(p) => IsApproved(p)'
  <2>1. ASSUME NEW d \in Desks, persistPatterns(d), patterns' # patterns
        PROVE  \A p \in DOMAIN patterns :
                 /\ p \in DOMAIN patterns' /\ patterns'[p].of = patterns[p].of
                 /\ patterns'[p].capture = patterns[p].capture /\ patterns'[p].eligible = patterns[p].eligible
                 /\ IsApproved(p) => IsApproved(p)'
    <3>1. DOMAIN patterns = 1..Len(patterns) /\ DOMAIN patterns' = 1..Len(patterns') /\ Len(patterns) \in Nat
            /\ Len(patterns') = Len(patterns) + 1
      BY <1>1, <2>1, PatternsStep
    <3> QED BY <2>1, <3>1, PatternsStep DEF IsApproved
  <2>2. CASE rejectPackage \/ invalidatePackage \/ \E d \in Desks : approvePackage(d)
    <3>1. DOMAIN patterns = 1..Len(patterns) /\ DOMAIN patterns' = 1..Len(patterns') /\ Len(patterns') = Len(patterns)
      BY <1>1, <2>2, DecisionStep
    <3> QED BY <2>2, <3>1, DecisionStep DEF IsApproved
  <2>3. CASE patterns' = patterns
    BY <2>3 DEF IsApproved
  <2> QED BY <2>1, <2>2, <2>3, OneTable
<1> QED BY <1>2, <1>3, <1>4 DEF Kept

(* What may be cited of a stored package may be cited of it ever after. *)
LEMMA CitableStays ==
  ASSUME PackagesAreSound, Kept, NEW p \in DOMAIN patterns, NEW cites, NEW day, Citable(p, cites, day)
  PROVE  Citable(p, cites, day)'
<1>1. patterns[p].of \in DOMAIN research /\ patterns[p].capture \in DOMAIN captures
  BY DEF PackagesAreSound
<1>2. selectedIn(patterns[p].of)' = selectedIn(patterns[p].of)
  BY <1>1 DEF Kept, selectedIn
<1>3. captures'[patterns'[p].capture].content = captures[patterns[p].capture].content
        /\ captures'[patterns'[p].capture].of = captures[patterns[p].capture].of
        /\ captures'[patterns'[p].capture].day = captures[patterns[p].capture].day
  BY <1>1 DEF Kept
<1> QED BY <1>2, <1>3 DEF Kept, Citable


(***************************************************************************)
(* The inductive invariant                                                 *)
(***************************************************************************)
LEMMA InitInv == EvidenceInit => EvidenceInv
<1> SUFFICES ASSUME EvidenceInit PROVE EvidenceInv
  OBVIOUS
<1>1. DOMAIN research = {} /\ DOMAIN captures = {} /\ DOMAIN patterns = {} /\ DOMAIN letters = {}
  BY DEF EvidenceInit
<1>2. \A d \in Desks : DeskIsSound(desk[d])
  BY DEF EvidenceInit, FreeDesk, DeskIsSound
<1> QED BY <1>1, <1>2 DEF EvidenceInv, NewestRunIsInForce, PackagesAreSound, LettersAreSound

(* A run is in force until the next one supersedes it. *)
LEMMA NewestStays ==
  ASSUME EvidenceTypeOK, NewestRunIsInForce, EvidenceNext
  PROVE  NewestRunIsInForce'
<1>1. research \in Seq(ResearchRun) /\ captures \in Seq(CaptureRun)
  BY DEF EvidenceTypeOK
<1>2. \A r \in DOMAIN research' : research'[r].status = "DRAFT" <=> r = Len(research')
  <2>1. CASE competitorResearchRun
    <3>1. DOMAIN research = 1..Len(research) /\ DOMAIN research' = 1..Len(research') /\ Len(research) \in Nat
            /\ Len(research') = Len(research) + 1
      BY <1>1, <2>1, ResearchRunStep
    <3> QED BY <2>1, <3>1, ResearchRunStep
  <2>2. CASE research' = research
    BY <2>2 DEF NewestRunIsInForce
  <2> QED BY <2>1, <2>2, OneTable
<1>3. \A c \in DOMAIN captures' :
        captures'[c].status = "DRAFT" <=> \A e \in DOMAIN captures' : captures'[e].of = captures'[c].of => e <= c
  <2>1. ASSUME NEW d \in Desks, persistCapture(d), captures' # captures, NEW c \in DOMAIN captures'
        PROVE  captures'[c].status = "DRAFT" <=> \A e \in DOMAIN captures' : captures'[e].of = captures'[c].of => e <= c
    <3> DEFINE n == Len(captures) + 1
    <3>0. captures' \in Seq(CaptureRun) /\ Len(captures') = Len(captures) + 1
      BY <2>1, CaptureStep
    <3>1. DOMAIN captures = 1..Len(captures) /\ DOMAIN captures' = (DOMAIN captures) \cup {n} /\ Len(captures) \in Nat
      BY <1>1, <3>0, Longer
    <3>2. captures'[n].status = "DRAFT" /\ captures'[n].of = desk[d].of
      BY <2>1, CaptureStep
    <3>3. \A k \in DOMAIN captures :
            /\ captures'[k].of = captures[k].of
            /\ captures'[k].status = IF captures[k].of = desk[d].of THEN "SUPERSEDED" ELSE captures[k].status
      BY <2>1, CaptureStep
    <3>4. CASE c = n
      BY <3>1, <3>2, <3>4
    <3>5. CASE c # n /\ captures[c].of = desk[d].of
      BY <2>1, <3>1, <3>2, <3>3, <3>5
    <3>6. CASE c # n /\ captures[c].of # desk[d].of
      <4>1. c \in DOMAIN captures /\ captures'[c].status = captures[c].status /\ captures'[n].of # captures'[c].of
        BY <2>1, <3>1, <3>2, <3>3, <3>6
      <4>2. captures[c].status = "DRAFT" <=> \A e \in DOMAIN captures : captures[e].of = captures[c].of => e <= c
        BY <4>1 DEF NewestRunIsInForce
      <4> QED BY <3>1, <3>3, <4>1, <4>2
    <3> QED BY <3>4, <3>5, <3>6
  <2>2. CASE captures' = captures
    BY <2>2 DEF NewestRunIsInForce
  <2> QED BY <2>1, <2>2, OneTable
<1> QED BY <1>2, <1>3 DEF NewestRunIsInForce

LEMMA PackagesStay ==
  ASSUME EvidenceTypeOK, EvidenceInv, EvidenceNext
  PROVE  PackagesAreSound'
<1>1. Kept /\ PackagesAreSound
  BY NextKeeps DEF EvidenceInv
<1>2. patterns \in Seq(PatternPackage)
  BY DEF EvidenceTypeOK
<1>3. CASE patterns' = patterns
  BY <1>1, <1>3 DEF PackagesAreSound, Kept
<1>4. ASSUME NEW d \in Desks, persistPatterns(d), patterns' # patterns, NEW p \in DOMAIN patterns'
      PROVE  /\ patterns'[p].of \in DOMAIN research' /\ patterns'[p].capture \in DOMAIN captures'
             /\ patterns'[p].status = "APPROVED" => Cardinality(patterns'[p].eligible) >= 2
  <2>1. DOMAIN patterns = 1..Len(patterns) /\ DOMAIN patterns' = (DOMAIN patterns) \cup {Len(patterns) + 1}
    BY <1>2, <1>4, PatternsStep, Longer
  <2>2. desk[d].of \in DOMAIN research' /\ desk[d].capture \in DOMAIN captures'
    BY <1>1, <1>4 DEF EvidenceInv, DeskIsSound, persistPatterns, Kept
  <2>3. CASE p = Len(patterns) + 1
    BY <1>4, <2>2, <2>3, PatternsStep
  <2>4. CASE p \in DOMAIN patterns
    <3>1. patterns'[p].of = patterns[p].of /\ patterns'[p].capture = patterns[p].capture
            /\ patterns'[p].eligible = patterns[p].eligible
            /\ (patterns'[p].status = "APPROVED" => patterns[p].status = "APPROVED")
      BY <1>4, <2>4, PatternsStep
    <3> QED BY <1>1, <2>4, <3>1 DEF PackagesAreSound, Kept
  <2> QED BY <1>4, <2>1, <2>3, <2>4
<1>5. ASSUME rejectPackage \/ invalidatePackage \/ \E d \in Desks : approvePackage(d), NEW p \in DOMAIN patterns'
      PROVE  /\ patterns'[p].of \in DOMAIN research' /\ patterns'[p].capture \in DOMAIN captures'
             /\ patterns'[p].status = "APPROVED" => Cardinality(patterns'[p].eligible) >= 2
  <2>1. p \in DOMAIN patterns
    BY <1>2, <1>5, DecisionStep
  <2>2. patterns'[p].of \in DOMAIN research' /\ patterns'[p].capture \in DOMAIN captures'
    BY <1>1, <2>1 DEF PackagesAreSound, Kept
  <2>3. ASSUME NEW d \in Desks, approvePackage(d), p = desk[d].package
        PROVE  Cardinality(patterns[p].eligible) >= 2
    BY <2>3 DEF approvePackage, EvidenceInv, DeskIsSound
  <2>4. patterns'[p].eligible = patterns[p].eligible
          /\ (patterns'[p].status = "APPROVED" =>
                \/ patterns[p].status = "APPROVED"
                \/ \E d \in Desks : approvePackage(d) /\ p = desk[d].package)
    BY <1>5, <2>1, DecisionStep
  <2> QED BY <1>1, <2>1, <2>2, <2>3, <2>4 DEF PackagesAreSound
<1> QED BY <1>3, <1>4, <1>5, OneTable DEF PackagesAreSound

LEMMA LettersStay ==
  ASSUME EvidenceTypeOK, EvidenceInv, EvidenceNext
  PROVE  LettersAreSound'
<1>1. Kept /\ PackagesAreSound /\ LettersAreSound
  BY NextKeeps DEF EvidenceInv
<1>2. letters \in Seq(Letter)
  BY DEF EvidenceTypeOK
<1>3. ASSUME NEW k \in DOMAIN letters, letters'[k] = letters[k]
      PROVE  letters'[k].package \in DOMAIN patterns'
               /\ Citable(letters[k].package, letters[k].cites, letters[k].revalidatedAt)'
  <2> DEFINE p == letters[k].package cites == letters[k].cites day == letters[k].revalidatedAt
  <2>1. p \in DOMAIN patterns /\ Citable(p, cites, day)
    BY <1>1 DEF LettersAreSound
  <2>2. p = letters'[k].package /\ cites = letters'[k].cites /\ day = letters'[k].revalidatedAt
    BY <1>3
  <2> HIDE DEF p, cites, day
  <2>3. PICK q, c, e : q = p /\ c = cites /\ e = day
    OBVIOUS
  <2>4. Citable(q, c, e)'
    BY <1>1, <2>1, <2>3, CitableStays
  <2>5. q \in DOMAIN patterns'
    BY <1>1, <2>1, <2>3 DEF Kept
  <2> QED BY <2>2, <2>3, <2>4, <2>5
<1>4. CASE letters' = letters
  BY <1>3, <1>4 DEF LettersAreSound
<1>5. ASSUME NEW d \in Desks, persistEnrichedEmail(d), letters' # letters
      PROVE  LettersAreSound'
  <2>0. PICK n : n = Len(letters) + 1
    OBVIOUS
  <2>1. DOMAIN letters' = (DOMAIN letters) \cup {n} /\ (\A k \in DOMAIN letters : letters'[k] = letters[k])
          /\ letters'[n] = insertLetter(desk[d])
    BY <1>2, <1>5, <2>0, LetterStep, Longer
  <2>2. desk[d].package \in DOMAIN patterns /\ Citable(desk[d].package, desk[d].found, desk[d].day)
    BY <1>5 DEF EvidenceInv, DeskIsSound, persistEnrichedEmail
  <2>3. letters'[n].package = desk[d].package /\ letters'[n].cites = desk[d].found
          /\ letters'[n].revalidatedAt = desk[d].day
    BY <2>1 DEF insertLetter
  <2>4. PICK q, c, e : q = desk[d].package /\ c = desk[d].found /\ e = desk[d].day
    OBVIOUS
  <2>5. Citable(q, c, e)' /\ q \in DOMAIN patterns'
    BY <1>1, <2>2, <2>4, CitableStays DEF Kept
  <2>6. letters'[n].package \in DOMAIN patterns'
          /\ Citable(letters[n].package, letters[n].cites, letters[n].revalidatedAt)'
    BY <2>3, <2>4, <2>5
  <2> QED BY <1>3, <2>1, <2>6 DEF LettersAreSound
<1> QED BY <1>4, <1>5, OneTable


(* What a person found approvable, or a writer usable, has at least two
   competitors, all seen recently enough. *)
LEMMA PatternIsShown ==
  ASSUME EvidenceTypeOK, NEW p \in DOMAIN patterns, isApprovable(p)
  PROVE  Cardinality(patterns[p].eligible) >= 2
<1>1. patterns[p].eligible \in SUBSET Competitors
  BY StoredPackages
<1>2. Cardinality(patterns[p].eligible) \in Nat
  BY <1>1, EvidenceLimits, FS_Subset, FS_CardinalityType
<1> QED BY <1>2 DEF isApprovable, presenceResult

LEMMA ComposedIsCitable ==
  ASSUME EvidenceTypeOK, EvidenceInv, NEW p \in DOMAIN patterns, patterns[p].status = "APPROVED",
         packageHashMatches(p), recheckSupportingEvidence(p)
  PROVE  Citable(p, patterns[p].eligible, today)
<1> DEFINE cites == patterns[p].eligible
           c == captures[patterns[p].capture]
<1>1. Cardinality(cites) >= 2
  BY DEF EvidenceInv, PackagesAreSound
<1>2. cites # {}
  BY <1>1, FS_EmptySet
<1>3. PICK m : m \in cites
  BY <1>2
<1>4. cites = eligibleItems(patterns[p].of, patterns[p].capture)
  BY DEF packageHashMatches
<1>5. c.of = patterns[p].of /\ cites \subseteq c.content \cap selectedIn(patterns[p].of)
  BY <1>3, <1>4 DEF eligibleItems
<1>6. today - c.day < MaxAgeDays
  BY <1>3 DEF recheckSupportingEvidence, usableItem, evaluateFreshness
<1> QED BY <1>1, <1>5, <1>6 DEF Citable, IsApproved

LEMMA DesksStay ==
  ASSUME EvidenceTypeOK, EvidenceInv, EvidenceNext
  PROVE  \A d \in Desks : DeskIsSound(desk[d])'
<1>1. Kept /\ PackagesAreSound /\ desk \in [Desks -> DeskState]
  BY NextKeeps DEF EvidenceInv, EvidenceTypeOK
<1>2. ASSUME NEW d \in Desks, desk'[d] = desk[d]
      PROVE  DeskIsSound(desk[d])'
  <2>1. PICK s : s = desk[d]
    OBVIOUS
  <2>2. DeskIsSound(s)
    BY <2>1 DEF EvidenceInv
  <2>3. s.at = "composed" => s.package \in DOMAIN patterns' /\ Citable(s.package, s.found, s.day)'
    <3>1. PICK q, c, e : q = s.package /\ c = s.found /\ e = s.day
      OBVIOUS
    <3>2. s.at = "composed" => q \in DOMAIN patterns /\ Citable(q, c, e)
      BY <2>2, <3>1 DEF DeskIsSound
    <3>3. s.at = "composed" => q \in DOMAIN patterns' /\ Citable(q, c, e)'
      BY <1>1, <3>2, CitableStays DEF Kept
    <3> QED BY <3>1, <3>3
  <2>4. s.at = "built" => s.of \in DOMAIN research' /\ s.capture \in DOMAIN captures'
    BY <1>1, <2>2 DEF DeskIsSound, Kept
  <2>5. s.at = "rechecked" => s.package \in DOMAIN patterns' /\ Cardinality(patterns'[s.package].eligible) >= 2
    BY <1>1, <2>2 DEF DeskIsSound, Kept
  <2>6. desk'[d] = s
    BY <1>2, <2>1
  <2> QED BY <2>3, <2>4, <2>5, <2>6 DEF DeskIsSound
<1>3. ASSUME NEW e \in Desks, NEW s \in DeskState, desk' = [desk EXCEPT ![e] = s], DeskIsSound(s)'
      PROVE  \A d \in Desks : DeskIsSound(desk[d])'
  <2>1. desk'[e] = s /\ \A d \in Desks : d # e => desk'[d] = desk[d]
    BY <1>3, DeskTypes
  <2>2. DeskIsSound(desk[e])'
    BY <1>3, <2>1
  <2> QED BY <1>2, <2>1, <2>2
<1>4. CASE desk' = desk
  BY <1>2, <1>4
<1>5. ASSUME NEW d \in Desks, desk' = [desk EXCEPT ![d] = FreeDesk]
      PROVE  \A e \in Desks : DeskIsSound(desk[e])'
  <2>1. DeskIsSound(FreeDesk)'
    BY DEF FreeDesk, DeskIsSound
  <2> QED BY <1>3, <1>5, <2>1, FreeDeskIsSound
<1>6. ASSUME NEW d \in Desks,
             captureCompetitors(d) \/ buildPatterns(d) \/ competitorPatternApprove(d) \/ outreachComposePreview(d)
      PROVE  DeskIsSound(desk[d])'
  <2>0. DOMAIN desk = Desks /\ UNCHANGED <<research, captures, patterns>>
    BY <1>1, <1>6 DEF captureCompetitors, buildPatterns, competitorPatternApprove, outreachComposePreview
  <2>1. CASE captureCompetitors(d)
    <3>1. desk'[d].at = "captured"
      BY <2>0, <2>1 DEF captureCompetitors, FreeDesk
    <3> QED BY <3>1 DEF DeskIsSound
  <2>2. CASE buildPatterns(d)
    <3>1. desk'[d].at = "built" /\ desk'[d].of \in DOMAIN research /\ desk'[d].capture \in DOMAIN captures
      BY <2>0, <2>2 DEF buildPatterns, FreeDesk
    <3> QED BY <2>0, <3>1 DEF DeskIsSound
  <2>3. CASE competitorPatternApprove(d)
    <3>1. PICK p \in DOMAIN patterns :
            /\ isApprovable(p)
            /\ desk' = [desk EXCEPT ![d] = [FreeDesk EXCEPT !.at = "rechecked", !.package = p]]
      BY <2>3 DEF competitorPatternApprove
    <3>2. desk'[d].at = "rechecked" /\ desk'[d].package = p
      BY <2>0, <3>1 DEF FreeDesk
    <3>3. Cardinality(patterns[p].eligible) >= 2
      BY <3>1, PatternIsShown
    <3> QED BY <2>0, <3>2, <3>3 DEF DeskIsSound
  <2>4. CASE outreachComposePreview(d)
    <3>1. PICK p \in DOMAIN patterns :
            /\ patterns[p].status = "APPROVED" /\ packageHashMatches(p) /\ recheckSupportingEvidence(p)
            /\ desk' = [desk EXCEPT ![d] = [FreeDesk EXCEPT !.at = "composed", !.package = p,
                                              !.found = patterns[p].eligible, !.day = today]]
      BY <2>4 DEF outreachComposePreview
    <3>2. PICK c, e : c = patterns[p].eligible /\ e = today
      OBVIOUS
    <3>3. Citable(p, c, e)
      BY <3>1, <3>2, ComposedIsCitable
    <3>4. Citable(p, c, e)'
      BY <1>1, <3>3, CitableStays
    <3>5. desk'[d].at = "composed" /\ desk'[d].package = p /\ desk'[d].found = c /\ desk'[d].day = e
      BY <2>0, <3>1, <3>2 DEF FreeDesk
    <3> QED BY <2>0, <3>4, <3>5 DEF DeskIsSound
  <2> QED BY <1>6, <2>1, <2>2, <2>3, <2>4
<1>7. ASSUME NEW d \in Desks,
             captureCompetitors(d) \/ buildPatterns(d) \/ competitorPatternApprove(d) \/ outreachComposePreview(d)
      PROVE  \A e \in Desks : e # d => desk'[e] = desk[e]
  <2>1. \E s : desk' = [desk EXCEPT ![d] = s]
    BY <1>7 DEF captureCompetitors, buildPatterns, competitorPatternApprove, outreachComposePreview
  <2> QED BY <1>1, <2>1
<1>8. ASSUME NEW d \in Desks, persistCapture(d) \/ persistPatterns(d) \/ approvePackage(d) \/ persistEnrichedEmail(d)
      PROVE  desk' = [desk EXCEPT ![d] = FreeDesk]
  BY <1>8 DEF persistCapture, persistPatterns, approvePackage, persistEnrichedEmail
<1>9. competitorResearchRun \/ invalidateEvidence \/ rejectPackage \/ invalidatePackage \/ nextDay \/ recaptureProspect
        => desk' = desk
  BY DEF competitorResearchRun, invalidateEvidence, rejectPackage, invalidatePackage, nextDay, recaptureProspect
<1>10. ASSUME NEW d \in Desks,
              captureCompetitors(d) \/ buildPatterns(d) \/ competitorPatternApprove(d) \/ outreachComposePreview(d)
       PROVE  \A e \in Desks : DeskIsSound(desk[e])'
  BY <1>2, <1>6, <1>7, <1>10
<1> QED BY <1>4, <1>5, <1>8, <1>9, <1>10 DEF EvidenceNext

(* Rows refer to what is stored, an approved package has a pattern, and every
   command under way and every stored e-mail has of its package what may be cited:
   competitor-research-run to outreach-compose-preview. *)
THEOREM EvidenceInvariant == EvidenceSpec => [](EvidenceTypeOK /\ EvidenceInv)
<1>1. EvidenceInit => EvidenceTypeOK /\ EvidenceInv
  BY InitTypes, InitInv
<1>2. EvidenceTypeOK /\ EvidenceInv /\ [EvidenceNext]_evidenceVars => EvidenceTypeOK' /\ EvidenceInv'
  <2> SUFFICES ASSUME EvidenceTypeOK, EvidenceInv, [EvidenceNext]_evidenceVars
               PROVE  EvidenceTypeOK' /\ EvidenceInv'
    OBVIOUS
  <2>1. EvidenceTypeOK'
    BY TypesStep
  <2>2. CASE EvidenceNext
    <3>1. NewestRunIsInForce'
      BY <2>2, NewestStays DEF EvidenceInv
    <3>2. PackagesAreSound' /\ LettersAreSound' /\ \A d \in Desks : DeskIsSound(desk[d])'
      BY <2>2, PackagesStay, LettersStay, DesksStay
    <3> QED BY <2>1, <3>1, <3>2 DEF EvidenceInv
  <2>3. CASE UNCHANGED evidenceVars
    <3>1. ASSUME NEW d \in Desks PROVE DeskIsSound(desk[d])'
      BY <2>3 DEF evidenceVars, EvidenceInv, DeskIsSound, Citable, IsApproved, selectedIn
    <3>2. NewestRunIsInForce' /\ PackagesAreSound'
      BY <2>3 DEF evidenceVars, EvidenceInv, NewestRunIsInForce, PackagesAreSound
    <3>3. LettersAreSound'
      BY <2>3 DEF evidenceVars, EvidenceInv, LettersAreSound, Citable, IsApproved, selectedIn
    <3> QED BY <2>1, <3>1, <3>2, <3>3 DEF EvidenceInv
  <2> QED BY <2>2, <2>3
<1> QED BY <1>1, <1>2, PTL DEF EvidenceSpec

(* The newest research run and the newest capture of a run are the ones in force,
   and an enriched e-mail cites two or more competitors of one capture, selected,
   recent, and from a package that a person approved. *)
THEOREM EvidenceIsSound == EvidenceSpec => []EvidenceSound
<1>1. EvidenceTypeOK /\ EvidenceInv => EvidenceSound
  <2> SUFFICES ASSUME EvidenceTypeOK, EvidenceInv PROVE EnrichedFromApprovedEvidence
    BY DEF EvidenceSound, EvidenceInv
  <2> QED BY DEF EvidenceInv, LettersAreSound, Citable, IsApproved, EnrichedFromApprovedEvidence
<1> QED BY <1>1, EvidenceInvariant, PTL

(* A package that was rejected, superseded or invalidated stays so, whatever
   approval read it before: the update of competitor-pattern-approve names the
   status it expects. *)
THEOREM DecisionsStand == EvidenceSpec => PackageDecisionsStand
<1> DEFINE Stands == \A p \in DOMAIN patterns :
       patterns[p].status \in {"REJECTED", "SUPERSEDED", "INVALIDATED"} => patterns'[p].status = patterns[p].status
<1>1. EvidenceTypeOK /\ [EvidenceNext]_evidenceVars => [Stands]_evidenceVars
  <2> SUFFICES ASSUME EvidenceTypeOK, EvidenceNext PROVE Stands
    OBVIOUS
  <2>1. CASE patterns' = patterns
    BY <2>1
  <2>2. ASSUME NEW d \in Desks, persistPatterns(d)
        PROVE  Stands
    BY <2>1, <2>2, PatternsStep
  <2>3. CASE rejectPackage \/ invalidatePackage \/ \E d \in Desks : approvePackage(d)
    BY <2>3, DecisionStep
  <2> QED BY <2>1, <2>2, <2>3, OneTable
<1>2. EvidenceInit => EvidenceTypeOK
  BY InitTypes
<1>3. EvidenceTypeOK /\ [EvidenceNext]_evidenceVars => EvidenceTypeOK'
  BY TypesStep
<1> QED BY <1>1, <1>2, <1>3, PTL DEF EvidenceSpec, PackageDecisionsStand

(***************************************************************************)
(* The versions of a page                                                  *)
(***************************************************************************)
(* Rows rewritten one by one. *)
LEMMA Rewritten ==
  ASSUME NEW T, NEW s \in Seq(T), NEW t, t = [k \in DOMAIN s |-> t[k]], \A k \in DOMAIN s : t[k] \in T
  PROVE  t \in Seq(T) /\ Len(t) = Len(s) /\ DOMAIN t = DOMAIN s
<1>1. DOMAIN s = 1..Len(s) /\ Len(s) \in Nat
  OBVIOUS
<1>2. t \in [1..Len(s) -> T]
  BY <1>1
<1>3. t \in Seq(T) /\ Len(t) = Len(s)
  BY <1>1, <1>2
<1> QED BY <1>1, <1>2, <1>3

(* One row replaced, if it is there. *)
LEMMA Replaced ==
  ASSUME NEW T, NEW s \in Seq(T), NEW x, NEW e \in T, NEW t, t = [s EXCEPT ![x] = e]
  PROVE  t \in Seq(T) /\ DOMAIN t = DOMAIN s /\ \A k \in DOMAIN s : t[k] = IF k = x THEN e ELSE s[k]
<1>1. s \in [1..Len(s) -> T] /\ Len(s) \in Nat /\ DOMAIN s = 1..Len(s)
  OBVIOUS
<1>2. PICK n \in Nat : n = Len(s)
  BY <1>1
<1>3. t \in [1..n -> T] /\ \A k \in 1..n : t[k] = IF k = x THEN e ELSE s[k]
  BY <1>1, <1>2
<1>4. t \in Seq(T) /\ DOMAIN t = 1..n
  BY <1>3
<1> QED BY <1>1, <1>2, <1>3, <1>4

LEMMA StoredVersions ==
  ASSUME StoreTypeOK
  PROVE  /\ \A k \in DOMAIN versions : /\ k \in Nat \ {0} /\ versions[k] \in Version
                                       /\ versions[k].artifact \in Nat /\ versions[k].no \in Nat
                                       /\ versions[k].render \in Renders /\ versions[k].current \in BOOLEAN
         /\ \A k \in DOMAIN packages : packages[k] \in ReviewPackage
         /\ \A k \in DOMAIN looks : looks[k] \in Look
         /\ \A k \in DOMAIN approvals : approvals[k] \in Approval
<1>1. /\ versions \in Seq(Version) /\ packages \in Seq(ReviewPackage) /\ looks \in Seq(Look)
      /\ approvals \in Seq(Approval)
  BY DEF StoreTypeOK
<1>2. ASSUME NEW k \in DOMAIN versions PROVE k \in Nat \ {0} /\ versions[k] \in Version
  BY <1>1
<1>3. ASSUME NEW k \in DOMAIN packages PROVE packages[k] \in ReviewPackage
  BY <1>1
<1>4. ASSUME NEW k \in DOMAIN looks PROVE looks[k] \in Look
  BY <1>1
<1>5. ASSUME NEW k \in DOMAIN approvals PROVE approvals[k] \in Approval
  BY <1>1
<1> QED BY <1>2, <1>3, <1>4, <1>5 DEF Version

(***************************************************************************)
(* A version and its package                                               *)
(***************************************************************************)
LEMMA VersionAdded ==
  ASSUME StoreTypeOK, NEW a \in Nat, NEW r \in Renders, NEW prior \in Nat, NEW no \in Nat,
         NEW n, n = Len(versions) + 1, NEW t, t = withVersion(a, r, prior, no)
  PROVE  /\ t \in Seq(Version) /\ Len(t) = n
         /\ \A k \in DOMAIN versions :
              /\ t[k].artifact = versions[k].artifact /\ t[k].no = versions[k].no /\ t[k].render = versions[k].render
              /\ t[k].current = (versions[k].current /\ k # prior)
              /\ t[k].by = IF k = prior THEN n ELSE versions[k].by
         /\ t[n] = [artifact |-> a, no |-> no, render |-> r, current |-> TRUE, by |-> 0]
<1> DEFINE s == [k \in DOMAIN versions |->
                   IF k = prior THEN [versions[k] EXCEPT !.current = FALSE, !.by = n] ELSE versions[k]]
           row == [artifact |-> a, no |-> no, render |-> r, current |-> TRUE, by |-> 0]
<1>1. row \in Version
  BY DEF Version
<1>2. versions \in Seq(Version) /\ n \in Nat
  BY DEF StoreTypeOK
<1>3. ASSUME NEW k \in DOMAIN versions
      PROVE  /\ s[k] \in Version
             /\ s[k].artifact = versions[k].artifact /\ s[k].no = versions[k].no /\ s[k].render = versions[k].render
             /\ s[k].current = (versions[k].current /\ k # prior)
             /\ s[k].by = IF k = prior THEN n ELSE versions[k].by
  <2>1. versions[k] \in Version
    BY StoredVersions
  <2>2. CASE k = prior
    BY <1>2, <2>1, <2>2 DEF Version
  <2>3. CASE k # prior
    BY <2>1, <2>3 DEF Version
  <2> QED BY <2>2, <2>3
<1>4. s = [k \in DOMAIN versions |-> s[k]]
  OBVIOUS
<1>5. withVersion(a, r, prior, no) = Append(s, row)
  BY DEF withVersion
<1> HIDE DEF s, row
<1>7. s \in Seq(Version) /\ Len(s) = Len(versions) /\ DOMAIN s = DOMAIN versions
  BY <1>2, <1>3, <1>4, Rewritten
<1>8. /\ Append(s, row) \in Seq(Version) /\ Len(Append(s, row)) = n /\ Append(s, row)[n] = row
      /\ \A k \in DOMAIN versions : Append(s, row)[k] = s[k]
  BY <1>1, <1>7, Appended
<1> QED BY <1>3, <1>5, <1>8 DEF row

LEMMA PackageAdded ==
  ASSUME StoreTypeOK, NEW v \in Nat, NEW shots \in SUBSET (Renders \cup {"nothing"}), NEW alone \in BOOLEAN,
         versions'[v].render \in Renders,
         NEW n, n = Len(packages) + 1, NEW t, t = withPackage(v, shots, alone)
  PROVE  /\ t \in Seq(ReviewPackage) /\ Len(t) = n
         /\ \A k \in DOMAIN packages :
              /\ t[k].version = packages[k].version /\ t[k].render = packages[k].render
              /\ t[k].shots = packages[k].shots /\ t[k].alone = packages[k].alone
              /\ t[k].current = (packages[k].current
                                   /\ versions[packages[k].version].artifact # versions'[v].artifact)
         /\ t[n] = [version |-> v, render |-> versions'[v].render, shots |-> shots, current |-> TRUE, alone |-> alone]
<1> DEFINE s == [k \in DOMAIN packages |->
                   IF versions[packages[k].version].artifact = versions'[v].artifact
                   THEN [packages[k] EXCEPT !.current = FALSE] ELSE packages[k]]
           row == [version |-> v, render |-> versions'[v].render, shots |-> shots, current |-> TRUE, alone |-> alone]
<1>1. row \in ReviewPackage
  BY DEF ReviewPackage
<1>2. packages \in Seq(ReviewPackage)
  BY DEF StoreTypeOK
<1>3. ASSUME NEW k \in DOMAIN packages
      PROVE  /\ s[k] \in ReviewPackage
             /\ s[k].version = packages[k].version /\ s[k].render = packages[k].render
             /\ s[k].shots = packages[k].shots /\ s[k].alone = packages[k].alone
             /\ s[k].current = (packages[k].current
                                  /\ versions[packages[k].version].artifact # versions'[v].artifact)
  <2>1. packages[k] \in ReviewPackage
    BY StoredVersions
  <2>2. CASE versions[packages[k].version].artifact = versions'[v].artifact
    BY <2>1, <2>2 DEF ReviewPackage
  <2>3. CASE versions[packages[k].version].artifact # versions'[v].artifact
    BY <2>1, <2>3 DEF ReviewPackage
  <2> QED BY <2>2, <2>3
<1>4. s = [k \in DOMAIN packages |-> s[k]]
  OBVIOUS
<1>5. withPackage(v, shots, alone) = Append(s, row)
  BY DEF withPackage
<1> HIDE DEF s, row
<1>6. s \in Seq(ReviewPackage) /\ Len(s) = Len(packages) /\ DOMAIN s = DOMAIN packages
  BY <1>2, <1>3, <1>4, Rewritten
<1>7. /\ Append(s, row) \in Seq(ReviewPackage) /\ Len(Append(s, row)) = n /\ Append(s, row)[n] = row
      /\ \A k \in DOMAIN packages : Append(s, row)[k] = s[k]
  BY <1>1, <1>6, Appended
<1> QED BY <1>3, <1>5, <1>7 DEF row


(***************************************************************************)
(* The numbers of the versions                                             *)
(***************************************************************************)
LEMMA VersionsCounted ==
  ASSUME StoreTypeOK, NEW a
  PROVE  IsFiniteSet(versionsOf(a)) /\ Cardinality(versionsOf(a)) \in Nat
<1>1. DOMAIN versions = 1..Len(versions) /\ Len(versions) \in Nat
  BY DEF StoreTypeOK
<1>2. IsFiniteSet(DOMAIN versions)
  BY <1>1, FS_Interval
<1> QED BY <1>2, FS_Subset, FS_CardinalityType DEF versionsOf

(* The number the next version must have, and the version it takes the place of. *)
Follows(a, prior, no) ==
  /\ no = Cardinality(versionsOf(a)) + 1
  /\ \/ prior \in versionsOf(a) /\ versions[prior].no + 1 = no
     \/ prior = 0 /\ versionsOf(a) = {}

LEMMA NumbersStay ==
  ASSUME StoreTypeOK, VersionsAreNumbered, NEW a \in Nat, NEW r \in Renders, NEW prior \in Nat, NEW no \in Nat,
         Follows(a, prior, no), versions' = withVersion(a, r, prior, no)
  PROVE  VersionsAreNumbered'
<1>0. PICK n : n = Len(versions) + 1
  OBVIOUS
<1>a. PICK t : t = withVersion(a, r, prior, no)
  OBVIOUS
<1>b. /\ t \in Seq(Version) /\ Len(t) = n
      /\ \A k \in DOMAIN versions :
           /\ t[k].artifact = versions[k].artifact /\ t[k].no = versions[k].no /\ t[k].render = versions[k].render
           /\ t[k].current = (versions[k].current /\ k # prior)
           /\ t[k].by = IF k = prior THEN n ELSE versions[k].by
      /\ t[n] = [artifact |-> a, no |-> no, render |-> r, current |-> TRUE, by |-> 0]
  BY <1>0, <1>a, VersionAdded
<1>c. versions' = t
  BY <1>a
<1>1. /\ versions' \in Seq(Version) /\ Len(versions') = n
      /\ \A k \in DOMAIN versions :
           /\ versions'[k].artifact = versions[k].artifact /\ versions'[k].no = versions[k].no
           /\ versions'[k].current = (versions[k].current /\ k # prior)
           /\ versions'[k].by = IF k = prior THEN n ELSE versions[k].by
      /\ versions'[n] = [artifact |-> a, no |-> no, render |-> r, current |-> TRUE, by |-> 0]
  BY <1>b, <1>c
<1>2. DOMAIN versions' = (DOMAIN versions) \cup {n} /\ n \notin DOMAIN versions /\ 0 \notin DOMAIN versions
  BY <1>0, <1>1, Longer DEF StoreTypeOK
<1>3. versions'[n].artifact = a /\ versions'[n].no = no /\ versions'[n].current = TRUE
  BY <1>1
<1>4. \A b : versionsOf(b)' = IF b = a THEN versionsOf(b) \cup {n} ELSE versionsOf(b)
  BY <1>1, <1>2, <1>3 DEF versionsOf
<1>5. \A b : Cardinality(versionsOf(b)) \in Nat
  BY VersionsCounted
<1>6. Cardinality(versionsOf(a)') = no
  <2>1. n \notin versionsOf(a)
    BY <1>2 DEF versionsOf
  <2>2. Cardinality(versionsOf(a) \cup {n}) = Cardinality(versionsOf(a)) + 1
    BY <2>1, VersionsCounted, FS_AddElement
  <2> QED BY <1>4, <2>2 DEF Follows
<1>7. no = Cardinality(versionsOf(a)) + 1
  BY DEF Follows
<1>8. ASSUME NEW k \in DOMAIN versions, NEW b, b = versions[k].artifact
      PROVE  /\ versions[k].no \in 1..Cardinality(versionsOf(b))
             /\ versions[k].current <=> versions[k].no = Cardinality(versionsOf(b))
             /\ ~ versions[k].current => /\ versions[k].by \in versionsOf(b)
                                         /\ versions[versions[k].by].no = versions[k].no + 1
             /\ \A m \in versionsOf(b) : versions[m].no = versions[k].no => m = k
             /\ \A i \in 1..Cardinality(versionsOf(b)) : \E m \in versionsOf(b) : versions[m].no = i
  BY <1>8 DEF VersionsAreNumbered
<1>9. \A b : \A k \in versionsOf(b) : k \in DOMAIN versions /\ versions[k].artifact = b
  BY DEF versionsOf
<1>10. \A k \in versionsOf(a) : versions[k].no < no /\ versions[k].no \in Nat
  BY <1>5, <1>7, <1>8, <1>9
<1>11. \A i \in 1..(no - 1) : \E m \in versionsOf(a) : versions[m].no = i
  <2>1. CASE versionsOf(a) = {}
    BY <1>7, <2>1, FS_EmptySet
  <2>2. ASSUME NEW k \in versionsOf(a)
        PROVE  \A i \in 1..(no - 1) : \E m \in versionsOf(a) : versions[m].no = i
    BY <1>5, <1>7, <1>8, <1>9, <2>2
  <2> QED BY <2>1, <2>2
<1>12. ASSUME NEW k \in DOMAIN versions', NEW b, b = versions'[k].artifact
       PROVE  /\ versions'[k].no \in 1..Cardinality(versionsOf(b)')
              /\ versions'[k].current <=> versions'[k].no = Cardinality(versionsOf(b)')
              /\ ~ versions'[k].current => /\ versions'[k].by \in versionsOf(b)'
                                           /\ versions'[versions'[k].by].no = versions'[k].no + 1
              /\ \A m \in versionsOf(b)' : versions'[m].no = versions'[k].no => m = k
              /\ \A i \in 1..Cardinality(versionsOf(b)') : \E m \in versionsOf(b)' : versions'[m].no = i
  <2>1. CASE b # a
    <3>1. k \in DOMAIN versions /\ k # prior /\ b = versions[k].artifact
      BY <1>1, <1>2, <1>3, <1>9, <1>12, <2>1 DEF Follows
    <3>2. versionsOf(b)' = versionsOf(b) /\ \A m \in versionsOf(b) : versions'[m].no = versions[m].no
      BY <1>1, <1>4, <1>9, <2>1
    <3>3. versions'[k].no = versions[k].no /\ versions'[k].current = versions[k].current
            /\ versions'[k].by = versions[k].by
      BY <1>1, <3>1, StoredVersions
    <3> QED BY <1>8, <3>1, <3>2, <3>3
  <2>2. CASE b = a
    <3>1. versionsOf(a)' = versionsOf(a) \cup {n}
      BY <1>4
    <3>2. \A m \in versionsOf(a) : versions'[m].no = versions[m].no /\ m \in DOMAIN versions
      BY <1>1, <1>9
    <3>3. k \in versionsOf(a) \/ k = n
      BY <1>1, <1>2, <1>12, <2>2 DEF versionsOf
    <3>4. \A i \in 1..no : \E m \in versionsOf(a)' : versions'[m].no = i
      <4>1. \A i \in 1..(no - 1) : \E m \in versionsOf(a)' : versions'[m].no = i
        BY <1>11, <3>1, <3>2
      <4>2. n \in versionsOf(a)' /\ versions'[n].no = no
        BY <1>3, <3>1
      <4>3. \A i \in 1..no : i \in 1..(no - 1) \/ i = no
        BY <1>5, <1>7
      <4> QED BY <4>1, <4>2, <4>3
    <3>5. CASE k = n
      <4>1. no \in 1..no
        BY <1>5, <1>7
      <4>2. \A m \in versionsOf(a)' : versions'[m].no = no => m = n
        BY <1>10, <3>1, <3>2
      <4> QED BY <1>3, <1>6, <2>2, <3>4, <3>5, <4>1, <4>2
    <3>6. CASE k \in versionsOf(a)
      <4>1. k \in DOMAIN versions /\ versions[k].artifact = a /\ versions'[k].no = versions[k].no
              /\ versions[k].no \in 1..(no - 1)
        BY <1>5, <1>7, <1>8, <1>9, <3>2, <3>6
      <4>2. versions'[k].no \in 1..no /\ versions'[k].no # no
        BY <1>5, <1>7, <4>1
      <4>3. \A m \in versionsOf(a)' : versions'[m].no = versions'[k].no => m = k
        BY <1>3, <1>8, <3>1, <3>2, <4>1, <4>2
      <4>4. ~ versions'[k].current /\ versions'[k].by \in versionsOf(a)'
              /\ versions'[versions'[k].by].no = versions'[k].no + 1
        <5>1. CASE k = prior
          <6>1. versions[k].no + 1 = no
            BY <1>2, <4>1, <5>1 DEF Follows
          <6>2. versions'[k].current = FALSE /\ versions'[k].by = n
            BY <1>1, <4>1, <5>1
          <6> QED BY <1>3, <3>1, <4>1, <6>1, <6>2
        <5>2. CASE k # prior
          <6>1. prior \in versionsOf(a) /\ versions[prior].no + 1 = no
            BY <3>6 DEF Follows
          <6>2. versions[prior].no # versions[k].no
            BY <1>8, <1>9, <3>6, <4>1, <5>2, <6>1
          <6>3. versions[k].no # Cardinality(versionsOf(a))
            BY <1>5, <1>7, <1>10, <6>1, <6>2
          <6>4. ~ versions[k].current /\ versions[k].by \in versionsOf(a)
                  /\ versions[versions[k].by].no = versions[k].no + 1
            BY <1>8, <4>1, <6>3
          <6>5. versions'[k].current = FALSE /\ versions'[k].by = versions[k].by
            BY <1>1, <4>1, <5>2, <6>4
          <6> QED BY <3>1, <3>2, <4>1, <6>4, <6>5
        <5> QED BY <5>1, <5>2
      <4> QED BY <1>6, <2>2, <3>4, <4>2, <4>3, <4>4
    <3> QED BY <3>3, <3>5, <3>6
  <2> QED BY <2>1, <2>2
<1> QED BY <1>12 DEF VersionsAreNumbered


(* The package of the new version takes the place of that of the version before. *)
LEMMA PackagesGrow ==
  ASSUME StoreTypeOK, VersionsAreNumbered, PackagesFollowVersions, ScreenshotsShowTheRender,
         NEW a \in Nat, NEW r \in Renders, NEW prior \in Nat, NEW no \in Nat,
         NEW shots \in SUBSET (Renders \cup {"nothing"}), NEW alone \in BOOLEAN, alone => shots = {r},
         Follows(a, prior, no), versions' = withVersion(a, r, prior, no),
         packages' = withPackage(Len(versions) + 1, shots, alone)
  PROVE  /\ versions' \in Seq(Version) /\ packages' \in Seq(ReviewPackage)
         /\ \A k \in DOMAIN versions : /\ k \in DOMAIN versions' /\ versions'[k].artifact = versions[k].artifact
                                       /\ versions'[k].no = versions[k].no
         /\ \A k \in DOMAIN packages' : /\ packages'[k].version \in DOMAIN versions'
                                        /\ packages'[k].render = versions'[packages'[k].version].render
         /\ \A v \in DOMAIN versions' :
              versions'[v].current => \E k \in DOMAIN packages' : packages'[k].current /\ packages'[k].version = v
         /\ currentOf(versions', a) # {}
         /\ \A b : currentOf(versions, b) # {} => currentOf(versions', b) # {}
         /\ ScreenshotsShowTheRender'
<1>0. PICK n, m : n = Len(versions) + 1 /\ m = Len(packages) + 1
  OBVIOUS
<1>1. /\ versions' \in Seq(Version) /\ Len(versions') = n
      /\ \A k \in DOMAIN versions :
           /\ versions'[k].artifact = versions[k].artifact /\ versions'[k].no = versions[k].no
           /\ versions'[k].render = versions[k].render
           /\ versions'[k].current = (versions[k].current /\ k # prior)
      /\ versions'[n] = [artifact |-> a, no |-> no, render |-> r, current |-> TRUE, by |-> 0]
  BY <1>0, VersionAdded
<1>2. versions'[n].artifact = a /\ versions'[n].render = r /\ versions'[n].current = TRUE
  BY <1>1
<1>3. DOMAIN versions' = (DOMAIN versions) \cup {n} /\ n \notin DOMAIN versions /\ n \in Nat
  BY <1>0, <1>1, Longer DEF StoreTypeOK
<1>4. /\ packages' \in Seq(ReviewPackage) /\ Len(packages') = m
      /\ \A k \in DOMAIN packages :
           /\ packages'[k].version = packages[k].version /\ packages'[k].render = packages[k].render
           /\ packages'[k].shots = packages[k].shots /\ packages'[k].alone = packages[k].alone
           /\ packages'[k].current = (packages[k].current /\ versions[packages[k].version].artifact # a)
      /\ packages'[m] = [version |-> n, render |-> r, shots |-> shots, current |-> TRUE, alone |-> alone]
  BY <1>0, <1>2, <1>3, PackageAdded
<1>5. DOMAIN packages' = (DOMAIN packages) \cup {m}
  <2>1. packages \in Seq(ReviewPackage) /\ packages' \in Seq(ReviewPackage) /\ Len(packages') = Len(packages) + 1
    BY <1>0, <1>4 DEF StoreTypeOK
  <2> QED BY <1>0, <2>1, Longer
<1>6. /\ packages'[m].version = n /\ packages'[m].render = r /\ packages'[m].shots = shots
      /\ packages'[m].current = TRUE /\ packages'[m].alone = alone
  BY <1>4
<1>7. ASSUME NEW v \in DOMAIN versions, versions[v].current, versions[v].artifact = a
      PROVE  v = prior
  <2>1. v \in versionsOf(a) /\ versions[v].no = Cardinality(versionsOf(a)) /\ Cardinality(versionsOf(a)) \in Nat
    BY <1>7, VersionsCounted DEF VersionsAreNumbered, versionsOf
  <2>2. prior \in versionsOf(a) /\ versions[prior].no + 1 = Cardinality(versionsOf(a)) + 1
    BY <2>1 DEF Follows
  <2>3. versions[prior].no = versions[v].no
    BY <2>1, <2>2, StoredVersions DEF versionsOf
  <2> QED BY <1>7, <2>2, <2>3 DEF VersionsAreNumbered
<1>8. ASSUME NEW k \in DOMAIN packages'
      PROVE  /\ packages'[k].version \in DOMAIN versions'
             /\ packages'[k].render = versions'[packages'[k].version].render
  <2>1. CASE k = m
    BY <1>2, <1>3, <1>6, <2>1
  <2>2. CASE k \in DOMAIN packages
    BY <1>1, <1>3, <1>4, <2>2 DEF PackagesFollowVersions
  <2> QED BY <1>5, <2>1, <2>2
<1>9. ASSUME NEW v \in DOMAIN versions', versions'[v].current
      PROVE  \E k \in DOMAIN packages' : packages'[k].current /\ packages'[k].version = v
  <2>1. CASE v = n
    BY <1>5, <1>6, <2>1
  <2>2. CASE v \in DOMAIN versions
    <3>1. versions[v].current /\ v # prior
      BY <1>1, <1>9, <2>2
    <3>2. PICK k \in DOMAIN packages : packages[k].current /\ packages[k].version = v
      BY <2>2, <3>1 DEF PackagesFollowVersions
    <3>3. versions[v].artifact # a
      BY <1>7, <2>2, <3>1
    <3>4. packages'[k].current /\ packages'[k].version = v
      BY <1>4, <3>2, <3>3
    <3> QED BY <1>5, <3>2, <3>4
  <2> QED BY <1>3, <2>1, <2>2
<1>10. currentOf(versions', a) # {}
  <2>1. n \in currentOf(versions', a)
    BY <1>2, <1>3 DEF currentOf
  <2> QED BY <2>1
<1>11. ASSUME NEW b, currentOf(versions, b) # {}
       PROVE  currentOf(versions', b) # {}
  <2>1. CASE b = a
    BY <1>10, <2>1
  <2>2. CASE b # a
    <3>1. PICK k \in DOMAIN versions : versions[k].artifact = b /\ versions[k].current
      BY <1>11 DEF currentOf
    <3>2. k # prior
      BY <2>2, <3>1, StoredVersions DEF Follows, versionsOf
    <3>3. k \in currentOf(versions', b)
      BY <1>1, <1>3, <3>1, <3>2 DEF currentOf
    <3> QED BY <3>3
  <2> QED BY <2>1, <2>2
<1>12. ScreenshotsShowTheRender'
  <2>1. ASSUME NEW k \in DOMAIN packages', packages'[k].alone
        PROVE  packages'[k].shots = {packages'[k].render}
    BY <1>4, <1>5, <1>6, <2>1 DEF ScreenshotsShowTheRender
  <2> QED BY <2>1 DEF ScreenshotsShowTheRender
<1>13. \A k \in DOMAIN versions : /\ k \in DOMAIN versions' /\ versions'[k].artifact = versions[k].artifact
                                   /\ versions'[k].no = versions[k].no
  BY <1>1, <1>3
<1>14. versions' \in Seq(Version) /\ packages' \in Seq(ReviewPackage)
  BY <1>1, <1>4
<1>15. /\ \A k \in DOMAIN packages' : /\ packages'[k].version \in DOMAIN versions'
                                      /\ packages'[k].render = versions'[packages'[k].version].render
       /\ \A v \in DOMAIN versions' :
            versions'[v].current => \E k \in DOMAIN packages' : packages'[k].current /\ packages'[k].version = v
  BY <1>8, <1>9
<1>16. \A b : currentOf(versions, b) # {} => currentOf(versions', b) # {}
  BY <1>11
<1> QED BY <1>10, <1>12, <1>13, <1>14, <1>15, <1>16, Zenon

(* The current version of an artifact is its last. *)
LEMMA CurrentIsLast ==
  ASSUME StoreTypeOK, VersionsAreNumbered, NEW a
  PROVE  /\ theCurrent(versions, a) # 0 =>
              /\ theCurrent(versions, a) \in versionsOf(a) /\ theCurrent(versions, a) \in Nat
              /\ versions[theCurrent(versions, a)].no = Cardinality(versionsOf(a))
         /\ theCurrent(versions, a) = 0 => versionsOf(a) = {}
<1> DEFINE c == theCurrent(versions, a)
<1>1. ASSUME currentOf(versions, a) # {}
      PROVE  c \in currentOf(versions, a)
  BY <1>1 DEF theCurrent
<1>2. ASSUME currentOf(versions, a) # {}
      PROVE  /\ c \in versionsOf(a) /\ c \in Nat \ {0}
             /\ versions[c].no = Cardinality(versionsOf(a))
  <2> HIDE DEF c
  <2>1. c \in DOMAIN versions /\ versions[c].artifact = a /\ versions[c].current
    BY <1>1, <1>2 DEF currentOf
  <2> QED BY <2>1, StoredVersions DEF versionsOf, VersionsAreNumbered
<1>3. ASSUME currentOf(versions, a) = {}
      PROVE  versionsOf(a) = {}
  <2> SUFFICES ASSUME NEW k \in versionsOf(a) PROVE FALSE
    OBVIOUS
  <2>1. k \in DOMAIN versions /\ versions[k].artifact = a
    BY DEF versionsOf
  <2>2. Cardinality(versionsOf(a)) \in Nat /\ versions[k].no \in 1..Cardinality(versionsOf(a))
    BY <2>1, VersionsCounted DEF VersionsAreNumbered
  <2>3. PICK m \in versionsOf(a) : versions[m].no = Cardinality(versionsOf(a))
    BY <2>1, <2>2 DEF VersionsAreNumbered
  <2>4. m \in DOMAIN versions /\ versions[m].artifact = a
    BY DEF versionsOf
  <2>5. versions[m].current
    BY <2>3, <2>4 DEF VersionsAreNumbered
  <2> QED BY <1>3, <2>4, <2>5 DEF currentOf
<1>4. currentOf(versions, a) = {} => c = 0
  BY DEF theCurrent
<1> HIDE DEF c
<1> QED BY <1>2, <1>3, <1>4 DEF c


(***************************************************************************)
(* The sessions                                                            *)
(***************************************************************************)
LEMMA EditorTypes ==
  ASSUME StoreTypeOK, NEW e \in Editors
  PROVE  /\ editor[e] \in EditorState /\ editor[e].artifact \in Nat /\ editor[e].prior \in Nat /\ editor[e].no \in Nat
         /\ editor[e].shots \in SUBSET (Renders \cup {"nothing"}) /\ editor[e].alone \in BOOLEAN
         /\ editor[e].dir \in OutDirs \cup {"none"} /\ editor[e].render \in Renders \cup {"none"}
<1>1. editor[e] \in EditorState
  BY DEF StoreTypeOK
<1> QED BY <1>1 DEF EditorState

LEMMA NoEditorIsSound == NoEditor \in EditorState /\ EditorIsSound(NoEditor) /\ EditorIsSound(NoEditor)'
BY DEF NoEditor, EditorState, EditorIsSound

(* Versions keep their artifact and their number. *)
VersionsStay ==
  \A k \in DOMAIN versions : /\ k \in DOMAIN versions' /\ versions'[k].artifact = versions[k].artifact
                             /\ versions'[k].no = versions[k].no

LEMMA EditorStays ==
  ASSUME VersionsStay, outDir' = outDir, NEW s, EditorIsSound(s)
  PROVE  EditorIsSound(s)'
<1>1. s.pc = "rerender" => s.prior \in versionsOf(s.artifact)' /\ s.no = versions'[s.prior].no + 1
  BY DEF EditorIsSound, versionsOf, VersionsStay
<1> QED BY <1>1 DEF EditorIsSound

(* A step of one session leaves the others where they are. *)
LEMMA EditorMoves ==
  ASSUME StoreTypeOK, \A x \in Editors : EditorIsSound(editor[x]), VersionsStay, outDir' = outDir,
         NEW e \in Editors, NEW s \in EditorState, EditorIsSound(s)', step(e, s)
  PROVE  editor' \in [Editors -> EditorState] /\ \A x \in Editors : EditorIsSound(editor[x])'
<1>1. editor \in [Editors -> EditorState] /\ editor' = [editor EXCEPT ![e] = s]
  BY DEF StoreTypeOK, step
<1>2. editor' \in [Editors -> EditorState] /\ editor'[e] = s /\ \A x \in Editors : x # e => editor'[x] = editor[x]
  BY <1>1
<1>3. ASSUME NEW x \in Editors, x # e
      PROVE  EditorIsSound(editor[x])'
  <2>1. PICK t : t = editor[x]
    OBVIOUS
  <2>2. EditorIsSound(t)'
    BY <2>1, EditorStays
  <2>3. editor'[x] = t
    BY <1>2, <1>3, <2>1
  <2> QED BY <2>2, <2>3
<1>4. EditorIsSound(editor[e])'
  BY <1>2
<1> QED BY <1>2, <1>3, <1>4

LEMMA RenderStep ==
  ASSUME StoreTypeOK, \A x \in Editors : EditorIsSound(editor[x]), NEW e \in Editors, renderFixtureBundle(e)
  PROVE  /\ outDir' \in [OutDirs -> Renders \cup {"nothing"}] /\ editor' \in [Editors -> EditorState]
         /\ \A x \in Editors : EditorIsSound(editor[x])'
<1>1. PICK d \in OutDirs, r \in Renders :
        /\ outDir' = [outDir EXCEPT ![d] = r]
        /\ editor' = [x \in Editors |->
             IF x = e THEN [NoEditor EXCEPT !.pc = "rendered", !.dir = d, !.render = r]
             ELSE IF editor[x].dir = d THEN [editor[x] EXCEPT !.alone = FALSE] ELSE editor[x]]
  BY DEF renderFixtureBundle
<1>2. versions' = versions
  BY DEF renderFixtureBundle
<1>3. outDir \in [OutDirs -> Renders \cup {"nothing"}]
  BY DEF StoreTypeOK
<1>4. outDir' \in [OutDirs -> Renders \cup {"nothing"}] /\ outDir'[d] = r
        /\ \A c \in OutDirs : c # d => outDir'[c] = outDir[c]
  BY <1>1, <1>3
<1>5. ASSUME NEW x \in Editors
      PROVE  editor'[x] \in EditorState /\ EditorIsSound(editor[x])'
  <2>1. CASE x = e
    <3> DEFINE s == [NoEditor EXCEPT !.pc = "rendered", !.dir = d, !.render = r]
    <3>1. /\ s \in EditorState /\ s.pc = "rendered" /\ s.dir = d /\ s.render = r /\ s.shots = {} /\ s.alone = TRUE
      BY DEF NoEditor, EditorState
    <3>2. editor'[x] = s
      BY <1>1, <2>1
    <3> HIDE DEF s
    <3> QED BY <1>4, <3>1, <3>2 DEF EditorIsSound
  <2>2. CASE x # e /\ editor[x].dir = d
    <3> DEFINE s == [editor[x] EXCEPT !.alone = FALSE]
    <3>1. /\ s \in EditorState /\ s.pc = editor[x].pc /\ s.dir = editor[x].dir /\ s.render = editor[x].render
          /\ s.shots = editor[x].shots /\ s.artifact = editor[x].artifact /\ s.prior = editor[x].prior
          /\ s.no = editor[x].no /\ s.alone = FALSE
      BY EditorTypes DEF EditorState
    <3>2. editor'[x] = s
      BY <1>1, <2>2
    <3>3. EditorIsSound(editor[x])
      OBVIOUS
    <3> HIDE DEF s
    <3> QED BY <1>2, <3>1, <3>2, <3>3 DEF EditorIsSound, versionsOf
  <2>3. CASE x # e /\ editor[x].dir # d
    <3>1. editor'[x] = editor[x] /\ EditorIsSound(editor[x]) /\ editor[x] \in EditorState
      BY <1>1, <2>3, EditorTypes
    <3> QED BY <1>2, <1>4, <2>3, <3>1 DEF EditorIsSound, versionsOf
  <2> QED BY <2>1, <2>2, <2>3
<1>6. editor' \in [Editors -> EditorState]
  BY <1>1, <1>5
<1> QED BY <1>4, <1>5, <1>6

(* The other steps that write no version. *)
LEMMA SessionStep ==
  ASSUME StoreTypeOK, VersionsAreNumbered, \A x \in Editors : EditorIsSound(editor[x]), NEW e \in Editors,
         \/ captureScreenshots(e) \/ seedArtifact(e) \/ orchestrate(e) \/ editorStops(e) \/ rerenderRead(e)
  PROVE  editor' \in [Editors -> EditorState] /\ \A x \in Editors : EditorIsSound(editor[x])'
<1>0. outDir' = outDir /\ versions' = versions
  BY DEF captureScreenshots, seedArtifact, orchestrate, editorStops, rerenderRead
<1>1. VersionsStay
  BY <1>0 DEF VersionsStay
<1>2. ASSUME NEW s \in EditorState, EditorIsSound(s), step(e, s)
      PROVE  editor' \in [Editors -> EditorState] /\ \A x \in Editors : EditorIsSound(editor[x])'
  <2>1. EditorIsSound(s)'
    BY <1>0, <1>1, <1>2, EditorStays
  <2> QED BY <1>0, <1>1, <1>2, <2>1, EditorMoves
<1>3. /\ editor[e] \in EditorState /\ EditorIsSound(editor[e])
      /\ editor[e].dir \in OutDirs \cup {"none"} /\ editor[e].shots \in SUBSET (Renders \cup {"nothing"})
  BY EditorTypes
<1>4. outDir \in [OutDirs -> Renders \cup {"nothing"}] /\ artifacts \in Seq(ArtifactStatuses)
  BY DEF StoreTypeOK
<1>5. CASE captureScreenshots(e)
  <2>0. editor[e].pc = "rendered" /\ editor[e].dir \in OutDirs
    BY <1>3, <1>5 DEF captureScreenshots, at, EditorIsSound
  <2>1. servedFrom(e) \in Renders \cup {"nothing"} /\ (editor[e].alone => servedFrom(e) = editor[e].render)
    BY <1>3, <1>4, <2>0 DEF servedFrom, EditorIsSound
  <2> DEFINE t == editor[e]
  <2>2. ASSUME NEW s \in EditorState, s.dir = t.dir, s.render = t.render, s.alone = t.alone,
               \/ s.pc = "shot" /\ (t.alone => s.shots = {t.render})
               \/ s.pc = "rendered" /\ (t.alone => s.shots \subseteq {t.render})
        PROVE  EditorIsSound(s)
    BY <1>3, <2>0, <2>2 DEF EditorIsSound
  <2>3. CASE step(e, [editor[e] EXCEPT !.pc = "shot", !.shots = {servedFrom(e)}])
    <3> DEFINE s == [editor[e] EXCEPT !.pc = "shot", !.shots = {servedFrom(e)}]
    <3>1. s \in EditorState /\ s.pc = "shot" /\ s.shots = {servedFrom(e)} /\ s.dir = t.dir /\ s.render = t.render
            /\ s.alone = t.alone
      BY <1>3, <2>1 DEF EditorState
    <3>2. step(e, s)
      BY <2>3
    <3> HIDE DEF s
    <3> QED BY <1>2, <2>1, <2>2, <3>1, <3>2
  <2>4. CASE editor[e].shots = {} /\ step(e, [editor[e] EXCEPT !.shots = {servedFrom(e)}])
    <3> DEFINE s == [editor[e] EXCEPT !.shots = {servedFrom(e)}]
    <3>1. s \in EditorState /\ s.pc = "rendered" /\ s.shots = {servedFrom(e)} /\ s.dir = t.dir /\ s.render = t.render
            /\ s.alone = t.alone
      BY <1>3, <2>0, <2>1 DEF EditorState
    <3>2. step(e, s)
      BY <2>4
    <3> HIDE DEF s
    <3> QED BY <1>2, <2>1, <2>2, <3>1, <3>2
  <2>5. CASE /\ editor[e].shots # {}
             /\ step(e, [editor[e] EXCEPT !.pc = "shot", !.shots = @ \cup {servedFrom(e)}])
    <3> DEFINE s == [editor[e] EXCEPT !.pc = "shot", !.shots = @ \cup {servedFrom(e)}]
    <3>1. s \in EditorState /\ s.pc = "shot" /\ s.shots = t.shots \cup {servedFrom(e)} /\ s.dir = t.dir
            /\ s.render = t.render /\ s.alone = t.alone
      BY <1>3, <2>1 DEF EditorState
    <3>2. step(e, s)
      BY <2>5
    <3>3. t.alone => s.shots = {t.render}
      BY <1>3, <2>0, <2>1, <3>1 DEF EditorIsSound
    <3> HIDE DEF s
    <3> QED BY <1>2, <2>2, <3>1, <3>2, <3>3
  <2> QED BY <1>5, <2>3, <2>4, <2>5 DEF captureScreenshots
<1>6. CASE step(e, NoEditor)
  BY <1>2, <1>6, NoEditorIsSound
<1>7. CASE seedArtifact(e) /\ ~ step(e, NoEditor)
  <2> DEFINE s == [editor[e] EXCEPT !.pc = "seeded", !.artifact = Len(artifacts) + 1]
  <2>1. editor[e].pc = "shot" /\ step(e, s)
    BY <1>7 DEF seedArtifact, at
  <2>0. Len(artifacts) + 1 \in Nat
    BY <1>4
  <2>2. s \in EditorState /\ s.pc = "seeded" /\ s.dir = editor[e].dir /\ s.render = editor[e].render
          /\ s.shots = editor[e].shots /\ s.alone = editor[e].alone
    BY <1>3, <2>0 DEF EditorState
  <2> HIDE DEF s
  <2>3. EditorIsSound(s)
    BY <1>3, <2>1, <2>2 DEF EditorIsSound
  <2> QED BY <1>2, <2>1, <2>2, <2>3
<1>8. CASE orchestrate(e)
  <2> DEFINE s == [editor[e] EXCEPT !.pc = "founded"]
  <2>1. editor[e].pc = "seeded" /\ step(e, s)
    BY <1>8 DEF orchestrate, at
  <2>2. s \in EditorState /\ s.pc = "founded" /\ s.dir = editor[e].dir /\ s.render = editor[e].render
          /\ s.shots = editor[e].shots /\ s.alone = editor[e].alone
    BY <1>3 DEF EditorState
  <2> HIDE DEF s
  <2>3. EditorIsSound(s)
    BY <1>3, <2>1, <2>2 DEF EditorIsSound
  <2> QED BY <1>2, <2>1, <2>2, <2>3
<1>9. CASE rerenderRead(e)
  <2>1. PICK a \in DOMAIN artifacts, r \in Renders :
          /\ theCurrent(versions, a) # 0
          /\ step(e, [NoEditor EXCEPT !.pc = "rerender", !.artifact = a, !.render = r, !.shots = {r},
                                      !.prior = theCurrent(versions, a), !.no = nextVersion(a)])
    BY <1>9 DEF rerenderRead
  <2>2. PICK c, i : c = theCurrent(versions, a) /\ i = nextVersion(a)
    OBVIOUS
  <2>3. /\ c \in versionsOf(a) /\ c \in Nat /\ i \in Nat /\ i = versions[c].no + 1 /\ a \in Nat
    BY <1>4, <2>1, <2>2, CurrentIsLast, VersionsCounted DEF nextVersion
  <2> DEFINE s == [NoEditor EXCEPT !.pc = "rerender", !.artifact = a, !.render = r, !.shots = {r}, !.prior = c, !.no = i]
  <2>4. s \in EditorState /\ s.pc = "rerender" /\ s.artifact = a /\ s.render = r /\ s.shots = {r} /\ s.prior = c /\ s.no = i
    BY <2>3 DEF NoEditor, EditorState
  <2>5. step(e, s)
    BY <2>1, <2>2
  <2> HIDE DEF s
  <2>6. EditorIsSound(s)
    BY <2>3, <2>4 DEF EditorIsSound
  <2> QED BY <1>2, <2>4, <2>5, <2>6
<1> QED BY <1>5, <1>6, <1>7, <1>8, <1>9 DEF editorStops


(***************************************************************************)
(* A version is added                                                      *)
(***************************************************************************)
LEMMA ChainStep ==
  ASSUME StoreTypeOK, StoreInv, NEW e \in Editors, NEW prior \in Nat, NEW no \in Nat, NEW alone \in BOOLEAN,
         editor[e].render \in Renders, alone => editor[e].shots = {editor[e].render},
         Follows(editor[e].artifact, prior, no),
         versions' = withVersion(editor[e].artifact, editor[e].render, prior, no),
         packages' = withPackage(Len(versions) + 1, editor[e].shots, alone),
         step(e, NoEditor), outDir' = outDir,
         \A a \in DOMAIN artifacts' :
           artifacts'[a] = "AUTO_REVIEW_PENDING" /\ a # editor[e].artifact =>
             a \in DOMAIN artifacts /\ artifacts[a] = "AUTO_REVIEW_PENDING"
  PROVE  /\ versions' \in Seq(Version) /\ packages' \in Seq(ReviewPackage) /\ editor' \in [Editors -> EditorState]
         /\ \A x \in Editors : EditorIsSound(editor[x])'
         /\ VersionsAreNumbered' /\ PackagesFollowVersions' /\ ScreenshotsShowTheRender'
<1>0. PICK a, r, shots : a = editor[e].artifact /\ r = editor[e].render /\ shots = editor[e].shots
  OBVIOUS
<1>1. a \in Nat /\ r \in Renders /\ shots \in SUBSET (Renders \cup {"nothing"}) /\ (alone => shots = {r})
  BY <1>0, EditorTypes
<1>2. /\ Follows(a, prior, no) /\ versions' = withVersion(a, r, prior, no)
      /\ packages' = withPackage(Len(versions) + 1, shots, alone)
  BY <1>0
<1>3. /\ VersionsAreNumbered /\ PackagesFollowVersions /\ ScreenshotsShowTheRender
      /\ \A x \in Editors : EditorIsSound(editor[x])
  BY DEF StoreInv
<1>4. VersionsAreNumbered'
  BY <1>1, <1>2, <1>3, NumbersStay
<1>5. /\ versions' \in Seq(Version) /\ packages' \in Seq(ReviewPackage)
      /\ \A k \in DOMAIN versions : /\ k \in DOMAIN versions' /\ versions'[k].artifact = versions[k].artifact
                                    /\ versions'[k].no = versions[k].no
      /\ \A k \in DOMAIN packages' : /\ packages'[k].version \in DOMAIN versions'
                                     /\ packages'[k].render = versions'[packages'[k].version].render
      /\ \A v \in DOMAIN versions' :
           versions'[v].current => \E k \in DOMAIN packages' : packages'[k].current /\ packages'[k].version = v
      /\ currentOf(versions', a) # {}
      /\ \A b : currentOf(versions, b) # {} => currentOf(versions', b) # {}
      /\ ScreenshotsShowTheRender'
  BY <1>1, <1>2, <1>3, PackagesGrow
<1>6. VersionsStay
  BY <1>5 DEF VersionsStay
<1>7. editor' \in [Editors -> EditorState] /\ \A x \in Editors : EditorIsSound(editor[x])'
  BY <1>3, <1>6, NoEditorIsSound, EditorMoves
<1>8. \A b \in DOMAIN artifacts' : artifacts'[b] = "AUTO_REVIEW_PENDING" => currentOf(versions', b) # {}
  BY <1>0, <1>3, <1>5 DEF PackagesFollowVersions
<1>9. PackagesFollowVersions'
  BY <1>5, <1>8 DEF PackagesFollowVersions
<1> QED BY <1>4, <1>5, <1>7, <1>9

LEMMA RowsUntouched ==
  ASSUME versions' = versions, packages' = packages
  PROVE  /\ VersionsAreNumbered => VersionsAreNumbered'
         /\ ScreenshotsShowTheRender => ScreenshotsShowTheRender'
         /\ PackagesFollowVersions /\ artifacts' = artifacts => PackagesFollowVersions'
<1>1. VersionsAreNumbered => VersionsAreNumbered'
  BY DEF VersionsAreNumbered, versionsOf
<1>2. ScreenshotsShowTheRender => ScreenshotsShowTheRender'
  BY DEF ScreenshotsShowTheRender
<1>3. PackagesFollowVersions /\ artifacts' = artifacts => PackagesFollowVersions'
  BY DEF PackagesFollowVersions, currentOf
<1> QED BY <1>1, <1>2, <1>3

LEMMA BundleStep ==
  ASSUME StoreTypeOK, StoreInv, NEW e \in Editors, persistRenderBundle(e)
  PROVE  /\ versions' \in Seq(Version) /\ packages' \in Seq(ReviewPackage) /\ editor' \in [Editors -> EditorState]
         /\ artifacts' \in Seq(ArtifactStatuses)
         /\ \A x \in Editors : EditorIsSound(editor[x])'
         /\ VersionsAreNumbered' /\ PackagesFollowVersions' /\ ScreenshotsShowTheRender'
<1>0. PICK a, c, i : a = editor[e].artifact /\ c = theCurrent(versions, a) /\ i = nextVersion(a)
  OBVIOUS
<1>1. /\ editor[e].pc = "founded" /\ step(e, NoEditor) /\ outDir' = outDir
      /\ artifacts' = [artifacts EXCEPT ![a] = "AUTO_REVIEW_PENDING"]
      /\ versions' = withVersion(a, editor[e].render, c, i)
      /\ packages' = withPackage(Len(versions) + 1, editor[e].shots, editor[e].alone)
  BY <1>0 DEF persistRenderBundle, at
<1>2. /\ EditorIsSound(editor[e]) /\ VersionsAreNumbered
  BY DEF StoreInv
<1>3. editor[e].render \in Renders /\ (editor[e].alone => editor[e].shots = {editor[e].render})
  BY <1>1, <1>2 DEF EditorIsSound
<1>4. Cardinality(versionsOf(a)) \in Nat /\ i = Cardinality(versionsOf(a)) + 1 /\ i \in Nat
  BY <1>0, VersionsCounted DEF nextVersion
<1>5. c \in Nat /\ Follows(a, c, i)
  <2>1. c = 0 => versionsOf(a) = {}
    BY <1>0, <1>2, CurrentIsLast
  <2>2. c # 0 => c \in versionsOf(a) /\ c \in Nat /\ versions[c].no = Cardinality(versionsOf(a))
    BY <1>0, <1>2, CurrentIsLast
  <2> QED BY <1>4, <2>1, <2>2 DEF Follows
<1>6. artifacts \in Seq(ArtifactStatuses) /\ "AUTO_REVIEW_PENDING" \in ArtifactStatuses
  BY DEF StoreTypeOK, ArtifactStatuses
<1>7. artifacts' \in Seq(ArtifactStatuses) /\ DOMAIN artifacts' = DOMAIN artifacts
        /\ \A b \in DOMAIN artifacts : b # a => artifacts'[b] = artifacts[b]
  BY <1>1, <1>6, Replaced
<1>8. editor[e].alone \in BOOLEAN
  BY EditorTypes
<1>9. \A b \in DOMAIN artifacts' :
        artifacts'[b] = "AUTO_REVIEW_PENDING" /\ b # editor[e].artifact =>
          b \in DOMAIN artifacts /\ artifacts[b] = "AUTO_REVIEW_PENDING"
  BY <1>0, <1>7
<1>10. Follows(editor[e].artifact, c, i) /\ versions' = withVersion(editor[e].artifact, editor[e].render, c, i)
         /\ packages' = withPackage(Len(versions) + 1, editor[e].shots, editor[e].alone)
         /\ step(e, NoEditor) /\ outDir' = outDir
  BY <1>0, <1>1, <1>5
<1> QED BY <1>3, <1>4, <1>5, <1>7, <1>8, <1>9, <1>10, ChainStep

LEMMA RerenderStep ==
  ASSUME StoreTypeOK, StoreInv, NEW e \in Editors, rerenderCommit(e)
  PROVE  /\ versions' \in Seq(Version) /\ packages' \in Seq(ReviewPackage) /\ editor' \in [Editors -> EditorState]
         /\ \A x \in Editors : EditorIsSound(editor[x])'
         /\ VersionsAreNumbered' /\ PackagesFollowVersions' /\ ScreenshotsShowTheRender'
<1>0. PICK a, c, i : a = editor[e].artifact /\ c = editor[e].prior /\ i = editor[e].no
  OBVIOUS
<1>1. editor[e].pc = "rerender" /\ step(e, NoEditor) /\ outDir' = outDir /\ artifacts' = artifacts
  BY DEF rerenderCommit, at
<1>2. /\ EditorIsSound(editor[e]) /\ VersionsAreNumbered /\ \A x \in Editors : EditorIsSound(editor[x])
  BY DEF StoreInv
<1>3. CASE numberIsFree(a, i)
  <2>1. /\ versions' = withVersion(a, editor[e].render, c, i)
        /\ packages' = withPackage(Len(versions) + 1, editor[e].shots, TRUE)
    BY <1>0, <1>3 DEF rerenderCommit
  <2>2. /\ editor[e].render \in Renders /\ editor[e].shots = {editor[e].render}
        /\ c \in versionsOf(a) /\ i = versions[c].no + 1
    BY <1>0, <1>1, <1>2 DEF EditorIsSound
  <2>3. c \in Nat /\ i \in Nat
    BY <1>0, EditorTypes
  <2>4. c \in DOMAIN versions /\ versions[c].artifact = a
    BY <2>2 DEF versionsOf
  <2>5. /\ Cardinality(versionsOf(a)) \in Nat /\ versions[c].no \in 1..Cardinality(versionsOf(a))
        /\ \A n \in 1..Cardinality(versionsOf(a)) : \E m \in versionsOf(a) : versions[m].no = n
    BY <1>2, <2>4, VersionsCounted DEF VersionsAreNumbered
  <2>6. i \notin 1..Cardinality(versionsOf(a))
    BY <1>3, <2>5 DEF numberIsFree, versionsOf
  <2>7. Follows(a, c, i)
    BY <2>2, <2>5, <2>6 DEF Follows
  <2> QED BY <1>0, <1>1, <2>1, <2>2, <2>3, <2>7, ChainStep
<1>4. CASE ~ numberIsFree(a, i)
  <2>1. versions' = versions /\ packages' = packages
    BY <1>0, <1>4 DEF rerenderCommit
  <2>2. VersionsStay
    BY <2>1 DEF VersionsStay
  <2>3. editor' \in [Editors -> EditorState] /\ \A x \in Editors : EditorIsSound(editor[x])'
    BY <1>1, <1>2, <2>2, NoEditorIsSound, EditorMoves
  <2>4. VersionsAreNumbered' /\ PackagesFollowVersions' /\ ScreenshotsShowTheRender'
    BY <1>1, <2>1, RowsUntouched DEF StoreInv
  <2> QED BY <2>1, <2>3, <2>4 DEF StoreTypeOK
<1> QED BY <1>3, <1>4

(***************************************************************************)
(* Reviews and approvals                                                   *)
(***************************************************************************)
LEMMA ReviewTypes ==
  ASSUME StoreTypeOK, persistReview \/ markStaleReviews
  PROVE  looks' \in Seq(Look)
<1>1. looks \in Seq(Look)
  BY DEF StoreTypeOK
<1>2. CASE persistReview
  <2>1. PICK v \in DOMAIN versions :
          looks' = Append([k \in DOMAIN looks |->
                     IF looks[k].artifact = versions[v].artifact THEN [looks[k] EXCEPT !.current = FALSE] ELSE looks[k]],
                     [artifact |-> versions[v].artifact, version |-> v, render |-> versions[v].render, current |-> TRUE,
                      stale |-> FALSE])
    BY <1>2 DEF persistReview
  <2> DEFINE s == [k \in DOMAIN looks |->
                     IF looks[k].artifact = versions[v].artifact THEN [looks[k] EXCEPT !.current = FALSE] ELSE looks[k]]
             row == [artifact |-> versions[v].artifact, version |-> v, render |-> versions[v].render, current |-> TRUE,
                     stale |-> FALSE]
  <2>2. row \in Look
    BY StoredVersions DEF Look
  <2>3. ASSUME NEW k \in DOMAIN looks PROVE s[k] \in Look
    <3>1. looks[k] \in Look
      BY StoredVersions
    <3> QED BY <3>1 DEF Look
  <2>4. s = [k \in DOMAIN looks |-> s[k]]
    OBVIOUS
  <2>5. looks' = Append(s, row)
    BY <2>1
  <2> HIDE DEF s, row
  <2>6. s \in Seq(Look)
    BY <1>1, <2>3, <2>4, Rewritten
  <2> QED BY <2>2, <2>5, <2>6, Appended
<1>3. CASE markStaleReviews
  <2>1. PICK a \in DOMAIN artifacts :
          looks' = [k \in DOMAIN looks |->
            IF looks[k].artifact = a /\ \A v \in currentOf(versions, a) : versions[v].render # looks[k].render
            THEN [looks[k] EXCEPT !.stale = TRUE] ELSE looks[k]]
    BY <1>3 DEF markStaleReviews
  <2>2. ASSUME NEW k \in DOMAIN looks PROVE looks'[k] \in Look
    <3>1. looks[k] \in Look
      BY StoredVersions
    <3>2. looks'[k] = [looks[k] EXCEPT !.stale = TRUE] \/ looks'[k] = looks[k]
      BY <2>1
    <3> QED BY <3>1, <3>2 DEF Look
  <2>3. looks' = [k \in DOMAIN looks |-> looks'[k]]
    BY <2>1
  <2> QED BY <1>1, <2>2, <2>3, Rewritten
<1> QED BY <1>2, <1>3

LEMMA ApprovalStep ==
  ASSUME StoreTypeOK, DecisionsAreBound, createApprovalPackage \/ recordApprovalDecision \/ invalidateApproval
  PROVE  approvals' \in Seq(Approval) /\ DecisionsAreBound'
<1>1. approvals \in Seq(Approval)
  BY DEF StoreTypeOK
<1>2. CASE createApprovalPackage
  <2>1. PICK v \in DOMAIN versions : approvals' = Append(approvals, approvalOf(v))
    BY <1>2 DEF createApprovalPackage
  <2>2. approvalOf(v) \in Approval /\ approvalOf(v).decisions = {}
    BY StoredVersions DEF approvalOf, Approval
  <2>3. PICK n : n = Len(approvals) + 1
    OBVIOUS
  <2>4. /\ approvals' \in Seq(Approval) /\ Len(approvals') = n /\ approvals'[n].decisions = {}
        /\ \A k \in DOMAIN approvals : approvals'[k] = approvals[k]
    BY <1>1, <2>1, <2>2, <2>3, Appended
  <2>5. DOMAIN approvals' = (DOMAIN approvals) \cup {n}
    BY <1>1, <2>3, <2>4, Longer
  <2> QED BY <2>4, <2>5 DEF DecisionsAreBound, assertDecisionBindings
<1>3. ASSUME NEW k \in DOMAIN approvals, NEW row \in Approval, approvals' = [approvals EXCEPT ![k] = row],
             row.artifact = approvals[k].artifact, row.render = approvals[k].render,
             \A x \in row.decisions : assertDecisionBindings(x.bound, k)
      PROVE  approvals' \in Seq(Approval) /\ DecisionsAreBound'
  <2>1. approvals' \in Seq(Approval) /\ DOMAIN approvals' = DOMAIN approvals /\ approvals'[k] = row
          /\ \A j \in DOMAIN approvals : j # k => approvals'[j] = approvals[j]
    BY <1>1, <1>3
  <2> QED BY <1>3, <2>1 DEF DecisionsAreBound, assertDecisionBindings
<1>4. CASE recordApprovalDecision
  <2>1. PICK k \in DOMAIN approvals, d \in {"AUTO_REVIEW_PASSED", "HUMAN_APPROVED", "HUMAN_REJECTED"},
             seen \in DOMAIN versions :
          LET bound == <<versions[seen].artifact, versions[seen].render>> IN
          /\ assertDecisionBindings(bound, k)
          /\ approvals' = [approvals EXCEPT ![k].decisions = @ \cup {[decision |-> d, bound |-> bound]}]
    BY <1>4 DEF recordApprovalDecision
  <2> DEFINE bound == <<versions[seen].artifact, versions[seen].render>>
             made == [decision |-> d, bound |-> bound]
             row == [approvals[k] EXCEPT !.decisions = @ \cup {made}]
  <2>2. approvals[k] \in Approval
    BY StoredVersions
  <2>3. made \in Decision /\ made.bound = bound
    BY StoredVersions DEF Decision
  <2>4. approvals' = [approvals EXCEPT ![k] = row] /\ assertDecisionBindings(bound, k)
    BY <2>1
  <2> HIDE DEF made
  <2>5. /\ row \in Approval /\ row.artifact = approvals[k].artifact /\ row.render = approvals[k].render
        /\ row.decisions = approvals[k].decisions \cup {made}
    BY <2>2, <2>3 DEF Approval
  <2> HIDE DEF row
  <2>6. \A x \in row.decisions : assertDecisionBindings(x.bound, k)
    BY <2>3, <2>4, <2>5 DEF DecisionsAreBound
  <2> QED BY <1>3, <2>4, <2>5, <2>6
<1>5. CASE invalidateApproval
  <2>1. PICK k \in DOMAIN approvals : approvals' = [approvals EXCEPT ![k].invalidated = TRUE]
    BY <1>5 DEF invalidateApproval
  <2> DEFINE row == [approvals[k] EXCEPT !.invalidated = TRUE]
  <2>2. approvals[k] \in Approval
    BY StoredVersions
  <2>3. /\ row \in Approval /\ row.artifact = approvals[k].artifact /\ row.render = approvals[k].render
        /\ row.decisions = approvals[k].decisions
    BY <2>2 DEF Approval
  <2>4. approvals' = [approvals EXCEPT ![k] = row]
    BY <2>1
  <2> HIDE DEF row
  <2> QED BY <1>3, <2>3, <2>4 DEF DecisionsAreBound
<1> QED BY <1>2, <1>4, <1>5


(***************************************************************************)
(* The invariant                                                           *)
(***************************************************************************)
LEMMA InitSound == StoreInit => StoreTypeOK /\ StoreInv
<1> SUFFICES ASSUME StoreInit PROVE StoreTypeOK /\ StoreInv
  OBVIOUS
<1>1. \A e \in Editors : editor[e] = NoEditor
  BY DEF StoreInit
<1>2. StoreTypeOK
  <2>1. editor \in [Editors -> EditorState]
    BY NoEditorIsSound DEF StoreInit
  <2>2. outDir \in [OutDirs -> Renders \cup {"nothing"}] /\ factIds \in BOOLEAN
    BY DEF StoreInit
  <2>3. /\ artifacts \in Seq(ArtifactStatuses) /\ versions \in Seq(Version) /\ packages \in Seq(ReviewPackage)
        /\ looks \in Seq(Look) /\ approvals \in Seq(Approval)
    BY DEF StoreInit
  <2> QED BY <2>1, <2>2, <2>3 DEF StoreTypeOK
<1>3. DOMAIN versions = {} /\ DOMAIN packages = {} /\ DOMAIN approvals = {} /\ DOMAIN artifacts = {}
  BY DEF StoreInit
<1>4. \A e \in Editors : EditorIsSound(editor[e])
  BY <1>1, NoEditorIsSound
<1> QED BY <1>2, <1>3, <1>4 DEF StoreInv, VersionsAreNumbered, PackagesFollowVersions, ScreenshotsShowTheRender,
                               DecisionsAreBound

(* The steps of a session that write artifacts and nothing that refers to them. *)
LEMMA ArtifactsStep ==
  ASSUME StoreTypeOK, StoreInv, NEW e \in Editors, seedArtifact(e) \/ orchestrate(e)
  PROVE  artifacts' \in Seq(ArtifactStatuses) /\ factIds' \in BOOLEAN /\ PackagesFollowVersions'
<1>1. artifacts \in Seq(ArtifactStatuses) /\ factIds \in BOOLEAN
  BY DEF StoreTypeOK
<1>2. "INTELLIGENCE_PENDING" \in ArtifactStatuses /\ "HUMAN_REVIEW_REQUIRED" \in ArtifactStatuses
  BY DEF ArtifactStatuses
<1>3. versions' = versions /\ packages' = packages
  BY DEF seedArtifact, orchestrate
<1>4. ASSUME artifacts' \in Seq(ArtifactStatuses), factIds' \in BOOLEAN,
             \A a \in DOMAIN artifacts' : artifacts'[a] = "AUTO_REVIEW_PENDING" =>
               a \in DOMAIN artifacts /\ artifacts[a] = "AUTO_REVIEW_PENDING"
      PROVE  artifacts' \in Seq(ArtifactStatuses) /\ factIds' \in BOOLEAN /\ PackagesFollowVersions'
  BY <1>3, <1>4 DEF StoreInv, PackagesFollowVersions, currentOf
<1>5. CASE seedArtifact(e)
  <2>1. artifacts' = Append(artifacts, "INTELLIGENCE_PENDING") /\ factIds' = TRUE
    BY <1>5 DEF seedArtifact
  <2>2. PICK n : n = Len(artifacts) + 1
    OBVIOUS
  <2>3. /\ artifacts' \in Seq(ArtifactStatuses) /\ Len(artifacts') = n /\ artifacts'[n] = "INTELLIGENCE_PENDING"
        /\ \A a \in DOMAIN artifacts : artifacts'[a] = artifacts[a]
    BY <1>1, <1>2, <2>1, <2>2, Appended
  <2>4. DOMAIN artifacts' = (DOMAIN artifacts) \cup {n}
    BY <1>1, <2>2, <2>3, Longer
  <2> QED BY <1>4, <2>1, <2>3, <2>4
<1>6. CASE orchestrate(e)
  <2>1. artifacts' = [artifacts EXCEPT ![editor[e].artifact] = "HUMAN_REVIEW_REQUIRED"] /\ factIds' = factIds
    BY <1>6 DEF orchestrate
  <2>2. /\ artifacts' \in Seq(ArtifactStatuses) /\ DOMAIN artifacts' = DOMAIN artifacts
        /\ \A a \in DOMAIN artifacts :
             artifacts'[a] = IF a = editor[e].artifact THEN "HUMAN_REVIEW_REQUIRED" ELSE artifacts[a]
    BY <1>1, <1>2, <2>1, Replaced
  <2>3. \A a \in DOMAIN artifacts' : artifacts'[a] = "AUTO_REVIEW_PENDING" =>
          a \in DOMAIN artifacts /\ artifacts[a] = "AUTO_REVIEW_PENDING"
    BY <2>2
  <2> QED BY <1>1, <1>4, <2>1, <2>2, <2>3
<1> QED BY <1>5, <1>6

LEMMA SessionsStaySound ==
  ASSUME StoreTypeOK, StoreInv, NEW e \in Editors,
         \/ renderFixtureBundle(e) \/ captureScreenshots(e) \/ seedArtifact(e) \/ orchestrate(e)
         \/ persistRenderBundle(e) \/ editorStops(e) \/ rerenderRead(e) \/ rerenderCommit(e)
  PROVE  StoreTypeOK' /\ StoreInv'
<1>1. /\ VersionsAreNumbered /\ PackagesFollowVersions /\ ScreenshotsShowTheRender /\ DecisionsAreBound
      /\ \A x \in Editors : EditorIsSound(editor[x])
  BY DEF StoreInv
<1>2. looks' = looks /\ approvals' = approvals
  BY DEF renderFixtureBundle, captureScreenshots, seedArtifact, orchestrate, persistRenderBundle, editorStops,
         rerenderRead, rerenderCommit
<1>3. looks' \in Seq(Look) /\ approvals' \in Seq(Approval)
  BY <1>2 DEF StoreTypeOK
<1>4. DecisionsAreBound'
  BY <1>1, <1>2 DEF DecisionsAreBound, assertDecisionBindings
<1>5. CASE renderFixtureBundle(e)
  <2>1. UNCHANGED <<factIds, artifacts, versions, packages>>
    BY <1>5 DEF renderFixtureBundle
  <2>2. VersionsAreNumbered' /\ PackagesFollowVersions' /\ ScreenshotsShowTheRender'
    BY <1>1, <2>1, RowsUntouched
  <2>3. /\ outDir' \in [OutDirs -> Renders \cup {"nothing"}] /\ editor' \in [Editors -> EditorState]
        /\ \A x \in Editors : EditorIsSound(editor[x])'
    BY <1>1, <1>5, RenderStep
  <2> QED BY <1>3, <1>4, <2>1, <2>2, <2>3 DEF StoreTypeOK, StoreInv
<1>6. CASE captureScreenshots(e) \/ editorStops(e) \/ rerenderRead(e)
  <2>1. UNCHANGED <<outDir, factIds, artifacts, versions, packages>>
    BY <1>6 DEF captureScreenshots, editorStops, rerenderRead
  <2>2. VersionsAreNumbered' /\ PackagesFollowVersions' /\ ScreenshotsShowTheRender'
    BY <1>1, <2>1, RowsUntouched
  <2>3. editor' \in [Editors -> EditorState] /\ \A x \in Editors : EditorIsSound(editor[x])'
    BY <1>1, <1>6, SessionStep
  <2> QED BY <1>3, <1>4, <2>1, <2>2, <2>3 DEF StoreTypeOK, StoreInv
<1>7. CASE seedArtifact(e) \/ orchestrate(e)
  <2>1. UNCHANGED <<outDir, versions, packages>>
    BY <1>7 DEF seedArtifact, orchestrate
  <2>2. VersionsAreNumbered' /\ ScreenshotsShowTheRender'
    BY <1>1, <2>1, RowsUntouched
  <2>3. editor' \in [Editors -> EditorState] /\ \A x \in Editors : EditorIsSound(editor[x])'
    BY <1>1, <1>7, SessionStep
  <2>4. artifacts' \in Seq(ArtifactStatuses) /\ factIds' \in BOOLEAN /\ PackagesFollowVersions'
    BY <1>7, ArtifactsStep
  <2> QED BY <1>3, <1>4, <2>1, <2>2, <2>3, <2>4 DEF StoreTypeOK, StoreInv
<1>8. CASE persistRenderBundle(e)
  <2>1. UNCHANGED <<outDir, factIds>>
    BY <1>8 DEF persistRenderBundle
  <2>2. /\ versions' \in Seq(Version) /\ packages' \in Seq(ReviewPackage) /\ editor' \in [Editors -> EditorState]
        /\ artifacts' \in Seq(ArtifactStatuses)
        /\ \A x \in Editors : EditorIsSound(editor[x])'
        /\ VersionsAreNumbered' /\ PackagesFollowVersions' /\ ScreenshotsShowTheRender'
    BY <1>8, BundleStep
  <2> QED BY <1>3, <1>4, <2>1, <2>2 DEF StoreTypeOK, StoreInv
<1>9. CASE rerenderCommit(e)
  <2>1. UNCHANGED <<outDir, factIds, artifacts>>
    BY <1>9 DEF rerenderCommit
  <2>2. /\ versions' \in Seq(Version) /\ packages' \in Seq(ReviewPackage) /\ editor' \in [Editors -> EditorState]
        /\ \A x \in Editors : EditorIsSound(editor[x])'
        /\ VersionsAreNumbered' /\ PackagesFollowVersions' /\ ScreenshotsShowTheRender'
    BY <1>9, RerenderStep
  <2> QED BY <1>3, <1>4, <2>1, <2>2 DEF StoreTypeOK, StoreInv
<1> QED BY <1>5, <1>6, <1>7, <1>8, <1>9

LEMMA ReviewsStaySound ==
  ASSUME StoreTypeOK, StoreInv,
         \/ persistReview \/ markStaleReviews \/ createApprovalPackage \/ recordApprovalDecision \/ invalidateApproval
         \/ UNCHANGED storeVars
  PROVE  StoreTypeOK' /\ StoreInv'
<1>1. /\ VersionsAreNumbered /\ PackagesFollowVersions /\ ScreenshotsShowTheRender /\ DecisionsAreBound
      /\ \A x \in Editors : EditorIsSound(editor[x])
  BY DEF StoreInv
<1>2. UNCHANGED <<outDir, editor, factIds, artifacts, versions, packages>>
  BY DEF persistReview, markStaleReviews, createApprovalPackage, recordApprovalDecision, invalidateApproval, storeVars
<1>3. VersionsAreNumbered' /\ PackagesFollowVersions' /\ ScreenshotsShowTheRender'
  BY <1>1, <1>2, RowsUntouched
<1>4. \A x \in Editors : EditorIsSound(editor[x])'
  BY <1>1, <1>2 DEF EditorIsSound, versionsOf
<1>5. looks' \in Seq(Look) /\ approvals' \in Seq(Approval) /\ DecisionsAreBound'
  <2>1. CASE persistReview \/ markStaleReviews
    <3>1. approvals' = approvals
      BY <2>1 DEF persistReview, markStaleReviews
    <3> QED BY <1>1, <2>1, <3>1, ReviewTypes DEF StoreTypeOK, DecisionsAreBound, assertDecisionBindings
  <2>2. CASE createApprovalPackage \/ recordApprovalDecision \/ invalidateApproval
    <3>1. looks' = looks
      BY <2>2 DEF createApprovalPackage, recordApprovalDecision, invalidateApproval
    <3> QED BY <1>1, <2>2, <3>1, ApprovalStep DEF StoreTypeOK
  <2>3. CASE UNCHANGED storeVars
    BY <1>1, <2>3 DEF storeVars, StoreTypeOK, DecisionsAreBound, assertDecisionBindings
  <2> QED BY <2>1, <2>2, <2>3
<1> QED BY <1>2, <1>3, <1>4, <1>5 DEF StoreTypeOK, StoreInv

(* The inductive invariant: versions are numbered from one to their count and only
   the last is current, a session that adds a version has read the one before it, and
   one that rendered alone finds its own page: demo-v2-persist and the repositories. *)
THEOREM StoreInvariant == StoreSpec => [](StoreTypeOK /\ StoreInv)
<1>1. StoreTypeOK /\ StoreInv /\ [StoreNext]_storeVars => StoreTypeOK' /\ StoreInv'
  BY SessionsStaySound, ReviewsStaySound DEF StoreNext
<1> QED BY <1>1, InitSound, PTL DEF StoreSpec

LEMMA NumberedIsChain ==
  ASSUME StoreTypeOK, VersionsAreNumbered
  PROVE  VersionsFormOneChain
<1> SUFFICES ASSUME NEW k \in DOMAIN versions
             PROVE  LET next == {m \in DOMAIN versions : /\ versions[m].artifact = versions[k].artifact
                                                         /\ versions[m].no = versions[k].no + 1}
                        same == {m \in DOMAIN versions : /\ versions[m].artifact = versions[k].artifact
                                                         /\ versions[m].no = versions[k].no}
                    IN /\ same = {k}
                       /\ versions[k].current <=> next = {}
                       /\ ~ versions[k].current => next = {versions[k].by}
  BY DEF VersionsFormOneChain
<1> DEFINE a == versions[k].artifact
           i == versions[k].no
           next == {m \in DOMAIN versions : versions[m].artifact = a /\ versions[m].no = i + 1}
           same == {m \in DOMAIN versions : versions[m].artifact = a /\ versions[m].no = i}
           count == Cardinality(versionsOf(a))
<1>1. /\ i \in 1..count /\ (versions[k].current <=> i = count)
      /\ ~ versions[k].current => versions[k].by \in versionsOf(a) /\ versions[versions[k].by].no = i + 1
      /\ \A m \in versionsOf(a) : versions[m].no = i => m = k
      /\ \A n \in 1..count : \E m \in versionsOf(a) : versions[m].no = n
  BY DEF VersionsAreNumbered
<1>2. count \in Nat /\ i \in Nat
  BY VersionsCounted, StoredVersions
<1>3. versionsOf(a) = {m \in DOMAIN versions : versions[m].artifact = a}
  BY DEF versionsOf
<1>4. \A m \in versionsOf(a) : /\ versions[m].no \in 1..count
                               /\ \A j \in versionsOf(a) : versions[j].no = versions[m].no => j = m
  BY <1>3 DEF VersionsAreNumbered
<1> HIDE DEF count, a, i
<1>5. same = {k}
  <2>1. k \in same
    BY DEF a, i
  <2> QED BY <1>1, <1>3, <2>1
<1>6. versions[k].current <=> next = {}
  <2>1. CASE i = count
    BY <1>1, <1>2, <1>3, <1>4, <2>1
  <2>2. CASE i # count
    <3>1. i + 1 \in 1..count
      BY <1>1, <1>2, <2>2
    <3>2. PICK m \in versionsOf(a) : versions[m].no = i + 1
      BY <1>1, <3>1
    <3>3. m \in next
      BY <1>3, <3>2
    <3> QED BY <1>1, <2>2, <3>3
  <2> QED BY <2>1, <2>2
<1>7. ~ versions[k].current => next = {versions[k].by}
  BY <1>1, <1>3, <1>4
<1> QED BY <1>5, <1>6, <1>7 DEF a, i

(* Versions form one chain, an artifact that waits for its review has its current
   version's package, screenshots taken alone show the page, and a page that may be
   deployed is the one the human approved. *)
THEOREM StoreIsSound == StoreSpec => []StoreSound
<1>1. StoreTypeOK /\ StoreInv => StoreSound
  <2> SUFFICES ASSUME StoreTypeOK, StoreInv PROVE StoreSound
    OBVIOUS
  <2>1. VersionsFormOneChain
    BY NumberedIsChain DEF StoreInv
  <2>2. PendingReviewHasPackage
    <3> SUFFICES ASSUME NEW a \in DOMAIN artifacts, artifacts[a] = "AUTO_REVIEW_PENDING"
                 PROVE  \E k \in DOMAIN packages :
                          /\ packages[k].current /\ packages[k].version = theCurrent(versions, a)
                          /\ packages[k].render = versions[packages[k].version].render
      BY DEF PendingReviewHasPackage
    <3>1. PICK c : c = theCurrent(versions, a)
      OBVIOUS
    <3>2. c \in currentOf(versions, a)
      BY <3>1 DEF StoreInv, PackagesFollowVersions, theCurrent
    <3>3. c \in DOMAIN versions /\ versions[c].current
      BY <3>2 DEF currentOf
    <3>4. PICK k \in DOMAIN packages : packages[k].current /\ packages[k].version = c
      BY <3>3 DEF StoreInv, PackagesFollowVersions
    <3>5. packages[k].render = versions[packages[k].version].render
      BY DEF StoreInv, PackagesFollowVersions
    <3> QED BY <3>1, <3>4, <3>5
  <2>3. ApprovedPageWasSeen
    BY DEF ApprovedPageWasSeen, StoreInv, DecisionsAreBound, assertDecisionBindings
  <2> QED BY <2>1, <2>2, <2>3 DEF StoreSound, StoreInv
<1> QED BY <1>1, StoreInvariant, PTL

(***************************************************************************)
(* The search for a person and the published inbox                         *)
(***************************************************************************)
LEMMA Caps ==
  /\ MaxRequests \in Nat \ {0} /\ MaxCredits \in Nat /\ MaxTotalRequests \in Nat /\ MaxCommands \in Nat
  /\ Prospects \in Seq(Nat) /\ \A f \in Files : CandidateFiles[f] \in Nat
BY ContactAssumption DEF Files

LEMMA ProspectPlaces ==
  /\ DOMAIN Prospects \subseteq Nat
  /\ \A k \in DOMAIN Prospects : Prospects[k] \in TheProspects
<1>1. DOMAIN Prospects = 1..Len(Prospects) /\ Len(Prospects) \in Nat
  BY Caps
<1> QED BY <1>1 DEF TheProspects

LEMMA QueueFunction ==
  ASSUME NEW q
  PROVE  q \in Queue <=> q = [k \in DOMAIN q |-> q[k]] /\ DOMAIN q \subseteq DOMAIN Prospects
                           /\ \A k \in DOMAIN q : q[k] \subseteq Providers
<1>1. ASSUME q \in Queue
      PROVE  q = [k \in DOMAIN q |-> q[k]] /\ DOMAIN q \subseteq DOMAIN Prospects /\ \A k \in DOMAIN q : q[k] \subseteq Providers
  <2>1. PICK places \in SUBSET DOMAIN Prospects : q \in [places -> SUBSET Providers]
    BY <1>1 DEF Queue
  <2> QED BY <2>1
<1>2. ASSUME q = [k \in DOMAIN q |-> q[k]], DOMAIN q \subseteq DOMAIN Prospects, \A k \in DOMAIN q : q[k] \subseteq Providers
      PROVE  q \in Queue
  <2>1. q \in [DOMAIN q -> SUBSET Providers]
    BY <1>2
  <2> QED BY <1>2, <2>1 DEF Queue
<1> QED BY <1>1, <1>2

(* Whose turn it is. *)
LEMMA TheTurn ==
  ASSUME NEW s, s.queue \in Queue, DOMAIN s.queue # {}
  PROVE  /\ place(s) \in DOMAIN s.queue /\ leadOf(s) \in TheProspects /\ provider(s) \in Providers
<1>1. DOMAIN s.queue \subseteq DOMAIN Prospects /\ DOMAIN s.queue \in SUBSET Nat
  BY QueueFunction, ProspectPlaces
<1>2. \E k \in DOMAIN s.queue : \A j \in DOMAIN s.queue : k <= j
  BY <1>1, LeastNumber
<1>3. place(s) \in DOMAIN s.queue
  BY <1>2 DEF place
<1>4. provider(s) \in Providers
  BY DEF provider, Providers
<1> QED BY <1>1, <1>3, <1>4, ProspectPlaces DEF leadOf

LEMMA QueueShrinks ==
  ASSUME NEW s, s.queue \in Queue, DOMAIN s.queue # {}
  PROVE  /\ [k \in DOMAIN s.queue \ {place(s)} |-> s.queue[k]] \in Queue
         /\ [s.queue EXCEPT ![place(s)] = @ \ {provider(s)}] \in Queue
         /\ DOMAIN [s.queue EXCEPT ![place(s)] = @ \ {provider(s)}] = DOMAIN s.queue
<1> DEFINE a == [k \in DOMAIN s.queue \ {place(s)} |-> s.queue[k]]
           b == [s.queue EXCEPT ![place(s)] = @ \ {provider(s)}]
<1>1. s.queue = [k \in DOMAIN s.queue |-> s.queue[k]] /\ DOMAIN s.queue \subseteq DOMAIN Prospects
        /\ \A k \in DOMAIN s.queue : s.queue[k] \subseteq Providers
  BY QueueFunction
<1>2. a \in [DOMAIN s.queue \ {place(s)} -> SUBSET Providers]
  BY <1>1
<1>3. a \in Queue
  BY <1>1, <1>2 DEF Queue
<1>4. b \in [DOMAIN s.queue -> SUBSET Providers]
  BY <1>1
<1>5. b \in Queue
  BY <1>1, <1>4 DEF Queue
<1> QED BY <1>3, <1>4, <1>5

(***************************************************************************)
(* What a session becomes                                                  *)
(***************************************************************************)
At == {"free", "step", "preview", "enrich", "domain", "save", "resolve", "inboxes"}

LEMMA FreeSession == NoSearch \in Session /\ NoSearch.result \in Lookup /\ NoAnswer \in Answer
<1>1. NoAnswer \in Answer
  BY DEF NoAnswer, Answer
<1>2. NoSearch.result \in Lookup
  BY <1>1 DEF NoSearch, Lookup, Outcomes
<1>3. <<>> \in Queue
  <2>1. <<>> = [k \in {} |-> {}]
    OBVIOUS
  <2> QED BY <2>1, QueueFunction
<1>4. NoSearch \in Session
  BY <1>2, <1>3 DEF NoSearch, Session, Modes
<1> QED BY <1>1, <1>2, <1>4

LEMMA StepTaken ==
  ASSUME NEW s \in Session, NEW where \in At
  PROVE  [s EXCEPT !.at = where] \in Session
BY DEF Session, At

LEMMA MovedOn ==
  ASSUME NEW s \in Session, NEW where \in At, NEW q \in Queue
  PROVE  [s EXCEPT !.at = where, !.queue = q] \in Session
BY DEF Session, At

LEMMA Counted ==
  ASSUME NEW s \in Session, NEW r \in Lookup, NEW m \in Nat, NEW c \in Nat
  PROVE  [s EXCEPT !.result = r, !.requests = m, !.credits = c] \in Session
BY DEF Session

LEMMA Paid ==
  ASSUME NEW s \in Session, NEW r \in Lookup, NEW m \in Nat
  PROVE  [s EXCEPT !.result = r, !.paid = m] \in Session
BY DEF Session

LEMMA Left ==
  ASSUME NEW s \in Session, NEW n \in Nat
  PROVE  [s EXCEPT !.left = n] \in Session
BY DEF Session

LEMMA Finished ==
  ASSUME NEW s \in Session, NEW outcome \in Outcomes, NEW t, t = finish(s, outcome)
  PROVE  /\ t \in Session /\ t.queue = s.queue /\ t.file = s.file /\ t.inboxes = s.inboxes /\ t.known = s.known
         /\ t.command = s.command /\ t.requests = s.requests /\ t.lost = s.lost /\ t.paid = s.paid
         /\ t.result.requests = s.result.requests /\ t.at = "save" /\ t.result.outcome = outcome
<1>1. PICK r : r = [s.result EXCEPT !.outcome = outcome]
  OBVIOUS
<1>2. s.result \in Lookup
  BY DEF Session
<1>3. r \in Lookup /\ r.requests = s.result.requests /\ r.outcome = outcome
  BY <1>1, <1>2 DEF Lookup
<1>4. t = [s EXCEPT !.at = "save", !.result = r]
  BY <1>1, <1>2 DEF finish, Session
<1>5. t \in Session
  BY <1>3, <1>4 DEF Session
<1> QED BY <1>3, <1>4, <1>5 DEF Session

(* What a helper does not touch. *)
Keeps(t, s) ==
  /\ t \in Session /\ t.command = s.command /\ t.file = s.file /\ t.inboxes = s.inboxes /\ t.known = s.known
  /\ t.mode = s.mode /\ t.force = s.force

LEMMA NextTarget ==
  ASSUME NEW s \in Session, DOMAIN s.queue # {}, NEW t, t \in {nextTarget(s), nextStep(s)}
  PROVE  /\ Keeps(t, s) /\ t.at = "step" /\ t.paid = s.paid /\ t.requests = s.requests /\ t.lost = s.lost
         /\ t.result = s.result
<1>0. s.queue \in Queue
  BY DEF Session
<1> DEFINE a == [k \in DOMAIN s.queue \ {place(s)} |-> s.queue[k]]
           b == [s.queue EXCEPT ![place(s)] = @ \ {provider(s)}]
<1>1. a \in Queue /\ b \in Queue
  BY <1>0, QueueShrinks
<1>2. t = [s EXCEPT !.at = "step", !.queue = a] \/ t = [s EXCEPT !.at = "step", !.queue = b]
  BY DEF nextTarget, nextStep, Session
<1> HIDE DEF a, b
<1>3. PICK q \in Queue : t = [s EXCEPT !.at = "step", !.queue = q]
  BY <1>1, <1>2
<1>4. t \in Session
  BY <1>3, MovedOn DEF At
<1> QED BY <1>3, <1>4 DEF Session, Keeps

(* A result that is in hand. *)
LEMMA SettledIsSound ==
  ASSUME NEW s \in Session, DOMAIN s.queue # {}, s.file \in Files, NEW r \in Lookup, AcceptedIsPersonal(r),
         \A i \in s.inboxes : IsExhausted(i.lead, s.file) /\ IsPublished(i.fact) /\ i.lead \notin s.known,
         s.command = "batch" /\ ~ s.lost => s.paid <= MaxTotalRequests + 1 /\ s.paid <= s.requests + r.requests,
         NEW t, t = settled(s, r)
  PROVE  t \in Session /\ SearchIsSound(t) /\ BatchCounts(t)
<1> DEFINE u == [s EXCEPT !.result = r, !.requests = @ + r.requests, !.credits = @ + r.credits]
<1>1. /\ s.requests + r.requests \in Nat /\ s.credits + r.credits \in Nat /\ s.queue \in Queue /\ s.paid \in Nat
  BY DEF Session, Lookup
<1>2. u = [s EXCEPT !.result = r, !.requests = s.requests + r.requests, !.credits = s.credits + r.credits]
  BY DEF Session
<1>3. u \in Session
  BY <1>1, <1>2, Counted
<1>4. /\ u.command = s.command /\ u.file = s.file /\ u.inboxes = s.inboxes /\ u.known = s.known /\ u.lost = s.lost
      /\ u.paid = s.paid /\ u.requests = s.requests + r.requests /\ u.result = r /\ u.queue = s.queue
  BY <1>2 DEF Session
<1>5. t = IF s.command = "enrich" THEN NoSearch
          ELSE IF r.outcome = "VERIFIED" THEN [u EXCEPT !.at = "resolve"] ELSE nextStep(u)
  BY DEF settled
<1> HIDE DEF u
<1>6. CASE s.command = "enrich"
  <2>1. t = NoSearch
    BY <1>5, <1>6
  <2> QED BY <2>1, FreeSession DEF SearchIsSound, BatchCounts, NoSearch
<1>7. CASE s.command # "enrich" /\ r.outcome = "VERIFIED"
  <2>1. t = [u EXCEPT !.at = "resolve"]
    BY <1>5, <1>7
  <2>2. t \in Session
    BY <1>3, <2>1, StepTaken DEF At
  <2>3. /\ t.command = s.command /\ t.file = s.file /\ t.inboxes = s.inboxes /\ t.known = s.known /\ t.lost = s.lost
        /\ t.paid = s.paid /\ t.requests = s.requests + r.requests /\ t.result = r /\ t.queue = s.queue /\ t.at = "resolve"
    BY <1>3, <1>4, <2>1 DEF Session
  <2>4. SearchIsSound(t)
    BY <1>7, <2>3 DEF SearchIsSound
  <2>5. BatchCounts(t)
    BY <2>3 DEF BatchCounts
  <2> QED BY <2>2, <2>4, <2>5
<1>8. CASE s.command # "enrich" /\ r.outcome # "VERIFIED"
  <2>1. t = nextStep(u)
    BY <1>5, <1>8
  <2>2. /\ Keeps(t, u) /\ t.at = "step" /\ t.paid = u.paid /\ t.requests = u.requests /\ t.lost = u.lost
    BY <1>3, <1>4, <2>1, NextTarget
  <2>3. SearchIsSound(t)
    BY <1>4, <2>2 DEF SearchIsSound, Keeps
  <2>4. BatchCounts(t)
    BY <1>4, <2>2 DEF BatchCounts, Keeps
  <2> QED BY <2>2, <2>3, <2>4 DEF Keeps
<1> QED BY <1>6, <1>7, <1>8

(***************************************************************************)
(* What a step leaves                                                      *)
(***************************************************************************)
LEMMA SessionOf ==
  ASSUME ContactTypeOK, ContactInv, NEW o \in Operators
  PROVE  search[o] \in Session /\ SearchIsSound(search[o]) /\ BatchCounts(search[o])
BY DEF ContactTypeOK, ContactInv

LEMMA SearchStep ==
  ASSUME ContactTypeOK, ContactInv, NEW o \in Operators, NEW t \in Session, search' = [search EXCEPT ![o] = t],
         SearchIsSound(t), BatchCounts(t), DOMAIN lookups \subseteq DOMAIN lookups'
  PROVE  /\ search' \in [Operators -> Session]
         /\ \A u \in Operators : SearchIsSound(search[u])' /\ BatchCounts(search[u])'
<1>1. search' \in [Operators -> Session]
  BY DEF ContactTypeOK
<1>2. ASSUME NEW s, SearchIsSound(s) PROVE SearchIsSound(s)'
  BY <1>2 DEF SearchIsSound, IsExhausted, isProviderStepResolved, findByInputHash
<1>3. ASSUME NEW u \in Operators PROVE SearchIsSound(search[u])' /\ BatchCounts(search[u])'
  <2>1. PICK s : s = search'[u]
    OBVIOUS
  <2>2. s = t \/ s = search[u]
    BY <2>1 DEF ContactTypeOK
  <2>3. SearchIsSound(s) /\ BatchCounts(s)
    BY <2>2, SessionOf
  <2>4. SearchIsSound(s)'
    BY <1>2, <2>3
  <2> QED BY <2>1, <2>3, <2>4 DEF BatchCounts, SearchIsSound, IsExhausted, isProviderStepResolved, findByInputHash
<1> QED BY <1>1, <1>3

LEMMA QuietSearch ==
  ASSUME ContactTypeOK, ContactInv, NEW o \in Operators, NEW t \in Session, search' = [search EXCEPT ![o] = t],
         SearchIsSound(t), BatchCounts(t), UNCHANGED <<prospect, lookups, recipient>>
  PROVE  ContactTypeOK' /\ ContactInv'
<1>1. search' \in [Operators -> Session] /\ \A u \in Operators : SearchIsSound(search[u])' /\ BatchCounts(search[u])'
  BY SearchStep
<1>2. ContactTypeOK'
  BY <1>1 DEF ContactTypeOK
<1>3. /\ \A k \in DOMAIN lookups' : AcceptedIsPersonal(lookups'[k])
      /\ PersonalIsTheirOwn'
  BY DEF ContactInv, PersonalIsTheirOwn
<1>4. GenericOnlyWhenExhausted'
  BY DEF ContactInv, GenericOnlyWhenExhausted, isProviderStepResolved, findByInputHash
<1> QED BY <1>1, <1>2, <1>3, <1>4 DEF ContactInv

(***************************************************************************)
(* The steps of a session                                                  *)
(***************************************************************************)
(* Who is exhausted, for the rule that lets an inbox be written to. *)
LEMMA FallbackIsSound ==
  ASSUME ContactTypeOK, NEW f \in Files, NEW available, NEW i \in fallbackAccepted(f, available)
  PROVE  /\ i \in Inbox /\ IsExhausted(i.lead, f) /\ IsPublished(i.fact)
         /\ recipient[i.lead].type = "UNRESOLVED"
<1>1. PICK p \in TheProspects :
        /\ i = [lead |-> p, fact |-> prospect[p].email]
        /\ classifyLead(p, f, available) = "personal_chain_exhausted"
        /\ ~ getCurrent(p) /\ evaluateOfficialInboxFallback(prospect[p].email)
  BY DEF fallbackAccepted
<1>2. pendingSteps(p, f, available) = {}
  BY <1>1 DEF classifyLead
<1>3. IsExhausted(p, f)
  BY <1>2 DEF pendingSteps, IsExhausted
<1>4. prospect[p].email \in Facts
  BY <1>1 DEF ContactTypeOK
<1> QED BY <1>1, <1>3, <1>4 DEF Inbox, IsPublished, evaluateOfficialInboxFallback, classifyGenericMailbox, getCurrent

LEMMA TargetsAreQueued ==
  ASSUME NEW f, NEW available
  PROVE  selectResolveBatchTargets(f, available) \in Queue
<1> DEFINE eligible == {k \in DOMAIN Prospects : classifyLead(Prospects[k], f, available) = "eligible"}
           first == {k \in eligible : Cardinality({j \in eligible : j < k}) < MaxTargets}
<1>1. first \in SUBSET DOMAIN Prospects
  OBVIOUS
<1>2. \A k \in first : target(Prospects[k], f, available) \in SUBSET Providers
  BY DEF target, pendingSteps
<1>3. selectResolveBatchTargets(f, available) = [k \in first |-> target(Prospects[k], f, available)]
  BY DEF selectResolveBatchTargets
<1> HIDE DEF first
<1>4. selectResolveBatchTargets(f, available) \in [first -> SUBSET Providers]
  BY <1>2, <1>3
<1> QED BY <1>1, <1>4 DEF Queue

LEMMA BatchStep ==
  ASSUME ContactTypeOK, ContactInv, NEW o \in Operators, contactResolveBatch(o)
  PROVE  ContactTypeOK' /\ ContactInv'
<1>1. PICK f \in Files, available \in Configurations, stopFirst \in BOOLEAN :
        search' = [search EXCEPT ![o] = [NoSearch EXCEPT !.command = "batch", !.at = "step", !.file = f,
                     !.queue = selectResolveBatchTargets(f, available), !.inboxes = fallbackAccepted(f, available),
                     !.stopFirst = stopFirst,
                     !.known = {p \in TheProspects : recipient[p].type = "PERSONAL_VERIFIED"}]]
  BY DEF contactResolveBatch
<1>2. PICK q, inboxes, known : /\ q = selectResolveBatchTargets(f, available) /\ inboxes = fallbackAccepted(f, available)
                               /\ known = {p \in TheProspects : recipient[p].type = "PERSONAL_VERIFIED"}
  OBVIOUS
<1>3. q \in Queue /\ inboxes \in SUBSET Inbox /\ known \in SUBSET TheProspects
  BY <1>2, TargetsAreQueued, FallbackIsSound
<1>4. PICK t : t = [NoSearch EXCEPT !.command = "batch", !.at = "step", !.file = f, !.queue = q, !.inboxes = inboxes,
                    !.stopFirst = stopFirst, !.known = known]
  OBVIOUS
<1>5. t \in Session
  BY <1>3, <1>4, FreeSession DEF Session
<1>6. /\ t.command = "batch" /\ t.at = "step" /\ t.file = f /\ t.inboxes = inboxes /\ t.known = known
      /\ t.paid = 0 /\ t.requests = 0
  BY <1>4 DEF NoSearch
<1>7. \A i \in inboxes : IsExhausted(i.lead, f) /\ IsPublished(i.fact) /\ i.lead \notin known
  BY <1>2, FallbackIsSound
<1>8. SearchIsSound(t)
  BY <1>6, <1>7 DEF SearchIsSound
<1>9. BatchCounts(t)
  BY <1>6, Caps DEF BatchCounts
<1>10. search' = [search EXCEPT ![o] = t] /\ UNCHANGED <<prospect, lookups, recipient>>
  BY <1>1, <1>2, <1>4 DEF contactResolveBatch
<1> QED BY <1>5, <1>8, <1>9, <1>10, QuietSearch

LEMMA EnrichCommandStep ==
  ASSUME ContactTypeOK, ContactInv, NEW o \in Operators, contactEnrich(o)
  PROVE  ContactTypeOK' /\ ContactInv'
<1>1. PICK k \in DOMAIN Prospects, f \in Files, r \in Requests :
        search' = [search EXCEPT ![o] = [NoSearch EXCEPT !.command = "enrich", !.at = "step", !.file = f,
                     !.queue = [j \in {k} |-> {r.provider}], !.mode = r.mode, !.force = r.force]]
  BY DEF contactEnrich
<1>2. r.provider \in Providers /\ r.mode \in Modes /\ r.force \in BOOLEAN
  BY ContactValues
<1>3. PICK q : q = [j \in {k} |-> {r.provider}]
  OBVIOUS
<1>4. q \in Queue
  BY <1>2, <1>3, QueueFunction
<1>5. PICK t : t = [NoSearch EXCEPT !.command = "enrich", !.at = "step", !.file = f, !.queue = q, !.mode = r.mode,
                                    !.force = r.force]
  OBVIOUS
<1>6. t \in Session
  BY <1>2, <1>4, <1>5, FreeSession DEF Session
<1>7. t.command = "enrich" /\ t.at = "step" /\ t.file = f /\ t.inboxes = {}
  BY <1>5 DEF NoSearch
<1>8. SearchIsSound(t) /\ BatchCounts(t)
  BY <1>7 DEF SearchIsSound, BatchCounts
<1>9. search' = [search EXCEPT ![o] = t] /\ UNCHANGED <<prospect, lookups, recipient>>
  BY <1>1, <1>3, <1>5 DEF contactEnrich
<1> QED BY <1>6, <1>8, <1>9, QuietSearch

LEMMA RunStep ==
  ASSUME ContactTypeOK, ContactInv, NEW o \in Operators, run(o)
  PROVE  ContactTypeOK' /\ ContactInv'
<1>1. PICK s : s = search[o]
  OBVIOUS
<1>2. s \in Session /\ SearchIsSound(s) /\ BatchCounts(s) /\ s.at = "step" /\ DOMAIN s.queue # {} /\ ~ outOfBudget(s)
  BY <1>1, SessionOf DEF run
<1>3. UNCHANGED <<prospect, lookups, recipient>>
  BY DEF run
<1>4. CASE ~ s.force /\ findByInputHash(keyOf(s))
  <2>1. PICK r, t : r = lookups[keyOf(s)] /\ t = settled(s, r)
    OBVIOUS
  <2>2. r \in Lookup /\ AcceptedIsPersonal(r)
    BY <1>4, <2>1 DEF ContactTypeOK, ContactInv, findByInputHash
  <2>3. s.command = "batch" /\ ~ s.lost => s.paid <= MaxTotalRequests + 1 /\ s.paid <= s.requests + r.requests
    BY <1>2, <2>2, Caps DEF BatchCounts, Session, Lookup
  <2>4. t \in Session /\ SearchIsSound(t) /\ BatchCounts(t)
    BY <1>2, <2>1, <2>2, <2>3, SettledIsSound DEF SearchIsSound
  <2>5. search' = [search EXCEPT ![o] = t]
    BY <1>1, <1>4, <2>1 DEF run
  <2> QED BY <1>3, <2>4, <2>5, QuietSearch
<1>5. CASE ~ (~ s.force /\ findByInputHash(keyOf(s)))
  <2>1. PICK t : t = start(s)
    OBVIOUS
  <2>2. PICK where \in {"domain", "preview"} : t = [s EXCEPT !.at = where, !.result = NoSearch.result]
    BY <2>1 DEF start
  <2>3. t \in Session
    BY <1>2, <2>2, FreeSession DEF Session
  <2>4. /\ t.at \in {"domain", "preview"} /\ t.file = s.file /\ t.inboxes = s.inboxes /\ t.known = s.known
        /\ t.queue = s.queue /\ t.command = s.command /\ t.lost = s.lost /\ t.paid = s.paid /\ t.requests = s.requests
        /\ t.result.requests = 0
    BY <1>2, <2>2 DEF Session, NoSearch
  <2>5. SearchIsSound(t)
    BY <1>2, <2>4 DEF SearchIsSound
  <2>6. s.command = "batch" => s.requests + MaxRequests <= MaxTotalRequests
    BY <1>2, Caps DEF outOfBudget, Session
  <2>7. BatchCounts(t)
    BY <1>2, <2>4, <2>6, Caps DEF BatchCounts, Session
  <2>8. search' = [search EXCEPT ![o] = t]
    BY <1>1, <1>5, <2>1 DEF run
  <2> QED BY <1>3, <2>3, <2>5, <2>7, <2>8, QuietSearch
<1> QED BY <1>4, <1>5

(* The service at work on one provider: it goes on, or it has a result. *)
CallsCounted(t, s) ==
  \E n \in {0, 1, 2} : /\ t.paid = s.paid + n /\ t.result.requests = s.result.requests + n
                       /\ n > 0 => s.result.requests < MaxRequests
Advanced(t, s) ==
  /\ t \in Session /\ t.at \in {"enrich", "domain", "save"} /\ t.queue = s.queue /\ t.file = s.file
  /\ t.inboxes = s.inboxes /\ t.known = s.known /\ t.command = s.command /\ t.requests = s.requests
  /\ t.at = "save" => AcceptedIsPersonal(t.result)
  /\ ~ t.lost => ~ s.lost
  /\ ~ t.lost => CallsCounted(t, s)

LEMMA AtProvider ==
  ASSUME ContactTypeOK, ContactInv, NEW o \in Operators, search[o].at \in {"preview", "enrich", "domain"},
         NEW t, Advanced(t, search[o]), search' = [search EXCEPT ![o] = t], UNCHANGED <<prospect, lookups, recipient>>
  PROVE  ContactTypeOK' /\ ContactInv'
<1>1. PICK s : s = search[o]
  OBVIOUS
<1>2. s \in Session /\ SearchIsSound(s) /\ BatchCounts(s) /\ s.at \in {"preview", "enrich", "domain"}
  BY <1>1, SessionOf
<1>a. Advanced(t, s)
  BY <1>1
<1>3. SearchIsSound(t)
  BY <1>2, <1>a DEF SearchIsSound, Advanced
<1>4. BatchCounts(t)
  <2> SUFFICES ASSUME t.command = "batch", ~ t.lost
               PROVE  /\ t.paid <= MaxTotalRequests + 1
                      /\ t.paid <= t.requests + t.result.requests /\ t.requests + MaxRequests <= MaxTotalRequests
                      /\ t.result.requests <= MaxRequests + 1
    BY <1>a DEF BatchCounts, Advanced
  <2>a. t.command = s.command /\ ~ s.lost
    BY <1>a DEF Advanced
  <2>1. /\ s.paid <= s.requests + s.result.requests /\ s.requests + MaxRequests <= MaxTotalRequests
        /\ s.result.requests <= MaxRequests + 1
    BY <1>2, <2>a DEF BatchCounts
  <2>2. s.paid \in Nat /\ s.requests \in Nat /\ s.result.requests \in Nat
    BY <1>2 DEF Session, Lookup
  <2>3. PICK n \in {0, 1, 2} : /\ t.paid = s.paid + n /\ t.result.requests = s.result.requests + n
                               /\ n > 0 => s.result.requests < MaxRequests
    <3>1. CallsCounted(t, s)
      BY <1>a DEF Advanced
    <3> QED BY <3>1 DEF CallsCounted
  <2>4. s.result.requests + n <= MaxRequests + 1
    BY <2>1, <2>2, <2>3, Caps
  <2>5. t.requests = s.requests
    BY <1>a DEF Advanced
  <2>6. s.paid + n <= s.requests + (s.result.requests + n) /\ s.paid + n <= MaxTotalRequests + 1
    <3>1. PICK paid \in Nat, begun \in Nat, spent \in Nat : paid = s.paid /\ begun = s.requests /\ spent = s.result.requests
      BY <2>2
    <3>2. paid <= begun + spent /\ begun + MaxRequests <= MaxTotalRequests /\ spent + n <= MaxRequests + 1 /\ n \in Nat
      BY <2>1, <2>3, <2>4, <3>1
    <3>3. paid + n <= begun + (spent + n) /\ paid + n <= MaxTotalRequests + 1
      BY <3>2, Caps
    <3> QED BY <3>1, <3>3
  <2> QED BY <2>1, <2>3, <2>4, <2>5, <2>6
<1>5. t \in Session
  BY <1>a DEF Advanced
<1> QED BY <1>3, <1>4, <1>5, QuietSearch

LEMMA PreviewStep ==
  ASSUME ContactTypeOK, ContactInv, NEW o \in Operators, preview(o)
  PROVE  ContactTypeOK' /\ ContactInv'
<1>1. PICK s : s = search[o]
  OBVIOUS
<1>2. s \in Session /\ SearchIsSound(s) /\ s.at = "preview"
  BY <1>1, SessionOf DEF preview
<1>3. CandidateFiles[s.file] \in Nat
  BY <1>2, Caps DEF SearchIsSound
<1>4. PICK n \in 0..CandidateFiles[s.file], throws \in BOOLEAN :
        search' = [search EXCEPT ![o] = IF throws THEN finish(s, "ERROR")
                                        ELSE IF n = 0 THEN finish(s, "PREVIEW_NO_MATCH")
                                        ELSE IF s.mode = "PREVIEW" THEN finish(s, "PREVIEW_MATCHED")
                                        ELSE [s EXCEPT !.at = "enrich", !.left = n]]
  BY <1>1 DEF preview
<1>5. PICK t : /\ search' = [search EXCEPT ![o] = t]
               /\ \/ \E outcome \in Outcomes \ {"VERIFIED"} : t = finish(s, outcome)
                  \/ t = [s EXCEPT !.at = "enrich", !.left = n]
  BY <1>4 DEF Outcomes
<1>6. /\ t \in Session /\ t.queue = s.queue /\ t.file = s.file /\ t.inboxes = s.inboxes /\ t.known = s.known
      /\ t.command = s.command /\ t.requests = s.requests /\ t.lost = s.lost /\ t.paid = s.paid
      /\ t.result.requests = s.result.requests /\ t.at \in {"enrich", "save"}
      /\ t.at = "save" => t.result.outcome # "VERIFIED"
  <2>1. CASE t = [s EXCEPT !.at = "enrich", !.left = n]
    <3>1. n \in Nat
      BY <1>3
    <3>2. t \in Session
      BY <1>2, <2>1, <3>1 DEF Session
    <3>3. /\ t.queue = s.queue /\ t.file = s.file /\ t.inboxes = s.inboxes /\ t.known = s.known
          /\ t.command = s.command /\ t.requests = s.requests /\ t.lost = s.lost /\ t.paid = s.paid
          /\ t.result = s.result /\ t.at = "enrich"
      BY <1>2, <2>1 DEF Session
    <3> QED BY <3>2, <3>3
  <2>2. ASSUME NEW outcome \in Outcomes \ {"VERIFIED"}, t = finish(s, outcome)
        PROVE  /\ t \in Session /\ t.queue = s.queue /\ t.file = s.file /\ t.inboxes = s.inboxes /\ t.known = s.known
               /\ t.command = s.command /\ t.requests = s.requests /\ t.lost = s.lost /\ t.paid = s.paid
               /\ t.result.requests = s.result.requests /\ t.at = "save" /\ t.result.outcome = outcome
    BY <1>2, <2>2, Finished
  <2> QED BY <1>5, <2>1, <2>2
<1>7. AcceptedIsPersonal(t.result) \/ t.at # "save"
  BY <1>6 DEF AcceptedIsPersonal
<1>8. CallsCounted(t, s)
  <2>1. t.paid = s.paid + 0 /\ t.result.requests = s.result.requests + 0
    BY <1>2, <1>6 DEF Session, Lookup
  <2> QED BY <2>1 DEF CallsCounted
<1>9. UNCHANGED <<prospect, lookups, recipient>>
  BY DEF preview
<1>10. Advanced(t, s)
  BY <1>6, <1>7, <1>8 DEF Advanced
<1>11. search' = [search EXCEPT ![o] = t]
  BY <1>5
<1>12. Advanced(t, search[o]) /\ search[o].at = "preview"
  BY <1>1, <1>2, <1>10
<1> QED BY <1>9, <1>11, <1>12, AtProvider

(* What a provider answered. *)
LEMMA AnswerIsCounted ==
  ASSUME NEW s \in Session, NEW a \in Answers, NEW outcome, outcome.cost[1] \in {1, 2}, outcome.cost[2] \in Nat,
         s.left \in Nat \ {0}, s.at \in {"enrich", "domain"}, NEW t, t = answered(s, a, outcome)
  PROVE  /\ t \in Session /\ t.queue = s.queue /\ t.file = s.file /\ t.inboxes = s.inboxes /\ t.known = s.known
         /\ t.command = s.command /\ t.requests = s.requests /\ t.lost = s.lost /\ t.paid = s.paid + outcome.cost[1]
         /\ t.result.requests = s.result.requests + outcome.cost[1]
         /\ \/ t.at = s.at
            \/ t.at = "save" /\ t.result.outcome = "VERIFIED" /\ AcceptedIsPersonal(t.result)
<1>1. PICK m, c : m = outcome.cost[1] /\ c = outcome.cost[2]
  OBVIOUS
<1>2. PICK r, u : /\ r = [s.result EXCEPT !.requests = s.result.requests + m, !.credits = s.result.credits + c]
                  /\ u = [s EXCEPT !.result = r, !.paid = s.paid + m]
  OBVIOUS
<1>3. s.result \in Lookup /\ s.paid \in Nat /\ m \in Nat /\ c \in Nat
  BY <1>1 DEF Session
<1>a. s.result.requests + m \in Nat /\ s.result.credits + c \in Nat /\ s.paid + m \in Nat
  BY <1>3 DEF Lookup
<1>4. r \in Lookup /\ r.requests = s.result.requests + m /\ s.paid + m \in Nat
  <2>1. PICK i \in Nat, j \in Nat : i = s.result.requests + m /\ j = s.result.credits + c
    BY <1>a
  <2>2. r = [s.result EXCEPT !.requests = i, !.credits = j]
    BY <1>2, <2>1
  <2>3. r \in Lookup /\ r.requests = i
    BY <1>3, <2>2 DEF Lookup
  <2> QED BY <1>a, <2>1, <2>3
<1>5. u \in Session
  BY <1>2, <1>4, Paid
<1>6. u.result = r /\ u.paid = s.paid + m /\ u.at = s.at /\ u.left = s.left /\ u.queue = s.queue /\ u.file = s.file
        /\ u.inboxes = s.inboxes /\ u.known = s.known /\ u.command = s.command /\ u.requests = s.requests /\ u.lost = s.lost
  BY <1>2 DEF Session
<1>7. u = [s EXCEPT !.result.requests = @ + m, !.result.credits = @ + c, !.paid = @ + m]
  BY <1>2, <1>3 DEF Session, Lookup
<1>8. t = IF decideAcceptance(outcome.status, a) THEN [finish(u, "VERIFIED") EXCEPT !.result.accepted = a]
          ELSE [u EXCEPT !.left = @ - 1]
  BY <1>1, <1>7 DEF answered
<1>9. CASE decideAcceptance(outcome.status, a)
  <2>1. PICK v : v = [r EXCEPT !.outcome = "VERIFIED", !.accepted = a]
    OBVIOUS
  <2>2. a \in Answer /\ IsPersonal(a)
    BY <1>9, ContactValues DEF decideAcceptance, IsPersonal
  <2>3. v \in Lookup /\ v.requests = r.requests /\ v.outcome = "VERIFIED" /\ v.accepted = a
    BY <1>4, <2>1, <2>2 DEF Lookup, Outcomes
  <2>4. t = [u EXCEPT !.at = "save", !.result = v]
    BY <1>4, <1>5, <1>6, <1>8, <1>9, <2>1 DEF finish, Session, Lookup
  <2>5. /\ t.at = "save" /\ t.result = v /\ t.paid = u.paid /\ t.queue = u.queue /\ t.file = u.file
        /\ t.inboxes = u.inboxes /\ t.known = u.known /\ t.command = u.command /\ t.requests = u.requests /\ t.lost = u.lost
    BY <1>5, <2>4 DEF Session
  <2>6. t \in Session
    BY <1>5, <2>3, <2>4 DEF Session
  <2> QED BY <1>1, <1>4, <1>6, <2>2, <2>3, <2>5, <2>6 DEF AcceptedIsPersonal
<1>10. CASE ~ decideAcceptance(outcome.status, a)
  <2>1. t = [u EXCEPT !.left = u.left - 1] /\ u.left - 1 \in Nat
    BY <1>5, <1>6, <1>8, <1>10 DEF Session
  <2>2. /\ t.at = u.at /\ t.result = r /\ t.paid = u.paid /\ t.queue = u.queue /\ t.file = u.file
        /\ t.inboxes = u.inboxes /\ t.known = u.known /\ t.command = u.command /\ t.requests = u.requests /\ t.lost = u.lost
    BY <1>5, <1>6, <2>1 DEF Session
  <2>3. t \in Session
    BY <1>5, <2>1, Left
  <2> QED BY <1>1, <1>4, <1>6, <2>2, <2>3
<1> QED BY <1>9, <1>10


(* The ways in which a provider's turn goes on or ends. *)
LEMMA FinishAdvances ==
  ASSUME NEW s \in Session, NEW outcome \in Outcomes \ {"VERIFIED"}
  PROVE  Advanced(finish(s, outcome), s)
<1>1. PICK t : t = finish(s, outcome)
  OBVIOUS
<1>2. /\ t \in Session /\ t.queue = s.queue /\ t.file = s.file /\ t.inboxes = s.inboxes /\ t.known = s.known
      /\ t.command = s.command /\ t.requests = s.requests /\ t.lost = s.lost /\ t.paid = s.paid
      /\ t.result.requests = s.result.requests /\ t.at = "save" /\ t.result.outcome = outcome
  BY <1>1, Finished
<1>3. t.paid = s.paid + 0 /\ t.result.requests = s.result.requests + 0
  BY <1>2 DEF Session, Lookup
<1>4. CallsCounted(t, s)
  BY <1>3 DEF CallsCounted
<1>5. AcceptedIsPersonal(t.result)
  BY <1>2 DEF AcceptedIsPersonal
<1>6. Advanced(t, s)
  BY <1>2, <1>4, <1>5 DEF Advanced
<1> QED BY <1>1, <1>6

LEMMA ThrownAdvances ==
  ASSUME NEW s \in Session
  PROVE  Advanced(thrown(s), s)
<1>1. PICK u, t : u = finish(s, "ERROR") /\ t = thrown(s)
  OBVIOUS
<1>2. /\ u \in Session /\ u.queue = s.queue /\ u.file = s.file /\ u.inboxes = s.inboxes /\ u.known = s.known
      /\ u.command = s.command /\ u.requests = s.requests /\ u.at = "save" /\ u.result.outcome = "ERROR"
  BY <1>1, Finished DEF Outcomes
<1>3. t = [u EXCEPT !.paid = u.paid + 1, !.lost = TRUE] /\ u.paid + 1 \in Nat
  BY <1>1, <1>2 DEF thrown, Session
<1>4. t \in Session
  BY <1>2, <1>3 DEF Session
<1>5. /\ t.queue = u.queue /\ t.file = u.file /\ t.inboxes = u.inboxes /\ t.known = u.known
      /\ t.command = u.command /\ t.requests = u.requests /\ t.at = u.at /\ t.result = u.result /\ t.lost
  BY <1>2, <1>3 DEF Session
<1>6. AcceptedIsPersonal(t.result)
  BY <1>2, <1>5 DEF AcceptedIsPersonal
<1>7. Advanced(t, s)
  BY <1>2, <1>4, <1>5, <1>6 DEF Advanced
<1> QED BY <1>1, <1>7

LEMMA AnswerAdvances ==
  ASSUME NEW s \in Session, NEW a \in Answers, NEW outcome, outcome.cost[1] \in {1, 2}, outcome.cost[2] \in Nat,
         s.left \in Nat \ {0}, s.at \in {"enrich", "domain"}, s.result.requests < MaxRequests
  PROVE  Advanced(answered(s, a, outcome), s)
<1>1. PICK t : t = answered(s, a, outcome)
  OBVIOUS
<1>2. /\ t \in Session /\ t.queue = s.queue /\ t.file = s.file /\ t.inboxes = s.inboxes /\ t.known = s.known
      /\ t.command = s.command /\ t.requests = s.requests /\ t.lost = s.lost /\ t.paid = s.paid + outcome.cost[1]
      /\ t.result.requests = s.result.requests + outcome.cost[1]
      /\ \/ t.at = s.at
         \/ t.at = "save" /\ t.result.outcome = "VERIFIED" /\ AcceptedIsPersonal(t.result)
  BY <1>1, AnswerIsCounted
<1>3. CallsCounted(t, s)
  BY <1>2 DEF CallsCounted
<1>4. t.at \in {"enrich", "domain", "save"} /\ (t.at = "save" => AcceptedIsPersonal(t.result))
  BY <1>2
<1>5. Advanced(t, s)
  BY <1>2, <1>3, <1>4 DEF Advanced
<1> QED BY <1>1, <1>5

LEMMA TwoCalls ==
  ASSUME NEW a
  PROVE  /\ hunterEnrich(a).cost[1] \in {1, 2} /\ hunterEnrich(a).cost[2] \in Nat
         /\ instantlyEnrich(a).cost[1] \in {1, 2} /\ instantlyEnrich(a).cost[2] \in Nat
         /\ estimateDomainSearchCredits(a) \in Nat
<1>1. hunterEnrich(a).cost \in {<<1, 0>>, <<1, 1>>, <<2, 2>>}
  BY DEF hunterEnrich, classifyFinderVerification
<1>2. instantlyEnrich(a).cost = <<1, 1>>
  BY DEF instantlyEnrich
<1> QED BY <1>1, <1>2 DEF estimateDomainSearchCredits

LEMMA EnrichStep ==
  ASSUME ContactTypeOK, ContactInv, NEW o \in Operators, enrich(o)
  PROVE  ContactTypeOK' /\ ContactInv'
<1>1. PICK s : s = search[o]
  OBVIOUS
<1>2. s \in Session /\ s.at = "enrich" /\ s.left \in Nat /\ s.result.requests \in Nat
  BY <1>1, SessionOf DEF enrich, Session, Lookup
<1>3. PICK t : search' = [search EXCEPT ![o] = t] /\ Advanced(t, s)
  <2>1. CASE s.left = 0
    <3>1. CASE provider(s) = "hunter"
      <4>1. PICK t : t = [s EXCEPT !.at = "domain"]
        OBVIOUS
      <4>2. t \in Session
        BY <1>2, <4>1, StepTaken DEF At
      <4>3. /\ t.queue = s.queue /\ t.file = s.file /\ t.inboxes = s.inboxes /\ t.known = s.known
            /\ t.command = s.command /\ t.requests = s.requests /\ t.lost = s.lost /\ t.result = s.result
            /\ t.paid = s.paid + 0 /\ t.result.requests = s.result.requests + 0 /\ t.at = "domain"
        BY <1>2, <4>1 DEF Session, Lookup
      <4>4. CallsCounted(t, s)
        BY <4>3 DEF CallsCounted
      <4>5. Advanced(t, s)
        BY <4>2, <4>3, <4>4 DEF Advanced
      <4>6. search' = [search EXCEPT ![o] = t]
        BY <1>1, <2>1, <3>1, <4>1 DEF enrich
      <4> QED BY <4>5, <4>6
    <3>2. CASE provider(s) # "hunter"
      <4>1. search' = [search EXCEPT ![o] = finish(s, "NOT_FOUND")]
        BY <1>1, <2>1, <3>2 DEF enrich
      <4>2. Advanced(finish(s, "NOT_FOUND"), s)
        BY <1>2, FinishAdvances DEF Outcomes
      <4> QED BY <4>1, <4>2
    <3> QED BY <3>1, <3>2
  <2>2. CASE s.left > 0 /\ search' = [search EXCEPT ![o] = finish(s, "CAPPED")]
    <3>1. Advanced(finish(s, "CAPPED"), s)
      BY <1>2, FinishAdvances DEF Outcomes
    <3> QED BY <2>2, <3>1
  <2>3. CASE s.left > 0 /\ search' = [search EXCEPT ![o] = thrown(s)]
    <3>1. Advanced(thrown(s), s)
      BY <1>2, ThrownAdvances
    <3> QED BY <2>3, <3>1
  <2>4. ASSUME s.left > 0, ~ capReached(s.result), NEW a \in Answers,
               search' = [search EXCEPT ![o] =
                 answered(s, a, IF provider(s) = "hunter" THEN hunterEnrich(a) ELSE instantlyEnrich(a))]
        PROVE  \E t : search' = [search EXCEPT ![o] = t] /\ Advanced(t, s)
    <3>1. PICK outcome \in {hunterEnrich(a), instantlyEnrich(a)} :
            search' = [search EXCEPT ![o] = answered(s, a, outcome)]
      BY <2>4
    <3>2. outcome.cost[1] \in {1, 2} /\ outcome.cost[2] \in Nat
      BY TwoCalls
    <3>3. s.result.requests < MaxRequests
      BY <1>2, <2>4, Caps DEF capReached
    <3>4. s.left \in Nat \ {0}
      BY <1>2, <2>4
    <3>5. Advanced(answered(s, a, outcome), s)
      BY <1>2, <3>2, <3>3, <3>4, AnswerAdvances
    <3> QED BY <3>1, <3>5
  <2> QED BY <1>1, <2>1, <2>2, <2>3, <2>4 DEF enrich
<1>4. Advanced(t, search[o]) /\ search[o].at = "enrich"
  BY <1>1, <1>2, <1>3
<1>5. UNCHANGED <<prospect, lookups, recipient>>
  BY DEF enrich
<1> QED BY <1>3, <1>4, <1>5, AtProvider

LEMMA DomainStep ==
  ASSUME ContactTypeOK, ContactInv, NEW o \in Operators, attemptDomainSearch(o)
  PROVE  ContactTypeOK' /\ ContactInv'
<1>1. PICK s : s = search[o]
  OBVIOUS
<1>2. s \in Session /\ s.at = "domain" /\ s.result.requests \in Nat /\ s.paid \in Nat
  BY <1>1, SessionOf DEF attemptDomainSearch, Session, Lookup
<1>3. PICK t : search' = [search EXCEPT ![o] = t] /\ Advanced(t, s)
  <2>1. CASE search' = [search EXCEPT ![o] = finish(s, "CAPPED")]
    <3>1. Advanced(finish(s, "CAPPED"), s)
      BY <1>2, FinishAdvances DEF Outcomes
    <3> QED BY <2>1, <3>1
  <2>2. CASE search' = [search EXCEPT ![o] = thrown(s)]
    <3>1. Advanced(thrown(s), s)
      BY <1>2, ThrownAdvances
    <3> QED BY <2>2, <3>1
  <2>3. ASSUME ~ capReached(s.result), NEW a \in Answers, NEW outcome, NEW u, NEW t,
               outcome = [status |-> classifyDomainSearchEmail(a), cost |-> <<1, estimateDomainSearchCredits(a)>>],
               u = [s EXCEPT !.left = 1],
               t = answered(u, a, outcome),
               search' = [search EXCEPT ![o] = IF t.at = "save" THEN t ELSE finish(t, "NOT_FOUND")]
        PROVE  \E v : search' = [search EXCEPT ![o] = v] /\ Advanced(v, s)
    <3>1. u \in Session
      BY <1>2, <2>3, Left
    <3>2. /\ u.left = 1 /\ u.at = "domain" /\ u.queue = s.queue /\ u.file = s.file /\ u.inboxes = s.inboxes
          /\ u.known = s.known /\ u.command = s.command /\ u.requests = s.requests /\ u.lost = s.lost
          /\ u.paid = s.paid /\ u.result = s.result
      BY <1>2, <2>3 DEF Session
    <3>3. outcome.cost[1] \in {1, 2} /\ outcome.cost[2] \in Nat
      BY <2>3, TwoCalls
    <3>4. s.result.requests < MaxRequests
      BY <1>2, <2>3, Caps DEF capReached
    <3>5. u.left \in Nat \ {0} /\ u.result.requests < MaxRequests
      BY <3>2, <3>4
    <3>6. Advanced(t, u)
      <4>1. Advanced(answered(u, a, outcome), u)
        BY <3>1, <3>2, <3>3, <3>5, AnswerAdvances
      <4> QED BY <2>3, <4>1
    <3>7. Advanced(t, s)
      BY <3>2, <3>6 DEF Advanced, CallsCounted
    <3>8. CASE t.at = "save"
      BY <2>3, <3>7, <3>8
    <3>9. CASE t.at # "save"
      <4>1. PICK v : v = finish(t, "NOT_FOUND")
        OBVIOUS
      <4>2. t \in Session
        BY <3>7 DEF Advanced
      <4>3. /\ v \in Session /\ v.queue = t.queue /\ v.file = t.file /\ v.inboxes = t.inboxes /\ v.known = t.known
            /\ v.command = t.command /\ v.requests = t.requests /\ v.lost = t.lost /\ v.paid = t.paid
            /\ v.result.requests = t.result.requests /\ v.at = "save" /\ v.result.outcome = "NOT_FOUND"
        BY <4>1, <4>2, Finished DEF Outcomes
      <4>4. AcceptedIsPersonal(v.result)
        BY <4>3 DEF AcceptedIsPersonal
      <4>5. Advanced(v, s)
        BY <3>7, <4>3, <4>4 DEF Advanced, CallsCounted
      <4> QED BY <2>3, <3>9, <4>1, <4>5
    <3> QED BY <3>8, <3>9
  <2> QED BY <1>1, <2>1, <2>2, <2>3 DEF attemptDomainSearch
<1>4. Advanced(t, search[o]) /\ search[o].at = "domain"
  BY <1>1, <1>2, <1>3
<1>5. UNCHANGED <<prospect, lookups, recipient>>
  BY DEF attemptDomainSearch
<1> QED BY <1>3, <1>4, <1>5, AtProvider


(* What does not touch the recipients, but may store one more result. *)
LEMMA StoreStep ==
  ASSUME ContactTypeOK, ContactInv, NEW o \in Operators, NEW t \in Session, search' = [search EXCEPT ![o] = t],
         SearchIsSound(t), BatchCounts(t), NEW k \in Keys, NEW r \in Lookup, AcceptedIsPersonal(r),
         lookups' = [j \in DOMAIN lookups \cup {k} |-> IF j = k THEN r ELSE lookups[j]], UNCHANGED <<prospect, recipient>>
  PROVE  ContactTypeOK' /\ ContactInv'
<1>1. DOMAIN lookups' = DOMAIN lookups \cup {k}
  OBVIOUS
<1>2. search' \in [Operators -> Session] /\ \A u \in Operators : SearchIsSound(search[u])' /\ BatchCounts(search[u])'
  BY <1>1, SearchStep
<1>3. \A j \in DOMAIN lookups' : lookups'[j] \in Lookup /\ AcceptedIsPersonal(lookups'[j])
  BY <1>1 DEF ContactTypeOK, ContactInv
<1>4. ContactTypeOK'
  BY <1>1, <1>2, <1>3 DEF ContactTypeOK
<1>5. PersonalIsTheirOwn'
  BY DEF ContactInv, PersonalIsTheirOwn
<1>6. GenericOnlyWhenExhausted'
  BY <1>1 DEF ContactInv, GenericOnlyWhenExhausted, isProviderStepResolved, findByInputHash
<1> QED BY <1>2, <1>3, <1>4, <1>5, <1>6 DEF ContactInv

LEMMA SaveStep ==
  ASSUME ContactTypeOK, ContactInv, NEW o \in Operators, save(o)
  PROVE  ContactTypeOK' /\ ContactInv'
<1>1. PICK s, k : s = search[o] /\ k = keyOf(s)
  OBVIOUS
<1>2. /\ s \in Session /\ SearchIsSound(s) /\ BatchCounts(s) /\ s.at = "save" /\ DOMAIN s.queue # {}
      /\ s.file \in Files /\ AcceptedIsPersonal(s.result) /\ s.result \in Lookup /\ s.queue \in Queue
  BY <1>1, SessionOf DEF save, SearchIsSound, Session
<1>3. UNCHANGED <<prospect, recipient>>
  BY DEF save
<1>4. CASE /\ search' = [search EXCEPT ![o] = IF s.command = "enrich" THEN NoSearch ELSE [nextTarget(s) EXCEPT !.lost = TRUE]]
           /\ UNCHANGED lookups
  <2>1. CASE s.command = "enrich"
    <3>1. search' = [search EXCEPT ![o] = NoSearch]
      BY <1>4, <2>1
    <3>2. SearchIsSound(NoSearch) /\ BatchCounts(NoSearch)
      BY DEF SearchIsSound, BatchCounts, NoSearch
    <3> QED BY <1>3, <1>4, <3>1, <3>2, FreeSession, QuietSearch
  <2>2. CASE s.command # "enrich"
    <3>1. PICK u, t : u = nextTarget(s) /\ t = [u EXCEPT !.lost = TRUE]
      OBVIOUS
    <3>2. Keeps(u, s) /\ u.at = "step"
      BY <1>2, <3>1, NextTarget
    <3>3. u \in Session
      BY <3>2 DEF Keeps
    <3>4. t \in Session
      BY <3>1, <3>3 DEF Session
    <3>5. t.at = "step" /\ t.file = s.file /\ t.inboxes = s.inboxes /\ t.known = s.known /\ t.lost
      BY <3>1, <3>2, <3>3 DEF Keeps, Session
    <3>6. SearchIsSound(t) /\ BatchCounts(t)
      BY <1>2, <3>5 DEF SearchIsSound, BatchCounts
    <3>7. search' = [search EXCEPT ![o] = t]
      BY <1>4, <2>2, <3>1
    <3> QED BY <1>3, <1>4, <3>4, <3>6, <3>7, QuietSearch
  <2> QED BY <2>1, <2>2
<1>5. CASE /\ lookups' = [j \in DOMAIN lookups \cup {k} |-> IF j = k THEN s.result ELSE lookups[j]]
           /\ search' = [search EXCEPT ![o] = settled(s, s.result)]
  <2>1. PICK t : t = settled(s, s.result)
    OBVIOUS
  <2>2. s.command = "batch" /\ ~ s.lost => s.paid <= MaxTotalRequests + 1 /\ s.paid <= s.requests + s.result.requests
    BY <1>2 DEF BatchCounts
  <2>3. \A i \in s.inboxes : IsExhausted(i.lead, s.file) /\ IsPublished(i.fact) /\ i.lead \notin s.known
    BY <1>2 DEF SearchIsSound
  <2>4. t \in Session /\ SearchIsSound(t) /\ BatchCounts(t)
    BY <1>2, <2>1, <2>2, <2>3, SettledIsSound
  <2>5. k \in Keys
    <3>1. leadOf(s) \in TheProspects /\ provider(s) \in Providers
      BY <1>2, TheTurn
    <3>2. s.mode \in Modes /\ s.file \in Hashes
      BY <1>2 DEF Session, Hashes
    <3> QED BY <1>1, <3>1, <3>2 DEF keyOf, key, Keys
  <2>6. search' = [search EXCEPT ![o] = t]
    BY <1>5, <2>1
  <2> QED BY <1>2, <1>3, <1>5, <2>4, <2>5, <2>6, StoreStep
<1> QED BY <1>1, <1>4, <1>5 DEF save

LEMMA LoopEndsStep ==
  ASSUME ContactTypeOK, ContactInv, NEW o \in Operators, loopEnds(o)
  PROVE  ContactTypeOK' /\ ContactInv'
<1>1. PICK s, t : s = search[o] /\ t = [s EXCEPT !.at = "inboxes"]
  OBVIOUS
<1>2. s \in Session /\ SearchIsSound(s) /\ BatchCounts(s) /\ s.at = "step"
  BY <1>1, SessionOf DEF loopEnds
<1>3. t \in Session
  BY <1>1, <1>2, StepTaken DEF At
<1>4. /\ t.at = "inboxes" /\ t.file = s.file /\ t.inboxes = s.inboxes /\ t.known = s.known /\ t.command = s.command
      /\ t.lost = s.lost /\ t.paid = s.paid /\ t.requests = s.requests
  BY <1>1, <1>2 DEF Session
<1>5. SearchIsSound(t)
  BY <1>2, <1>4 DEF SearchIsSound
<1>6. BatchCounts(t)
  BY <1>2, <1>4 DEF BatchCounts
<1>7. search' = [search EXCEPT ![o] = t] /\ UNCHANGED <<prospect, lookups, recipient>>
  BY <1>1 DEF loopEnds
<1> QED BY <1>3, <1>5, <1>6, <1>7, QuietSearch

LEMMA CrashStep ==
  ASSUME ContactTypeOK, ContactInv, NEW o \in Operators, contactCrash(o)
  PROVE  ContactTypeOK' /\ ContactInv'
<1>1. SearchIsSound(NoSearch) /\ BatchCounts(NoSearch)
  BY DEF SearchIsSound, BatchCounts, NoSearch
<1>2. search' = [search EXCEPT ![o] = NoSearch] /\ UNCHANGED <<prospect, lookups, recipient>>
  BY DEF contactCrash
<1> QED BY <1>1, <1>2, FreeSession, QuietSearch

(* A recipient is written: a person's own address, or a published inbox of a lead
   that is exhausted. *)
RecipientIsSound(p, r) ==
  /\ r.type = "GENERIC_OFFICIAL" => IsExhausted(p, r.file) /\ IsPublished(r.fact)
  /\ r.type = "PERSONAL_VERIFIED" => IsPersonal(r.answer)

LEMMA RecipientStep ==
  ASSUME ContactTypeOK, ContactInv, NEW o \in Operators, NEW t \in Session, search' = [search EXCEPT ![o] = t],
         SearchIsSound(t), BatchCounts(t), NEW p \in TheProspects, NEW r \in Resolution, RecipientIsSound(p, r),
         recipient' = [recipient EXCEPT ![p] = r], UNCHANGED <<prospect, lookups>>
  PROVE  ContactTypeOK' /\ ContactInv'
<1>1. search' \in [Operators -> Session] /\ \A u \in Operators : SearchIsSound(search[u])' /\ BatchCounts(search[u])'
  BY SearchStep
<1>2. ContactTypeOK'
  BY <1>1 DEF ContactTypeOK
<1>3. recipient'[p] = r /\ \A q \in TheProspects \ {p} : recipient'[q] = recipient[q]
  BY DEF ContactTypeOK
<1>4. \A k \in DOMAIN lookups' : AcceptedIsPersonal(lookups'[k])
  BY DEF ContactInv
<1>5. PersonalIsTheirOwn'
  BY <1>3 DEF ContactInv, PersonalIsTheirOwn, RecipientIsSound, IsPersonal
<1>6. GenericOnlyWhenExhausted'
  <2>1. \A k \in DOMAIN CASCADE_ORDER : CASCADE_ORDER[k] \in Providers
    BY DEF CASCADE_ORDER, Providers
  <2>2. Providers \subseteq {CASCADE_ORDER[k] : k \in DOMAIN CASCADE_ORDER}
    <3>1. DOMAIN CASCADE_ORDER = {1, 2} /\ CASCADE_ORDER[1] = "instantly" /\ CASCADE_ORDER[2] = "hunter"
      BY DEF CASCADE_ORDER
    <3> QED BY <3>1 DEF Providers
  <2>3. ASSUME NEW q \in TheProspects, recipient'[q].type = "GENERIC_OFFICIAL"
        PROVE  IsExhausted(q, recipient'[q].file) /\ IsPublished(recipient'[q].fact)
    <3>1. CASE q = p
      BY <1>3, <2>3, <3>1 DEF RecipientIsSound
    <3>2. CASE q # p
      <4>1. recipient'[q] = recipient[q]
        BY <1>3, <3>2
      <4>2. \A k \in DOMAIN CASCADE_ORDER : isProviderStepResolved(q, CASCADE_ORDER[k], recipient[q].file)
        BY <2>3, <4>1 DEF ContactInv, GenericOnlyWhenExhausted
      <4>3. IsExhausted(q, recipient[q].file)
        BY <2>2, <4>2 DEF IsExhausted
      <4>4. IsPublished(recipient[q].fact)
        BY <2>3, <4>1 DEF ContactInv, GenericOnlyWhenExhausted, IsPublished
      <4> QED BY <4>1, <4>3, <4>4
    <3> QED BY <3>1, <3>2
  <2> QED BY <2>1, <2>3
          DEF GenericOnlyWhenExhausted, IsExhausted, IsPublished, isProviderStepResolved, findByInputHash
<1> QED BY <1>1, <1>2, <1>4, <1>5, <1>6 DEF ContactInv

LEMMA ResolvePersonStep ==
  ASSUME ContactTypeOK, ContactInv, NEW o \in Operators, resolvePerson(o)
  PROVE  ContactTypeOK' /\ ContactInv'
<1>1. PICK s, p, r : s = search[o] /\ p = leadOf(s) /\ r = personal(s)
  OBVIOUS
<1>2. /\ s \in Session /\ SearchIsSound(s) /\ BatchCounts(s) /\ s.at = "resolve" /\ DOMAIN s.queue # {}
      /\ s.file \in Files /\ AcceptedIsPersonal(s.result) /\ s.result \in Lookup /\ s.queue \in Queue
      /\ s.result.outcome = "VERIFIED"
  BY <1>1, SessionOf DEF resolvePerson, SearchIsSound, Session
<1>3. p \in TheProspects
  BY <1>1, <1>2, TheTurn
<1>4. r \in Resolution /\ RecipientIsSound(p, r)
  <2>1. s.result.accepted \in Answer /\ IsPersonal(s.result.accepted) /\ s.file \in Hashes
    BY <1>2 DEF Lookup, AcceptedIsPersonal, Hashes
  <2>2. NoFact \in Facts
    BY DEF NoFact, Facts
  <2> QED BY <1>1, <2>1, <2>2 DEF personal, Resolution, RecipientIsSound
<1>5. PICK u : u = nextTarget(s)
  OBVIOUS
<1>6. Keeps(u, s) /\ u.at = "step" /\ u.paid = s.paid /\ u.requests = s.requests /\ u.lost = s.lost
  BY <1>2, <1>5, NextTarget
<1>7. PICK t : /\ search' = [search EXCEPT ![o] = t]
               /\ t = u \/ t = [u EXCEPT !.queue = <<>>]
  BY <1>1, <1>5 DEF resolvePerson
<1>8. u \in Session /\ <<>> \in Queue
  BY <1>6, FreeSession DEF Keeps, Session, NoSearch
<1>9. /\ t \in Session /\ t.at = "step" /\ t.paid = s.paid /\ t.requests = s.requests /\ t.lost = s.lost
      /\ t.command = s.command /\ t.file = s.file /\ t.inboxes = s.inboxes /\ t.known = s.known
  <2>1. CASE t = u
    BY <1>6, <1>8, <2>1 DEF Keeps
  <2>2. CASE t = [u EXCEPT !.queue = <<>>]
    <3>1. t \in Session
      BY <1>8, <2>2 DEF Session
    <3> QED BY <1>6, <1>8, <2>2, <3>1 DEF Keeps, Session
  <2> QED BY <1>7, <2>1, <2>2
<1>10. SearchIsSound(t)
  BY <1>2, <1>9 DEF SearchIsSound
<1>11. BatchCounts(t)
  BY <1>2, <1>9 DEF BatchCounts
<1>12. recipient' = [recipient EXCEPT ![p] = r] /\ UNCHANGED <<prospect, lookups>>
  BY <1>1 DEF resolvePerson, writeCurrentResolution
<1> QED BY <1>3, <1>4, <1>7, <1>9, <1>10, <1>11, <1>12, RecipientStep

LEMMA ResolveInboxStep ==
  ASSUME ContactTypeOK, ContactInv, NEW o \in Operators, resolveInbox(o)
  PROVE  ContactTypeOK' /\ ContactInv'
<1>1. PICK s : s = search[o]
  OBVIOUS
<1>2. /\ s \in Session /\ SearchIsSound(s) /\ BatchCounts(s) /\ s.at = "inboxes" /\ s.file \in Files
      /\ s.inboxes \in SUBSET Inbox
  BY <1>1, SessionOf DEF resolveInbox, SearchIsSound, Session
<1>3. CASE search' = [search EXCEPT ![o] = NoSearch] /\ UNCHANGED recipient
  <2>1. SearchIsSound(NoSearch) /\ BatchCounts(NoSearch)
    BY DEF SearchIsSound, BatchCounts, NoSearch
  <2>2. UNCHANGED <<prospect, lookups, recipient>>
    BY <1>3 DEF resolveInbox
  <2> QED BY <1>3, <2>1, <2>2, FreeSession, QuietSearch
<1>4. ASSUME NEW i \in s.inboxes,
             recipient' = [recipient EXCEPT ![i.lead] = [type |-> "GENERIC_OFFICIAL", file |-> s.file, answer |-> NoAnswer,
                                                         fact |-> i.fact]],
             search' = [search EXCEPT ![o].inboxes = @ \ {i}]
      PROVE  ContactTypeOK' /\ ContactInv'
  <2>1. PICK p, r, left, t : /\ p = i.lead /\ r = [type |-> "GENERIC_OFFICIAL", file |-> s.file, answer |-> NoAnswer,
                                                   fact |-> i.fact]
                             /\ left = s.inboxes \ {i} /\ t = [s EXCEPT !.inboxes = left]
    OBVIOUS
  <2>2. p \in TheProspects /\ i.fact \in Facts /\ left \in SUBSET Inbox
    BY <1>2, <1>4, <2>1 DEF Inbox
  <2>3. IsExhausted(p, s.file) /\ IsPublished(i.fact)
    BY <1>2, <1>4, <2>1 DEF SearchIsSound
  <2>4. r \in Resolution
    BY <1>2, <2>1, <2>2, FreeSession DEF Resolution, Hashes
  <2>5. RecipientIsSound(p, r)
    BY <2>1, <2>3 DEF RecipientIsSound
  <2>6. t \in Session
    BY <1>2, <2>1, <2>2 DEF Session
  <2>7. /\ t.at = "inboxes" /\ t.file = s.file /\ t.inboxes = left /\ t.known = s.known /\ t.command = s.command
        /\ t.lost = s.lost /\ t.paid = s.paid /\ t.requests = s.requests
    BY <1>2, <2>1 DEF Session
  <2>8. SearchIsSound(t)
    BY <1>2, <2>1, <2>7 DEF SearchIsSound
  <2>9. BatchCounts(t)
    BY <1>2, <2>7 DEF BatchCounts
  <2>10. search' = [search EXCEPT ![o] = t]
    BY <1>1, <1>4, <2>1 DEF ContactTypeOK
  <2>11. UNCHANGED <<prospect, lookups>>
    BY DEF resolveInbox
  <2>12. recipient' = [recipient EXCEPT ![p] = r]
    BY <1>4, <2>1
  <2> QED BY <2>2, <2>4, <2>5, <2>6, <2>8, <2>9, <2>10, <2>11, <2>12, RecipientStep
<1> QED BY <1>1, <1>3, <1>4 DEF resolveInbox, writeCurrentResolution


LEMMA LeadMoves ==
  ASSUME ContactTypeOK, ContactInv, NEW p \in TheProspects, setContactEmail(p) \/ outreachMoves(p)
  PROVE  ContactTypeOK' /\ ContactInv'
<1>1. UNCHANGED <<lookups, recipient, search>>
  BY DEF setContactEmail, outreachMoves
<1>2. prospect' \in [TheProspects -> [status : {"workable", "BOUNCED", "blocked"}, email : Facts]]
  <2>1. prospect[p].status \in {"workable", "BOUNCED", "blocked"} /\ prospect[p].email \in Facts
    BY DEF ContactTypeOK
  <2>2. CASE setContactEmail(p)
    <3>1. PICK f \in Facts : prospect' = [prospect EXCEPT ![p].email = f]
      BY <2>2, ContactValues DEF setContactEmail
    <3> QED BY <3>1 DEF ContactTypeOK
  <2>3. CASE outreachMoves(p)
    <3>1. PICK to \in {"BOUNCED", "blocked"} : prospect' = [prospect EXCEPT ![p].status = to]
      BY <2>3 DEF outreachMoves
    <3> QED BY <3>1 DEF ContactTypeOK
  <2> QED BY <2>2, <2>3
<1>3. ContactTypeOK'
  BY <1>1, <1>2 DEF ContactTypeOK
<1>4. ASSUME NEW o \in Operators PROVE SearchIsSound(search[o])' /\ BatchCounts(search[o])'
  BY <1>1, SessionOf DEF SearchIsSound, BatchCounts, IsExhausted, isProviderStepResolved, findByInputHash
<1>5. /\ \A k \in DOMAIN lookups' : AcceptedIsPersonal(lookups'[k])
      /\ PersonalIsTheirOwn'
  BY <1>1 DEF ContactInv, PersonalIsTheirOwn
<1>6. GenericOnlyWhenExhausted'
  BY <1>1 DEF ContactInv, GenericOnlyWhenExhausted, isProviderStepResolved, findByInputHash
<1> QED BY <1>3, <1>4, <1>5, <1>6 DEF ContactInv

LEMMA BeforeTheSearch ==
  ASSUME ContactInit
  PROVE  ContactTypeOK /\ ContactInv
<1> DEFINE noPerson == [NoSearch.result EXCEPT !.requests = 1, !.credits = 1]
           result(before, a) == IF before = "nobody" THEN noPerson ELSE [noPerson EXCEPT !.outcome = "VERIFIED", !.accepted = a]
           person(a, f) == [type |-> "PERSONAL_VERIFIED", file |-> f, answer |-> a, fact |-> NoFact]
<1>a. PICK before \in {"nothing", "nobody", "bounced"},
           a \in {x \in Answers : decideAcceptance(normalizeInstantlyVerification(x), x)}, f \in Hashes,
           e \in {NoFact, [NoFact EXCEPT !.source = "website"]} :
        /\ lookups = IF before = "nothing" THEN <<>>
                     ELSE [k \in {key(p, "instantly", "ENRICH", f) : p \in TheProspects} |-> result(before, a)]
        /\ recipient = [p \in TheProspects |-> IF before = "bounced" THEN person(a, f) ELSE Unresolved]
        /\ prospect = [p \in TheProspects |-> [status |-> IF before = "bounced" THEN "BOUNCED" ELSE "workable", email |-> e]]
  BY DEF ContactInit
<1>b. PICK nobody, tried, found : nobody = noPerson /\ tried = result(before, a) /\ found = person(a, f)
  OBVIOUS
<1>1. /\ nobody = [NoSearch.result EXCEPT !.requests = 1, !.credits = 1]
      /\ tried = IF before = "nobody" THEN nobody ELSE [nobody EXCEPT !.outcome = "VERIFIED", !.accepted = a]
      /\ found = [type |-> "PERSONAL_VERIFIED", file |-> f, answer |-> a, fact |-> NoFact]
      /\ lookups = IF before = "nothing" THEN <<>>
                   ELSE [k \in {key(p, "instantly", "ENRICH", f) : p \in TheProspects} |-> tried]
      /\ recipient = [p \in TheProspects |-> IF before = "bounced" THEN found ELSE Unresolved]
      /\ prospect = [p \in TheProspects |-> [status |-> IF before = "bounced" THEN "BOUNCED" ELSE "workable", email |-> e]]
  BY <1>a, <1>b
<1> HIDE DEF noPerson, result, person
<1>2. a \in Answer /\ IsPersonal(a)
  BY <1>1, ContactValues DEF decideAcceptance, IsPersonal
<1>3. nobody \in Lookup /\ nobody.outcome = "NOT_FOUND"
  BY <1>1, FreeSession DEF Lookup, NoSearch
<1>4. tried \in Lookup /\ AcceptedIsPersonal(tried)
  BY <1>1, <1>2, <1>3 DEF Lookup, Outcomes, AcceptedIsPersonal
<1>5. e \in Facts /\ NoFact \in Facts
  BY <1>1 DEF NoFact, Facts
<1>6. found \in Resolution /\ Unresolved \in Resolution
  BY <1>1, <1>2, <1>5, FreeSession DEF Resolution, Unresolved
<1>7. /\ DOMAIN lookups \subseteq Keys
      /\ \A k \in DOMAIN lookups : lookups[k] \in Lookup /\ AcceptedIsPersonal(lookups[k])
  <2>1. CASE before = "nothing"
    BY <1>1, <2>1
  <2>2. CASE before # "nothing"
    <3>1. \A p \in TheProspects : key(p, "instantly", "ENRICH", f) \in Keys
      BY <1>1 DEF key, Keys, Providers, Modes
    <3> QED BY <1>1, <1>4, <2>2, <3>1
  <2> QED BY <2>1, <2>2
<1>8. search \in [Operators -> Session] /\ \A o \in Operators : search[o] = NoSearch
  BY FreeSession DEF ContactInit
<1>9. ContactTypeOK
  <2>1. prospect \in [TheProspects -> [status : {"workable", "BOUNCED", "blocked"}, email : Facts]]
    BY <1>1, <1>5
  <2>2. recipient \in [TheProspects -> Resolution]
    BY <1>1, <1>6
  <2> QED BY <1>7, <1>8, <2>1, <2>2 DEF ContactTypeOK
<1>10. SearchIsSound(NoSearch) /\ BatchCounts(NoSearch)
  BY DEF SearchIsSound, BatchCounts, NoSearch
<1>11. \A p \in TheProspects : recipient[p].type # "GENERIC_OFFICIAL"
                             /\ (recipient[p].type = "PERSONAL_VERIFIED" => recipient[p].answer = a)
  BY <1>1 DEF Unresolved
<1>12. GenericOnlyWhenExhausted /\ PersonalIsTheirOwn
  BY <1>2, <1>11 DEF GenericOnlyWhenExhausted, PersonalIsTheirOwn, IsPersonal
<1> QED BY <1>7, <1>8, <1>9, <1>10, <1>12 DEF ContactInv

LEMMA ContactInductive ==
  ASSUME ContactTypeOK, ContactInv, [ContactNext]_contactVars
  PROVE  ContactTypeOK' /\ ContactInv'
<1>1. CASE UNCHANGED contactVars
  BY <1>1 DEF contactVars, ContactTypeOK, ContactInv, SearchIsSound, BatchCounts, IsExhausted, isProviderStepResolved,
              findByInputHash, GenericOnlyWhenExhausted, PersonalIsTheirOwn
<1>2. ASSUME NEW o \in Operators,
             contactResolveBatch(o) \/ contactEnrich(o) \/ run(o) \/ preview(o) \/ enrich(o) \/ attemptDomainSearch(o)
               \/ save(o) \/ resolvePerson(o) \/ loopEnds(o) \/ resolveInbox(o) \/ contactCrash(o)
      PROVE  ContactTypeOK' /\ ContactInv'
  BY <1>2, BatchStep, EnrichCommandStep, RunStep, PreviewStep, EnrichStep, DomainStep, SaveStep, ResolvePersonStep,
     LoopEndsStep, ResolveInboxStep, CrashStep
<1>3. ASSUME NEW p \in TheProspects, setContactEmail(p) \/ outreachMoves(p)
      PROVE  ContactTypeOK' /\ ContactInv'
  BY <1>3, LeadMoves
<1> QED BY <1>1, <1>2, <1>3 DEF ContactNext

(* An inbox takes the place of a person only by a session that knew of nobody. *)
LEMMA PersonsStay ==
  ASSUME ContactTypeOK, ContactInv, [ContactNext]_contactVars, NEW p \in TheProspects,
         recipient[p].type = "PERSONAL_VERIFIED", recipient'[p].type = "GENERIC_OFFICIAL"
  PROVE  \E o \in Operators : search[o].at = "inboxes" /\ p \notin search[o].known
<1>1. CASE UNCHANGED recipient
  BY <1>1
<1>2. ASSUME NEW o \in Operators, resolvePerson(o)
      PROVE  FALSE
  <2>1. PICK q : q = leadOf(search[o])
    OBVIOUS
  <2>2. recipient' = [recipient EXCEPT ![q] = personal(search[o])]
    BY <1>2, <2>1 DEF resolvePerson, writeCurrentResolution
  <2>3. personal(search[o]).type = "PERSONAL_VERIFIED"
    BY DEF personal
  <2> QED BY <2>2, <2>3 DEF ContactTypeOK
<1>3. ASSUME NEW o \in Operators, resolveInbox(o), recipient' # recipient
      PROVE  search[o].at = "inboxes" /\ p \notin search[o].known
  <2>1. PICK i \in search[o].inboxes :
          recipient' = [recipient EXCEPT ![i.lead] = [type |-> "GENERIC_OFFICIAL", file |-> search[o].file,
                                                      answer |-> NoAnswer, fact |-> i.fact]]
    BY <1>3 DEF resolveInbox, writeCurrentResolution
  <2>2. i.lead = p
    BY <2>1 DEF ContactTypeOK
  <2>3. i.lead \notin search[o].known
    BY SessionOf DEF SearchIsSound
  <2> QED BY <1>3, <2>2, <2>3 DEF resolveInbox
<1>4. ASSUME NEW o \in Operators,
             contactResolveBatch(o) \/ contactEnrich(o) \/ run(o) \/ preview(o) \/ enrich(o) \/ attemptDomainSearch(o)
               \/ save(o) \/ loopEnds(o) \/ contactCrash(o)
      PROVE  UNCHANGED recipient
  BY <1>4 DEF contactResolveBatch, contactEnrich, run, preview, enrich, attemptDomainSearch, save, loopEnds, contactCrash
<1>5. ASSUME NEW q \in TheProspects, setContactEmail(q) \/ outreachMoves(q)
      PROVE  UNCHANGED recipient
  BY <1>5 DEF setContactEmail, outreachMoves
<1>6. CASE recipient' # recipient
  <2>1. \E o \in Operators : resolvePerson(o) \/ resolveInbox(o)
    BY <1>4, <1>5, <1>6 DEF ContactNext, contactVars
  <2> QED BY <1>2, <1>3, <1>6, <2>1
<1> QED BY <1>1, <1>6

(***************************************************************************)
(* The theorems                                                            *)
(***************************************************************************)
(* What every session of contact-enrich and contact-resolve-batch holds, by any
   number of operators, leads, providers' answers and crashes: the inboxes it may
   write to are of exhausted leads that had nobody, the person it may write to is
   verified, and what a batch has paid is counted. *)
THEOREM ContactInvariant == ContactSpec => [](ContactTypeOK /\ ContactInv)
<1>1. ContactInit => ContactTypeOK /\ ContactInv
  BY BeforeTheSearch
<1>2. ContactTypeOK /\ ContactInv /\ [ContactNext]_contactVars => (ContactTypeOK /\ ContactInv)'
  BY ContactInductive
<1> QED BY <1>1, <1>2, PTL DEF ContactSpec

(* A published inbox is written to only when the whole cascade was tried for the
   people named, a person's address is that person's own, and a batch pays for no
   more requests than its cap and one (decideAcceptance, classifyLead, the caps of
   the batch). *)
THEOREM ContactIsSound == ContactSpec => []ContactSound
<1>1. ContactTypeOK /\ ContactInv => ContactSound
  BY DEF ContactInv, ContactSound, BatchWithinBudget, BatchCounts
<1> QED BY <1>1, ContactInvariant, PTL

(* A person on record when a batch begins is not given up for an inbox by it. *)
THEOREM PersonsAreKept == ContactSpec => PersonalIsKept
<1>1. ContactTypeOK /\ ContactInv /\ [ContactNext]_contactVars =>
        [\A p \in TheProspects :
           recipient[p].type = "PERSONAL_VERIFIED" /\ recipient'[p].type = "GENERIC_OFFICIAL" =>
             \E o \in Operators : search[o].at = "inboxes" /\ p \notin search[o].known]_contactVars
  BY PersonsStay
<1> QED BY <1>1, ContactInvariant, PTL DEF ContactSpec, PersonalIsKept

=============================================================================
