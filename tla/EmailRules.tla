------------------------------ MODULE EmailRules ------------------------------
(***************************************************************************)
(* The deterministic rules an outreach e-mail is held to: what the model's *)
(* copy must look like at its place in the sequence, how much of the       *)
(* thread a follow-up may repeat, what the automatic reviewer has to       *)
(* grant, and how the message that goes out is put together.               *)
(*                                                                         *)
(* Sources: src/domain/email/{email-validation,followup-repetition,        *)
(* email-review-gate,email-render,email-types,email-language}.ts.          *)
(*                                                                         *)
(* A word is a number: 0 stands for every stopword, -n for an inflected    *)
(* form of n.  The body is the copy's words; its greeting, ask and signoff *)
(* are fields of the rendered message, so that there is no boilerplate to  *)
(* strip.  A subject is one word.  The pattern checks on the text are the  *)
(* set of the rules the text breaks.                                       *)
(***************************************************************************)
EXTENDS Integers, Sequences, FiniteSets

SequenceStep == 0..3
FINAL_FOLLOWUP_STEP == 3

(* The answers of the two models, as their schemas admit them. *)
Subject == [reply : BOOLEAN, text : Nat, upper : BOOLEAN]
Asks == {"VIEW_CONCEPT", "REPLY_FOR_DETAILS"}

isWriterOutput(out) ==
  /\ Len(out.subjects) = 3 /\ \A i \in 1..3 : out.subjects[i] \in Subject
  /\ out.selected \in Subject /\ out.body \in Seq(Int) /\ out.body # <<>> /\ out.evidence # {}
  /\ out.cta \in Asks /\ out.genericity \in 0..100 /\ out.paragraphs \in Nat
  /\ out.mentionsDemo \in BOOLEAN /\ out.alignment \in {"PASS", "NOT_APPLICABLE", "FAIL"}

NoThread == [reply |-> FALSE, text |-> 0, upper |-> FALSE]

(***************************************************************************)
(* Subjects                                                                *)
(***************************************************************************)
(* Prefixed once, never twice. *)
replySubject(subject) == [subject EXCEPT !.reply = TRUE]

lowered(subject) == [subject EXCEPT !.upper = FALSE]

isGenericSubject(subject) == subject.text = 90
isRevealingSubject(subject) == subject.text = 91

validateSubjects(out, position) ==
  IF position.step = 0
  THEN /\ Cardinality({lowered(out.subjects[i]) : i \in DOMAIN out.subjects}) = 3
       /\ \E i \in DOMAIN out.subjects : out.subjects[i] = out.selected
       /\ \A i \in DOMAIN out.subjects : ~ isGenericSubject(out.subjects[i]) /\ ~ isRevealingSubject(out.subjects[i])
  ELSE /\ position.thread # NoThread
       /\ \A i \in DOMAIN out.subjects : replySubject(out.subjects[i]) = replySubject(position.thread)
       /\ replySubject(out.selected) = replySubject(position.thread)

(***************************************************************************)
(* What a follow-up repeats                                                *)
(***************************************************************************)
REPETITION_LIMITS ==
  [maxSharedContentRun |-> 4, sharedBigramPercent |-> 15, minNovelContentTokens |-> 4,
   minContentTokensForPhraseAnalysis |-> 10]

fold(word) == IF word < 0 THEN - word ELSE word

(* The substantive words of a message, without those of the thread's subject. *)
contentTokens(words, thread) ==
  LET content(w) == w # 0 /\ fold(w) # fold(thread.text)
      kept == SelectSeq(words, content)
  IN  [i \in DOMAIN kept |-> fold(kept[i])]

bigrams(tokens) == [i \in 1..(Len(tokens) - 1) |-> <<tokens[i], tokens[i + 1]>>]

imageOf(s) == {s[i] : i \in DOMAIN s}

(* Mutant: two messages share a run only when it begins both. *)
longestSharedRun_Prefix(candidate, prior) ==
  LET common(previous) ==
        {n \in 0..Len(candidate) : n <= Len(previous) /\ SubSeq(candidate, 1, n) = SubSeq(previous, 1, n)}
      all == {0} \cup UNION {common(previous) : previous \in prior}
  IN  CHOOSE n \in all : \A m \in all : m <= n

(* The longest run of consecutive tokens that a prior message contains too,
   by the table of the runs ending at each pair of positions. *)
longestSharedRun(candidate, prior) ==
  LET runs(previous) ==
        LET table[i \in 0..Len(candidate), j \in 0..Len(previous)] ==
              IF i = 0 \/ j = 0 THEN 0
              ELSE IF candidate[i] = previous[j] THEN table[i - 1, j - 1] + 1 ELSE 0
        IN  {table[i, j] : i \in 0..Len(candidate), j \in 0..Len(previous)}
      all == {0} \cup UNION {runs(previous) : previous \in prior}
  IN  CHOOSE n \in all : \A m \in all : m <= n

(* Only the step whose job is to add something must have added something. *)
requireNovelty(step) == step = 1

analyzeFollowupRepetition(step, body, priorBodies, thread) ==
  LET candidate == contentTokens(body, thread)
      prior == {contentTokens(b, thread) : b \in priorBodies}
      priorTokens == UNION {imageOf(p) : p \in prior}
      novel == Cardinality(imageOf(candidate) \ priorTokens)
      pairs == bigrams(candidate)
      priorPairs == UNION {imageOf(bigrams(p)) : p \in prior}
      shared == Cardinality({i \in DOMAIN pairs : pairs[i] \in priorPairs})
      limit == REPETITION_LIMITS
  IN  IF priorTokens = {} THEN "fresh"
      ELSE IF requireNovelty(step) /\ novel < limit.minNovelContentTokens THEN "NO_NEW_CONTENT"
      ELSE IF Len(candidate) < limit.minContentTokensForPhraseAnalysis THEN "fresh"
      ELSE IF longestSharedRun(candidate, prior) >= limit.maxSharedContentRun THEN "VERBATIM_CLAUSE_REPLAY"
      ELSE IF 100 * shared >= limit.sharedBigramPercent * Len(pairs) THEN "PERVASIVE_PHRASE_REUSE"
      ELSE "fresh"

validateFollowupDoesNotReplay(out, position) ==
  position.step = 0 \/ /\ position.prior # {}
                       /\ analyzeFollowupRepetition(position.step, out.body, position.prior, position.thread) = "fresh"

(***************************************************************************)
(* The copy                                                                *)
(***************************************************************************)
PARAGRAPH_SHAPE(step) == CASE step = 0 -> 2..4 [] step = 1 -> 1..3 [] OTHER -> 1..2
(* 101 where the score is no criterion. *)
GENERICITY_CEILING(step) == IF step \in {0, 1} THEN 40 ELSE 101

(* Mutant: the last e-mail may link the demo. *)
validateSequenceCta_Any(out, position) == TRUE

validateSequenceCta(out, position) == position.step = FINAL_FOLLOWUP_STEP => out.cta = "REPLY_FOR_DETAILS"

(* The brief's facts and findings the copy may rest on: current facts, and
   findings that are safe for outreach. *)
validateEvidence(out, ctx) ==
  /\ out.evidence # {} /\ out.evidence \subseteq ctx.facts \cup ctx.findings
  /\ out.evidence \cap ctx.findings # {}

validateDemo(out, ctx) ==
  /\ IF out.cta = "VIEW_CONCEPT"
     THEN ctx.demoLinkAllowed /\ out.mentionsDemo /\ out.alignment = "PASS" /\ out.evidence \cap ctx.demoFindings # {}
     ELSE out.alignment = "NOT_APPLICABLE" /\ ~ out.mentionsDemo
  /\ out.mentionsDemo => ctx.demoLinkAllowed

(* URLs, metrics, performance claims, false urgency, competitors, a second
   ask, jargon, stock phrases, dashes, markup, the writer's own scans. *)
breaksNoTextRule(out) == out.broken = {}

validateEmail(out, ctx, position) ==
  /\ validateSubjects(out, position)
  /\ validateFollowupDoesNotReplay(out, position)
  /\ validateSequenceCta(out, position)
  /\ out.genericity <= GENERICITY_CEILING(position.step)
  /\ out.paragraphs \in PARAGRAPH_SHAPE(position.step)
  /\ validateEvidence(out, ctx)
  /\ breaksNoTextRule(out)
  /\ validateDemo(out, ctx)
  /\ out.language = ctx.language

(***************************************************************************)
(* The reviewer's verdict                                                  *)
(***************************************************************************)
UniversalDimensions ==
  {"noFabrication", "urgencySupported", "competitorClaimsSupported", "humanStylePass", "punctuationPass",
   "singlePrimaryCta", "evidenceSupported", "demoAligned", "buyerLanguageOnly", "conversationNotAudit"}
SubjectDimensions == {"subjectSpecific", "subjectCuriosityGap"}

STEP_DEPENDENT_DIMENSIONS(step) ==
  (IF step \in {0, 1} THEN {"openingSpecific", "sufficientlyPersonalized"} ELSE {})
    \cup (IF step = 0 THEN {"businessRelevanceClear", "persuasive"} ELSE {})
    \cup (IF step \in {0, 1, 2} THEN {"singleObservation", "confidentObservation"} ELSE {})

sequenceJob(step) ==
  (IF step = 0 THEN {} ELSE {"addsClarityNotRestart", "compressedNotExpanded", "pressureReduced"})
    \cup (IF step = 3 THEN {"binaryReplyClose"} ELSE {})

isReviewOutput(review) ==
  /\ review.decision \in {"APPROVE", "APPROVE_WITH_REVISIONS", "REJECT"}
  /\ review.grants \subseteq UniversalDimensions \cup SubjectDimensions \cup sequenceJob(3)
                              \cup UNION {STEP_DEPENDENT_DIMENSIONS(n) : n \in SequenceStep}

isEmailReviewApprovable(review, step, subjectIsThreadContinuity) ==
  /\ review.decision = "APPROVE"
  /\ UniversalDimensions \subseteq review.grants
  /\ subjectIsThreadContinuity \/ SubjectDimensions \subseteq review.grants
  /\ STEP_DEPENDENT_DIMENSIONS(step) \subseteq review.grants
  /\ sequenceJob(step) \subseteq review.grants

(***************************************************************************)
(* The message                                                             *)
(***************************************************************************)
personalNameAllowed(recipient) == recipient = "PERSONAL_VERIFIED"

demoLinkAllowed(demo) == demo = "APPROVED"

resolveEmailLanguage(country) == IF country = "DE" THEN "de" ELSE "en"

(* Mutant: every position gets the first e-mail's ask. *)
ctaSentenceFor_First(cta, step) == cta

ctaSentenceFor(cta, step) ==
  IF step = FINAL_FOLLOWUP_STEP /\ cta = "REPLY_FOR_DETAILS" THEN "FINAL_CLOSE" ELSE cta

buildEmailContext(inputs) ==
  [facts |-> inputs.facts, findings |-> inputs.findings,
   demoFindings |-> inputs.demoFindings \cap inputs.findings,
   demoLinkAllowed |-> demoLinkAllowed(inputs.demo), language |-> resolveEmailLanguage(inputs.country)]

(* A contact_name fact is what the greeting would use. *)
renderEmail(out, inputs, recipient, position) ==
  [subject |-> IF position.thread # NoThread THEN replySubject(position.thread) ELSE out.selected,
   named |-> personalNameAllowed(recipient) /\ "contact_name" \in inputs.facts,
   language |-> resolveEmailLanguage(inputs.country),
   body |-> out.body, ask |-> ctaSentenceFor(out.cta, position.step)]

hasDemoUrlPlaceholder(rendered) == rendered.ask = "VIEW_CONCEPT"

=============================================================================
