--------------------------- MODULE OperatorFindings ---------------------------
(***************************************************************************)
(* The way round the audit: for a lead parked for manual review an         *)
(* operator approves one finding that a fixed rule derives from captured   *)
(* evidence, and then stores an e-mail of their own that rests on it.      *)
(*                                                                         *)
(* Sources: src/domain/deterministic-finding, operator-email.ts, the two   *)
(* approve commands and their repositories.                                *)
(*                                                                         *)
(* One lead.  Each command reads everything first and then writes in one   *)
(* transaction, inside which the status is read again before it is         *)
(* overwritten; between any of these the lead may be captured or audited   *)
(* anew, or another operator may be at work on it.                         *)
(***************************************************************************)
EXTENDS Integers, Sequences, FiniteSets

CONSTANTS
  Operators,
  EvidenceIds, Evidence,  \* of every id: lead, capture run, what the row says and where it leads
  RunIsAware,             \* of every capture run: its page selection looked for a booking page
  Mails,                  \* texts an operator may supply
  MaxAge,                 \* DETERMINISTIC_EVIDENCE_MAX_AGE_DAYS
  MaxDay, MaxApprovals    \* bounds

VARIABLES
  standing,   \* leads.status
  captured,   \* days on which the capture runs taken so far were completed
  findings,   \* deterministic_findings of the lead, all ACTIVE, with their evidence links
  letters,    \* email_drafts with authorship OPERATOR
  approving,       \* local state of the commands
  today,
  audited,    \* what the latest completed audit offers: none, unsafe or safe findings
  approvals,  \* commands begun so far
  crossed     \* history: two commands of one kind were under way at once

findingVars == <<standing, captured, findings, letters, approving, today, audited, approvals, crossed>>

Lead == "lead"

DeterministicEvidenceRow ==
  [lead : {Lead, "other"}, run : Nat, type : {"cta", "link", "nav_label", "form", "heading"},
   says : BOOLEAN, goes : {"nowhere", "page", "route", "provider"}, url : BOOLEAN]

OperatorEmailInput == [subject : Nat, words : Nat, breaks : SUBSET {"url", "claim", "demo", "dash", "language"}]

ASSUME FindingAssumption ==
  /\ Evidence \in [EvidenceIds -> DeterministicEvidenceRow]
  /\ Mails \subseteq OperatorEmailInput
  /\ {MaxAge, MaxDay} \subseteq Nat
  /\ RunIsAware \in Seq(BOOLEAN) \ {<<>>}   \* a lead is parked for review after a capture

AtEase == [kind |-> "none", checked |-> FALSE, to |-> "none", cited |-> {}, run |-> 0, finding |-> 0, mail |-> [words |-> 0], seen |-> 0]

FindingsInit ==
  /\ standing = "NEEDS_MANUAL_REVIEW" /\ captured = <<0>> /\ findings = <<>> /\ letters = <<>>
  /\ approving = [o \in Operators |-> AtEase] /\ today = 0 /\ audited = "unsafe" /\ approvals = 0 /\ crossed = {}

(***************************************************************************)
(* What the evidence shows                                                 *)
(***************************************************************************)
(* What a control says and where it goes, as far as its row has it. *)
saysBook(row) == row.says /\ row.type # "link"
goesTo(row) == IF row.type = "nav_label" THEN "nowhere" ELSE row.goes

(* Mutant: where a control leads is not looked at. *)
classify_Intent(row) == IF saysBook(row) THEN "intent" ELSE "none"

classify(row) ==
  IF goesTo(row) \in {"provider", "route"} THEN "direct"
  ELSE IF ~ saysBook(row) THEN "none"
  ELSE IF goesTo(row) = "nowhere" THEN "direct" ELSE "intent"

BOOKING_SCANNED_EVIDENCE_TYPES == {"cta", "link", "nav_label", "form"}

loadRunEvidence(run) == {id \in EvidenceIds : Evidence[id].run = run}

bookingSignals(run, kind) ==
  {id \in loadRunEvidence(run) :
     Evidence[id].type \in BOOKING_SCANNED_EVIDENCE_TYPES /\ classify(Evidence[id]) = kind}

discoverBooking(run) ==
  IF bookingSignals(run, "direct") # {} THEN "ONLINE_BOOKING_FOUND"
  ELSE IF ~ RunIsAware[run] \/ (\A id \in loadRunEvidence(run) : ~ Evidence[id].url) THEN "UNKNOWN"
  ELSE "NO_ONLINE_BOOKING"

(* The one category that has a template and a rule. *)
supportBookingFriction(cited, run) ==
  discoverBooking(run) = "NO_ONLINE_BOOKING" /\ cited \cap bookingSignals(run, "intent") # {}

(***************************************************************************)
(* deterministic-finding-approve                                           *)
(***************************************************************************)
latestCaptureRun == Len(captured)

(* Mutant: the age is not asked. *)
isCaptureFresh_Any(completed, now) == TRUE

isCaptureFresh(completed, now) == now - completed < MaxAge

(* Found in the table, captured from this lead, in the run under review. *)
ownedEvidence(id, run) == Evidence[id].run <= Len(captured) /\ Evidence[id].lead = Lead /\ Evidence[id].run = run

listActiveCategories == IF findings = <<>> THEN {} ELSE {"BOOKING_FRICTION"}

validateDeterministicFinding(cited, run) ==
  /\ cited # {} /\ \A id \in cited : ownedEvidence(id, run)
  /\ isCaptureFresh(captured[run], today)
  /\ supportBookingFriction(cited, run)
  /\ "BOOKING_FRICTION" \notin listActiveCategories

beginApproval(o, session) ==
  /\ approving[o] = AtEase /\ approvals < MaxApprovals
  /\ approvals' = approvals + 1
  /\ approving' = [approving EXCEPT ![o] = session]
  /\ crossed' = crossed \cup {session.kind : p \in {q \in Operators \ {o} : approving[q].kind = session.kind}}
  /\ UNCHANGED <<standing, captured, findings, letters, today, audited>>

(* The read-only part, ended by --confirm. *)
approveFinding(o, cited) ==
  /\ standing = "NEEDS_MANUAL_REVIEW"
  /\ validateDeterministicFinding(cited, latestCaptureRun)
  /\ beginApproval(o, [AtEase EXCEPT !.kind = "finding", !.to = "OUTREACH_READY_DETERMINISTIC", !.cited = cited,
                                     !.run = latestCaptureRun, !.seen = today])

leadMayMove(from, to) ==
  \/ from = "NEEDS_MANUAL_REVIEW" /\ to \in {"OUTREACH_READY_DETERMINISTIC", "READY_FOR_AUDIT", "READY_FOR_CAPTURE", "REJECTED"}
  \/ from = "OUTREACH_READY_DETERMINISTIC" /\ to \in {"NEEDS_MANUAL_REVIEW", "READY_FOR_HUMAN_APPROVAL"}
  \/ from \in {"READY_FOR_CAPTURE", "READY_FOR_AUDIT"} /\ to = "NEEDS_MANUAL_REVIEW"
  \/ from = "READY_FOR_AUDIT" /\ to = "OPPORTUNITY_READY" \* by way of AUDITED, in one transaction

giveUpApproval(o) == approving' = [approving EXCEPT ![o] = AtEase]

(* leadService.transition reads the status, in a transaction or not. *)
checkTransition(o) ==
  LET d == approving[o] IN
  /\ d # AtEase /\ ~ d.checked
  /\ IF leadMayMove(standing, d.to) THEN approving' = [approving EXCEPT ![o].checked = TRUE] ELSE giveUpApproval(o)
  /\ UNCHANGED <<standing, captured, findings, letters, today, audited, approvals, crossed>>

(* deterministic_findings_active_uk *)
activeIsFree == findings = <<>>

findingRow(d) == [run |-> d.run, evidence |-> d.cited, approvedAt |-> d.seen]

(* Mutant: the evidence of the newest run goes with it, cited or not. *)
insertApproved_Newest(d) == Append(findings, [findingRow(d) EXCEPT !.evidence = loadRunEvidence(latestCaptureRun)])

insertApproved(d) == Append(findings, findingRow(d))

(* The finding, its evidence links, the status and the note: all or none. *)
commitFinding(o) ==
  /\ approving[o].kind = "finding" /\ approving[o].checked
  /\ IF activeIsFree
     THEN findings' = insertApproved(approving[o]) /\ standing' = approving[o].to
     ELSE UNCHANGED <<findings, standing>>
  /\ giveUpApproval(o)
  /\ UNCHANGED <<captured, letters, today, audited, approvals, crossed>>

(***************************************************************************)
(* operator-email-approve                                                  *)
(***************************************************************************)
MAX_SUBJECT_LENGTH == 2
OPERATOR_MAX_EMAIL_WORDS == 3

findProhibitedClaims(mail) == mail.breaks \cap {"claim"}

(* Mutant: an operator's text is taken as it is. *)
validateOperatorEmail_Trusting(mail) == TRUE

validateOperatorEmail(mail) ==
  /\ mail.subject \in 1..MAX_SUBJECT_LENGTH
  /\ mail.words \in 1..OPERATOR_MAX_EMAIL_WORDS
  /\ mail.breaks = {} /\ findProhibitedClaims(mail) = {}

listFindingEvidenceIds(n) == findings[n].evidence

approveLetter(o, n, mail) ==
  /\ standing = "OUTREACH_READY_DETERMINISTIC"
  /\ validateOperatorEmail(mail)
  /\ beginApproval(o, [AtEase EXCEPT !.kind = "letter", !.to = "READY_FOR_HUMAN_APPROVAL", !.finding = n, !.mail = mail,
                                     !.cited = listFindingEvidenceIds(n)])

(* The note's message hash, which covers the text, the finding and its evidence. *)
computeOperatorEmailHash(finding, mail, evidence) == <<finding, mail, evidence>>

commitLetter(o) ==
  LET d == approving[o] IN
  /\ d.kind = "letter" /\ d.checked
  /\ letters' = Append(letters, [mail |-> d.mail, hash |-> computeOperatorEmailHash(d.finding, d.mail, d.cited)])
  /\ standing' = d.to
  /\ giveUpApproval(o)
  /\ UNCHANGED <<captured, findings, today, audited, approvals, crossed>>

(* The process dies before its transaction, or inside it. *)
approvalDies(o) ==
  /\ approving[o] # AtEase /\ giveUpApproval(o)
  /\ UNCHANGED <<standing, captured, findings, letters, today, audited, approvals, crossed>>

(***************************************************************************)
(* What else happens to the lead                                           *)
(***************************************************************************)
moveLead(from, to) == standing = from /\ leadMayMove(from, to) /\ standing' = to

(* capture-websites for verification picks the lead up, and later puts it back with a new run. *)
recaptureBegins ==
  /\ moveLead("NEEDS_MANUAL_REVIEW", "READY_FOR_CAPTURE")
  /\ UNCHANGED <<captured, findings, letters, approving, today, audited, approvals, crossed>>

recaptureEnds ==
  /\ Len(captured) < Len(RunIsAware)
  /\ moveLead("READY_FOR_CAPTURE", "NEEDS_MANUAL_REVIEW")
  /\ captured' = Append(captured, today)
  /\ UNCHANGED <<findings, letters, approving, today, audited, approvals, crossed>>

(* The audit's verdict; a completed one may still hold no safe finding. *)
auditEnds(to, offer) ==
  /\ offer = "safe" => to = "OPPORTUNITY_READY"
  /\ moveLead("READY_FOR_AUDIT", to)
  /\ audited' = offer
  /\ UNCHANGED <<captured, findings, letters, approving, today, approvals, crossed>>

(* requeue-lead-for-audit *)
requeue(o) ==
  /\ standing = "NEEDS_MANUAL_REVIEW"
  /\ beginApproval(o, [AtEase EXCEPT !.kind = "requeue", !.to = "READY_FOR_AUDIT"])

REJECTABLE_STATES == {"READY_FOR_CAPTURE", "READY_FOR_AUDIT", "NEEDS_MANUAL_REVIEW"}

(* reject-lead: by way of manual review where there is no direct edge. *)
planRejectionPath(from) == IF leadMayMove(from, "REJECTED") THEN "REJECTED" ELSE "NEEDS_MANUAL_REVIEW"

rejectLead(o) ==
  /\ standing \in REJECTABLE_STATES
  /\ beginApproval(o, [AtEase EXCEPT !.kind = "reject", !.to = planRejectionPath(standing)])

(* The status is written by id, whatever it has become since it was read. *)
writeStatus(o) ==
  LET d == approving[o] IN
  /\ d.kind \in {"requeue", "reject"} /\ d.checked
  /\ standing' = d.to
  /\ IF d.to = "NEEDS_MANUAL_REVIEW"
     THEN approving' = [approving EXCEPT ![o].to = "REJECTED", ![o].checked = FALSE] ELSE giveUpApproval(o)
  /\ UNCHANGED <<captured, findings, letters, today, audited, approvals, crossed>>

findingsNextDay ==
  /\ today < MaxDay /\ today' = today + 1
  /\ UNCHANGED <<standing, captured, findings, letters, approving, audited, approvals, crossed>>

(* What outreach-compose-preview would write from. *)
resolveComposerFindings == IF audited = "safe" THEN "AI" ELSE IF findings # <<>> THEN "DETERMINISTIC_OPERATOR_APPROVED" ELSE "none"

FindingsNext ==
  \/ \E o \in Operators :
       \/ \E cited \in SUBSET EvidenceIds : approveFinding(o, cited)
       \/ \E n \in DOMAIN findings, mail \in Mails : approveLetter(o, n, mail)
       \/ checkTransition(o) \/ commitFinding(o) \/ commitLetter(o)
       \/ requeue(o) \/ rejectLead(o) \/ writeStatus(o) \/ approvalDies(o)
  \/ recaptureBegins \/ recaptureEnds \/ findingsNextDay
  \/ \E offer \in {"unsafe", "safe"}, to \in {"NEEDS_MANUAL_REVIEW", "OPPORTUNITY_READY"} : auditEnds(to, offer)

FindingsSpec == FindingsInit /\ [][FindingsNext]_findingVars

(***************************************************************************)
(* Properties                                                              *)
(***************************************************************************)
FindingsTypeOK ==
  /\ standing \in {"NEEDS_MANUAL_REVIEW", "OUTREACH_READY_DETERMINISTIC", "READY_FOR_HUMAN_APPROVAL", "READY_FOR_CAPTURE",
                   "READY_FOR_AUDIT", "OPPORTUNITY_READY", "REJECTED"}
  /\ Len(captured) \in 1..Len(RunIsAware) /\ today \in 0..MaxDay
  /\ \A n \in DOMAIN findings : findings[n].run \in DOMAIN captured /\ findings[n].evidence \subseteq EvidenceIds
  /\ \A n \in DOMAIN letters : letters[n].mail \in OperatorEmailInput

(* What a finding tells the practice is what its capture shows: the run did
   look for a booking page and no control it found leads to one, at least
   one that the finding cites says book and leads elsewhere, everything it
   cites is of this lead and this run, and the run was fresh when the
   operator approved. *)
FindingHolds(f) ==
  LET leads == {id \in EvidenceIds : Evidence[id].run = f.run /\ Evidence[id].type \in {"cta", "link", "form"}}
  IN  /\ RunIsAware[f.run] /\ \A id \in leads : Evidence[id].goes \notin {"route", "provider"}
      /\ \E id \in f.evidence \cap leads : Evidence[id].says /\ Evidence[id].goes = "page"
      /\ \A id \in f.evidence : Evidence[id].lead = Lead /\ Evidence[id].run = f.run
      /\ f.approvedAt - captured[f.run] < MaxAge
FindingsHold == \A n \in DOMAIN findings : FindingHolds(findings[n])

(* The status and the rows it stands for go together: a lead that is ready
   for an operator's e-mail has something to compose from, and one that is
   ready for a person has such an e-mail. *)
StatusHasItsRows ==
  /\ standing = "OUTREACH_READY_DETERMINISTIC" => Len(findings) = 1 /\ resolveComposerFindings # "none"
  /\ standing = "READY_FOR_HUMAN_APPROVAL" => letters # <<>>

(* A stored e-mail passed the copy rules and its note reproduces from the
   finding it rests on; there is one, unless two commands ran at once. *)
LettersRestOnFindings ==
  /\ \A n \in DOMAIN letters :
       LET letter == letters[n] IN
       /\ letter.mail.breaks = {} /\ letter.mail.words \in 1..OPERATOR_MAX_EMAIL_WORDS
       /\ \E m \in DOMAIN findings : letter.hash = <<m, letter.mail, findings[m].evidence>>
  /\ "letter" \notin crossed => Len(letters) <= 1

(* What an operator approves rests on captures that show it. *)
FindingsSound == FindingsTypeOK /\ FindingsHold /\ StatusHasItsRows /\ LettersRestOnFindings

(***************************************************************************)
(* The inductive invariant                                                 *)
(***************************************************************************)
FindingRows == [run : Nat, evidence : SUBSET EvidenceIds, approvedAt : Nat]
Letters == [mail : OperatorEmailInput, hash : Nat \X OperatorEmailInput \X SUBSET EvidenceIds]
Approval ==
  [kind : {"none", "finding", "letter", "requeue", "reject"}, checked : BOOLEAN, cited : SUBSET EvidenceIds,
   to : {"none", "OUTREACH_READY_DETERMINISTIC", "READY_FOR_HUMAN_APPROVAL", "READY_FOR_AUDIT", "NEEDS_MANUAL_REVIEW",
         "REJECTED"},
   run : Nat, finding : Nat, mail : Mails \cup {AtEase.mail}, seen : Nat]

FindingTables ==
  /\ captured \in Seq(Nat) /\ findings \in Seq(FindingRows) /\ letters \in Seq(Letters)
  /\ approving \in [Operators -> Approval]

(* What a command read is still what it will write: the finding holds of its
   capture, the e-mail passed the rules and its finding cites what it did. *)
ApprovalIsSound(d) ==
  /\ d.kind = "finding" => /\ d.to = "OUTREACH_READY_DETERMINISTIC"
                           /\ d.run \in DOMAIN captured /\ FindingHolds(findingRow(d))
  /\ d.kind = "letter" => /\ d.to = "READY_FOR_HUMAN_APPROVAL" /\ d.mail \in Mails /\ validateOperatorEmail(d.mail)
                          /\ d.finding \in DOMAIN findings /\ d.cited = findings[d.finding].evidence
  /\ d.kind \in {"requeue", "reject"} => d.to \in {"READY_FOR_AUDIT", "NEEDS_MANUAL_REVIEW", "REJECTED"}

(* A lead is ready for an operator's e-mail once, before the first is stored;
   as long as no two commands overlap, none is left when it is. *)
LettersAreFew ==
  /\ Len(findings) <= 1
  /\ letters # <<>> => findings # <<>> /\ standing # "OUTREACH_READY_DETERMINISTIC"
  /\ "letter" \notin crossed =>
       /\ \A o, p \in Operators : approving[o].kind = "letter" /\ approving[p].kind = "letter" => o = p
       /\ letters # <<>> => \A o \in Operators : approving[o].kind # "letter"

FindingsInv ==
  /\ FindingTables /\ (\A o \in Operators : ApprovalIsSound(approving[o])) /\ LettersAreFew
  /\ FindingsHold /\ StatusHasItsRows /\ LettersRestOnFindings

=============================================================================
