---------------------------- MODULE EmailApproval ----------------------------
(***************************************************************************)
(* How an outreach e-mail comes to be approved: writer runs compose it and *)
(* store it, a resumed review may rescue a draft the automatic reviewer    *)
(* refused, a person decides on it in the dashboard, and the decided reply *)
(* e-mail is finalized, which is what the Gmail gate later asks for.       *)
(*                                                                         *)
(* Sources: src/domain/email/{email-writer-service,resume-email-review,    *)
(* resume-commit,reply-finalization}.ts, src/domain/review and their       *)
(* repositories.                                                           *)
(*                                                                         *)
(* E-mails with a reply call-to-action only: the ones waiting for a demo   *)
(* URL belong to deployment.  A model call is abstracted to its verdict.   *)
(* A transaction is one step; what is read before a model call or in       *)
(* another command is a step of its own.                                   *)
(***************************************************************************)
EXTENDS Naturals, Sequences, FiniteSets

CONSTANTS
  Leads,
  Writers,      \* processes running generate-emails / follow-up preparation / resume
  MaxEmails,    \* bound on the e-mail drafts ever stored for a lead
  MaxSteps,     \* the last follow-up step of a sequence
  Nobody        \* SQL NULL

ASSUME ApprovalAssumption ==
  /\ MaxEmails \in Nat \ {0} /\ MaxSteps \in Nat
  /\ Nobody \notin Leads

VARIABLES
  leadStatus,   \* leads.status
  email,        \* email_drafts, numbered by created_at within the lead
  written,      \* how many a lead has: the number of its latest draft
  sent,         \* how many e-mails were sent to the lead: the step due next
  finalized,    \* REPLY_DIRECT email_draft_finalizations, by finalized_at
  validated,    \* finalizations validated by a command and not yet inserted
  writer,       \* local state of each writer process
  shown         \* the draft the reviewer's page displays

approvalVars == <<leadStatus, email, written, sent, finalized, validated, writer, shown>>

Emails == 1..MaxEmails

(* OPPORTUNITY_READY stands for every state an e-mail is first written in. *)
LeadStatus ==
  {"OPPORTUNITY_READY", "EMAIL_REVIEW_FAILED", "READY_FOR_HUMAN_APPROVAL", "HUMAN_APPROVED",
   "DRAFT_CREATED", "SENT", "REJECTED", "NEEDS_MANUAL_REVIEW"}

Decisions == {"NONE", "APPROVED", "REJECTED"}

Email == [status : {"UNUSED", "APPROVED", "REVIEW_FAILED"}, decision : Decisions,
          step : 0..MaxSteps]

Writer == [task : {"idle", "write", "resume"}, lead : Leads \cup {Nobody},
           step : 0..MaxSteps, email : 0..MaxEmails]

UnusedEmail == [status |-> "UNUSED", decision |-> "NONE", step |-> 0]
IdleWriter == [task |-> "idle", lead |-> Nobody, step |-> 0, email |-> 0]

ApprovalTypeOK ==
  /\ leadStatus \in [Leads -> LeadStatus]
  /\ email \in [Leads -> [Emails -> Email]]
  /\ written \in [Leads -> 0..MaxEmails]
  /\ sent \in [Leads -> 0..(MaxSteps + 1)]
  /\ finalized \in [Leads -> Seq(Emails)]
  /\ validated \subseteq Leads \X Emails
  /\ writer \in [Writers -> Writer]
  /\ shown \in [Leads -> 0..MaxEmails]

ApprovalInit ==
  /\ leadStatus = [l \in Leads |-> "OPPORTUNITY_READY"]
  /\ email = [l \in Leads |-> [n \in Emails |-> UnusedEmail]]
  /\ written = [l \in Leads |-> 0]
  /\ sent = [l \in Leads |-> 0]
  /\ finalized = [l \in Leads |-> <<>>]
  /\ validated = {}
  /\ writer = [w \in Writers |-> IdleWriter]
  /\ shown = [l \in Leads |-> 0]

Move(l, to) == leadStatus' = [leadStatus EXCEPT ![l] = to]

isFinalized(l, n) == \E i \in DOMAIN finalized[l] : finalized[l][i] = n

(* humanDecision is no longer NULL. *)
isDecided(l, n) == email[l][n].decision # "NONE"

(***************************************************************************)
(* Writing and resuming                                                    *)
(***************************************************************************)
StopWriting(w) == writer' = [writer EXCEPT ![w] = IdleWriter]

(* At most one live draft per follow-up step: email_drafts_outreach_sequence_uk,
   which the preparation run also looks at before it composes. *)
sequenceIndexAdmits(l, step) ==
  step > 0 => \A n \in 1..written[l] : email[l][n].step = step => email[l][n].decision = "REJECTED"

(* Mutant: follow-ups never end. *)
StartWriting_Endless(w, l) ==
  /\ writer[w].task = "idle"
  /\ \/ leadStatus[l] = "OPPORTUNITY_READY"
        /\ writer' = [writer EXCEPT ![w] = [task |-> "write", lead |-> l, step |-> 0, email |-> 0]]
     \/ leadStatus[l] = "SENT" /\ sequenceIndexAdmits(l, sent[l])
        /\ writer' = [writer EXCEPT ![w] = [task |-> "write", lead |-> l, step |-> sent[l], email |-> 0]]
  /\ UNCHANGED <<leadStatus, email, written, sent, finalized, validated, shown>>

(* A lead is listed for its first e-mail, or a follow-up of it is due. *)
StartWriting(w, l) ==
  /\ writer[w].task = "idle"
  /\ \/ leadStatus[l] = "OPPORTUNITY_READY"
        /\ writer' = [writer EXCEPT ![w] = [task |-> "write", lead |-> l, step |-> 0, email |-> 0]]
     \/ leadStatus[l] = "SENT" /\ sent[l] \in 1..MaxSteps /\ sequenceIndexAdmits(l, sent[l])
        /\ writer' = [writer EXCEPT ![w] = [task |-> "write", lead |-> l, step |-> sent[l], email |-> 0]]
  /\ UNCHANGED <<leadStatus, email, written, sent, finalized, validated, shown>>

(* The lead moves only from a state the e-mail may be written in ... *)
mayDraft(l, step) ==
  leadStatus[l] = "OPPORTUNITY_READY" \/ (leadStatus[l] = "SENT" /\ step > 0)

(* ... and the draft is stored whether it moved or not. *)
storeDraft(l, status, step) ==
  /\ written[l] < MaxEmails
  /\ sequenceIndexAdmits(l, step)
  /\ written' = [written EXCEPT ![l] = @ + 1]
  /\ email' = [email EXCEPT ![l][written[l] + 1] =
                 [status |-> status, decision |-> "NONE", step |-> step]]

routeAfterReview(status) ==
  IF status = "APPROVED" THEN "READY_FOR_HUMAN_APPROVAL" ELSE "EMAIL_REVIEW_FAILED"

(* The writer and the automatic reviewer have spoken. *)
persistDraft(w, status) ==
  LET l == writer[w].lead IN
  /\ writer[w].task = "write"
  /\ storeDraft(l, status, writer[w].step)
  /\ IF mayDraft(l, writer[w].step) THEN Move(l, routeAfterReview(status)) ELSE UNCHANGED leadStatus
  /\ StopWriting(w)
  /\ UNCHANGED <<sent, finalized, validated, shown>>

(* No usable model answer: the lead is routed, no draft is stored. *)
failPersist(w) ==
  LET l == writer[w].lead IN
  /\ writer[w].task = "write"
  /\ IF mayDraft(l, writer[w].step) THEN Move(l, "EMAIL_REVIEW_FAILED") ELSE UNCHANGED leadStatus
  /\ StopWriting(w)
  /\ UNCHANGED <<email, written, sent, finalized, validated, shown>>

(* The process dies, its insert meets the unique index, or a resumed review
   gets no verdict: nothing but accounting is written. *)
WriterGivesUp(w) ==
  /\ writer[w].task # "idle"
  /\ StopWriting(w)
  /\ UNCHANGED <<leadStatus, email, written, sent, finalized, validated, shown>>

StartResume(w, l, n) ==
  /\ writer[w].task = "idle"
  /\ email[l][n].status = "REVIEW_FAILED"
  /\ leadStatus[l] = "EMAIL_REVIEW_FAILED"
  /\ writer' = [writer EXCEPT ![w] =
                  [task |-> "resume", lead |-> l, step |-> email[l][n].step, email |-> n]]
  /\ UNCHANGED <<leadStatus, email, written, sent, finalized, validated, shown>>

(* A first e-mail gets a new row, a follow-up draft is updated in place. *)
resumeCommit(w, status) ==
  LET l == writer[w].lead
      n == writer[w].email
  IN
  /\ writer[w].task = "resume"
  /\ \/ writer[w].step = 0 /\ storeDraft(l, status, 0)
     \/ writer[w].step > 0 /\ email' = [email EXCEPT ![l][n].status = status] /\ UNCHANGED written
  /\ IF leadStatus[l] = "EMAIL_REVIEW_FAILED" THEN Move(l, routeAfterReview(status))
                                              ELSE UNCHANGED leadStatus
  /\ StopWriting(w)
  /\ UNCHANGED <<sent, finalized, validated, shown>>

(***************************************************************************)
(* Human review                                                            *)
(***************************************************************************)
ShowDetail(l) ==
  /\ shown' = [shown EXCEPT ![l] = written[l]]
  /\ UNCHANGED <<leadStatus, email, written, sent, finalized, validated, writer>>

(* The posted form names the lead, so the decision falls on its latest
   draft.  A rejected follow-up returns the lead to SENT. *)
decideEmail(l, decision) ==
  LET n == written[l] IN
  /\ shown[l] # 0
  /\ leadStatus[l] = "READY_FOR_HUMAN_APPROVAL"
  /\ n # 0 /\ email[l][n].decision # decision
  /\ email' = [email EXCEPT ![l][n].decision = decision]
  /\ Move(l, CASE decision = "APPROVED" -> "HUMAN_APPROVED"
               [] decision = "REJECTED" /\ email[l][n].step > 0 -> "SENT"
               [] OTHER -> "REJECTED")
  /\ UNCHANGED <<written, sent, finalized, validated, writer, shown>>

(***************************************************************************)
(* Reply finalization (reply-email-finalize, follow-up progression)        *)
(***************************************************************************)
validateReplyFinalization(l, n) ==
  /\ leadStatus[l] = "HUMAN_APPROVED"
  /\ email[l][n].status = "APPROVED"
  /\ email[l][n].decision = "APPROVED"
  /\ ~ isFinalized(l, n)
  /\ validated' = validated \cup {<<l, n>>}
  /\ UNCHANGED <<leadStatus, email, written, sent, finalized, writer, shown>>

(* Nothing is read again; a second row for the draft is refused by
   email_draft_finalizations_reply_uk.  Or the command is only a preview. *)
insertReplyFinalization(l, n) ==
  /\ <<l, n>> \in validated
  /\ validated' = validated \ {<<l, n>>}
  /\ \/ ~ isFinalized(l, n) /\ finalized' = [finalized EXCEPT ![l] = Append(@, n)]
     \/ UNCHANGED finalized
  /\ UNCHANGED <<leadStatus, email, written, sent, writer, shown>>

(***************************************************************************)
(* Recovery by an operator                                                 *)
(***************************************************************************)
(* requeue-lead-for-audit, then the audit up to OPPORTUNITY_READY. *)
RequeueLead(l) ==
  /\ leadStatus[l] = "NEEDS_MANUAL_REVIEW"
  /\ Move(l, "OPPORTUNITY_READY")
  /\ UNCHANGED <<email, written, sent, finalized, validated, writer, shown>>

ReopenLead(l) ==
  /\ leadStatus[l] = "REJECTED"
  /\ Move(l, "NEEDS_MANUAL_REVIEW")
  /\ UNCHANGED <<email, written, sent, finalized, validated, writer, shown>>

ApprovalNext ==
  \/ \E w \in Writers : \/ failPersist(w) \/ WriterGivesUp(w)
                        \/ \E s \in {"APPROVED", "REVIEW_FAILED"} :
                             persistDraft(w, s) \/ resumeCommit(w, s)
  \/ \E w \in Writers, l \in Leads : StartWriting(w, l) \/ \E n \in Emails : StartResume(w, l, n)
  \/ \E l \in Leads : \/ ShowDetail(l) \/ RequeueLead(l) \/ ReopenLead(l)
                      \/ \E d \in {"APPROVED", "REJECTED"} : decideEmail(l, d)
                      \/ \E n \in Emails : validateReplyFinalization(l, n) \/ insertReplyFinalization(l, n)

=============================================================================
