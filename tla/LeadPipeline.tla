---------------------------- MODULE LeadPipeline ----------------------------
(***************************************************************************)
(* What the stages of the pipeline share: leads, the statuses they move    *)
(* through, and the sessions (command-line processes) that move them.      *)
(*                                                                         *)
(* A stage lists leads by status, works without a transaction, then opens  *)
(* one that reads the lead and writes it back by id.  PostgreSQL runs at   *)
(* READ COMMITTED and nothing locks what is read, so every such            *)
(* transaction is a step that reads and decides and a later step that      *)
(* writes whatever the lead has become.  LeadService.transition re-reads   *)
(* the status just before its UPDATE: the reading step stands for that     *)
(* last read.  A transaction that fails is a crash between the two.        *)
(***************************************************************************)
EXTENDS Integers, Sequences, FiniteSets

CONSTANTS Leads, Sessions

LeadStatuses ==
  {"NEW", "NORMALIZED", "DUPLICATE", "REJECTED_AUTOMATICALLY", "READY_FOR_QUALIFICATION",
   "QUALIFIED", "READY_FOR_ENRICHMENT", "ENRICHED", "NEEDS_MANUAL_REVIEW", "REJECTED",
   "READY_FOR_CAPTURE", "CAPTURED", "READY_FOR_AUDIT", "AUDITED", "OUTREACH_READY_DETERMINISTIC",
   "OPPORTUNITY_READY", "COMPETITOR_RESEARCH_READY", "DEMO_DECIDED", "DEMO_READY",
   "EMAIL_DRAFTED", "EMAIL_REVIEW_FAILED", "EMAIL_APPROVED", "WAITING_FOR_DEMO_URL",
   "FINALIZED_EMAIL_PENDING", "READY_FOR_HUMAN_APPROVAL", "HUMAN_APPROVED", "DRAFT_CREATED",
   "SCHEDULED", "SENT", "REPLIED", "UNSUBSCRIBED", "BOUNCED", "FAILED"}

TERMINAL ==
  {"DUPLICATE", "REJECTED_AUTOMATICALLY", "REJECTED", "UNSUBSCRIBED", "FAILED", "REPLIED", "BOUNCED"}

Edges(from, targets) == {from} \X targets

BASE_TRANSITIONS ==
  UNION {
    Edges("NEW", {"NORMALIZED"}),
    Edges("NORMALIZED", {"DUPLICATE", "REJECTED_AUTOMATICALLY", "READY_FOR_QUALIFICATION"}),
    Edges("READY_FOR_QUALIFICATION",
          {"QUALIFIED", "READY_FOR_ENRICHMENT", "REJECTED", "NEEDS_MANUAL_REVIEW"}),
    Edges("QUALIFIED", {"READY_FOR_CAPTURE"}),
    Edges("READY_FOR_ENRICHMENT", {"ENRICHED", "NEEDS_MANUAL_REVIEW", "FAILED"}),
    Edges("ENRICHED", {"READY_FOR_QUALIFICATION"}),
    Edges("READY_FOR_CAPTURE", {"CAPTURED", "NEEDS_MANUAL_REVIEW", "FAILED"}),
    Edges("CAPTURED", {"READY_FOR_AUDIT"}),
    Edges("READY_FOR_AUDIT", {"AUDITED", "NEEDS_MANUAL_REVIEW", "FAILED"}),
    Edges("AUDITED", {"OPPORTUNITY_READY", "NEEDS_MANUAL_REVIEW"}),
    Edges("OUTREACH_READY_DETERMINISTIC", {"NEEDS_MANUAL_REVIEW", "READY_FOR_HUMAN_APPROVAL"}),
    Edges("OPPORTUNITY_READY", {"COMPETITOR_RESEARCH_READY", "DEMO_DECIDED", "EMAIL_DRAFTED"}),
    Edges("COMPETITOR_RESEARCH_READY", {"DEMO_DECIDED"}),
    Edges("DEMO_DECIDED", {"DEMO_READY", "EMAIL_DRAFTED"}),
    Edges("DEMO_READY", {"EMAIL_DRAFTED"}),
    Edges("EMAIL_DRAFTED", {"EMAIL_APPROVED", "EMAIL_REVIEW_FAILED"}),
    Edges("EMAIL_REVIEW_FAILED", {"EMAIL_DRAFTED", "NEEDS_MANUAL_REVIEW"}),
    Edges("EMAIL_APPROVED", {"READY_FOR_HUMAN_APPROVAL", "WAITING_FOR_DEMO_URL"}),
    Edges("WAITING_FOR_DEMO_URL",
          {"READY_FOR_HUMAN_APPROVAL", "FINALIZED_EMAIL_PENDING", "REJECTED", "NEEDS_MANUAL_REVIEW"}),
    Edges("FINALIZED_EMAIL_PENDING", {"HUMAN_APPROVED", "REJECTED", "NEEDS_MANUAL_REVIEW"}),
    Edges("READY_FOR_HUMAN_APPROVAL", {"HUMAN_APPROVED", "REJECTED", "SENT"}),
    Edges("HUMAN_APPROVED", {"DRAFT_CREATED", "NEEDS_MANUAL_REVIEW"}),
    Edges("DRAFT_CREATED", {"SCHEDULED", "NEEDS_MANUAL_REVIEW"}),
    Edges("SCHEDULED", {"DRAFT_CREATED", "SENT", "NEEDS_MANUAL_REVIEW"}),
    Edges("SENT", {"REPLIED", "BOUNCED", "FAILED", "EMAIL_DRAFTED"}),
    Edges("NEEDS_MANUAL_REVIEW",
          {"READY_FOR_QUALIFICATION", "READY_FOR_ENRICHMENT", "READY_FOR_CAPTURE",
           "READY_FOR_AUDIT", "OUTREACH_READY_DETERMINISTIC", "REJECTED"}),
    Edges("REJECTED", {"NEEDS_MANUAL_REVIEW"})}

allowedTransitions(from) ==
  {to \in LeadStatuses : <<from, to>> \in BASE_TRANSITIONS}
    \cup (IF from \in TERMINAL THEN {} ELSE {"UNSUBSCRIBED"})

canTransition(from, to) == to \in allowedTransitions(from)

REJECTABLE_STATES ==
  {"READY_FOR_QUALIFICATION", "READY_FOR_ENRICHMENT", "READY_FOR_CAPTURE", "READY_FOR_AUDIT",
   "AUDITED", "NEEDS_MANUAL_REVIEW"}

planRejectionPath(from) ==
  IF canTransition(from, "REJECTED") THEN <<"REJECTED">> ELSE <<"NEEDS_MANUAL_REVIEW", "REJECTED">>

=============================================================================
