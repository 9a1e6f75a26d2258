----------------------------- MODULE MCPipeline -----------------------------
(* Intake and audit, side by side: a behaviour exercises one of them. *)
EXTENDS Intake, Audit, TLC

VARIABLE part

pipelineVars == <<part, intakeVars, auditVars>>

PipelineInit ==
  /\ part \in {"intake", "audit"}
  /\ IntakeInit /\ AuditInit
  /\ part = "audit" => fact = [l \in Leads |-> NoFacts]

PipelineNext ==
  /\ \/ part = "intake" /\ IntakeNext /\ UNCHANGED auditVars
     \/ part = "audit" /\ AuditNext /\ UNCHANGED intakeVars
  /\ UNCHANGED part

PipelineSpec == PipelineInit /\ [][PipelineNext]_pipelineVars

Symmetric == Permutations(Sessions) \cup Permutations(Sites)

=============================================================================
