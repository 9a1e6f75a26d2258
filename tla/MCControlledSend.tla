--------------------------- MODULE MCControlledSend ---------------------------
(***************************************************************************)
(* Small instances of ControlledSend for TLC.                              *)
(***************************************************************************)
EXTENDS ControlledSend, TLC

CONSTANTS rcptA, rcptB, p1, p2

OneRecipient == [l \in Leads |-> rcptA]

TwoLineages == p1 :> "INTERACTIVE" @@ p2 :> "SCHEDULED"

OneLineage == [p \in Senders |-> "INTERACTIVE"]

Symmetry == Permutations(Attempts) \cup Permutations(Schedules)

SenderSymmetry == Symmetry \cup Permutations(Senders) \cup Permutations(Leads)
=============================================================================
