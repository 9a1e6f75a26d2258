------------------------------ MODULE MCOutreach ------------------------------
(* Small instances of Outreach for TLC. *)
EXTENDS Outreach, TLC

CONSTANTS l1, l2, c1

OneContact == [l \in Leads |-> c1]

ClosingOrAdvancing == {St("CLOSED_LOST"), St("DO_NOT_CONTACT"), Due(1), Sent(1)}
Closing == {St("CLOSED_LOST")}
Nothing == {}

WorkersAlike == Permutations(Workers)

=============================================================================
