----------------------------- MODULE MCGmailDraft -----------------------------
(* Small instances of GmailDraft for TLC. *)
EXTENDS GmailDraft, TLC

Symmetry == Permutations(Workers) \cup Permutations(Runs) \cup Permutations(Recipients)

=============================================================================
