----------------------------- MODULE StepSequence -----------------------------
(***************************************************************************)
(* What a tracked contact may ever see of an outreach sequence: e-mail 0,  *)
(* then the follow-ups one at a time and in order, and nothing after the   *)
(* last.  The sequence may stop anywhere.  An operator may take a record   *)
(* over and move it by hand; from then on its e-mails may come in another  *)
(* order, but never twice.                                                 *)
(***************************************************************************)
EXTENDS Integers

CONSTANTS Records, FinalStep

VARIABLES steps,     \* the e-mails in the history of each record
          byHand     \* the records an operator has moved

Init == steps = [r \in Records |-> {}] /\ byHand = {}

EnrolNext(r) ==
  \E n \in (0..FinalStep) \ steps[r] :
    /\ r \notin byHand => steps[r] = 0..(n - 1)
    /\ steps' = [steps EXCEPT ![r] = @ \cup {n}]
    /\ UNCHANGED byHand

TakeOver(r) == byHand' = byHand \cup {r} /\ UNCHANGED steps

Next == \E r \in Records : EnrolNext(r) \/ TakeOver(r)

Spec == Init /\ [][Next]_<<steps, byHand>>

=============================================================================
