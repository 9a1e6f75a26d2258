------------------------------- MODULE SendOnce -------------------------------
(***************************************************************************)
(* What controlled sending promises of one schedule, without processes,    *)
(* rows or a provider: a schedule is claimed by one attempt at a time, a   *)
(* claim ends either in the delivery of the message or in the certainty    *)
(* that it was not delivered, and only the latter lets another attempt     *)
(* claim the schedule.                                                     *)
(***************************************************************************)
CONSTANTS Attempts, Schedules, None

VARIABLES
  stage,   \* of each attempt
  claim    \* the schedule an attempt is for

onceVars == <<stage, claim>>

(* A stage is "free", "held", "released" or "delivered". *)
OnceInit ==
  /\ stage = [a \in Attempts |-> "free"]
  /\ claim = [a \in Attempts |-> None]

Claimed(s) == \E b \in Attempts : claim[b] = s /\ stage[b] \in {"held", "delivered"}

Claim(a, s) ==
  /\ stage[a] = "free"
  /\ ~ Claimed(s)
  /\ stage' = [stage EXCEPT ![a] = "held"]
  /\ claim' = [claim EXCEPT ![a] = s]

Release(a) ==
  /\ stage[a] = "held"
  /\ stage' = [stage EXCEPT ![a] = "released"]
  /\ UNCHANGED claim

Deliver(a) ==
  /\ stage[a] = "held"
  /\ stage' = [stage EXCEPT ![a] = "delivered"]
  /\ UNCHANGED claim

OnceNext ==
  \E a \in Attempts :
    \/ \E s \in Schedules : Claim(a, s)
    \/ Release(a)
    \/ Deliver(a)

OnceSpec == OnceInit /\ [][OnceNext]_onceVars
=============================================================================
