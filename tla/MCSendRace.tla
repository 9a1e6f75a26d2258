------------------------------ MODULE MCSendRace ------------------------------
(***************************************************************************)
(* One draft under two bounds: while the contact's address is another than *)
(* the draft's a behaviour stays within one day, and only with the draft's *)
(* own address it schedules and sends over midnight.                       *)
(***************************************************************************)
EXTENDS MCControlledSend

AddressesOrMidnight ==
  \/ now = 0 /\ \A o \in Operators : op[o].at = 0
  \/ \A l \in Leads : contact[l] = DraftRecipient[l]

=============================================================================
