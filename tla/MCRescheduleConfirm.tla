------------------------ MODULE MCRescheduleConfirm ------------------------
(* Small instances of the staged reschedule. *)
EXTENDS RescheduleConfirm, TLC

\* A session is moved to another slot.  A move to the slot it already has is left
\* out: createTargetIdempotent() takes the original for its own replacement, and
\* NeverWithoutSession fails for Targets = [s \in Slots |-> Slots].
OtherSlots == [s \in Slots |-> Slots \ {s}]
=============================================================================
