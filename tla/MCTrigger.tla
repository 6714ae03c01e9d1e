----------------------------- MODULE MCTrigger -----------------------------
(* Trigger for TLC: a target beyond the limit and in range only without     *)
(* the lead, and one so close that debouncing drops it without the lead.   *)
EXTENDS Trigger

MCOffsets == {-9, 2}
=============================================================================
