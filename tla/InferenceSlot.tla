--------------------------- MODULE InferenceSlot ---------------------------
(***************************************************************************)
(* What the start and exit buttons promise, and nothing of how: there is   *)
(* one inference slot.  A thread takes the slot only when nobody has it,   *)
(* gives it back once, and never comes back.  Session implements it.       *)
(***************************************************************************)
CONSTANT Threads

VARIABLES
  holders,   (* the threads that have the slot: at most one *)
  used       (* the threads that have had it                *)

svars == <<holders, used>>

SlotInit ==
  /\ holders = {}
  /\ used = {}

Acquire(t) ==
  /\ holders = {}
  /\ t \in Threads \ used
  /\ holders' = {t}
  /\ used' = used \cup {t}

Release(t) ==
  /\ t \in holders
  /\ holders' = holders \ {t}
  /\ UNCHANGED used

SlotNext == \E t \in Threads : Acquire(t) \/ Release(t)

SlotSpec == SlotInit /\ [][SlotNext]_svars
=============================================================================
