--------------------------- MODULE MCAccountSlots ---------------------------
(* AccountSlots on small instances. *)
EXTENDS AccountSlots, TLC
=============================================================================
