---------------------------- MODULE MCSlotStore ----------------------------
(***************************************************************************)
(* Small instances of SlotStore: two commands, two slots.                  *)
(***************************************************************************)
EXTENDS SlotStore, TLC

CONSTANTS p1, p2

Commands == {p1, p2}
Alike == Permutations(Commands)
=============================================================================
