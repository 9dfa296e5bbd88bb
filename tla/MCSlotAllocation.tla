---- MODULE MCSlotAllocation ----
(* Small instances of SlotAllocation for TLC. *)
EXTENDS SlotAllocation, TLC

Symmetry == Permutations(Apps) \cup Permutations(Callers)
====
