---- MODULE MCSealedStore ----
(* Small instances of SealedStore for TLC. *)
EXTENDS SealedStore, TLC

Symmetry == Permutations(Hashes) \cup Permutations(Secrets)
====
