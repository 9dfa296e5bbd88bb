---- MODULE MCMembershipLifecycle ----
(* Small instances of MembershipLifecycle for TLC. *)
EXTENDS MembershipLifecycle, TLC

Symmetry == Permutations(Members) \cup Permutations(Callers) \cup Permutations(Pollers)
====
