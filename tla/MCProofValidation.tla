---- MODULE MCProofValidation ----
(* Small instances of ProofValidation for TLC. *)
EXTENDS ProofValidation, TLC

CONSTANTS r1, r2, n1, n2

\* Both nullifiers belong to one registry.
MCHome == n1 :> r1 @@ n2 :> r1
MCHome1 == n1 :> r1
\* One each.
MCHomes == n1 :> r1 @@ n2 :> r2

\* The instance defaults for every registry: epochs of a second, or longer
\* than the run.
Uniform == {[r \in Registries |-> [size |-> 1, gap |-> 1]]}
Long == {[r \in Registries |-> [size |-> 10, gap |-> 1]]}
\* r2 overrides the epoch size with a longer one.
Overridden == {r1 :> [size |-> 1, gap |-> 1] @@ r2 :> [size |-> 3, gap |-> 1]}

Symmetry == Permutations(Validators)
====
