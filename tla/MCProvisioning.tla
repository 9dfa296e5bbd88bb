---- MODULE MCProvisioning ----
(* Small instances of Provisioning. *)
EXTENDS Provisioning

CONSTANTS n1, n2

Env(seq, net) == [seq |-> seq, net |-> net]

\* Nothing set; a chain alone and with a label; a network of the table, and one
\* that is not.
SomeEnvs ==
    {Env(None, None), Env(Elsewhere, None), Env(Elsewhere, n1), Env(None, n1), Env(None, Foreign)}
====
