---- MODULE Custody ----
(***************************************************************************)
(* What the sealed keystore promises about the memberships it has committed, *)
(* with no files, caches, sessions or crashes: memberships are only added,   *)
(* the password that opens them changes only while there is none, and the    *)
(* only way to lose one is damage done to the file from outside.             *)
(***************************************************************************)
CONSTANTS Hashes, Passwords, None

VARIABLES
    kept,      \* the committed memberships
    password   \* what opens them; None before the store is provisioned

Init == kept = {} /\ password = None

\* Memberships are added, under the password of those already kept.
Keep(S, p) ==
    /\ kept # {} => p = password
    /\ kept' = kept \cup S
    /\ password' = p

Lose == kept' = {} /\ password' = None

Next == Lose \/ \E S \in SUBSET Hashes, p \in Passwords : Keep(S, p)

Spec == Init /\ [][Next]_<<kept, password>>
====
