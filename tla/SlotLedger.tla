---- MODULE SlotLedger ----
(***************************************************************************)
(* What slot allocation promises its callers, with no store, no clock and  *)
(* no disk: a message_id of an (rln_identifier, epoch) of a membership is   *)
(* handed out at most once, and never after a higher one of the same pair.  *)
(* Two proofs that share (membership, rln_identifier, epoch, message_id)    *)
(* reveal the identity secret, so this is the promise everything in         *)
(* SlotAllocation exists to keep.                                           *)
(***************************************************************************)
EXTENDS Naturals

CONSTANTS
    Members,   \* memberships (hashes of the sealed credentials)
    Apps,      \* rln_identifiers
    Epochs,    \* epoch indices
    Slots      \* message_ids

VARIABLE issued   \* how often each slot has been handed out

Keys == Members \X Apps \X Epochs \X Slots

Init == issued = [k \in Keys |-> 0]

\* The next slot goes out: neither it nor a later one of its pair ever has.
Issue(m, a, e, s) ==
    /\ \A t \in Slots : t >= s => issued[<<m, a, e, t>>] = 0
    /\ issued' = [issued EXCEPT ![<<m, a, e, s>>] = 1]

Next == \E m \in Members, a \in Apps, e \in Epochs, s \in Slots : Issue(m, a, e, s)

Spec == Init /\ [][Next]_issued
====
