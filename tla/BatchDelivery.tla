--------------------------- MODULE BatchDelivery ---------------------------
(***************************************************************************)
(* What the webhook endpoint promises to Adyen, whatever requests there    *)
(* are: the items of a batch are dealt with one at a time and in the order *)
(* of the batch, a dealt-with item stays so, and a batch is acknowledged   *)
(* only at its end or at an item that no repetition would cure.            *)
(***************************************************************************)
EXTENDS Naturals

CONSTANTS
    Batches,
    Due       \* for each batch the positions of the items to deal with

VARIABLES
    done,         \* for each batch the positions of the items dealt with
    givenUp,      \* the batches of which an item cannot be dealt with
    acknowledged  \* the batches that are not delivered again

vars == <<done, givenUp, acknowledged>>

IsNext(b, i) == \A j \in Due[b] : j < i => j \in done[b]

\* An attempt at an item may fail although its work has been done.
Attempt(b, i) ==
    /\ IsNext(b, i)
    /\ done' \in {done, [done EXCEPT ![b] = @ \cup {i}]}
    /\ givenUp' \in {givenUp, givenUp \cup {b}}
    /\ UNCHANGED acknowledged

Acknowledge(b) ==
    /\ Due[b] \subseteq done[b] \/ b \in givenUp
    /\ acknowledged' = acknowledged \cup {b}
    /\ UNCHANGED <<done, givenUp>>

Init ==
    /\ done = [b \in Batches |-> {}]
    /\ givenUp = {}
    /\ acknowledged = {}

Next ==
    \E b \in Batches : Acknowledge(b) \/ \E i \in Due[b] : Attempt(b, i)

Spec == Init /\ [][Next]_vars
============================================================================
