------------------------------ MODULE Allocator ------------------------------
(***************************************************************************)
(* What a dynamic allocator promises its callers: the bytes it hands out   *)
(* lie in its region and belong to one caller until they are given back.   *)
(***************************************************************************)
EXTENDS Integers

CONSTANTS
    First, Last,    \* the region is the addresses First..(Last - 1)
    Requests        \* the sizes that are asked for

Addresses == First..Last

VARIABLE owned      \* the size asked for at each address handed out, else 0

Holds(p) == owned[p] > 0

Init == owned = [p \in Addresses |-> 0]

Malloc(p, n) ==
    /\ owned' = [owned EXCEPT ![p] = n]
    /\ p + n <= Last
    /\ \A q \in Addresses : Holds(q) => p + n <= q \/ q + owned[q] <= p

Free(p) ==
    /\ Holds(p)
    /\ owned' = [owned EXCEPT ![p] = 0]

Next == \E p \in Addresses : Free(p) \/ \E n \in Requests : Malloc(p, n)

Spec == Init /\ [][Next]_owned
=============================================================================
