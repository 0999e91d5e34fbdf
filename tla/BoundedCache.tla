---------------------------- MODULE BoundedCache ----------------------------
(***************************************************************************)
(* What every weight cache of the engine promises, whatever decides its    *)
(* victims: a bounded set of resident keys.  A lookup loses nothing, and   *)
(* an insertion displaces only keys that the inserting call releases, so   *)
(* that the memory behind them can be freed.                               *)
(***************************************************************************)
EXTENDS Naturals, FiniteSets

CONSTANTS Key, Capacity

VARIABLES
    resident,     \* the keys whose weights the cache holds
    released,     \* the keys the last call gave back to be freed
    call          \* the last call

vars == <<resident, released, call>>

Init == /\ resident = {}
        /\ released = {}
        /\ call = "shed"

Hit ==
    /\ resident' = resident
    /\ released' = {}
    /\ call' = "hit"

Insert(k) ==
    /\ \E victims \in SUBSET (resident \ {k}) :
          /\ resident' = (resident \ victims) \cup {k}
          /\ released' = victims
    /\ Cardinality(resident') <= Capacity
    /\ call' = "insert"

\* Memory pressure or a reset: part of the cache is dropped at once.
Shed ==
    /\ resident' \in SUBSET resident
    /\ released' = {}
    /\ call' = "shed"

Next == Hit \/ Shed \/ \E k \in Key : Insert(k)

Spec == Init /\ [][Next]_vars
=============================================================================
