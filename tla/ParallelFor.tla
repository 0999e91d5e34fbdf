----------------------------- MODULE ParallelFor ------------------------------
(***************************************************************************)
(* What ds4_parallel_for promises the kernels of ds4.c that hand it a row  *)
(* function: while a call is in progress rows are computed in any order    *)
(* and by anybody, each at most once, and the call returns only when every *)
(* row it was asked for has been computed.                                 *)
(***************************************************************************)
EXTENDS Naturals

CONSTANT MaxRows    \* bound on the rows of a call

VARIABLES
    busy,       \* a call is in progress
    asked,      \* the n_rows of the last call
    covered     \* how often each row has been computed since that call began

vars == <<busy, asked, covered>>

Row == 0..MaxRows - 1
Exactly(n) == [r \in Row |-> IF r < n THEN 1 ELSE 0]

Init ==
    /\ busy = FALSE
    /\ asked = 0
    /\ covered = Exactly(0)

Call ==
    /\ ~busy
    /\ busy' = TRUE
    /\ asked' \in 0..MaxRows
    /\ covered' = Exactly(0)

Compute ==
    /\ busy
    /\ covered' \in [Row -> {0, 1}]
    /\ \A r \in Row : covered'[r] # covered[r] => covered[r] = 0 /\ r < asked
    /\ UNCHANGED <<busy, asked>>

Return ==
    /\ busy
    /\ busy' = FALSE
    /\ covered' = Exactly(asked)
    /\ UNCHANGED asked

Next == Call \/ Compute \/ Return

Spec == Init /\ [][Next]_vars
=============================================================================
