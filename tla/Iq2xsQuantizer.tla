---------------------------- MODULE Iq2xsQuantizer ----------------------------
(* The IQ2_XS quantiser of csrc: the tables it builds once, and the packing  *)
(* of one block, on the CPU sub-block by sub-block or on the GPU by a thread *)
(* for each, with a barrier before thread 0 writes what is shared.  Floats   *)
(* are left out: a rounded level, the nearest of the listed grid points, a   *)
(* fitted scale may be any there is.                                         *)
EXTENDS Integers, Sequences, FiniteSets

CONSTANTS
    GroupSize,  \* elements of a grid point, 8 in the code
    Groups,     \* groups of a sub-block, 2 in the code
    SubBlocks,  \* sub-blocks of a block, 16 in the code
    LogicGrid,  \* the grid: a sequence of points of levels 0 .. 2
    FitScales   \* what a fitted scale may be, in some unit

ASSUME QuantizerAssumption ==
    /\ GroupSize \in Nat \ {0} /\ GroupSize % 2 = 0
    /\ Groups \in Nat \ {0} /\ SubBlocks \in Nat \ {0} /\ SubBlocks % 2 = 0
    /\ LogicGrid \in Seq([0..GroupSize - 1 -> 0..2])
    /\ LogicGrid[1] = [i \in 0..GroupSize - 1 |-> 0]
    /\ \A a, b \in DOMAIN LogicGrid : LogicGrid[a] = LogicGrid[b] => a = b
    /\ FitScales \subseteq Int \ {0}

VARIABLES
    mode,       \* "cpu", "cuda", or "none" when nothing is quantised
    sub,        \* the local variables of each sub-block
    shared,     \* q2 and scales: s_q2 and s_scales of the GPU
    packed      \* the block_iq2_xs

uvars == <<mode, sub, shared, packed>>

Lanes == 0..GroupSize - 1
Subs  == 0..SubBlocks - 1
KMaxQ == 3

-----------------------------------------------------------------------------
\* iq2xs_init.  A point is looked up by its levels, two bits each; kmap holds
\* the index of a grid point, and for the others minus one minus the place in
\* kneighbors of a count and the points of the two nearest distances.
KMapSize == 2 * ((4^GroupSize - 1) \div 3) + 2
LevelAt(u, i) == (u \div 4^i) % 4
IndexOf(u) == {k \in 1..Len(LogicGrid) : \A i \in Lanes : LogicGrid[k][i] = LevelAt(u, i)}
OnGrid(u)  == IndexOf(u) # {}

Square(n) == n * n
Dist2(u, k) ==
    LET part[i \in 0..GroupSize] == IF i = 0 THEN 0
            ELSE part[i - 1] + Square((2 * LogicGrid[k][i - 1] + 1) - (2 * LevelAt(u, i - 1) + 1))
    IN  part[GroupSize]
\* qsort by distance, then index; the first NWant distances are kept.
NWant == 2
Nearest(u) ==
    LET closer(k) == {Dist2(u, j) : j \in {j \in 1..Len(LogicGrid) : Dist2(u, j) < Dist2(u, k)}}
    IN  {k \in 1..Len(LogicGrid) : Cardinality(closer(k)) < NWant}
SortedNearest(u) ==
    LET before(j, k) == Dist2(u, j) < Dist2(u, k) \/ (Dist2(u, j) = Dist2(u, k) /\ j < k)
    IN  [n \in 1..Cardinality(Nearest(u)) |->
            CHOOSE k \in Nearest(u) : Cardinality({j \in Nearest(u) : before(j, k)}) = n - 1]
\* counter when the second pass meets u, and the array it has filled by then.
KNeighborsBefore[u \in 0..KMapSize] ==
    IF u = 0 THEN << >>
    ELSE IF OnGrid(u - 1) THEN KNeighborsBefore[u - 1]
    ELSE KNeighborsBefore[u - 1] \o <<Cardinality(Nearest(u - 1))>> \o SortedNearest(u - 1)
KNeighbors == KNeighborsBefore[KMapSize]
KMap == [u \in 0..KMapSize - 1 |->
    IF OnGrid(u) THEN (CHOOSE k \in IndexOf(u) : TRUE) - 1 ELSE -(Len(KNeighborsBefore[u]) + 1)]

\* neighbours = kneighbors - kmap[u] - 1, as its zero-based place.
NeighbourList(u) == LET at == -KMap[u] - 1 IN {KNeighbors[at + 1 + j] : j \in 1..KNeighbors[at + 1]}

\* The code of the levels, clamped to the grid's, nearest to scaled values: it
\* is on the grid, or iq2_find_best_neighbour puts the levels of a neighbour
\* into L.
Codes == {u \in 0..KMapSize - 1 : \A i \in Lanes : LevelAt(u, i) < KMaxQ}
CodeOf(k) == CHOOSE u \in Codes : \A i \in Lanes : LevelAt(u, i) = LogicGrid[k][i]
Roundings ==
    {[L |-> u, on |-> TRUE] : u \in {v \in Codes : OnGrid(v)}}
    \cup {[L |-> CodeOf(k), on |-> FALSE] : k \in UNION {NeighbourList(u) : u \in {v \in Codes : ~OnGrid(v)}}}

-----------------------------------------------------------------------------
IdleQuantizer == mode = "none" /\ sub = << >> /\ shared = << >> /\ packed = << >>
Fresh == [stage |-> "signs", minus |-> [g \in 1..Groups |-> {}], L |-> [g \in 1..Groups |-> 0],
          on |-> [g \in 1..Groups |-> TRUE], scale |-> 0]
Blank == [index |-> 0, signs |-> {}]
StartQuantizer(m) ==
    /\ mode = m
    /\ sub = [t \in Subs |-> Fresh]
    /\ shared = [q2 |-> [t \in Subs |-> [g \in 1..Groups |-> Blank]], scales |-> [t \in Subs |-> 0]]
    /\ packed = << >>

\* One sub-block after another, or a thread for each.
Runs(t) == mode = "cpu" => \A v \in 0..t - 1 : sub[v].stage = "coded"
Becomes(t, s) == sub' = [sub EXCEPT ![t] = s]

\* Were the signs not made even.
AnySigns(minus) == {minus}
\* An odd number of minuses is made even at the least important element.
EvenSigns(minus) ==
    IF Cardinality(minus) % 2 = 0 THEN {minus}
    ELSE {(minus \cup {i}) \ (minus \cap {i}) : i \in Lanes}
\* Seven signs are kept of eight.
Kept7(minus) == minus \ {GroupSize - 1}

\* A sub-block of zeros is done; any other starts from L = 0 and a scale > 0.
ExtractSigns(t) ==
    /\ mode # "none" /\ sub[t].stage = "signs" /\ Runs(t)
    /\ \/ \E minus \in [1..Groups -> UNION {EvenSigns(m) : m \in SUBSET Lanes}], s \in {n \in FitScales : n > 0} :
            Becomes(t, [sub[t] EXCEPT !.stage = "search", !.minus = minus, !.scale = s])
       \/ Becomes(t, [sub[t] EXCEPT !.stage = "coded"])
    /\ UNCHANGED <<mode, shared, packed>>

\* One of the nineteen scales that fits better than those before it.
TryScale(t) ==
    LET s == sub[t]
    IN  /\ mode # "none" /\ s.stage = "search" /\ Runs(t)
        /\ \E r \in [1..Groups -> Roundings], fit \in FitScales :
             Becomes(t, [s EXCEPT !.L = [g \in 1..Groups |-> r[g].L], !.on = [g \in 1..Groups |-> r[g].on], !.scale = fit])
        /\ UNCHANGED <<mode, shared, packed>>

\* Groups off the grid are rounded again for the scale that was found.
Refit(t) ==
    LET s == sub[t]
    IN  /\ mode # "none" /\ s.stage = "search" /\ Runs(t)
        /\ IF (\A g \in 1..Groups : s.on[g]) \/ s.scale <= 0 THEN Becomes(t, [s EXCEPT !.stage = "fitted"])
           ELSE \E r \in [1..Groups -> Roundings], fit \in FitScales \cup {0} :
                  Becomes(t, [s EXCEPT !.stage = "fitted", !.scale = fit,
                                       !.L = [g \in 1..Groups |-> IF s.on[g] THEN s.L[g] ELSE r[g].L]])
        /\ UNCHANGED <<mode, shared, packed>>

\* A negative scale turns every sign; then the words are put together.
Turned(s) == IF s.scale < 0 THEN [s EXCEPT !.scale = -@, !.minus = [g \in 1..Groups |-> Lanes \ s.minus[g]]] ELSE s
Word(s, g) == [index |-> IF KMap[s.L[g]] < 0 THEN 0 ELSE KMap[s.L[g]], signs |-> Kept7(s.minus[g])]
EncodeSub(t) ==
    LET s == Turned(sub[t])
    IN  /\ mode # "none" /\ s.stage = "fitted" /\ Runs(t)
        /\ shared' = [q2 |-> [shared.q2 EXCEPT ![t] = [g \in 1..Groups |-> Word(s, g)]],
                      scales |-> [shared.scales EXCEPT ![t] = s.scale]]
        /\ Becomes(t, [s EXCEPT !.stage = "coded"])
        /\ UNCHANGED <<mode, packed>>

\* nearest_int: ties go to the even one.
NearestInt(num, den) ==
    LET low == num \div den  twice == 2 * (num % den)
    IN  IF twice < den \/ (twice = den /\ low % 2 = 0) THEN low ELSE low + 1
Clamped(low, high, n) == IF n < low THEN low ELSE IF n > high THEN high ELSE n
\* d = max / 31, l = nearest_int(0.5 * (scale / d - 1)).
MaxScale(scales) == CHOOSE m \in {scales[t] : t \in Subs} : \A t \in Subs : scales[t] <= m
Scale4(scale, max) == Clamped(0, 15, NearestInt(31 * scale - max, 2 * max))

\* After the barrier: d, the scales two to a byte, and the words, all zero
\* when every scale is.
EncodeBlock ==
    LET max == MaxScale(shared.scales)
    IN  /\ mode # "none" /\ packed = << >>
        /\ \A t \in Subs : sub[t].stage = "coded"
        /\ packed' = IF max = 0
                     THEN [max |-> 0, scales |-> [b \in 0..(SubBlocks \div 2) - 1 |-> 0],
                           qs |-> [t \in Subs |-> [g \in 1..Groups |-> Blank]]]
                     ELSE [max |-> max, qs |-> shared.q2,
                           scales |-> [b \in 0..(SubBlocks \div 2) - 1 |->
                               Scale4(shared.scales[2 * b], max) + 16 * Scale4(shared.scales[2 * b + 1], max)]]
        /\ UNCHANGED <<mode, sub, shared>>

\* dequantize_row_iq2_xs: the sign that is not kept makes their number even.
DecodedMinus(word) == IF Cardinality(word.signs) % 2 = 1 THEN word.signs \cup {GroupSize - 1} ELSE word.signs
DecodedLevels(word) == LogicGrid[word.index + 1]
DecodedScale(t) ==
    LET byte == packed.scales[t \div 2] IN IF t % 2 = 0 THEN byte % 16 ELSE byte \div 16

QuantizerStep ==
    \/ \E t \in Subs : ExtractSigns(t) \/ TryScale(t) \/ Refit(t) \/ EncodeSub(t)
    \/ EncodeBlock
QuantizerDone == mode # "none" => packed # << >>
=============================================================================
