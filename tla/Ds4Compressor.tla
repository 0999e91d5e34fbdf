---------------------------- MODULE Ds4Compressor -----------------------------
(***************************************************************************)
(* The streaming KV compressor of third/ds4/ds4.c, as the CPU reference    *)
(* path computes it (compressor_decode_one and its helpers).  A row stands *)
(* for the token prefix it was computed from.  attn_state_kv and           *)
(* attn_state_score are written together, so one state stands for both; a  *)
(* score of DS4_NEG_INF, which gives a row no weight, is NoRow.            *)
(*                                                                         *)
(* In the code the ratio whose layers pool two windows is 4.               *)
(***************************************************************************)
EXTENDS Integers, SequencesExt

CONSTANT OverlapRatio

NoRow == << >>

\* The row of position p when the tokens are t.
RowAt(t, p) == SubSeq(t, 1, p + 1)

Depth(ratio) == IF ratio = OverlapRatio THEN 2 * ratio ELSE ratio
EmptyState(ratio) == [i \in 0..Depth(ratio) - 1 |-> NoRow]

Emits(ratio, p) == ((p + 1) % ratio) = 0

\* Where the current window is kept, and where a position goes in it.
CurrentHalf(ratio) == IF ratio = OverlapRatio THEN ratio ELSE 0
StateSlot(ratio, p) == CurrentHalf(ratio) + (p % ratio)

\* compressor_pool_decode_state: a softmax over the rows that have a score.
Pooled(ratio, state) ==
    LET current  == {state[CurrentHalf(ratio) + r] : r \in 0..ratio - 1} \ {NoRow}
        previous == IF ratio = OverlapRatio
                    THEN {state[r] : r \in 0..ratio - 1} \ {NoRow} ELSE {}
    IN  [current |-> current, previous |-> previous]

Slide(ratio, state) ==
    IF ratio = OverlapRatio
    THEN [i \in DOMAIN state |-> IF i < ratio THEN state[ratio + i] ELSE state[i]]
    ELSE state

\* A compressed cache is the rows that count and the compressor state.
\* kv_cache_push_comp appends at the count.
EmptyCache(ratio) == [rows |-> << >>, state |-> EmptyState(ratio)]

Compress(ratio, cache, t, p) ==
    LET stored == [cache.state EXCEPT ![StateSlot(ratio, p)] = RowAt(t, p)]
    IN  IF Emits(ratio, p)
        THEN [rows |-> Append(cache.rows, Pooled(ratio, stored)), state |-> Slide(ratio, stored)]
        ELSE [cache EXCEPT !.state = stored]

\* The loop over the tokens p0 .. p0 + n - 1 of a batch.
CompressAll(ratio, cache, t, p0, n) ==
    LET after[k \in 0..n] == IF k = 0 THEN cache ELSE Compress(ratio, after[k - 1], t, p0 + k - 1)
    IN  after[n]

(***************************************************************************)
(* What a compressed cache must hold when the tokens t have been seen.     *)
(***************************************************************************)
WindowRows(ratio, t, g) == {RowAt(t, g * ratio + r) : r \in 0..ratio - 1}
BlockOf(ratio, t, g) ==
    [current  |-> WindowRows(ratio, t, g),
     previous |-> IF ratio = OverlapRatio /\ g > 0 THEN WindowRows(ratio, t, g - 1) ELSE {}]
Blocks(ratio, t) == [b \in 1..Len(t) \div ratio |-> BlockOf(ratio, t, b - 1)]

\* compressor_finish_prefill_state_cpu: the rows of the window that is not
\* complete, and for the overlapping ratio those of the last complete one.
StateAfter(ratio, t) ==
    LET rem  == Len(t) % ratio
        done == Len(t) - rem
        half == CurrentHalf(ratio)
    IN  [i \in 0..Depth(ratio) - 1 |->
            IF i \in half..half + rem - 1 THEN RowAt(t, done + i - half)
            ELSE IF i < half /\ done >= ratio THEN RowAt(t, done - ratio + i)
            ELSE NoRow]

\* Rows of the current half from the position on are overwritten before they
\* are pooled: they need not match.
CacheMatches(ratio, cache, t) ==
    /\ cache.rows = Blocks(ratio, t)
    /\ \A i \in 0..CurrentHalf(ratio) + (Len(t) % ratio) - 1 : cache.state[i] = StateAfter(ratio, t)[i]
=============================================================================
