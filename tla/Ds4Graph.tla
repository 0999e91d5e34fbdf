------------------------------ MODULE Ds4Graph --------------------------------
(***************************************************************************)
(* The KV memory of the Metal graph of third/ds4/ds4.c and what its        *)
(* encoders do to it: for every layer a ring of raw rows, for every        *)
(* compressed layer an attention cache and, when it overlaps, an indexer   *)
(* cache of the same shape.  The ds4_metal_* kernels are not part of the   *)
(* repository; each is taken to do to the rows what the CPU path does.     *)
(***************************************************************************)
EXTENDS Ds4Compressor

CONSTANTS
    NumLayers,      \* DS4_N_LAYER
    Ratio,          \* ds4_layer_compress_ratio: layer -> ratio, 0 for none
    Win,            \* raw_window (128)
    PrefillCap,     \* metal_graph_prefill_cap_for_prompt (2048)
    Ctx,            \* ctx_size
    Token, Eos,
    Greedy(_),      \* the token the model prefers after a prefix
    RawAlign,       \* the ring is a multiple of this many rows (256)
    RawMax          \* and has at most this many (8192)

Layer == 1..NumLayers
Lane == {<<l, "attn">> : l \in {k \in Layer : Ratio[k] # 0}}
        \cup {<<l, "index">> : l \in {k \in Layer : Ratio[k] = OverlapRatio}}
LaneRatio(ln) == Ratio[ln[1]]

Smaller(a, b) == IF a <= b THEN a ELSE b

\* metal_graph_raw_cap_for_context, with no DS4_METAL_GRAPH_RAW_CAP to shrink
\* the ring: the window and a chunk, padded, cut and at least the window.
PaddedRows ==
    LET rows == Smaller(Win + PrefillCap, Ctx)
    IN  ((rows + RawAlign - 1) \div RawAlign) * RawAlign
RawCap ==
    LET cut == Smaller(PaddedRows, RawMax)
    IN  IF cut < Smaller(Win, Ctx) THEN Smaller(Win, Ctx) ELSE cut

\* metal_graph_alloc_raw_cap: one capacity, for the smallest ratio.
CompCap ==
    LET ratios == {Ratio[l] : l \in Layer} \ {0}
        least  == CHOOSE r \in ratios : \A s \in ratios : r <= s
    IN  Ctx \div least + 2

\* The verifier's prefix-1 capture and a draft of two need ratios above two.
\* Unless DS4_METAL_PREFILL_CHUNK is set, a chunk of at most 2048 tokens and
\* a window of 128 need 2304 rows, far from the ceiling.
ASSUME GraphAssumption ==
    /\ {NumLayers, Win, PrefillCap, Ctx, RawAlign, RawMax, OverlapRatio} \subseteq Nat \ {0}
    /\ Ratio \in [Layer -> Nat \ {1, 2}]
    /\ \E l \in Layer : Ratio[l] # 0
    /\ PrefillCap <= RawCap
    /\ PaddedRows <= RawMax

EmptyGraph ==
    [ring |-> [l \in Layer |-> [i \in 0..RawCap - 1 |-> NoRow]],
     lane |-> [ln \in Lane |-> EmptyCache(LaneRatio(ln))]]

------------------------------------------------------------------------------
(* The tokens p0 .. p0 + n - 1 of t, in one batch.                          *)

\* Row p of the batch goes to ring slot p % raw_cap; the last of a slot wins.
StoreRaw(ring, t, p0, n) ==
    [i \in 0..RawCap - 1 |->
        LET here == {p \in p0..p0 + n - 1 : p % RawCap = i}
        IN  IF here = {} THEN ring[i]
            ELSE RowAt(t, CHOOSE p \in here : \A q \in here : q <= p)]

\* A batch that begins the sequence: all blocks at once, state and count set.
PrefillLane(ratio, t, n) ==
    [rows |-> Blocks(ratio, SubSeq(t, 1, n)), state |-> StateAfter(ratio, SubSeq(t, 1, n))]

\* A later batch of whole windows: its blocks are appended at the count, the
\* first of them on top of the previous window the state holds.
AlignedLane(ratio, cache, t, p0, n) ==
    LET before == {cache.state[r] : r \in 0..ratio - 1} \ {NoRow}
        block(k) ==
            IF k = 1 /\ ratio = OverlapRatio
            THEN [current |-> WindowRows(ratio, t, p0 \div ratio), previous |-> before]
            ELSE BlockOf(ratio, t, (p0 \div ratio) + k - 1)
    IN  [rows  |-> cache.rows \o [k \in 1..n \div ratio |-> block(k)],
         state |-> StateAfter(ratio, SubSeq(t, 1, p0 + n))]

Aligned(ratio, p0, n) == (p0 % ratio) = 0 /\ (n % ratio) = 0

BatchLane(ratio, cache, t, p0, n) ==
    IF p0 = 0 THEN PrefillLane(ratio, t, n)
    ELSE IF Aligned(ratio, p0, n) THEN AlignedLane(ratio, cache, t, p0, n)
    ELSE CompressAll(ratio, cache, t, p0, n)

\* metal_graph_encode_layer_batch over all layers.
Batch(g, t, p0, n) ==
    [ring |-> [l \in Layer |-> StoreRaw(g.ring[l], t, p0, n)],
     lane |-> [ln \in Lane |-> BatchLane(LaneRatio(ln), g.lane[ln], t, p0, n)]]

\* metal_graph_encode_decode_layer over all layers, for position p.
Decode(g, t, p) ==
    [ring |-> [l \in Layer |-> [g.ring[l] EXCEPT ![p % RawCap] = RowAt(t, p)]],
     lane |-> [ln \in Lane |-> Compress(LaneRatio(ln), g.lane[ln], t, p)]]

\* In the layers 1 .. k the new blocks fit the caches, and a batch that begins
\* the sequence has the window an overlapping state is rebuilt from.
BlocksFit(had, p0, n, k) ==
    \A ln \in {m \in Lane : m[1] <= k} :
        had[ln] + ((p0 + n) \div LaneRatio(ln)) - (p0 \div LaneRatio(ln)) <= CompCap
HeldBlocks(g) == [ln \in Lane |-> Len(g.lane[ln].rows)]

DecodableTo(g, p, k) == BlocksFit(HeldBlocks(g), p, 1, k)
EncodableTo(g, p0, n, k) ==
    IF p0 # 0 THEN BlocksFit(HeldBlocks(g), p0, n, k)
    ELSE /\ BlocksFit([ln \in Lane |-> 0], 0, n, k)
         /\ n >= OverlapRatio \/ \A l \in 1..k : Ratio[l] # OverlapRatio

Decodable(g, p) == DecodableTo(g, p, NumLayers)
Encodable(g, p0, n) == EncodableTo(g, p0, n, NumLayers)

\* A command that fails has gone through some of the layers.
Partly(before, after, k) ==
    [ring |-> [l \in Layer |-> IF l <= k THEN after.ring[l] ELSE before.ring[l]],
     lane |-> [ln \in Lane |-> IF ln[1] <= k THEN after.lane[ln] ELSE before.lane[ln]]]

------------------------------------------------------------------------------
(* What attention reads.                                                    *)

\* Variant: a batch asks for no row before its own.
RawSpan_BatchOnly(p0, n) == Smaller(Smaller(IF n = 1 THEN Win ELSE n, p0 + n), RawCap)

\* metal_graph_raw_span_for_batch
RawSpan(p0, n) ==
    Smaller(Smaller(n + (IF n = 1 THEN Win - 1 ELSE Win), p0 + n), RawCap)

WindowOf(p) == {q \in 0..p : q + Win > p}

\* The queries (layer, position) of the batch whose window or blocks are not
\* exactly those of t, in the graph g the batch has left.  A batch that begins
\* the sequence takes its window from the batch itself.
Misread(g, t, p0, n) ==
    LET first == p0 + n - RawSpan(p0, n)
        start == first % RawCap
        gathered(l, q) == g.ring[l][(start + (q - first)) % RawCap]
        rawWrong(l, p) ==
            p0 > 0 /\ \E q \in WindowOf(p) : q < first \/ gathered(l, q) # RowAt(t, q)
        blocksWrong(l, p) ==
            \E ln \in Lane : ln[1] = l /\
                ~IsPrefix(Blocks(Ratio[l], SubSeq(t, 1, p + 1)), g.lane[ln].rows)
    IN  {lp \in Layer \X (p0..p0 + n - 1) : rawWrong(lp[1], lp[2]) \/ blocksWrong(lp[1], lp[2])}

------------------------------------------------------------------------------
(* Speculation: compressor states and counts are saved and put back.        *)

Frontier(g) == [ln \in Lane |-> [count |-> Len(g.lane[ln].rows), state |-> g.lane[ln].state]]

\* Variant: the counts stay where the rejected drafts left them.
Restored_CountsStay(g, f) ==
    [g EXCEPT !.lane = [ln \in Lane |-> [g.lane[ln] EXCEPT !.state = f[ln].state]]]

\* spec_frontier_restore and spec_frontier_commit_prefix1
Restored(g, f) ==
    [g EXCEPT !.lane = [ln \in Lane |->
        [rows |-> SubSeq(g.lane[ln].rows, 1, f[ln].count), state |-> f[ln].state]]]

(***************************************************************************)
(* The graph a sequence of tokens must leave behind, up to what no later   *)
(* step can read.                                                          *)
(***************************************************************************)
GraphMatches(g, t) ==
    /\ \A l \in Layer : \A p \in WindowOf(Len(t) - 1) : g.ring[l][p % RawCap] = RowAt(t, p)
    /\ \A ln \in Lane : CacheMatches(LaneRatio(ln), g.lane[ln], t)
=============================================================================
