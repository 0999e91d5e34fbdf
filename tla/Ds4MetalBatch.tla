---------------------------- MODULE Ds4MetalBatch ----------------------------
(* The batch layer of ds4.c's Metal graph and the passes that run it: prompt *)
(* prefill in chunks, token-by-token decode, and the two verifiers of        *)
(* speculation.  Row i of every batch_* buffer stands for the token pos0 + i *)
(* of the chunk; the passes hand each other the caches and nothing else.     *)
EXTENDS Ds4MetalLayers

\* A batch is its tokens in order; its row of the token t in the buffer p.
B(p, ts, t) == Row(p, t - ts[1])
LastToken(ts) == ts[Len(ts)]
ZeroPrefix(ts) == ts[1] = 0
AlignedChunk(l, ts) == ts[1] % Ratio[l] = 0 /\ Len(ts) % Ratio[l] = 0

\* One kernel over all the rows of a batch.
Kernel(ts, s, k, out, in) ==
    LET row(t) == << Op(s, k, t, B(out, ts, t), {B(in, ts, t)}) >> IN EachOf(ts, row)

UploadPrompt(ts, hc) ==
    LET token(t) == << Copy(B("prefill_tokens", ts, t), Prompt(t)) >>
        embed(t) == << Op("hc", 1, t, B(hc, ts, t), {B("prefill_tokens", ts, t)}) >>
    IN  EachOf(ts, token) \o EachOf(ts, embed)

BatchHcPre(k, ts, x, cur, norm) ==
    LET weigh(t) == << Op("cur", k, t, B(cur, ts, t), {B(x, ts, t), B("batch_hc_split", ts, t)}) >>
    IN  Kernel(ts, "flat", k, "batch_flat_hc", x) \o Kernel(ts, "mix", k, "batch_hc_mix", "batch_flat_hc")
        \o Kernel(ts, "split", k, "batch_hc_split", "batch_hc_mix") \o EachOf(ts, weigh)
        \o Kernel(ts, "norm", k, norm, cur)

BatchQkv(k, ts, fused) ==
    LET kv_a == Kernel(ts, "kv_a", k, "batch_kv_raw", "batch_attn_norm")
        kv_n == Kernel(ts, "kv_n", k, "batch_kv", "batch_kv_raw")
        qr   == Kernel(ts, "qr", k, "batch_qr_norm", "batch_qr")
        q    == Kernel(ts, "q_b", k, "batch_q", "batch_qr_norm") \o Kernel(ts, "q_n", k, "batch_q", "batch_q")
                \o Kernel(ts, "q", k, "batch_q", "batch_q")
    IN  Kernel(ts, "qr_raw", k, "batch_qr", "batch_attn_norm")
        \o (IF fused THEN kv_a \o qr \o kv_n \o q ELSE qr \o q \o kv_a \o kv_n)
        \o Kernel(ts, "kv_r", k, "batch_kv", "batch_kv") \o Kernel(ts, "kv", k, "batch_kv", "batch_kv")

StoreRawBatch(l, ts) == LET row(t) == << Copy(Ring(l, t), B("batch_kv", ts, t)) >> IN EachOf(ts, row)

-----------------------------------------------------------------------------
\* The compressor of a batch.  A batch that begins the sequence starts from an
\* empty state, whatever the graph held.
ClearState(l, lane) == << Op(lane.state, Attn(l), -1, StateOf(l, lane), {}) >>
ProjectBatch(l, ts, lane) == Kernel(ts, lane.proj, Attn(l), "batch_comp_kv", "batch_attn_norm")
CompressRows(l, ts, lane) ==
    LET update(t) == CompressorUpdate(l, t, lane, B("batch_comp_kv", ts, t)) IN EachOf(ts, update)

\* The last window is projected again, on top of the batch's first rows, and
\* the state is rebuilt from it.
RefreshState(l, ts, lane) ==
    LET k == Attn(l)  st == StateOf(l, lane)  n == Len(ts)
        row(j) == Row("batch_comp_kv", j)
        again(j) == << Op(lane.proj, k, ts[n - OverlapRatio + 1 + j], row(j),
                          {Row("batch_attn_norm", n - OverlapRatio + j)}) >>
    IN  EachOf(From(0, OverlapRatio), again)
        \o << Op(lane.state, k, LastToken(ts), st, {st} \cup {row(j) : j \in 0..OverlapRatio - 1}) >>

\* Only whole windows are rebuilt; the others go through the state row by row.
CompressBatch(l, ts, lane) ==
    ProjectBatch(l, ts, lane)
    \o (IF ZeroPrefix(ts) THEN ClearState(l, lane) ELSE << >>)
    \o CompressRows(l, ts, lane)
    \o (IF Indexed(l) /\ (ZeroPrefix(ts) \/ AlignedChunk(l, ts)) THEN RefreshState(l, ts, lane) ELSE << >>)

IndexerBatch(l, ts) ==
    LET k == Attn(l)
    IN  Kernel(ts, "iq_b", k, "batch_indexer_q", "batch_qr_norm")
        \o Kernel(ts, "iq", k, "batch_indexer_q", "batch_indexer_q")
        \o Kernel(ts, "iw", k, "batch_indexer_weights", "batch_attn_norm")

\* Scores and selection of every row, once the batch has more than TopK blocks.
SelectBatch(l, ts) ==
    LET rows == SelectSeq(ts, LAMBDA t : Masked(l, t))
        select(t) == ScoreBlocks(l, t, B("batch_indexer_q", ts, t), B("batch_indexer_weights", ts, t),
                                 B("indexer_scores", ts, t), B("comp_selected", ts, t))
    IN  EachOf(rows, select)

\* Attention of each token t over its rows, rows[t].
AttendBatch(l, ts, rows) ==
    LET attend(t) == MetalAttend(l, t, B("batch_heads", ts, t), B("batch_q", ts, t), rows[t],
                                 B("comp_selected", ts, t))
    IN  EachOf(ts, attend)
BatchRows(ts, t)   == {B("batch_kv", ts, u) : u \in Window(t)}
LaterRows(l, ts, t) == RingRows(l, t, LastToken(ts), Len(ts))
\* The selected attention of a first batch takes the ring from its first row.
FirstRows(l, t)    == {LayerRow("layer_raw_cache", l, u) : u \in Window(t)}

AttentionKernels(l, ts) ==
    LET batch == [t \in Range(ts) |-> BatchRows(ts, t)]
        later == [t \in Range(ts) |-> LaterRows(l, ts, t)]
        first == [t \in Range(ts) |-> FirstRows(l, t)]
    IN  IF ~ZeroPrefix(ts) THEN StoreRawBatch(l, ts) \o SelectBatch(l, ts) \o AttendBatch(l, ts, later)
        ELSE IF Masked(l, LastToken(ts)) THEN SelectBatch(l, ts) \o AttendBatch(l, ts, first)
        ELSE AttendBatch(l, ts, batch)

LayerAttentionBatch(l, ts, hc, fused) ==
    LET k == Attn(l)
        expand(t) == MetalHcExpand(k, t, B("batch_after_attn_hc", ts, t), B("batch_attn_out", ts, t),
                                   B(hc, ts, t), B("batch_hc_split", ts, t))
    IN  BatchHcPre(k, ts, hc, "batch_attn_cur", "batch_attn_norm")
        \o BatchQkv(k, ts, fused)
        \o (IF ZeroPrefix(ts) THEN StoreRawBatch(l, ts) ELSE << >>)
        \o (IF Ratio[l] = 0 THEN << >> ELSE CompressBatch(l, ts, MainLane))
        \o (IF ~Indexed(l) THEN << >> ELSE CompressBatch(l, ts, IndexLane) \o IndexerBatch(l, ts))
        \o AttentionKernels(l, ts)
        \o Kernel(ts, "unrotated", k, "batch_heads", "batch_heads")
        \o Kernel(ts, "low", k, "batch_attn_low", "batch_heads")
        \o Kernel(ts, "attn", k, "batch_attn_out", "batch_attn_low")
        \o EachOf(ts, expand)

LayerFfnBatch(l, ts, next) ==
    LET k == Ffn(l)  N(t) == B("batch_ffn_norm", ts, t)
        route(t)  == << Op("sel", k, t, B("batch_router_selected", ts, t), {N(t), B("prefill_tokens", ts, t)}) >>
        mid(t)    == << Op("mid", k, t, B("batch_routed_mid", ts, t), {N(t), B("batch_router_selected", ts, t)}) >>
        moe(t)    == << Op("moe", k, t, B("batch_routed_out", ts, t),
                           {B("batch_routed_mid", ts, t), B("batch_router_selected", ts, t)}) >>
        expand(t) == MetalHcExpandAdd(k, t, B(next, ts, t), B("batch_routed_out", ts, t), B("batch_shared_out", ts, t),
                                      B("batch_after_attn_hc", ts, t), B("batch_hc_split", ts, t))
    IN  BatchHcPre(k, ts, "batch_after_attn_hc", "batch_ffn_cur", "batch_ffn_norm")
        \o EachOf(ts, route) \o EachOf(ts, mid) \o EachOf(ts, moe)
        \o Kernel(ts, "gate_up", k, "batch_shared_gate", "batch_ffn_norm")
        \o Kernel(ts, "smid", k, "batch_shared_mid", "batch_shared_gate")
        \o Kernel(ts, "shared", k, "batch_shared_out", "batch_shared_mid")
        \o EachOf(ts, expand)

-----------------------------------------------------------------------------
\* The passes.  batch_cur_hc and batch_next_hc, cur_hc and after_ffn_hc change
\* names after every layer, and stay changed: n counts the layers so far.
BatchHc(n)  == IF n % 2 = 0 THEN "batch_cur_hc" ELSE "batch_next_hc"
SingleHc(n) == IF n % 2 = 0 THEN "cur_hc" ELSE "after_ffn_hc"

LayersBatch(ts, n, fused) ==
    LET layer(l) == LayerAttentionBatch(l, ts, BatchHc(n + l - 1), fused) \o LayerFfnBatch(l, ts, BatchHc(n + l))
    IN  UploadPrompt(ts, BatchHc(n)) \o EachOf(From(1, NumLayers), layer)

\* metal_graph_prefill_layer_major and each chunk of the chunked prefill: the
\* head reads the last row.
PrefillPass(ts, n, fused) ==
    LayersBatch(ts, n, fused)
    \o MetalHead(LastToken(ts), B(BatchHc(n + NumLayers), ts, LastToken(ts)), Row("logits", LastToken(ts)))

DecodePass(t, n, fused) ==
    LET layer(l) == DecodeLayer(l, t, G(SingleHc(n + l - 1)), G(SingleHc(n + l)), fused)
    IN  << Op("hc", 1, t, G(SingleHc(n)), {Prompt(t)}) >> \o EachOf(From(1, NumLayers), layer)
        \o MetalHead(t, G(SingleHc(n + NumLayers)), Row("logits", t))

\* Every row of a drafted suffix gets its logits from the head of a batch,
\* which borrows the rows of batch_hc_mix, batch_hc_split and batch_ffn_*.
VerifyPass(ts, n, fused) ==
    LET hc == BatchHc(n + NumLayers)
        weigh(t) == << Op("embd", OutputHead, t, B("batch_ffn_cur", ts, t),
                          {B(hc, ts, t), B("batch_hc_split", ts, t)}) >>
    IN  LayersBatch(ts, n, fused)
        \o Kernel(ts, "head_flat", OutputHead, "batch_flat_hc", hc)
        \o Kernel(ts, "head_mix", OutputHead, "batch_hc_mix", "batch_flat_hc")
        \o Kernel(ts, "head_w", OutputHead, "batch_hc_split", "batch_hc_mix")
        \o EachOf(ts, weigh)
        \o Kernel(ts, "final", OutputHead, "batch_ffn_norm", "batch_ffn_cur")
        \o Kernel(ts, "logits", OutputHead, "spec_logits", "batch_ffn_norm")
        \o LET read(t) == << Copy(Row("logits", t), B("spec_logits", ts, t)) >> IN EachOf(ts, read)

\* Two tokens go through each layer with the kernels of decode, one after the
\* other, their HC rows in the batch's.
Decode2Pass(ts, n, fused) ==
    LET row(i, l) == Row(BatchHc(n + l), i - 1)
        embed(i) == << Op("hc", 1, ts[i], row(i, 0), {Prompt(ts[i])}) >>
        layer(l) == LET one(i) == DecodeLayer(l, ts[i], row(i, l - 1), row(i, l), fused)
                    IN  EachOf(From(1, 2), one)
        head(i)  == MetalHead(ts[i], row(i, NumLayers), Row("logits", ts[i]))
    IN  EachOf(From(1, 2), embed) \o EachOf(From(1, NumLayers), layer) \o EachOf(From(1, 2), head)

\* A schedule is the passes of a sequence with their lengths; batched counts
\* the layers batch passes have run, decoded those of decode.
MetalProgram(schedule, fused) ==
    LET before(i, kinds) == NumLayers * Cardinality({j \in 1..i - 1 : schedule[j][1] \in kinds})
        start(i) == FoldFunction(+, 0, [j \in 1..i - 1 |-> schedule[j][2]])
        pass(i) ==
            LET ts == From(start(i), schedule[i][2])
                batched == before(i, {"prefill", "verify"})  decoded == before(i, {"decode"})
            IN  Serial(CASE schedule[i][1] = "prefill" -> PrefillPass(ts, batched, fused)
                         [] schedule[i][1] = "verify"  -> VerifyPass(ts, batched, fused)
                         [] schedule[i][1] = "decode2" -> Decode2Pass(ts, batched, fused)
                         [] OTHER -> DecodePass(ts[1], decoded, fused))
    IN  EachOf(From(1, Len(schedule)), pass)
=============================================================================
