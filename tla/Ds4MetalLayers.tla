--------------------------- MODULE Ds4MetalLayers ---------------------------
(* The Metal graph of ds4.c as the kernels its encoders put on the command   *)
(* queue, which runs them in order: the single-token layer of decode, whose  *)
(* buffers every layer shares, and the batch layer of prefill, whose rows    *)
(* every chunk reuses.  The kernels are not part of the repository; each is  *)
(* taken to do to the buffers it is given what the CPU path does.            *)
EXTENDS Ds4Dataflow

CONSTANT RawCap     \* rows of the raw ring of a layer

ASSUME RawCapAssumption == RawCap \in Nat \ {0} /\ RawCap >= Win

G(p)    == Row(p, -1)                   \* g->p
Ring(l, t) == LayerRow("layer_raw_cache", l, t % RawCap)

\* The rows of the ring a token at t reads of a span that ends at last.
RingSpan(n) == LET need == n + (IF n = 1 THEN Win - 1 ELSE Win)
               IN  IF need < RawCap THEN need ELSE RawCap
RawSpanOf(last, n) == IF RingSpan(n) < last + 1 THEN RingSpan(n) ELSE last + 1
RingRows(l, t, last, n) ==
    LET span == RawSpanOf(last, n)  first == last + 1 - span  start == first % RawCap
    IN  {LayerRow("layer_raw_cache", l, (start + u - first) % RawCap) : u \in Window(t) \cap first..last}

-----------------------------------------------------------------------------
\* The hyper-connection input of a sublayer, with its norm.
MetalHcPre(k, t, x, flat, mix, split, cur, norm) == <<
    Op("flat", k, t, flat, {x}), Op("mix", k, t, mix, {flat}), Op("split", k, t, split, {mix}),
    Op("cur", k, t, cur, {x, split}), Op("norm", k, t, norm, {cur}) >>
MetalHcExpand(k, t, out, x, residual, split) == << Op("hc", k + 1, t, out, {x, residual, split}) >>
MetalHcExpandAdd(k, t, out, routed, shared, residual, split) ==
    << Op("ffn", k, t, Local(Main, "sum"), {routed, shared}) >>
    \o MetalHcExpand(k, t, out, Local(Main, "sum"), residual, split)

\* Query and KV of a token: with qkv_rms_fused both norms are one kernel.
DecodeQkv(k, t, fused) ==
    LET kv_a == << Op("kv_a", k, t, G("kv_raw"), {G("attn_norm")}) >>
        kv_n == << Op("kv_n", k, t, G("kv"), {G("kv_raw")}) >>
        qr   == << Op("qr", k, t, G("qr_norm"), {G("qr")}) >>
        q    == << Op("q_b", k, t, G("q"), {G("qr_norm")}), Op("q_n", k, t, G("q"), {G("q")}),
                   Op("q", k, t, G("q"), {G("q")}) >>
    IN  << Op("qr_raw", k, t, G("qr"), {G("attn_norm")}) >>
        \o (IF fused THEN kv_a \o qr \o kv_n \o q ELSE qr \o q \o kv_a \o kv_n)
        \o << Op("kv_r", k, t, G("kv"), {G("kv")}) >>
DecodeKvStore(l, t) == << Op("kv", Attn(l), t, G("kv"), {G("kv")}), Copy(Ring(l, t), G("kv")) >>

MainLane  == [proj |-> "proj",  state |-> "state",  pool |-> "pool",  comp |-> "comp",  rows |-> "layer_attn_comp_cache"]
IndexLane == [proj |-> "iproj", state |-> "istate", pool |-> "ipool", comp |-> "icomp", rows |-> "layer_index_comp_cache"]
StateOf(l, lane) == LayerRow(lane.state, l, 0)
BlockRow(l, lane, n) == LayerRow(lane.rows, l, n)

\* ds4_metal_compressor_update_tensor: the row joins the state, and a window
\* that is complete becomes the next row of the cache.
CompressorUpdate(l, t, lane, row) ==
    LET st == StateOf(l, lane)  k == Attn(l)
    IN  << Op(lane.state, k, t, st, {st, row}) >>
        \o (IF EndsBlock(l, t)
            THEN << Op(lane.pool, k, t, Local(Main, "pooled"), {st}),
                    Op(lane.comp, k, t, BlockRow(l, lane, NumBlocks(l, t)), {Local(Main, "pooled")}) >>
            ELSE << >>)
DecodeCompress(l, t, lane) ==
    << Op(lane.proj, Attn(l), t, G("comp_cur"), {G("attn_norm")}) >>
    \o CompressorUpdate(l, t, lane, G("comp_cur"))

BlocksSeen(l, t, lane) == {BlockRow(l, lane, n) : n \in 1..NumBlocks(l, t)}
ScoreBlocks(l, t, q, weights, scores, selected) == <<
    Op("scores", Attn(l), t, scores, {q, weights} \cup BlocksSeen(l, t, IndexLane)),
    Op("allowed", Attn(l), t, selected, {scores}) >>
DecodeIndexer(l, t) ==
    IF ~Masked(l, t) THEN << >>
    ELSE LET k == Attn(l)
         IN  << Op("iq_b", k, t, G("indexer_q"), {G("qr_norm")}), Op("iq", k, t, G("indexer_q"), {G("indexer_q")}),
                Op("iw", k, t, G("indexer_weights"), {G("attn_norm")}) >>
             \o ScoreBlocks(l, t, G("indexer_q"), G("indexer_weights"), Row("indexer_scores", 0), Row("comp_selected", 0))

MetalAttend(l, t, heads, q, raw, selected) ==
    << Op("heads", Attn(l), t, heads,
          {q} \cup raw \cup BlocksSeen(l, t, MainLane) \cup (IF Masked(l, t) THEN {selected} ELSE {})) >>
MetalAttnOut(k, t, heads, low, out) == <<
    Op("unrotated", k, t, heads, {heads}), Op("low", k, t, low, {heads}), Op("attn", k, t, out, {low}) >>

MetalMoe(k, t, norm, selected, mid, out) == <<
    Op("sel", k, t, selected, {norm, Prompt(t)}),
    Op("mid", k, t, mid, {norm, selected}), Op("moe", k, t, out, {mid, selected}) >>
MetalShared(k, t, norm, gate, mid, out) == <<
    Op("gate_up", k, t, gate, {norm}), Op("smid", k, t, mid, {gate}), Op("shared", k, t, out, {mid}) >>

\* A layer of one token: cur and next are what cur_hc and after_ffn_hc name.
DecodeAttention(l, t, cur, fused) ==
    LET k == Attn(l)
    IN  MetalHcPre(k, t, cur, G("flat_hc"), G("hc_mix"), G("hc_split"), G("attn_cur"), G("attn_norm"))
        \o DecodeQkv(k, t, fused) \o DecodeKvStore(l, t)
        \o (IF Ratio[l] = 0 THEN << >> ELSE DecodeCompress(l, t, MainLane))
        \o (IF ~Indexed(l) THEN << >> ELSE DecodeCompress(l, t, IndexLane) \o DecodeIndexer(l, t))
        \o MetalAttend(l, t, G("heads"), G("q"), RingRows(l, t, t, 1), Row("comp_selected", 0))
        \o MetalAttnOut(k, t, G("heads"), G("attn_low"), G("attn_out"))
        \o MetalHcExpand(k, t, G("after_attn_hc"), G("attn_out"), cur, G("hc_split"))
DecodeFfn(l, t, next) ==
    LET k == Ffn(l)
    IN  MetalHcPre(k, t, G("after_attn_hc"), G("flat_hc"), G("hc_mix"), G("hc_split"), G("ffn_cur"), G("ffn_norm"))
        \o MetalMoe(k, t, G("ffn_norm"), G("router_selected"), G("routed_mid"), G("routed_out"))
        \o MetalShared(k, t, G("ffn_norm"), G("shared_gate"), G("shared_mid"), G("shared_out"))
        \o MetalHcExpandAdd(k, t, next, G("routed_out"), G("shared_out"), G("after_attn_hc"), G("hc_split"))
DecodeLayer(l, t, cur, next, fused) == DecodeAttention(l, t, cur, fused) \o DecodeFfn(l, t, next)

MetalHead(t, hc, out) == <<
    Op("head_flat", OutputHead, t, G("flat_hc"), {hc}), Op("head_mix", OutputHead, t, G("output_pre"), {G("flat_hc")}),
    Op("head_w", OutputHead, t, G("output_weights"), {G("output_pre")}),
    Op("embd", OutputHead, t, G("output_embd"), {hc, G("output_weights")}),
    Op("final", OutputHead, t, G("output_norm"), {G("output_embd")}),
    Op("logits", OutputHead, t, G("logits"), {G("output_norm")}), Copy(out, G("logits")) >>
=============================================================================
