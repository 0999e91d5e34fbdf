--------------------------- MODULE Ds4CpuLayers ---------------------------
(* The CPU forward pass of ds4.c as the instructions its functions run over  *)
(* their buffers: the decode pass, whose scratch outlives the calls, and the *)
(* layer-major prefill with each of its attention and FFN paths.  A program  *)
(* is a sequence of regions; the instruction lists of a region run on the    *)
(* threads of the pool, and a region of one list on the caller.  Left out    *)
(* are the rope of a prompt's rows one at a time, inside the token loop      *)
(* (more than 4096 tokens, or DS4_NO_BATCHED_ROPE: the same rows in place),  *)
(* and kv_cache_finish_prefill_states, which clears, after the last layer,   *)
(* the rows of the compressor states that StateAfter leaves empty.           *)
EXTENDS Ds4Dataflow

CONSTANTS
    FfnBatch,       \* ffn_batch, the slice of a batched FFN
    NumWorkers      \* threads that share a parallel loop

S(p) == Row(p, -1)                      \* scratch->p

\* A loop over tokens shared between the workers as ThreadPool shares it.
Share(ts, w) ==
    LET per == (Len(ts) + NumWorkers - 1) \div NumWorkers
    IN  SubSeq(ts, (w - 1) * per + 1, IF w * per < Len(ts) THEN w * per ELSE Len(ts))
Parallel(ts, Code(_, _)) ==
    LET rows(w) == LET row(t) == Code(w, t) IN << EachOf(Share(ts, w), row) >>
    IN  << EachOf(From(1, NumWorkers), rows) >>

-----------------------------------------------------------------------------
\* Hyper-connections.
HcPreScratch(k, t, w, x, cur, split, flat) == <<
    Op("flat", k, t, flat, {x}),
    Op("mix", k, t, Local(w, "mix"), {flat}),
    Op("split", k, t, split, {Local(w, "mix")}),
    Op("cur", k, t, cur, {x, split}) >>
HcPre(k, t, w, x, cur, split) == HcPreScratch(k, t, w, x, cur, split, Local(w, "flat"))
Norm(k, t, out, x) == << Op("norm", k, t, out, {x}) >>
HcPost(k, t, out, x, residual, split) == << Op("hc", k + 1, t, out, {x, residual, split}) >>
HcPostSum(k, t, out, moe, shared, residual, split) ==
    << Op("ffn", k, t, Local(Main, "sum"), {moe, shared}) >>
    \o HcPost(k, t, out, Local(Main, "sum"), residual, split)

HcPreNormWorker(k, w, t, inp, residual, cur, norm, split) ==
    (IF residual = "" THEN << >> ELSE <<Copy(Row(residual, t), Row(inp, t))>>)
    \o LET x == Row(IF residual = "" THEN inp ELSE residual, t)
       IN  HcPre(k, t, w, x, Row(cur, t), Row(split, t)) \o Norm(k, t, Row(norm, t), Row(cur, t))
HcPreNormBatch(k, ts, inp, residual, cur, norm, split) ==
    LET body(w, t) == HcPreNormWorker(k, w, t, inp, residual, cur, norm, split)
    IN  Parallel(ts, body)

Embed(k, t, out) == << Op("hc", k, t, Local(Main, "plain"), {Prompt(t)}), Copy(out, Local(Main, "plain")) >>

-----------------------------------------------------------------------------
\* Projections of an attention.
QProjection(k, t, norm, q, qr_norm) == <<
    Op("qr_raw", k, t, Local(Main, "qr"), {norm}),
    Op("qr", k, t, qr_norm, {Local(Main, "qr")}),
    Op("q_b", k, t, q, {qr_norm}),
    Op("q_n", k, t, q, {q}) >>
KvProjection(k, t, norm, kv) == <<
    Op("kv_a", k, t, Local(Main, "raw"), {norm}),
    Op("kv_n", k, t, kv, {Local(Main, "raw")}) >>

\* A Q8_0 product of the decode pass quantises its input into the scratch.
Matvec(s, k, t, out, x) == << Copy(S("q8_xq"), x), Op(s, k, t, out, {S("q8_xq")}) >>
QProjectionScratch(k, t, norm, q, qr_norm) ==
    Matvec("qr_raw", k, t, S("qr"), norm)
    \o << Op("qr", k, t, qr_norm, {S("qr")}) >>
    \o Matvec("q_b", k, t, q, qr_norm)
    \o << Op("q_n", k, t, q, {q}) >>
KvProjectionScratch(k, t, norm, kv) ==
    Matvec("kv_a", k, t, S("kv_raw"), norm) \o << Op("kv_n", k, t, kv, {S("kv_raw")}) >>

Rope(k, t, q, kv) == << Op("q", k, t, q, {q}), Op("kv_r", k, t, kv, {kv}) >>
Fp8Round(k, t, kv) == << Op("kv", k, t, kv, {kv}) >>

\* The raw rows slide down once the window is full.
PushRaw(l, t, kv) ==
    IF t < Win THEN << Copy(LayerRow("raw", l, t), kv) >>
    ELSE [i \in 1..Win - 1 |-> Copy(LayerRow("raw", l, i - 1), LayerRow("raw", l, i))]
         \o << Copy(LayerRow("raw", l, Win - 1), kv) >>

-----------------------------------------------------------------------------
\* The two compressors share comp_kv_cur, comp_sc_cur and comp_pooled.
CompressorScratch(l, t, norm, out, stages) ==
    LET st == LayerRow(stages.state, l, 0)  k == Attn(l)
    IN  Matvec(stages.proj, k, t, S("comp_cur"), norm)
        \o << Op(stages.state, k, t, st, {st, S("comp_cur")}) >>
        \o (IF EndsBlock(l, t)
            THEN << Op(stages.pool, k, t, S("comp_pooled"), {st}),
                    Op(stages.comp, k, t, out, {S("comp_pooled")}) >>
            ELSE << >>)
Main4  == [proj |-> "proj",  state |-> "state",  pool |-> "pool",  comp |-> "comp"]
Index4 == [proj |-> "iproj", state |-> "istate", pool |-> "ipool", comp |-> "icomp"]
PushComp(l, t, place, comp) ==
    IF EndsBlock(l, t) THEN << Copy(LayerRow(place, l, NumBlocks(l, t)), comp) >> ELSE << >>

\* Every block is allowed while there are at most TopK of them.
IndexRows(l, t) == {LayerRow("index_comp", l, n) : n \in 1..NumBlocks(l, t)}
IndexerScratch(l, t, norm, qr_norm, out) ==
    IF ~Masked(l, t) THEN << >>
    ELSE LET k == Attn(l)
         IN  Matvec("iq_b", k, t, S("index_q"), qr_norm)
             \o << Op("iq", k, t, S("index_q"), {S("index_q")}) >>
             \o Matvec("iw", k, t, S("index_weights"), norm)
             \o << Op("scores", k, t, S("index_scores"), {S("index_q"), S("index_weights")} \cup IndexRows(l, t)),
                   Op("allowed", k, t, out, {S("index_scores")}) >>
Indexer(l, t, norm, qr_norm, out) ==
    IF ~Masked(l, t) THEN << >>
    ELSE LET k == Attn(l)  q == Local(Main, "index_q")  weights == Local(Main, "index_weights")
         IN  << Op("iq_b", k, t, q, {qr_norm}), Op("iq", k, t, q, {q}),
                Op("iw", k, t, weights, {norm}),
                Op("scores", k, t, Local(Main, "scores"), {q, weights} \cup IndexRows(l, t)),
                Op("allowed", k, t, out, {Local(Main, "scores")}) >>

CompRows(l, t) == {LayerRow("comp_kv", l, n) : n \in 1..NumBlocks(l, t)}
RawRows(l, t)  == {LayerRow("raw", l, i) : i \in 0..(IF t < Win THEN t ELSE Win - 1)}
Mask(l, t, allowed) == IF Masked(l, t) THEN {allowed} ELSE {}
MixedAttention(l, t, heads, q, allowed) ==
    << Op("heads", Attn(l), t, heads, {q} \cup RawRows(l, t) \cup CompRows(l, t) \cup Mask(l, t, allowed)) >>
RowsAttention(l, t, heads, q) == << Op("heads", Attn(l), t, heads, {q} \cup RawRows(l, t)) >>
Unrotate(k, t, heads) == << Op("unrotated", k, t, heads, {heads}) >>
GroupedOut(k, t, out, heads) ==
    << Op("low", k, t, Local(Main, "low"), {heads}), Op("attn", k, t, out, {Local(Main, "low")}) >>
GroupedOutScratch(k, t, out, heads) ==
    Matvec("low", k, t, S("attn_low"), heads) \o Matvec("attn", k, t, out, S("attn_low"))

\* The state update of the token-by-token paths, without scratch.
CompressorOne(l, t, norm, out, stages) ==
    LET st == LayerRow(stages.state, l, 0)  cur == Local(Main, "comp_cur")  pooled == Local(Main, "pooled")
        k == Attn(l)
    IN  << Op(stages.proj, k, t, cur, {norm}), Op(stages.state, k, t, st, {st, cur}) >>
        \o (IF EndsBlock(l, t) THEN << Op(stages.pool, k, t, pooled, {st}),
                                       Op(stages.comp, k, t, out, {pooled}) >> ELSE << >>)

\* Compressor, indexer and attention of one token, for each kind of layer.
CompressOne(l, t, norm, qr_norm, allowed) ==
    (IF Ratio[l] = 0 THEN << >>
     ELSE CompressorOne(l, t, norm, Local(Main, "comp"), Main4)
          \o PushComp(l, t, "comp_kv", Local(Main, "comp")))
    \o (IF ~Indexed(l) THEN << >>
        ELSE CompressorOne(l, t, norm, Local(Main, "index_comp"), Index4)
             \o PushComp(l, t, "index_comp", Local(Main, "index_comp"))
             \o Indexer(l, t, norm, qr_norm, allowed))
AttendOne(l, t, heads, q, allowed) ==
    IF Ratio[l] = 0 THEN RowsAttention(l, t, heads, q) ELSE MixedAttention(l, t, heads, q, allowed)

-----------------------------------------------------------------------------
\* Attention of one token, and of a batch.
AttentionOne(l, t, out, inp) ==
    LET k == Attn(l)  L(p) == Local(Main, p)
    IN  << Copy(L("attn_residual"), inp) >>
        \o HcPre(k, t, Main, L("attn_residual"), L("attn_cur"), L("attn_split"))
        \o Norm(k, t, L("attn_norm"), L("attn_cur"))
        \o QProjection(k, t, L("attn_norm"), L("q"), L("qr_norm"))
        \o KvProjection(k, t, L("attn_norm"), L("kv"))
        \o Rope(k, t, L("q"), L("kv")) \o Fp8Round(k, t, L("kv")) \o PushRaw(l, t, L("kv"))
        \o CompressOne(l, t, L("attn_norm"), L("qr_norm"), L("allowed"))
        \o AttendOne(l, t, L("heads"), L("q"), L("allowed"))
        \o Unrotate(k, t, L("heads"))
        \o GroupedOut(k, t, L("attn_out"), L("heads"))
        \o HcPost(k, t, out, L("attn_out"), L("attn_residual"), L("attn_split"))

BatchProjections(k, ts) ==
    LET qr_raw(t)  == << Op("qr_raw", k, t, Row("qr", t), {Row("attn_norm", t)}) >>
        qr(t)      == << Op("qr", k, t, Row("qr_norm", t), {Row("qr", t)}) >>
        q_b(t)     == << Op("q_b", k, t, Row("q", t), {Row("qr_norm", t)}) >>
        q_n(t)     == << Op("q_n", k, t, Row("q", t), {Row("q", t)}) >>
        kv_a(t)    == << Op("kv_a", k, t, Row("kv_raw", t), {Row("attn_norm", t)}) >>
        kv_n(t)    == << Op("kv_n", k, t, Row("kv", t), {Row("kv_raw", t)}) >>
    IN  EachOf(ts, qr_raw) \o EachOf(ts, qr) \o EachOf(ts, q_b) \o EachOf(ts, q_n)
        \o EachOf(ts, kv_a) \o EachOf(ts, kv_n)

BatchTokens(l, ts, prefix) ==
    LET k == Attn(l)
        rope(t) == Rope(k, t, Row("q", t), Row("kv", t))
        token(t) ==
            (IF prefix THEN << >> ELSE rope(t))
            \o Fp8Round(k, t, Row("kv", t)) \o PushRaw(l, t, Row("kv", t))
            \o CompressOne(l, t, Row("attn_norm", t), Row("qr_norm", t), Local(Main, "allowed"))
            \o (IF prefix THEN (IF Masked(l, t) THEN << Copy(Row("allowed_bits", t), Local(Main, "allowed")) >>
                                ELSE << >>)
                ELSE AttendOne(l, t, Row("heads", t), Row("q", t), Local(Main, "allowed"))
                     \o Unrotate(k, t, Row("heads", t)))
    IN  (IF prefix THEN EachOf(ts, rope) ELSE << >>) \o EachOf(ts, token)

\* DS4_PARALLEL_ATTN_ROWS: the rows of an empty cache attend at once, over the
\* batch's own rows and as many blocks as the token's count says.
PrefixWorker(l, t) ==
    LET rows == {Row("kv", u) : u \in Window(t)}
    IN  << Op("heads", Attn(l), t, Row("heads", t),
              {Row("q", t)} \cup rows \cup CompRows(l, t) \cup Mask(l, t, Row("allowed_bits", t))) >>
PrefixAttention(l, ts) ==
    LET attend(w, t) == PrefixWorker(l, t)  unrotate(t) == Unrotate(Attn(l), t, Row("heads", t))
    IN  Parallel(ts, attend) \o Serial(EachOf(ts, unrotate))

GroupedOutBatch(k, ts) ==
    LET low(t) == << Op("low", k, t, Row("low", t), {Row("heads", t)}) >>
        out(t) == << Op("attn", k, t, Row("attn_out", t), {Row("low", t)}) >>
    IN  EachOf(ts, low) \o EachOf(ts, out)
AttentionBatch(l, ts, out, inp, prefix) ==
    LET k == Attn(l)
        post(t) == HcPost(k, t, Row(out, t), Row("attn_out", t), Row("attn_residual", t), Row("attn_split", t))
    IN  HcPreNormBatch(k, ts, inp, "attn_residual", "attn_cur", "attn_norm", "attn_split")
        \o Serial(BatchProjections(k, ts)) \o Serial(BatchTokens(l, ts, prefix))
        \o (IF prefix THEN PrefixAttention(l, ts) ELSE << >>)
        \o Serial(GroupedOutBatch(k, ts) \o EachOf(ts, post))

-----------------------------------------------------------------------------
\* The routed experts of one token: quantised input, selection, mid, sum.
RoutedMoe(k, t, w, out, x, mid, xq, midq) == <<
    Copy(xq, x),
    Op("sel", k, t, Local(w, "selected"), {x, Prompt(t)}),
    Op("mid", k, t, mid, {xq, Local(w, "selected")}),
    Copy(midq, mid),
    Op("moe", k, t, out, {midq, Local(w, "selected")}) >>
RoutedMoeOne(k, t, w, out, x) ==
    RoutedMoe(k, t, w, out, x, Local(w, "mid_all"), Local(w, "xq"), Local(w, "midq"))
RoutedMoeBatch(k, ts) ==
    LET route(t)  == << Copy(Row("xq", t), Row("ffn_norm", t)),
                        Op("sel", k, t, Row("selected", t), {Row("ffn_norm", t), Prompt(t)}) >>
        mid(t)    == << Op("mid", k, t, Row("mid", t), {Row("xq", t), Row("selected", t)}) >>
        quant(t)  == << Copy(Row("midq", t), Row("mid", t)) >>
        down(t)   == << Op("moe", k, t, Row("moe", t), {Row("midq", t), Row("selected", t)}) >>
    IN  EachOf(ts, route) \o EachOf(ts, mid) \o EachOf(ts, quant) \o EachOf(ts, down)

SharedFfn(k, t, w, out, x) == <<
    Copy(Local(w, "shared_xq"), x),
    Op("gate_up", k, t, Local(w, "gate_up"), {Local(w, "shared_xq")}),
    Op("smid", k, t, Local(w, "shared_mid"), {Local(w, "gate_up")}),
    Op("shared", k, t, out, {Local(w, "shared_mid")}) >>
SharedFfnScratch(k, t, out, x) ==
    Matvec("gate_up", k, t, S("shared_gate_up"), x)
    \o << Op("smid", k, t, S("shared_mid"), {S("shared_gate_up")}) >>
    \o Matvec("shared", k, t, out, S("shared_mid"))
SharedFfnBatch(k, ts) ==
    LET gate_up(t) == << Op("gate_up", k, t, Row("gate_up", t), {Row("ffn_norm", t)}) >>
        swiglu(w, t) == << Op("smid", k, t, Row("shared_mid", t), {Row("gate_up", t)}) >>
        down(t)    == << Op("shared", k, t, Row("shared", t), {Row("shared_mid", t)}) >>
    IN  Serial(EachOf(ts, gate_up)) \o Parallel(ts, swiglu) \o Serial(EachOf(ts, down))

\* The FFN of one token on the thread w.
FfnOne(k, t, w, out, inp) ==
    LET L(p) == Local(w, p)
    IN  HcPre(k, t, w, inp, L("ffn_cur"), L("ffn_split"))
        \o Norm(k, t, L("ffn_norm"), L("ffn_cur"))
        \o RoutedMoeOne(k, t, w, L("moe"), L("ffn_norm"))
        \o SharedFfn(k, t, w, L("shared"), L("ffn_norm"))
        \o << Op("ffn", k, t, L("ffn_out"), {L("moe"), L("shared")}) >>
        \o HcPost(k, t, out, L("ffn_out"), inp, L("ffn_split"))
FfnScratch(k, t, out, inp) ==
    HcPreScratch(k, t, Main, inp, S("ffn_cur"), Local(Main, "ffn_split"), S("hc_flat"))
    \o Norm(k, t, S("ffn_norm"), S("ffn_cur"))
    \o RoutedMoe(k, t, Main, S("ffn_moe"), S("ffn_norm"), S("routed_mid_all"), S("routed_xq"), S("routed_midq"))
    \o SharedFfnScratch(k, t, S("ffn_shared"), S("ffn_norm"))
    \o << Op("ffn", k, t, S("ffn_out"), {S("ffn_moe"), S("ffn_shared")}) >>
    \o HcPost(k, t, out, S("ffn_out"), inp, Local(Main, "ffn_split"))

\* The FFN of a slice of the tokens, and of all with the experts one by one.
PostSums(k, ts, out, inp) ==
    LET post(t) == HcPostSum(k, t, Row(out, t), Row("moe", t), Row("shared", t), Row(inp, t), Row("ffn_split", t))
    IN  EachOf(ts, post)
FfnBatchOf(k, ts, out, inp) ==
    LET pre(t) == HcPre(k, t, Main, Row(inp, t), Row("ffn_cur", t), Row("ffn_split", t))
                  \o Norm(k, t, Row("ffn_norm", t), Row("ffn_cur", t))
    IN  Serial(EachOf(ts, pre) \o RoutedMoeBatch(k, ts)) \o SharedFfnBatch(k, ts)
        \o Serial(PostSums(k, ts, out, inp))
\* What it would be with the scratch of one thread for all of them.
RoutedTokensSharedScratch(k, ts) ==
    LET body(w, t) == RoutedMoe(k, t, w, Row("moe", t), Row("ffn_norm", t),
                                Local(Main, "mid_all"), Local(Main, "xq"), Local(Main, "midq"))
    IN  Parallel(ts, body)
RoutedTokensParallel(k, ts) ==
    LET body(w, t) == RoutedMoe(k, t, w, Row("moe", t), Row("ffn_norm", t),
                                Local(w, "mid_all"), Local(w, "xq"), Local(w, "midq"))
    IN  Parallel(ts, body)
FfnSharedBatch(k, ts, out, inp, tokenParallel) ==
    LET routed(t) == RoutedMoe(k, t, Main, Row("moe", t), Row("ffn_norm", t),
                               Local(Main, "routed_mid"), Local(Main, "routed_xq"), Local(Main, "routed_midq"))
    IN  HcPreNormBatch(k, ts, inp, "", "ffn_cur", "ffn_norm", "ffn_split")
        \o (IF tokenParallel THEN RoutedTokensParallel(k, ts) ELSE Serial(EachOf(ts, routed)))
        \o SharedFfnBatch(k, ts) \o Serial(PostSums(k, ts, out, inp))
FfnTokensParallel(k, ts, out, inp) ==
    LET body(w, t) == FfnOne(k, t, w, Row(out, t), Row(inp, t)) IN Parallel(ts, body)

-----------------------------------------------------------------------------
\* A layer of the decode pass, and the pass: hc_flat serves both sublayers.
LayerForward(l, t, out, inp) ==
    LET k == Attn(l)
    IN  << Copy(S("attn_residual"), inp) >>
        \o HcPreScratch(k, t, Main, S("attn_residual"), S("attn_cur"), Local(Main, "split"), S("hc_flat"))
        \o Norm(k, t, S("attn_norm"), S("attn_cur"))
        \o QProjectionScratch(k, t, S("attn_norm"), S("q"), S("qr_norm"))
        \o KvProjectionScratch(k, t, S("attn_norm"), S("kv"))
        \o Rope(k, t, S("q"), S("kv")) \o Fp8Round(k, t, S("kv")) \o PushRaw(l, t, S("kv"))
        \o (IF Ratio[l] = 0 THEN << >>
            ELSE CompressorScratch(l, t, S("attn_norm"), S("comp"), Main4)
                 \o PushComp(l, t, "comp_kv", S("comp")))
        \o (IF ~Indexed(l) THEN << >>
            ELSE CompressorScratch(l, t, S("attn_norm"), S("index_comp"), Index4)
                 \o PushComp(l, t, "index_comp", S("index_comp"))
                 \o IndexerScratch(l, t, S("attn_norm"), S("qr_norm"), S("index_allowed")))
        \o AttendOne(l, t, S("heads"), S("q"), S("index_allowed"))
        \o Unrotate(k, t, S("heads"))
        \o GroupedOutScratch(k, t, S("attn_out"), S("heads"))
        \o HcPost(k, t, S("after_attn_hc"), S("attn_out"), S("attn_residual"), Local(Main, "split"))
        \o FfnScratch(Ffn(l), t, out, S("after_attn_hc"))

\* cur and next change places after every layer.
CurHc(l)  == IF l % 2 = 1 THEN "cur" ELSE "next"
NextHc(l) == CurHc(l + 1)

OutputLogits(t, inp) ==
    LET L(p) == Local(Main, p)
    IN  << Op("head_flat", OutputHead, t, L("output_flat"), {inp}),
           Op("head_mix", OutputHead, t, L("output_pre"), {L("output_flat")}),
           Op("head_w", OutputHead, t, L("output_weights"), {L("output_pre")}),
           Op("embd", OutputHead, t, L("output_embd"), {inp, L("output_weights")}),
           Op("final", OutputHead, t, L("output_norm"), {L("output_embd")}),
           Op("logits", OutputHead, t, Row("logits", t), {L("output_norm")}) >>
OutputLogitsScratch(t, inp) ==
    << Op("head_flat", OutputHead, t, S("output_flat"), {inp}),
       Op("head_mix", OutputHead, t, S("output_pre"), {S("output_flat")}),
       Op("head_w", OutputHead, t, S("output_weights"), {S("output_pre")}),
       Op("embd", OutputHead, t, S("output_embd"), {inp, S("output_weights")}),
       Op("final", OutputHead, t, S("output_norm"), {S("output_embd")}) >>
    \o Matvec("logits", OutputHead, t, Row("logits", t), S("output_norm"))

DecodeToken(t) ==
    LET layer(l) == LayerForward(l, t, S(NextHc(l)), S(CurHc(l)))
    IN  Embed(1, t, S("cur")) \o EachOf(From(1, NumLayers), layer)
        \o OutputLogitsScratch(t, S(CurHc(NumLayers + 1)))

-----------------------------------------------------------------------------
\* The paths of prefill_layer_major_cpu, named for the variables that choose
\* them; "decode" is a prompt of one token and the rest evaluated.
PrefillPaths == <<"batched_ffn", "shared_batch_ffn", "routed_token_parallel", "parallel_ffn", "ffn_one",
                  "prefix_attention", "attention_one", "layer_one">>
Slices(ts) == [i \in 1..((Len(ts) + FfnBatch - 1) \div FfnBatch) |->
                  SubSeq(ts, (i - 1) * FfnBatch + 1, IF i * FfnBatch < Len(ts) THEN i * FfnBatch ELSE Len(ts))]

PrefillAttention(path, l, ts) ==
    LET one(t) == AttentionOne(l, t, Row("attn", t), Row(CurHc(l), t))
    IN  IF path = "attention_one" THEN Serial(EachOf(ts, one))
        ELSE AttentionBatch(l, ts, "attn", CurHc(l), path = "prefix_attention")
PrefillFfn(path, l, ts) ==
    LET k == Ffn(l)
        slice(s) == FfnBatchOf(k, s, NextHc(l), "attn")
        one(t) == FfnOne(k, t, Main, Row(NextHc(l), t), Row("attn", t))
    IN  CASE path \in {"batched_ffn", "attention_one"} -> EachOf(Slices(ts), slice)
          [] path \in {"shared_batch_ffn", "prefix_attention"} -> FfnSharedBatch(k, ts, NextHc(l), "attn", FALSE)
          [] path = "routed_token_parallel" -> FfnSharedBatch(k, ts, NextHc(l), "attn", TRUE)
          [] path = "parallel_ffn" -> FfnTokensParallel(k, ts, NextHc(l), "attn")
          [] OTHER -> Serial(EachOf(ts, one))
PrefillLayer(path, l, ts) ==
    LET one(t) == LayerForward(l, t, Row(NextHc(l), t), Row(CurHc(l), t))
    IN  IF path = "layer_one" THEN Serial(EachOf(ts, one))
        ELSE PrefillAttention(path, l, ts) \o PrefillFfn(path, l, ts)

\* A prompt of the first n tokens, and the rest one by one, as generation
\* evaluates them with a scratch of its own.
CpuProgram(path, n) ==
    LET ts == From(0, n)
        embed(t) == Embed(1, t, Row("cur", t))
        layer(l) == PrefillLayer(path, l, ts)
        decode(t) == Serial(DecodeToken(t))
    IN  Serial(EachOf(ts, embed)) \o EachOf(From(1, NumLayers), layer)
        \o Serial(OutputLogits(n - 1, Row(CurHc(NumLayers + 1), n - 1)))
        \o EachOf(From(n, NumTokens - n), decode)
=============================================================================
