------------------------------ MODULE Ds4Generate ------------------------------
(***************************************************************************)
(* ds4_engine_generate_argmax of third/ds4/ds4.c, on the CPU reference     *)
(* path and on the Metal graph.  Each call builds its own KV memory,       *)
(* prefills the prompt and decodes greedily.                               *)
(*                                                                         *)
(* A call's chunk is as long as its prompt, up to 2048, and its graph is    *)
(* its own: PrefillCap is one such length for all the calls explored.      *)
(*                                                                         *)
(* The CPU keeps the raw rows in a window that slides; the graph in a ring *)
(* large enough for a batch.  The logits are those of the tokens read last *)
(* if every query read exactly what it should; if one did not, they may    *)
(* prefer any token.                                                       *)
(***************************************************************************)
EXTENDS Ds4Graph

CONSTANTS
    Prompts,        \* bound: the prompts asked
    Budgets         \* bound: the values of n_predict

ASSUME GenerateAssumption == Prompts \subseteq Seq(Token) /\ Budgets \subseteq Nat

VARIABLES job, mem

genVars == <<job, mem>>

\* ds4_default_raw_cap
RawKept == Smaller(Win, Ctx)

EmptyCpu ==
    [raw  |-> [l \in Layer |-> << >>],
     lane |-> [ln \in Lane |-> EmptyCache(LaneRatio(ln))]]

\* Variant: the window does not slide, the newest row replaces the last one.
PushRaw_Overwriting(rows, row) ==
    IF Len(rows) < RawKept THEN Append(rows, row) ELSE [rows EXCEPT ![RawKept] = row]

\* kv_cache_push_raw
PushRaw(rows, row) == IF Len(rows) < RawKept THEN Append(rows, row) ELSE Append(Tail(rows), row)

\* layer_attention_raw_swa_one over all layers.
CpuToken(m, t, p) ==
    [raw  |-> [l \in Layer |-> PushRaw(m.raw[l], RowAt(t, p))],
     lane |-> [ln \in Lane |-> Compress(LaneRatio(ln), m.lane[ln], t, p)]]

\* What position p reads: the rows in the cache, or with DS4_PARALLEL_ATTN_ROWS
\* its window of the prompt batch, and the blocks there are.
CpuWindow(m, t, p, parallel, l) ==
    IF parallel THEN {RowAt(t, q) : q \in p + 1 - Smaller(p + 1, RawKept)..p} ELSE Range(m.raw[l])
CpuReadsExactly(m, t, p, parallel) ==
    /\ \A l \in Layer : CpuWindow(m, t, p, parallel, l) = {RowAt(t, q) : q \in WindowOf(p)}
    /\ \A ln \in Lane : m.lane[ln].rows = Blocks(LaneRatio(ln), SubSeq(t, 1, p + 1))

\* The last batch: positions at .. at + n - 1 of the tokens seen.
NothingRead == [at |-> 0, n |-> 0]

GenInit ==
    /\ job = [at |-> "done", backend |-> "cpu", prompt |-> << >>, budget |-> 0, emitted |-> << >>,
              pos |-> 0, parallel |-> FALSE, read |-> NothingRead, garbled |-> FALSE]
    /\ mem = EmptyCpu

GenIdle == job.at \in {"done", "failed"}

Generate(backend, prompt, budget) ==
    /\ GenIdle
    /\ mem' = IF backend = "cpu" THEN EmptyCpu ELSE EmptyGraph
    /\ \E parallel \in (IF backend = "cpu" THEN BOOLEAN ELSE {FALSE}) :
          job' = [at |-> IF Len(prompt) \in 1..Ctx THEN "prefill" ELSE "failed", backend |-> backend,
                  prompt |-> prompt, budget |-> budget, emitted |-> << >>,
                  pos |-> 0, parallel |-> parallel, read |-> NothingRead, garbled |-> FALSE]

Fed == job.prompt \o job.emitted

ReadExactly ==
    job.read.n = 0 \/
    IF job.backend = "cpu" THEN CpuReadsExactly(mem, Fed, job.read.at, job.parallel /\ job.at = "prefill")
    ELSE Misread(mem, Fed, job.read.at, job.read.n) = {}

Garbled == job.garbled \/ ~ReadExactly

\* prefill_layer_major_cpu takes every token through a layer before the next
\* layer.  The layers' caches are apart, so a token at a time stands for it.
PrefillCpu ==
    /\ job.at = "prefill" /\ job.backend = "cpu" /\ job.pos < Len(job.prompt)
    /\ mem' = CpuToken(mem, job.prompt, job.pos)
    /\ job' = [job EXCEPT !.pos = @ + 1, !.read = [at |-> job.pos, n |-> 1], !.garbled = Garbled]

PrefillMetal ==
    LET n == Smaller(Len(job.prompt) - job.pos, PrefillCap)
    IN  /\ job.at = "prefill" /\ job.backend = "metal" /\ job.pos < Len(job.prompt)
        /\ Encodable(mem, job.pos, n)
        /\ mem' = Batch(mem, job.prompt, job.pos, n)
        /\ job' = [job EXCEPT !.pos = @ + n, !.read = [at |-> job.pos, n |-> n], !.garbled = Garbled]

Prefilled ==
    /\ job.at = "prefill" /\ job.pos = Len(job.prompt)
    /\ job' = [job EXCEPT !.at = "decode", !.garbled = Garbled, !.read = NothingRead] /\ UNCHANGED mem

MetalFails ==
    /\ job.backend = "metal" /\ job.at \in {"prefill", "emitted"}
    /\ job' = [job EXCEPT !.at = "failed"] /\ UNCHANGED mem

\* The head of the loop: i < n_predict && pos < ctx_size, sample_argmax, emit.
Choose ==
    /\ job.at = "decode"
    /\ IF Len(job.emitted) < job.budget /\ job.pos < Ctx
       THEN \E tok \in (IF Garbled THEN Token ELSE {Greedy(Fed)}) :
                job' = IF tok = Eos THEN [job EXCEPT !.at = "done"]
                       ELSE [job EXCEPT !.at = "emitted", !.emitted = Append(@, tok),
                                        !.garbled = Garbled, !.read = NothingRead]
       ELSE job' = [job EXCEPT !.at = "done"]
    /\ UNCHANGED mem

LastOne == Len(job.emitted) = job.budget \/ job.pos + 1 >= Ctx

Stop == job.at = "emitted" /\ LastOne /\ job' = [job EXCEPT !.at = "done"] /\ UNCHANGED mem

EvalToken ==
    /\ job.at = "emitted" /\ ~LastOne
    /\ mem' = IF job.backend = "cpu" THEN CpuToken(mem, Fed, job.pos) ELSE Decode(mem, Fed, job.pos)
    /\ job' = [job EXCEPT !.at = "decode", !.pos = @ + 1, !.read = [at |-> job.pos, n |-> 1]]

GenWork == PrefillCpu \/ PrefillMetal \/ Prefilled \/ Choose \/ Stop \/ EvalToken

GenNext ==
    \/ \E b \in {"cpu", "metal"}, p \in Prompts, n \in Budgets : Generate(b, p, n)
    \/ GenWork \/ MetalFails

------------------------------------------------------------------------------
Outcome == IF GenIdle THEN job.at ELSE "running"

Stream == INSTANCE GreedyStream WITH
    prompt <- job.prompt, budget <- job.budget, emitted <- job.emitted, outcome <- Outcome

\* Whichever backend runs a generation, however its prefill is batched and
\* wherever its window slides or its ring wraps, it emits the greedy stream of
\* the prompt and ends where greedy decoding ends.
ImplementsGreedyStream == Stream!Spec
=============================================================================
