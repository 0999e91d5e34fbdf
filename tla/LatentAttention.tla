--------------------------- MODULE LatentAttention ---------------------------
(***************************************************************************)
(* The KV memory of the Python engine (inference/model.py): the sliding    *)
(* window ring and the compressed blocks of every Attention layer, the     *)
(* state buffer of its Compressor, and the calls that generate.py makes.   *)
(*                                                                         *)
(* A KV row is represented by where it came from, <<sequence, position>>,  *)
(* and a compressed block by the rows pooled into it and the position its  *)
(* RoPE encodes.  kv_state and score_state are always written together, so *)
(* one variable, pending, stands for both; a score of -inf, which gives a  *)
(* row no weight in the softmax, is None.  Each batch element has its own  *)
(* rows of every buffer, so one element is modelled.                       *)
(***************************************************************************)
EXTENDS Naturals, FiniteSets

CONSTANTS
    NumLayers,      \* layers of the transformer
    Ratio,          \* compress_ratios: layer -> ratio, 0 for a pure sliding window
    OverlapRatio,   \* the ratio whose layers overlap their blocks and own an Indexer (4)
    Win,            \* window_size
    TopK,           \* index_topk
    MaxSeqLen,      \* max_seq_len
    WarmupLen,      \* length of main()'s warmup prompts (3)
    MinPrompt,      \* shortest encoded chat prompt
    MaxSequences    \* bound on the number of sequences

Layer == 1..NumLayers
Overlap(l) == Ratio[l] = OverlapRatio
Depth(l) == IF Overlap(l) THEN 2 * Ratio[l] ELSE Ratio[l]

ASSUME ConstantsAssumption ==
    /\ {NumLayers, Win, TopK, MaxSeqLen, WarmupLen, MinPrompt, MaxSequences} \subseteq Nat \ {0}
    /\ Ratio \in [Layer -> Nat]
    /\ OverlapRatio \in Nat \ {0}
    /\ WarmupLen < MaxSeqLen
    \* with a window of one, a prefill (start_pos 0) would take the branch of
    \* get_window_topk_idxs meant for decoding
    /\ Win > 1
    \* a chat prompt is BOS, <User>, content, <Assistant> and a think token
    /\ MinPrompt \in OverlapRatio..MaxSeqLen - 1

VARIABLES
    ring,       \* kv_cache[:, :win]
    blocks,     \* kv_cache[:, win:]
    pending,    \* Compressor.kv_state and score_state
    call,       \* the Transformer.forward in progress
    sequence,   \* number of the sequence being run
    prevPos,    \* generate()'s prev_pos
    seen        \* what the last Attention.forward attended to

vars == <<ring, blocks, pending, call, sequence, prevPos, seen>>

None == <<0, 0>>
Row == {None} \cup ((1..MaxSequences) \X (0..MaxSeqLen - 1))
NoBlock == [at |-> 0, parts |-> {}]
BlockSlots(l) == IF Ratio[l] = 0 THEN {} ELSE 0..(MaxSeqLen \div Ratio[l]) - 1
NoCall == [kind |-> "none", start |-> 0, len |-> 0, layer |-> 0]
Nothing == [layer |-> 0, position |-> 0, window |-> {}, blocks |-> {}]

(***************************************************************************)
(* Index selection: the positions a query may gather.  s is the query's    *)
(* index within the call.                                                  *)
(***************************************************************************)
Smaller(a, b) == IF a <= b THEN a ELSE b

WindowIdxs(start, n, s) ==
    IF start >= Win - 1 THEN 0..Win - 1
    ELSE IF start > 0 THEN 0..start
    ELSE LET first == IF s + 1 > Win THEN s + 1 - Win ELSE 0
         IN  {i \in first..first + Smaller(n, Win) - 1 : i <= s}

\* Variant: without the causal mask of the prefill.
UniformIdxs_NoCausalMask(l, start, n, s) ==
    0..((start + n) \div Ratio[l]) - 1

UniformIdxs(l, start, n, s) ==
    IF start > 0 THEN 0..((start + 1) \div Ratio[l]) - 1
    ELSE {t \in 0..(n \div Ratio[l]) - 1 : t < (s + 1) \div Ratio[l]}

\* The Indexer keeps the best index_topk of the blocks the query may see.
IndexerChoices(l, start, n, s) ==
    LET visible == IF start > 0 THEN 0..((start + n) \div Ratio[l]) - 1
                   ELSE UniformIdxs(l, start, n, s)
        k       == Smaller(TopK, (start + n) \div Ratio[l])
    IN  {T \in SUBSET visible : Cardinality(T) = Smaller(k, Cardinality(visible))}

BlockChoices(l, start, n, s) ==
    IF Ratio[l] = 0 THEN {{}}
    ELSE IF Overlap(l) THEN IndexerChoices(l, start, n, s)
    ELSE {UniformIdxs(l, start, n, s)}

(***************************************************************************)
(* Attention.forward's cache updates and Compressor.forward.               *)
(***************************************************************************)
PrefillRing(r, q, n) ==
    LET cutoff == n % Win
    IN  [i \in 0..Win - 1 |->
            IF n <= Win THEN IF i < n THEN <<q, i>> ELSE r[i]
            ELSE IF i >= cutoff THEN <<q, n - Win + (i - cutoff)>>
            ELSE <<q, n - cutoff + i>>]

DecodeRing(r, q, p) == [r EXCEPT ![p % Win] = <<q, p>>]

PrefillPending(l, st, q, n) ==
    LET ratio     == Ratio[l]
        remainder == n % ratio
        cutoff    == n - remainder
        offset    == IF Overlap(l) THEN ratio ELSE 0
    IN  [i \in 0..Depth(l) - 1 |->
            IF Overlap(l) /\ cutoff >= ratio /\ i < ratio THEN <<q, cutoff - ratio + i>>
            ELSE IF i \in offset..offset + remainder - 1 THEN <<q, cutoff + (i - offset)>>
            ELSE st[i]]

PrefillBlock(l, q, g) ==
    LET rows(k) == {<<q, k * Ratio[l] + r>> : r \in 0..Ratio[l] - 1}
    IN  [at    |-> g * Ratio[l],
         parts |-> ({"own"} \X rows(g))
                   \cup IF Overlap(l) /\ g > 0 THEN {"overlap"} \X rows(g - 1) ELSE {}]

PrefillBlocks(l, bs, q, n) ==
    [g \in BlockSlots(l) |-> IF g < n \div Ratio[l] THEN PrefillBlock(l, q, g) ELSE bs[g]]

Store(l, st, q, p) ==
    [st EXCEPT ![IF Overlap(l) THEN Ratio[l] + (p % Ratio[l]) ELSE p % Ratio[l]] = <<q, p>>]

Shift(l, st) ==
    [i \in DOMAIN st |-> IF Overlap(l) /\ i < Ratio[l] THEN st[Ratio[l] + i] ELSE st[i]]

Completes(l, p) == (p + 1) % Ratio[l] = 0

\* Variant: a finished block does not become the overlap of the next.
DecodePending_NoSlide(l, st, q, p) == Store(l, st, q, p)

DecodePending(l, st, q, p) ==
    IF Completes(l, p) THEN Shift(l, Store(l, st, q, p)) ELSE Store(l, st, q, p)

Pool(l, st, p) ==
    LET lower == {st[i] : i \in 0..Ratio[l] - 1} \ {None}
        upper == {st[i] : i \in Ratio[l]..Depth(l) - 1} \ {None}
    IN  [at    |-> p + 1 - Ratio[l],
         parts |-> IF Overlap(l) THEN ({"overlap"} \X lower) \cup ({"own"} \X upper)
                   ELSE {"own"} \X lower]

DecodeBlocks(l, bs, st, q, p) ==
    IF Completes(l, p) THEN [bs EXCEPT ![p \div Ratio[l]] = Pool(l, Store(l, st, q, p), p)]
    ELSE bs

------------------------------------------------------------------------------
Init ==
    /\ ring = [l \in Layer |-> [i \in 0..Win - 1 |-> None]]
    /\ blocks = [l \in Layer |-> [g \in BlockSlots(l) |-> NoBlock]]
    /\ pending = [l \in Layer |-> [i \in 0..Depth(l) - 1 |-> None]]
    /\ call = NoCall
    /\ sequence = 0
    /\ prevPos = 0
    /\ seen = Nothing

Idle == call = NoCall

Forward(kind, start, n) ==
    /\ call' = [kind |-> kind, start |-> start, len |-> n, layer |-> 1]
    /\ seen' = Nothing

\* main(): model.forward(wp, 0) on a short prompt, before any request.
Warmup ==
    /\ Idle /\ prevPos = 0 /\ sequence < MaxSequences
    /\ sequence' = sequence + 1
    /\ Forward("warmup", 0, WarmupLen)
    /\ UNCHANGED <<ring, blocks, pending, prevPos>>

\* generate(): the first iteration forwards the prompt from position 0; the
\* loop body never runs for a prompt that fills max_seq_len.
Prompt(n) ==
    /\ Idle /\ sequence < MaxSequences
    /\ sequence' = sequence + 1
    /\ Forward("prompt", 0, n)
    /\ UNCHANGED <<ring, blocks, pending, prevPos>>

\* generate(): later iterations forward one token from prev_pos.
NextToken ==
    /\ Idle /\ prevPos > 0 /\ prevPos < MaxSeqLen - 1
    /\ Forward("token", prevPos, 1)
    /\ UNCHANGED <<ring, blocks, pending, sequence, prevPos>>

\* The warmup swallows whatever a layer raises and goes on with the next prompt.
Abandon ==
    /\ call.kind = "warmup"
    /\ call' = NoCall
    /\ UNCHANGED <<ring, blocks, pending, sequence, prevPos, seen>>

\* Variant: the token to be sampled is counted as forwarded.
Finish_CountsOneMore ==
    IF call.layer < NumLayers
    THEN call' = [call EXCEPT !.layer = @ + 1] /\ UNCHANGED prevPos
    ELSE /\ call' = NoCall
         /\ prevPos' = IF call.kind = "warmup" THEN 0 ELSE call.start + call.len + 1

Finish ==
    IF call.layer < NumLayers
    THEN call' = [call EXCEPT !.layer = @ + 1] /\ UNCHANGED prevPos
    ELSE /\ call' = NoCall
         /\ prevPos' = IF call.kind = "warmup" THEN 0 ELSE call.start + call.len

\* The queries of a call do not interact: seen records one of them.
Attended(l, rows, bs) ==
    \E s \in 0..call.len - 1 : \E chosen \in BlockChoices(l, call.start, call.len, s) :
        seen' = [layer    |-> l,
                 position |-> call.start + s,
                 window   |-> {rows[i] : i \in WindowIdxs(call.start, call.len, s)},
                 blocks   |-> {bs[g] : g \in chosen}]

\* Attention.forward with start_pos = 0 on the next layer.
PrefillLayer ==
    LET l == call.layer
        n == call.len
    IN  /\ call.kind \in {"warmup", "prompt"}
        /\ ring' = [ring EXCEPT ![l] = PrefillRing(@, sequence, n)]
        /\ IF Ratio[l] = 0 THEN UNCHANGED <<blocks, pending>>
           ELSE /\ pending' = [pending EXCEPT ![l] = PrefillPending(l, @, sequence, n)]
                /\ blocks' = [blocks EXCEPT ![l] = PrefillBlocks(l, @, sequence, n)]
        /\ Attended(l, [i \in 0..n - 1 |-> <<sequence, i>>], blocks'[l])
        /\ Finish
        /\ UNCHANGED sequence

\* Attention.forward with start_pos > 0 on the next layer.
DecodeLayer ==
    LET l == call.layer
        p == call.start
    IN  /\ call.kind = "token"
        /\ ring' = [ring EXCEPT ![l] = DecodeRing(@, sequence, p)]
        /\ IF Ratio[l] = 0 THEN UNCHANGED <<blocks, pending>>
           ELSE /\ pending' = [pending EXCEPT ![l] = DecodePending(l, @, sequence, p)]
                /\ blocks' = [blocks EXCEPT ![l] = DecodeBlocks(l, @, pending[l], sequence, p)]
        /\ Attended(l, ring'[l], blocks'[l])
        /\ Finish
        /\ UNCHANGED sequence

Next ==
    \/ Warmup
    \/ \E n \in MinPrompt..MaxSeqLen - 1 : Prompt(n)
    \/ NextToken
    \/ Abandon
    \/ PrefillLayer
    \/ DecodeLayer

Spec == Init /\ [][Next]_vars

------------------------------------------------------------------------------
TypeOK ==
    /\ ring \in [Layer -> [0..Win - 1 -> Row]]
    /\ DOMAIN blocks = Layer /\ DOMAIN pending = Layer
    /\ \A l \in Layer : /\ DOMAIN blocks[l] = BlockSlots(l)
                        /\ pending[l] \in [0..Depth(l) - 1 -> Row]
                        /\ \A g \in BlockSlots(l) : /\ blocks[l][g].at \in Nat
                                                    /\ blocks[l][g].parts \subseteq
                                                        {"own", "overlap"} \X Row
    /\ call \in [kind : {"none", "warmup", "prompt", "token"}, start : 0..MaxSeqLen - 1,
                 len : 0..MaxSeqLen, layer : {0} \cup Layer]
    /\ sequence \in 0..MaxSequences
    /\ prevPos \in 0..MaxSeqLen - 1

(***************************************************************************)
(* What attention over a growing sequence must be, whatever the calls that *)
(* built the caches: a query at position p sees the Win latest positions,  *)
(* p included, and blocks that lie wholly at or before p.                  *)
(***************************************************************************)
WindowAt(q, p) == {q} \X ((IF p + 1 > Win THEN p + 1 - Win ELSE 0)..p)

Before(first, n) == {x \in 0..MaxSeqLen - 1 : first <= x + n /\ x < first}

BlockOf(l, q, first) ==
    [at    |-> first,
     parts |-> ({"own"} \X ({q} \X Before(first + Ratio[l], Ratio[l])))
               \cup IF Overlap(l) THEN {"overlap"} \X ({q} \X Before(first, Ratio[l])) ELSE {}]

BlocksAt(l, q, p) == {BlockOf(l, q, g * Ratio[l]) : g \in 0..((p + 1) \div Ratio[l]) - 1}

\* The rows and blocks that sparse_attn gathers for a query are exactly those
\* of the query's own sequence: no row of an earlier sequence, of a later
\* position, or of an unfilled slot, and no block pooled from anything but its
\* own rows (and, with overlap, those of the block before it).
ContextExact ==
    seen.layer # 0 =>
        LET l == seen.layer
            p == seen.position
        IN  /\ seen.window = WindowAt(sequence, p)
            /\ IF Ratio[l] = 0 THEN seen.blocks = {}
               ELSE /\ seen.blocks \subseteq BlocksAt(l, sequence, p)
                    /\ Cardinality(seen.blocks) =
                        IF Overlap(l) THEN Smaller(TopK, (p + 1) \div Ratio[l])
                        ELSE (p + 1) \div Ratio[l]

\* Decoding token by token leaves a layer's memory as one prefill of the same
\* positions would have: the ring, the finished blocks and the rows kept for the
\* blocks still to come.
Live(l, n) ==
    IF Overlap(l)
    THEN {i \in 0..Ratio[l] - 1 : n >= Ratio[l]} \cup (Ratio[l]..Ratio[l] + (n % Ratio[l]) - 1)
    ELSE 0..(n % Ratio[l]) - 1

SameAsPrefill(l, n) ==
    /\ \A i \in 0..Smaller(n, Win) - 1 : ring[l][i] = PrefillRing(ring[l], sequence, n)[i]
    /\ Ratio[l] > 0 =>
        /\ \A g \in 0..(n \div Ratio[l]) - 1 : blocks[l][g] = PrefillBlock(l, sequence, g)
        /\ \A i \in Live(l, n) :
            pending[l][i] = PrefillPending(l, pending[l], sequence, n)[i]

DecodeMatchesPrefill ==
    Idle /\ prevPos > 0 => \A l \in Layer : SameAsPrefill(l, prevPos)

=============================================================================
