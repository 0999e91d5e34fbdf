---------------------------- MODULE RustAttention ----------------------------
(***************************************************************************)
(* The KV memory of the Rust engine: KvCache (src/kv_cache.rs), the state  *)
(* of a Compressor (src/compressor.rs), the indices that                   *)
(* TransformerLayer::attention gathers (src/layer.rs), and the Generator   *)
(* and ds4_cli loop that drive them (src/generate.rs, src/bin/ds4_cli.rs). *)
(*                                                                         *)
(* A cache column is represented by what it was computed from: the rows,   *)
(* <<conversation, position>>, and the position its RoPE encodes.  The     *)
(* batch has one element.  The Compressor is modelled with a non-zero APE, *)
(* for which the decode of one token always runs on the CPU state; the     *)
(* state on the GPU is then only a copy of it.                             *)
(***************************************************************************)
EXTENDS Integers, FiniteSets

CONSTANTS
    NumLayers,      \* num_hidden_layers
    Ratio,          \* compress_ratio(layer), 0 for a pure sliding window
    OverlapRatio,   \* the ratio whose layers overlap their blocks and own an Indexer (4)
    GroupKernels,   \* layers for whose shape a compressor_group kernel was built
    Win,            \* sliding_window
    TopK,           \* index_topk
    MaxSeqLen,      \* max_seqlen; the model bounds every conversation by it
    MinPrompt,      \* shortest encoded chat prompt
    MaxConversations

Layer == 1..NumLayers
Overlap(l) == Ratio[l] = OverlapRatio
Depth(l) == IF Overlap(l) THEN 2 * Ratio[l] ELSE Ratio[l]

ASSUME ConstantsAssumption ==
    /\ {NumLayers, Win, TopK, MaxSeqLen, MinPrompt, MaxConversations} \subseteq Nat \ {0}
    /\ Ratio \in [Layer -> Nat]
    /\ OverlapRatio \in Nat \ {0}
    /\ GroupKernels \subseteq {l \in Layer : Ratio[l] > 0}
    \* with a window of one, compute_topk_idxs would take its decoding branch
    \* for a prompt at position 0
    /\ Win > 1
    /\ MinPrompt \in 1..MaxSeqLen

VARIABLES
    cache,          \* KvCache.cache, a column per window slot, then per block
    current,        \* KvCache.current_seqlen
    state,          \* Compressor.kv_state and score_state, None for -inf
    call,           \* the Transformer::forward in progress
    conversation,   \* number of the conversation, advanced by /clear
    turns,          \* prompts forwarded in it
    prompt,         \* length of its first prompt
    position,       \* Generator.position
    generating,     \* whether generate() has not yet returned an error
    seen            \* what the last attention() gathered for one of its queries

vars == <<cache, current, state, call, conversation, turns, prompt, position,
          generating, seen>>

None == <<0, 0>>
Row == {None} \cup ((1..MaxConversations) \X (0..MaxSeqLen - 1))
Empty == [at |-> 0, parts |-> {}]
Outside == [at |-> 0, parts |-> {<<"outside", None>>}]   \* memory past the tensor
Kv(q, p) == [at |-> p, parts |-> {<<"row", <<q, p>>>>}]

TotalSize(l) == Win + IF Ratio[l] > 0 THEN MaxSeqLen \div Ratio[l] ELSE 0
NoCall == [start |-> 0, len |-> 0, layer |-> 0]
Nothing == [layer |-> 0, position |-> 0, window |-> {}, blocks |-> {}]
NoBlocks == [g \in {} |-> Empty]
Smaller(a, b) == IF a <= b THEN a ELSE b

(***************************************************************************)
(* compute_topk_idxs, get_compress_topk_uniform and Indexer::forward.      *)
(***************************************************************************)
WindowIdxs(start, n, s) ==
    IF start >= Win - 1 THEN 0..Win - 1
    ELSE IF start > 0 THEN 0..Smaller(start + 1, Win) - 1
    ELSE LET first == IF s + 1 > Win THEN s + 1 - Win ELSE 0
         IN  {i \in first..first + Smaller(n, Win) - 1 : i <= s}

\* Variant: the blocks of a prefill expected after the window, as in decoding.
Offset_AlwaysWindow(start, n) == Win

Offset(start, n) == IF start = 0 THEN n ELSE Win

UniformIdxs(l, start, n, s) ==
    IF start > 0 THEN 0..((start + 1) \div Ratio[l]) - 1
    ELSE {t \in 0..(n \div Ratio[l]) - 1 : t < (s + 1) \div Ratio[l]}

IndexerChoices(l, start, n, s) ==
    LET visible == IF start > 0 THEN 0..((start + n) \div Ratio[l]) - 1
                   ELSE UniformIdxs(l, start, n, s)
        k       == Smaller(TopK, (start + n) \div Ratio[l])
    IN  {T \in SUBSET visible : Cardinality(T) = Smaller(k, Cardinality(visible))}

BlockChoices(l, start, n, s) ==
    IF Ratio[l] = 0 THEN {{}}
    ELSE IF Overlap(l) THEN IndexerChoices(l, start, n, s)
    ELSE {UniformIdxs(l, start, n, s)}

(***************************************************************************)
(* KvCache.                                                                *)
(***************************************************************************)
UpdatePrefill(c, q, n) ==
    LET cutoff == n % Win
    IN  [i \in DOMAIN c |->
            IF i >= Win \/ (n <= Win /\ i >= n) THEN c[i]
            ELSE IF n <= Win THEN Kv(q, i)
            ELSE IF i >= cutoff THEN Kv(q, n - Win + (i - cutoff))
            ELSE Kv(q, n - cutoff + i)]

\* Variant: the slot of the position after.
UpdateDecode_NextSlot(c, q, start, n) ==
    LET pos == (start + 1) % Win
    IN  [i \in DOMAIN c |-> IF i \in pos..pos + n - 1 THEN Kv(q, start + (i - pos)) ELSE c[i]]

\* The n rows of kv are copied contiguously from slot start % win.
UpdateDecode(c, q, start, n) ==
    LET pos == start % Win
    IN  [i \in DOMAIN c |-> IF i \in pos..pos + n - 1 THEN Kv(q, start + (i - pos)) ELSE c[i]]

DecodeFits(l, start, n) == (start % Win) + n <= TotalSize(l)

WriteCompressed(l, c, blocks, start) ==
    LET col == Win + IF start = 0 THEN 0 ELSE start \div Ratio[l]
    IN  [i \in DOMAIN c |-> IF i - col \in DOMAIN blocks THEN blocks[i - col] ELSE c[i]]

\* Only the filled slots while the window is filling, every column afterwards.
FullCache(c, cur) == [i \in {j \in DOMAIN c : cur <= Win => j < cur} |-> c[i]]

(***************************************************************************)
(* Compressor::forward: the blocks it returns and the state it leaves.     *)
(***************************************************************************)
PrefillBlock(l, q, g) ==
    LET rows(k) == {<<q, k * Ratio[l] + r>> : r \in 0..Ratio[l] - 1}
    IN  [at    |-> g * Ratio[l],
         parts |-> ({"own"} \X rows(g))
                   \cup IF Overlap(l) /\ g > 0 THEN {"overlap"} \X rows(g - 1) ELSE {}]

PrefillBlocks(l, q, n) == [g \in 0..(n \div Ratio[l]) - 1 |-> PrefillBlock(l, q, g)]

\* Variant: the rows after the last block are dropped.
PrefillState_NoRemainder(l, st, q, n) ==
    LET cutoff == n - (n % Ratio[l])
    IN  IF n < Ratio[l] \/ l \in GroupKernels THEN st
        ELSE [i \in DOMAIN st |->
                IF Overlap(l) /\ i < Ratio[l] THEN <<q, cutoff - Ratio[l] + i>> ELSE st[i]]

\* Nothing is kept of a prompt shorter than a block, nor when the grouping runs
\* in a kernel.
PrefillState(l, st, q, n) ==
    LET remainder == n % Ratio[l]
        cutoff    == n - remainder
        offset    == IF Overlap(l) THEN Ratio[l] ELSE 0
    IN  IF n < Ratio[l] \/ l \in GroupKernels THEN st
        ELSE [i \in DOMAIN st |->
                IF Overlap(l) /\ i < Ratio[l] THEN <<q, cutoff - Ratio[l] + i>>
                ELSE IF i \in offset..offset + remainder - 1 THEN <<q, cutoff + (i - offset)>>
                ELSE st[i]]

\* Only the first row of the call reaches the state.
Store(l, st, q, start) ==
    [st EXCEPT ![(IF Overlap(l) THEN Ratio[l] ELSE 0) + (start % Ratio[l])] = <<q, start>>]

Completes(l, start) == (start + 1) % Ratio[l] = 0

DecodeState(l, st, q, start) ==
    LET new == Store(l, st, q, start)
    IN  [i \in DOMAIN st |->
            IF Completes(l, start) /\ Overlap(l) /\ i < Ratio[l] THEN new[Ratio[l] + i] ELSE new[i]]

DecodeBlocks(l, st, q, start) ==
    LET new   == Store(l, st, q, start)
        lower == {new[i] : i \in 0..Ratio[l] - 1} \ {None}
        upper == {new[i] : i \in Ratio[l]..Depth(l) - 1} \ {None}
    IN  IF ~Completes(l, start) THEN NoBlocks
        ELSE [g \in {0} |->
                [at    |-> start + 1 - Ratio[l],
                 parts |-> IF Overlap(l) THEN ({"overlap"} \X lower) \cup ({"own"} \X upper)
                           ELSE {"own"} \X lower]]

------------------------------------------------------------------------------
Init ==
    /\ cache = [l \in Layer |-> [i \in 0..TotalSize(l) - 1 |-> Empty]]
    /\ current = [l \in Layer |-> 0]
    /\ state = [l \in Layer |-> [i \in 0..Depth(l) - 1 |-> None]]
    /\ call = NoCall
    /\ conversation = 1
    /\ turns = 0
    /\ prompt = 0
    /\ position = 0
    /\ generating = FALSE
    /\ seen = Nothing

Idle == call = NoCall

Forward(n) ==
    /\ call' = [start |-> position, len |-> n, layer |-> 1]
    /\ seen' = Nothing

\* Generator::reset, from /clear.
Clear ==
    /\ Idle /\ turns > 0 /\ conversation < MaxConversations
    /\ conversation' = conversation + 1
    /\ turns' = 0 /\ prompt' = 0 /\ position' = 0
    /\ generating' = FALSE
    /\ UNCHANGED <<cache, current, state, call, seen>>

\* Generator::generate: the whole prompt is forwarded from the current position.
\* The bound of two turns keeps the model finite.
Prompt(n) ==
    /\ Idle /\ turns < 2 /\ position + n <= MaxSeqLen
    /\ turns' = turns + 1
    /\ generating' = TRUE
    /\ prompt' = IF turns = 0 THEN n ELSE prompt
    /\ Forward(n)
    /\ UNCHANGED <<cache, current, state, conversation, position>>

\* Generator::generate: the decode loop.
NextToken ==
    /\ Idle /\ generating /\ position < MaxSeqLen
    /\ Forward(1)
    /\ UNCHANGED <<cache, current, state, conversation, turns, prompt, position, generating>>

\* Variant: the token to be sampled is counted as forwarded.
Finish_CountsOneMore ==
    IF call.layer < NumLayers
    THEN call' = [call EXCEPT !.layer = @ + 1] /\ UNCHANGED position
    ELSE call' = NoCall /\ position' = position + call.len + 1

Finish ==
    IF call.layer < NumLayers
    THEN call' = [call EXCEPT !.layer = @ + 1] /\ UNCHANGED position
    ELSE call' = NoCall /\ position' = position + call.len

Fetch(tensor, i) == IF i \in DOMAIN tensor THEN tensor[i] ELSE Outside

\* sparse_attention; the queries of a call do not interact: seen records one.
Attended(l, tensor) ==
    \E s \in 0..call.len - 1 : \E chosen \in BlockChoices(l, call.start, call.len, s) :
        seen' = [layer    |-> l,
                 position |-> call.start + s,
                 window   |-> {Fetch(tensor, i) : i \in WindowIdxs(call.start, call.len, s)},
                 blocks   |-> {Fetch(tensor, Offset(call.start, call.len) + g) : g \in chosen}]

Compresses(l, n) == Ratio[l] > 0 /\ n >= Ratio[l]

\* TransformerLayer::attention with start_pos = 0: with blocks, the rows of the
\* prompt and the blocks; without, what the cache holds.
PrefillLayer ==
    LET l     == call.layer
        n     == call.len
        rows  == [i \in 0..n - 1 |-> Kv(conversation, i)]
        comp  == PrefillBlocks(l, conversation, n)
        after == UpdatePrefill(cache[l], conversation, n)
    IN  /\ ~Idle /\ call.start = 0
        /\ current' = [current EXCEPT ![l] = n]
        /\ IF Compresses(l, n)
           THEN /\ state' = [state EXCEPT ![l] = PrefillState(l, @, conversation, n)]
                /\ cache' = [cache EXCEPT ![l] = WriteCompressed(l, after, comp, 0)]
                /\ Attended(l, [i \in 0..n + (n \div Ratio[l]) - 1 |->
                                   IF i < n THEN rows[i] ELSE comp[i - n]])
           ELSE /\ UNCHANGED state
                /\ cache' = [cache EXCEPT ![l] = after]
                /\ Attended(l, FullCache(after, current'[l]))
        /\ Finish
        /\ UNCHANGED <<conversation, turns, prompt, generating>>

\* TransformerLayer::attention with start_pos > 0.
DecodeLayer ==
    LET l     == call.layer
        start == call.start
        after == UpdateDecode(cache[l], conversation, start, call.len)
    IN  /\ call.start > 0 /\ DecodeFits(l, start, call.len)
        /\ current' = [current EXCEPT ![l] = start + 1]
        /\ IF Ratio[l] > 0
           THEN /\ state' = [state EXCEPT ![l] = DecodeState(l, @, conversation, start)]
                /\ cache' = [cache EXCEPT ![l] =
                       WriteCompressed(l, after, DecodeBlocks(l, state[l], conversation, start), start)]
           ELSE UNCHANGED state /\ cache' = [cache EXCEPT ![l] = after]
        /\ Attended(l, FullCache(cache'[l], current'[l]))
        /\ Finish
        /\ UNCHANGED <<conversation, turns, prompt, generating>>

\* copy_into_at refuses rows past the tensor: forward returns the error, the
\* layers before keep what they stored, and the position does not advance.
DecodeFails ==
    /\ call.start > 0 /\ ~DecodeFits(call.layer, call.start, call.len)
    /\ call' = NoCall
    /\ generating' = FALSE
    /\ UNCHANGED <<cache, current, state, conversation, turns, prompt, position, seen>>

Next ==
    \/ Clear
    \/ \E n \in MinPrompt..MaxSeqLen : Prompt(n)
    \/ NextToken
    \/ PrefillLayer
    \/ DecodeLayer
    \/ DecodeFails

Spec == Init /\ [][Next]_vars

------------------------------------------------------------------------------
TypeOK ==
    /\ \A l \in Layer : /\ DOMAIN cache[l] = 0..TotalSize(l) - 1
                        /\ \A i \in DOMAIN cache[l] :
                              /\ cache[l][i].at \in 0..MaxSeqLen
                              /\ cache[l][i].parts \subseteq {"row", "own", "overlap"} \X Row
                        /\ state[l] \in [0..Depth(l) - 1 -> Row]
    /\ current \in [Layer -> 0..MaxSeqLen]
    /\ call \in [start : 0..MaxSeqLen, len : 0..MaxSeqLen, layer : {0} \cup Layer]
    /\ conversation \in 1..MaxConversations
    /\ turns \in 0..2
    /\ {prompt, position} \subseteq 0..MaxSeqLen
    /\ generating \in BOOLEAN

(***************************************************************************)
(* What a query at position p of the conversation must gather: the Win     *)
(* latest rows, and blocks that lie wholly at or before p.                 *)
(***************************************************************************)
WindowAt(p) == {Kv(conversation, x) : x \in (IF p + 1 > Win THEN p + 1 - Win ELSE 0)..p}

Before(first, n) == {x \in 0..MaxSeqLen - 1 : first <= x + n /\ x < first}

BlockOf(l, first) ==
    [at    |-> first,
     parts |-> ({"own"} \X ({conversation} \X Before(first + Ratio[l], Ratio[l])))
               \cup IF Overlap(l) THEN {"overlap"} \X ({conversation} \X Before(first, Ratio[l]))
                    ELSE {}]

BlocksRight(l, p) ==
    IF Ratio[l] = 0 THEN seen.blocks = {}
    ELSE LET n == (p + 1) \div Ratio[l]
         IN  /\ seen.blocks \subseteq {BlockOf(l, g * Ratio[l]) : g \in 0..n - 1}
             /\ Cardinality(seen.blocks) = IF Overlap(l) THEN Smaller(TopK, n) ELSE n

Prefilled == seen.layer # 0 /\ seen.position < prompt
Decoded   == seen.layer # 0 /\ seen.position >= prompt

\* In the first turn of a conversation every decoded token gathers exactly the
\* window of its own conversation, whatever the length of the prompt, what the
\* conversation before left in the ring, and the branch that picks the indices.
DecodeWindowExact ==
    turns = 1 /\ Decoded => seen.window = WindowAt(seen.position)

\* Every query of a first prompt gathers its causal window and the complete
\* blocks, when the prompt fits the window or the layer returns blocks.
PrefillExact ==
    turns = 1 /\ Prefilled /\ (Compresses(seen.layer, prompt) \/ prompt <= Win) =>
        /\ seen.window = WindowAt(seen.position)
        /\ BlocksRight(seen.layer, seen.position)

\* Once the window has filled, a decoded token of a first turn also gathers the
\* right blocks, on the layers that group on the CPU and whose prompt filled a
\* block.
DecodeBlocksExact ==
    turns = 1 /\ Decoded /\ seen.position >= Win
        /\ seen.layer \notin GroupKernels /\ Compresses(seen.layer, prompt) =>
        BlocksRight(seen.layer, seen.position)

\* generate.rs:48-49: the Generator `maintains the position in the KV cache and
\* supports continuous generation over several turns': the queries of a later
\* turn gather the window that precedes them as well.
TurnsContinue ==
    turns > 1 /\ seen.layer # 0 => seen.window = WindowAt(seen.position)

=============================================================================
