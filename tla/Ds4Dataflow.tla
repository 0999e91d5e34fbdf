---------------------------- MODULE Ds4Dataflow ----------------------------
(* What the kernels of a ds4 forward pass hand to each other through its     *)
(* buffers.  A value is named by its stage, its sublayer and its token:      *)
(* <<"norm", 3, 5>> is the normed input of the third sublayer (the attention *)
(* of layer two) at position five.  A cell is a row of a buffer.  A kernel   *)
(* writes the value it stands for if the cells it reads hold that value's    *)
(* operands, and junk otherwise: a buffer that is reused too early, read too *)
(* late or left from another token shows as junk.  The numbers themselves    *)
(* are abstracted, and a quantised or rounded copy of a row is the row.      *)
EXTENDS Integers, SequencesExt

CONSTANTS
    NumLayers,      \* DS4_N_LAYER
    Ratio,          \* compression ratio of each layer, 0 for none
    OverlapRatio,   \* the ratio that overlaps and is indexed (4)
    Win,            \* DS4_N_SWA, the raw window
    TopK,           \* DS4_N_INDEXER_TOP_K
    NumTokens       \* tokens evaluated

ASSUME LayersAssumption ==
    /\ NumLayers \in Nat \ {0} /\ Win \in Nat \ {0} /\ TopK \in Nat \ {0}
    /\ OverlapRatio \in Nat \ {0} /\ NumTokens \in Nat \ {0}
    /\ Ratio \in [1..NumLayers -> Nat]

Layers    == 1..NumLayers
Positions == 0..NumTokens - 1

\* A layer is two sublayers around the hyper-connection (HC) state.
Attn(l) == 2 * l - 1
Ffn(l)  == 2 * l
OutputHead    == 2 * NumLayers + 1
LayerOf(k) == (k + 1) \div 2

Indexed(l) == Ratio[l] = OverlapRatio
\* The compressed blocks a token of layer l sees, and whether they are chosen.
NumBlocks(l, t) == IF Ratio[l] = 0 THEN 0 ELSE (t + 1) \div Ratio[l]
Masked(l, t)    == Indexed(l) /\ NumBlocks(l, t) > TopK
EndsBlock(l, t) == Ratio[l] # 0 /\ (t + 1) % Ratio[l] = 0
LastOf(l, n)    == n * Ratio[l] - 1      \* the last token of the n-th block
Window(t)       == {u \in Positions : u <= t /\ u > t - Win}

Junk == <<"junk", 0, 0>>

\* The operands of the stages that read one token of one sublayer.
Chain == [
    flat       |-> {"hc"},            mix    |-> {"flat"},
    split      |-> {"mix"},           cur    |-> {"hc", "split"},
    norm       |-> {"cur"},
    qr_raw     |-> {"norm"},          qr     |-> {"qr_raw"},
    q_b        |-> {"qr"},            q_n    |-> {"q_b"},        q    |-> {"q_n"},
    kv_a       |-> {"norm"},          kv_n   |-> {"kv_a"},
    kv_r       |-> {"kv_n"},          kv     |-> {"kv_r"},
    proj       |-> {"norm"},          pool   |-> {"state"},      comp |-> {"pool"},
    iproj      |-> {"norm"},          ipool  |-> {"istate"},     icomp |-> {"ipool"},
    iq_b       |-> {"qr"},            iq     |-> {"iq_b"},       iw   |-> {"norm"},
    allowed    |-> {"scores"},    unrotated  |-> {"heads"},         low    |-> {"unrotated"},  attn |-> {"low"},
    mid        |-> {"norm", "sel"},   moe    |-> {"mid", "sel"},
    gate_up    |-> {"norm"},          smid   |-> {"gate_up"},    shared |-> {"smid"},
    ffn        |-> {"moe", "shared"},
    head_flat  |-> {"hc"},            head_mix |-> {"head_flat"},
    head_w     |-> {"head_mix"},      embd   |-> {"hc", "head_w"},
    final      |-> {"embd"},          logits |-> {"final"}]

At(stages, k, t) == {<<s, k, t>> : s \in stages}

Token(t) == <<"token", 0, t>>
Blocks(stage, k, t) == {<<stage, k, LastOf(LayerOf(k), n)>> : n \in 1..NumBlocks(LayerOf(k), t)}

\* The operands of a value: what the reference path computes it from.  A
\* state of position -1 is the empty one.
Operands(v) ==
    LET s == v[1]  k == v[2]  t == v[3]  l == LayerOf(v[2])
    IN  CASE s = "hc" -> IF k = 1 THEN {Token(t)}
                         ELSE At({"hc", "split", IF k % 2 = 0 THEN "attn" ELSE "ffn"}, k - 1, t)
          [] s = "sel"    -> At({"norm"}, k, t) \cup {Token(t)}
          [] s = "state"  -> IF t < 0 THEN {} ELSE At({"proj"}, k, t) \cup At({"state"}, k, t - 1)
          [] s = "istate" -> IF t < 0 THEN {} ELSE At({"iproj"}, k, t) \cup At({"istate"}, k, t - 1)
          [] s = "scores" -> At({"iq", "iw"}, k, t) \cup Blocks("icomp", k, t)
          [] s = "heads"  -> At({"q"}, k, t) \cup {<<"kv", k, u>> : u \in Window(t)}
                             \cup Blocks("comp", k, t)
                             \cup At(IF Masked(l, t) THEN {"allowed"} ELSE {}, k, t)
          [] OTHER -> At(Chain[s], k, t)

\* The overlapping state, rebuilt in place from its last window's projections.
Rebuilt(v) ==
    LET s == v[1]  k == v[2]  t == v[3]
    IN  {v} \cup {<<IF s = "state" THEN "proj" ELSE "iproj", k, u>> : u \in t - OverlapRatio + 1..t}
Derived(v, held) == held = Operands(v) \/ (v[1] \in {"state", "istate"} /\ held = Rebuilt(v))

-----------------------------------------------------------------------------
\* Cells: a row i of the buffer p, and of a buffer that each layer has.
Row(p, i)         == <<p, 0, i>>
LayerRow(p, l, i) == <<p, l, i>>

\* A local array of the thread w, or of the caller.
Local(w, p) == <<p, -1, w>>
Main == 0

\* A kernel's instruction: it writes a value of stage s, or copies a cell.
Op(s, k, t, out, ins) == [out |-> out, value |-> <<s, k, t>>, ins |-> ins]
Copy(out, from)       == [out |-> out, value |-> <<"copy", 0, 0>>, ins |-> {from}]

\* What a cell holds: the prompt is given, a compressor's state starts empty.
Prompt(t) == Row("prompt", t)
Held(mem, c) ==
    IF c \in DOMAIN mem THEN mem[c]
    ELSE IF c[1] = "prompt" THEN Token(c[3])
    ELSE IF c[1] \in {"state", "istate"} THEN <<c[1], Attn(c[2]), -1>> ELSE Junk

Result(mem, i) ==
    IF i.value[1] = "copy" THEN Held(mem, CHOOSE c \in i.ins : TRUE)
    ELSE IF Derived(i.value, {Held(mem, c) : c \in i.ins}) THEN i.value ELSE Junk

\* The instructions of every token of ts, one after another.
EachOf(ts, Code(_)) == FlattenSeq([i \in 1..Len(ts) |-> Code(ts[i])])
Serial(code) == << <<code>> >>
From(t, n) == [i \in 1..n |-> t + i - 1]
=============================================================================
