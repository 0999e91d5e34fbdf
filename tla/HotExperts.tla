----------------------------- MODULE HotExperts -----------------------------
(* The hot experts of llama.cpp's DeepSeek4: a profile names the experts of  *)
(* each layer that are copied to a GPU after the model is loaded, and the    *)
(* graph sends every pick down two paths, the copied subset and the original *)
(* tensor, so that one of them contributes it and the other nothing.         *)
(* Left out are a source tensor that cannot be read while its layer is       *)
(* placed (ok_all), and DS4_HOT_DEVICE, which names the only device to use.  *)
EXTENDS Integers, Sequences, FiniteSets

CONSTANTS
    NumHotLayers,   \* layers of the profile and of the model
    NExpert,        \* experts of a layer, 0 .. NExpert - 1
    KHot,           \* hot experts kept of a layer
    Picks,          \* n_expert_used
    Gpus            \* room of each device past its margin, in experts

ASSUME HotAssumption ==
    /\ NumHotLayers \in Nat \ {0} /\ NExpert \in Nat \ {0} /\ KHot \in Nat \ {0}
    /\ Picks \in 1..NExpert /\ Gpus \in Seq(Nat)

VARIABLES
    hot,        \* layers[il], the empty record when there is none
    reserved,   \* b.reserved of each device
    pending,    \* the uploads of each buffer type: the layers they are for
    placing,    \* the layer allocate has reached, 0 before it is called
    mix         \* the last expert mix the graph computed

hvars == <<hot, reserved, pending, placing, mix>>

Experts   == 0..NExpert - 1
HotLayers == 1..NumHotLayers
Cpu       == 0
Nowhere   == -1
NoLayer   == << >>
Present(il) == hot[il] # NoLayer

-----------------------------------------------------------------------------
\* load_profile: the valid entries of a layer's list, at most KHot of them.  An
\* expert that is listed twice keeps both rows and maps to the later one.
HotIds(list) ==
    LET kept[n \in 0..Len(list)] ==
            IF n = 0 THEN << >>
            ELSE IF list[n] \in Experts /\ Len(kept[n - 1]) < KHot THEN Append(kept[n - 1], list[n])
            ELSE kept[n - 1]
    IN  kept[Len(list)]
RemapHot(ids, e) ==
    LET rows == {i \in 1..Len(ids) : ids[i] = e}
    IN  IF rows = {} THEN -1 ELSE (CHOOSE i \in rows : \A j \in rows : j <= i) - 1
\* Kept in ascending order.
ColdIds(ids) == {e \in Experts : RemapHot(ids, e) = -1}

LayerState(list) ==
    LET ids == HotIds(list)
    IN  IF ids = << >> THEN NoLayer
        ELSE [ids |-> ids, cold |-> ColdIds(ids), device |-> Nowhere, uploaded |-> {}]

IdleHot == hot = << >> /\ reserved = << >> /\ pending = << >> /\ placing = 0 /\ mix = << >>
LoadProfile(lists) ==
    /\ hot = [il \in HotLayers |-> LayerState(lists[il])]
    /\ reserved = [d \in DOMAIN Gpus |-> 0]
    /\ pending = [b \in DOMAIN Gpus \cup {Cpu} |-> {}]
    /\ placing = 1 /\ mix = << >>

-----------------------------------------------------------------------------
\* allocate: each layer whose experts are in host memory goes to the device
\* with the most room left, which counts its hot rows.
LayerBytes(il) == Len(hot[il].ids)
Avail(d) == IF Gpus[d] > reserved[d] THEN Gpus[d] - reserved[d] ELSE 0
PickGpu(needed) ==
    LET fit == {d \in DOMAIN Gpus : Avail(d) >= needed}
        most == {d \in fit : \A e \in fit : Avail(e) <= Avail(d)}
    IN  IF fit = {} THEN Nowhere ELSE CHOOSE d \in most : \A e \in most : d <= e

\* The tables of a layer: the float of an expert, and of a pick.
HotRemap(st, e)  == IF RemapHot(st.ids, e) = -1 THEN Len(st.ids) ELSE RemapHot(st.ids, e)
ColdRemap(st, e) == IF RemapHot(st.ids, e) = -1 THEN e ELSE 0
IsHot(st, e)     == IF RemapHot(st.ids, e) = -1 THEN 0 ELSE 1
IsCold(st, e)    == 1 - IsHot(st, e)
\* What it would be with one row of zeros for every pick.
NoPickArange(i)  == 0
PickArange(i)    == i - 1
ColdSentinel(st) == IF st.cold = {} THEN 0 ELSE CHOOSE e \in st.cold : \A d \in st.cold : e <= d

\* A copied tensor: the hot rows, Picks rows of zeros, and one of padding;
\* nothing of it is there before its buffer is.
Zero == -1
Outside == -2
Subset(st, row) ==
    IF st.device \notin st.uploaded THEN Outside
    ELSE IF row < Len(st.ids) THEN st.ids[row + 1] ELSE IF row <= Len(st.ids) + Picks THEN Zero ELSE Outside

\* A layer whose experts a GPU holds already, or that none can take, is
\* dropped; one without expert tensors is passed over.
Advance == placing' = placing + 1 /\ UNCHANGED mix
Place(il, home) ==
    /\ placing = il /\ il <= NumHotLayers
    /\ Advance
    /\ IF ~Present(il) \/ home = Nowhere THEN UNCHANGED <<hot, reserved, pending>>
       ELSE LET d == IF home = Cpu THEN PickGpu(LayerBytes(il)) ELSE Nowhere
            IN  IF d = Nowhere
                THEN hot' = [hot EXCEPT ![il] = NoLayer] /\ UNCHANGED <<reserved, pending>>
                ELSE /\ hot' = [hot EXCEPT ![il].device = d]
                     /\ reserved' = [reserved EXCEPT ![d] = @ + LayerBytes(il)]
                     /\ pending' = [pending EXCEPT ![d] = @ \cup {il}, ![Cpu] = @ \cup {il}]

\* One buffer for each buffer type; when it cannot be had its tensors are
\* forgotten.
Upload(b, granted) ==
    /\ placing = NumHotLayers + 1 /\ pending[b] # {}
    /\ hot' = [il \in HotLayers |-> IF granted /\ il \in pending[b] THEN [hot[il] EXCEPT !.uploaded = @ \cup {b}] ELSE hot[il]]
    /\ pending' = [pending EXCEPT ![b] = {}]
    /\ UNCHANGED <<reserved, placing, mix>>

\* Asked again by the graph: Revalidate only frees a layer that is not ready.
ReadyForDispatch(st) == st # NoLayer /\ {st.device, Cpu} \subseteq st.uploaded
Revalidate ==
    /\ placing = NumHotLayers + 1 /\ \A b \in DOMAIN pending : pending[b] = {}
    /\ hot' = [il \in HotLayers |-> IF ReadyForDispatch(hot[il]) THEN hot[il] ELSE NoLayer]
    /\ Advance /\ UNCHANGED <<reserved, pending>>

-----------------------------------------------------------------------------
\* build_expert_mix for the experts picked for a token: what each pick adds to
\* the sum on the hot path, whose output nothing masks, and on the cold one,
\* whose remaps and masks are in the buffer of the host.
HotId(st, picks, i)  == HotRemap(st, picks[i]) + IsCold(st, picks[i]) * PickArange(i)
ColdId(st, picks, i) == ColdRemap(st, picks[i]) + IsHot(st, picks[i]) * ColdSentinel(st)
Contribution(st, picks, i) ==
    LET w == Subset(st, HotId(st, picks, i))
    IN  (IF w = Zero THEN << >> ELSE <<w>>)
        \o (IF Cpu \notin st.uploaded THEN <<Outside>>
             ELSE IF IsCold(st, picks[i]) = 1 THEN <<ColdId(st, picks, i)>> ELSE << >>)

HotReady == placing = NumHotLayers + 2
ExpertMix(il, picks) ==
    /\ HotReady
    /\ LET st == hot[il]  dual == ReadyForDispatch(st)
       IN  mix' = [picks |-> picks,
                   rows  |-> IF dual THEN [i \in 1..Picks |-> HotId(st, picks, i)] ELSE << >>,
                   added |-> [i \in 1..Picks |-> IF dual THEN Contribution(st, picks, i) ELSE <<picks[i]>>]]
    /\ UNCHANGED <<hot, reserved, pending, placing>>

AnyPicks == {p \in [1..Picks -> Experts] : \A i, j \in 1..Picks : p[i] = p[j] => i = j}
HotStep ==
    \/ \E il \in HotLayers, home \in {Cpu, Nowhere} \cup DOMAIN Gpus : Place(il, home)
    \/ \E b \in DOMAIN pending, granted \in BOOLEAN : Upload(b, granted)
    \/ Revalidate
    \/ \E il \in HotLayers, picks \in AnyPicks : ExpertMix(il, picks)
=============================================================================
