----------------------------- MODULE Ds4Kernels -----------------------------
(* The computations of the C engines beside each other.  A behaviour runs    *)
(* one of them from one of its inputs: a forward pass of ds4.c, the routed   *)
(* experts of a prefill batch, the choice of a token, a matrix product of    *)
(* llamafile_sgemm, the hot experts of llama.cpp's DeepSeek4, the dot        *)
(* product of a quantised row, or the packing of an IQ2_XS block.  They      *)
(* share no state.                                                           *)
EXTENDS Ds4Forward, RoutedExperts, Sampler, TinyBlas, HotExperts, QuantDots, Iq2xsQuantizer

CONSTANTS
    Passes,     \* programs of the forward pass
    Requests,   \* arguments of the sampler
    Products,   \* requests of llamafile_sgemm
    Profiles,   \* hot expert lists, one list for each layer
    RowBlocks   \* blocks of a quantised row

ASSUME ProfilesAssumption == Profiles \subseteq [HotLayers -> Seq(Int)]
\* Only the float classes meet at barriers from one call to the next: a call
\* of the others stands alone.
ASSUME ProductsAssumption ==
    /\ Products \subseteq [family : Families, m : Nat, n : Nat, nth : Nat \ {0}, calls : Nat \ {0},
                           panels : Nat \ {0}, least : {2, 4, 8}, aligned : BOOLEAN, whole : BOOLEAN]
    /\ \A p \in Products : p.calls = 1 \/ Chunked(p)

kvars == <<fvars, rvars, svars, bvars, hvars, qvars, uvars>>

Init ==
    \/ /\ \E code \in Passes : Start(code)
       /\ IdleRouted /\ IdleSampler /\ IdleBlas /\ IdleHot /\ IdleDot /\ IdleQuantizer
    \/ /\ \E sel \in Selections : StartRouted(sel)
       /\ Idle /\ IdleSampler /\ IdleBlas /\ IdleHot /\ IdleDot /\ IdleQuantizer
    \/ /\ \E q \in Requests : StartSampler(q)
       /\ Idle /\ IdleRouted /\ IdleBlas /\ IdleHot /\ IdleDot /\ IdleQuantizer
    \/ /\ \E p \in Products : StartBlas(p)
       /\ Idle /\ IdleRouted /\ IdleSampler /\ IdleHot /\ IdleDot /\ IdleQuantizer
    \/ /\ \E lists \in Profiles : LoadProfile(lists)
       /\ Idle /\ IdleRouted /\ IdleSampler /\ IdleBlas /\ IdleDot /\ IdleQuantizer
    \/ /\ \E kernel \in DotKernels, n \in RowBlocks : StartDot(kernel, n)
       /\ Idle /\ IdleRouted /\ IdleSampler /\ IdleBlas /\ IdleHot /\ IdleQuantizer
    \/ /\ \E m \in {"cpu", "cuda"} : StartQuantizer(m)
       /\ Idle /\ IdleRouted /\ IdleSampler /\ IdleBlas /\ IdleHot /\ IdleDot

\* Every computation ends; one that cannot go on is a deadlock.
Finished ==
    Done /\ RoutedDone /\ (asked = << >> \/ drawn # << >>) /\ BlasDone
    /\ (hot = << >> \/ HotReady) /\ DotDone /\ QuantizerDone
Next ==
    \/ Forward /\ UNCHANGED <<rvars, svars, bvars, hvars, qvars, uvars>>
    \/ RoutedStep /\ UNCHANGED <<fvars, svars, bvars, hvars, qvars, uvars>>
    \/ SamplerStep /\ UNCHANGED <<fvars, rvars, bvars, hvars, qvars, uvars>>
    \/ Blas /\ UNCHANGED <<fvars, rvars, svars, hvars, qvars, uvars>>
    \/ HotStep /\ UNCHANGED <<fvars, rvars, svars, bvars, qvars, uvars>>
    \/ DotStep /\ UNCHANGED <<fvars, rvars, svars, bvars, hvars, uvars>>
    \/ QuantizerStep /\ UNCHANGED <<fvars, rvars, svars, bvars, hvars, qvars>>
    \/ Finished /\ UNCHANGED kvars
Spec == Init /\ [][Next]_kvars

-----------------------------------------------------------------------------
\* No kernel of a pass reads a row before it is written, after it is reused or
\* of another token, on any path and whatever thread runs first, and the pass
\* ends in the logits of the last token: every CPU and Metal path computes
\* what the layer-by-layer definition does.
LayersExact ==
    /\ \A cell \in DOMAIN mem : mem[cell] # Junk
    /\ Done /\ program # << >> =>
         mem[Row("logits", NumTokens - 1)] = <<"logits", OutputHead, NumTokens - 1>>

\* A token's output row is the sum of one term of each expert picked for it,
\* made of all the rows of that pair's own middle values, in whatever order
\* the threads did the tasks.
RoutedOnce ==
    left.loop = "done" =>
        \A o \in Outputs :
            LET whole(p) == [row \in 0..MidRows - 1 |-> <<selected[p], row, p>>]
            IN  /\ Len(moe[o]) = ExpertsUsed
                /\ Range(moe[o]) = {<<selected[p], o[2], whole(p)>> : p \in {q \in Pairs : TokenOf(q) = o[1]}}

\* A token is drawn only from the nucleus: among the top_k, no less probable
\* than min_p allows, and with less than top_p of the mass before it.  (When
\* zero is drawn the scan of the whole vocabulary may stop at an underflowed
\* token: that draw is left out.)
Nucleus(q) ==
    LET k == IF q.top_k <= 0 THEN Vocab ELSE Min({q.top_k, MaxTopK, Vocab})
        best  == q.w[Argmax(q.w)]
        better(i) == {j \in FiniteIds(q.w) : q.w[j] > q.w[i]}
        mass(ids) == SumFunction([i \in ids |-> q.w[i]])
        top == CHOOSE s \in SUBSET FiniteIds(q.w) :
                 /\ Cardinality(s) = Min({k, Cardinality(FiniteIds(q.w))})
                 /\ \A i \in s : better(i) \subseteq s
    IN  {i \in FiniteIds(q.w) : /\ Cardinality(better(i)) < k
                                /\ q.w[i] * Scale >= best * MinP(q)
                                /\ mass(better(i)) * Scale < TopP(q) * mass(top)}
SampledFromNucleus ==
    drawn # << >> /\ FiniteIds(asked.w) # {} =>
        IF asked.temperature <= 0 THEN \A i \in Ids : asked.w[i] <= asked.w[drawn.token]
        ELSE drawn.token \in Nucleus(asked)
             \/ (asked.top_k <= 0 /\ TopP(asked) = Scale /\ drawn.r = 0)

\* Every element of every product is computed exactly once for each panel of
\* k, by one thread, and nothing is written past the last column.
TilesOnce ==
    BlasDone /\ product # << >> =>
        Uncovered(product) \/
        \A q \in DOMAIN c : \A e \in DOMAIN c[q] :
            c[q][e] = IF Serves(product) /\ e[2] < product.n THEN product.panels ELSE 0

\* Whatever layers were placed, dropped or lost their buffers, each pick adds
\* its own expert once to the mix, from the copied subset or from the model's
\* tensor, and no two picks of a token use the same row of the subset.
HotColdOnce ==
    mix # << >> =>
        /\ \A i \in 1..Picks : mix.added[i] = <<mix.picks[i]>>
        /\ \A i, j \in DOMAIN mix.rows : mix.rows[i] = mix.rows[j] => i = j

\* Every kernel multiplies each element of a block once, and with the weight
\* the scalar kernel reads: the same bits in the same places, the same scale
\* and offset.  The tricks inside a lane (a top digit by averages, ones above a
\* missing fifth bit, the eighth sign from a parity table or a population
\* count) give what they stand for, for every byte.
DotsExact ==
    /\ dot # << >> /\ ib = dot.blocks =>
         \A r \in DOMAIN sums : \A b \in DOMAIN sums[r] :
             sums[r][b] = << {<<y, Scalar(dot.type, y)>> : y \in 0..BlockLength(dot.type) - 1} >>
    /\ dot # << >> /\ ib = 0 =>
         CASE dot.type = "tq1_0"  -> \A q \in 0..255 : TritByAvg(q) = TritOf(q)
           [] dot.type = "q5_0"   -> \A n \in 0..15, bit \in {0, 1} : FifthOnes(n, bit) = n + 16 * bit - 16
           [] dot.type = "iq2_xs" -> \A v \in 0..127 : FullSignBits(v) = KSigns(v) /\ UnpackKSigns(v) = KSigns(v)
           [] OTHER               -> TRUE

\* What the dequantiser reads back of a packed block is what the quantiser
\* chose, whether its sub-blocks were done in turn or by threads: all the signs,
\* the one that is not stored among them, the levels of a grid point, and a
\* scale within one unit of the sub-block's own.  A point off the grid is looked
\* up in its own list of neighbours.
PackedExact ==
    /\ mode # "none" /\ packed # << >> /\ packed.max # 0 =>
         \A t \in Subs :
             /\ \A g \in 1..Groups :
                   /\ DecodedMinus(packed.qs[t][g]) = sub[t].minus[g]
                   /\ \A i \in Lanes : DecodedLevels(packed.qs[t][g])[i] = LevelAt(sub[t].L[g], i)
             /\ 31 * sub[t].scale - (2 * DecodedScale(t) + 1) * packed.max \in -packed.max..packed.max
    /\ mode # "none" /\ (\A t \in Subs : sub[t] = Fresh) =>
         \A u \in 0..KMapSize - 1 : OnGrid(u) \/ NeighbourList(u) = Nearest(u)
=============================================================================
