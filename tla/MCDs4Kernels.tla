---------------------------- MODULE MCDs4Kernels ----------------------------
EXTENDS Ds4Kernels

MCRatio == <<0, 2, 3>>

\* Metal: batches before and after a window has wrapped, aligned and not,
\* single tokens, and passes of two and four tokens in between.
Schedules == <<
    << <<"prefill", 4>>, <<"prefill", 2>>, <<"decode", 1>>, <<"decode", 1>> >>,
    << <<"prefill", 2>>, <<"prefill", 4>>, <<"prefill", 2>> >>,
    << <<"prefill", 3>>, <<"prefill", 3>>, <<"decode2", 2>> >>,
    << <<"prefill", 4>>, <<"decode", 1>>, <<"verify", 2>>, <<"decode", 1>> >>,
    << <<"decode", 1>>, <<"decode", 1>>, <<"decode2", 2>>, <<"verify", 4>> >>,
    << <<"prefill", 3>>, <<"decode2", 2>>, <<"prefill", 3>> >> >>
MCPasses == {CpuProgram(PrefillPaths[i], 4) : i \in 1..Len(PrefillPaths)}
            \cup {MetalProgram(Schedules[i], fused) : i \in 1..Len(Schedules), fused \in BOOLEAN}

MCRequests ==
    {[w |-> w, temperature |-> t, top_k |-> k, top_p |-> p, min_p |-> m] :
        w \in {v \in [0..2 -> {-1, 0, 1, 2}] : \E i \in 0..2 : v[i] > 0},
        t \in {0, 1}, k \in {0, 1, 2, 3}, p \in {0, 2, 3}, m \in {0, 2, 3}}
    \cup {[w |-> [i \in 0..2 |-> -1], temperature |-> 1, top_k |-> 2, top_p |-> 2, min_p |-> 0]}

P(family, m, n, nth, calls) ==
    [family |-> family, m |-> m, n |-> n, nth |-> nth, calls |-> calls,
     panels |-> 1, least |-> 2, aligned |-> TRUE, whole |-> FALSE]
ChunkedProducts ==
    {P(f, m, n, 2, 1) : f \in {"regs32", "regs16", "lmul4"}, m \in {4, 8}, n \in {1, 2, 7, 13}}
    \cup {P("regs32", 4, 103, 2, 2), P("regs32", 16, 3, 2, 1), P("regs16", 8, 107, 2, 1),
          P("lmul1", 32, 5, 2, 1), P("lmul2", 6, 5, 2, 1), P("regs16", 4, 20, 3, 2)}
    \cup {[P("regs32", 8, n, 2, 1) EXCEPT !.least = l] : n \in {3, 4, 7, 8}, l \in {4, 8}}
PackedProducts ==
    {P(f, m, n, nth, 1) : f \in {"Q0_ARM", "Q0_AVX32", "Q0_AVX16", "HP16_PPC", "F32_PPC", "Q0_PPC"},
                          m \in {1, 3, 4, 6, 7, 9, 11}, n \in {1, 2, 4, 5, 8, 15}, nth \in {1, 2, 3}}
TiledProducts ==
    {[P("Q0_PPC", 64, n, 2, 1) EXCEPT !.whole = TRUE, !.panels = 2] : n \in {4, 8, 13, 40}}
MCProducts == ChunkedProducts \cup PackedProducts \cup TiledProducts

\* Lists with an invalid entry, one that is listed twice, every expert and none.
MCProfiles == {
    << <<2, 0>>, <<1, 1>> >>, << <<-1, 7, 0, 2>>, << >> >>,
    << <<1>>, <<2, 0, 1>> >>, << <<9>>, <<0, 1>> >>, << <<1, 2>>, <<2, 1>> >> }
\* A grid of pairs: four of the nine points there are.
Pair(a, b) == [i \in 0..1 |-> IF i = 0 THEN a ELSE b]
MCGrid == <<Pair(0, 0), Pair(1, 1), Pair(2, 0), Pair(0, 2)>>
MCFits == {-2, 1, 3}
MCGpus == <<4, 2>>
=============================================================================
