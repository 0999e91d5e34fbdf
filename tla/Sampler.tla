------------------------------- MODULE Sampler -------------------------------
(* How ds4.c draws a token (sample_top_p_min_p): the greedy choice, the draw *)
(* from the whole vocabulary, and the draws from candidates that are sorted  *)
(* by logit and cut off by top_p and min_p.  A token has a weight, a multiple *)
(* of the unit of exp((v - max) / temperature), 0 when that underflows;      *)
(* NotFinite stands for a NaN or -inf logit.                                 *)
EXTENDS Integers, Sequences, FiniteSets, FiniteSetsExt, Functions

CONSTANTS
    Vocab,      \* n_vocab
    Scale,      \* top_p and min_p are fractions of Scale
    Draws,      \* sample_rng_f32 returns a multiple of 1 / Draws below one
    MaxTopK     \* the 1024 that top_k is clipped to

ASSUME SamplerAssumption == {Vocab, Scale, Draws, MaxTopK} \subseteq Nat \ {0}

VARIABLES
    asked,      \* the logits and the arguments of sample_top_p_min_p
    drawn       \* the number drawn and the token returned, empty before

svars == <<asked, drawn>>

NotFinite == -1
Ids == 0..Vocab - 1
FiniteIds(w) == {i \in Ids : w[i] # NotFinite}
Mass(w, order) == SumFunction([i \in 1..Len(order) |-> w[order[i]]])

\* The first of the largest logits, token 0 when there is none.
Argmax(w) ==
    LET top == {i \in FiniteIds(w) : \A j \in FiniteIds(w) : w[j] <= w[i]}
    IN  IF top = {} THEN 0 ELSE Min(top)

\* qsort leaves equal logits in any order, the insertion of the top_k path in
\* the order of their ids.
Sorted(w) ==
    {s \in [1..Cardinality(FiniteIds(w)) -> FiniteIds(w)] :
        \A i, j \in DOMAIN s : i < j => s[i] # s[j] /\ w[s[i]] >= w[s[j]]}
TopOf(w, k) ==
    LET stable == CHOOSE s \in Sorted(w) : \A i, j \in DOMAIN s : i < j /\ w[s[i]] = w[s[j]] => s[i] < s[j]
    IN  SubSeq(stable, 1, Min({k, Len(stable)}))

\* What they would be if only top_p stopped the scan.
KeptWithoutMinP(w, order, top_p, min_p) ==
    SubSeq(order, 1, Min({i \in 1..Len(order) : Mass(w, SubSeq(order, 1, i)) * Scale >= top_p * Mass(w, order)}))

\* The candidates kept: the first is, whatever min_p says.
Kept(w, order, top_p, min_p) ==
    LET total == Mass(w, order)
        stops == {i \in 1..Len(order) - 1 : w[order[i + 1]] * Scale < w[order[1]] * min_p}
                 \cup {i \in 1..Len(order) : Mass(w, SubSeq(order, 1, i)) * Scale >= top_p * total}
    IN  SubSeq(order, 1, Min(stops))

\* The first candidate at which r, counted down, is no longer positive.
Draw(w, order, r) ==
    LET hit == {i \in 1..Len(order) : r * Mass(w, order) <= Draws * Mass(w, SubSeq(order, 1, i))}
    IN  order[Min(hit)]

\* Without top_p the vocabulary is drawn from in the order of its ids.
InVocabOrder(w, min_p) ==
    LET best == w[Argmax(w)]
    IN  SelectSeq([i \in 1..Vocab |-> i - 1], LAMBDA i : w[i] # NotFinite /\ w[i] * Scale >= best * min_p)

TopP(q) == IF q.top_p <= 0 \/ q.top_p > Scale THEN Scale ELSE q.top_p
MinP(q) == IF q.min_p < 0 THEN 0 ELSE q.min_p
SampleFullVocab(q, r) ==
    IF TopP(q) = Scale THEN {Draw(q.w, InVocabOrder(q.w, MinP(q)), r)}
    ELSE {Draw(q.w, Kept(q.w, s, TopP(q), MinP(q)), r) : s \in Sorted(q.w)}
SampleTopPMinP(q, r) ==
    IF q.temperature <= 0 \/ FiniteIds(q.w) = {} THEN {Argmax(q.w)}
    ELSE IF q.top_k <= 0 THEN SampleFullVocab(q, r)
    ELSE {Draw(q.w, Kept(q.w, TopOf(q.w, Min({q.top_k, MaxTopK, Vocab})), TopP(q), MinP(q)), r)}

IdleSampler == asked = << >> /\ drawn = << >>
StartSampler(q) == asked = q /\ drawn = << >>
Sample(r) ==
    /\ asked # << >> /\ drawn = << >>
    /\ \E token \in SampleTopPMinP(asked, r) : drawn' = [r |-> r, token |-> token]
    /\ UNCHANGED asked
SamplerStep == \E r \in 0..Draws - 1 : Sample(r)
=============================================================================
