-------------------------- MODULE RustAttention_proofs --------------------------
(***************************************************************************)
(* Proofs about RustAttention for any window, ratios, group kernels,       *)
(* sequence length and number of layers and conversations: what a query of *)
(* a first turn gathers, during the prompt and while decoding.             *)
(***************************************************************************)
EXTENDS RustAttention, DataFacts_proofs

(***************************************************************************)
(* What the buffers hold when the first n positions of conversation q have *)
(* gone through a layer.  The blocks and the compressor's state are known  *)
(* only for layers that group on the CPU and whose prompt filled a block.  *)
(***************************************************************************)
RingIs(c, q, n) ==
    \A x \in 0..n - 1 : n <= x + Win => c[x % Win] = Kv(q, x)

BlocksAre(l, c, q, n) ==
    \A g \in 0..(n \div Ratio[l]) - 1 : c[Win + g] = PrefillBlock(l, q, g)

Base(l) == IF Overlap(l) THEN Ratio[l] ELSE 0

PendingIs(l, st, q, n) ==
    /\ \A i \in 0..(n % Ratio[l]) - 1 :
           st[Base(l) + i] = <<q, (n - (n % Ratio[l])) + i>>
    /\ Overlap(l) =>
           \A i \in 0..Ratio[l] - 1 : st[i] = <<q, (n - (n % Ratio[l])) - Ratio[l] + i>>

Known(l) == l \notin GroupKernels /\ Compresses(l, prompt)

Memory(l, c, st, q, n, known) ==
    /\ RingIs(c, q, n)
    /\ known => BlocksAre(l, c, q, n) /\ PendingIs(l, st, q, n)

Holds(l, n) == Memory(l, cache[l], state[l], conversation, n, Known(l))

Shaped ==
    /\ DOMAIN cache = Layer /\ DOMAIN state = Layer
    /\ call # NoCall => /\ call.layer \in Layer /\ call.len > 0 /\ call.start = position
                        /\ call.start + call.len <= MaxSeqLen

\* The first turn of a conversation.
FirstTurn ==
    /\ turns = 0 => Idle /\ position = 0 /\ ~ generating
    /\ turns > 0 => prompt > 0
    /\ turns > 0 /\ Idle => position >= prompt
    /\ turns = 1 /\ Idle => \A l \in Layer : Holds(l, position)
    /\ call # NoCall /\ call.start = 0 =>
           /\ turns = 1 /\ call.len = prompt
           /\ \A l \in 1..call.layer - 1 : Holds(l, prompt)
    /\ turns > 0 /\ call # NoCall /\ call.start > 0 => call.start >= prompt
    /\ turns = 1 /\ call # NoCall /\ call.start > 0 =>
           /\ call.len = 1
           /\ \A l \in Layer : Holds(l, IF l < call.layer THEN call.start + 1 ELSE call.start)

IInv ==
    /\ TypeOK /\ Shaped /\ FirstTurn
    /\ DecodeWindowExact /\ PrefillExact /\ DecodeBlocksExact

(***************************************************************************)
(* Constants.                                                              *)
(***************************************************************************)
LEMMA Sizes ==
    /\ Win \in Nat \ {0} /\ 1 < Win /\ MaxSeqLen \in Nat \ {0} /\ TopK \in Nat \ {0}
    /\ NumLayers \in Nat \ {0} /\ MaxConversations \in Nat \ {0}
    /\ OverlapRatio \in Nat \ {0} /\ MinPrompt \in Nat \ {0} /\ MinPrompt <= MaxSeqLen
    /\ \A l \in Layer : Ratio[l] \in Nat
  BY ConstantsAssumption

LEMMA LayerSizes ==
    ASSUME NEW l \in Layer, Ratio[l] > 0
    PROVE  /\ Ratio[l] \in Nat \ {0} /\ Base(l) \in Nat
           /\ Overlap(l) => Base(l) = Ratio[l] /\ Depth(l) = Ratio[l] + Ratio[l]
           /\ ~ Overlap(l) => Base(l) = 0 /\ Depth(l) = Ratio[l]
           /\ Depth(l) = Base(l) + Ratio[l]
           /\ MaxSeqLen \div Ratio[l] \in Nat
           /\ TotalSize(l) = Win + (MaxSeqLen \div Ratio[l])
<1>1. Ratio[l] \in Nat \ {0} /\ MaxSeqLen \in Nat
  BY Sizes
<1>2. MaxSeqLen \div Ratio[l] \in Nat
  BY <1>1, DivMod
<1>. QED BY <1>1, <1>2 DEF Base, Depth, TotalSize

LEMMA Columns ==
    ASSUME NEW l \in Layer
    PROVE  TotalSize(l) \in Nat /\ Win <= TotalSize(l)
<1>1. Ratio[l] \in Nat /\ Win \in Nat
  BY Sizes
<1>2. CASE Ratio[l] > 0
  BY <1>1, <1>2, LayerSizes
<1>3. CASE ~ (Ratio[l] > 0)
  BY <1>1, <1>3 DEF TotalSize
<1>. QED BY <1>2, <1>3

(***************************************************************************)
(* The ring.                                                               *)
(***************************************************************************)
LEMMA PrefillFillsRing ==
    ASSUME NEW l \in Layer, NEW c, DOMAIN c = 0..TotalSize(l) - 1, NEW q, NEW n \in Nat
    PROVE  RingIs(UpdatePrefill(c, q, n), q, n)
<1>. SUFFICES ASSUME NEW p \in 0..n - 1, n <= p + Win
              PROVE  UpdatePrefill(c, q, n)[p % Win] = Kv(q, p)
  BY DEF RingIs
<1>0. Win \in Nat \ {0} /\ p \in Nat /\ p < n
  BY Sizes
<1> DEFINE i == p % Win
           k == n % Win
<1>1. i \in 0..Win - 1 /\ i \in DOMAIN c
  <2>1. i \in Nat /\ i < Win
    BY <1>0, DivMod
  <2>. HIDE DEF i
  <2>. QED BY <1>0, <2>1, Columns
<1>2. /\ k \in Nat /\ k < Win /\ n - k \in Nat
      /\ n - k <= p => i = p - (n - k)
      /\ p < n - k => i = p + Win - (n - k)
  BY <1>0, SlotOf
<1>3. UpdatePrefill(c, q, n)[i] =
          IF i >= Win \/ (n <= Win /\ i >= n) THEN c[i]
          ELSE IF n <= Win THEN Kv(q, i)
          ELSE IF i >= k THEN Kv(q, n - Win + (i - k))
          ELSE Kv(q, n - k + i)
  BY <1>1 DEF UpdatePrefill
<1>4. n <= Win => i = p
  <2>. SUFFICES ASSUME n <= Win PROVE p % Win = p
    OBVIOUS
  <2>. QED BY <1>0, SmallResidue
<1>. HIDE DEF i, k
<1>5. CASE n <= Win
  <2>1. i = p /\ ~ (i >= Win \/ (n <= Win /\ i >= n))
    BY <1>0, <1>1, <1>4, <1>5
  <2>. QED BY <2>1, <1>3, <1>5 DEF i
<1>6. CASE ~ (n <= Win) /\ n - k <= p
  <2>1. ~ (i >= k) /\ n - k + i = p /\ ~ (i >= Win)
    BY <1>0, <1>1, <1>2, <1>6
  <2>. QED BY <1>3, <1>6, <2>1 DEF i
<1>7. CASE ~ (n <= Win) /\ p < n - k
  <2>1. i >= k /\ n - Win + (i - k) = p /\ ~ (i >= Win)
    BY <1>0, <1>1, <1>2, <1>7
  <2>. QED BY <1>3, <1>7, <2>1 DEF i
<1>. QED BY <1>0, <1>2, <1>5, <1>6, <1>7

\* The one row of a decoding step.
LEMMA UpdateOne ==
    ASSUME NEW l \in Layer, NEW c, DOMAIN c = 0..TotalSize(l) - 1, NEW q, NEW p \in Nat
    PROVE  /\ DOMAIN UpdateDecode(c, q, p, 1) = DOMAIN c
           /\ p % Win \in 0..Win - 1 /\ p % Win \in DOMAIN c
           /\ \A i \in DOMAIN c : UpdateDecode(c, q, p, 1)[i] = IF i = p % Win THEN Kv(q, p) ELSE c[i]
<1>0. Win \in Nat \ {0}
  BY Sizes
<1> DEFINE k == p % Win
<1>1. k \in Nat /\ k < Win
  BY <1>0, DivMod
<1>2. UpdateDecode(c, q, p, 1) =
          [i \in DOMAIN c |-> IF i \in k..k + 1 - 1 THEN Kv(q, p + (i - k)) ELSE c[i]]
  BY DEF UpdateDecode
<1>. HIDE DEF k
<1>3. k..k + 1 - 1 = {k} /\ p + (k - k) = p
  BY <1>1
<1>4. k \in 0..Win - 1 /\ k \in DOMAIN c
  BY <1>0, <1>1, Columns
<1>5. DOMAIN UpdateDecode(c, q, p, 1) = DOMAIN c
  BY <1>2
<1>6. ASSUME NEW i \in DOMAIN c
      PROVE  UpdateDecode(c, q, p, 1)[i] = IF i = k THEN Kv(q, p) ELSE c[i]
  BY <1>2, <1>3
<1>. QED BY <1>4, <1>5, <1>6 DEF k

LEMMA DecodeFillsRing ==
    ASSUME NEW l \in Layer, NEW c, DOMAIN c = 0..TotalSize(l) - 1, NEW q, NEW p \in Nat,
           RingIs(c, q, p)
    PROVE  RingIs(UpdateDecode(c, q, p, 1), q, p + 1)
<1>. SUFFICES ASSUME NEW x \in 0..p, p + 1 <= x + Win
              PROVE  UpdateDecode(c, q, p, 1)[x % Win] = Kv(q, x)
  BY DEF RingIs
<1>0. Win \in Nat \ {0} /\ x \in Nat
  BY Sizes
<1>1. x % Win \in DOMAIN c
  <2>1. x % Win \in Nat /\ x % Win < Win
    BY <1>0, DivMod
  <2> DEFINE k == x % Win
  <2>. HIDE DEF k
  <2>2. k \in Nat /\ k < Win => k \in DOMAIN c
    BY <1>0, Columns
  <2>. QED BY <2>1, <2>2 DEF k
<1>2. CASE x = p
  BY <1>1, <1>2, UpdateOne
<1>3. CASE x # p
  <2> DEFINE n == p + 1
  <2>1. /\ x < p /\ x \in 0..p - 1 /\ p <= x + Win
        /\ n \in Nat /\ x < n /\ n <= x + Win /\ p < n /\ n <= p + Win
    BY <1>0, <1>3
  <2> DEFINE d == n - (n % Win)
             a == x % Win
             b == p % Win
  <2>. HIDE DEF n
  <2>2. /\ d \in Nat
        /\ d <= x => a = x - d
        /\ x < d => a = x + Win - d
    BY <1>0, <2>1, SlotOf
  <2>3. /\ d <= p => b = p - d
        /\ p < d => b = p + Win - d
    BY <1>0, <2>1, SlotOf
  <2>. HIDE DEF a, b, d
  <2>4. a # b
    BY <1>0, <2>1, <2>2, <2>3
  <2>5. c[x % Win] = Kv(q, x)
    BY <2>1 DEF RingIs
  <2>. QED BY <1>1, <2>4, <2>5, UpdateOne DEF a, b
<1>. QED BY <1>2, <1>3

\* Blocks are written past the ring.
LEMMA WriteKeepsRing ==
    ASSUME NEW l \in Layer, Ratio[l] > 0, NEW c, DOMAIN c = 0..TotalSize(l) - 1,
           NEW blocks, DOMAIN blocks \subseteq Nat, NEW start \in Nat
    PROVE  /\ DOMAIN WriteCompressed(l, c, blocks, start) = DOMAIN c
           /\ \A i \in 0..Win - 1 : WriteCompressed(l, c, blocks, start)[i] = c[i]
           /\ \A q, n : RingIs(c, q, n) => RingIs(WriteCompressed(l, c, blocks, start), q, n)
<1> DEFINE d == IF start = 0 THEN 0 ELSE start \div Ratio[l]
           col == Win + d
           W == WriteCompressed(l, c, blocks, start)
<1>0. Win \in Nat \ {0} /\ Ratio[l] \in Nat \ {0}
  BY Sizes, LayerSizes
<1>1. d \in Nat
  BY <1>0, DivMod
<1>2. W = [i \in DOMAIN c |-> IF i - col \in DOMAIN blocks THEN blocks[i - col] ELSE c[i]]
  BY DEF WriteCompressed
<1>. HIDE DEF d, W
<1>3. ASSUME NEW i \in 0..Win - 1 PROVE W[i] = c[i]
  <2>1. i \in DOMAIN c
    BY <1>0, Columns
  <2>2. i - col \notin Nat
    BY <1>0, <1>1
  <2>. HIDE DEF col
  <2>. QED BY <2>1, <2>2, <1>2
<1>4. ASSUME NEW q, NEW n, RingIs(c, q, n) PROVE RingIs(W, q, n)
  <2>1. \A x \in 0..n - 1 : x % Win \in 0..Win - 1
    <3>. SUFFICES ASSUME NEW x \in 0..n - 1 PROVE x % Win \in 0..Win - 1
      OBVIOUS
    <3>1. x \in Nat
      OBVIOUS
    <3>2. x % Win \in Nat /\ x % Win < Win
      BY <3>1, <1>0, DivMod
    <3>. QED BY <3>2, <1>0
  <2>. QED BY <2>1, <1>3, <1>4 DEF RingIs
<1>5. DOMAIN W = DOMAIN c
  BY <1>2
<1>. QED BY <1>3, <1>4, <1>5 DEF W

(***************************************************************************)
(* The compressor's state and the blocks.                                  *)
(***************************************************************************)
LEMMA PrefillFillsBlocks ==
    ASSUME NEW l \in Layer, Ratio[l] > 0, NEW c, DOMAIN c = 0..TotalSize(l) - 1, NEW q,
           NEW n \in 0..MaxSeqLen
    PROVE  BlocksAre(l, WriteCompressed(l, c, PrefillBlocks(l, q, n), 0), q, n)
<1> DEFINE N == n \div Ratio[l]
           M == MaxSeqLen \div Ratio[l]
           bs == PrefillBlocks(l, q, n)
<1>1. /\ Ratio[l] \in Nat \ {0} /\ TotalSize(l) = Win + M /\ M \in Nat
      /\ Win \in Nat \ {0} /\ n \in Nat /\ MaxSeqLen \in Nat /\ n <= MaxSeqLen
  BY Sizes, LayerSizes
<1>2. N \in Nat /\ N <= M
  BY <1>1, DivMonotone, DivMod
<1>3. bs = [g \in 0..N - 1 |-> PrefillBlock(l, q, g)]
  BY DEF PrefillBlocks
<1>4. WriteCompressed(l, c, bs, 0) =
          [i \in DOMAIN c |-> IF i - (Win + 0) \in DOMAIN bs THEN bs[i - (Win + 0)] ELSE c[i]]
  BY DEF WriteCompressed
<1>. HIDE DEF N, M, bs
<1>5. ASSUME NEW g \in 0..N - 1
      PROVE  WriteCompressed(l, c, bs, 0)[Win + g] = PrefillBlock(l, q, g)
  <2>1. Win + g \in DOMAIN c /\ (Win + g) - (Win + 0) = g
    BY <1>1, <1>2
  <2>2. g \in DOMAIN bs /\ bs[g] = PrefillBlock(l, q, g)
    BY <1>3
  <2>. QED BY <2>1, <2>2, <1>4
<1>. QED BY <1>5 DEF BlocksAre, N, bs

LEMMA PrefillFillsPending ==
    ASSUME NEW l \in Layer, Ratio[l] > 0, NEW st, DOMAIN st = 0..Depth(l) - 1, NEW q,
           NEW n \in Nat, n >= Ratio[l], l \notin GroupKernels
    PROVE  PendingIs(l, PrefillState(l, st, q, n), q, n)
<1> DEFINE R == Ratio[l]
           k == n % R
           c == n - k
           o == Base(l)
<1>1. /\ R \in Nat \ {0} /\ o \in Nat /\ Depth(l) = o + R
      /\ (Overlap(l) => o = R) /\ (~ Overlap(l) => o = 0)
  BY LayerSizes
<1>2. k \in Nat /\ k < R /\ c \in Nat
  BY <1>1, BlockStart
<1>3. PrefillState(l, st, q, n) =
          [i \in DOMAIN st |->
              IF Overlap(l) /\ i < R THEN <<q, c - R + i>>
              ELSE IF i \in o..o + k - 1 THEN <<q, c + (i - o)>> ELSE st[i]]
  <2>1. ~ (n < R)
    BY <1>1
  <2>. QED BY <2>1 DEF PrefillState, Base
<1>. HIDE DEF R, k, c, o
<1>4. ASSUME NEW i \in 0..k - 1
      PROVE  PrefillState(l, st, q, n)[o + i] = <<q, c + i>>
  <2>1. /\ o + i \in DOMAIN st /\ o + i \in o..o + k - 1 /\ (o + i) - o = i
        /\ ~ (Overlap(l) /\ o + i < R)
    BY <1>1, <1>2
  <2>. QED BY <2>1, <1>3
<1>5. ASSUME Overlap(l), NEW i \in 0..R - 1
      PROVE  PrefillState(l, st, q, n)[i] = <<q, c - R + i>>
  <2>1. i \in DOMAIN st /\ i < R
    BY <1>1, <1>2, <1>5
  <2>. QED BY <2>1, <1>3, <1>5
<1>. QED BY <1>4, <1>5 DEF PendingIs, R, k, c, o

LEMMA DecodeFillsPending ==
    ASSUME NEW l \in Layer, Ratio[l] > 0, NEW st, NEW q, NEW p \in Nat,
           DOMAIN st = 0..Depth(l) - 1, PendingIs(l, st, q, p), p >= Ratio[l]
    PROVE  /\ LET S == Store(l, st, q, p)
                  c == p - (p % Ratio[l])
              IN  /\ DOMAIN S = 0..Depth(l) - 1
                  /\ \A i \in 0..(p % Ratio[l]) : S[Base(l) + i] = <<q, c + i>>
                  /\ Overlap(l) => \A i \in 0..Ratio[l] - 1 : S[i] = <<q, c - Ratio[l] + i>>
           /\ PendingIs(l, DecodeState(l, st, q, p), q, p + 1)
<1> DEFINE R == Ratio[l]
           k == p % R
           c == p - k
           o == Base(l)
           S == Store(l, st, q, p)
           D == DecodeState(l, st, q, p)
           n == p + 1
<1>1. /\ R \in Nat \ {0} /\ o \in Nat /\ Depth(l) = o + R
      /\ (Overlap(l) => o = R) /\ (~ Overlap(l) => o = 0)
  BY LayerSizes
<1>2. k \in Nat /\ k < R /\ c \in Nat /\ c >= R
  BY <1>1, BlockStart
<1>3. S = [st EXCEPT ![o + k] = <<q, p>>]
  BY DEF Store, Base
<1>4. /\ \A i \in 0..k - 1 : st[o + i] = <<q, c + i>>
      /\ Overlap(l) => \A i \in 0..R - 1 : st[i] = <<q, c - R + i>>
  BY DEF PendingIs
<1>5. D = [i \in DOMAIN st |-> IF n % R = 0 /\ Overlap(l) /\ i < R THEN S[R + i] ELSE S[i]]
  BY DEF DecodeState, Completes
<1>6. \/ k + 1 < R /\ n % R = k + 1
      \/ k + 1 = R /\ n % R = 0
  BY <1>1, DivModSucc
<1>6a. c + k = p
  BY <1>1, <1>2
<1>. HIDE DEF R, k, c, o, S, D
<1>7. o + k \in DOMAIN st /\ DOMAIN S = DOMAIN st
  BY <1>1, <1>2, <1>3
<1>8. ASSUME NEW i \in 0..k PROVE S[o + i] = <<q, c + i>>
  <2>1. CASE i = k
    BY <2>1, <1>3, <1>7, <1>6a
  <2>2. CASE i # k
    <3>1. i \in 0..k - 1 /\ o + i # o + k /\ o + i \in DOMAIN st
      BY <2>2, <1>1, <1>2
    <3>. QED BY <3>1, <1>3, <1>4
  <2>. QED BY <2>1, <2>2
<1>9. ASSUME Overlap(l), NEW i \in 0..R - 1 PROVE S[i] = <<q, c - R + i>>
  <2>1. i # o + k /\ i \in DOMAIN st
    BY <1>1, <1>2, <1>9
  <2>. QED BY <2>1, <1>3, <1>4, <1>9
<1>10. CASE k + 1 < R /\ n % R = k + 1
  <2>1. n % R # 0 /\ n - (n % R) = c /\ 0..(n % R) - 1 = 0..k
    <3>1. n - (k + 1) = c /\ (k + 1) - 1 = k /\ k + 1 # 0
      BY <1>1, <1>2, <1>10, <1>6a
    <3>. QED BY <3>1, <1>10
  <2>2. \A i \in DOMAIN st : D[i] = S[i]
    BY <2>1, <1>5
  <2>3. \A i \in 0..k : D[o + i] = <<q, c + i>>
    <3>1. \A i \in 0..k : o + i \in DOMAIN st
      BY <1>1, <1>2
    <3>. QED BY <3>1, <2>2, <1>8
  <2>4. Overlap(l) => \A i \in 0..R - 1 : D[i] = <<q, c - R + i>>
    <3>1. \A i \in 0..R - 1 : i \in DOMAIN st
      BY <1>1
    <3>. QED BY <3>1, <2>2, <1>9
  <2>5. PendingIs(l, D, q, n)
    BY <2>1, <2>3, <2>4 DEF PendingIs, R, o
  <2>. QED BY <2>5, <1>7, <1>8, <1>9 DEF R, k, c, o, S, D
<1>11. CASE k + 1 = R /\ n % R = 0
  <2>1. n - (n % R) = n /\ 0..(n % R) - 1 = {}
    BY <1>1, <1>2, <1>11
  <2>2. ASSUME Overlap(l), NEW i \in 0..R - 1 PROVE D[i] = <<q, n - R + i>>
    <3>1. i \in DOMAIN st /\ i \in 0..k /\ i < R
      BY <1>1, <1>2, <1>7, <1>11, <2>2
    <3>2. D[i] = S[R + i]
      BY <3>1, <1>11, <2>2, <1>5
    <3>3. S[R + i] = <<q, c + i>>
      BY <3>1, <1>1, <1>8, <2>2
    <3>4. c + i = n - R + i
      BY <1>1, <1>2, <1>11, <1>6a
    <3>. QED BY <3>2, <3>3, <3>4
  <2>3. PendingIs(l, D, q, n)
    BY <2>1, <2>2 DEF PendingIs, R
  <2>. QED BY <2>3, <1>7, <1>8, <1>9 DEF R, k, c, o, S, D
<1>. QED BY <1>6, <1>10, <1>11

\* The block that decoding pools when one completes is the prefill's.
LEMMA PooledBlock ==
    ASSUME NEW l \in Layer, Ratio[l] > 0, NEW st, NEW q \in Nat \ {0}, NEW p \in Nat,
           DOMAIN st = 0..Depth(l) - 1, PendingIs(l, st, q, p), p >= Ratio[l],
           Completes(l, p)
    PROVE  /\ DOMAIN DecodeBlocks(l, st, q, p) = {0}
           /\ DecodeBlocks(l, st, q, p)[0] = PrefillBlock(l, q, p \div Ratio[l])
<1> DEFINE R == Ratio[l]
           k == p % R
           c == p - k
           g == p \div R
           S == Store(l, st, q, p)
           n == p + 1
           rows(h) == {<<q, h * R + r>> : r \in 0..R - 1}
           lower == {S[i] : i \in 0..R - 1}
           upper == {S[i] : i \in R..Depth(l) - 1}
           pooled == [at    |-> p + 1 - R,
                      parts |-> IF Overlap(l)
                                THEN ({"overlap"} \X (lower \ {None})) \cup ({"own"} \X (upper \ {None}))
                                ELSE {"own"} \X (lower \ {None})]
<1>1. /\ R \in Nat \ {0} /\ Depth(l) = Base(l) + R
      /\ Overlap(l) => Base(l) = R
      /\ ~ Overlap(l) => Base(l) = 0
  BY LayerSizes
<1>2. k \in Nat /\ k < R /\ g \in Nat /\ c \in Nat /\ c = g * R /\ c >= R /\ g > 0
  BY <1>1, BlockStart
<1>3. k + 1 = R
  <2>1. \/ k + 1 < R /\ n % R = k + 1
        \/ k + 1 = R /\ n % R = 0
    BY <1>1, DivModSucc
  <2>2. n % R = 0
    BY DEF Completes
  <2>. HIDE DEF n, k
  <2>. QED BY <2>1, <2>2, <1>2
<1>4. /\ \A i \in 0..k : S[Base(l) + i] = <<q, c + i>>
      /\ Overlap(l) => \A i \in 0..R - 1 : S[i] = <<q, c - R + i>>
  BY DecodeFillsPending
<1>5. DecodeBlocks(l, st, q, p) = [x \in {0} |-> pooled]
  BY DEF DecodeBlocks
<1>6. None \notin rows(g) /\ None \notin rows(g - 1)
  BY DEF None
<1>7. p + 1 - R = g * R
  <2>1. c = g * R /\ c \in Nat
    BY <1>2
  <2>2. c = p - k
    OBVIOUS
  <2>3. k + 1 = R /\ k \in Nat /\ p \in Nat
    BY <1>1, <1>2, <1>3
  <2>. HIDE DEF R, k, g, c
  <2>4. p + 1 - R = c
    BY <2>1, <2>2, <2>3
  <2>. QED BY <2>1, <2>4
<1>8. CASE ~ Overlap(l)
  <2>1. lower = rows(g)
    <3>1. \A i \in 0..R - 1 : S[i] = <<q, g * R + i>>
      <4>. HIDE DEF k, g, S, R
      <4>. QED BY <1>1, <1>2, <1>4, <1>3, <1>8
    <3>. QED BY <3>1
  <2>2. pooled = [at |-> g * R, parts |-> {"own"} \X rows(g)]
    <3>1. lower \ {None} = rows(g)
      BY <2>1, <1>6
    <3>. QED BY <3>1, <1>7, <1>8
  <2>3. PrefillBlock(l, q, g) = [at |-> g * R, parts |-> {"own"} \X rows(g)]
    BY <1>8 DEF PrefillBlock
  <2>. QED BY <2>2, <2>3, <1>5
<1>9. CASE Overlap(l)
  <2>1. lower = rows(g - 1)
    <3>1. (g - 1) * R = c - R
      <4>. DEFINE h == g - 1
      <4>1. h \in Nat /\ g = h + 1
        BY <1>2
      <4>2. (h + 1) * R = h * R + R /\ h * R \in Nat
        BY <4>1, <1>1, ProductFacts
      <4>. DEFINE x == h * R
      <4>3. c = x + R
        <5>. HIDE DEF g, c, h, x
        <5>. QED BY <4>1, <4>2, <1>2 DEF x
      <4>. QED BY <4>2, <4>3, <1>1, <1>2
    <3>2. \A i \in 0..R - 1 : S[i] = <<q, (g - 1) * R + i>>
      BY <3>1, <1>4, <1>9
    <3>. QED BY <3>1, <3>2
  <2>2. upper = rows(g)
    <3>1. \A i \in 0..R - 1 : S[R + i] = <<q, g * R + i>>
      <4>. HIDE DEF k, g, S, R
      <4>. QED BY <1>1, <1>2, <1>3, <1>4, <1>9
    <3>2. Depth(l) = R + R
      BY <1>1, <1>9
    <3>3. \A i \in R..Depth(l) - 1 : i - R \in 0..R - 1 /\ R + (i - R) = i
      <4>. HIDE DEF R
      <4>. QED BY <3>2, <1>1
    <3>4. \A i \in 0..R - 1 : R + i \in R..Depth(l) - 1
      <4>. HIDE DEF R
      <4>. QED BY <3>2, <1>1
    <3>5. ASSUME NEW x \in upper PROVE x \in rows(g)
      <4>1. PICK i \in R..Depth(l) - 1 : x = S[i]
        OBVIOUS
      <4>2. i - R \in 0..R - 1 /\ S[i] = <<q, g * R + (i - R)>>
        BY <3>1, <3>3
      <4>. QED BY <4>1, <4>2
    <3>6. ASSUME NEW x \in rows(g) PROVE x \in upper
      <4>1. PICK r \in 0..R - 1 : x = <<q, g * R + r>>
        OBVIOUS
      <4>. QED BY <4>1, <3>1, <3>4
    <3>. QED BY <3>5, <3>6
  <2>3. pooled = [at |-> g * R,
                  parts |-> ({"overlap"} \X rows(g - 1)) \cup ({"own"} \X rows(g))]
    <3>1. lower \ {None} = rows(g - 1) /\ upper \ {None} = rows(g)
      BY <2>1, <2>2, <1>6
    <3>. QED BY <3>1, <1>7, <1>9
  <2>4. PrefillBlock(l, q, g) = [at |-> g * R,
                                 parts |-> ({"own"} \X rows(g))
                                           \cup ({"overlap"} \X rows(g - 1))]
    BY <1>2, <1>9 DEF PrefillBlock
  <2>5. pooled = PrefillBlock(l, q, g)
    BY <2>3, <2>4
  <2>. HIDE DEF pooled, g
  <2>. QED BY <2>5, <1>5 DEF g
<1>. QED BY <1>8, <1>9

LEMMA DecodeFillsBlocks ==
    ASSUME NEW l \in Layer, Ratio[l] > 0, NEW st, NEW c, NEW q \in Nat \ {0},
           NEW p \in 0..MaxSeqLen - 1, p >= Ratio[l],
           DOMAIN st = 0..Depth(l) - 1, PendingIs(l, st, q, p),
           DOMAIN c = 0..TotalSize(l) - 1, BlocksAre(l, c, q, p)
    PROVE  BlocksAre(l, WriteCompressed(l, c, DecodeBlocks(l, st, q, p), p), q, p + 1)
<1> DEFINE R == Ratio[l]
           g == p \div R
           n == p + 1
           M == MaxSeqLen \div R
           bs == DecodeBlocks(l, st, q, p)
           W == WriteCompressed(l, c, bs, p)
<1>0. p \in Nat /\ n <= MaxSeqLen /\ n \in Nat /\ MaxSeqLen \in Nat /\ Win \in Nat
  BY Sizes
<1>1. R \in Nat \ {0} /\ TotalSize(l) = Win + M /\ M \in Nat
  BY LayerSizes
<1>2. g \in Nat
  BY <1>0, <1>1, DivMod
<1>3. \/ (p % R) + 1 < R /\ n % R = (p % R) + 1 /\ n \div R = g
      \/ (p % R) + 1 = R /\ n % R = 0 /\ n \div R = g + 1
  BY <1>0, <1>1, DivModSucc
<1>4. n \div R <= M
  BY <1>0, <1>1, DivMonotone
<1>5. W = [i \in DOMAIN c |-> IF i - (Win + g) \in DOMAIN bs THEN bs[i - (Win + g)] ELSE c[i]]
  <2>1. p # 0
    BY <1>0, <1>1
  <2>2. Win + (IF p = 0 THEN 0 ELSE g) = Win + g
    BY <2>1
  <2>. QED BY <2>2 DEF WriteCompressed
<1>6. \A h \in 0..g - 1 : c[Win + h] = PrefillBlock(l, q, h)
  BY DEF BlocksAre
<1>7. CASE n % R # 0
  <2>1. bs = NoBlocks
    BY <1>7 DEF DecodeBlocks, Completes
  <2>2. DOMAIN bs = {}
    BY <2>1 DEF NoBlocks
  <2>3. n \div R = g
    BY <1>3, <1>7
  <2>. HIDE DEF bs, W, g, M, n
  <2>4. \A h \in 0..g - 1 : Win + h \in DOMAIN c
    BY <1>0, <1>1, <1>2, <1>4, <2>3
  <2>5. \A h \in 0..g - 1 : W[Win + h] = PrefillBlock(l, q, h)
    BY <2>2, <2>4, <1>5, <1>6
  <2>6. \A h \in 0..(n \div R) - 1 : W[Win + h] = PrefillBlock(l, q, h)
    BY <2>3, <2>5
  <2>. QED BY <2>6 DEF BlocksAre, W, bs, n
<1>8. CASE n % R = 0
  <2>1. DOMAIN bs = {0} /\ bs[0] = PrefillBlock(l, q, g)
    BY <1>0, <1>8, PooledBlock DEF Completes
  <2>2. n \div R = g + 1
    <3>1. p % R \in Nat
      BY <1>0, <1>1, DivMod
    <3> DEFINE k == p % R
    <3>. HIDE DEF k, n
    <3>. QED BY <3>1, <1>3, <1>8 DEF k
  <2>. HIDE DEF bs, W, g, M, n
  <2>3. \A h \in 0..g : Win + h \in DOMAIN c
    BY <1>0, <1>1, <1>2, <1>4, <2>2
  <2>4. ASSUME NEW h \in 0..g PROVE W[Win + h] = PrefillBlock(l, q, h)
    <3>1. CASE h = g
      <4>1. (Win + h) - (Win + g) = 0
        BY <3>1, <1>0, <1>2
      <4>. QED BY <4>1, <3>1, <2>1, <2>3, <1>5
    <3>2. CASE h # g
      <4>1. (Win + h) - (Win + g) # 0 /\ h \in 0..g - 1
        BY <3>2, <1>0, <1>2
      <4>. QED BY <4>1, <2>1, <2>3, <1>5, <1>6
    <3>. QED BY <3>1, <3>2
  <2>5. (n \div R) - 1 = g
    BY <2>2, <1>2
  <2>6. \A h \in 0..(n \div R) - 1 : W[Win + h] = PrefillBlock(l, q, h)
    BY <2>4, <2>5
  <2>. QED BY <2>6 DEF BlocksAre, W, bs, n
<1>. QED BY <1>7, <1>8

\* Decoding one token leaves the earlier blocks alone.
LEMMA UpdateKeepsBlocks ==
    ASSUME NEW l \in Layer, Ratio[l] > 0, NEW c, DOMAIN c = 0..TotalSize(l) - 1, NEW q,
           NEW p \in 0..MaxSeqLen - 1, BlocksAre(l, c, q, p)
    PROVE  BlocksAre(l, UpdateDecode(c, q, p, 1), q, p)
<1> DEFINE N == p \div Ratio[l]
           M == MaxSeqLen \div Ratio[l]
           U == UpdateDecode(c, q, p, 1)
           k == p % Win
<1>1. /\ Ratio[l] \in Nat \ {0} /\ TotalSize(l) = Win + M /\ M \in Nat
      /\ Win \in Nat \ {0} /\ p \in Nat /\ MaxSeqLen \in Nat /\ p <= MaxSeqLen
  BY Sizes, LayerSizes
<1>2. N \in Nat /\ N <= M
  BY <1>1, DivMonotone, DivMod
<1>3. k \in 0..Win - 1 /\ \A i \in DOMAIN c : U[i] = IF i = k THEN Kv(q, p) ELSE c[i]
  BY <1>1, UpdateOne
<1>. HIDE DEF N, M, U, k
<1>4. \A g \in 0..N - 1 : Win + g \in DOMAIN c /\ Win + g # k
  BY <1>1, <1>2, <1>3
<1>5. \A g \in 0..N - 1 : c[Win + g] = PrefillBlock(l, q, g)
  BY DEF BlocksAre, N
<1>6. \A g \in 0..N - 1 : U[Win + g] = PrefillBlock(l, q, g)
  BY <1>3, <1>4, <1>5
<1>. QED BY <1>6 DEF BlocksAre, N, U

(***************************************************************************)
(* A layer's memory after a prefill and after a decoding step.             *)
(***************************************************************************)
PrefilledCache(l, c, q, n) ==
    IF Compresses(l, n) THEN WriteCompressed(l, UpdatePrefill(c, q, n), PrefillBlocks(l, q, n), 0)
    ELSE UpdatePrefill(c, q, n)

PrefilledState(l, st, q, n) == IF Compresses(l, n) THEN PrefillState(l, st, q, n) ELSE st

DecodedCache(l, c, st, q, p, n) ==
    IF Ratio[l] > 0 THEN WriteCompressed(l, UpdateDecode(c, q, p, n), DecodeBlocks(l, st, q, p), p)
    ELSE UpdateDecode(c, q, p, n)

DecodedState(l, st, q, p) == IF Ratio[l] > 0 THEN DecodeState(l, st, q, p) ELSE st

LEMMA PrefillFills ==
    ASSUME NEW l \in Layer, NEW c, DOMAIN c = 0..TotalSize(l) - 1,
           NEW st, DOMAIN st = 0..Depth(l) - 1, NEW q, NEW n \in 1..MaxSeqLen,
           NEW known, known => l \notin GroupKernels /\ Compresses(l, n)
    PROVE  Memory(l, PrefilledCache(l, c, q, n), PrefilledState(l, st, q, n), q, n, known)
<1> DEFINE U == UpdatePrefill(c, q, n)
           bs == PrefillBlocks(l, q, n)
<1>1. n \in Nat /\ n \in 0..MaxSeqLen /\ Win \in Nat
  BY Sizes
<1>2. RingIs(U, q, n) /\ DOMAIN U = 0..TotalSize(l) - 1
  <2>1. DOMAIN U = DOMAIN c
    BY DEF UpdatePrefill
  <2>. QED BY <2>1, <1>1, PrefillFillsRing
<1>. HIDE DEF U
<1>3. CASE Compresses(l, n)
  <2>1. Ratio[l] > 0 /\ n >= Ratio[l]
    BY <1>3 DEF Compresses
  <2>2. DOMAIN bs \subseteq Nat
    BY DEF PrefillBlocks
  <2>3. RingIs(WriteCompressed(l, U, bs, 0), q, n)
    <3>. HIDE DEF bs
    <3>. QED BY <1>2, <2>1, <2>2, WriteKeepsRing
  <2>4. BlocksAre(l, WriteCompressed(l, U, bs, 0), q, n)
    BY <1>1, <1>2, <2>1, PrefillFillsBlocks
  <2>5. known => PendingIs(l, PrefillState(l, st, q, n), q, n)
    BY <1>1, <2>1, PrefillFillsPending
  <2>6. /\ PrefilledCache(l, c, q, n) = WriteCompressed(l, U, bs, 0)
        /\ PrefilledState(l, st, q, n) = PrefillState(l, st, q, n)
    BY <1>3 DEF PrefilledCache, PrefilledState, U
  <2>. QED BY <2>3, <2>4, <2>5, <2>6 DEF Memory
<1>4. CASE ~ Compresses(l, n)
  <2>1. PrefilledCache(l, c, q, n) = U
    BY <1>4 DEF PrefilledCache, U
  <2>. QED BY <2>1, <1>2, <1>4 DEF Memory
<1>. QED BY <1>3, <1>4

LEMMA DecodeFills ==
    ASSUME NEW l \in Layer, NEW c, DOMAIN c = 0..TotalSize(l) - 1,
           NEW st, DOMAIN st = 0..Depth(l) - 1, NEW q \in Nat \ {0}, NEW p \in 0..MaxSeqLen - 1,
           NEW known, known => Ratio[l] > 0 /\ p >= Ratio[l], Memory(l, c, st, q, p, known)
    PROVE  Memory(l, DecodedCache(l, c, st, q, p, 1), DecodedState(l, st, q, p), q, p + 1, known)
<1> DEFINE U == UpdateDecode(c, q, p, 1)
           bs == DecodeBlocks(l, st, q, p)
<1>1. p \in Nat /\ Ratio[l] \in Nat
  BY Sizes
<1>2. RingIs(U, q, p + 1) /\ DOMAIN U = 0..TotalSize(l) - 1
  BY <1>1, DecodeFillsRing, UpdateOne DEF Memory
<1>3. CASE Ratio[l] > 0
  <2>1. DOMAIN bs \subseteq Nat
    BY DEF DecodeBlocks, NoBlocks
  <2>2. RingIs(WriteCompressed(l, U, bs, p), q, p + 1)
    <3>. HIDE DEF bs, U
    <3>. QED BY <1>1, <1>2, <1>3, <2>1, WriteKeepsRing
  <2>3. ASSUME known
        PROVE  /\ BlocksAre(l, WriteCompressed(l, U, bs, p), q, p + 1)
               /\ PendingIs(l, DecodeState(l, st, q, p), q, p + 1)
    <3>1. p >= Ratio[l] /\ BlocksAre(l, c, q, p) /\ PendingIs(l, st, q, p)
      BY <2>3 DEF Memory
    <3>2. BlocksAre(l, U, q, p)
      BY <1>3, <3>1, UpdateKeepsBlocks
    <3>. HIDE DEF U
    <3>3. BlocksAre(l, WriteCompressed(l, U, bs, p), q, p + 1)
      BY <1>2, <1>3, <3>1, <3>2, DecodeFillsBlocks
    <3>4. PendingIs(l, DecodeState(l, st, q, p), q, p + 1)
      BY <1>1, <1>3, <3>1, DecodeFillsPending
    <3>. QED BY <3>3, <3>4
  <2>4. /\ DecodedCache(l, c, st, q, p, 1) = WriteCompressed(l, U, bs, p)
        /\ DecodedState(l, st, q, p) = DecodeState(l, st, q, p)
    BY <1>3 DEF DecodedCache, DecodedState
  <2>. QED BY <2>2, <2>3, <2>4 DEF Memory
<1>4. CASE ~ (Ratio[l] > 0)
  <2>1. DecodedCache(l, c, st, q, p, 1) = U
    BY <1>4 DEF DecodedCache
  <2>. QED BY <2>1, <1>2, <1>4 DEF Memory
<1>. QED BY <1>3, <1>4

(***************************************************************************)
(* What a query gathers.                                                   *)
(***************************************************************************)
Window(q, p) == {Kv(q, x) : x \in (IF p + 1 > Win THEN p + 1 - Win ELSE 0)..p}

LEMMA DecodeWindow ==
    ASSUME NEW l \in Layer, NEW c, DOMAIN c = 0..TotalSize(l) - 1, NEW q,
           NEW p \in Nat \ {0}, RingIs(c, q, p + 1)
    PROVE  {Fetch(FullCache(c, p + 1), i) : i \in WindowIdxs(p, 1, 0)} = Window(q, p)
<1> DEFINE T == FullCache(c, p + 1)
<1>0. Win \in Nat \ {0} /\ 1 < Win /\ TotalSize(l) \in Nat /\ Win <= TotalSize(l)
  BY Sizes, Columns
<1>1. \A x \in 0..p : p + 1 <= x + Win => c[x % Win] = Kv(q, x)
  BY DEF RingIs
<1>2. ASSUME NEW i \in 0..Win - 1, p + 1 <= Win => i <= p
      PROVE  Fetch(T, i) = c[i]
  <2>1. i \in DOMAIN c /\ (p + 1 <= Win => i < p + 1)
    BY <1>0, <1>2
  <2>. QED BY <2>1 DEF Fetch, FullCache
<1>. HIDE DEF T
<1>3. CASE p >= Win - 1
  <2>1. WindowIdxs(p, 1, 0) = 0..Win - 1
    BY <1>3 DEF WindowIdxs
  <2> DEFINE lo == p + 1 - Win
             n == p + 1
  <2>2. Window(q, p) = {Kv(q, x) : x \in lo..p}
    <3>1. (IF p + 1 > Win THEN p + 1 - Win ELSE 0) = lo
      BY <1>0, <1>3
    <3>. QED BY <3>1 DEF Window
  <2>3. n \in Nat /\ Win <= n /\ lo \in Nat
    BY <1>0, <1>3
  <2>4. ASSUME NEW i \in 0..Win - 1 PROVE Fetch(T, i) \in {Kv(q, x) : x \in lo..p}
    <3>1. PICK x \in 0..n - 1 : n <= x + Win /\ x % Win = i
      <4>. HIDE DEF n
      <4>. QED BY <1>0, <2>3, PositionIn
    <3>2. x \in 0..p /\ p + 1 <= x + Win /\ x \in lo..p
      BY <3>1, <1>0
    <3>3. c[i] = Kv(q, x)
      BY <3>1, <3>2, <1>1
    <3>4. Fetch(T, i) = c[i]
      BY <1>0, <1>2, <1>3
    <3>. QED BY <3>2, <3>3, <3>4
  <2>5. ASSUME NEW x \in lo..p PROVE Kv(q, x) \in {Fetch(T, i) : i \in 0..Win - 1}
    <3>1. x \in 0..p /\ p + 1 <= x + Win /\ x \in Nat
      BY <1>0, <2>3
    <3>2. x % Win \in 0..Win - 1
      BY <3>1, <1>0, DivMod
    <3>3. c[x % Win] = Kv(q, x)
      BY <3>1, <1>1
    <3>4. Fetch(T, x % Win) = c[x % Win]
      <4>1. \A i \in 0..Win - 1 : Fetch(T, i) = c[i]
        BY <1>0, <1>2, <1>3
      <4>. QED BY <4>1, <3>2
    <3>. QED BY <3>2, <3>3, <3>4
  <2>6. {Fetch(T, i) : i \in 0..Win - 1} \subseteq {Kv(q, x) : x \in lo..p}
    BY <2>4
  <2>7. {Kv(q, x) : x \in lo..p} \subseteq {Fetch(T, i) : i \in 0..Win - 1}
    BY <2>5
  <2>. QED BY <2>1, <2>2, <2>6, <2>7 DEF T
<1>4. CASE p < Win - 1
  <2>1. WindowIdxs(p, 1, 0) = 0..p
    <3>1. Smaller(p + 1, Win) - 1 = p
      BY <1>0, <1>4 DEF Smaller
    <3>. QED BY <3>1, <1>0, <1>4 DEF WindowIdxs
  <2>2. Window(q, p) = {Kv(q, x) : x \in 0..p}
    BY <1>0, <1>4 DEF Window
  <2>3. ASSUME NEW i \in 0..p PROVE Fetch(T, i) = Kv(q, i)
    <3>1. i \in Nat /\ i < Win /\ p + 1 <= i + Win /\ i \in 0..Win - 1
      BY <1>0, <1>4
    <3>2. i % Win = i
      BY <3>1, <1>0, SmallResidue
    <3>3. c[i] = Kv(q, i)
      BY <3>1, <3>2, <1>1
    <3>4. Fetch(T, i) = c[i]
      BY <3>1, <1>2
    <3>. QED BY <3>3, <3>4
  <2>. QED BY <2>1, <2>2, <2>3 DEF T
<1>. QED BY <1>0, <1>3, <1>4

LEMMA PrefillWindow ==
    ASSUME NEW q, NEW n \in Nat \ {0}, NEW s \in 0..n - 1, NEW T,
           \A i \in 0..n - 1 : Fetch(T, i) = Kv(q, i)
    PROVE  {Fetch(T, i) : i \in WindowIdxs(0, n, s)} = Window(q, s)
<1> DEFINE first == IF s + 1 > Win THEN s + 1 - Win ELSE 0
<1>0. Win \in Nat \ {0} /\ 1 < Win
  BY Sizes
<1>1. WindowIdxs(0, n, s) = {i \in first..first + Smaller(n, Win) - 1 : i <= s}
  BY <1>0 DEF WindowIdxs
<1>2. first \in Nat /\ first <= s /\ first + Smaller(n, Win) - 1 >= s /\ Smaller(n, Win) \in Nat
  BY <1>0 DEF Smaller
<1>3. WindowIdxs(0, n, s) = first..s
  <2>1. s \in Nat /\ (first + Smaller(n, Win)) - 1 \in Int
    BY <1>2
  <2>. DEFINE last == first + Smaller(n, Win) - 1
  <2>2. last \in Int /\ s <= last
    BY <2>1, <1>2
  <2>. HIDE DEF first, last
  <2>3. {i \in first..last : i <= s} = first..s
    BY <2>1, <2>2, <1>2
  <2>. QED BY <2>3, <1>1 DEF last
<1>4. first..s \subseteq 0..n - 1
  <2>. HIDE DEF first
  <2>. QED BY <1>2
<1>5. Window(q, s) = {Kv(q, x) : x \in first..s}
  BY DEF Window
<1>. HIDE DEF first
<1>6. \A j \in first..s : Fetch(T, j) = Kv(q, j)
  BY <1>4
<1>. QED BY <1>3, <1>5, <1>6

Block(l, q, first) ==
    [at    |-> first,
     parts |-> ({"own"} \X ({q} \X Before(first + Ratio[l], Ratio[l])))
               \cup IF Overlap(l) THEN {"overlap"} \X ({q} \X Before(first, Ratio[l]))
                    ELSE {}]

LEMMA RowsOf ==
    ASSUME NEW q, NEW P
    PROVE  {q} \X P = {<<q, p>> : p \in P}
  OBVIOUS

LEMMA BlockMeaning ==
    ASSUME NEW l \in Layer, Ratio[l] > 0, NEW q, NEW g \in Nat, g < MaxSeqLen \div Ratio[l]
    PROVE  /\ PrefillBlock(l, q, g) = Block(l, q, g * Ratio[l])
           /\ PrefillBlock(l, q, g).at = g * Ratio[l]
<1> DEFINE R == Ratio[l]
           x == g * R
           rows(k) == {<<q, k * R + r>> : r \in 0..R - 1}
<1>1. R \in Nat \ {0} /\ MaxSeqLen \in Nat
  BY Sizes, LayerSizes
<1>2. x \in Nat /\ x + R <= MaxSeqLen
  BY <1>1, BlockFits, ProductFacts
<1>3. ASSUME NEW y \in Nat, y + R <= MaxSeqLen
      PROVE  {<<q, y + r>> : r \in 0..R - 1} = {q} \X Before(y + R, R)
  <2>. HIDE DEF R
  <2>1. Before(y + R, R) = y..y + R - 1
    BY <1>1, <1>3 DEF Before
  <2>2. \A z \in y..y + R - 1 : z - y \in 0..R - 1 /\ y + (z - y) = z
    BY <1>1
  <2>3. \A r \in 0..R - 1 : y + r \in y..y + R - 1
    BY <1>1
  <2>4. {<<q, y + r>> : r \in 0..R - 1} = {<<q, z>> : z \in y..y + R - 1}
    BY <2>2, <2>3
  <2>. QED BY <2>1, <2>4, RowsOf
<1>4. rows(g) = {q} \X Before(x + R, R)
  BY <1>2, <1>3
<1>8. PrefillBlock(l, q, g).at = g * R
  BY DEF PrefillBlock
<1>. SUFFICES PrefillBlock(l, q, g) = Block(l, q, x)
  BY <1>8
<1>5. CASE ~ Overlap(l)
  BY <1>4, <1>5 DEF PrefillBlock, Block
<1>6. CASE Overlap(l) /\ g = 0
  <2>1. x = 0
    BY <1>1, <1>6
  <2>2. Before(x, R) = {}
    <3>. HIDE DEF x, R
    <3>. QED BY <2>1, <1>1 DEF Before
  <2>3. {"overlap"} \X ({q} \X Before(x, R)) = {}
    BY <2>2
  <2>4. PrefillBlock(l, q, g) = [at |-> x, parts |-> {"own"} \X rows(g)]
    BY <1>6 DEF PrefillBlock
  <2>5. Block(l, q, x) = [at |-> x, parts |-> {"own"} \X ({q} \X Before(x + R, R))]
    BY <2>3, <1>6 DEF Block
  <2>. HIDE DEF x, rows
  <2>. QED BY <2>4, <2>5, <1>4
<1>7. CASE Overlap(l) /\ g > 0
  <2> DEFINE h == g - 1
             y == h * R
  <2>1. h \in Nat /\ g = h + 1
    BY <1>7
  <2>2. (h + 1) * R = y + R /\ y \in Nat
    <3>. HIDE DEF h
    <3>. QED BY <2>1, <1>1, ProductFacts
  <2>3. x = y + R
    <3>. HIDE DEF h, y
    <3>. QED BY <2>1, <2>2
  <2>4. rows(h) = {q} \X Before(x, R)
    <3>1. y + R <= MaxSeqLen
      <4>. HIDE DEF x, y, R
      <4>. QED BY <1>1, <1>2, <2>2, <2>3
    <3>2. rows(h) = {q} \X Before(y + R, R)
      <4>. HIDE DEF h
      <4>. QED BY <1>3, <2>2, <3>1
    <3>. QED BY <3>2, <2>3
  <2>5. PrefillBlock(l, q, g) = [at |-> x, parts |-> ({"own"} \X rows(g))
                                                   \cup ({"overlap"} \X rows(h))]
    BY <1>7 DEF PrefillBlock
  <2>6. Block(l, q, x) = [at |-> x, parts |-> ({"own"} \X ({q} \X Before(x + R, R)))
                                           \cup ({"overlap"} \X ({q} \X Before(x, R)))]
    BY <1>7 DEF Block
  <2>. HIDE DEF x, rows, h
  <2>. QED BY <2>4, <2>5, <2>6, <1>4
<1>. QED BY <1>5, <1>6, <1>7

\* The blocks a query at position p = start + s may see, and how many of them
\* it gets.
LEMMA ChosenBlocks ==
    ASSUME NEW l \in Layer, Ratio[l] > 0, NEW start \in Nat, NEW n \in Nat \ {0},
           NEW s \in 0..n - 1, start = 0 \/ n = 1,
           NEW chosen \in BlockChoices(l, start, n, s)
    PROVE  LET V == (start + s + 1) \div Ratio[l]
           IN  /\ V \in Nat /\ V <= (start + n) \div Ratio[l]
               /\ chosen \subseteq 0..V - 1
               /\ Cardinality(chosen) = IF Overlap(l) THEN Smaller(TopK, V) ELSE V
<1> DEFINE R == Ratio[l]
           p == start + s
           V == (p + 1) \div R
           W == (start + n) \div R
<1>1. R \in Nat \ {0} /\ TopK \in Nat /\ p \in Nat
  BY Sizes, LayerSizes
<1>2. p + 1 <= start + n /\ p + 1 \in Nat /\ start + n \in Nat
  OBVIOUS
<1>3. V \in Nat /\ W \in Nat /\ V <= W
  <2> DEFINE a == p + 1
             b == start + n
  <2>1. a \in Nat /\ b \in Nat /\ a <= b
    BY <1>2
  <2>. HIDE DEF a, b
  <2>2. a \div R \in Nat /\ b \div R \in Nat /\ a \div R <= b \div R
    BY <2>1, <1>1, DivMod, DivMonotone
  <2>. QED BY <2>2 DEF a, b
<1>4. UniformIdxs(l, start, n, s) = 0..V - 1
  <2>1. CASE start > 0
    <3>1. start + 1 = p + 1
      BY <2>1, <1>1
    <3>. QED BY <2>1, <3>1 DEF UniformIdxs
  <2>2. CASE start = 0
    <3>1. n \div R = W /\ (s + 1) \div R = V
      BY <2>2
    <3>2. UniformIdxs(l, start, n, s) = {t \in 0..W - 1 : t < V}
      BY <2>2, <3>1 DEF UniformIdxs
    <3>. HIDE DEF V, W
    <3>. QED BY <3>2, <1>3
  <2>. QED BY <2>1, <2>2
<1>5. (IF start > 0 THEN 0..((start + n) \div R) - 1 ELSE UniformIdxs(l, start, n, s)) = 0..V - 1
  <2>1. start > 0 => start + n = p + 1
    BY <1>1
  <2>. QED BY <2>1, <1>4
<1>6. IsFiniteSet(0..V - 1) /\ Cardinality(0..V - 1) = V
  <2>. HIDE DEF V
  <2> DEFINE b == V - 1
  <2>1. b \in Int /\ 0 \in Int /\ (IF 0 > b THEN 0 ELSE b - 0 + 1) = V
    BY <1>3
  <2>. HIDE DEF b
  <2>2. IsFiniteSet(0..b) /\ Cardinality(0..b) = IF 0 > b THEN 0 ELSE b - 0 + 1
    BY <2>1, FS_Interval
  <2>. QED BY <2>1, <2>2 DEF b
<1>7. CASE Overlap(l)
  <2>1. chosen \in {T \in SUBSET (0..V - 1) :
                        Cardinality(T) = Smaller(Smaller(TopK, W), V)}
    BY <1>5, <1>6, <1>7, <1>1 DEF BlockChoices, IndexerChoices
  <2>2. Smaller(Smaller(TopK, W), V) = Smaller(TopK, V)
    <3>. HIDE DEF V, W
    <3>. QED BY <1>1, <1>3 DEF Smaller
  <2>3. chosen \subseteq 0..V - 1 /\ Cardinality(chosen) = Smaller(TopK, V)
    BY <2>1, <2>2
  <2>. HIDE DEF V, W
  <2>. QED BY <2>3, <1>3, <1>7 DEF V, W
<1>8. CASE ~ Overlap(l)
  <2>1. chosen = 0..V - 1
    BY <1>1, <1>4, <1>8 DEF BlockChoices
  <2>. HIDE DEF V, W
  <2>. QED BY <2>1, <1>3, <1>6, <1>8 DEF V, W
<1>. QED BY <1>7, <1>8

Gathered(T, first, chosen) == {Fetch(T, first + g) : g \in chosen}

SeesBlocks(l, S, q, p) ==
    /\ S \subseteq {Block(l, q, g * Ratio[l]) : g \in 0..((p + 1) \div Ratio[l]) - 1}
    /\ Cardinality(S) = IF Overlap(l) THEN Smaller(TopK, (p + 1) \div Ratio[l])
                        ELSE (p + 1) \div Ratio[l]

LEMMA SeenBlocks ==
    ASSUME NEW l \in Layer, Ratio[l] > 0, NEW start \in Nat, NEW n \in Nat \ {0},
           NEW s \in 0..n - 1, start = 0 \/ n = 1, start + n <= MaxSeqLen,
           NEW chosen \in BlockChoices(l, start, n, s), NEW T, NEW o, NEW q,
           \A g \in 0..((start + n) \div Ratio[l]) - 1 : Fetch(T, o + g) = PrefillBlock(l, q, g)
    PROVE  SeesBlocks(l, Gathered(T, o, chosen), q, start + s)
<1> DEFINE R == Ratio[l]
           p == start + s
           V == (p + 1) \div R
           N == start + n
           b(g) == Fetch(T, o + g)
           seenSet == {b(g) : g \in chosen}
<1>1. /\ V \in Nat /\ V <= N \div R /\ chosen \subseteq 0..V - 1
      /\ Cardinality(chosen) = IF Overlap(l) THEN Smaller(TopK, V) ELSE V
  BY ChosenBlocks
<1>2. R \in Nat \ {0} /\ N \in Nat /\ MaxSeqLen \in Nat
  BY Sizes, LayerSizes
<1>3. N \div R <= MaxSeqLen \div R /\ N \div R \in Nat /\ MaxSeqLen \div R \in Nat
  <2>. HIDE DEF N
  <2>1. N <= MaxSeqLen
    BY DEF N
  <2>. QED BY <1>2, <2>1, DivMonotone, DivMod
<1>4. \A g \in 0..V - 1 : b(g) = PrefillBlock(l, q, g)
  <2>1. \A g \in 0..(N \div R) - 1 : b(g) = PrefillBlock(l, q, g)
    OBVIOUS
  <2>. HIDE DEF V, N, b
  <2>2. 0..V - 1 \subseteq 0..(N \div R) - 1
    BY <1>1, <1>3
  <2>. QED BY <2>1, <2>2
<1>. HIDE DEF V, N, b
<1>5. \A g \in 0..V - 1 : b(g) = Block(l, q, g * R) /\ b(g).at = g * R
  <2>1. \A g \in 0..V - 1 : g \in Nat /\ g < MaxSeqLen \div R
    BY <1>1, <1>3
  <2>. QED BY <2>1, <1>4, BlockMeaning
<1>6. seenSet \subseteq {Block(l, q, g * R) : g \in 0..V - 1}
  BY <1>1, <1>5
<1>7. \A g, h \in chosen : b(g) = b(h) => g = h
  <2>. SUFFICES ASSUME NEW g \in chosen, NEW h \in chosen, b(g) = b(h) PROVE g = h
    OBVIOUS
  <2>1. g \in Nat /\ h \in Nat /\ g * R = h * R
    BY <1>1, <1>5
  <2>. QED BY <2>1, <1>2, DistinctStarts
<1>8. [g \in chosen |-> b(g)] \in Bijection(chosen, seenSet)
  BY <1>7 DEF Bijection, Injection, Surjection, IsInjective
<1>9. IsFiniteSet(chosen)
  <2>1. IsFiniteSet(0..V - 1)
    BY <1>1, FS_Interval
  <2>. QED BY <2>1, <1>1, FS_Subset
<1>10. Cardinality(seenSet) = Cardinality(chosen)
  BY <1>8, <1>9, FS_Bijection DEF ExistsBijection
<1>. QED BY <1>1, <1>6, <1>10 DEF V, b, SeesBlocks, Gathered

(***************************************************************************)
(* Types.                                                                  *)
(***************************************************************************)
BlockTyped(b) == b.at \in 0..MaxSeqLen /\ b.parts \subseteq {"row", "own", "overlap"} \X Row

CacheTyped(l, c) == DOMAIN c = 0..TotalSize(l) - 1 /\ \A i \in DOMAIN c : BlockTyped(c[i])

StateTyped(l, st) == st \in [0..Depth(l) - 1 -> Row]

LEMMA RowIn ==
    ASSUME NEW q \in 1..MaxConversations, NEW p \in 0..MaxSeqLen - 1
    PROVE  <<q, p>> \in Row /\ BlockTyped(Kv(q, p))
<1>1. <<q, p>> \in Row
  BY DEF Row
<1>2. p \in 0..MaxSeqLen
  BY Sizes
<1>. QED BY <1>1, <1>2 DEF BlockTyped, Kv

LEMMA UpdatePrefillTyped ==
    ASSUME NEW l \in Layer, NEW q \in 1..MaxConversations, NEW n \in 1..MaxSeqLen,
           NEW c, CacheTyped(l, c)
    PROVE  CacheTyped(l, UpdatePrefill(c, q, n))
<1> DEFINE k == n % Win
           v(i) == IF i >= Win \/ (n <= Win /\ i >= n) THEN c[i]
                   ELSE IF n <= Win THEN Kv(q, i)
                   ELSE IF i >= k THEN Kv(q, n - Win + (i - k))
                   ELSE Kv(q, n - k + i)
<1>0. Win \in Nat \ {0} /\ MaxSeqLen \in Nat /\ n \in Nat /\ TotalSize(l) \in Nat
  BY Sizes, Columns
<1>1. k \in Nat /\ k < Win /\ n - k \in Nat
  BY <1>0, BlockStart
<1>2. UpdatePrefill(c, q, n) = [i \in DOMAIN c |-> v(i)]
  BY DEF UpdatePrefill
<1>3. ASSUME NEW i \in DOMAIN c PROVE BlockTyped(v(i))
  <2>. HIDE DEF k
  <2>0. i \in Nat
    BY <1>0 DEF CacheTyped
  <2>1. CASE i >= Win \/ (n <= Win /\ i >= n)
    BY <2>1 DEF CacheTyped
  <2>2. CASE ~ (i >= Win \/ (n <= Win /\ i >= n)) /\ n <= Win
    <3>1. i \in 0..MaxSeqLen - 1
      BY <1>0, <2>0, <2>2
    <3>. QED BY <2>2, <3>1, RowIn
  <2>3. CASE ~ (i >= Win) /\ ~ (n <= Win) /\ i >= k
    <3>1. n - Win + (i - k) \in 0..MaxSeqLen - 1
      BY <1>0, <1>1, <2>0, <2>3
    <3>. QED BY <2>3, <3>1, RowIn
  <2>4. CASE ~ (i >= Win) /\ ~ (n <= Win) /\ ~ (i >= k)
    <3>1. n - k + i \in 0..MaxSeqLen - 1
      BY <1>0, <1>1, <2>0, <2>4
    <3>. QED BY <2>4, <3>1, RowIn
  <2>. QED BY <2>1, <2>2, <2>3, <2>4
<1>. QED BY <1>2, <1>3 DEF CacheTyped

LEMMA UpdateDecodeTyped ==
    ASSUME NEW l \in Layer, NEW q \in 1..MaxConversations, NEW p \in Nat, NEW n \in Nat \ {0},
           p + n <= MaxSeqLen, NEW c, CacheTyped(l, c)
    PROVE  CacheTyped(l, UpdateDecode(c, q, p, n))
<1> DEFINE k == p % Win
           v(i) == IF i \in k..k + n - 1 THEN Kv(q, p + (i - k)) ELSE c[i]
<1>0. Win \in Nat \ {0} /\ MaxSeqLen \in Nat
  BY Sizes
<1>1. k \in Nat
  BY <1>0, DivMod
<1>2. UpdateDecode(c, q, p, n) = [i \in DOMAIN c |-> v(i)]
  BY DEF UpdateDecode
<1>3. ASSUME NEW i \in DOMAIN c PROVE BlockTyped(v(i))
  <2>. HIDE DEF k
  <2>1. CASE i \in k..k + n - 1
    <3>1. p + (i - k) \in 0..MaxSeqLen - 1
      BY <1>0, <1>1, <2>1
    <3>. QED BY <2>1, <3>1, RowIn
  <2>2. CASE i \notin k..k + n - 1
    BY <2>2 DEF CacheTyped
  <2>. QED BY <2>1, <2>2
<1>. QED BY <1>2, <1>3 DEF CacheTyped

LEMMA WriteTyped ==
    ASSUME NEW l \in Layer, NEW c, CacheTyped(l, c), NEW blocks,
           \A g \in DOMAIN blocks : BlockTyped(blocks[g]), NEW p
    PROVE  CacheTyped(l, WriteCompressed(l, c, blocks, p))
<1> DEFINE col == Win + IF p = 0 THEN 0 ELSE p \div Ratio[l]
<1>1. WriteCompressed(l, c, blocks, p) =
          [i \in DOMAIN c |-> IF i - col \in DOMAIN blocks THEN blocks[i - col] ELSE c[i]]
  BY DEF WriteCompressed
<1>. HIDE DEF col
<1>. QED BY <1>1 DEF CacheTyped

LEMMA PrefillBlocksTyped ==
    ASSUME NEW l \in Layer, Ratio[l] > 0, NEW q \in 1..MaxConversations,
           NEW n \in 1..MaxSeqLen, NEW g \in 0..(n \div Ratio[l]) - 1
    PROVE  BlockTyped(PrefillBlock(l, q, g))
<1> DEFINE R == Ratio[l]
           M == n \div R
           rows(k) == {<<q, k * R + r>> : r \in 0..R - 1}
<1>1. R \in Nat \ {0} /\ MaxSeqLen \in Nat /\ n \in Nat /\ n <= MaxSeqLen
  BY LayerSizes, Sizes
<1>2. M \in Nat
  BY <1>1, DivMod
<1>a. ASSUME NEW h \in Nat, h < M PROVE h * R \in Nat /\ h * R + R <= MaxSeqLen
  <2> DEFINE x == h * R
  <2>1. x \in Nat /\ x + R <= n
    BY <1>1, <1>a, BlockFits, ProductFacts
  <2>. HIDE DEF x, R
  <2>2. x \in Nat /\ x + R <= MaxSeqLen
    BY <1>1, <2>1
  <2>. QED BY <2>2 DEF x, R
<1>3. ASSUME NEW h \in Nat, h < M PROVE rows(h) \subseteq Row
  <2> DEFINE x == h * R
  <2>1. x \in Nat /\ x + R <= MaxSeqLen
    BY <1>3, <1>a
  <2>2. ASSUME NEW r \in 0..R - 1 PROVE <<q, x + r>> \in Row
    <3>. HIDE DEF x, R
    <3>1. x + r \in 0..MaxSeqLen - 1
      BY <1>1, <2>1
    <3>. QED BY <3>1, RowIn
  <2>. QED BY <2>2
<1>4. g \in Nat /\ g < M
  <2>. HIDE DEF M
  <2>1. g \in 0..M - 1
    BY DEF M
  <2>. QED BY <2>1, <1>2
<1>5. rows(g) \subseteq Row
  BY <1>3, <1>4
<1>6. g > 0 => rows(g - 1) \subseteq Row
  <2>. SUFFICES ASSUME g > 0 PROVE rows(g - 1) \subseteq Row
    OBVIOUS
  <2>1. g - 1 \in Nat /\ g - 1 < M
    <3>. HIDE DEF M
    <3>. QED BY <1>2, <1>4
  <2>. QED BY <2>1, <1>3
<1>7. g * R \in 0..MaxSeqLen
  <2> DEFINE x == g * R
  <2>1. x \in Nat /\ x + R <= MaxSeqLen
    BY <1>4, <1>a
  <2>. HIDE DEF x, R
  <2>2. x \in 0..MaxSeqLen
    BY <2>1, <1>1
  <2>. QED BY <2>2 DEF x, R
<1>8. /\ PrefillBlock(l, q, g).at = g * R
      /\ PrefillBlock(l, q, g).parts =
             ({"own"} \X rows(g))
             \cup IF Overlap(l) /\ g > 0 THEN {"overlap"} \X rows(g - 1) ELSE {}
  BY DEF PrefillBlock
<1>. HIDE DEF rows, R
<1>. QED BY <1>5, <1>6, <1>7, <1>8 DEF BlockTyped

LEMMA PrefillStateTyped ==
    ASSUME NEW l \in Layer, Ratio[l] > 0, NEW q \in 1..MaxConversations,
           NEW n \in 1..MaxSeqLen, NEW st, StateTyped(l, st)
    PROVE  StateTyped(l, PrefillState(l, st, q, n))
<1>. SUFFICES ASSUME ~ (n < Ratio[l]), l \notin GroupKernels
              PROVE  StateTyped(l, PrefillState(l, st, q, n))
  BY DEF PrefillState
<1> DEFINE R == Ratio[l]
           k == n % R
           c == n - k
           o == Base(l)
           v(i) == IF Overlap(l) /\ i < R THEN <<q, c - R + i>>
                   ELSE IF i \in o..o + k - 1 THEN <<q, c + (i - o)>> ELSE st[i]
<1>1. R \in Nat \ {0} /\ o \in Nat /\ Depth(l) = o + R /\ MaxSeqLen \in Nat /\ n \in Nat /\ n >= R
  BY LayerSizes, Sizes
<1>2. k \in Nat /\ k < R /\ c \in Nat /\ c >= R
  BY <1>1, BlockStart
<1>3. PrefillState(l, st, q, n) = [i \in DOMAIN st |-> v(i)]
  BY DEF PrefillState, Base
<1>4. c + k = n
  BY <1>1, <1>2
<1>. HIDE DEF R, k, c, o
<1>5. ASSUME NEW i \in 0..Depth(l) - 1 PROVE v(i) \in Row
  <2>1. CASE Overlap(l) /\ i < R
    <3>1. c - R + i \in 0..MaxSeqLen - 1
      BY <2>1, <1>1, <1>2, <1>4
    <3>. QED BY <2>1, <3>1, RowIn
  <2>2. CASE ~ (Overlap(l) /\ i < R) /\ i \in o..o + k - 1
    <3>1. c + (i - o) \in 0..MaxSeqLen - 1
      BY <2>2, <1>1, <1>2, <1>4
    <3>. QED BY <2>2, <3>1, RowIn
  <2>3. CASE ~ (Overlap(l) /\ i < R) /\ i \notin o..o + k - 1
    BY <2>3 DEF StateTyped
  <2>. QED BY <2>1, <2>2, <2>3
<1>6. DOMAIN st = 0..Depth(l) - 1
  BY DEF StateTyped
<1>. QED BY <1>3, <1>5, <1>6 DEF StateTyped

LEMMA DecodeStateTyped ==
    ASSUME NEW l \in Layer, Ratio[l] > 0, NEW q \in 1..MaxConversations,
           NEW p \in 0..MaxSeqLen - 1, NEW st, StateTyped(l, st)
    PROVE  StateTyped(l, Store(l, st, q, p)) /\ StateTyped(l, DecodeState(l, st, q, p))
<1> DEFINE S == Store(l, st, q, p)
<1>1. <<q, p>> \in Row
  BY RowIn
<1>2. StateTyped(l, S)
  BY <1>1 DEF StateTyped, Store
<1>3. Ratio[l] \in Nat \ {0} /\ (Overlap(l) => Depth(l) = Ratio[l] + Ratio[l])
  BY LayerSizes
<1>4. ASSUME NEW i \in 0..Depth(l) - 1, Overlap(l), i < Ratio[l]
      PROVE  Ratio[l] + i \in 0..Depth(l) - 1
  BY <1>3, <1>4
<1>5. DecodeState(l, st, q, p) =
          [i \in DOMAIN st |-> IF Completes(l, p) /\ Overlap(l) /\ i < Ratio[l]
                               THEN S[Ratio[l] + i] ELSE S[i]]
  BY DEF DecodeState
<1>6. DOMAIN st = 0..Depth(l) - 1
  BY DEF StateTyped
<1>. HIDE DEF S
<1>7. StateTyped(l, DecodeState(l, st, q, p))
  BY <1>2, <1>4, <1>5, <1>6 DEF StateTyped
<1>. QED BY <1>2, <1>7 DEF S

LEMMA DecodeBlocksTyped ==
    ASSUME NEW l \in Layer, Ratio[l] > 0, NEW q \in 1..MaxConversations,
           NEW p \in 0..MaxSeqLen - 1, NEW st, StateTyped(l, st),
           NEW g \in DOMAIN DecodeBlocks(l, st, q, p)
    PROVE  BlockTyped(DecodeBlocks(l, st, q, p)[g])
<1> DEFINE R == Ratio[l]
           S == Store(l, st, q, p)
           lower == {S[i] : i \in 0..R - 1} \ {None}
           upper == {S[i] : i \in R..Depth(l) - 1} \ {None}
           pooled == [at    |-> p + 1 - R,
                      parts |-> IF Overlap(l) THEN ({"overlap"} \X lower) \cup ({"own"} \X upper)
                                ELSE {"own"} \X lower]
<1>1. R \in Nat \ {0} /\ Depth(l) >= R /\ Depth(l) \in Nat /\ MaxSeqLen \in Nat
  BY LayerSizes, Sizes
<1>2. \A i \in 0..Depth(l) - 1 : S[i] \in Row
  <2>1. StateTyped(l, S)
    BY DecodeStateTyped
  <2>. QED BY <2>1 DEF StateTyped
<1>3. lower \subseteq Row /\ upper \subseteq Row
  <2>. HIDE DEF R, S
  <2>. QED BY <1>1, <1>2
<1>4. Completes(l, p)
  BY DEF DecodeBlocks, NoBlocks
<1>5. DecodeBlocks(l, st, q, p) = [h \in {0} |-> pooled]
  BY <1>4 DEF DecodeBlocks
<1>6. p + 1 - R \in 0..MaxSeqLen
  <2> DEFINE n == p + 1
  <2>1. n \in Nat \ {0} /\ n % R = 0 /\ n <= MaxSeqLen
    BY <1>1, <1>4 DEF Completes
  <2>. HIDE DEF n, R
  <2>2. ~ (n < R)
    BY <2>1, <1>1, SmallResidue
  <2>3. R <= n
    BY <1>1, <2>1, <2>2
  <2>4. n - R \in 0..MaxSeqLen
    BY <1>1, <2>1, <2>3
  <2>5. p + 1 - R = n - R
    BY <1>1 DEF n
  <2>. QED BY <2>4, <2>5
<1>. HIDE DEF lower, upper, R, S
<1>7. BlockTyped(pooled)
  <2>1. pooled.parts = IF Overlap(l) THEN ({"overlap"} \X lower) \cup ({"own"} \X upper)
                       ELSE {"own"} \X lower
    OBVIOUS
  <2>2. pooled.at = p + 1 - R
    OBVIOUS
  <2>. HIDE DEF pooled
  <2>. QED BY <2>1, <2>2, <1>3, <1>6 DEF BlockTyped
<1>. HIDE DEF pooled
<1>8. DOMAIN DecodeBlocks(l, st, q, p) = {0} /\ DecodeBlocks(l, st, q, p)[0] = pooled
  BY <1>5
<1>. QED BY <1>7, <1>8

(***************************************************************************)
(* The query that a layer's attention records.                             *)
(***************************************************************************)
LEMMA DecodeSees ==
    ASSUME NEW l \in Layer, NEW c, DOMAIN c = 0..TotalSize(l) - 1, NEW st, NEW q,
           NEW p \in Nat \ {0}, p + 1 <= MaxSeqLen, NEW known, known => Ratio[l] > 0,
           Memory(l, c, st, q, p + 1, known), NEW chosen \in BlockChoices(l, p, 1, 0)
    PROVE  /\ {Fetch(FullCache(c, p + 1), i) : i \in WindowIdxs(p, 1, 0)} = Window(q, p)
           /\ known /\ p >= Win =>
                  SeesBlocks(l, Gathered(FullCache(c, p + 1), Offset(p, 1), chosen), q, p)
<1> DEFINE T == FullCache(c, p + 1)
           N == p + 1
           M == MaxSeqLen \div Ratio[l]
<1>1. {Fetch(T, i) : i \in WindowIdxs(p, 1, 0)} = Window(q, p)
  BY DecodeWindow DEF Memory
<1>2. ASSUME known, p >= Win
      PROVE  SeesBlocks(l, Gathered(T, Offset(p, 1), chosen), q, p)
  <2>1. Ratio[l] > 0 /\ BlocksAre(l, c, q, N) /\ Offset(p, 1) = Win
    BY <1>2 DEF Memory, Offset
  <2>2. /\ Ratio[l] \in Nat \ {0} /\ TotalSize(l) = Win + M /\ M \in Nat
        /\ Win \in Nat /\ MaxSeqLen \in Nat /\ N \in Nat /\ N <= MaxSeqLen
    BY <2>1, Sizes, LayerSizes
  <2>3. N \div Ratio[l] \in Nat /\ N \div Ratio[l] <= M
    <3>. HIDE DEF N
    <3>. QED BY <2>2, DivMonotone, DivMod
  <2> DEFINE K == N \div Ratio[l]
  <2>4. \A g \in 0..K - 1 : c[Win + g] = PrefillBlock(l, q, g)
    BY <2>1 DEF BlocksAre
  <2>. HIDE DEF M, K
  <2>5. \A g \in 0..K - 1 : Win + g \in DOMAIN c
    BY <2>2, <2>3 DEF K
  <2>6. ~ (N <= Win)
    BY <2>2, <1>2
  <2>7. \A g \in 0..K - 1 : Fetch(T, Win + g) = PrefillBlock(l, q, g)
    BY <2>4, <2>5, <2>6 DEF Fetch, FullCache
  <2>8. \A g \in 0..((p + 1) \div Ratio[l]) - 1 : Fetch(T, Win + g) = PrefillBlock(l, q, g)
    BY <2>7 DEF K
  <2>9. p \in Nat /\ 1 \in Nat \ {0} /\ 0 \in 0..1 - 1 /\ p + 0 = p
    OBVIOUS
  <2>. HIDE DEF T, N, M, K
  <2>10. SeesBlocks(l, Gathered(T, Win, chosen), q, p + 0)
    BY <2>1, <2>8, <2>9, SeenBlocks
  <2>. QED BY <2>1, <2>9, <2>10
<1>. QED BY <1>1, <1>2

\* The tensor of a prefill: its rows and blocks, or what the cache holds.
PrefillTensor(l, c, q, n) ==
    IF Compresses(l, n)
    THEN [i \in 0..n + (n \div Ratio[l]) - 1 |->
             IF i < n THEN [j \in 0..n - 1 |-> Kv(q, j)][i] ELSE PrefillBlocks(l, q, n)[i - n]]
    ELSE FullCache(UpdatePrefill(c, q, n), n)

LEMMA PrefillSees ==
    ASSUME NEW l \in Layer, NEW c, DOMAIN c = 0..TotalSize(l) - 1, NEW q,
           NEW n \in 1..MaxSeqLen, Compresses(l, n) \/ n <= Win,
           NEW s \in 0..n - 1, NEW chosen \in BlockChoices(l, 0, n, s), NEW T,
           T = PrefillTensor(l, c, q, n)
    PROVE  /\ {Fetch(T, i) : i \in WindowIdxs(0, n, s)} = Window(q, s)
           /\ IF Ratio[l] = 0 THEN Gathered(T, Offset(0, n), chosen) = {}
              ELSE SeesBlocks(l, Gathered(T, Offset(0, n), chosen), q, s)
<1>0. /\ n \in Nat \ {0} /\ n <= MaxSeqLen /\ MaxSeqLen \in Nat /\ Win \in Nat \ {0}
      /\ Ratio[l] \in Nat /\ TotalSize(l) \in Nat /\ Win <= TotalSize(l)
  BY Sizes, Columns
<1>1. /\ \A i \in 0..n - 1 : Fetch(T, i) = Kv(q, i)
      /\ Ratio[l] > 0 =>
             \A g \in 0..(n \div Ratio[l]) - 1 : Fetch(T, n + g) = PrefillBlock(l, q, g)
  <2>1. CASE Compresses(l, n)
    <3> DEFINE N == n \div Ratio[l]
               bs == PrefillBlocks(l, q, n)
    <3>1. T = [i \in 0..n + (N - 1) |->
                  IF i < n THEN [j \in 0..n - 1 |-> Kv(q, j)][i] ELSE bs[i - n]]
      BY <2>1 DEF PrefillTensor
    <3>2. Ratio[l] \in Nat \ {0}
      BY <1>0, <2>1 DEF Compresses
    <3>3. N \in Nat
      BY <1>0, <3>2, DivMod
    <3>4. \A g \in 0..N - 1 : bs[g] = PrefillBlock(l, q, g)
      BY DEF PrefillBlocks
    <3>. HIDE DEF N, bs
    <3>5. ASSUME NEW i \in 0..n - 1 PROVE Fetch(T, i) = Kv(q, i)
      <4>1. i \in 0..n + (N - 1) /\ i < n
        BY <1>0, <3>3
      <4>. QED BY <4>1, <3>1 DEF Fetch
    <3>6. ASSUME NEW g \in 0..N - 1 PROVE Fetch(T, n + g) = PrefillBlock(l, q, g)
      <4>1. n + g \in 0..n + (N - 1) /\ ~ (n + g < n) /\ (n + g) - n = g
        BY <1>0, <3>3
      <4>2. n + g \in DOMAIN T /\ T[n + g] = bs[g]
        BY <4>1, <3>1
      <4>. QED BY <4>2, <3>4 DEF Fetch
    <3>. QED BY <3>5, <3>6 DEF N
  <2>2. CASE ~ Compresses(l, n)
    <3> DEFINE U == UpdatePrefill(c, q, n)
    <3>1. n <= Win /\ T = FullCache(U, n)
      BY <2>2 DEF PrefillTensor
    <3>2. ASSUME NEW i \in 0..n - 1 PROVE Fetch(T, i) = Kv(q, i)
      <4>1. i \in DOMAIN c /\ ~ (i >= Win) /\ ~ (n <= Win /\ i >= n) /\ i < n
        BY <1>0, <3>1
      <4>2. i \in DOMAIN U /\ U[i] = Kv(q, i)
        BY <4>1, <3>1 DEF UpdatePrefill
      <4>. HIDE DEF U
      <4>. QED BY <4>1, <4>2, <3>1 DEF Fetch, FullCache
    <3>3. ASSUME Ratio[l] > 0 PROVE 0..(n \div Ratio[l]) - 1 = {}
      <4>1. n < Ratio[l]
        BY <1>0, <2>2, <3>3 DEF Compresses
      <4>2. n \div Ratio[l] = 0
        BY <1>0, <4>1, <3>3, SmallResidue
      <4>. QED BY <4>2
    <3>. QED BY <3>2, <3>3
  <2>. QED BY <2>1, <2>2
<1>2. {Fetch(T, i) : i \in WindowIdxs(0, n, s)} = Window(q, s)
  BY <1>0, <1>1, PrefillWindow
<1>3. Offset(0, n) = n
  BY DEF Offset
<1>4. CASE Ratio[l] = 0
  <2>1. chosen = {}
    BY <1>4 DEF BlockChoices
  <2>2. Gathered(T, Offset(0, n), chosen) = {}
    BY <2>1 DEF Gathered
  <2>. QED BY <2>2, <1>2, <1>4
<1>5. CASE Ratio[l] # 0
  <2>1. Ratio[l] > 0 /\ 0 \in Nat /\ 0 + n = n /\ 0 + s = s
    BY <1>0, <1>5
  <2>2. \A g \in 0..((0 + n) \div Ratio[l]) - 1 : Fetch(T, n + g) = PrefillBlock(l, q, g)
    BY <1>1, <2>1
  <2>3. SeesBlocks(l, Gathered(T, n, chosen), q, 0 + s)
    BY <1>0, <2>1, <2>2, SeenBlocks
  <2>. QED BY <2>1, <2>3, <1>2, <1>3, <1>5
<1>. QED BY <1>4, <1>5

LEMMA Meaning ==
    ASSUME NEW l, NEW p, NEW W, NEW B,
           seen' = [layer |-> l, position |-> p, window |-> W, blocks |-> B]
    PROVE  /\ (seen.window = WindowAt(seen.position))' <=> W = Window(conversation', p)
           /\ BlocksRight(seen.layer, seen.position)' <=>
                  IF Ratio[l] = 0 THEN B = {} ELSE SeesBlocks(l, B, conversation', p)
<1>1. seen'.layer = l /\ seen'.position = p /\ seen'.window = W /\ seen'.blocks = B
  OBVIOUS
<1>2. (seen.window = WindowAt(seen.position))' <=> W = Window(conversation', p)
  BY <1>1 DEF WindowAt, Window
<1>3. \A first : BlockOf(l, first)' = Block(l, conversation', first)
  BY DEF BlockOf, Block
<1>4. BlocksRight(seen.layer, seen.position)' <=>
          IF Ratio[l] = 0 THEN B = {}
          ELSE /\ B \subseteq {BlockOf(l, g * Ratio[l])' : g \in 0..((p + 1) \div Ratio[l]) - 1}
               /\ Cardinality(B) = IF Overlap(l) THEN Smaller(TopK, (p + 1) \div Ratio[l])
                                   ELSE (p + 1) \div Ratio[l]
  BY <1>1 DEF BlocksRight, BlockOf
<1>. QED BY <1>2, <1>3, <1>4 DEF SeesBlocks

(***************************************************************************)
(* The parts of the invariant.                                             *)
(***************************************************************************)
Stored ==
    /\ DOMAIN cache = Layer /\ DOMAIN state = Layer
    /\ \A l \in Layer : CacheTyped(l, cache[l]) /\ StateTyped(l, state[l])
    /\ current \in [Layer -> 0..MaxSeqLen]

Control ==
    /\ call \in [start : 0..MaxSeqLen, len : 0..MaxSeqLen, layer : {0} \cup Layer]
    /\ conversation \in 1..MaxConversations
    /\ turns \in 0..2
    /\ prompt \in 0..MaxSeqLen /\ position \in 0..MaxSeqLen
    /\ generating \in BOOLEAN

Calls ==
    call # NoCall => /\ call.layer \in Layer /\ call.len > 0 /\ call.start = position
                     /\ call.start + call.len <= MaxSeqLen

Queries == DecodeWindowExact /\ PrefillExact /\ DecodeBlocksExact

LEMMA Parts ==
    /\ IInv <=> Stored /\ Control /\ Calls /\ FirstTurn /\ Queries
    /\ IInv' <=> (Stored /\ Control /\ Calls /\ FirstTurn /\ Queries)'
<1>1. TypeOK /\ Shaped <=> Stored /\ Control /\ Calls
  BY DEF TypeOK, Shaped, Stored, Control, Calls, CacheTyped, BlockTyped, StateTyped
<1>2. (TypeOK /\ Shaped)' <=> (Stored /\ Control /\ Calls)'
  BY DEF TypeOK, Shaped, Stored, Control, Calls, CacheTyped, BlockTyped, StateTyped
<1>. QED BY <1>1, <1>2 DEF IInv, Queries

LEMMA OtherTurn == turns' # 1 => Queries'
  BY DEF Queries, DecodeWindowExact, PrefillExact, DecodeBlocksExact

LEMMA NothingSeen == seen' = Nothing => Queries'
  BY DEF Queries, DecodeWindowExact, PrefillExact, DecodeBlocksExact, Decoded, Prefilled, Nothing

\* One layer's memory is replaced.
LEMMA Replaced ==
    ASSUME Stored, NEW l \in Layer, NEW c, NEW st, NEW k \in 0..MaxSeqLen,
           cache' = [cache EXCEPT ![l] = c],
           state' = [state EXCEPT ![l] = st] \/ (state' = state /\ st = state[l]),
           current' = [current EXCEPT ![l] = k],
           CacheTyped(l, c), StateTyped(l, st)
    PROVE  /\ Stored'
           /\ cache'[l] = c /\ state'[l] = st
           /\ \A m \in Layer \ {l} : cache'[m] = cache[m] /\ state'[m] = state[m]
<1>1. /\ DOMAIN cache' = Layer /\ DOMAIN state' = Layer
      /\ cache'[l] = c /\ state'[l] = st
      /\ \A m \in Layer \ {l} : cache'[m] = cache[m] /\ state'[m] = state[m]
  BY DEF Stored
<1>2. current' \in [Layer -> 0..MaxSeqLen]
  BY DEF Stored
<1>3. ASSUME NEW m \in Layer PROVE CacheTyped(m, cache'[m]) /\ StateTyped(m, state'[m])
  <2>1. CASE m = l
    BY <2>1, <1>1
  <2>2. CASE m # l
    BY <2>2, <1>1 DEF Stored
  <2>. QED BY <2>1, <2>2
<1>. QED BY <1>1, <1>2, <1>3 DEF Stored

LEMMA PrefilledTyped ==
    ASSUME NEW l \in Layer, NEW q \in 1..MaxConversations, NEW n \in 1..MaxSeqLen,
           NEW c, CacheTyped(l, c), NEW st, StateTyped(l, st)
    PROVE  /\ CacheTyped(l, PrefilledCache(l, c, q, n))
           /\ StateTyped(l, PrefilledState(l, st, q, n))
<1> DEFINE U == UpdatePrefill(c, q, n)
           bs == PrefillBlocks(l, q, n)
<1>1. CacheTyped(l, U)
  BY UpdatePrefillTyped
<1>2. CASE Compresses(l, n)
  <2>1. Ratio[l] > 0
    BY <1>2 DEF Compresses
  <2>2. \A g \in DOMAIN bs : BlockTyped(bs[g])
    BY <2>1, PrefillBlocksTyped DEF PrefillBlocks
  <2>3. StateTyped(l, PrefillState(l, st, q, n))
    BY <2>1, PrefillStateTyped
  <2>. HIDE DEF U, bs
  <2>4. CacheTyped(l, WriteCompressed(l, U, bs, 0))
    BY <1>1, <2>2, WriteTyped
  <2>. QED BY <1>2, <2>3, <2>4 DEF PrefilledCache, PrefilledState, U, bs
<1>3. CASE ~ Compresses(l, n)
  BY <1>1, <1>3 DEF PrefilledCache, PrefilledState
<1>. QED BY <1>2, <1>3

LEMMA DecodedTyped ==
    ASSUME NEW l \in Layer, NEW q \in 1..MaxConversations, NEW p \in Nat, NEW n \in Nat \ {0},
           p + n <= MaxSeqLen, NEW c, CacheTyped(l, c), NEW st, StateTyped(l, st)
    PROVE  /\ CacheTyped(l, DecodedCache(l, c, st, q, p, n))
           /\ StateTyped(l, DecodedState(l, st, q, p))
<1> DEFINE U == UpdateDecode(c, q, p, n)
           bs == DecodeBlocks(l, st, q, p)
<1>1. CacheTyped(l, U)
  BY UpdateDecodeTyped
<1>2. p \in 0..MaxSeqLen - 1
  BY Sizes
<1>3. CASE Ratio[l] > 0
  <2>1. \A g \in DOMAIN bs : BlockTyped(bs[g])
    BY <1>2, <1>3, DecodeBlocksTyped
  <2>2. StateTyped(l, DecodeState(l, st, q, p))
    BY <1>2, <1>3, DecodeStateTyped
  <2>. HIDE DEF U, bs
  <2>3. CacheTyped(l, WriteCompressed(l, U, bs, p))
    BY <1>1, <2>1, WriteTyped
  <2>. QED BY <1>3, <2>2, <2>3 DEF DecodedCache, DecodedState, U, bs
<1>4. CASE ~ (Ratio[l] > 0)
  BY <1>1, <1>4 DEF DecodedCache, DecodedState
<1>. QED BY <1>3, <1>4

(***************************************************************************)
(* The inductive invariant.                                                *)
(***************************************************************************)
LEMMA NoCallTyped ==
    NoCall \in [start : 0..MaxSeqLen, len : 0..MaxSeqLen, layer : {0} \cup Layer]
  BY Sizes DEF NoCall

LEMMA InitSound == Init => IInv
<1>. SUFFICES ASSUME Init PROVE IInv
  OBVIOUS
<1>0. /\ NumLayers \in Nat \ {0} /\ MaxSeqLen \in Nat \ {0} /\ MaxConversations \in Nat \ {0}
  BY Sizes
<1>1. Stored
  <2>1. BlockTyped(Empty) /\ None \in Row
    BY <1>0 DEF BlockTyped, Empty, Row
  <2>. QED BY <1>0, <2>1 DEF Init, Stored, CacheTyped, StateTyped
<1>2. Control /\ Calls
  <2>1. generating \in BOOLEAN /\ call = NoCall
    BY DEF Init
  <2>2. 1 \in 1..MaxConversations /\ 0 \in 0..MaxSeqLen /\ 0 \in 0..2
    BY <1>0
  <2>. QED BY <2>1, <2>2, NoCallTyped DEF Init, Control, Calls
<1>3. FirstTurn
  BY DEF Init, FirstTurn, Idle
<1>4. Queries
  BY DEF Init, Queries, DecodeWindowExact, PrefillExact, DecodeBlocksExact
<1>. QED BY <1>1, <1>2, <1>3, <1>4, Parts

LEMMA ClearSound ==
    ASSUME IInv, Clear
    PROVE  IInv'
<1>1. Stored /\ Control /\ Calls
  BY Parts
<1>2. /\ Idle /\ turns' = 0 /\ prompt' = 0 /\ position' = 0 /\ generating' = FALSE
      /\ conversation' = conversation + 1 /\ conversation < MaxConversations
      /\ UNCHANGED <<cache, current, state, call, seen>>
  BY DEF Clear
<1>3. Stored'
  BY <1>1, <1>2 DEF Stored
<1>4. Control'
  <2>1. conversation' \in 1..MaxConversations /\ 0 \in 0..MaxSeqLen /\ 0 \in 0..2
    BY <1>1, <1>2, Sizes DEF Control
  <2>2. generating' \in BOOLEAN
    BY <1>2
  <2>. QED BY <2>1, <2>2, <1>1, <1>2 DEF Control
<1>5. Calls'
  BY <1>2 DEF Calls, Idle
<1>6. FirstTurn'
  BY <1>2 DEF FirstTurn, Idle
<1>7. Queries'
  BY <1>2, OtherTurn
<1>. QED BY <1>3, <1>4, <1>5, <1>6, <1>7, Parts

LEMMA PromptSound ==
    ASSUME IInv, NEW n \in MinPrompt..MaxSeqLen, Prompt(n)
    PROVE  IInv'
<1>0. /\ NumLayers \in Nat \ {0} /\ MaxSeqLen \in Nat \ {0} /\ MinPrompt \in Nat \ {0}
  BY Sizes
<1>1. Stored /\ Control /\ FirstTurn
  BY Parts
<1>2. /\ Idle /\ turns < 2 /\ position + n <= MaxSeqLen
      /\ call' = [start |-> position, len |-> n, layer |-> 1] /\ seen' = Nothing
      /\ turns' = turns + 1 /\ generating' = TRUE
      /\ prompt' = IF turns = 0 THEN n ELSE prompt
      /\ UNCHANGED <<cache, current, state, conversation, position>>
  BY DEF Prompt, Forward
<1>3. /\ turns \in 0..2 /\ position \in 0..MaxSeqLen /\ prompt \in 0..MaxSeqLen
      /\ conversation \in 1..MaxConversations
  BY <1>1 DEF Control
<1>4. 1 \in Layer /\ 1..1 - 1 = {} /\ n \in 1..MaxSeqLen
  BY <1>0 DEF Layer
<1>5. Stored'
  BY <1>1, <1>2 DEF Stored
<1>6. Control'
  BY <1>0, <1>2, <1>3, <1>4 DEF Control
<1>7. Calls'
  BY <1>0, <1>2, <1>4 DEF Calls
<1>8. /\ turns = 0 => position = 0
      /\ turns > 0 => prompt > 0 /\ position >= prompt
  BY <1>1, <1>2 DEF FirstTurn
<1>9. /\ call'.start = position /\ call'.len = n /\ call'.layer = 1 /\ ~ Idle'
      /\ turns' > 0 /\ prompt' > 0
  BY <1>0, <1>2, <1>3, <1>8 DEF Idle, NoCall
<1>10. CASE turns = 0
  <2>1. turns' = 1 /\ call'.start = 0 /\ prompt' = n
    BY <1>2, <1>8, <1>9, <1>10
  <2>. QED BY <2>1, <1>4, <1>5, <1>6, <1>7, <1>2, <1>9, NothingSeen, Parts DEF FirstTurn
<1>11. CASE turns > 0
  <2>1. turns' # 1 /\ call'.start > 0 /\ call'.start >= prompt'
    BY <1>2, <1>3, <1>8, <1>9, <1>11
  <2>2. call'.start # 0
    BY <2>1
  <2>. QED BY <2>1, <2>2, <1>5, <1>6, <1>7, <1>2, <1>9, NothingSeen, Parts DEF FirstTurn
<1>. QED BY <1>3, <1>10, <1>11

LEMMA NextTokenSound ==
    ASSUME IInv, NextToken
    PROVE  IInv'
<1>0. /\ NumLayers \in Nat \ {0} /\ MaxSeqLen \in Nat \ {0}
  BY Sizes
<1>1. Stored /\ Control /\ FirstTurn
  BY Parts
<1>2. /\ Idle /\ generating /\ position < MaxSeqLen
      /\ call' = [start |-> position, len |-> 1, layer |-> 1] /\ seen' = Nothing
      /\ UNCHANGED <<cache, current, state, conversation, turns, prompt, position, generating>>
  BY DEF NextToken, Forward
<1>3. turns \in 0..2 /\ position \in 0..MaxSeqLen /\ prompt \in 0..MaxSeqLen
  BY <1>1 DEF Control
<1>4. 1 \in Layer /\ \A l \in Layer : ~ (l < 1)
  BY <1>0 DEF Layer
<1>5. Stored'
  BY <1>1, <1>2 DEF Stored
<1>6. Control'
  BY <1>0, <1>1, <1>2, <1>4 DEF Control
<1>7. Calls'
  BY <1>0, <1>2, <1>3, <1>4 DEF Calls
<1>8. turns > 0 /\ prompt > 0 /\ position >= prompt /\ (turns = 1 => \A l \in Layer : Holds(l, position))
  BY <1>1, <1>2, <1>3 DEF FirstTurn
<1>9. /\ call'.start = position /\ call'.len = 1 /\ call'.layer = 1 /\ ~ Idle'
      /\ call'.start > 0 /\ call'.start # 0
  BY <1>2, <1>3, <1>8 DEF Idle, NoCall
<1>10. turns = 1 => \A l \in Layer : Holds(l, IF l < call.layer THEN call.start + 1 ELSE call.start)'
  BY <1>2, <1>4, <1>8, <1>9 DEF Holds, Known
<1>11. FirstTurn'
  BY <1>2, <1>8, <1>9, <1>10 DEF FirstTurn
<1>. QED BY <1>2, <1>5, <1>6, <1>7, <1>11, NothingSeen, Parts

\* A row always fits: the tensor has at least a column for every slot.
LEMMA OneFits ==
    ASSUME NEW l \in Layer, NEW p \in Nat
    PROVE  DecodeFits(l, p, 1)
<1>1. Win \in Nat \ {0} /\ TotalSize(l) \in Nat /\ Win <= TotalSize(l)
  BY Sizes, Columns
<1>2. (p % Win) \in Nat /\ (p % Win) < Win
  BY <1>1, DivMod
<1> DEFINE k == p % Win
<1>. HIDE DEF k
<1>3. k \in Nat /\ k < Win => k + 1 <= TotalSize(l)
  BY <1>1
<1>. QED BY <1>2, <1>3 DEF DecodeFits, k

LEMMA DecodeFailsSound ==
    ASSUME IInv, DecodeFails
    PROVE  IInv'
<1>1. Stored /\ Control /\ Calls /\ FirstTurn
  BY Parts
<1>2. /\ call.start > 0 /\ ~ DecodeFits(call.layer, call.start, call.len)
      /\ call' = NoCall /\ generating' = FALSE
      /\ UNCHANGED <<cache, current, state, conversation, turns, prompt, position, seen>>
  BY DEF DecodeFails
<1>3. ~ Idle /\ call # NoCall /\ call.layer \in Layer /\ call.start = position
      /\ call.start \in Nat /\ call.start # 0
  BY <1>1, <1>2 DEF Idle, NoCall, Calls, Control
<1>4. turns \in 0..2 /\ turns # 0 /\ turns > 0 /\ prompt > 0 /\ position >= prompt
  BY <1>1, <1>2, <1>3 DEF FirstTurn, Control
<1>5. turns # 1
  BY <1>1, <1>2, <1>3, OneFits DEF FirstTurn
<1>6. Stored' /\ Queries'
  BY <1>1, <1>2, <1>5, OtherTurn DEF Stored
<1>7. Control'
  <2>1. generating' \in BOOLEAN
    BY <1>2
  <2>. QED BY <2>1, <1>1, <1>2, NoCallTyped DEF Control
<1>8. Calls'
  BY <1>2 DEF Calls
<1>9. FirstTurn'
  BY <1>2, <1>4, <1>5 DEF FirstTurn, Idle
<1>. QED BY <1>6, <1>7, <1>8, <1>9, Parts

LEMMA AttendedIs ==
    ASSUME NEW l, NEW T, Attended(l, T), NEW start, NEW n, start = call.start, n = call.len
    PROVE  \E s \in 0..n - 1 : \E chosen \in BlockChoices(l, start, n, s) :
               seen' = [layer    |-> l,
                        position |-> start + s,
                        window   |-> {Fetch(T, i) : i \in WindowIdxs(start, n, s)},
                        blocks   |-> Gathered(T, Offset(start, n), chosen)]
  BY DEF Attended, Gathered

LEMMA PrefillQuery ==
    ASSUME NEW l \in Layer, NEW c, DOMAIN c = 0..TotalSize(l) - 1, NEW n \in 1..MaxSeqLen,
           NEW q, q = conversation', call.start = 0, call.len = n, prompt' = n,
           NEW T, T = PrefillTensor(l, c, q, n), Attended(l, T)
    PROVE  Queries'
<1>1. PICK s \in 0..n - 1 : \E chosen \in BlockChoices(l, 0, n, s) :
          seen' = [layer    |-> l,
                   position |-> 0 + s,
                   window   |-> {Fetch(T, i) : i \in WindowIdxs(0, n, s)},
                   blocks   |-> Gathered(T, Offset(0, n), chosen)]
  BY AttendedIs
<1>2. PICK chosen \in BlockChoices(l, 0, n, s) :
          seen' = [layer    |-> l,
                   position |-> 0 + s,
                   window   |-> {Fetch(T, i) : i \in WindowIdxs(0, n, s)},
                   blocks   |-> Gathered(T, Offset(0, n), chosen)]
  BY <1>1
<1>a. s \in 0..n - 1 /\ 0 + s = s /\ s < n /\ chosen \in BlockChoices(l, 0, n, s)
  BY <1>1, <1>2
<1>3. PICK W, B : /\ W = {Fetch(T, i) : i \in WindowIdxs(0, n, s)}
                  /\ B = Gathered(T, Offset(0, n), chosen)
  OBVIOUS
<1>4. seen' = [layer |-> l, position |-> s, window |-> W, blocks |-> B]
  BY <1>2, <1>3, <1>a
<1>5. seen'.layer = l /\ seen'.position = s /\ ~ (s >= n)
  BY <1>4, <1>a
<1>6. ASSUME Compresses(l, n) \/ n <= Win
      PROVE  W = Window(q, s) /\ IF Ratio[l] = 0 THEN B = {} ELSE SeesBlocks(l, B, q, s)
  BY <1>3, <1>6, <1>a, PrefillSees
<1>7. ASSUME Compresses(l, n) \/ n <= Win
      PROVE  (seen.window = WindowAt(seen.position))' /\ BlocksRight(seen.layer, seen.position)'
  BY <1>4, <1>6, <1>7, Meaning
<1>8. PrefillExact'
  BY <1>5, <1>7 DEF PrefillExact, Compresses
<1>. QED BY <1>5, <1>8 DEF Queries, DecodeWindowExact, DecodeBlocksExact, Decoded

LEMMA DecodeQuery ==
    ASSUME NEW l \in Layer, NEW c, DOMAIN c = 0..TotalSize(l) - 1, NEW st,
           NEW p \in Nat \ {0}, p + 1 <= MaxSeqLen, NEW q, q = conversation',
           call.start = p, call.len = 1, prompt' <= p, prompt' \in Nat,
           NEW known, known => Ratio[l] > 0, Memory(l, c, st, q, p + 1, known),
           l \notin GroupKernels /\ Compresses(l, prompt') => known,
           NEW T, T = FullCache(c, p + 1), Attended(l, T)
    PROVE  Queries'
<1>1. PICK s \in 0..1 - 1 : \E chosen \in BlockChoices(l, p, 1, s) :
          seen' = [layer    |-> l,
                   position |-> p + s,
                   window   |-> {Fetch(T, i) : i \in WindowIdxs(p, 1, s)},
                   blocks   |-> Gathered(T, Offset(p, 1), chosen)]
  BY AttendedIs
<1>a. s = 0 /\ p + s = p /\ p \in Nat
  BY <1>1
<1>2. PICK chosen \in BlockChoices(l, p, 1, 0) :
          seen' = [layer    |-> l,
                   position |-> p,
                   window   |-> {Fetch(T, i) : i \in WindowIdxs(p, 1, 0)},
                   blocks   |-> Gathered(T, Offset(p, 1), chosen)]
  BY <1>1, <1>a
<1>3. PICK W, B : /\ W = {Fetch(T, i) : i \in WindowIdxs(p, 1, 0)}
                  /\ B = Gathered(T, Offset(p, 1), chosen)
  OBVIOUS
<1>4. seen' = [layer |-> l, position |-> p, window |-> W, blocks |-> B]
  BY <1>2, <1>3
<1>5. seen'.layer = l /\ seen'.position = p /\ ~ (p < prompt')
  BY <1>4, <1>a
<1>6. W = Window(q, p) /\ (known /\ p >= Win => SeesBlocks(l, B, q, p))
  BY <1>3, DecodeSees
<1>7. (seen.window = WindowAt(seen.position))'
  BY <1>4, <1>6, Meaning
<1>8. ASSUME known, p >= Win PROVE BlocksRight(seen.layer, seen.position)'
  <2>1. Ratio[l] # 0
    BY <1>8, Sizes
  <2>. QED BY <1>4, <1>6, <1>8, <2>1, Meaning
<1>9. DecodeBlocksExact'
  BY <1>5, <1>8 DEF DecodeBlocksExact, Compresses
<1>. QED BY <1>5, <1>7, <1>9 DEF Queries, DecodeWindowExact, PrefillExact, Prefilled

LEMMA PrefillLayerSound ==
    ASSUME IInv, PrefillLayer
    PROVE  IInv'
<1> DEFINE l == call.layer
           n == call.len
           q == conversation
           c == PrefilledCache(l, cache[l], q, n)
           st == PrefilledState(l, state[l], q, n)
           T == PrefillTensor(l, cache[l], q, n)
<1>0. NumLayers \in Nat \ {0} /\ MaxSeqLen \in Nat \ {0}
  BY Sizes
<1>1. Stored /\ Control /\ Calls /\ FirstTurn
  BY Parts
<1>2. /\ call # NoCall /\ call.start = 0
      /\ turns' = turns /\ prompt' = prompt /\ generating' = generating /\ conversation' = q
      /\ current' = [current EXCEPT ![l] = n] /\ Finish
  BY DEF PrefillLayer, Idle
<1>3. /\ l \in Layer /\ position = 0 /\ turns = 1 /\ n = prompt /\ n \in 1..MaxSeqLen
      /\ q \in 1..MaxConversations
      /\ \A m \in 1..l - 1 : Holds(m, n)
  <2>1. l \in Layer /\ position = 0 /\ turns = 1 /\ n = prompt /\ n > 0
    BY <1>1, <1>2 DEF Calls, FirstTurn
  <2>2. n \in 0..MaxSeqLen /\ q \in 1..MaxConversations
    BY <1>1 DEF Control
  <2>. QED BY <2>1, <2>2, <1>0, <1>1, <1>2 DEF FirstTurn
<1>4. /\ CacheTyped(l, cache[l]) /\ StateTyped(l, state[l])
      /\ DOMAIN cache[l] = 0..TotalSize(l) - 1 /\ DOMAIN state[l] = 0..Depth(l) - 1
      /\ DOMAIN current = Layer /\ DOMAIN state = Layer
  BY <1>1, <1>3 DEF Stored, CacheTyped, StateTyped
<1>5. current'[l] = n
  BY <1>2, <1>3, <1>4
<1>6. /\ cache' = [cache EXCEPT ![l] = c] /\ Attended(l, T)
      /\ state' = [state EXCEPT ![l] = st] \/ (state' = state /\ st = state[l])
  <2>1. CASE Compresses(l, n)
    BY <2>1 DEF PrefillLayer, PrefilledCache, PrefilledState, PrefillTensor
  <2>2. CASE ~ Compresses(l, n)
    <3>1. state' = state /\ st = state[l]
      <4>1. UNCHANGED state
        BY <2>2 DEF PrefillLayer
      <4>. QED BY <4>1, <2>2 DEF PrefilledState
    <3>3. cache' = [cache EXCEPT ![l] = c]
      BY <2>2 DEF PrefillLayer, PrefilledCache
    <3>4. Attended(l, FullCache(UpdatePrefill(cache[l], q, n), current'[l]))
      BY <2>2 DEF PrefillLayer
    <3>5. Attended(l, T)
      BY <2>2, <3>4, <1>5 DEF PrefillTensor
    <3>. QED BY <3>1, <3>3, <3>5
  <2>. QED BY <2>1, <2>2
<1>. HIDE DEF l, n, q, c, st, T
<1>7. CacheTyped(l, c) /\ StateTyped(l, st)
  BY <1>3, <1>4, PrefilledTyped DEF c, st
<1>8. /\ Stored'
      /\ cache'[l] = c /\ state'[l] = st
      /\ \A m \in Layer \ {l} : cache'[m] = cache[m] /\ state'[m] = state[m]
  <2>1. n \in 0..MaxSeqLen
    BY <1>0, <1>3
  <2>. QED BY <2>1, <1>1, <1>2, <1>3, <1>6, <1>7, Replaced
<1>9. Memory(l, cache'[l], state'[l], q, n, Known(l))
  <2>1. Known(l) => l \notin GroupKernels /\ Compresses(l, n)
    BY <1>3 DEF Known
  <2>. QED BY <2>1, <1>3, <1>4, <1>8, PrefillFills DEF c, st
<1>a. conversation' = q /\ \A m : Known(m)' = Known(m)
  BY <1>2 DEF Known
<1>10. \A m \in 1..l : Memory(m, cache'[m], state'[m], conversation', n, Known(m)')
  <2>. SUFFICES ASSUME NEW m \in 1..l
                PROVE  Memory(m, cache'[m], state'[m], q, n, Known(m))
    BY <1>a
  <2>1. CASE m = l
    BY <2>1, <1>9
  <2>2. CASE m # l
    <3>1. m \in 1..l - 1 /\ m \in Layer \ {l}
      BY <2>2, <1>0, <1>3 DEF Layer
    <3>2. Memory(m, cache[m], state[m], q, n, Known(m))
      BY <3>1, <1>3 DEF Holds, q
    <3>. QED BY <3>1, <3>2, <1>8
  <2>. QED BY <2>1, <2>2
<1>11. Queries'
  <2>1. call.start = 0 /\ call.len = n /\ prompt' = n /\ q = conversation'
    BY <1>2, <1>3 DEF n
  <2>. QED BY <2>1, <1>3, <1>4, <1>6, PrefillQuery DEF T
<1>12. CASE l < NumLayers
  <2>1. call' = [call EXCEPT !.layer = l + 1] /\ position' = position
    BY <1>2, <1>12 DEF Finish, l
  <2>2. l + 1 \in Layer /\ (l + 1) - 1 = l
    BY <1>0, <1>3, <1>12 DEF Layer
  <2>3. /\ call'.start = 0 /\ call'.len = n /\ call'.layer = l + 1 /\ Control'
    BY <2>1, <2>2, <1>1, <1>2, <1>3 DEF Control, n
  <2>4. call' # NoCall /\ ~ Idle'
    BY <2>3, <1>0, <1>3 DEF NoCall, Idle
  <2>5. Calls'
    BY <2>1, <2>2, <2>3, <1>0, <1>3 DEF Calls
  <2>6. prompt > 0 /\ prompt' = n /\ turns' = 1 /\ ~ (call'.start > 0)
    BY <2>3, <1>0, <1>2, <1>3
  <2>7. \A m \in 1..call'.layer - 1 :
            Memory(m, cache'[m], state'[m], conversation', prompt', Known(m)')
    BY <2>2, <2>3, <2>6, <1>10
  <2>8. FirstTurn'
    BY <2>3, <2>4, <2>6, <2>7, <1>2, <1>3 DEF FirstTurn, Holds
  <2>. QED BY <2>3, <2>5, <2>8, <1>8, <1>11, Parts
<1>13. CASE ~ (l < NumLayers)
  <2>1. call' = NoCall /\ position' = n
    BY <1>0, <1>2, <1>3, <1>13 DEF Finish, l, n
  <2>2. Layer = 1..l
    BY <1>0, <1>3, <1>13 DEF Layer
  <2>3. Control' /\ Calls'
    <3>1. n \in 0..MaxSeqLen
      BY <1>0, <1>3
    <3>. QED BY <3>1, <2>1, <1>1, <1>2, NoCallTyped DEF Control, Calls, q
  <2>4. \A m \in Layer : Memory(m, cache'[m], state'[m], conversation', position', Known(m)')
    BY <2>1, <2>2, <1>10
  <2>5. prompt' > 0 /\ position' >= prompt' /\ turns' = 1
    BY <2>1, <1>0, <1>2, <1>3
  <2>6. FirstTurn'
    BY <2>1, <2>4, <2>5 DEF FirstTurn, Idle, Holds
  <2>. QED BY <2>3, <2>6, <1>8, <1>11, Parts
<1>. QED BY <1>12, <1>13

LEMMA DecodeLayerSound ==
    ASSUME IInv, DecodeLayer
    PROVE  IInv'
<1> DEFINE l == call.layer
           n == call.len
           p == call.start
           q == conversation
           c == DecodedCache(l, cache[l], state[l], q, p, n)
           st == DecodedState(l, state[l], q, p)
<1>0. NumLayers \in Nat \ {0} /\ MaxSeqLen \in Nat \ {0} /\ \A m \in Layer : Ratio[m] \in Nat
  BY Sizes
<1>1. Stored /\ Control /\ Calls /\ FirstTurn
  BY Parts
<1>2. /\ p > 0
      /\ turns' = turns /\ prompt' = prompt /\ generating' = generating /\ conversation' = q
      /\ current' = [current EXCEPT ![l] = p + 1] /\ Finish
      /\ Attended(l, FullCache(cache'[l], current'[l]))
  BY DEF DecodeLayer
<1>3. /\ l \in Layer /\ p = position /\ p \in Nat \ {0} /\ n \in Nat \ {0} /\ p + n <= MaxSeqLen
      /\ p + 1 <= MaxSeqLen /\ p + 1 \in 0..MaxSeqLen /\ p \in 0..MaxSeqLen - 1
      /\ q \in 1..MaxConversations /\ prompt \in 0..MaxSeqLen
      /\ turns \in 0..2 /\ turns > 0 /\ prompt > 0 /\ p >= prompt /\ call # NoCall
  <2>1. call # NoCall
    BY <1>2 DEF NoCall
  <2>2. /\ l \in Layer /\ p = position /\ p \in 0..MaxSeqLen /\ n \in 0..MaxSeqLen /\ n > 0
        /\ p + n <= MaxSeqLen /\ q \in 1..MaxConversations /\ prompt \in 0..MaxSeqLen
        /\ turns \in 0..2
    BY <2>1, <1>1 DEF Calls, Control
  <2>3. turns # 0
    BY <2>1, <1>1 DEF FirstTurn, Idle
  <2>4. turns > 0 /\ prompt > 0 /\ p >= prompt
    BY <2>1, <2>2, <2>3, <1>1, <1>2 DEF FirstTurn
  <2>. HIDE DEF p, n
  <2>5. /\ p \in Nat \ {0} /\ n \in Nat \ {0} /\ p + 1 <= MaxSeqLen /\ p + 1 \in 0..MaxSeqLen
        /\ p \in 0..MaxSeqLen - 1
    BY <2>2, <1>0, <1>2
  <2>. QED BY <2>1, <2>2, <2>4, <2>5
<1>4. /\ CacheTyped(l, cache[l]) /\ StateTyped(l, state[l])
      /\ DOMAIN cache[l] = 0..TotalSize(l) - 1 /\ DOMAIN state[l] = 0..Depth(l) - 1
      /\ DOMAIN current = Layer /\ DOMAIN state = Layer
  BY <1>1, <1>3 DEF Stored, CacheTyped, StateTyped
<1>5. /\ cache' = [cache EXCEPT ![l] = c]
      /\ state' = [state EXCEPT ![l] = st] \/ (state' = state /\ st = state[l])
  <2>1. CASE Ratio[l] > 0
    BY <2>1 DEF DecodeLayer, DecodedCache, DecodedState
  <2>2. CASE ~ (Ratio[l] > 0)
    <3>1. state' = state /\ st = state[l]
      <4>1. UNCHANGED state
        BY <2>2 DEF DecodeLayer
      <4>. QED BY <4>1, <2>2 DEF DecodedState
    <3>3. cache' = [cache EXCEPT ![l] = c]
      BY <2>2 DEF DecodeLayer, DecodedCache
    <3>. QED BY <3>1, <3>3
  <2>. QED BY <2>1, <2>2
<1>6. current'[l] = p + 1
  BY <1>2, <1>3, <1>4
<1>. HIDE DEF l, n, p, q, c, st
<1>7. CacheTyped(l, c) /\ StateTyped(l, st)
  <2>1. p \in Nat
    BY <1>3
  <2>. QED BY <2>1, <1>3, <1>4, DecodedTyped DEF c, st
<1>8. /\ Stored'
      /\ cache'[l] = c /\ state'[l] = st
      /\ \A m \in Layer \ {l} : cache'[m] = cache[m] /\ state'[m] = state[m]
  BY <1>1, <1>2, <1>3, <1>5, <1>7, Replaced
<1>9. turns = 1 => n = 1 /\ \A m \in Layer : Holds(m, IF m < l THEN p + 1 ELSE p)
  BY <1>1, <1>2, <1>3 DEF FirstTurn, l, n, p
<1>10. ASSUME turns = 1 PROVE Memory(l, cache'[l], state'[l], q, p + 1, Known(l))
  <2>1. ~ (l < l)
    BY <1>3 DEF Layer
  <2>2. Memory(l, cache[l], state[l], q, p, Known(l))
    BY <2>1, <1>3, <1>9, <1>10 DEF Holds, q
  <2>3. Known(l) => Ratio[l] > 0 /\ p >= Ratio[l]
    BY <1>0, <1>3 DEF Known, Compresses
  <2>4. c = DecodedCache(l, cache[l], state[l], q, p, 1) /\ q \in Nat \ {0}
    BY <1>3, <1>9, <1>10 DEF c
  <2>. QED BY <2>2, <2>3, <2>4, <1>3, <1>4, <1>8, DecodeFills DEF st
<1>11. ASSUME turns = 1
       PROVE  \A m \in Layer : Memory(m, cache'[m], state'[m], conversation',
                                       IF m < l + 1 THEN p + 1 ELSE p, Known(m)')
  <2>1. \A m \in Layer : Memory(m, cache'[m], state'[m], q, IF m < l + 1 THEN p + 1 ELSE p, Known(m))
    <3>. SUFFICES ASSUME NEW m \in Layer
                  PROVE  Memory(m, cache'[m], state'[m], q, IF m < l + 1 THEN p + 1 ELSE p, Known(m))
      OBVIOUS
    <3>1. CASE m = l
      <4>1. m < l + 1
        BY <3>1, <1>3 DEF Layer
      <4>. QED BY <3>1, <4>1, <1>10, <1>11
    <3>2. CASE m # l
      <4>1. (m < l + 1) = (m < l)
        BY <3>2, <1>3 DEF Layer
      <4>2. Memory(m, cache[m], state[m], q, IF m < l THEN p + 1 ELSE p, Known(m))
        BY <1>9, <1>11 DEF Holds, q
      <4>. QED BY <4>1, <4>2, <3>2, <1>8
    <3>. QED BY <3>1, <3>2
  <2>2. conversation' = q /\ \A m : Known(m)' = Known(m)
    BY <1>2 DEF Known
  <2>. QED BY <2>1, <2>2
<1>12. Queries'
  <2>1. CASE turns = 1
    <3>1. /\ call.start = p /\ call.len = 1 /\ q = conversation' /\ prompt' <= p /\ prompt' \in Nat
          /\ p + 1 <= MaxSeqLen
      BY <2>1, <1>2, <1>3, <1>9 DEF p, n
    <3>2. /\ Known(l) => Ratio[l] > 0
          /\ l \notin GroupKernels /\ Compresses(l, prompt') => Known(l)
      BY <1>2 DEF Known, Compresses
    <3>3. PICK C, S : C = cache'[l] /\ S = state'[l]
      OBVIOUS
    <3>4. Memory(l, C, S, q, p + 1, Known(l)) /\ DOMAIN C = 0..TotalSize(l) - 1
      BY <3>3, <2>1, <1>7, <1>8, <1>10 DEF CacheTyped
    <3>5. Attended(l, FullCache(C, p + 1))
      BY <3>3, <1>2, <1>6
    <3>. QED BY <3>1, <3>2, <3>4, <3>5, <1>3, DecodeQuery
  <2>2. CASE turns # 1
    BY <2>2, <1>2, OtherTurn
  <2>. QED BY <2>1, <2>2
<1>13. CASE l < NumLayers
  <2>1. call' = [call EXCEPT !.layer = l + 1] /\ position' = position
    BY <1>2, <1>13 DEF Finish, l
  <2>2. l + 1 \in Layer
    BY <1>0, <1>3, <1>13 DEF Layer
  <2>3. /\ call'.start = p /\ call'.len = n /\ call'.layer = l + 1 /\ Control'
    BY <2>1, <2>2, <1>1, <1>2, <1>3 DEF Control, n, p, q
  <2>4. call' # NoCall /\ ~ Idle' /\ call'.start # 0
    BY <2>3, <1>3 DEF NoCall, Idle
  <2>5. Calls'
    BY <2>1, <2>2, <2>3, <1>0, <1>3 DEF Calls
  <2>6. turns = 1 =>
            /\ call'.len = 1
            /\ \A m \in Layer : Memory(m, cache'[m], state'[m], conversation',
                                      IF m < call'.layer THEN call'.start + 1 ELSE call'.start,
                                      Known(m)')
    BY <2>3, <1>9, <1>11
  <2>7. FirstTurn'
    BY <2>3, <2>4, <2>6, <1>2, <1>3 DEF FirstTurn, Holds
  <2>. QED BY <2>3, <2>5, <2>7, <1>8, <1>12, Parts
<1>14. CASE ~ (l < NumLayers)
  <2>1. call' = NoCall /\ position' = p + n
    BY <1>2, <1>3, <1>14 DEF Finish, l, p, n
  <2>2. \A m \in Layer : m < l + 1
    BY <1>0, <1>3, <1>14 DEF Layer
  <2>3. Control' /\ Calls'
    <3>1. p + n \in 0..MaxSeqLen
      BY <1>0, <1>3
    <3>. QED BY <3>1, <2>1, <1>1, <1>2, NoCallTyped DEF Control, Calls, q
  <2>4. turns = 1 =>
            \A m \in Layer : Memory(m, cache'[m], state'[m], conversation', position', Known(m)')
    BY <2>1, <2>2, <1>9, <1>11
  <2>5. prompt' > 0 /\ position' >= prompt' /\ turns' > 0 /\ turns' # 0
    BY <2>1, <1>0, <1>2, <1>3
  <2>6. FirstTurn'
    BY <2>1, <2>4, <2>5, <1>2 DEF FirstTurn, Idle, Holds
  <2>. QED BY <2>3, <2>6, <1>8, <1>12, Parts
<1>. QED BY <1>13, <1>14

LEMMA InvariantHolds == Spec => []IInv
<1>1. Init => IInv
  BY InitSound
<1>2. IInv /\ [Next]_vars => IInv'
  <2>. SUFFICES ASSUME IInv, [Next]_vars PROVE IInv'
    OBVIOUS
  <2>1. CASE Clear
    BY <2>1, ClearSound
  <2>2. ASSUME NEW n \in MinPrompt..MaxSeqLen, Prompt(n) PROVE IInv'
    BY <2>2, PromptSound
  <2>3. CASE NextToken
    BY <2>3, NextTokenSound
  <2>4. CASE PrefillLayer
    BY <2>4, PrefillLayerSound
  <2>5. CASE DecodeLayer
    BY <2>5, DecodeLayerSound
  <2>6. CASE DecodeFails
    BY <2>6, DecodeFailsSound
  <2>7. CASE UNCHANGED vars
    <3>1. Stored /\ Control /\ Calls /\ FirstTurn /\ Queries
      BY Parts
    <3>2. Stored' /\ Control' /\ Calls'
      BY <3>1, <2>7 DEF Stored, Control, Calls, vars
    <3>3. FirstTurn'
      BY <3>1, <2>7 DEF FirstTurn, Holds, Known, Idle, vars
    <3>4. Queries'
      BY <3>1, <2>7 DEF Queries, DecodeWindowExact, PrefillExact, DecodeBlocksExact, Decoded,
                        Prefilled, WindowAt, BlocksRight, BlockOf, vars
    <3>. QED BY <3>2, <3>3, <3>4, Parts
  <2>. QED BY <2>1, <2>2, <2>3, <2>4, <2>5, <2>6, <2>7 DEF Next
<1>. QED BY <1>1, <1>2, PTL DEF Spec

(***************************************************************************)
(* The theorems.                                                           *)
(***************************************************************************)

\* The cache keeps its columns, which name rows of real positions; the call, the
\* counters and the positions stay in range.
THEOREM TypeCorrect == Spec => []TypeOK
<1>1. IInv => TypeOK
  BY DEF IInv
<1>. QED BY <1>1, InvariantHolds, PTL

\* A decoded token of a first turn gathers exactly the Win latest rows of its
\* own conversation, whatever the conversation before left in the ring.
THEOREM DecodeWindowIsExact == Spec => []DecodeWindowExact
<1>1. IInv => DecodeWindowExact
  BY DEF IInv
<1>. QED BY <1>1, InvariantHolds, PTL

\* A query of a first prompt gathers its causal window and complete blocks, when
\* the prompt fits the window or the layer returns blocks.
THEOREM PrefillIsExact == Spec => []PrefillExact
<1>1. IInv => PrefillExact
  BY DEF IInv
<1>. QED BY <1>1, InvariantHolds, PTL

\* Once the window has filled, a decoded token of a first turn gathers the blocks
\* that the prefill and the steps before it pooled, at the columns of the cache
\* where they were written.
THEOREM DecodeBlocksAreExact == Spec => []DecodeBlocksExact
<1>1. IInv => DecodeBlocksExact
  BY DEF IInv
<1>. QED BY <1>1, InvariantHolds, PTL

=============================================================================
