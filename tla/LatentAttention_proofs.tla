------------------------- MODULE LatentAttention_proofs ------------------------
(***************************************************************************)
(* Proofs about LatentAttention for any window, ratios, sequence length    *)
(* and number of layers and requests: a query attends to exactly its own   *)
(* context, and decoding leaves the memory a prefill would have left.      *)
(***************************************************************************)
EXTENDS LatentAttention, DataFacts_proofs

(***************************************************************************)
(* What the buffers hold when the first n positions of sequence q have     *)
(* gone through a layer: the inductive invariant is made of these.         *)
(***************************************************************************)
RingIs(r, q, n) ==
    \A p \in 0..n - 1 : n <= p + Win => r[p % Win] = <<q, p>>

BlocksAre(l, bs, q, n) ==
    \A g \in 0..(n \div Ratio[l]) - 1 : bs[g] = PrefillBlock(l, q, g)

Offset(l) == IF Overlap(l) THEN Ratio[l] ELSE 0

PendingIs(l, st, q, n) ==
    /\ \A i \in 0..(n % Ratio[l]) - 1 :
           st[Offset(l) + i] = <<q, (n - (n % Ratio[l])) + i>>
    /\ Overlap(l) /\ n >= Ratio[l] =>
           \A i \in 0..Ratio[l] - 1 : st[i] = <<q, (n - (n % Ratio[l])) - Ratio[l] + i>>

Memory(l, r, bs, st, q, n) ==
    /\ RingIs(r, q, n)
    /\ Ratio[l] > 0 => BlocksAre(l, bs, q, n) /\ PendingIs(l, st, q, n)

Holds(l, n) == Memory(l, ring[l], blocks[l], pending[l], sequence, n)

\* A forward in progress has gone through the layers before call.layer.
Progress ==
    /\ call.kind \in {"none", "warmup", "prompt", "token"}
    /\ call.kind = "none" => Idle
    /\ call.kind # "none" => call.layer \in Layer /\ sequence \in 1..MaxSequences
    /\ prevPos > 0 => prevPos >= OverlapRatio /\ sequence \in 1..MaxSequences
    /\ Idle /\ prevPos > 0 => \A l \in Layer : Holds(l, prevPos)
    /\ call.kind = "warmup" => call.start = 0 /\ call.len = WarmupLen /\ prevPos = 0
    /\ call.kind = "prompt" => call.start = 0 /\ call.len \in MinPrompt..MaxSeqLen - 1
    /\ call.kind \in {"warmup", "prompt"} =>
           \A l \in 1..call.layer - 1 : Holds(l, call.len)
    /\ call.kind = "token" =>
           /\ call.start = prevPos /\ call.len = 1
           /\ prevPos \in 1..MaxSeqLen - 2
           /\ \A l \in Layer : Holds(l, IF l < call.layer THEN prevPos + 1 ELSE prevPos)

IInv == TypeOK /\ Progress /\ ContextExact

(***************************************************************************)
(* Constants.                                                              *)
(***************************************************************************)
LEMMA Sizes ==
    /\ Win \in Nat \ {0} /\ 1 < Win /\ MaxSeqLen \in Nat \ {0} /\ TopK \in Nat \ {0}
    /\ NumLayers \in Nat \ {0} /\ MaxSequences \in Nat \ {0}
    /\ WarmupLen \in Nat \ {0} /\ WarmupLen < MaxSeqLen
    /\ OverlapRatio \in Nat \ {0} /\ MinPrompt \in Nat \ {0}
    /\ OverlapRatio <= MinPrompt /\ MinPrompt < MaxSeqLen
    /\ \A l \in Layer : Ratio[l] \in Nat
  BY ConstantsAssumption

(***************************************************************************)
(* The ring.                                                               *)
(***************************************************************************)

LEMMA PrefillFillsRing ==
    ASSUME NEW r, NEW q, NEW n \in Nat
    PROVE  RingIs(PrefillRing(r, q, n), q, n)
<1>. SUFFICES ASSUME NEW p \in 0..n - 1, n <= p + Win
              PROVE  PrefillRing(r, q, n)[p % Win] = <<q, p>>
  BY DEF RingIs
<1>0. Win \in Nat \ {0} /\ p \in Nat /\ p < n
  BY Sizes
<1> DEFINE i == p % Win
           k == n % Win
<1>1. i \in 0..Win - 1
  BY <1>0, DivMod
<1>2. /\ k \in Nat /\ k < Win /\ n - k \in Nat
      /\ n - k <= p => i = p - (n - k)
      /\ p < n - k => i = p + Win - (n - k)
  BY <1>0, SlotOf
<1>3. PrefillRing(r, q, n)[i] =
          IF n <= Win THEN IF i < n THEN <<q, i>> ELSE r[i]
          ELSE IF i >= k THEN <<q, n - Win + (i - k)>>
          ELSE <<q, n - k + i>>
  BY <1>1 DEF PrefillRing
<1>4. n <= Win => i = p
  <2>. SUFFICES ASSUME n <= Win PROVE p % Win = p
    OBVIOUS
  <2>. QED BY <1>0, SmallResidue
<1>. HIDE DEF i, k
<1>5. CASE n <= Win
  BY <1>0, <1>3, <1>4, <1>5 DEF i
<1>6. CASE ~ (n <= Win) /\ n - k <= p
  <2>1. ~ (i >= k) /\ n - k + i = p
    BY <1>0, <1>1, <1>2, <1>6
  <2>. QED BY <1>3, <1>6, <2>1 DEF i
<1>7. CASE ~ (n <= Win) /\ p < n - k
  <2>1. i >= k /\ n - Win + (i - k) = p
    BY <1>0, <1>1, <1>2, <1>7
  <2>. QED BY <1>3, <1>7, <2>1 DEF i
<1>. QED BY <1>0, <1>2, <1>5, <1>6, <1>7

LEMMA DecodeFillsRing ==
    ASSUME NEW r, NEW q, NEW p \in Nat, DOMAIN r = 0..Win - 1, RingIs(r, q, p)
    PROVE  RingIs(DecodeRing(r, q, p), q, p + 1)
<1>. SUFFICES ASSUME NEW x \in 0..p, p + 1 <= x + Win
              PROVE  DecodeRing(r, q, p)[x % Win] = <<q, x>>
  BY DEF RingIs
<1>0. Win \in Nat \ {0} /\ x \in Nat
  BY Sizes
<1>1. x % Win \in 0..Win - 1 /\ p % Win \in 0..Win - 1
  BY <1>0, DivMod
<1>2. CASE x = p
  BY <1>1, <1>2 DEF DecodeRing
<1>3. CASE x # p
  <2> DEFINE n == p + 1
  <2>1. /\ x < p /\ x \in 0..p - 1 /\ p <= x + Win
        /\ n \in Nat /\ x < n /\ n <= x + Win /\ p < n /\ n <= p + Win
    BY <1>0, <1>3
  <2> DEFINE c == n - (n % Win)
             a == x % Win
             b == p % Win
  <2>. HIDE DEF n
  <2>2. /\ c \in Nat
        /\ c <= x => a = x - c
        /\ x < c => a = x + Win - c
    BY <1>0, <2>1, SlotOf
  <2>3. /\ c <= p => b = p - c
        /\ p < c => b = p + Win - c
    BY <1>0, <2>1, SlotOf
  <2>. HIDE DEF a, b, c
  <2>4. a # b
    BY <1>0, <2>1, <2>2, <2>3
  <2>5. r[x % Win] = <<q, x>>
    BY <2>1 DEF RingIs
  <2>. QED BY <1>1, <2>4, <2>5 DEF DecodeRing, a, b
<1>. QED BY <1>2, <1>3

(***************************************************************************)
(* The compressor's state and the blocks.                                  *)
(***************************************************************************)
LEMMA LayerSizes ==
    ASSUME NEW l \in Layer, Ratio[l] > 0
    PROVE  /\ Ratio[l] \in Nat \ {0} /\ Offset(l) \in Nat
           /\ Overlap(l) => Offset(l) = Ratio[l] /\ Depth(l) = Ratio[l] + Ratio[l]
           /\ ~ Overlap(l) => Offset(l) = 0 /\ Depth(l) = Ratio[l]
           /\ Depth(l) = Offset(l) + Ratio[l]
           /\ BlockSlots(l) = 0..(MaxSeqLen \div Ratio[l]) - 1
  BY Sizes DEF Offset, Depth, BlockSlots

LEMMA PrefillFillsBlocks ==
    ASSUME NEW l \in Layer, Ratio[l] > 0, NEW bs, NEW q, NEW n \in 0..MaxSeqLen
    PROVE  BlocksAre(l, PrefillBlocks(l, bs, q, n), q, n)
<1>1. Ratio[l] \in Nat \ {0} /\ BlockSlots(l) = 0..(MaxSeqLen \div Ratio[l]) - 1
  BY LayerSizes
<1>2. n \in Nat /\ MaxSeqLen \in Nat /\ n <= MaxSeqLen
  BY Sizes
<1>3. /\ n \div Ratio[l] <= MaxSeqLen \div Ratio[l]
      /\ n \div Ratio[l] \in Nat /\ MaxSeqLen \div Ratio[l] \in Nat
  BY <1>1, <1>2, DivMonotone, DivMod
<1>4. \A g \in 0..(n \div Ratio[l]) - 1 : g \in BlockSlots(l) /\ g < n \div Ratio[l]
  BY <1>1, <1>3
<1>. QED BY <1>4 DEF BlocksAre, PrefillBlocks

LEMMA PrefillFillsPending ==
    ASSUME NEW l \in Layer, Ratio[l] > 0, NEW st, NEW q, NEW n \in Nat
    PROVE  PendingIs(l, PrefillPending(l, st, q, n), q, n)
<1> DEFINE R == Ratio[l]
           k == n % R
           c == n - k
           o == Offset(l)
<1>1. /\ R \in Nat \ {0} /\ o \in Nat /\ Depth(l) = o + R
      /\ (Overlap(l) => o = R) /\ (~ Overlap(l) => o = 0)
  BY LayerSizes
<1>2. k \in Nat /\ k < R /\ c \in Nat /\ (n >= R => c >= R)
  BY <1>1, BlockStart
<1>3. PrefillPending(l, st, q, n) =
          [i \in 0..Depth(l) - 1 |->
              IF Overlap(l) /\ c >= R /\ i < R THEN <<q, c - R + i>>
              ELSE IF i \in o..o + k - 1 THEN <<q, c + (i - o)>> ELSE st[i]]
  BY DEF PrefillPending, Offset
<1>. HIDE DEF R, k, c, o
<1>4. ASSUME NEW i \in 0..k - 1
      PROVE  PrefillPending(l, st, q, n)[o + i] = <<q, c + i>>
  <2>1. /\ o + i \in 0..Depth(l) - 1 /\ o + i \in o..o + k - 1 /\ (o + i) - o = i
        /\ ~ (Overlap(l) /\ o + i < R)
    BY <1>1, <1>2
  <2>. QED BY <2>1, <1>3
<1>5. ASSUME Overlap(l), n >= R, NEW i \in 0..R - 1
      PROVE  PrefillPending(l, st, q, n)[i] = <<q, c - R + i>>
  <2>1. i \in 0..Depth(l) - 1 /\ c >= R /\ i < R
    BY <1>1, <1>2, <1>5
  <2>. QED BY <2>1, <1>3, <1>5
<1>. QED BY <1>4, <1>5 DEF PendingIs, R, k, c, o

LEMMA DecodeFillsPending ==
    ASSUME NEW l \in Layer, Ratio[l] > 0, NEW st, NEW q, NEW p \in Nat,
           DOMAIN st = 0..Depth(l) - 1, PendingIs(l, st, q, p), Overlap(l) => p >= Ratio[l]
    PROVE  /\ LET S == Store(l, st, q, p)
                  c == p - (p % Ratio[l])
              IN  /\ DOMAIN S = 0..Depth(l) - 1
                  /\ \A i \in 0..(p % Ratio[l]) : S[Offset(l) + i] = <<q, c + i>>
                  /\ Overlap(l) => \A i \in 0..Ratio[l] - 1 : S[i] = <<q, c - Ratio[l] + i>>
           /\ PendingIs(l, DecodePending(l, st, q, p), q, p + 1)
<1> DEFINE R == Ratio[l]
           k == p % R
           c == p - k
           o == Offset(l)
           S == Store(l, st, q, p)
           D == DecodePending(l, st, q, p)
           n == p + 1
<1>1. /\ R \in Nat \ {0} /\ o \in Nat /\ Depth(l) = o + R
      /\ (Overlap(l) => o = R) /\ (~ Overlap(l) => o = 0)
  BY LayerSizes
<1>2. k \in Nat /\ k < R /\ c \in Nat /\ (p >= R => c >= R)
  BY <1>1, BlockStart
<1>3. S = [st EXCEPT ![o + k] = <<q, p>>]
  <2>1. (IF Overlap(l) THEN Ratio[l] + (p % Ratio[l]) ELSE p % Ratio[l]) = o + k
    <3>. HIDE DEF k
    <3>. QED BY <1>1, <1>2 DEF k
  <2>. QED BY <2>1 DEF Store
<1>4. /\ \A i \in 0..k - 1 : st[o + i] = <<q, c + i>>
      /\ Overlap(l) => \A i \in 0..R - 1 : st[i] = <<q, c - R + i>>
  BY DEF PendingIs
<1>5. /\ D = IF n % R = 0 THEN Shift(l, S) ELSE S
      /\ Shift(l, S) = [i \in DOMAIN S |-> IF Overlap(l) /\ i < R THEN S[R + i] ELSE S[i]]
  BY DEF DecodePending, Completes, Shift
<1>6. \/ k + 1 < R /\ n % R = k + 1
      \/ k + 1 = R /\ n % R = 0
  BY <1>1, DivModSucc
<1>6a. c + k = p
  BY <1>1, <1>2
<1>. HIDE DEF R, k, c, o, S, D
<1>7. o + k \in DOMAIN st /\ DOMAIN S = DOMAIN st
  BY <1>1, <1>2, <1>3
<1>8. ASSUME NEW i \in 0..k PROVE S[o + i] = <<q, c + i>>
  <2>1. CASE i = k
    BY <2>1, <1>3, <1>7, <1>6a
  <2>2. CASE i # k
    <3>1. i \in 0..k - 1 /\ o + i # o + k /\ o + i \in DOMAIN st
      BY <2>2, <1>1, <1>2
    <3>. QED BY <3>1, <1>3, <1>4
  <2>. QED BY <2>1, <2>2
<1>9. ASSUME Overlap(l), NEW i \in 0..R - 1 PROVE S[i] = <<q, c - R + i>>
  <2>1. i # o + k /\ i \in DOMAIN st
    BY <1>1, <1>2, <1>9
  <2>. QED BY <2>1, <1>3, <1>4, <1>9
<1>10. CASE k + 1 < R /\ n % R = k + 1
  <2>1. D = S /\ n - (n % R) = c /\ 0..(n % R) - 1 = 0..k
    <3>1. n % R # 0 /\ n - (k + 1) = c /\ (k + 1) - 1 = k
      BY <1>1, <1>2, <1>10, <1>6a
    <3>2. D = S
      BY <3>1, <1>5
    <3>. QED BY <3>1, <3>2, <1>10
  <2>. QED BY <2>1, <1>7, <1>8, <1>9 DEF PendingIs, R, k, c, o, S, D
<1>11. CASE k + 1 = R /\ n % R = 0
  <2>1. D = Shift(l, S) /\ n - (n % R) = n /\ 0..(n % R) - 1 = {}
    BY <1>1, <1>2, <1>5, <1>11
  <2>2. ASSUME Overlap(l), NEW i \in 0..R - 1 PROVE D[i] = <<q, n - R + i>>
    <3>1. i \in DOMAIN S /\ i \in 0..k /\ i < R
      BY <1>1, <1>2, <1>7, <1>11, <2>2
    <3>2. D[i] = S[R + i]
      BY <3>1, <2>1, <2>2, <1>5
    <3>3. S[R + i] = <<q, c + i>>
      BY <3>1, <1>1, <1>8, <2>2
    <3>4. c + i = n - R + i
      BY <1>1, <1>2, <1>11, <1>6a
    <3>. QED BY <3>2, <3>3, <3>4
  <2>3. PendingIs(l, D, q, n)
    BY <2>1, <2>2 DEF PendingIs, R
  <2>. QED BY <2>3, <1>7, <1>8, <1>9 DEF R, k, c, o, S, D
<1>. QED BY <1>6, <1>10, <1>11

LEMMA DecodeFillsBlocks ==
    ASSUME NEW l \in Layer, Ratio[l] > 0, NEW st, NEW bs, NEW q \in Nat \ {0},
           NEW p \in 0..MaxSeqLen - 1,
           DOMAIN st = 0..Depth(l) - 1, PendingIs(l, st, q, p), Overlap(l) => p >= Ratio[l],
           DOMAIN bs = BlockSlots(l), BlocksAre(l, bs, q, p)
    PROVE  BlocksAre(l, DecodeBlocks(l, bs, st, q, p), q, p + 1)
<1> DEFINE R == Ratio[l]
           k == p % R
           c == p - k
           g == p \div R
           S == Store(l, st, q, p)
           n == p + 1
<1>0. p \in Nat /\ n <= MaxSeqLen /\ n \in Nat /\ MaxSeqLen \in Nat
  BY Sizes
<1>1. /\ R \in Nat \ {0} /\ Depth(l) = Offset(l) + R
      /\ Overlap(l) => Offset(l) = R
      /\ ~ Overlap(l) => Offset(l) = 0
      /\ BlockSlots(l) = 0..(MaxSeqLen \div R) - 1
  BY LayerSizes
<1>2. /\ k \in Nat /\ k < R /\ g \in Nat /\ c \in Nat /\ c = g * R
      /\ p >= R => c >= R /\ g > 0
  BY <1>0, <1>1, BlockStart
<1>3. \/ k + 1 < R /\ n % R = k + 1 /\ n \div R = g
      \/ k + 1 = R /\ n % R = 0 /\ n \div R = g + 1
  BY <1>0, <1>1, DivModSucc
<1>4. /\ \A i \in 0..k : S[Offset(l) + i] = <<q, c + i>>
      /\ Overlap(l) => \A i \in 0..R - 1 : S[i] = <<q, c - R + i>>
  BY <1>0, DecodeFillsPending
<1>5. \A h \in 0..g - 1 : bs[h] = PrefillBlock(l, q, h)
  BY DEF BlocksAre
<1>6. CASE n % R # 0
  <2>1. DecodeBlocks(l, bs, st, q, p) = bs
    BY <1>6 DEF DecodeBlocks, Completes
  <2>2. n \div R = g
    BY <1>3, <1>6
  <2>. HIDE DEF g, n
  <2>. QED BY <2>1, <2>2, <1>5 DEF BlocksAre, n
<1>7. CASE n % R = 0
  <2>1. DecodeBlocks(l, bs, st, q, p) = [bs EXCEPT ![g] = Pool(l, S, p)]
    BY <1>7 DEF DecodeBlocks, Completes
  <2>2. k + 1 = R /\ n \div R = g + 1
    BY <1>2, <1>3, <1>7
  <2>3. g \in BlockSlots(l)
    <3>1. n \div R <= MaxSeqLen \div R /\ MaxSeqLen \div R \in Nat
      BY <1>0, <1>1, DivMonotone, DivMod
    <3>. HIDE DEF g, R, n
    <3>. QED BY <3>1, <2>2, <1>1, <1>2
  <2>. DEFINE rows(h) == {<<q, h * R + r>> : r \in 0..R - 1}
              lower == {S[i] : i \in 0..R - 1}
              upper == {S[i] : i \in R..Depth(l) - 1}
  <2>4. None \notin rows(g) /\ None \notin rows(g - 1)
    BY DEF None
  <2>5. p + 1 - R = g * R
    <3>1. c = g * R /\ c \in Nat
      BY <1>2
    <3>2. c = p - k
      OBVIOUS
    <3>3. k + 1 = R /\ k \in Nat
      BY <1>2, <2>2
    <3>. HIDE DEF R, k, g, c
    <3>4. p + 1 - R = c
      BY <1>0, <3>1, <3>2, <3>3
    <3>. QED BY <3>1, <3>4
  <2>8. ASSUME Pool(l, S, p) = PrefillBlock(l, q, g)
        PROVE  BlocksAre(l, DecodeBlocks(l, bs, st, q, p), q, n)
    <3>1. ASSUME NEW h \in 0..(n \div R) - 1
          PROVE  [bs EXCEPT ![g] = Pool(l, S, p)][h] = PrefillBlock(l, q, h)
      <4>1. h \in 0..g - 1 \/ h = g
        <5>. HIDE DEF g, n
        <5>. QED BY <2>2, <1>2
      <4>2. CASE h = g
        <5>. HIDE DEF g
        <5>. QED BY <4>2, <2>3, <2>8
      <4>3. CASE h \in 0..g - 1
        <5>1. h # g
          BY <4>3, <1>2
        <5>2. h \in DOMAIN bs
          <6>. HIDE DEF g
          <6>1. \A M \in Nat : g \in 0..M - 1 => h \in 0..M - 1
            BY <4>3, <1>2
          <6>2. MaxSeqLen \div R \in Nat
            BY <1>0, <1>1, DivMod
          <6>. QED BY <6>1, <6>2, <2>3, <1>1
        <5>. HIDE DEF g
        <5>. QED BY <5>1, <5>2, <4>3, <1>5
      <4>. QED BY <4>1, <4>2, <4>3
    <3>. QED BY <3>1, <2>1 DEF BlocksAre
  <2>6. CASE ~ Overlap(l)
    <3>1. lower = rows(g)
      <4>1. \A i \in 0..R - 1 : S[i] = <<q, g * R + i>>
        <5>. HIDE DEF k, g, S, R
        <5>. QED BY <1>1, <1>2, <1>4, <2>2, <2>6
      <4>. QED BY <4>1
    <3>2. Pool(l, S, p) = [at |-> g * R, parts |-> {"own"} \X rows(g)]
      <4>1. lower \ {None} = rows(g)
        BY <3>1, <2>4
      <4>. QED BY <4>1, <2>5, <2>6 DEF Pool
    <3>3. PrefillBlock(l, q, g) = [at |-> g * R, parts |-> {"own"} \X rows(g)]
      BY <2>6 DEF PrefillBlock
    <3>. QED BY <3>2, <3>3, <2>8
  <2>7. CASE Overlap(l)
    <3>1. lower = rows(g - 1) /\ g > 0
      <4>1. (g - 1) * R = c - R /\ g > 0
        <5>. DEFINE h == g - 1
        <5>1. h \in Nat /\ g = h + 1
          BY <1>2, <2>7
        <5>2. (h + 1) * R = h * R + R /\ h * R \in Nat
          BY <5>1, <1>1, ProductFacts
        <5>. DEFINE x == h * R
        <5>3. c = x + R
          <6>. HIDE DEF g, c, h, x
          <6>. QED BY <5>1, <5>2, <1>2 DEF x
        <5>. QED BY <5>2, <5>3, <1>1, <1>2, <2>7
      <4>2. \A i \in 0..R - 1 : S[i] = <<q, (g - 1) * R + i>>
        BY <4>1, <1>4, <2>7
      <4>. QED BY <4>1, <4>2
    <3>2. upper = rows(g)
      <4>1. \A i \in 0..R - 1 : S[R + i] = <<q, g * R + i>>
        <5>. HIDE DEF k, g, S, R
        <5>. QED BY <1>1, <1>2, <1>4, <2>2, <2>7
      <4>2. Depth(l) = R + R
        BY <1>1, <2>7
      <4>3. \A i \in R..Depth(l) - 1 : i - R \in 0..R - 1 /\ R + (i - R) = i
        <5>. HIDE DEF R
        <5>. QED BY <4>2, <1>1
      <4>4. \A i \in 0..R - 1 : R + i \in R..Depth(l) - 1
        <5>. HIDE DEF R
        <5>. QED BY <4>2, <1>1
      <4>5. ASSUME NEW x \in upper PROVE x \in rows(g)
        <5>1. PICK i \in R..Depth(l) - 1 : x = S[i]
          OBVIOUS
        <5>2. i - R \in 0..R - 1 /\ S[i] = <<q, g * R + (i - R)>>
          BY <4>1, <4>3
        <5>. QED BY <5>1, <5>2
      <4>6. ASSUME NEW x \in rows(g) PROVE x \in upper
        <5>1. PICK r \in 0..R - 1 : x = <<q, g * R + r>>
          OBVIOUS
        <5>. QED BY <5>1, <4>1, <4>4
      <4>. QED BY <4>5, <4>6
    <3>3. Pool(l, S, p) = [at |-> g * R,
                           parts |-> ({"overlap"} \X rows(g - 1)) \cup ({"own"} \X rows(g))]
      <4>1. lower \ {None} = rows(g - 1) /\ upper \ {None} = rows(g)
        BY <3>1, <3>2, <2>4
      <4>. QED BY <4>1, <2>5, <2>7 DEF Pool
    <3>4. PrefillBlock(l, q, g) = [at |-> g * R,
                                   parts |-> ({"own"} \X rows(g))
                                             \cup ({"overlap"} \X rows(g - 1))]
      BY <3>1, <2>7 DEF PrefillBlock
    <3>5. Pool(l, S, p) = PrefillBlock(l, q, g)
      BY <3>3, <3>4
    <3>. QED BY <3>5, <2>8
  <2>. QED BY <2>6, <2>7
<1>. QED BY <1>6, <1>7

(***************************************************************************)
(* What a query gathers.                                                   *)
(***************************************************************************)
LEMMA RowsOf ==
    ASSUME NEW q, NEW P
    PROVE  {q} \X P = {<<q, p>> : p \in P}
  OBVIOUS

LEMMA DecodeWindow ==
    ASSUME NEW r, NEW q, NEW p \in Nat \ {0}, RingIs(r, q, p + 1)
    PROVE  {r[i] : i \in WindowIdxs(p, 1, 0)} = WindowAt(q, p)
<1>0. Win \in Nat \ {0} /\ 1 < Win
  BY Sizes
<1>1. \A x \in 0..p : p + 1 <= x + Win => r[x % Win] = <<q, x>>
  BY DEF RingIs
<1>2. CASE p >= Win - 1
  <2>1. WindowIdxs(p, 1, 0) = 0..Win - 1
    BY <1>2 DEF WindowIdxs
  <2>2. WindowAt(q, p) = {q} \X (p + 1 - Win..p)
    BY <1>0, <1>2 DEF WindowAt
  <2> DEFINE n == p + 1
  <2>3. n \in Nat /\ Win <= n
    BY <1>0, <1>2
  <2>4. ASSUME NEW i \in 0..Win - 1 PROVE r[i] \in {q} \X (p + 1 - Win..p)
    <3>1. PICK x \in 0..n - 1 : n <= x + Win /\ x % Win = i
      <4>. HIDE DEF n
      <4>. QED BY <1>0, <2>3, PositionIn
    <3>2. x \in 0..p /\ p + 1 <= x + Win /\ x \in p + 1 - Win..p
      BY <3>1, <1>0
    <3>3. r[i] = <<q, x>>
      BY <3>1, <3>2, <1>1
    <3>. QED BY <3>2, <3>3
  <2>5. ASSUME NEW x \in p + 1 - Win..p PROVE <<q, x>> \in {r[i] : i \in 0..Win - 1}
    <3>1. x \in 0..p /\ p + 1 <= x + Win /\ x \in Nat
      BY <1>0, <1>2
    <3>2. x % Win \in 0..Win - 1
      BY <3>1, <1>0, DivMod
    <3>. QED BY <3>1, <3>2, <1>1
  <2>6. {q} \X (p + 1 - Win..p) = {<<q, x>> : x \in p + 1 - Win..p}
    BY RowsOf
  <2>7. {r[i] : i \in 0..Win - 1} \subseteq {q} \X (p + 1 - Win..p)
    BY <2>4
  <2>8. {<<q, x>> : x \in p + 1 - Win..p} \subseteq {r[i] : i \in 0..Win - 1}
    BY <2>5
  <2>. QED BY <2>1, <2>2, <2>6, <2>7, <2>8
<1>3. CASE p < Win - 1
  <2>1. WindowIdxs(p, 1, 0) = 0..p
    BY <1>0, <1>3 DEF WindowIdxs
  <2>2. WindowAt(q, p) = {q} \X (0..p)
    BY <1>0, <1>3 DEF WindowAt
  <2>3. ASSUME NEW i \in 0..p PROVE r[i] = <<q, i>>
    <3>1. i \in Nat /\ i < Win /\ p + 1 <= i + Win
      BY <1>0, <1>3
    <3>2. i % Win = i
      BY <3>1, <1>0, SmallResidue
    <3>3. r[i % Win] = <<q, i>>
      BY <3>1, <1>1
    <3>. QED BY <3>2, <3>3
  <2>4. {r[i] : i \in 0..p} = {<<q, i>> : i \in 0..p}
    BY <2>3
  <2>. QED BY <2>1, <2>2, <2>4, RowsOf
<1>. QED BY <1>0, <1>2, <1>3

LEMMA PrefillWindow ==
    ASSUME NEW q, NEW n \in Nat \ {0}, NEW s \in 0..n - 1
    PROVE  {[i \in 0..n - 1 |-> <<q, i>>][j] : j \in WindowIdxs(0, n, s)} = WindowAt(q, s)
<1> DEFINE first == IF s + 1 > Win THEN s + 1 - Win ELSE 0
<1>0. Win \in Nat \ {0} /\ 1 < Win
  BY Sizes
<1>1. WindowIdxs(0, n, s) = {i \in first..first + Smaller(n, Win) - 1 : i <= s}
  BY <1>0 DEF WindowIdxs
<1>2. first \in Nat /\ first <= s /\ first + Smaller(n, Win) - 1 >= s /\ Smaller(n, Win) \in Nat
  BY <1>0 DEF Smaller
<1>3. WindowIdxs(0, n, s) = first..s
  <2>1. s \in Nat /\ (first + Smaller(n, Win)) - 1 \in Int
    BY <1>2
  <2>. DEFINE last == first + Smaller(n, Win) - 1
  <2>2. last \in Int /\ s <= last
    BY <2>1, <1>2
  <2>. HIDE DEF first, last
  <2>3. {i \in first..last : i <= s} = first..s
    BY <2>1, <2>2, <1>2
  <2>. QED BY <2>3, <1>1 DEF last
<1>4. first..s \subseteq 0..n - 1
  <2>. HIDE DEF first
  <2>. QED BY <1>2
<1>5. WindowAt(q, s) = {q} \X (first..s)
  BY DEF WindowAt
<1>. HIDE DEF first
<1>6. \A j \in first..s : [i \in 0..n - 1 |-> <<q, i>>][j] = <<q, j>>
  BY <1>4
<1>7. {[i \in 0..n - 1 |-> <<q, i>>][j] : j \in first..s} = {<<q, j>> : j \in first..s}
  BY <1>6
<1>. QED BY <1>3, <1>5, <1>7, RowsOf

LEMMA BlockMeaning ==
    ASSUME NEW l \in Layer, Ratio[l] > 0, NEW q, NEW g \in Nat, g < MaxSeqLen \div Ratio[l]
    PROVE  /\ PrefillBlock(l, q, g) = BlockOf(l, q, g * Ratio[l])
           /\ PrefillBlock(l, q, g).at = g * Ratio[l]
<1> DEFINE R == Ratio[l]
           x == g * R
           rows(k) == {<<q, k * R + r>> : r \in 0..R - 1}
<1>1. R \in Nat \ {0} /\ MaxSeqLen \in Nat
  BY Sizes, LayerSizes
<1>2. x \in Nat /\ x + R <= MaxSeqLen
  BY <1>1, BlockFits, ProductFacts
<1>3. ASSUME NEW y \in Nat, y + R <= MaxSeqLen
      PROVE  {<<q, y + r>> : r \in 0..R - 1} = {q} \X Before(y + R, R)
  <2>. HIDE DEF R
  <2>1. Before(y + R, R) = y..y + R - 1
    BY <1>1, <1>3 DEF Before
  <2>2. \A z \in y..y + R - 1 : z - y \in 0..R - 1 /\ y + (z - y) = z
    BY <1>1
  <2>3. \A r \in 0..R - 1 : y + r \in y..y + R - 1
    BY <1>1
  <2>4. {<<q, y + r>> : r \in 0..R - 1} = {<<q, z>> : z \in y..y + R - 1}
    BY <2>2, <2>3
  <2>. QED BY <2>1, <2>4, RowsOf
<1>4. rows(g) = {q} \X Before(x + R, R)
  BY <1>2, <1>3
<1>8. PrefillBlock(l, q, g).at = g * R
  BY DEF PrefillBlock
<1>. SUFFICES PrefillBlock(l, q, g) = BlockOf(l, q, x)
  BY <1>8
<1>5. CASE ~ Overlap(l)
  BY <1>4, <1>5 DEF PrefillBlock, BlockOf
<1>6. CASE Overlap(l) /\ g = 0
  <2>1. x = 0
    BY <1>1, <1>6
  <2>2. Before(x, R) = {}
    <3>. HIDE DEF x, R
    <3>. QED BY <2>1, <1>1 DEF Before
  <2>3. {"overlap"} \X ({q} \X Before(x, R)) = {}
    BY <2>2
  <2>4. PrefillBlock(l, q, g) = [at |-> x, parts |-> {"own"} \X rows(g)]
    BY <1>6 DEF PrefillBlock
  <2>5. BlockOf(l, q, x) = [at |-> x, parts |-> {"own"} \X ({q} \X Before(x + R, R))]
    BY <2>3, <1>6 DEF BlockOf
  <2>. HIDE DEF x, rows
  <2>. QED BY <2>4, <2>5, <1>4
<1>7. CASE Overlap(l) /\ g > 0
  <2> DEFINE h == g - 1
             y == h * R
  <2>1. h \in Nat /\ g = h + 1
    BY <1>7
  <2>2. (h + 1) * R = y + R /\ y \in Nat
    <3>. HIDE DEF h
    <3>. QED BY <2>1, <1>1, ProductFacts
  <2>3. x = y + R
    <3>. HIDE DEF h, y
    <3>. QED BY <2>1, <2>2
  <2>4. rows(h) = {q} \X Before(x, R)
    <3>1. y + R <= MaxSeqLen
      <4>. HIDE DEF x, y, R
      <4>. QED BY <1>1, <1>2, <2>2, <2>3
    <3>2. rows(h) = {q} \X Before(y + R, R)
      <4>. HIDE DEF h
      <4>. QED BY <1>3, <2>2, <3>1
    <3>. QED BY <3>2, <2>3
  <2>5. PrefillBlock(l, q, g) = [at |-> x, parts |-> ({"own"} \X rows(g))
                                                   \cup ({"overlap"} \X rows(h))]
    BY <1>7 DEF PrefillBlock
  <2>6. BlockOf(l, q, x) = [at |-> x, parts |-> ({"own"} \X ({q} \X Before(x + R, R)))
                                           \cup ({"overlap"} \X ({q} \X Before(x, R)))]
    BY <1>7 DEF BlockOf
  <2>. HIDE DEF x, rows, h
  <2>. QED BY <2>4, <2>5, <2>6, <1>4
<1>. QED BY <1>5, <1>6, <1>7

\* The blocks a query at position p = start + s may see, and how many of them
\* it gets.
LEMMA ChosenBlocks ==
    ASSUME NEW l \in Layer, Ratio[l] > 0, NEW start \in Nat, NEW n \in Nat \ {0},
           NEW s \in 0..n - 1, start = 0 \/ n = 1,
           NEW chosen \in BlockChoices(l, start, n, s)
    PROVE  LET V == (start + s + 1) \div Ratio[l]
           IN  /\ V \in Nat /\ V <= (start + n) \div Ratio[l]
               /\ chosen \subseteq 0..V - 1
               /\ Cardinality(chosen) = IF Overlap(l) THEN Smaller(TopK, V) ELSE V
<1> DEFINE R == Ratio[l]
           p == start + s
           V == (p + 1) \div R
           W == (start + n) \div R
<1>1. R \in Nat \ {0} /\ TopK \in Nat /\ p \in Nat
  BY Sizes, LayerSizes
<1>2. p + 1 <= start + n /\ p + 1 \in Nat /\ start + n \in Nat
  OBVIOUS
<1>3. V \in Nat /\ W \in Nat /\ V <= W
  <2> DEFINE a == p + 1
             b == start + n
  <2>1. a \in Nat /\ b \in Nat /\ a <= b
    BY <1>2
  <2>. HIDE DEF a, b
  <2>2. a \div R \in Nat /\ b \div R \in Nat /\ a \div R <= b \div R
    BY <2>1, <1>1, DivMod, DivMonotone
  <2>. QED BY <2>2 DEF a, b
<1>4. UniformIdxs(l, start, n, s) = 0..V - 1
  <2>1. CASE start > 0
    <3>1. start + 1 = p + 1
      BY <2>1, <1>1
    <3>. QED BY <2>1, <3>1 DEF UniformIdxs
  <2>2. CASE start = 0
    <3>1. n \div R = W /\ (s + 1) \div R = V
      BY <2>2
    <3>2. UniformIdxs(l, start, n, s) = {t \in 0..W - 1 : t < V}
      BY <2>2, <3>1 DEF UniformIdxs
    <3>. HIDE DEF V, W
    <3>. QED BY <3>2, <1>3
  <2>. QED BY <2>1, <2>2
<1>5. (IF start > 0 THEN 0..((start + n) \div R) - 1 ELSE UniformIdxs(l, start, n, s)) = 0..V - 1
  <2>1. start > 0 => start + n = p + 1
    BY <1>1
  <2>. QED BY <2>1, <1>4
<1>6. IsFiniteSet(0..V - 1) /\ Cardinality(0..V - 1) = V
  <2>. HIDE DEF V
  <2> DEFINE b == V - 1
  <2>1. b \in Int /\ 0 \in Int /\ (IF 0 > b THEN 0 ELSE b - 0 + 1) = V
    BY <1>3
  <2>. HIDE DEF b
  <2>2. IsFiniteSet(0..b) /\ Cardinality(0..b) = IF 0 > b THEN 0 ELSE b - 0 + 1
    BY <2>1, FS_Interval
  <2>. QED BY <2>1, <2>2 DEF b
<1>7. CASE Overlap(l)
  <2>1. chosen \in {T \in SUBSET (0..V - 1) :
                        Cardinality(T) = Smaller(Smaller(TopK, W), V)}
    BY <1>5, <1>6, <1>7, <1>1 DEF BlockChoices, IndexerChoices
  <2>2. Smaller(Smaller(TopK, W), V) = Smaller(TopK, V)
    <3>. HIDE DEF V, W
    <3>. QED BY <1>1, <1>3 DEF Smaller
  <2>3. chosen \subseteq 0..V - 1 /\ Cardinality(chosen) = Smaller(TopK, V)
    BY <2>1, <2>2
  <2>. HIDE DEF V, W
  <2>. QED BY <2>3, <1>3, <1>7 DEF V, W
<1>8. CASE ~ Overlap(l)
  <2>1. chosen = 0..V - 1
    BY <1>1, <1>4, <1>8 DEF BlockChoices
  <2>. HIDE DEF V, W
  <2>. QED BY <2>1, <1>3, <1>6, <1>8 DEF V, W
<1>. QED BY <1>7, <1>8

SeesBlocks(l, S, q, p) ==
    /\ S \subseteq BlocksAt(l, q, p)
    /\ Cardinality(S) = IF Overlap(l) THEN Smaller(TopK, (p + 1) \div Ratio[l])
                        ELSE (p + 1) \div Ratio[l]

LEMMA SeenBlocks ==
    ASSUME NEW l \in Layer, Ratio[l] > 0, NEW start \in Nat, NEW n \in Nat \ {0},
           NEW s \in 0..n - 1, start = 0 \/ n = 1, start + n <= MaxSeqLen,
           NEW chosen \in BlockChoices(l, start, n, s),
           NEW bs, NEW q, BlocksAre(l, bs, q, start + n)
    PROVE  SeesBlocks(l, {bs[g] : g \in chosen}, q, start + s)
<1> DEFINE R == Ratio[l]
           p == start + s
           V == (p + 1) \div R
           N == start + n
           seenSet == {bs[g] : g \in chosen}
<1>1. /\ V \in Nat /\ V <= N \div R /\ chosen \subseteq 0..V - 1
      /\ Cardinality(chosen) = IF Overlap(l) THEN Smaller(TopK, V) ELSE V
  BY ChosenBlocks
<1>2. R \in Nat \ {0} /\ N \in Nat /\ MaxSeqLen \in Nat
  BY Sizes, LayerSizes
<1>3. N \div R <= MaxSeqLen \div R /\ N \div R \in Nat /\ MaxSeqLen \div R \in Nat
  <2>. HIDE DEF N
  <2>1. N <= MaxSeqLen
    BY DEF N
  <2>. QED BY <1>2, <2>1, DivMonotone, DivMod
<1>. HIDE DEF V, N
<1>4. \A g \in 0..V - 1 : bs[g] = PrefillBlock(l, q, g)
  <2>1. \A g \in 0..(N \div R) - 1 : bs[g] = PrefillBlock(l, q, g)
    BY DEF BlocksAre, N
  <2>2. 0..V - 1 \subseteq 0..(N \div R) - 1
    BY <1>1, <1>3
  <2>. QED BY <2>1, <2>2
<1>5. \A g \in 0..V - 1 : bs[g] = BlockOf(l, q, g * R) /\ bs[g].at = g * R
  <2>1. \A g \in 0..V - 1 : g \in Nat /\ g < MaxSeqLen \div R
    BY <1>1, <1>3
  <2>. QED BY <2>1, <1>4, BlockMeaning
<1>6. seenSet \subseteq BlocksAt(l, q, p)
  BY <1>1, <1>5 DEF BlocksAt, V
<1>7. \A g, h \in chosen : bs[g] = bs[h] => g = h
  <2>. SUFFICES ASSUME NEW g \in chosen, NEW h \in chosen, bs[g] = bs[h] PROVE g = h
    OBVIOUS
  <2>1. g \in Nat /\ h \in Nat /\ g * R = h * R
    BY <1>1, <1>5
  <2>. QED BY <2>1, <1>2, DistinctStarts
<1>8. [g \in chosen |-> bs[g]] \in Bijection(chosen, seenSet)
  BY <1>7 DEF Bijection, Injection, Surjection, IsInjective
<1>9. IsFiniteSet(chosen)
  <2>1. IsFiniteSet(0..V - 1)
    BY <1>1, FS_Interval
  <2>. QED BY <2>1, <1>1, FS_Subset
<1>10. Cardinality(seenSet) = Cardinality(chosen)
  BY <1>8, <1>9, FS_Bijection DEF ExistsBijection
<1>. QED BY <1>1, <1>6, <1>10 DEF V, SeesBlocks

(***************************************************************************)
(* Types.                                                                  *)
(***************************************************************************)
BlockTyped(b) == b.at \in Nat /\ b.parts \subseteq {"own", "overlap"} \X Row

BlocksTyped(l, bs) ==
    DOMAIN bs = BlockSlots(l) /\ \A g \in BlockSlots(l) : BlockTyped(bs[g])

PendingTyped(l, st) == st \in [0..Depth(l) - 1 -> Row]

LEMMA RowIn ==
    ASSUME NEW q \in 1..MaxSequences, NEW p \in 0..MaxSeqLen - 1
    PROVE  <<q, p>> \in Row
  BY DEF Row

LEMMA PrefillRingTyped ==
    ASSUME NEW q \in 1..MaxSequences, NEW n \in 1..MaxSeqLen, NEW r \in [0..Win - 1 -> Row]
    PROVE  PrefillRing(r, q, n) \in [0..Win - 1 -> Row]
<1> DEFINE k == n % Win
           v(i) == IF n <= Win THEN IF i < n THEN <<q, i>> ELSE r[i]
                   ELSE IF i >= k THEN <<q, n - Win + (i - k)>>
                   ELSE <<q, n - k + i>>
<1>0. Win \in Nat \ {0} /\ MaxSeqLen \in Nat
  BY Sizes
<1>1. k \in Nat /\ k < Win /\ n - k \in Nat
  <2>1. n \in Nat
    BY <1>0
  <2>. QED BY <2>1, <1>0, BlockStart
<1>2. PrefillRing(r, q, n) = [i \in 0..Win - 1 |-> v(i)]
  BY DEF PrefillRing
<1>3. ASSUME NEW i \in 0..Win - 1 PROVE v(i) \in Row
  <2>. HIDE DEF k
  <2>1. CASE n <= Win
    <3>1. i < n => i \in 0..MaxSeqLen - 1
      BY <1>0
    <3>. QED BY <2>1, <3>1, RowIn
  <2>2. CASE ~ (n <= Win) /\ i >= k
    <3>1. n - Win + (i - k) \in 0..MaxSeqLen - 1
      BY <1>0, <1>1, <2>2
    <3>. QED BY <2>2, <3>1, RowIn
  <2>3. CASE ~ (n <= Win) /\ ~ (i >= k)
    <3>1. n - k + i \in 0..MaxSeqLen - 1
      BY <1>0, <1>1, <2>3
    <3>. QED BY <2>3, <3>1, RowIn
  <2>. QED BY <2>1, <2>2, <2>3
<1>. QED BY <1>2, <1>3

LEMMA PrefillPendingTyped ==
    ASSUME NEW l \in Layer, Ratio[l] > 0, NEW q \in 1..MaxSequences,
           NEW n \in 1..MaxSeqLen, NEW st, PendingTyped(l, st)
    PROVE  PendingTyped(l, PrefillPending(l, st, q, n))
<1> DEFINE R == Ratio[l]
           k == n % R
           c == n - k
           o == Offset(l)
           v(i) == IF Overlap(l) /\ c >= R /\ i < R THEN <<q, c - R + i>>
                   ELSE IF i \in o..o + k - 1 THEN <<q, c + (i - o)>> ELSE st[i]
<1>1. R \in Nat \ {0} /\ o \in Nat /\ Depth(l) = o + R /\ MaxSeqLen \in Nat
  BY LayerSizes, Sizes
<1>2. k \in Nat /\ k < R /\ c \in Nat
  <2>1. n \in Nat
    BY <1>1
  <2>. QED BY <2>1, <1>1, BlockStart
<1>3. PrefillPending(l, st, q, n) = [i \in 0..Depth(l) - 1 |-> v(i)]
  BY DEF PrefillPending, Offset
<1>4. c + k = n
  BY <1>1, <1>2
<1>. HIDE DEF R, k, c, o
<1>5. ASSUME NEW i \in 0..Depth(l) - 1 PROVE v(i) \in Row
  <2>1. CASE Overlap(l) /\ c >= R /\ i < R
    <3>1. c - R + i \in 0..MaxSeqLen - 1
      BY <2>1, <1>1, <1>2, <1>4
    <3>. QED BY <2>1, <3>1, RowIn
  <2>2. CASE ~ (Overlap(l) /\ c >= R /\ i < R) /\ i \in o..o + k - 1
    <3>1. c + (i - o) \in 0..MaxSeqLen - 1
      BY <2>2, <1>1, <1>2, <1>4
    <3>. QED BY <2>2, <3>1, RowIn
  <2>3. CASE ~ (Overlap(l) /\ c >= R /\ i < R) /\ i \notin o..o + k - 1
    BY <2>3 DEF PendingTyped
  <2>. QED BY <2>1, <2>2, <2>3
<1>. QED BY <1>3, <1>5 DEF PendingTyped

LEMMA PrefillBlocksTyped ==
    ASSUME NEW l \in Layer, Ratio[l] > 0, NEW q \in 1..MaxSequences,
           NEW n \in 1..MaxSeqLen, NEW bs, BlocksTyped(l, bs)
    PROVE  BlocksTyped(l, PrefillBlocks(l, bs, q, n))
<1> DEFINE R == Ratio[l]
           rows(k) == {<<q, k * R + r>> : r \in 0..R - 1}
<1>1. R \in Nat \ {0} /\ MaxSeqLen \in Nat /\ BlockSlots(l) = 0..(MaxSeqLen \div R) - 1
  BY LayerSizes, Sizes
<1>2. MaxSeqLen \div R \in Nat
  BY <1>1, DivMod
<1>3. ASSUME NEW g \in Nat, g < MaxSeqLen \div R PROVE rows(g) \subseteq Row
  <2> DEFINE x == g * R
  <2>1. x \in Nat /\ x + R <= MaxSeqLen
    BY <1>1, <1>3, BlockFits, ProductFacts
  <2>2. ASSUME NEW r \in 0..R - 1 PROVE <<q, x + r>> \in Row
    <3>. HIDE DEF x, R
    <3>1. x + r \in 0..MaxSeqLen - 1
      BY <1>1, <2>1
    <3>. QED BY <3>1, RowIn
  <2>. QED BY <2>2
<1>4. ASSUME NEW g \in BlockSlots(l) PROVE BlockTyped(PrefillBlock(l, q, g))
  <2>1. g \in Nat /\ g < MaxSeqLen \div R
    BY <1>1, <1>2
  <2>2. rows(g) \subseteq Row
    BY <2>1, <1>3
  <2>3. g > 0 => rows(g - 1) \subseteq Row
    <3>. SUFFICES ASSUME g > 0 PROVE rows(g - 1) \subseteq Row
      OBVIOUS
    <3>1. g - 1 \in Nat /\ g - 1 < MaxSeqLen \div R
      BY <2>1, <1>2
    <3>. QED BY <3>1, <1>3
  <2>4. g * R \in Nat
    BY <2>1, <1>1, ProductFacts
  <2>5. /\ PrefillBlock(l, q, g).at = g * R
        /\ PrefillBlock(l, q, g).parts =
               ({"own"} \X rows(g))
               \cup IF Overlap(l) /\ g > 0 THEN {"overlap"} \X rows(g - 1) ELSE {}
    BY DEF PrefillBlock
  <2>. HIDE DEF rows, R
  <2>. QED BY <2>2, <2>3, <2>4, <2>5 DEF BlockTyped
<1>5. PrefillBlocks(l, bs, q, n) =
          [g \in BlockSlots(l) |-> IF g < n \div R THEN PrefillBlock(l, q, g) ELSE bs[g]]
  BY DEF PrefillBlocks
<1>. HIDE DEF rows, R
<1>. QED BY <1>4, <1>5 DEF BlocksTyped

LEMMA DecodeRingTyped ==
    ASSUME NEW q \in 1..MaxSequences, NEW p \in 0..MaxSeqLen - 1, NEW r \in [0..Win - 1 -> Row]
    PROVE  DecodeRing(r, q, p) \in [0..Win - 1 -> Row]
<1>1. <<q, p>> \in Row
  BY RowIn
<1>. QED BY <1>1 DEF DecodeRing

LEMMA DecodePendingTyped ==
    ASSUME NEW l \in Layer, Ratio[l] > 0, NEW q \in 1..MaxSequences,
           NEW p \in 0..MaxSeqLen - 1, NEW st, PendingTyped(l, st)
    PROVE  PendingTyped(l, Store(l, st, q, p)) /\ PendingTyped(l, DecodePending(l, st, q, p))
<1>1. <<q, p>> \in Row
  BY RowIn
<1>2. PendingTyped(l, Store(l, st, q, p))
  BY <1>1 DEF PendingTyped, Store
<1>3. ASSUME NEW S, PendingTyped(l, S) PROVE PendingTyped(l, Shift(l, S))
  <2>1. Ratio[l] \in Nat \ {0} /\ (Overlap(l) => Depth(l) = Ratio[l] + Ratio[l])
    BY LayerSizes
  <2>2. ASSUME NEW i \in 0..Depth(l) - 1, Overlap(l), i < Ratio[l]
        PROVE  Ratio[l] + i \in 0..Depth(l) - 1
    BY <2>1, <2>2
  <2>. QED BY <1>3, <2>2 DEF PendingTyped, Shift
<1>. QED BY <1>2, <1>3 DEF DecodePending

LEMMA DecodeBlocksTyped ==
    ASSUME NEW l \in Layer, Ratio[l] > 0, NEW q \in 1..MaxSequences,
           NEW p \in 0..MaxSeqLen - 1, NEW st, PendingTyped(l, st),
           NEW bs, BlocksTyped(l, bs)
    PROVE  BlocksTyped(l, DecodeBlocks(l, bs, st, q, p))
<1>. SUFFICES ASSUME Completes(l, p)
              PROVE  BlocksTyped(l, [bs EXCEPT ![p \div Ratio[l]] = Pool(l, Store(l, st, q, p), p)])
  BY DEF DecodeBlocks
<1> DEFINE R == Ratio[l]
           S == Store(l, st, q, p)
           lower == {S[i] : i \in 0..R - 1} \ {None}
           upper == {S[i] : i \in R..Depth(l) - 1} \ {None}
<1>1. R \in Nat \ {0} /\ Depth(l) >= R /\ Depth(l) \in Nat
  BY LayerSizes
<1>2. \A i \in 0..Depth(l) - 1 : S[i] \in Row
  <2>1. PendingTyped(l, S)
    BY DecodePendingTyped
  <2>. QED BY <2>1 DEF PendingTyped
<1>3. lower \subseteq Row /\ upper \subseteq Row
  <2>. HIDE DEF R, S
  <2>. QED BY <1>1, <1>2
<1>4. p + 1 - R \in Nat
  <2> DEFINE n == p + 1
  <2>1. n \in Nat \ {0} /\ n % R = 0
    BY DEF Completes
  <2>. HIDE DEF n, R
  <2>2. ~ (n < R)
    BY <2>1, <1>1, SmallResidue
  <2>3. R <= n
    BY <1>1, <2>1, <2>2
  <2>. QED BY <1>1, <2>1, <2>3 DEF n
<1>5. BlockTyped(Pool(l, S, p))
  <2>1. /\ Pool(l, S, p).at = p + 1 - R
        /\ Pool(l, S, p).parts = IF Overlap(l) THEN ({"overlap"} \X lower) \cup ({"own"} \X upper)
                                 ELSE {"own"} \X lower
    BY DEF Pool
  <2>. HIDE DEF lower, upper, R, S
  <2>. QED BY <2>1, <1>3, <1>4 DEF BlockTyped
<1>. HIDE DEF S
<1>. QED BY <1>5 DEF BlocksTyped, S

(***************************************************************************)
(* One layer's memory is replaced: what a step leaves of the invariant.    *)
(***************************************************************************)
Stored ==
    /\ ring \in [Layer -> [0..Win - 1 -> Row]]
    /\ DOMAIN blocks = Layer /\ DOMAIN pending = Layer
    /\ \A l \in Layer : BlocksTyped(l, blocks[l]) /\ PendingTyped(l, pending[l])

Control ==
    /\ call \in [kind : {"none", "warmup", "prompt", "token"}, start : 0..MaxSeqLen - 1,
                 len : 0..MaxSeqLen, layer : {0} \cup Layer]
    /\ sequence \in 0..MaxSequences
    /\ prevPos \in 0..MaxSeqLen - 1

LEMMA TypeParts == (TypeOK <=> Stored /\ Control) /\ (TypeOK' <=> (Stored /\ Control)')
  BY DEF TypeOK, Stored, Control, BlocksTyped, BlockTyped, PendingTyped

LEMMA Replaced ==
    ASSUME Stored, NEW l \in Layer, NEW r \in [0..Win - 1 -> Row], NEW bs, NEW st,
           ring' = [ring EXCEPT ![l] = r],
           Ratio[l] = 0 => UNCHANGED <<blocks, pending>>,
           Ratio[l] > 0 => /\ blocks' = [blocks EXCEPT ![l] = bs]
                           /\ pending' = [pending EXCEPT ![l] = st]
                           /\ BlocksTyped(l, bs) /\ PendingTyped(l, st)
    PROVE  /\ Stored'
           /\ ring'[l] = r
           /\ Ratio[l] > 0 => blocks'[l] = bs /\ pending'[l] = st
           /\ \A m \in Layer \ {l} :
                  ring'[m] = ring[m] /\ blocks'[m] = blocks[m] /\ pending'[m] = pending[m]
<1>1. Ratio[l] \in Nat
  BY Sizes
<1>2. ring' \in [Layer -> [0..Win - 1 -> Row]] /\ ring'[l] = r
  BY DEF Stored
<1>3. \A m \in Layer \ {l} : ring'[m] = ring[m]
  BY DEF Stored
<1>4. CASE Ratio[l] = 0
  BY <1>2, <1>3, <1>4 DEF Stored
<1>5. CASE Ratio[l] > 0
  <2>1. /\ DOMAIN blocks' = Layer /\ DOMAIN pending' = Layer
        /\ blocks'[l] = bs /\ pending'[l] = st
        /\ \A m \in Layer \ {l} : blocks'[m] = blocks[m] /\ pending'[m] = pending[m]
    BY <1>5 DEF Stored
  <2>2. \A m \in Layer : BlocksTyped(m, blocks'[m]) /\ PendingTyped(m, pending'[m])
    <3>. SUFFICES ASSUME NEW m \in Layer
                  PROVE  BlocksTyped(m, blocks'[m]) /\ PendingTyped(m, pending'[m])
      OBVIOUS
    <3>1. CASE m = l
      BY <3>1, <2>1, <1>5
    <3>2. CASE m # l
      BY <3>2, <2>1 DEF Stored
    <3>. QED BY <3>1, <3>2
  <2>. QED BY <2>1, <2>2, <1>2, <1>3, <1>5 DEF Stored
<1>. QED BY <1>1, <1>4, <1>5

LEMMA PrefillFills ==
    ASSUME NEW l \in Layer, NEW q, NEW n \in 1..MaxSeqLen, NEW r, NEW bs, NEW st,
           r = PrefillRing(ring[l], q, n),
           Ratio[l] > 0 => /\ bs = PrefillBlocks(l, blocks[l], q, n)
                           /\ st = PrefillPending(l, pending[l], q, n)
    PROVE  Memory(l, r, bs, st, q, n)
<1>1. n \in Nat /\ n \in 0..MaxSeqLen
  BY Sizes
<1>2. RingIs(r, q, n)
  BY <1>1, PrefillFillsRing
<1>3. Ratio[l] > 0 => BlocksAre(l, bs, q, n) /\ PendingIs(l, st, q, n)
  BY <1>1, PrefillFillsBlocks, PrefillFillsPending
<1>. QED BY <1>2, <1>3 DEF Memory

LEMMA DecodeFills ==
    ASSUME Stored, NEW l \in Layer, NEW q \in 1..MaxSequences, NEW p \in 1..MaxSeqLen - 1,
           Memory(l, ring[l], blocks[l], pending[l], q, p), p >= OverlapRatio,
           NEW r, NEW bs, NEW st,
           r = DecodeRing(ring[l], q, p),
           Ratio[l] > 0 => /\ bs = DecodeBlocks(l, blocks[l], pending[l], q, p)
                           /\ st = DecodePending(l, pending[l], q, p)
    PROVE  Memory(l, r, bs, st, q, p + 1)
<1>1. p \in Nat /\ p < MaxSeqLen /\ p \in 0..MaxSeqLen - 1
  BY Sizes
<1>2. DOMAIN ring[l] = 0..Win - 1 /\ BlocksTyped(l, blocks[l]) /\ PendingTyped(l, pending[l])
  BY DEF Stored
<1>3. RingIs(r, q, p + 1)
  BY <1>1, <1>2, DecodeFillsRing DEF Memory
<1>4. ASSUME Ratio[l] > 0
      PROVE  BlocksAre(l, bs, q, p + 1) /\ PendingIs(l, st, q, p + 1)
  <2>1. BlocksAre(l, blocks[l], q, p) /\ PendingIs(l, pending[l], q, p)
    BY <1>4 DEF Memory
  <2>2. Overlap(l) => p >= Ratio[l]
    BY DEF Overlap
  <2>3. DOMAIN pending[l] = 0..Depth(l) - 1 /\ DOMAIN blocks[l] = BlockSlots(l)
    BY <1>2 DEF BlocksTyped, PendingTyped
  <2>4. PendingIs(l, st, q, p + 1)
    BY <1>1, <1>4, <2>1, <2>2, <2>3, DecodeFillsPending
  <2>5. BlocksAre(l, bs, q, p + 1)
    BY <1>1, <1>4, <2>1, <2>2, <2>3, DecodeFillsBlocks
  <2>. QED BY <2>4, <2>5
<1>. QED BY <1>3, <1>4 DEF Memory

(***************************************************************************)
(* The inductive invariant.                                                *)
(***************************************************************************)
LEMMA InitSound == Init => IInv
<1>. SUFFICES ASSUME Init PROVE IInv
  OBVIOUS
<1>0. /\ Win \in Nat \ {0} /\ MaxSeqLen \in Nat \ {0} /\ MaxSequences \in Nat
      /\ \A l \in Layer : Ratio[l] \in Nat
  BY Sizes
<1>1. Stored
  <2>1. None \in Row
    BY DEF Row
  <2>2. BlockTyped(NoBlock)
    BY DEF BlockTyped, NoBlock
  <2>. QED BY <2>1, <2>2 DEF Init, Stored, BlocksTyped, PendingTyped
<1>2. Control /\ Idle /\ prevPos = 0
  BY <1>0 DEF Init, Control, NoCall, Idle
<1>3. Progress
  BY <1>2 DEF Progress, Idle, NoCall
<1>4. ContextExact
  BY DEF Init, ContextExact, Nothing
<1>. QED BY <1>1, <1>2, <1>3, <1>4, TypeParts DEF IInv

\* Steps that write no memory.
LEMMA StartSound ==
    ASSUME IInv, Warmup \/ (\E n \in MinPrompt..MaxSeqLen - 1 : Prompt(n)) \/ NextToken
    PROVE  IInv'
<1>0. /\ NumLayers \in Nat \ {0} /\ MaxSeqLen \in Nat \ {0} /\ MaxSequences \in Nat \ {0}
      /\ WarmupLen \in Nat \ {0} /\ WarmupLen < MaxSeqLen
      /\ MinPrompt \in Nat \ {0} /\ MinPrompt < MaxSeqLen
  BY Sizes
<1>1. Stored /\ Control /\ Progress
  BY TypeParts DEF IInv
<1>2. 1 \in Layer /\ 1..1 - 1 = {}
  BY <1>0 DEF Layer
<1>3. UNCHANGED <<ring, blocks, pending, prevPos>> /\ seen' = Nothing
  BY DEF Warmup, Prompt, NextToken, Forward
<1>4. Stored'
  BY <1>1, <1>3 DEF Stored
<1>5. ContextExact'
  BY <1>3 DEF ContextExact, Nothing
<1>6. sequence \in 0..MaxSequences /\ prevPos \in 0..MaxSeqLen - 1
  BY <1>1 DEF Control
<1>7. CASE Warmup
  <2>1. /\ call' = [kind |-> "warmup", start |-> 0, len |-> WarmupLen, layer |-> 1]
        /\ sequence' = sequence + 1 /\ sequence < MaxSequences /\ prevPos = 0 /\ prevPos' = 0
    BY <1>7 DEF Warmup, Forward
  <2>2. sequence' \in 1..MaxSequences
    BY <2>1, <1>0, <1>6
  <2>3. Control'
    BY <2>1, <2>2, <1>0, <1>2 DEF Control
  <2>4. Progress'
    BY <2>1, <2>2, <1>2 DEF Progress, Idle, NoCall
  <2>. QED BY <2>3, <2>4, <1>4, <1>5, TypeParts DEF IInv
<1>8. ASSUME NEW n \in MinPrompt..MaxSeqLen - 1, Prompt(n) PROVE IInv'
  <2>1. /\ call' = [kind |-> "prompt", start |-> 0, len |-> n, layer |-> 1]
        /\ sequence' = sequence + 1 /\ sequence < MaxSequences /\ prevPos' = prevPos
    BY <1>8 DEF Prompt, Forward
  <2>2. sequence' \in 1..MaxSequences
    BY <2>1, <1>0, <1>6
  <2>3. Control'
    BY <2>1, <2>2, <1>0, <1>2, <1>6 DEF Control
  <2>4. Progress'
    BY <2>1, <2>2, <1>1, <1>2 DEF Progress, Idle, NoCall
  <2>. QED BY <2>3, <2>4, <1>4, <1>5, TypeParts DEF IInv
<1>9. CASE NextToken
  <2>1. /\ call' = [kind |-> "token", start |-> prevPos, len |-> 1, layer |-> 1]
        /\ sequence' = sequence /\ prevPos > 0 /\ prevPos < MaxSeqLen - 1 /\ prevPos' = prevPos
        /\ Idle
    BY <1>9 DEF NextToken, Forward
  <2>2. sequence \in 1..MaxSequences /\ prevPos >= OverlapRatio /\ \A l \in Layer : Holds(l, prevPos)
    BY <2>1, <1>1 DEF Progress
  <2>3. Control'
    BY <2>1, <1>0, <1>1, <1>2 DEF Control
  <2>4. prevPos \in 1..MaxSeqLen - 2
    BY <2>1, <1>0, <1>6
  <2>5. \A l \in Layer : ~ (l < 1)
    BY DEF Layer
  <2>6. \A l \in Layer : Holds(l, prevPos)' /\ Holds(l, IF l < call.layer THEN prevPos + 1 ELSE prevPos)'
    BY <2>1, <2>2, <2>5, <1>3 DEF Holds
  <2>7. Progress'
    BY <2>1, <2>2, <2>4, <2>6, <1>2 DEF Progress, Idle, NoCall
  <2>. QED BY <2>3, <2>7, <1>4, <1>5, TypeParts DEF IInv
<1>. QED BY <1>7, <1>8, <1>9

LEMMA AbandonSound ==
    ASSUME IInv, Abandon \/ UNCHANGED vars
    PROVE  IInv'
<1>1. Stored /\ Control /\ Progress /\ ContextExact
  BY TypeParts DEF IInv
<1>2. CASE Abandon
  <2>1. /\ call' = NoCall /\ UNCHANGED <<ring, blocks, pending, sequence, prevPos, seen>>
        /\ prevPos = 0 /\ sequence \in 1..MaxSequences
    BY <1>1, <1>2 DEF Abandon, Progress
  <2>2. Stored' /\ ContextExact'
    BY <2>1, <1>1 DEF Stored, ContextExact
  <2>3. Control'
    BY <2>1, <1>1, Sizes DEF Control, NoCall
  <2>4. Progress'
    BY <2>1 DEF Progress, Idle, NoCall
  <2>. QED BY <2>2, <2>3, <2>4, TypeParts DEF IInv
<1>3. CASE UNCHANGED vars
  BY <1>1, <1>3 DEF IInv, TypeOK, Progress, ContextExact, Holds, Idle, vars
<1>. QED BY <1>2, <1>3

\* The query that Attended records sees its context.
LEMMA AttendedSound ==
    ASSUME NEW l \in Layer, NEW start \in Nat, NEW n \in Nat \ {0},
           start = 0 \/ n = 1, start + n <= MaxSeqLen,
           call.start = start, call.len = n, sequence' = sequence,
           Memory(l, ring'[l], blocks'[l], pending'[l], sequence, start + n),
           NEW rows,
           rows = IF start = 0 THEN [i \in 0..n - 1 |-> <<sequence, i>>] ELSE ring'[l],
           Attended(l, rows, blocks'[l])
    PROVE  ContextExact'
<1>0. PICK s \in 0..n - 1 : \E chosen \in BlockChoices(l, start, n, s) :
          seen' = [layer    |-> l,
                   position |-> start + s,
                   window   |-> {rows[i] : i \in WindowIdxs(start, n, s)},
                   blocks   |-> {blocks'[l][g] : g \in chosen}]
  BY DEF Attended
<1>1. PICK chosen \in BlockChoices(l, start, n, s) :
          seen' = [layer    |-> l,
                   position |-> start + s,
                   window   |-> {rows[i] : i \in WindowIdxs(start, n, s)},
                   blocks   |-> {blocks'[l][g] : g \in chosen}]
  BY <1>0
<1>a. s \in 0..n - 1 /\ s \in Nat /\ chosen \in BlockChoices(l, start, n, s)
  BY <1>0, <1>1
<1>2. PICK r, bs, st, q : r = ring'[l] /\ bs = blocks'[l] /\ st = pending'[l] /\ q = sequence
  OBVIOUS
<1>3. /\ Memory(l, r, bs, st, q, start + n)
      /\ start = 0 => rows = [i \in 0..n - 1 |-> <<q, i>>]
      /\ start # 0 => rows = r
  BY <1>2
<1>4. {rows[i] : i \in WindowIdxs(start, n, s)} = WindowAt(q, start + s)
  <2>1. CASE start = 0
    <3>a. start + s = s
      BY ONLY <1>a, <2>1
    <3>b. rows = [i \in 0..n - 1 |-> <<q, i>>]
      BY ONLY <1>3, <2>1
    <3>1. start + s = s /\ rows = [i \in 0..n - 1 |-> <<q, i>>]
      BY <3>a, <3>b
    <3>2. {[i \in 0..n - 1 |-> <<q, i>>][j] : j \in WindowIdxs(0, n, s)} = WindowAt(q, s)
      BY <1>a, PrefillWindow
    <3>. QED BY ONLY <2>1, <3>1, <3>2
  <2>2. CASE start # 0
    <3>1. s = 0 /\ n = 1 /\ start + s = start /\ start \in Nat \ {0}
      BY <1>a, <2>2
    <3>2. RingIs(r, q, start + 1) /\ rows = r
      BY <1>3, <3>1, <2>2 DEF Memory
    <3>3. {r[i] : i \in WindowIdxs(start, 1, 0)} = WindowAt(q, start)
      BY <3>1, <3>2, DecodeWindow
    <3>. QED BY ONLY <3>1, <3>2, <3>3
  <2>. QED BY <2>1, <2>2
<1>5. Ratio[l] = 0 => {bs[g] : g \in chosen} = {}
  BY <1>a DEF BlockChoices
<1>6. Ratio[l] # 0 => SeesBlocks(l, {bs[g] : g \in chosen}, q, start + s)
  <2>. SUFFICES ASSUME Ratio[l] # 0
                PROVE  SeesBlocks(l, {bs[g] : g \in chosen}, q, start + s)
    OBVIOUS
  <2>1. Ratio[l] > 0
    BY Sizes
  <2>2. BlocksAre(l, bs, q, start + n)
    BY <1>3, <2>1 DEF Memory
  <2>3. /\ l \in Layer /\ start \in Nat /\ n \in Nat \ {0} /\ (start = 0 \/ n = 1)
        /\ start + n <= MaxSeqLen
    OBVIOUS
  <2>. QED BY ONLY <1>a, <2>1, <2>2, <2>3, SeenBlocks
<1>7. {blocks'[l][g] : g \in chosen} = {bs[g] : g \in chosen}
  BY <1>2
<1>8. PICK W, B : /\ W = {rows[i] : i \in WindowIdxs(start, n, s)}
                  /\ B = {bs[g] : g \in chosen}
  OBVIOUS
<1>9. /\ seen'.window = W /\ seen'.position = start + s /\ seen'.layer = l /\ seen'.blocks = B
  BY <1>1, <1>7, <1>8
<1>10. /\ W = WindowAt(sequence', start + s)
       /\ IF Ratio[l] = 0 THEN B = {} ELSE SeesBlocks(l, B, sequence', start + s)
  BY <1>2, <1>4, <1>5, <1>6, <1>8
<1>. QED BY <1>9, <1>10 DEF ContextExact, SeesBlocks

LEMMA PrefillLayerSound ==
    ASSUME IInv, PrefillLayer
    PROVE  IInv'
<1> DEFINE l == call.layer
           n == call.len
           q == sequence
           r == PrefillRing(ring[l], q, n)
           bs == PrefillBlocks(l, blocks[l], q, n)
           st == PrefillPending(l, pending[l], q, n)
           rows == [i \in 0..n - 1 |-> <<q, i>>]
<1>0. /\ NumLayers \in Nat \ {0} /\ MaxSeqLen \in Nat \ {0}
      /\ WarmupLen \in Nat \ {0} /\ WarmupLen < MaxSeqLen /\ OverlapRatio \in Nat \ {0}
      /\ MinPrompt \in Nat \ {0} /\ MinPrompt < MaxSeqLen /\ OverlapRatio <= MinPrompt
      /\ \A m \in Layer : Ratio[m] \in Nat
  BY Sizes
<1>1. Stored /\ Control /\ Progress
  BY TypeParts DEF IInv
<1>2. /\ l \in Layer /\ q \in 1..MaxSequences /\ call.start = 0
      /\ n \in 1..MaxSeqLen - 1 /\ (call.kind = "prompt" => n >= MinPrompt)
      /\ \/ call.kind = "warmup" /\ prevPos = 0
         \/ call.kind = "prompt"
      /\ \A m \in 1..l - 1 : Holds(m, n)
  <2>1. call.kind \in {"warmup", "prompt"}
    BY DEF PrefillLayer
  <2>2. n = WarmupLen \/ n \in MinPrompt..MaxSeqLen - 1
    BY <2>1, <1>1 DEF Progress
  <2>3. n \in 1..MaxSeqLen - 1
    BY <2>2, <1>0
  <2>. QED BY <2>1, <2>3, <1>0, <1>1 DEF Progress
<1>3. /\ ring' = [ring EXCEPT ![l] = r]
      /\ Ratio[l] = 0 => UNCHANGED <<blocks, pending>>
      /\ Ratio[l] > 0 => /\ blocks' = [blocks EXCEPT ![l] = bs]
                         /\ pending' = [pending EXCEPT ![l] = st]
      /\ Attended(l, rows, blocks'[l]) /\ Finish /\ sequence' = sequence
  BY DEF PrefillLayer
<1>4. /\ n \in 1..MaxSeqLen /\ n \in Nat \ {0} /\ n <= MaxSeqLen
      /\ ring[l] \in [0..Win - 1 -> Row]
      /\ BlocksTyped(l, blocks[l]) /\ PendingTyped(l, pending[l])
  BY <1>0, <1>1, <1>2 DEF Stored
<1>. HIDE DEF l, n, q, r, bs, st, rows
<1>5. /\ r \in [0..Win - 1 -> Row]
      /\ Ratio[l] > 0 => BlocksTyped(l, bs) /\ PendingTyped(l, st)
  <2>1. r \in [0..Win - 1 -> Row]
    BY <1>2, <1>4, PrefillRingTyped DEF r
  <2>2. Ratio[l] > 0 => BlocksTyped(l, bs)
    BY <1>2, <1>4, PrefillBlocksTyped DEF bs
  <2>3. Ratio[l] > 0 => PendingTyped(l, st)
    BY <1>2, <1>4, PrefillPendingTyped DEF st
  <2>. QED BY <2>1, <2>2, <2>3
<1>6. /\ Stored'
      /\ ring'[l] = r
      /\ Ratio[l] > 0 => blocks'[l] = bs /\ pending'[l] = st
      /\ \A m \in Layer \ {l} :
             ring'[m] = ring[m] /\ blocks'[m] = blocks[m] /\ pending'[m] = pending[m]
  BY <1>1, <1>2, <1>3, <1>5, Replaced
<1>7. Memory(l, ring'[l], blocks'[l], pending'[l], q, n)
  BY <1>2, <1>4, <1>6, PrefillFills DEF r, bs, st
<1>8. \A m \in 1..l : Memory(m, ring'[m], blocks'[m], pending'[m], sequence', n)
  <2>. SUFFICES ASSUME NEW m \in 1..l
                PROVE  Memory(m, ring'[m], blocks'[m], pending'[m], q, n)
    BY <1>3 DEF q
  <2>1. CASE m = l
    BY <2>1, <1>7
  <2>2. CASE m # l
    <3>1. m \in 1..l - 1 /\ m \in Layer \ {l}
      BY <2>2, <1>0, <1>2 DEF Layer
    <3>2. Memory(m, ring[m], blocks[m], pending[m], q, n)
      BY <3>1, <1>2 DEF Holds, q
    <3>. QED BY <3>1, <3>2, <1>6
  <2>. QED BY <2>1, <2>2
<1>9. ContextExact'
  <2>1. 0 + n = n /\ 0 \in Nat
    BY <1>4
  <2>2. Memory(l, ring'[l], blocks'[l], pending'[l], sequence, 0 + n)
    BY <2>1, <1>7 DEF q
  <2>3. rows = [i \in 0..n - 1 |-> <<sequence, i>>]
    BY DEF rows, q
  <2>. QED BY <2>1, <2>2, <2>3, <1>2, <1>3, <1>4, AttendedSound DEF n
<1>10. CASE l < NumLayers
  <2>1. call' = [call EXCEPT !.layer = l + 1] /\ prevPos' = prevPos
    BY <1>3, <1>10 DEF Finish, l
  <2>2. l + 1 \in Layer /\ (l + 1) - 1 = l
    BY <1>0, <1>2, <1>10 DEF Layer
  <2>3. /\ call'.kind = call.kind /\ call'.start = 0 /\ call'.len = n /\ call'.layer = l + 1
        /\ Control'
    BY <2>1, <2>2, <1>1, <1>2, <1>3 DEF Control, n
  <2>4. Progress'
    <3>1. call'.kind # "none" /\ call' # NoCall /\ call'.kind # "token"
      BY <2>3, <1>2 DEF NoCall
    <3>2. call'.kind = "warmup" => call'.len = WarmupLen /\ prevPos' = 0
      BY <2>1, <2>3, <1>1 DEF Progress, n
    <3>3. call'.kind = "prompt" => call'.len \in MinPrompt..MaxSeqLen - 1
      BY <2>3, <1>0, <1>2
    <3>4. prevPos' > 0 => prevPos' >= OverlapRatio
      BY <2>1, <1>1 DEF Progress
    <3>5. \A m \in 1..call'.layer - 1 :
              Memory(m, ring'[m], blocks'[m], pending'[m], sequence', call'.len)
      BY <2>2, <2>3, <1>8
    <3>6. sequence' \in 1..MaxSequences
      BY <1>2, <1>3 DEF q
    <3>. QED BY <3>1, <3>2, <3>3, <3>4, <3>5, <3>6, <2>2, <2>3, <1>2 DEF Progress, Holds, Idle
  <2>. QED BY <2>3, <2>4, <1>6, <1>9, TypeParts DEF IInv
<1>11. CASE ~ (l < NumLayers)
  <2>1. call' = NoCall /\ prevPos' = IF call.kind = "warmup" THEN 0 ELSE n
    BY <1>2, <1>3, <1>4, <1>11 DEF Finish, l, n
  <2>2. Layer = 1..l
    BY <1>0, <1>2, <1>11 DEF Layer
  <2>3. sequence' \in 1..MaxSequences /\ prevPos' \in 0..MaxSeqLen - 1
    <3>1. 0 \in 0..MaxSeqLen - 1 /\ n \in 0..MaxSeqLen - 1
      BY <1>0, <1>2
    <3>. QED BY <3>1, <2>1, <1>2, <1>3 DEF q
  <2>4. Control'
    <3>1. call' = NoCall /\ MaxSequences \in Nat
      BY <2>1, Sizes
    <3>. QED BY <3>1, <2>3, <1>0 DEF Control, NoCall
  <2>5. Progress'
    <3>1. prevPos' > 0 => prevPos' = n /\ prevPos' >= OverlapRatio
      BY <2>1, <1>0, <1>2
    <3>2. prevPos' > 0 => \A m \in Layer :
              Memory(m, ring'[m], blocks'[m], pending'[m], sequence', prevPos')
      BY <3>1, <2>2, <1>8
    <3>. QED BY <3>1, <3>2, <2>1, <2>3 DEF Progress, Holds, Idle, NoCall
  <2>. QED BY <2>4, <2>5, <1>6, <1>9, TypeParts DEF IInv
<1>. QED BY <1>10, <1>11

LEMMA DecodeLayerSound ==
    ASSUME IInv, DecodeLayer
    PROVE  IInv'
<1> DEFINE l == call.layer
           p == call.start
           q == sequence
           r == DecodeRing(ring[l], q, p)
           bs == DecodeBlocks(l, blocks[l], pending[l], q, p)
           st == DecodePending(l, pending[l], q, p)
<1>0. /\ NumLayers \in Nat \ {0} /\ MaxSeqLen \in Nat \ {0} /\ OverlapRatio \in Nat \ {0}
      /\ \A m \in Layer : Ratio[m] \in Nat
  BY Sizes
<1>1. Stored /\ Control /\ Progress
  BY TypeParts DEF IInv
<1>2. /\ call.kind = "token" /\ l \in Layer /\ q \in 1..MaxSequences
      /\ p = prevPos /\ p \in 1..MaxSeqLen - 2 /\ p >= OverlapRatio /\ call.len = 1
      /\ \A m \in Layer : Holds(m, IF m < l THEN p + 1 ELSE p)
  <2>1. call.kind = "token"
    BY DEF DecodeLayer
  <2>2. p = prevPos /\ p \in 1..MaxSeqLen - 2
    BY <2>1, <1>1 DEF Progress
  <2>3. p > 0
    BY <2>2, <1>0
  <2>. QED BY <2>1, <2>2, <2>3, <1>1 DEF Progress
<1>3. /\ ring' = [ring EXCEPT ![l] = r]
      /\ Ratio[l] = 0 => UNCHANGED <<blocks, pending>>
      /\ Ratio[l] > 0 => /\ blocks' = [blocks EXCEPT ![l] = bs]
                         /\ pending' = [pending EXCEPT ![l] = st]
      /\ Attended(l, ring'[l], blocks'[l]) /\ Finish /\ sequence' = sequence
  BY DEF DecodeLayer
<1>4. /\ p \in 0..MaxSeqLen - 1 /\ p \in 1..MaxSeqLen - 1 /\ p \in Nat \ {0}
      /\ p + 1 <= MaxSeqLen - 1
      /\ ring[l] \in [0..Win - 1 -> Row]
      /\ BlocksTyped(l, blocks[l]) /\ PendingTyped(l, pending[l])
  BY <1>0, <1>1, <1>2 DEF Stored
<1>. HIDE DEF l, p, q, r, bs, st
<1>5. /\ r \in [0..Win - 1 -> Row]
      /\ Ratio[l] > 0 => BlocksTyped(l, bs) /\ PendingTyped(l, st)
  <2>1. r \in [0..Win - 1 -> Row]
    BY <1>2, <1>4, DecodeRingTyped DEF r
  <2>2. Ratio[l] > 0 => BlocksTyped(l, bs)
    BY <1>2, <1>4, DecodeBlocksTyped DEF bs
  <2>3. Ratio[l] > 0 => PendingTyped(l, st)
    BY <1>2, <1>4, DecodePendingTyped DEF st
  <2>. QED BY <2>1, <2>2, <2>3
<1>6. /\ Stored'
      /\ ring'[l] = r
      /\ Ratio[l] > 0 => blocks'[l] = bs /\ pending'[l] = st
      /\ \A m \in Layer \ {l} :
             ring'[m] = ring[m] /\ blocks'[m] = blocks[m] /\ pending'[m] = pending[m]
  BY <1>1, <1>2, <1>3, <1>5, Replaced
<1>7. Memory(l, ring'[l], blocks'[l], pending'[l], q, p + 1)
  <2>1. ~ (l < l)
    BY <1>2 DEF Layer
  <2>2. Memory(l, ring[l], blocks[l], pending[l], q, p)
    BY <2>1, <1>2 DEF Holds, q
  <2>. QED BY <2>2, <1>1, <1>2, <1>4, <1>6, DecodeFills DEF r, bs, st
<1>8. \A m \in Layer : Memory(m, ring'[m], blocks'[m], pending'[m], sequence',
                              IF m < l + 1 THEN p + 1 ELSE p)
  <2>. SUFFICES ASSUME NEW m \in Layer
                PROVE  Memory(m, ring'[m], blocks'[m], pending'[m], q,
                              IF m < l + 1 THEN p + 1 ELSE p)
    BY <1>3 DEF q
  <2>1. CASE m = l
    <3>1. m < l + 1
      BY <2>1, <1>2 DEF Layer
    <3>. QED BY <2>1, <3>1, <1>7
  <2>2. CASE m # l
    <3>1. (m < l + 1) = (m < l)
      BY <2>2, <1>2 DEF Layer
    <3>2. Memory(m, ring[m], blocks[m], pending[m], q, IF m < l THEN p + 1 ELSE p)
      BY <1>2 DEF Holds, q
    <3>. QED BY <3>1, <3>2, <2>2, <1>6
  <2>. QED BY <2>1, <2>2
<1>9. ContextExact'
  <2>1. Memory(l, ring'[l], blocks'[l], pending'[l], sequence, p + 1)
    BY <1>7 DEF q
  <2>2. p # 0 /\ p \in Nat /\ 1 \in Nat \ {0} /\ p + 1 <= MaxSeqLen
    BY <1>0, <1>4
  <2>3. ring'[l] = IF p = 0 THEN [i \in 0..1 - 1 |-> <<sequence, i>>] ELSE ring'[l]
    BY <2>2
  <2>. QED BY <2>1, <2>2, <2>3, <1>2, <1>3, AttendedSound DEF p
<1>10. CASE l < NumLayers
  <2>1. call' = [call EXCEPT !.layer = l + 1] /\ prevPos' = prevPos
    BY <1>3, <1>10 DEF Finish, l
  <2>2. l + 1 \in Layer
    BY <1>0, <1>2, <1>10 DEF Layer
  <2>3. /\ call'.kind = "token" /\ call'.start = p /\ call'.len = 1 /\ call'.layer = l + 1
        /\ Control'
    BY <2>1, <2>2, <1>1, <1>2, <1>3 DEF Control, p
  <2>4. Progress'
    <3>1. prevPos' = p /\ p > 0 /\ sequence' \in 1..MaxSequences /\ call' # NoCall
      BY <2>1, <2>3, <1>2, <1>3, <1>4 DEF q, NoCall
    <3>2. \A m \in Layer : Memory(m, ring'[m], blocks'[m], pending'[m], sequence',
                                  IF m < call'.layer THEN prevPos' + 1 ELSE prevPos')
      BY <3>1, <2>3, <1>8
    <3>. QED BY <3>1, <3>2, <2>2, <2>3, <1>2 DEF Progress, Holds, Idle
  <2>. QED BY <2>3, <2>4, <1>6, <1>9, TypeParts DEF IInv
<1>11. CASE ~ (l < NumLayers)
  <2>1. call' = NoCall /\ prevPos' = p + 1
    BY <1>2, <1>3, <1>11 DEF Finish, l, p
  <2>2. \A m \in Layer : m < l + 1
    BY <1>0, <1>2, <1>11 DEF Layer
  <2>3. sequence' \in 1..MaxSequences /\ prevPos' \in 0..MaxSeqLen - 1 /\ prevPos' >= OverlapRatio
    BY <2>1, <1>0, <1>2, <1>3, <1>4 DEF q
  <2>4. Control'
    BY <2>1, <2>3, <1>0, Sizes DEF Control, NoCall
  <2>5. \A m \in Layer : Memory(m, ring'[m], blocks'[m], pending'[m], sequence', prevPos')
    BY <2>1, <2>2, <1>8
  <2>6. Progress'
    BY <2>1, <2>3, <2>5 DEF Progress, Holds, Idle, NoCall
  <2>. QED BY <2>4, <2>6, <1>6, <1>9, TypeParts DEF IInv
<1>. QED BY <1>10, <1>11

LEMMA InvariantHolds == Spec => []IInv
<1>1. Init => IInv
  BY InitSound
<1>2. IInv /\ [Next]_vars => IInv'
  <2>. SUFFICES ASSUME IInv, [Next]_vars PROVE IInv'
    OBVIOUS
  <2>1. CASE Warmup \/ (\E n \in MinPrompt..MaxSeqLen - 1 : Prompt(n)) \/ NextToken
    BY <2>1, StartSound
  <2>2. CASE Abandon \/ UNCHANGED vars
    BY <2>2, AbandonSound
  <2>3. CASE PrefillLayer
    BY <2>3, PrefillLayerSound
  <2>4. CASE DecodeLayer
    BY <2>4, DecodeLayerSound
  <2>. QED BY <2>1, <2>2, <2>3, <2>4 DEF Next
<1>. QED BY <1>1, <1>2, PTL DEF Spec

(***************************************************************************)
(* Two memories that hold the same positions agree where they are live.    *)
(***************************************************************************)
LEMMA SameRing ==
    ASSUME NEW n \in Nat, NEW r, NEW u, NEW q, RingIs(r, q, n), RingIs(u, q, n),
           NEW i \in 0..Smaller(n, Win) - 1
    PROVE  r[i] = u[i]
<1>0. Win \in Nat \ {0}
  BY Sizes
<1>1. i \in Nat /\ i < n /\ i < Win
  BY <1>0 DEF Smaller
<1>2. \E p \in 0..n - 1 : n <= p + Win /\ p % Win = i
  <2>1. CASE Win <= n
    <3>1. i \in 0..Win - 1
      BY <1>0, <1>1
    <3>. QED BY <1>0, <2>1, <3>1, PositionIn
  <2>2. CASE ~ (Win <= n)
    <3>1. i \in 0..n - 1 /\ n <= i + Win
      BY <2>2, <1>0, <1>1
    <3>2. i % Win = i
      BY <1>0, <1>1, SmallResidue
    <3>. QED BY <3>1, <3>2
  <2>. QED BY <2>1, <2>2
<1>. QED BY <1>2 DEF RingIs

LEMMA SamePending ==
    ASSUME NEW l \in Layer, Ratio[l] > 0, NEW n \in Nat, NEW st, NEW u, NEW q,
           PendingIs(l, st, q, n), PendingIs(l, u, q, n), NEW i \in Live(l, n)
    PROVE  st[i] = u[i]
<1> DEFINE R == Ratio[l]
           k == n % R
           o == Offset(l)
           c == n - k
<1>1. R \in Nat \ {0} /\ (Overlap(l) => o = R) /\ (~ Overlap(l) => o = 0)
  BY LayerSizes
<1>2. k \in Nat /\ k < R /\ c \in Nat
  BY <1>1, BlockStart
<1>3. /\ \A j \in 0..k - 1 : st[o + j] = <<q, c + j>> /\ u[o + j] = <<q, c + j>>
      /\ Overlap(l) /\ n >= R =>
             \A j \in 0..R - 1 : st[j] = <<q, c - R + j>> /\ u[j] = <<q, c - R + j>>
  BY DEF PendingIs
<1>4. \/ ~ Overlap(l) /\ i \in 0..k - 1
      \/ Overlap(l) /\ n >= R /\ i \in 0..R - 1
      \/ Overlap(l) /\ i \in R..R + k - 1
  BY DEF Live
<1>. HIDE DEF R, k, o, c
<1>5. CASE ~ Overlap(l) /\ i \in 0..k - 1
  <2>1. o + i = i
    BY <1>1, <1>5
  <2>. QED BY <2>1, <1>3, <1>5
<1>6. CASE Overlap(l) /\ n >= R /\ i \in 0..R - 1
  BY <1>3, <1>6
<1>7. CASE Overlap(l) /\ i \in R..R + k - 1
  <2>1. i - R \in 0..k - 1 /\ o + (i - R) = i
    BY <1>1, <1>2, <1>7
  <2>. QED BY <2>1, <1>3
<1>. QED BY <1>4, <1>5, <1>6, <1>7

LEMMA HoldsIsPrefilled ==
    ASSUME NEW l \in Layer, NEW n \in 1..MaxSeqLen, Holds(l, n)
    PROVE  SameAsPrefill(l, n)
<1>1. n \in Nat /\ n \in 0..MaxSeqLen
  BY Sizes
<1>2. /\ RingIs(ring[l], sequence, n)
      /\ Ratio[l] > 0 => /\ BlocksAre(l, blocks[l], sequence, n)
                         /\ PendingIs(l, pending[l], sequence, n)
  BY DEF Holds, Memory
<1>3. \A i \in 0..Smaller(n, Win) - 1 : ring[l][i] = PrefillRing(ring[l], sequence, n)[i]
  <2>1. RingIs(PrefillRing(ring[l], sequence, n), sequence, n)
    BY <1>1, PrefillFillsRing
  <2>. QED BY <1>1, <1>2, <2>1, SameRing
<1>4. Ratio[l] > 0 => \A i \in Live(l, n) :
          pending[l][i] = PrefillPending(l, pending[l], sequence, n)[i]
  <2>. SUFFICES ASSUME Ratio[l] > 0, NEW i \in Live(l, n)
                PROVE  pending[l][i] = PrefillPending(l, pending[l], sequence, n)[i]
    OBVIOUS
  <2>1. PendingIs(l, PrefillPending(l, pending[l], sequence, n), sequence, n)
    BY <1>1, PrefillFillsPending
  <2>. QED BY <1>1, <1>2, <2>1, SamePending
<1>. QED BY <1>2, <1>3, <1>4 DEF SameAsPrefill, BlocksAre

(***************************************************************************)
(* The theorems.                                                           *)
(***************************************************************************)

\* Every buffer of every layer keeps its shape and holds rows that some call of
\* Attention.forward or Compressor.forward wrote (inference/model.py).
THEOREM TypeCorrect == Spec => []TypeOK
<1>1. IInv => TypeOK
  BY DEF IInv
<1>. QED BY <1>1, InvariantHolds, PTL

\* Whatever warmups, prompts and tokens came before, the rows and blocks that
\* sparse_attn gathers for a query are exactly the query's own context: the last
\* window_size positions of its own sequence and compressed blocks that lie wholly
\* at or before it, as many of them as index_topk allows.
THEOREM ContextIsExact == Spec => []ContextExact
<1>1. IInv => ContextExact
  BY DEF IInv
<1>. QED BY <1>1, InvariantHolds, PTL

\* After any number of decoding steps the ring, the finished blocks and the
\* compressor's state are what one prefill of the same positions leaves.
THEOREM DecodingIsPrefilling == Spec => []DecodeMatchesPrefill
<1>1. IInv => DecodeMatchesPrefill
  <2>. SUFFICES ASSUME IInv, Idle, prevPos > 0, NEW l \in Layer
                PROVE  SameAsPrefill(l, prevPos)
    BY DEF DecodeMatchesPrefill
  <2>1. Holds(l, prevPos)
    BY DEF IInv, Progress
  <2>2. prevPos \in 1..MaxSeqLen
    BY Sizes DEF IInv, TypeOK
  <2>3. PICK n \in 1..MaxSeqLen : n = prevPos
    BY <2>2
  <2>4. SameAsPrefill(l, n)
    BY <2>1, <2>3, HoldsIsPrefilled
  <2>. QED BY <2>3, <2>4
<1>. QED BY <1>1, InvariantHolds, PTL
=============================================================================
