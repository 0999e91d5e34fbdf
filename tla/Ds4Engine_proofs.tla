--------------------------- MODULE Ds4Engine_proofs ---------------------------
(***************************************************************************)
(* Proofs about Ds4Engine for any layers and ratios, window, chunk, ring   *)
(* and context that allow the code's own, any model, drafter, transcripts  *)
(* and failures: a session's graph is that of its checkpoint, attention    *)
(* reads what it must, a speculative call accepts what decoding would or,  *)
(* with batched verification, a near tie of it, a payload is consistent,   *)
(* and a generation is a greedy stream.                                    *)
(*                                                                         *)
(* The argument.  "Held" says that a graph holds the first n tokens of a   *)
(* sequence: ring row by ring row inside the window, block by block, and   *)
(* the slots of the compressor that will still be pooled.  A batch and a   *)
(* decode that start from a graph holding p tokens leave one that holds    *)
(* p + n and has read its windows right ("After").  A draft that is taken  *)
(* back leaves the rows of the window behind, and the frontier of before   *)
(* it, put back, gives a graph that holds the shorter sequence again       *)
(* ("Drafted").  "InCall" says for each call in progress which of these is *)
(* the case, and "SessionInv" is inductive.  "GenInv" says the same of a   *)
(* generation, whose CPU window is a queue instead of a ring.              *)
(***************************************************************************)
EXTENDS Ds4Engine, SequenceTheorems, DataFacts_proofs

(***************************************************************************)
(* Sequences, whatever they hold.                                          *)
(***************************************************************************)

IsSeq(t) == Len(t) \in Nat /\ t = [i \in 1 .. Len(t) |-> t[i]]

LEMMA ValuesIn ==
    ASSUME NEW s, IsSeq(s), NEW S, \A i \in 1 .. Len(s) : s[i] \in S
    PROVE  s \in Seq(S)
<1>1. s \in [1 .. Len(s) -> S] /\ Len(s) \in Nat
  BY DEF IsSeq
<1>. QED BY <1>1, SeqDef

LEMMA HasValues ==
    ASSUME NEW s, IsSeq(s)
    PROVE  s \in Seq({s[i] : i \in 1 .. Len(s)})
<1> DEFINE S == {s[i] : i \in 1 .. Len(s)}
<1>1. \A i \in 1 .. Len(s) : s[i] \in S
  OBVIOUS
<1> HIDE DEF S
<1>2. s \in Seq(S)
  BY <1>1, ValuesIn
<1>. QED BY <1>2 DEF S

LEMMA SeqIs ==
    ASSUME NEW S, NEW s \in Seq(S)
    PROVE  IsSeq(s)
  BY DEF IsSeq

LEMMA Listed ==
    ASSUME NEW n \in Nat, NEW s, s = [i \in 1 .. n |-> s[i]]
    PROVE  IsSeq(s) /\ Len(s) = n
<1> DEFINE S == {s[i] : i \in 1 .. n}
<1>1. s \in [1 .. n -> S]
  OBVIOUS
<1>2. s \in Seq(S) /\ Len(s) = n
  BY <1>1
<1>. QED BY <1>2, SeqIs

LEMMA SameSeq ==
    ASSUME NEW s, NEW t, IsSeq(s), IsSeq(t), Len(s) = Len(t), \A i \in 1 .. Len(s) : s[i] = t[i]
    PROVE  s = t
  BY DEF IsSeq

LEMMA AppendIs ==
    ASSUME NEW s, IsSeq(s), NEW x
    PROVE  /\ IsSeq(Append(s, x)) /\ Len(Append(s, x)) = Len(s) + 1
           /\ \A i \in 1 .. Len(s) : Append(s, x)[i] = s[i]
           /\ Append(s, x)[Len(s) + 1] = x
<1> DEFINE S == {s[i] : i \in 1 .. Len(s)} \cup {x}
<1>1. s \in Seq(S)
  <2>1. \A i \in 1 .. Len(s) : s[i] \in S
    OBVIOUS
  <2>. HIDE DEF S
  <2>. QED BY <2>1, ValuesIn
<1>2. x \in S
  OBVIOUS
<1> HIDE DEF S
<1>3. Append(s, x) \in Seq(S)
  BY <1>1, <1>2
<1>4. IsSeq(Append(s, x))
  BY <1>3, SeqIs
<1>. QED BY <1>1, <1>2, <1>4

LEMMA ConcatIs ==
    ASSUME NEW s, IsSeq(s), NEW d, IsSeq(d)
    PROVE  /\ IsSeq(s \o d) /\ Len(s \o d) = Len(s) + Len(d)
           /\ \A i \in 1 .. Len(s) : (s \o d)[i] = s[i]
           /\ \A i \in 1 .. Len(d) : (s \o d)[Len(s) + i] = d[i]
<1> DEFINE S == {s[i] : i \in 1 .. Len(s)} \cup {d[i] : i \in 1 .. Len(d)}
<1>1. s \in Seq(S)
  <2>1. \A i \in 1 .. Len(s) : s[i] \in S
    OBVIOUS
  <2>. HIDE DEF S
  <2>. QED BY <2>1, ValuesIn
<1>2. d \in Seq(S)
  <2>1. \A i \in 1 .. Len(d) : d[i] \in S
    OBVIOUS
  <2>. HIDE DEF S
  <2>. QED BY <2>1, ValuesIn
<1> HIDE DEF S
<1>3. s \o d \in Seq(S)
  BY <1>1, <1>2
<1>4. IsSeq(s \o d)
  BY <1>3, SeqIs
<1>. QED BY <1>1, <1>2, <1>4

LEMMA SubSeqIs ==
    ASSUME NEW s, IsSeq(s), NEW n \in 0 .. Len(s)
    PROVE  /\ SubSeq(s, 1, n) = [i \in 1 .. n |-> s[i]]
           /\ IsSeq(SubSeq(s, 1, n)) /\ Len(SubSeq(s, 1, n)) = n
<1>1. s \in Seq({s[i] : i \in 1 .. Len(s)}) /\ Len(s) \in Nat
  BY HasValues DEF IsSeq
<1> DEFINE S == {s[i] : i \in 1 .. Len(s)}
<1> HIDE DEF S
<1>2. SubSeq(s, 1, n) \in Seq(S) /\ Len(SubSeq(s, 1, n)) = n
      /\ \A i \in 1 .. n : SubSeq(s, 1, n)[i] = s[i]
  BY <1>1 DEF S
<1>3. IsSeq(SubSeq(s, 1, n))
  BY <1>2, SeqIs
<1>. QED BY <1>2, <1>3 DEF IsSeq

\* A prefix of a prefix, a prefix of what is appended to, and so on.
LEMMA PrefixFacts ==
    ASSUME NEW s, IsSeq(s)
    PROVE  /\ SubSeq(s, 1, Len(s)) = s
           /\ \A n \in 0 .. Len(s), m \in Nat : m <= n => SubSeq(SubSeq(s, 1, n), 1, m) = SubSeq(s, 1, m)
<1>1. Len(s) \in Nat /\ Len(s) \in 0 .. Len(s)
  BY DEF IsSeq
<1>2. SubSeq(s, 1, Len(s)) = s
  BY <1>1, SubSeqIs DEF IsSeq
<1>3. ASSUME NEW n \in 0 .. Len(s), NEW m \in Nat, m <= n
      PROVE  SubSeq(SubSeq(s, 1, n), 1, m) = SubSeq(s, 1, m)
  <2> DEFINE u == SubSeq(s, 1, n)
  <2>1. IsSeq(u) /\ Len(u) = n /\ u = [i \in 1 .. n |-> s[i]]
    BY SubSeqIs
  <2>2. m \in 0 .. n /\ m \in 0 .. Len(s)
    BY <1>1, <1>3
  <2>3. SubSeq(s, 1, m) = [i \in 1 .. m |-> s[i]]
    BY <2>2, SubSeqIs
  <2>4. \A i \in 1 .. m : u[i] = s[i]
    BY <2>1, <2>2
  <2> HIDE DEF u
  <2>5. SubSeq(u, 1, m) = [i \in 1 .. m |-> u[i]]
    BY <2>1, <2>2, SubSeqIs
  <2>. QED BY <2>3, <2>4, <2>5 DEF u
<1>. QED BY <1>2, <1>3

LEMMA PrefixOfAppend ==
    ASSUME NEW s, IsSeq(s), NEW x
    PROVE  /\ SubSeq(Append(s, x), 1, Len(s)) = s
           /\ Append(s, x) = s \o <<x>>
<1>1. IsSeq(Append(s, x)) /\ Len(Append(s, x)) = Len(s) + 1 /\ Len(s) \in Nat
      /\ \A i \in 1 .. Len(s) : Append(s, x)[i] = s[i]
      /\ Append(s, x)[Len(s) + 1] = x
  BY AppendIs DEF IsSeq
<1> DEFINE u == Append(s, x)
<1> HIDE DEF u
<1>2. SubSeq(u, 1, Len(s)) = [i \in 1 .. Len(s) |-> u[i]]
  BY <1>1, SubSeqIs DEF u
<1>3. [i \in 1 .. Len(s) |-> u[i]] = s
  BY <1>1 DEF u, IsSeq
<1>4. IsSeq(<<x>>) /\ Len(<<x>>) = 1 /\ <<x>>[1] = x
  <2>1. <<x>> \in Seq({x})
    OBVIOUS
  <2>. QED BY <2>1, SeqIs
<1>5. IsSeq(s \o <<x>>) /\ Len(s \o <<x>>) = Len(s) + 1
      /\ \A i \in 1 .. Len(s) : (s \o <<x>>)[i] = s[i]
      /\ (s \o <<x>>)[Len(s) + 1] = x
  BY <1>4, ConcatIs
<1>6. \A i \in 1 .. Len(s) + 1 : i \in 1 .. Len(s) \/ i = Len(s) + 1
  BY <1>1
<1> DEFINE v == s \o <<x>>
<1> HIDE DEF v
<1>7. u = v
  <2>1. \A i \in 1 .. Len(u) : u[i] = v[i]
    BY <1>1, <1>5, <1>6 DEF u, v
  <2>. QED BY <1>1, <1>5, <2>1, SameSeq DEF u, v
<1>. QED BY <1>2, <1>3, <1>7 DEF u, v

LEMMA PrefixOfConcat ==
    ASSUME NEW s, IsSeq(s), NEW d, IsSeq(d), NEW n \in 0 .. Len(d)
    PROVE  /\ SubSeq(s \o d, 1, Len(s)) = s
           /\ SubSeq(s \o d, 1, Len(s) + n) = s \o SubSeq(d, 1, n)
           /\ n < Len(d) => SubSeq(s \o d, 1, Len(s) + n + 1) = Append(s \o SubSeq(d, 1, n), d[n + 1])
<1>1. /\ IsSeq(s \o d) /\ Len(s \o d) = Len(s) + Len(d)
      /\ \A i \in 1 .. Len(s) : (s \o d)[i] = s[i]
      /\ \A i \in 1 .. Len(d) : (s \o d)[Len(s) + i] = d[i]
      /\ Len(s) \in Nat /\ Len(d) \in Nat
  <2>1. Len(s) \in Nat /\ Len(d) \in Nat
    BY DEF IsSeq
  <2>. QED BY <2>1, ConcatIs
<1> DEFINE u == s \o d
<1> HIDE DEF u
<1>2. SubSeq(u, 1, Len(s)) = s
  <2>1. SubSeq(u, 1, Len(s)) = [i \in 1 .. Len(s) |-> u[i]]
    BY <1>1, SubSeqIs DEF u
  <2>. QED BY <2>1, <1>1 DEF IsSeq, u
<1>3. ASSUME NEW k \in 0 .. Len(d)
      PROVE  SubSeq(u, 1, Len(s) + k) = s \o SubSeq(d, 1, k)
  <2> DEFINE e == SubSeq(d, 1, k)
             a == SubSeq(u, 1, Len(s) + k)
             b == s \o e
  <2>1. IsSeq(e) /\ Len(e) = k /\ \A i \in 1 .. k : e[i] = d[i]
    BY SubSeqIs
  <2>2. IsSeq(a) /\ Len(a) = Len(s) + k /\ \A i \in 1 .. Len(s) + k : a[i] = u[i]
    <3>1. Len(s) + k \in 0 .. Len(u)
      BY <1>1 DEF u
    <3>. QED BY <1>1, <3>1, SubSeqIs DEF u
  <2> HIDE DEF e, a
  <2>3. IsSeq(b) /\ Len(b) = Len(s) + k
        /\ (\A i \in 1 .. Len(s) : b[i] = s[i]) /\ (\A i \in 1 .. k : b[Len(s) + i] = e[i])
    <3>0. IsSeq(e)
      BY <2>1
    <3>1. /\ IsSeq(s \o e) /\ Len(s \o e) = Len(s) + Len(e)
          /\ \A i \in 1 .. Len(s) : (s \o e)[i] = s[i]
          /\ \A i \in 1 .. Len(e) : (s \o e)[Len(s) + i] = e[i]
      BY <3>0, ConcatIs
    <3>. QED BY <3>1, <2>1
  <2> HIDE DEF b
  <2>4. ASSUME NEW i \in 1 .. Len(s) + k PROVE a[i] = b[i]
    <3>1. CASE i <= Len(s)
      BY <3>1, <1>1, <2>2, <2>3 DEF u
    <3>2. CASE ~(i <= Len(s))
      <4> DEFINE j == i - Len(s)
      <4>1. j \in 1 .. k /\ j \in 1 .. Len(d) /\ i = Len(s) + j
        BY <3>2, <1>1
      <4> HIDE DEF j
      <4>. QED BY <4>1, <1>1, <2>1, <2>2, <2>3 DEF u
    <3>. QED BY <3>1, <3>2
  <2>5. a = b
    BY <2>2, <2>3, <2>4, SameSeq
  <2>. QED BY <2>5 DEF a, b, e
<1>4. ASSUME n < Len(d)
      PROVE  SubSeq(u, 1, Len(s) + n + 1) = Append(s \o SubSeq(d, 1, n), d[n + 1])
  <2> DEFINE a == SubSeq(u, 1, Len(s) + n + 1)
             c == s \o SubSeq(d, 1, n)
             b == Append(c, d[n + 1])
  <2>1. Len(s) + n + 1 \in 0 .. Len(u) /\ Len(s) + n \in 0 .. Len(u) /\ n + 1 \in 1 .. Len(d)
        /\ Len(s) + n \in Nat
    BY <1>1, <1>4 DEF u
  <2>2. IsSeq(a) /\ Len(a) = Len(s) + n + 1 /\ \A i \in 1 .. Len(s) + n + 1 : a[i] = u[i]
    BY <1>1, <2>1, SubSeqIs DEF u
  <2>3. IsSeq(c) /\ Len(c) = Len(s) + n /\ \A i \in 1 .. Len(s) + n : c[i] = u[i]
    <3>1. c = SubSeq(u, 1, Len(s) + n)
      BY <1>3
    <3> HIDE DEF c
    <3>. QED BY <1>1, <2>1, <3>1, SubSeqIs DEF u
  <2> HIDE DEF a, c
  <2>4. IsSeq(b) /\ Len(b) = Len(s) + n + 1
        /\ (\A i \in 1 .. Len(s) + n : b[i] = c[i]) /\ b[Len(s) + n + 1] = d[n + 1]
    BY <2>3, AppendIs
  <2>5. u[Len(s) + n + 1] = d[n + 1]
    BY <1>1, <2>1 DEF u
  <2> HIDE DEF b
  <2>6. \A i \in 1 .. Len(s) + n + 1 : i \in 1 .. Len(s) + n \/ i = Len(s) + n + 1
    BY <2>1
  <2>7. a = b
    <3>1. \A i \in 1 .. Len(a) : a[i] = b[i]
      BY <2>2, <2>3, <2>4, <2>5, <2>6
    <3>. QED BY <3>1, <2>2, <2>4, SameSeq
  <2>. QED BY <2>7 DEF a, b, c
<1>. QED BY <1>2, <1>3, <1>4 DEF u

(***************************************************************************)
(* The sizes of the graph, and the slots of its rings.                     *)
(***************************************************************************)

LEMMA Sizes ==
    /\ NumLayers \in Nat \ {0} /\ Win \in Nat \ {0} /\ PrefillCap \in Nat \ {0}
    /\ Ctx \in Nat \ {0} /\ OverlapRatio \in Nat \ {0}
    /\ RawCap \in Nat \ {0} /\ PrefillCap <= RawCap
    /\ Win + PrefillCap <= RawCap \/ Ctx <= RawCap
<1> DEFINE rows == Smaller(Win + PrefillCap, Ctx)
           A == RawAlign
           n == rows + A - 1
           q == n \div A
           x == q * A
<1>1. /\ NumLayers \in Nat \ {0} /\ Win \in Nat \ {0} /\ PrefillCap \in Nat \ {0}
      /\ Ctx \in Nat \ {0} /\ OverlapRatio \in Nat \ {0} /\ A \in Nat \ {0}
      /\ PrefillCap <= RawCap /\ RawMax \in Nat /\ PaddedRows <= RawMax
  BY GraphAssumption
<1>2. /\ rows \in Nat \ {0} /\ (rows = Win + PrefillCap \/ rows = Ctx)
  BY <1>1 DEF Smaller
<1>3. n \in Nat
  BY <1>1, <1>2
<1> HIDE DEF n
<1>4. q \in Nat /\ n % A \in Nat /\ n % A < A /\ n = A * q + (n % A)
  BY <1>1, <1>3, DivMod
<1> HIDE DEF q
<1>5. x = A * q /\ x \in Nat
  BY <1>1, <1>4, ProductFacts
<1> HIDE DEF x, rows
<1>6. x >= rows
  BY <1>1, <1>2, <1>3, <1>4, <1>5 DEF n
<1>7. RawCap = x
  <2>1. PaddedRows = x
    BY DEF PaddedRows, x, q, n, rows
  <2>2. Smaller(Win, Ctx) \in Nat /\ Smaller(Win, Ctx) <= x
    <3>1. Smaller(Win, Ctx) \in Nat /\ Smaller(Win, Ctx) <= rows
      BY <1>1 DEF rows, Smaller
    <3>. QED BY <3>1, <1>2, <1>5, <1>6
  <2>3. Smaller(PaddedRows, RawMax) = x
    BY <1>1, <2>1 DEF Smaller
  <2>. QED BY <1>5, <2>2, <2>3 DEF RawCap
<1>. QED BY <1>1, <1>2, <1>5, <1>6, <1>7

LEMMA LaneSizes ==
    ASSUME NEW ln \in Lane
    PROVE  /\ ln[1] \in Layer /\ LaneRatio(ln) = Ratio[ln[1]]
           /\ LaneRatio(ln) \in Nat \ {0} /\ LaneRatio(ln) > 2
<1>1. ln[1] \in Layer /\ Ratio[ln[1]] # 0
  BY GraphAssumption DEF Lane
<1>2. Ratio[ln[1]] \in Nat \ {1, 2}
  BY <1>1, GraphAssumption
<1>. QED BY <1>1, <1>2 DEF LaneRatio

LEMMA DivAntitone ==
    ASSUME NEW a \in Nat, NEW b \in Nat \ {0}, NEW c \in Nat \ {0}, b <= c
    PROVE  a \div c <= a \div b
<1> DEFINE q == a \div c
           y == c * q
<1>1. q \in Nat /\ a \div b \in Nat /\ y \in Nat /\ a % c \in Nat /\ a = y + (a % c)
  BY DivMod
<1>2. b * q <= c * q /\ b * q \in Nat
  BY <1>1, ProductMonotone
<1> HIDE DEF q, y
<1>3. CASE q = 0
  BY <1>1, <1>3 DEF q
<1>4. CASE q # 0
  <2> DEFINE g == q - 1
             z == b * q
  <2>1. g \in Nat /\ q = g + 1
    BY <1>1, <1>4
  <2>2. g * b + b = q * b /\ q * b = b * q
    BY <1>1, <2>1, ProductFacts
  <2>3. z \in Nat /\ z <= y
    BY <1>2 DEF y
  <2> HIDE DEF g, z
  <2>4. g * b + b <= a
    <3>1. g * b + b = z
      BY <2>2 DEF z
    <3>. QED BY <3>1, <2>3, <1>1
  <2>5. g < a \div b
    BY <2>1, <2>4, BlockFits
  <2>. QED BY <2>1, <2>5, <1>1 DEF q
<1>. QED BY <1>3, <1>4

\* The caches have room for all the blocks of the context.
LEMMA BlocksOfContext ==
    ASSUME NEW ln \in Lane, NEW n \in Nat, n <= Ctx
    PROVE  n \div LaneRatio(ln) <= CompCap /\ n \div LaneRatio(ln) \in Nat /\ CompCap \in Nat
<1> DEFINE ratios == {Ratio[l] : l \in Layer} \ {0}
           least == CHOOSE r \in ratios : \A s \in ratios : r <= s
           R == LaneRatio(ln)
<1>1. R \in ratios /\ R \in Nat \ {0}
  BY LaneSizes
<1>2. ratios \subseteq Nat \ {0}
  BY GraphAssumption
<1>3. \E r \in ratios : \A s \in ratios : r <= s
  <2> HIDE DEF ratios, R
  <2>1. ratios \in SUBSET Nat /\ ratios # {}
    BY <1>1, <1>2
  <2>. QED BY <2>1, LeastPosition
<1>4. least \in ratios /\ \A s \in ratios : least <= s
  <2> HIDE DEF ratios
  <2>. QED BY <1>3
<1>5. CompCap = Ctx \div least + 2
  BY DEF CompCap
<1> HIDE DEF ratios, least, R
<1>6. least \in Nat \ {0} /\ least <= R
  BY <1>1, <1>2, <1>4
<1>7. n \div R <= Ctx \div R
  BY <1>1, Sizes, DivMonotone
<1>8. Ctx \div R <= Ctx \div least
  BY <1>1, <1>6, Sizes, DivAntitone
<1>9. n \div R \in Nat /\ Ctx \div R \in Nat /\ Ctx \div least \in Nat
  BY <1>1, <1>6, Sizes, DivMod
<1>. QED BY <1>5, <1>7, <1>8, <1>9 DEF R

\* Positions less than a ring apart are in different slots.
LEMMA SlotsApart ==
    ASSUME NEW w \in Nat \ {0}, NEW p \in Nat, NEW q \in Nat, p < q, q < p + w
    PROVE  p % w # q % w
<1> DEFINE n == q + 1
           c == n - (n % w)
<1>1. n \in Nat /\ p < n /\ n <= p + w /\ q < n /\ n <= q + w
  OBVIOUS
<1> HIDE DEF n
<1>2. /\ c \in Nat
      /\ c <= p => p % w = p - c
      /\ p < c => p % w = p + w - c
  BY <1>1, SlotOf
<1>3. /\ c <= q => q % w = q - c
      /\ q < c => q % w = q + w - c
  BY <1>1, SlotOf
<1> HIDE DEF c
<1>. QED BY <1>2, <1>3

LEMMA SlotAdd ==
    ASSUME NEW w \in Nat \ {0}, NEW a \in Nat, NEW c \in Nat
    PROVE  ((a % w) + c) % w = (a + c) % w
<1> DEFINE k == a \div w
           r == a % w
           j == (r + c) \div w
           s == (r + c) % w
           x == w * k
           y == w * j
<1>1. k \in Nat /\ r \in Nat /\ x \in Nat /\ a = x + r
  BY DivMod
<1>2. r + c \in Nat
  BY <1>1
<1>3. j \in Nat /\ s \in Nat /\ s < w /\ y \in Nat /\ r + c = y + s
  BY <1>2, DivMod
<1>4. w * (k + j) = x + y
  <2> HIDE DEF k, j
  <2>. QED BY <1>1, <1>3, SMTT(20) DEF x, y
<1> HIDE DEF x, y, k, j, s, r
<1>5. a + c = w * (k + j) + s /\ k + j \in Nat /\ a + c \in Nat
  BY <1>1, <1>3, <1>4
<1>6. (a + c) % w = s
  <2> DEFINE u == k + j
             v == a + c
  <2>1. v = w * u + s /\ u \in Nat /\ v \in Nat
    BY <1>5
  <2> HIDE DEF u, v
  <2>2. v % w = s
    BY <2>1, <1>3, DivModUnique
  <2>. QED BY <2>2 DEF v
<1>. QED BY <1>6 DEF s, r

\* No row of a window a batch reads, or leaves to the next one, is overwritten.
LEMMA BatchRoom ==
    ASSUME NEW p \in Nat, NEW n \in Nat, p + n <= Ctx, n <= PrefillCap,
           NEW q \in Nat, p <= q + Win
    PROVE  p + n <= q + RawCap
  BY Sizes

LEMMA StoreRawIs ==
    ASSUME NEW ring, NEW t, NEW p0 \in Nat, NEW n \in Nat, NEW q \in Nat,
           q < p0 + n, p0 + n <= q + RawCap
    PROVE  StoreRaw(ring, t, p0, n)[q % RawCap] = IF p0 <= q THEN RowAt(t, q) ELSE ring[q % RawCap]
<1> DEFINE i == q % RawCap
           here == {p \in p0 .. p0 + n - 1 : p % RawCap = i}
<1>1. RawCap \in Nat \ {0}
  BY Sizes
<1>2. i \in 0 .. RawCap - 1
  <2> DEFINE w == RawCap
  <2>1. w \in Nat \ {0}
    BY <1>1
  <2> HIDE DEF w
  <2>2. q % w \in 0 .. w - 1
    BY <2>1, DivMod
  <2>. QED BY <2>2 DEF w
<1> DEFINE last == CHOOSE p \in here : \A x \in here : x <= p
<1>3. StoreRaw(ring, t, p0, n)[i] = IF here = {} THEN ring[i] ELSE RowAt(t, last)
  BY <1>2 DEF StoreRaw
<1>4. ASSUME NEW p \in p0 .. p0 + n - 1, q < p PROVE p % RawCap # i
  <2>1. p \in Nat /\ p < q + RawCap
    BY <1>1, <1>4
  <2>. QED BY <1>1, <1>4, <2>1, SlotsApart
<1>5. CASE p0 <= q
  <2>1. q \in here
    BY <1>5
  <2>2. \A x \in here : x <= q
    BY <1>4
  <2>3. \A p \in here : (\A x \in here : x <= p) => p = q
    BY <2>1, <2>2
  <2> HIDE DEF here
  <2>4. last = q
    BY <2>1, <2>2, <2>3
  <2> HIDE DEF last
  <2>5. StoreRaw(ring, t, p0, n)[i] = RowAt(t, q)
    BY <2>1, <2>4, <1>3
  <2>. QED BY <2>5, <1>5
<1>6. CASE ~(p0 <= q)
  <2>1. here = {}
    BY <1>4, <1>6
  <2>. QED BY <2>1, <1>3, <1>6
<1>. QED BY <1>5, <1>6

LEMMA SlotIn ==
    ASSUME NEW q \in Nat
    PROVE  q % RawCap \in 0 .. RawCap - 1
<1> DEFINE w == RawCap
<1>1. w \in Nat \ {0}
  BY Sizes
<1> HIDE DEF w
<1>2. q % w \in 0 .. w - 1
  BY <1>1, DivMod
<1>. QED BY <1>2 DEF w

\* Decoding stores its row as a batch of one does.
LEMMA DecodeStores ==
    ASSUME NEW ring, ring = [i \in 0 .. RawCap - 1 |-> ring[i]], NEW t, NEW p \in Nat
    PROVE  [ring EXCEPT ![p % RawCap] = RowAt(t, p)] = StoreRaw(ring, t, p, 1)
<1> DEFINE a == [ring EXCEPT ![p % RawCap] = RowAt(t, p)]
           b == StoreRaw(ring, t, p, 1)
           h(i) == {x \in p .. p + 1 - 1 : x % RawCap = i}
<1>0. p % RawCap \in 0 .. RawCap - 1
  BY SlotIn
<1>1. a = [i \in 0 .. RawCap - 1 |-> IF i = p % RawCap THEN RowAt(t, p) ELSE ring[i]]
  BY <1>0
<1>2. \A x : x \in p .. p + 1 - 1 <=> x = p
  OBVIOUS
<1>3. ASSUME NEW i PROVE h(i) = IF i = p % RawCap THEN {p} ELSE {}
  BY <1>2
<1>4. ASSUME NEW i \in 0 .. RawCap - 1
      PROVE  b[i] = IF i = p % RawCap THEN RowAt(t, p) ELSE ring[i]
  <2>1. b[i] = IF h(i) = {} THEN ring[i] ELSE RowAt(t, CHOOSE x \in h(i) : \A y \in h(i) : y <= x)
    BY DEF StoreRaw
  <2>2. CASE i = p % RawCap
    <3>1. h(i) = {p}
      BY <1>3, <2>2
    <3>2. (CHOOSE x \in {p} : \A y \in {p} : y <= x) = p
      OBVIOUS
    <3> HIDE DEF h
    <3>. QED BY <2>1, <2>2, <3>1, <3>2
  <2>3. CASE i # p % RawCap
    <3>1. h(i) = {}
      BY <1>3, <2>3
    <3> HIDE DEF h
    <3>. QED BY <2>1, <2>3, <3>1
  <2>. QED BY <2>2, <2>3
<1>5. b = [i \in 0 .. RawCap - 1 |-> b[i]]
  BY DEF StoreRaw
<1> HIDE DEF a, b, h
<1>. QED BY <1>1, <1>4, <1>5 DEF a, b

(***************************************************************************)
(* The compressor.                                                         *)
(***************************************************************************)

LEMMA RowFacts ==
    ASSUME NEW t, IsSeq(t)
    PROVE  /\ \A p \in Nat : p < Len(t) => RowAt(t, p) # NoRow
           /\ \A n \in 0 .. Len(t), p \in Nat : p < n => RowAt(SubSeq(t, 1, n), p) = RowAt(t, p)
<1>1. ASSUME NEW p \in Nat, p < Len(t) PROVE RowAt(t, p) # NoRow
  <2>1. p + 1 \in 0 .. Len(t) /\ p + 1 # 0
    BY <1>1 DEF IsSeq
  <2>2. Len(SubSeq(t, 1, p + 1)) = p + 1
    BY <2>1, SubSeqIs
  <2>3. Len(<< >>) = 0
    OBVIOUS
  <2> HIDE DEF IsSeq
  <2>. QED BY <2>1, <2>2, <2>3 DEF RowAt, NoRow
<1>2. ASSUME NEW n \in 0 .. Len(t), NEW p \in Nat, p < n
      PROVE  RowAt(SubSeq(t, 1, n), p) = RowAt(t, p)
  BY <1>2, PrefixFacts DEF RowAt
<1>. QED BY <1>1, <1>2

LEMMA Halves ==
    ASSUME NEW r \in Nat \ {0}
    PROVE  /\ CurrentHalf(r) \in {0, r} /\ Depth(r) = CurrentHalf(r) + r
           /\ r = OverlapRatio <=> CurrentHalf(r) = r
           /\ r # OverlapRatio <=> CurrentHalf(r) = 0
  BY DEF CurrentHalf, Depth

\* What slot i of the state holds after n tokens of t.
Slot(r, t, n, i) ==
    IF i \in CurrentHalf(r) .. CurrentHalf(r) + (n % r) - 1
    THEN RowAt(t, (n - (n % r)) + i - CurrentHalf(r))
    ELSE IF i < CurrentHalf(r) /\ n - (n % r) >= r THEN RowAt(t, (n - (n % r)) - r + i)
    ELSE NoRow

LEMMA StateAfterIs ==
    ASSUME NEW r \in Nat \ {0}, NEW t, IsSeq(t), NEW n \in 0 .. Len(t)
    PROVE  StateAfter(r, SubSeq(t, 1, n)) = [i \in 0 .. Depth(r) - 1 |-> Slot(r, t, n, i)]
<1> DEFINE u == SubSeq(t, 1, n)
           half == CurrentHalf(r)
           rem == n % r
           done == n - rem
           V(i) == IF i \in half .. half + rem - 1 THEN RowAt(u, done + i - half)
                   ELSE IF i < half /\ done >= r THEN RowAt(u, done - r + i)
                   ELSE NoRow
<1>1. Len(u) = n
  BY SubSeqIs
<1>2. n \in Nat /\ rem \in Nat /\ rem < r /\ done \in Nat /\ half \in {0, r}
      /\ (n >= r => done >= r)
  BY BlockStart, Halves DEF IsSeq
<1>3. StateAfter(r, u) = [i \in 0 .. Depth(r) - 1 |-> V(i)]
  <2> HIDE DEF u, half
  <2>. QED BY <1>1 DEF StateAfter, half
<1>4. ASSUME NEW i \in 0 .. Depth(r) - 1 PROVE V(i) = Slot(r, t, n, i)
  <2>1. CASE i \in half .. half + rem - 1
    <3>1. done + i - half \in Nat /\ done + i - half < n
      <4> HIDE DEF rem, half
      <4>. QED BY <1>2, <2>1
    <3>2. RowAt(u, done + i - half) = RowAt(t, done + i - half)
      BY <3>1, RowFacts
    <3>. QED BY <2>1, <3>2 DEF Slot
  <2>2. CASE i \notin half .. half + rem - 1 /\ i < half /\ done >= r
    <3>1. done - r + i \in Nat /\ done - r + i < n
      <4> HIDE DEF rem, half
      <4>. QED BY <1>2, <2>2
    <3>2. RowAt(u, done - r + i) = RowAt(t, done - r + i)
      BY <3>1, RowFacts
    <3>. QED BY <2>2, <3>2 DEF Slot
  <2>3. CASE i \notin half .. half + rem - 1 /\ ~(i < half /\ done >= r)
    BY <2>3 DEF Slot
  <2>. QED BY <2>1, <2>2, <2>3
<1> HIDE DEF V
<1>. QED BY <1>3, <1>4

LEMMA BlockOfPrefix ==
    ASSUME NEW r \in Nat \ {0}, NEW t, IsSeq(t), NEW n \in 0 .. Len(t), NEW g \in Nat, g < n \div r
    PROVE  BlockOf(r, SubSeq(t, 1, n), g) = BlockOf(r, t, g)
<1> DEFINE u == SubSeq(t, 1, n)
<1>1. n \in Nat
  BY DEF IsSeq
<1>2. ASSUME NEW h \in Nat, h < n \div r PROVE WindowRows(r, u, h) = WindowRows(r, t, h)
  <2> DEFINE x == h * r
  <2>1. x + r <= n /\ x \in Nat
    BY <1>1, <1>2, BlockFits, ProductFacts
  <2> HIDE DEF x
  <2>2. \A j \in 0 .. r - 1 : x + j \in Nat /\ x + j < n
    BY <1>1, <2>1
  <2>3. \A j \in 0 .. r - 1 : RowAt(u, x + j) = RowAt(t, x + j)
    BY <2>2, RowFacts
  <2> HIDE DEF u
  <2>. QED BY <2>3 DEF WindowRows, x
<1>3. WindowRows(r, u, g) = WindowRows(r, t, g)
  BY <1>2
<1>4. ASSUME g > 0 PROVE WindowRows(r, u, g - 1) = WindowRows(r, t, g - 1)
  <2>1. g - 1 \in Nat /\ g - 1 < n \div r
    <3>1. n \div r \in Nat
      BY <1>1, DivMod
    <3>. QED BY <1>4, <3>1
  <2>. QED BY <2>1, <1>2
<1> HIDE DEF u
<1>. QED BY <1>3, <1>4 DEF BlockOf, u

LEMMA BlocksIs ==
    ASSUME NEW r \in Nat \ {0}, NEW t, IsSeq(t), NEW n \in 0 .. Len(t)
    PROVE  Blocks(r, SubSeq(t, 1, n)) = [b \in 1 .. n \div r |-> BlockOf(r, t, b - 1)]
<1> DEFINE u == SubSeq(t, 1, n)
<1>1. Len(u) = n
  BY SubSeqIs
<1>2. n \in Nat /\ n \div r \in Nat
  BY DivMod DEF IsSeq
<1>3. ASSUME NEW b \in 1 .. n \div r PROVE BlockOf(r, u, b - 1) = BlockOf(r, t, b - 1)
  <2>1. b - 1 \in Nat /\ b - 1 < n \div r
    BY <1>2
  <2>. QED BY <2>1, BlockOfPrefix
<1> HIDE DEF u
<1>. QED BY <1>1, <1>3 DEF Blocks, u

\* CacheMatches, slot by slot.
Matches(r, c, t, n) ==
    /\ c.rows = [b \in 1 .. n \div r |-> BlockOf(r, t, b - 1)]
    /\ \A i \in 0 .. CurrentHalf(r) + (n % r) - 1 : c.state[i] = Slot(r, t, n, i)

LEMMA MatchesIs ==
    ASSUME NEW r \in Nat \ {0}, NEW c, NEW t, IsSeq(t), NEW n \in 0 .. Len(t)
    PROVE  CacheMatches(r, c, SubSeq(t, 1, n)) <=> Matches(r, c, t, n)
<1> DEFINE u == SubSeq(t, 1, n)
<1>1. Len(u) = n
  BY SubSeqIs
<1>2. Blocks(r, u) = [b \in 1 .. n \div r |-> BlockOf(r, t, b - 1)]
  BY BlocksIs
<1>3. StateAfter(r, u) = [i \in 0 .. Depth(r) - 1 |-> Slot(r, t, n, i)]
  BY StateAfterIs
<1>4. 0 .. CurrentHalf(r) + (n % r) - 1 \subseteq 0 .. Depth(r) - 1
  <2>1. n % r \in Nat /\ n % r < r
    BY DivMod DEF IsSeq
  <2>. QED BY <2>1, Halves
<1> HIDE DEF u
<1>5. \A i \in 0 .. CurrentHalf(r) + (n % r) - 1 : StateAfter(r, u)[i] = Slot(r, t, n, i)
  BY <1>3, <1>4
<1>. QED BY <1>1, <1>2, <1>5 DEF CacheMatches, Matches, u

LaneShape(r, c) ==
    /\ c = [rows |-> c.rows, state |-> c.state]
    /\ IsSeq(c.rows)
    /\ c.state = [i \in 0 .. Depth(r) - 1 |-> c.state[i]]

Stored(r, c, t, p) == [c.state EXCEPT ![StateSlot(r, p)] = RowAt(t, p)]

LEMMA CompressIs ==
    ASSUME NEW r \in Nat \ {0}, NEW c, LaneShape(r, c), NEW t, NEW p \in Nat
    PROVE  /\ Compress(r, c, t, p) =
                 IF (p % r) + 1 = r
                 THEN [rows |-> Append(c.rows, Pooled(r, Stored(r, c, t, p))),
                       state |-> Slide(r, Stored(r, c, t, p))]
                 ELSE [rows |-> c.rows, state |-> Stored(r, c, t, p)]
           /\ Stored(r, c, t, p) =
                 [i \in 0 .. Depth(r) - 1 |-> IF i = CurrentHalf(r) + (p % r) THEN RowAt(t, p) ELSE c.state[i]]
           /\ CurrentHalf(r) + (p % r) \in 0 .. Depth(r) - 1
           /\ (p % r) + 1 = r <=> Emits(r, p)
<1>1. (p % r) + 1 = r <=> Emits(r, p)
  <2>1. \/ (p % r) + 1 < r /\ (p + 1) % r = (p % r) + 1
        \/ (p % r) + 1 = r /\ (p + 1) % r = 0
    BY DivModSucc
  <2>2. p % r \in Nat
    BY DivMod
  <2>. QED BY <2>1, <2>2 DEF Emits
<1>2. CurrentHalf(r) + (p % r) \in 0 .. Depth(r) - 1
  BY DivMod, Halves
<1>3. Stored(r, c, t, p) =
                 [i \in 0 .. Depth(r) - 1 |-> IF i = CurrentHalf(r) + (p % r) THEN RowAt(t, p) ELSE c.state[i]]
  BY <1>2 DEF LaneShape, Stored, StateSlot
<1>4. ASSUME NEW s PROVE [c EXCEPT !.state = s] = [rows |-> c.rows, state |-> s]
  BY DEF LaneShape
<1>5. Compress(r, c, t, p) =
                 IF (p % r) + 1 = r
                 THEN [rows |-> Append(c.rows, Pooled(r, Stored(r, c, t, p))),
                       state |-> Slide(r, Stored(r, c, t, p))]
                 ELSE [rows |-> c.rows, state |-> Stored(r, c, t, p)]
  BY <1>1, <1>4 DEF Compress, Stored
<1>. QED BY <1>1, <1>2, <1>3, <1>5

LEMMA SlideIs ==
    ASSUME NEW r \in Nat \ {0}, NEW s, s = [i \in 0 .. Depth(r) - 1 |-> s[i]]
    PROVE  Slide(r, s) = [i \in 0 .. Depth(r) - 1 |-> IF i < CurrentHalf(r) THEN s[r + i] ELSE s[i]]
<1>1. DOMAIN s = 0 .. Depth(r) - 1
  OBVIOUS
<1> DEFINE e == [i \in 0 .. Depth(r) - 1 |-> IF i < CurrentHalf(r) THEN s[r + i] ELSE s[i]]
<1>2. CASE r = OverlapRatio
  BY <1>1, <1>2, Halves DEF Slide
<1>3. CASE r # OverlapRatio
  <2>1. CurrentHalf(r) = 0 /\ Slide(r, s) = s
    BY <1>3, Halves DEF Slide
  <2>2. e = [i \in 0 .. Depth(r) - 1 |-> s[i]]
    BY <2>1
  <2>. QED BY <2>1, <2>2
<1>. QED BY <1>2, <1>3

\* A token keeps the shape of a cache, and adds a block where one is complete.
LEMMA CompressShape ==
    ASSUME NEW r \in Nat \ {0}, NEW c, LaneShape(r, c), NEW t, NEW p \in Nat
    PROVE  /\ LaneShape(r, Compress(r, c, t, p))
           /\ Len(Compress(r, c, t, p).rows) = Len(c.rows) + ((p + 1) \div r) - (p \div r)
<1> DEFINE s == Stored(r, c, t, p)
           d == Compress(r, c, t, p)
<1>1. s = [i \in 0 .. Depth(r) - 1 |-> s[i]]
  <2>1. s = [i \in 0 .. Depth(r) - 1 |-> IF i = CurrentHalf(r) + (p % r) THEN RowAt(t, p) ELSE c.state[i]]
    BY CompressIs
  <2> HIDE DEF s
  <2>. QED BY <2>1
<1>2. Len(c.rows) \in Nat /\ p \div r \in Nat /\ (p + 1) \div r \in Nat
  <2>1. p + 1 \in Nat
    OBVIOUS
  <2>2. p \div r \in Nat /\ (p + 1) \div r \in Nat
    BY <2>1, DivMod
  <2>. QED BY <2>2 DEF LaneShape, IsSeq
<1>3. CASE (p % r) + 1 = r
  <2>1. d = [rows |-> Append(c.rows, Pooled(r, s)), state |-> Slide(r, s)]
    BY <1>3, CompressIs
  <2>2. IsSeq(d.rows) /\ Len(d.rows) = Len(c.rows) + 1
    <3>1. IsSeq(c.rows) /\ d.rows = Append(c.rows, Pooled(r, s))
      BY <2>1 DEF LaneShape
    <3> DEFINE x == Pooled(r, s)
               u == c.rows
    <3> HIDE DEF d, x, u
    <3>2. IsSeq(u) /\ d.rows = Append(u, x)
      BY <3>1 DEF x, u
    <3>3. IsSeq(Append(u, x)) /\ Len(Append(u, x)) = Len(u) + 1
      BY <3>2, AppendIs
    <3>. QED BY <3>2, <3>3 DEF u
  <2>3. (p + 1) \div r = p \div r + 1
    <3>1. \/ (p % r) + 1 < r
          \/ (p + 1) \div r = p \div r + 1
      BY DivModSucc
    <3>. QED BY <3>1, <1>3
  <2>4. d.state = [i \in 0 .. Depth(r) - 1 |-> d.state[i]]
    <3>1. d.state = Slide(r, s)
      BY <2>1
    <3>2. Slide(r, s) = [i \in 0 .. Depth(r) - 1 |-> Slide(r, s)[i]]
      BY <1>1, SlideIs
    <3> HIDE DEF d, s
    <3>. QED BY <3>1, <3>2
  <2>5. d = [rows |-> d.rows, state |-> d.state]
    BY <2>1
  <2> HIDE DEF d
  <2>. QED BY <1>2, <2>2, <2>3, <2>4, <2>5 DEF LaneShape, d
<1>4. CASE (p % r) + 1 # r
  <2>1. d = [rows |-> c.rows, state |-> s]
    BY <1>4, CompressIs
  <2>2. (p + 1) \div r = p \div r
    BY <1>4, DivModSucc
  <2>3. d = [rows |-> d.rows, state |-> d.state] /\ d.rows = c.rows /\ d.state = s
    BY <2>1
  <2> HIDE DEF d, s
  <2>. QED BY <1>1, <1>2, <2>2, <2>3 DEF LaneShape, d
<1>. QED BY <1>3, <1>4

\* A complete window pools to its block, on top of the window before it.
LEMMA PooledIs ==
    ASSUME NEW r \in Nat \ {0}, NEW t, IsSeq(t), NEW g \in Nat, g * r + r <= Len(t), NEW s,
           \A j \in 0 .. r - 1 : s[CurrentHalf(r) + j] = RowAt(t, g * r + j),
           r = OverlapRatio =>
              \A j \in 0 .. r - 1 : s[j] = IF g > 0 THEN RowAt(t, (g - 1) * r + j) ELSE NoRow
    PROVE  Pooled(r, s) = BlockOf(r, t, g)
<1> DEFINE x == g * r
           y == (g - 1) * r
           half == CurrentHalf(r)
<1>1. x \in Nat /\ Len(t) \in Nat
  BY ProductFacts DEF IsSeq
<1>2. g > 0 => y \in Nat /\ x = y + r
  <2> SUFFICES ASSUME g > 0 PROVE y \in Nat /\ x = y + r
    OBVIOUS
  <2> DEFINE h == g - 1
  <2>1. h \in Nat /\ g = h + 1
    OBVIOUS
  <2> HIDE DEF h
  <2>2. (h + 1) * r = h * r + r /\ h * r \in Nat
    BY <2>1, ProductFacts
  <2>. QED BY <2>1, <2>2 DEF h
<1> HIDE DEF x, y
<1>3. \A j \in 0 .. r - 1 : RowAt(t, x + j) # NoRow
  <2>1. \A j \in 0 .. r - 1 : x + j \in Nat /\ x + j < Len(t)
    BY <1>1 DEF x
  <2>. QED BY <2>1, RowFacts
<1>4. g > 0 => \A j \in 0 .. r - 1 : RowAt(t, y + j) # NoRow
  <2>1. g > 0 => \A j \in 0 .. r - 1 : y + j \in Nat /\ y + j < Len(t)
    BY <1>1, <1>2 DEF x
  <2>. QED BY <2>1, RowFacts
<1>5. {s[half + j] : j \in 0 .. r - 1} \ {NoRow} = {RowAt(t, x + j) : j \in 0 .. r - 1}
  <2>1. \A j \in 0 .. r - 1 : s[half + j] = RowAt(t, x + j)
    BY DEF x
  <2> HIDE DEF half
  <2>. QED BY <1>3, <2>1
<1>6. {RowAt(t, x + j) : j \in 0 .. r - 1} = WindowRows(r, t, g)
  BY DEF WindowRows, x
<1>7. ASSUME r = OverlapRatio, g > 0
      PROVE  {s[j] : j \in 0 .. r - 1} \ {NoRow} = WindowRows(r, t, g - 1)
  <2>1. \A j \in 0 .. r - 1 : s[j] = RowAt(t, y + j)
    BY <1>7 DEF y
  <2>2. {s[j] : j \in 0 .. r - 1} \ {NoRow} = {RowAt(t, y + j) : j \in 0 .. r - 1}
    BY <1>4, <1>7, <2>1
  <2>. QED BY <2>2 DEF WindowRows, y
<1>8. ASSUME r = OverlapRatio, ~(g > 0)
      PROVE  {s[j] : j \in 0 .. r - 1} \ {NoRow} = {}
  <2>1. \A j \in 0 .. r - 1 : s[j] = NoRow
    BY <1>8
  <2>. QED BY <2>1
<1>. QED BY <1>5, <1>6, <1>7, <1>8 DEF Pooled, BlockOf, half

LEMMA BlocksGrow ==
    ASSUME NEW r \in Nat \ {0}, NEW t, NEW k \in Nat
    PROVE  Append([b \in 1 .. k |-> BlockOf(r, t, b - 1)], BlockOf(r, t, k))
             = [b \in 1 .. k + 1 |-> BlockOf(r, t, b - 1)]
<1> DEFINE F(b) == BlockOf(r, t, b - 1)
           u == [b \in 1 .. k |-> F(b)]
           v == [b \in 1 .. k + 1 |-> F(b)]
           x == F(k + 1)
<1>0. k + 1 \in Nat /\ (k + 1) - 1 = k
  OBVIOUS
<1>1. IsSeq(u) /\ Len(u) = k
  <2>1. u = [b \in 1 .. k |-> u[b]]
    OBVIOUS
  <2> HIDE DEF u
  <2>. QED BY <2>1, Listed
<1>2. IsSeq(v) /\ Len(v) = k + 1
  <2>1. v = [b \in 1 .. k + 1 |-> v[b]]
    OBVIOUS
  <2> HIDE DEF v
  <2>. QED BY <2>1, <1>0, Listed
<1>3. \A b \in 1 .. k : u[b] = F(b)
  OBVIOUS
<1>4. \A b \in 1 .. k + 1 : v[b] = F(b)
  OBVIOUS
<1> HIDE DEF u, v
<1>5. /\ IsSeq(Append(u, x)) /\ Len(Append(u, x)) = k + 1
      /\ \A i \in 1 .. k : Append(u, x)[i] = u[i]
      /\ Append(u, x)[k + 1] = x
  BY <1>1, AppendIs
<1>6. \A i \in 1 .. k + 1 : i \in 1 .. k \/ i = k + 1
  OBVIOUS
<1> DEFINE w == Append(u, x)
<1> HIDE DEF w, F
<1>7. \A i \in 1 .. Len(w) : w[i] = v[i]
  BY <1>3, <1>4, <1>5, <1>6 DEF w, x
<1>8. w = v
  BY <1>2, <1>5, <1>7, SameSeq DEF w
<1>. QED BY <1>0, <1>8 DEF w, u, v, x, F

\* A token more in the cache is a token more in what the cache holds.
LEMMA CompressMatches ==
    ASSUME NEW r \in Nat \ {0}, NEW c, LaneShape(r, c), NEW t, IsSeq(t), NEW p \in Nat, p < Len(t),
           Matches(r, c, t, p)
    PROVE  Matches(r, Compress(r, c, t, p), t, p + 1)
<1> DEFINE s == Stored(r, c, t, p)
           d == Compress(r, c, t, p)
           half == CurrentHalf(r)
           rem == p % r
           done == p - rem
           g == p \div r
           x == g * r
<1>1. /\ rem \in Nat /\ rem < r /\ g \in Nat /\ done \in Nat /\ done = x /\ x \in Nat /\ p = done + rem
      /\ Len(t) \in Nat
  BY BlockStart DEF IsSeq
<1>2. half \in {0, r} /\ Depth(r) = half + r /\ (r = OverlapRatio <=> half = r)
  BY Halves
<1>3. /\ s = [i \in 0 .. Depth(r) - 1 |-> IF i = half + rem THEN RowAt(t, p) ELSE c.state[i]]
  BY CompressIs
<1>4. ASSUME NEW i \in 0 .. half + rem - 1
      PROVE  s[i] = IF i < half THEN (IF done >= r THEN RowAt(t, done - r + i) ELSE NoRow)
                    ELSE RowAt(t, done + i - half)
  <2>1. s[i] = c.state[i]
    <3> HIDE DEF half, rem, s
    <3>. QED BY <1>1, <1>2, <1>3, <1>4
  <2>2. c.state[i] = Slot(r, t, p, i)
    BY DEF Matches
  <2>3. Slot(r, t, p, i) =
           IF i \in half .. half + rem - 1 THEN RowAt(t, done + i - half)
           ELSE IF i < half /\ done >= r THEN RowAt(t, done - r + i) ELSE NoRow
    BY DEF Slot
  <2>4. i \in half .. half + rem - 1 <=> ~(i < half)
    <3> HIDE DEF half, rem
    <3>. QED BY <1>1, <1>2
  <2> HIDE DEF s, half, rem, done
  <2>. QED BY <2>1, <2>2, <2>3, <2>4
<1>5. s[half + rem] = RowAt(t, p)
  <2> HIDE DEF half, rem, s
  <2>. QED BY <1>1, <1>2, <1>3
<1>6. c.rows = [b \in 1 .. g |-> BlockOf(r, t, b - 1)]
  BY DEF Matches
<1>7. CASE rem + 1 = r
  <2>1. d = [rows |-> Append(c.rows, Pooled(r, s)), state |-> Slide(r, s)]
    BY <1>7, CompressIs
  <2>2. (p + 1) \div r = g + 1 /\ (p + 1) % r = 0
    <3>1. \/ rem + 1 < r
          \/ (p + 1) \div r = g + 1 /\ (p + 1) % r = 0
      BY DivModSucc
    <3> HIDE DEF rem
    <3>. QED BY <3>1, <1>1, <1>7
  <2>3. \A j \in 0 .. r - 1 : s[half + j] = RowAt(t, x + j)
    <3> SUFFICES ASSUME NEW j \in 0 .. r - 1 PROVE s[half + j] = RowAt(t, x + j)
      OBVIOUS
    <3>1. CASE j = rem
      <4> HIDE DEF half, rem, s, done, x
      <4>. QED BY <3>1, <1>1, <1>5
    <3>2. CASE j # rem
      <4> DEFINE i == half + j
      <4>1. i \in 0 .. half + rem - 1 /\ ~(i < half) /\ i - half = j /\ done + i - half = done + j
        <5> HIDE DEF half, rem, done
        <5>. QED BY <3>2, <1>1, <1>2, <1>7
      <4> HIDE DEF i, s, half, rem, done, x
      <4>2. s[i] = RowAt(t, done + i - half)
        BY <4>1, <1>4
      <4>. QED BY <4>1, <4>2, <1>1 DEF i
    <3>. QED BY <3>1, <3>2
  <2>4. ASSUME r = OverlapRatio
        PROVE  \A j \in 0 .. r - 1 : s[j] = IF g > 0 THEN RowAt(t, (g - 1) * r + j) ELSE NoRow
    <3> SUFFICES ASSUME NEW j \in 0 .. r - 1
                 PROVE  s[j] = IF g > 0 THEN RowAt(t, (g - 1) * r + j) ELSE NoRow
      OBVIOUS
    <3>1. j \in 0 .. half + rem - 1 /\ j < half
      <4> HIDE DEF half, rem
      <4>. QED BY <1>1, <1>2, <2>4
    <3>2. s[j] = IF done >= r THEN RowAt(t, done - r + j) ELSE NoRow
      <4> HIDE DEF s, half, rem, done
      <4>. QED BY <3>1, <1>4
    <3>3. CASE g > 0
      <4> DEFINE h == g - 1
                 y == h * r
      <4>1. h \in Nat /\ g = h + 1
        BY <3>3, <1>1
      <4> HIDE DEF h, g
      <4>2. (h + 1) * r = y + r /\ y \in Nat
        BY <4>1, ProductFacts
      <4>3. x = y + r
        BY <4>1, <4>2
      <4> HIDE DEF x, y, done, rem, s
      <4>4. done >= r /\ done - r + j = y + j
        BY <4>2, <4>3, <1>1
      <4>. QED BY <3>2, <3>3, <4>4 DEF y, h
    <3>4. CASE ~(g > 0)
      <4>1. x = 0
        BY <3>4, <1>1
      <4> HIDE DEF x, done, rem, s, g
      <4>2. ~(done >= r)
        BY <4>1, <1>1
      <4>. QED BY <3>2, <3>4, <4>2
    <3>. QED BY <3>3, <3>4
  <2>5. g * r + r <= Len(t)
    <3> HIDE DEF rem, done
    <3>. QED BY <1>1, <1>7 DEF x
  <2>6. Pooled(r, s) = BlockOf(r, t, g)
    <3> HIDE DEF s, g, rem, done
    <3>. QED BY <1>1, <2>3, <2>4, <2>5, PooledIs DEF half, x
  <2>7. d.rows = [b \in 1 .. g + 1 |-> BlockOf(r, t, b - 1)]
    <3>1. d.rows = Append(c.rows, Pooled(r, s))
      BY <2>1
    <3> HIDE DEF d, s, g
    <3>. QED BY <3>1, <1>1, <1>6, <2>6, BlocksGrow
  <2>8. \A i \in 0 .. half + 0 - 1 : d.state[i] = Slot(r, t, p + 1, i)
    <3> SUFFICES ASSUME NEW i \in 0 .. half + 0 - 1 PROVE d.state[i] = Slot(r, t, p + 1, i)
      OBVIOUS
    <3>1. half = r /\ i \in 0 .. r - 1 /\ i < half /\ i \in 0 .. Depth(r) - 1
      BY <1>2
    <3>2. d.state[i] = s[r + i]
      <4>1. s = [k \in 0 .. Depth(r) - 1 |-> s[k]]
        <5> HIDE DEF s
        <5>. QED BY <1>3
      <4>2. Slide(r, s) = [k \in 0 .. Depth(r) - 1 |-> IF k < half THEN s[r + k] ELSE s[k]]
        BY <4>1, SlideIs
      <4>3. d.state = Slide(r, s)
        BY <2>1
      <4> HIDE DEF d, s, half
      <4>. QED BY <3>1, <4>2, <4>3
    <3>3. s[r + i] = RowAt(t, x + i)
      <4> HIDE DEF half, s, x
      <4>. QED BY <3>1, <2>3
    <3>4. Slot(r, t, p + 1, i) = RowAt(t, (p + 1 - 0) - r + i)
      <4>1. ~(i \in half .. half + 0 - 1) /\ p + 1 - 0 >= r
        <5> HIDE DEF half, rem, done
        <5>. QED BY <3>1, <1>1, <1>7
      <4>. QED BY <4>1, <3>1, <2>2 DEF Slot
    <3>5. (p + 1 - 0) - r + i = x + i
      <4> HIDE DEF half, rem, done, x
      <4>. QED BY <1>1, <1>7, <3>1
    <3>. QED BY <3>2, <3>3, <3>4, <3>5
  <2> HIDE DEF d, s, half
  <2>. QED BY <2>2, <2>7, <2>8 DEF Matches, d, half
<1>8. CASE rem + 1 # r
  <2>1. d = [rows |-> c.rows, state |-> s]
    BY <1>8, CompressIs
  <2>2. (p + 1) \div r = g /\ (p + 1) % r = rem + 1
    BY <1>8, <1>1, DivModSucc
  <2>3. d.rows = c.rows /\ d.state = s
    BY <2>1
  <2>4. ASSUME NEW i \in 0 .. half + (rem + 1) - 1
        PROVE  s[i] = Slot(r, t, p + 1, i)
    <3>1. Slot(r, t, p + 1, i) =
             IF i \in half .. half + (rem + 1) - 1 THEN RowAt(t, ((p + 1) - (rem + 1)) + i - half)
             ELSE IF i < half /\ (p + 1) - (rem + 1) >= r THEN RowAt(t, ((p + 1) - (rem + 1)) - r + i)
             ELSE NoRow
      BY <2>2 DEF Slot
    <3>2. (p + 1) - (rem + 1) = done
      <4> HIDE DEF rem
      <4>. QED BY <1>1
    <3>3. CASE i = half + rem
      <4>1. i \in half .. half + (rem + 1) - 1 /\ done + i - half = p
        <5> HIDE DEF rem, half, done
        <5>. QED BY <3>3, <1>1, <1>2
      <4> HIDE DEF rem, half, done, s
      <4>. QED BY <3>1, <3>2, <3>3, <4>1, <1>5
    <3>4. CASE i # half + rem
      <4>1. i \in 0 .. half + rem - 1 /\ (i \in half .. half + (rem + 1) - 1 <=> ~(i < half))
        <5> HIDE DEF rem, half, done
        <5>. QED BY <3>4, <1>1, <1>2
      <4> HIDE DEF rem, half, done, s
      <4>. QED BY <3>1, <3>2, <4>1, <1>4
    <3>. QED BY <3>3, <3>4
  <2> HIDE DEF d, s, half, rem, g
  <2>. QED BY <2>2, <2>3, <2>4, <1>6 DEF Matches, d, half
<1>. QED BY <1>7, <1>8

\* The loop over a batch is a chain of single tokens.
TokenByToken(r, c, t, p0, n, f) ==
    /\ f[0] = c
    /\ \A k \in 1 .. n : f[k] = Compress(r, f[k - 1], t, p0 + k - 1)
    /\ f[n] = CompressAll(r, c, t, p0, n)

LEMMA CompressSteps ==
    ASSUME NEW r, NEW c, NEW t, NEW p0, NEW n \in Nat
    PROVE  \E f : TokenByToken(r, c, t, p0, n, f)
<1> DEFINE F(m, f) == f = [k \in 0 .. m |-> IF k = 0 THEN c ELSE Compress(r, f[k - 1], t, p0 + k - 1)]
           G == {m \in 0 .. n : \E f : F(m, f)}
           e == CHOOSE f : F(n, f)
<1>1. 0 \in G
  <2> DEFINE f == [k \in 0 .. 0 |-> c]
  <2>1. \A k \in 0 .. 0 : k = 0
    OBVIOUS
  <2>2. F(0, f)
    BY <2>1
  <2>3. 0 \in 0 .. n
    OBVIOUS
  <2>. QED BY <2>2, <2>3
<1>2. ASSUME NEW m \in 1 .. n, m - 1 \in G PROVE m \in G
  <2>1. PICK f : F(m - 1, f)
    BY <1>2
  <2> DEFINE h == [k \in 0 .. m |-> IF k = m THEN Compress(r, f[m - 1], t, p0 + m - 1) ELSE f[k]]
             h2 == [k \in 0 .. m |-> IF k = 0 THEN c ELSE Compress(r, h[k - 1], t, p0 + k - 1)]
  <2>2. ASSUME NEW k \in 0 .. m PROVE h[k] = h2[k]
    <3>1. CASE k = m
      <4>1. k # 0 /\ k - 1 \in 0 .. m /\ k - 1 # m
        BY <3>1
      <4>2. h[k - 1] = f[m - 1]
        BY <3>1, <4>1
      <4>. QED BY <3>1, <4>1, <4>2
    <3>2. CASE k # m /\ k = 0
      <4>1. f[0] = c
        <5>1. 0 \in 0 .. m - 1
          OBVIOUS
        <5>. QED BY <2>1, <5>1
      <4>. QED BY <3>2, <4>1
    <3>3. CASE k # m /\ k # 0
      <4>1. k \in 0 .. m - 1 /\ k - 1 \in 0 .. m /\ k - 1 # m
        BY <3>3
      <4>2. f[k] = Compress(r, f[k - 1], t, p0 + k - 1)
        BY <2>1, <3>3, <4>1
      <4>3. h[k] = f[k] /\ h[k - 1] = f[k - 1]
        BY <3>3, <4>1
      <4>. QED BY <3>3, <4>2, <4>3
    <3>. QED BY <3>1, <3>2, <3>3
  <2>3. h = h2
    BY <2>2
  <2>4. F(m, h)
    BY <2>3
  <2>5. m \in 0 .. n
    OBVIOUS
  <2> HIDE DEF h
  <2>. QED BY <2>4, <2>5
<1>3. \E f : F(n, f)
  <2>1. 0 .. n \subseteq G
    <3> HIDE DEF G
    <3>. QED BY <1>1, <1>2, StepByStep
  <2>2. n \in 0 .. n
    OBVIOUS
  <2>. QED BY <2>1, <2>2
<1>4. F(n, e)
  <2> HIDE DEF F
  <2>. QED BY <1>3
<1>5. e[n] = CompressAll(r, c, t, p0, n)
  BY DEF CompressAll
<1> HIDE DEF e
<1>6. e[0] = c
  <2>1. 0 \in 0 .. n
    OBVIOUS
  <2>. QED BY <1>4, <2>1
<1>7. ASSUME NEW k \in 1 .. n PROVE e[k] = Compress(r, e[k - 1], t, p0 + k - 1)
  <2>1. k \in 0 .. n /\ k # 0
    OBVIOUS
  <2>. QED BY <1>4, <2>1
<1>. QED BY <1>5, <1>6, <1>7 DEF TokenByToken

\* d is c with the blocks completed by the positions p0 .. p0 + n - 1.
Longer(r, c, d, p0, n) ==
    LaneShape(r, d) /\ Len(d.rows) = Len(c.rows) + ((p0 + n) \div r) - (p0 \div r)

LEMMA CompressAllShape ==
    ASSUME NEW r \in Nat \ {0}, NEW c, LaneShape(r, c), NEW t, NEW p0 \in Nat, NEW n \in Nat
    PROVE  Longer(r, c, CompressAll(r, c, t, p0, n), p0, n)
<1>9. PICK f : TokenByToken(r, c, t, p0, n, f)
  BY CompressSteps
<1>1. /\ f[0] = c
      /\ \A k \in 1 .. n : f[k] = Compress(r, f[k - 1], t, p0 + k - 1)
      /\ f[n] = CompressAll(r, c, t, p0, n)
  BY <1>9 DEF TokenByToken
<1> DEFINE Q(m) == (p0 + m) \div r
           G == {k \in Nat : LaneShape(r, f[k]) /\ Len(f[k].rows) = Len(c.rows) + Q(k) - Q(0)}
<1>0. Len(c.rows) \in Nat /\ \A k \in Nat : Q(k) \in Nat
  <2>1. \A k \in Nat : p0 + k \in Nat
    OBVIOUS
  <2>2. \A k \in Nat : Q(k) \in Nat
    BY <2>1, DivMod
  <2>. QED BY <2>2 DEF LaneShape, IsSeq
<1>2. 0 \in G
  <2> DEFINE a == Len(c.rows)
             b == Q(0)
  <2>1. a \in Nat /\ b \in Nat
    BY <1>0
  <2> HIDE DEF a, b
  <2>2. a = a + b - b
    BY <2>1
  <2>3. Len(f[0].rows) = Len(c.rows) + Q(0) - Q(0)
    BY <2>2, <1>1 DEF a, b
  <2> HIDE DEF Q
  <2>. QED BY <2>3, <1>1
<1>3. ASSUME NEW k \in 1 .. n, k - 1 \in G PROVE k \in G
  <2> DEFINE p == p0 + k - 1
             d == f[k - 1]
  <2>1. p \in Nat /\ LaneShape(r, d) /\ k \in Nat /\ k - 1 \in Nat
    BY <1>3
  <2>2. f[k] = Compress(r, d, t, p)
    BY <1>1
  <2>3. p \div r = Q(k - 1) /\ (p + 1) \div r = Q(k)
    <3>1. p = p0 + (k - 1) /\ p + 1 = p0 + k
      OBVIOUS
    <3> HIDE DEF p
    <3>. QED BY <3>1
  <2> HIDE DEF p, d
  <2>4. LaneShape(r, f[k]) /\ Len(f[k].rows) = Len(d.rows) + ((p + 1) \div r) - (p \div r)
    <3>1. /\ LaneShape(r, Compress(r, d, t, p))
          /\ Len(Compress(r, d, t, p).rows) = Len(d.rows) + ((p + 1) \div r) - (p \div r)
      BY <2>1, CompressShape
    <3>. QED BY <3>1, <2>2, Zenon
  <2>5. Len(d.rows) = Len(c.rows) + Q(k - 1) - Q(0)
    BY <1>3 DEF d
  <2>6. Q(k) \in Nat /\ Q(k - 1) \in Nat /\ Q(0) \in Nat
    BY <1>0, <2>1
  <2>7. Len(f[k].rows) = Len(c.rows) + Q(k) - Q(0)
    <3> DEFINE a == Len(c.rows)
               b == Q(0)
               y == Q(k)
               z == Q(k - 1)
    <3> HIDE DEF a, b, y, z
    <3>1. Len(f[k].rows) = Len(d.rows) + y - z /\ Len(d.rows) = a + z - b
          /\ y \in Nat /\ z \in Nat /\ b \in Nat /\ a \in Nat
      BY <1>0, <2>3, <2>4, <2>5, <2>6 DEF a, b, y, z
    <3>2. Len(f[k].rows) = a + y - b
      BY <3>1
    <3>. QED BY <3>2 DEF a, y, b
  <2>. QED BY <2>1, <2>4, <2>7
<1>4. n \in G
  <2>1. 0 .. n \subseteq G
    <3> HIDE DEF G
    <3>. QED BY <1>2, <1>3, StepByStep
  <2>2. n \in 0 .. n
    OBVIOUS
  <2>. QED BY <2>1, <2>2
<1>5. p0 + 0 = p0
  OBVIOUS
<1>. QED BY <1>1, <1>4, <1>5 DEF Longer

LEMMA CompressAllMatches ==
    ASSUME NEW r \in Nat \ {0}, NEW c, LaneShape(r, c), NEW t, IsSeq(t), NEW p0 \in Nat, NEW n \in Nat,
           p0 + n <= Len(t), Matches(r, c, t, p0)
    PROVE  Matches(r, CompressAll(r, c, t, p0, n), t, p0 + n)
<1>9. PICK f : TokenByToken(r, c, t, p0, n, f)
  BY CompressSteps
<1>1. /\ f[0] = c
      /\ \A k \in 1 .. n : f[k] = Compress(r, f[k - 1], t, p0 + k - 1)
      /\ f[n] = CompressAll(r, c, t, p0, n)
  BY <1>9 DEF TokenByToken
<1> DEFINE G == {k \in Nat : LaneShape(r, f[k]) /\ Matches(r, f[k], t, p0 + k)}
<1>2. 0 \in G
  <2>1. p0 + 0 = p0
    OBVIOUS
  <2>. QED BY <2>1, <1>1
<1>3. ASSUME NEW k \in 1 .. n, k - 1 \in G PROVE k \in G
  <2> DEFINE p == p0 + k - 1
             d == f[k - 1]
  <2>0. Len(t) \in Nat
    BY DEF IsSeq
  <2>1. p \in Nat /\ p < Len(t) /\ k \in Nat /\ p = p0 + (k - 1) /\ p + 1 = p0 + k
    BY <2>0
  <2>2. f[k] = Compress(r, d, t, p)
    BY <1>1
  <2> HIDE DEF p
  <2>3. LaneShape(r, d) /\ Matches(r, d, t, p)
    BY <1>3, <2>1
  <2> HIDE DEF d
  <2>4. LaneShape(r, f[k]) /\ Matches(r, f[k], t, p + 1)
    BY <2>1, <2>2, <2>3, CompressShape, CompressMatches
  <2>. QED BY <2>1, <2>4
<1>4. n \in G
  <2>1. 0 .. n \subseteq G
    <3> HIDE DEF G
    <3>. QED BY <1>2, <1>3, StepByStep
  <2>2. n \in 0 .. n
    OBVIOUS
  <2>. QED BY <2>1, <2>2
<1>. QED BY <1>1, <1>4

\* A batch that starts on a window boundary and ends on one.
LEMMA AlignedBlocks ==
    ASSUME NEW r \in Nat \ {0}, NEW p0 \in Nat, NEW n \in Nat, Aligned(r, p0, n)
    PROVE  /\ (p0 + n) \div r = (p0 \div r) + (n \div r) /\ (p0 + n) % r = 0
           /\ p0 \div r \in Nat /\ n \div r \in Nat
           /\ p0 # 0 => p0 \div r > 0 /\ p0 >= r
<1> DEFINE a == p0 \div r
           b == n \div r
           x == r * a
           y == r * b
<1>1. a \in Nat /\ b \in Nat /\ x \in Nat /\ y \in Nat /\ p0 = x /\ n = y
  <2>1. p0 % r = 0 /\ n % r = 0
    BY DEF Aligned
  <2>2. a \in Nat /\ b \in Nat /\ x \in Nat /\ y \in Nat /\ p0 = x + (p0 % r) /\ n = y + (n % r)
    BY DivMod
  <2> HIDE DEF a, b, x, y
  <2>. QED BY <2>1, <2>2
<1>2. r * (a + b) = x + y
  <2> HIDE DEF a, b
  <2>. QED BY <1>1, SMTT(20) DEF x, y
<1> HIDE DEF x, y
<1>3. (p0 + n) \div r = a + b /\ (p0 + n) % r = 0
  <2> DEFINE q == a + b
             m == p0 + n
  <2>1. q \in Nat /\ m \in Nat
    BY <1>1
  <2>2. m = r * q + 0
    <3> DEFINE z == r * q
    <3>1. z = x + y
      BY <1>2
    <3> HIDE DEF z, q
    <3>2. m = z + 0
      BY <3>1, <1>1
    <3>. QED BY <3>2 DEF z
  <2> HIDE DEF q, m
  <2>3. m \div r = q /\ m % r = 0
    <3>1. 0 \in Nat /\ 0 < r
      OBVIOUS
    <3>. QED BY <3>1, <2>1, <2>2, DivModUnique
  <2>. QED BY <2>3 DEF q, m
<1>4. p0 # 0 => a > 0 /\ p0 >= r
  <2>0. p0 % r = 0
    BY DEF Aligned
  <2>1. p0 >= r => p0 \div r > 0
    BY BlockStart
  <2>2. p0 < r => p0 % r = p0
    BY SmallResidue
  <2>. QED BY <2>0, <2>1, <2>2
<1>. QED BY <1>1, <1>3, <1>4

LEMMA PrefillLaneIs ==
    ASSUME NEW r \in Nat \ {0}, NEW t, IsSeq(t), NEW n \in 0 .. Len(t)
    PROVE  /\ LaneShape(r, PrefillLane(r, t, n))
           /\ Len(PrefillLane(r, t, n).rows) = n \div r
           /\ Matches(r, PrefillLane(r, t, n), t, n)
<1> DEFINE d == PrefillLane(r, t, n)
<1>0. n \in Nat /\ n \div r \in Nat
  BY DivMod DEF IsSeq
<1>1. d = [rows |-> d.rows, state |-> d.state]
      /\ d.rows = Blocks(r, SubSeq(t, 1, n)) /\ d.state = StateAfter(r, SubSeq(t, 1, n))
  BY DEF PrefillLane
<1>2. d.rows = [b \in 1 .. n \div r |-> BlockOf(r, t, b - 1)]
  BY <1>1, BlocksIs
<1>3. d.state = [i \in 0 .. Depth(r) - 1 |-> Slot(r, t, n, i)]
  BY <1>1, StateAfterIs
<1> HIDE DEF d
<1>4. IsSeq(d.rows) /\ Len(d.rows) = n \div r
  <2> DEFINE u == d.rows
  <2>1. u = [b \in 1 .. n \div r |-> u[b]]
    BY <1>2
  <2> HIDE DEF u
  <2>. QED BY <2>1, <1>0, Listed DEF u
<1>5. d.state = [i \in 0 .. Depth(r) - 1 |-> d.state[i]]
  <2> DEFINE s == d.state
  <2>1. s = [i \in 0 .. Depth(r) - 1 |-> Slot(r, t, n, i)]
    BY <1>3
  <2> HIDE DEF s
  <2>2. s = [i \in 0 .. Depth(r) - 1 |-> s[i]]
    BY <2>1
  <2>. QED BY <2>2 DEF s
<1>6. 0 .. CurrentHalf(r) + (n % r) - 1 \subseteq 0 .. Depth(r) - 1
  <2>1. n % r \in Nat /\ n % r < r
    BY <1>0, DivMod
  <2>. QED BY <2>1, Halves
<1>7. Matches(r, d, t, n)
  BY <1>2, <1>3, <1>6 DEF Matches
<1>. QED BY <1>1, <1>4, <1>5, <1>7 DEF LaneShape, d

\* An aligned batch appends the blocks it completes; the first of an
\* overlapping lane takes the window before it from the state.
LEMMA AlignedLaneIs ==
    ASSUME NEW r \in Nat \ {0}, NEW c, LaneShape(r, c), NEW t, IsSeq(t), NEW p0 \in Nat, NEW n \in Nat,
           p0 + n <= Len(t), Aligned(r, p0, n)
    PROVE  /\ LaneShape(r, AlignedLane(r, c, t, p0, n))
           /\ Len(AlignedLane(r, c, t, p0, n).rows) = Len(c.rows) + ((p0 + n) \div r) - (p0 \div r)
           /\ Matches(r, c, t, p0) /\ p0 # 0 => Matches(r, AlignedLane(r, c, t, p0, n), t, p0 + n)
<1> DEFINE d == AlignedLane(r, c, t, p0, n)
           before == {c.state[i] : i \in 0 .. r - 1} \ {NoRow}
           a == p0 \div r
           m == n \div r
           Block(k) == IF k = 1 /\ r = OverlapRatio
                       THEN [current |-> WindowRows(r, t, a), previous |-> before]
                       ELSE BlockOf(r, t, a + k - 1)
           e == [k \in 1 .. m |-> Block(k)]
           N == p0 + n
<1>1. d = [rows |-> d.rows, state |-> d.state]
      /\ d.rows = c.rows \o e /\ d.state = StateAfter(r, SubSeq(t, 1, N))
  BY DEF AlignedLane
<1>2. /\ N \div r = a + m /\ N % r = 0 /\ a \in Nat /\ m \in Nat
      /\ p0 # 0 => a > 0 /\ p0 >= r
  BY AlignedBlocks
<1>3. N \in Nat /\ N \in 0 .. Len(t)
  BY DEF IsSeq
<1>4. IsSeq(e) /\ Len(e) = m /\ \A k \in 1 .. m : e[k] = Block(k)
  <2>1. e = [k \in 1 .. m |-> e[k]] /\ \A k \in 1 .. m : e[k] = Block(k)
    OBVIOUS
  <2> HIDE DEF e
  <2>. QED BY <2>1, <1>2, Listed
<1>5. d.state = [i \in 0 .. Depth(r) - 1 |-> Slot(r, t, N, i)]
  <2> HIDE DEF d
  <2>. QED BY <1>1, <1>3, StateAfterIs
<1> HIDE DEF d, e
<1>6. d.state = [i \in 0 .. Depth(r) - 1 |-> d.state[i]]
  <2> DEFINE s == d.state
  <2>1. s = [i \in 0 .. Depth(r) - 1 |-> Slot(r, t, N, i)]
    BY <1>5
  <2> HIDE DEF s
  <2>2. s = [i \in 0 .. Depth(r) - 1 |-> s[i]]
    BY <2>1
  <2>. QED BY <2>2 DEF s
<1>7. /\ IsSeq(d.rows) /\ Len(d.rows) = Len(c.rows) + m /\ Len(c.rows) \in Nat
      /\ \A i \in 1 .. Len(c.rows) : d.rows[i] = c.rows[i]
      /\ \A i \in 1 .. m : d.rows[Len(c.rows) + i] = e[i]
  <2> DEFINE u == c.rows
  <2>1. IsSeq(u) /\ IsSeq(e) /\ Len(u) \in Nat
    BY <1>4 DEF LaneShape, IsSeq
  <2> HIDE DEF u
  <2>2. /\ IsSeq(u \o e) /\ Len(u \o e) = Len(u) + Len(e)
        /\ \A i \in 1 .. Len(u) : (u \o e)[i] = u[i]
        /\ \A i \in 1 .. Len(e) : (u \o e)[Len(u) + i] = e[i]
    BY <2>1, ConcatIs
  <2>. QED BY <1>1, <1>4, <2>1, <2>2 DEF u
<1>8. Len(d.rows) = Len(c.rows) + (N \div r) - (p0 \div r)
  <2> DEFINE y == N \div r
             z == Len(c.rows)
  <2>1. y = a + m /\ z \in Nat /\ Len(d.rows) = z + m
    BY <1>2, <1>7
  <2> HIDE DEF y, z, a, m
  <2>2. Len(d.rows) = z + y - a
    BY <2>1, <1>2
  <2>. QED BY <2>2 DEF y, z, a
<1>9. ASSUME Matches(r, c, t, p0), p0 # 0 PROVE Matches(r, d, t, N)
  <2>1. c.rows = [b \in 1 .. a |-> BlockOf(r, t, b - 1)] /\ Len(c.rows) = a
    <3>1. c.rows = [b \in 1 .. a |-> BlockOf(r, t, b - 1)]
      BY <1>9 DEF Matches
    <3> DEFINE u == c.rows
    <3>2. u = [b \in 1 .. a |-> u[b]]
      BY <3>1
    <3> HIDE DEF u, a
    <3>3. Len(u) = a
      BY <3>2, <1>2, Listed
    <3>. QED BY <3>1, <3>3 DEF u
  <2>2. \A i \in 1 .. m : e[i] = BlockOf(r, t, a + i - 1)
    <3> SUFFICES ASSUME NEW i \in 1 .. m PROVE e[i] = BlockOf(r, t, a + i - 1)
      OBVIOUS
    <3>1. CASE i = 1 /\ r = OverlapRatio
      <4>0. a + i - 1 = a
        BY <3>1, <1>2
      <4>1. before = WindowRows(r, t, a - 1)
        <5> DEFINE y == (a - 1) * r
                   h == a - 1
        <5>1. h \in Nat /\ a = h + 1
          BY <1>2, <1>9
        <5>2. p0 % r = 0
          BY DEF Aligned
        <5>3. p0 = a * r
          <6>1. p0 - (p0 % r) = a * r
            BY BlockStart
          <6> DEFINE x == a * r
          <6> HIDE DEF x
          <6>. QED BY <6>1, <5>2 DEF x
        <5>4. p0 = y + r /\ y \in Nat
          <6> HIDE DEF a, h
          <6>1. (h + 1) * r = h * r + r /\ h * r \in Nat
            BY <5>1, ProductFacts
          <6>. QED BY <6>1, <5>1, <5>3 DEF h
        <5> HIDE DEF y, h
        <5>5. \A j \in 0 .. r - 1 : c.state[j] = RowAt(t, y + j)
          <6> SUFFICES ASSUME NEW j \in 0 .. r - 1 PROVE c.state[j] = RowAt(t, y + j)
            OBVIOUS
          <6>1. CurrentHalf(r) = r
            BY <3>1, Halves
          <6>2. j \in 0 .. CurrentHalf(r) + (p0 % r) - 1
            BY <6>1, <5>2
          <6>3. c.state[j] = Slot(r, t, p0, j)
            BY <6>2, <1>9 DEF Matches
          <6>4. ~(j \in CurrentHalf(r) .. CurrentHalf(r) + (p0 % r) - 1) /\ j < CurrentHalf(r)
                /\ p0 - (p0 % r) >= r
            BY <6>1, <5>2, <1>2, <1>9
          <6>5. Slot(r, t, p0, j) = RowAt(t, (p0 - (p0 % r)) - r + j)
            BY <6>4 DEF Slot
          <6>6. (p0 - (p0 % r)) - r + j = y + j
            BY <5>2, <5>4
          <6>. QED BY <6>3, <6>5, <6>6
        <5>6. \A j \in 0 .. r - 1 : RowAt(t, y + j) # NoRow
          <6>1. \A j \in 0 .. r - 1 : y + j \in Nat /\ y + j < Len(t)
            BY <5>4, <1>3 DEF IsSeq
          <6>. QED BY <6>1, RowFacts
        <5>7. before = {RowAt(t, y + j) : j \in 0 .. r - 1}
          BY <5>5, <5>6
        <5>. QED BY <5>7 DEF WindowRows, y
      <4>2. BlockOf(r, t, a) = [current |-> WindowRows(r, t, a), previous |-> WindowRows(r, t, a - 1)]
        BY <3>1, <1>2, <1>9 DEF BlockOf
      <4> HIDE DEF a, m, before
      <4>. QED BY <3>1, <4>0, <4>1, <4>2, <1>4
    <3>2. CASE ~(i = 1 /\ r = OverlapRatio)
      <4> HIDE DEF a, m, before
      <4>. QED BY <3>2, <1>4
    <3>. QED BY <3>1, <3>2
  <2>3. d.rows = [b \in 1 .. N \div r |-> BlockOf(r, t, b - 1)]
    <3> DEFINE v == [b \in 1 .. N \div r |-> BlockOf(r, t, b - 1)]
               w == d.rows
               k == N \div r
    <3>1. IsSeq(v) /\ Len(v) = k /\ \A b \in 1 .. k : v[b] = BlockOf(r, t, b - 1)
      <4>1. v = [b \in 1 .. k |-> v[b]] /\ \A b \in 1 .. k : v[b] = BlockOf(r, t, b - 1)
        OBVIOUS
      <4>2. k \in Nat
        BY <1>2
      <4> HIDE DEF v, k
      <4>. QED BY <4>1, <4>2, Listed
    <3>2. IsSeq(w) /\ Len(w) = k
      BY <1>2, <1>7, <2>1
    <3>3. ASSUME NEW b \in 1 .. k PROVE w[b] = v[b]
      <4>0. k = a + m
        BY <1>2
      <4> HIDE DEF k, a, m, v
      <4>1. CASE b <= a
        <5>1. b \in 1 .. a
          BY <4>0, <4>1, <1>2
        <5>. QED BY <5>1, <1>7, <2>1, <3>1
      <4>2. CASE ~(b <= a)
        <5> DEFINE j == b - a
        <5>1. j \in 1 .. m /\ a + j = b /\ a + j - 1 = b - 1
          BY <4>0, <4>2, <1>2
        <5> HIDE DEF j
        <5>2. w[a + j] = e[j]
          BY <5>1, <1>7, <2>1
        <5>. QED BY <5>1, <5>2, <2>2, <3>1
      <4>. QED BY <4>1, <4>2
    <3> HIDE DEF v, w
    <3>4. w = v
      BY <3>1, <3>2, <3>3, SameSeq
    <3>. QED BY <3>4 DEF v, w
  <2>4. \A i \in 0 .. CurrentHalf(r) + (N % r) - 1 : d.state[i] = Slot(r, t, N, i)
    <3>1. 0 .. CurrentHalf(r) + (N % r) - 1 \subseteq 0 .. Depth(r) - 1
      BY <1>2, Halves
    <3>. QED BY <3>1, <1>5
  <2>. QED BY <2>3, <2>4 DEF Matches
<1>. QED BY <1>1, <1>6, <1>7, <1>8, <1>9 DEF LaneShape, d

LEMMA BatchLaneIs ==
    ASSUME NEW r \in Nat \ {0}, NEW c, LaneShape(r, c), NEW t, IsSeq(t), NEW p0 \in Nat, NEW n \in Nat,
           p0 + n <= Len(t)
    PROVE  /\ LaneShape(r, BatchLane(r, c, t, p0, n))
           /\ Len(BatchLane(r, c, t, p0, n).rows) =
                 IF p0 = 0 THEN n \div r ELSE Len(c.rows) + ((p0 + n) \div r) - (p0 \div r)
           /\ p0 = 0 \/ Matches(r, c, t, p0) => Matches(r, BatchLane(r, c, t, p0, n), t, p0 + n)
<1>1. CASE p0 = 0
  <2>1. BatchLane(r, c, t, p0, n) = PrefillLane(r, t, n)
    BY <1>1 DEF BatchLane
  <2>2. n \in 0 .. Len(t) /\ p0 + n = n
    BY <1>1 DEF IsSeq
  <2>3. /\ LaneShape(r, PrefillLane(r, t, n))
        /\ Len(PrefillLane(r, t, n).rows) = n \div r
        /\ Matches(r, PrefillLane(r, t, n), t, n)
    BY <2>2, PrefillLaneIs
  <2>. QED BY <1>1, <2>1, <2>2, <2>3, Zenon
<1>2. CASE p0 # 0 /\ Aligned(r, p0, n)
  <2>1. BatchLane(r, c, t, p0, n) = AlignedLane(r, c, t, p0, n)
    BY <1>2 DEF BatchLane
  <2>3. /\ LaneShape(r, AlignedLane(r, c, t, p0, n))
        /\ Len(AlignedLane(r, c, t, p0, n).rows) = Len(c.rows) + ((p0 + n) \div r) - (p0 \div r)
        /\ Matches(r, c, t, p0) /\ p0 # 0 => Matches(r, AlignedLane(r, c, t, p0, n), t, p0 + n)
    BY <1>2, AlignedLaneIs
  <2>. QED BY <1>2, <2>1, <2>3, Zenon
<1>3. CASE p0 # 0 /\ ~Aligned(r, p0, n)
  <2>1. BatchLane(r, c, t, p0, n) = CompressAll(r, c, t, p0, n)
    BY <1>3 DEF BatchLane
  <2>2. Longer(r, c, CompressAll(r, c, t, p0, n), p0, n)
    BY CompressAllShape
  <2>3. ASSUME Matches(r, c, t, p0) PROVE Matches(r, CompressAll(r, c, t, p0, n), t, p0 + n)
    BY <2>3, CompressAllMatches
  <2>. QED BY <1>3, <2>1, <2>2, <2>3, Zenon DEF Longer
<1>. QED BY <1>1, <1>2, <1>3

(***************************************************************************)
(* The graph: its shape, and what it holds of a sequence of tokens.        *)
(***************************************************************************)

RingShape(ring) == ring = [i \in 0 .. RawCap - 1 |-> ring[i]]

Shape(g) ==
    /\ g = [ring |-> g.ring, lane |-> g.lane]
    /\ g.ring = [l \in Layer |-> g.ring[l]]
    /\ g.lane = [ln \in Lane |-> g.lane[ln]]
    /\ \A l \in Layer : RingShape(g.ring[l])
    /\ \A ln \in Lane : LaneShape(LaneRatio(ln), g.lane[ln])

Bounded(g) == \A ln \in Lane : Len(g.lane[ln].rows) <= CompCap

\* The rings hold the rows below n that a query at p or later can reach.
RingHas(g, t, p, n) ==
    \A l \in Layer : \A q \in 0 .. n - 1 : p <= q + Win => g.ring[l][q % RawCap] = RowAt(t, q)

\* GraphMatches for the first n tokens of t, slot by slot.
Held(g, t, n) == RingHas(g, t, n, n) /\ \A ln \in Lane : Matches(LaneRatio(ln), g.lane[ln], t, n)

\* The graph holds at least the first p tokens of t; what it holds of later
\* ones does not stand in the way.
BlocksAbove(g, t, p) ==
    \A ln \in Lane :
       /\ p \div LaneRatio(ln) <= Len(g.lane[ln].rows)
       /\ \A b \in 1 .. p \div LaneRatio(ln) : g.lane[ln].rows[b] = BlockOf(LaneRatio(ln), t, b - 1)
Above(g, t, p) == RingHas(g, t, p, p) /\ BlocksAbove(g, t, p)

\* The frontier f is the one the first p tokens of t leave.
FrontierAt(f, t, p) ==
    \A ln \in Lane :
       LET r == LaneRatio(ln)
       IN  /\ f[ln].count = p \div r
           /\ f[ln].state = [i \in 0 .. Depth(r) - 1 |-> f[ln].state[i]]
           /\ \A i \in 0 .. CurrentHalf(r) + (p % r) - 1 : f[ln].state[i] = Slot(r, t, p, i)

LEMMA HeldIs ==
    ASSUME NEW g, NEW t, IsSeq(t), NEW n \in 0 .. Len(t)
    PROVE  GraphMatches(g, SubSeq(t, 1, n)) <=> Held(g, t, n)
<1> DEFINE u == SubSeq(t, 1, n)
<1>1. Len(u) = n /\ n \in Nat /\ Win \in Nat
  BY SubSeqIs, Sizes DEF IsSeq
<1>2. \A q \in 0 .. n - 1 : RowAt(u, q) = RowAt(t, q)
  BY <1>1, RowFacts
<1>3. \A ln \in Lane : CacheMatches(LaneRatio(ln), g.lane[ln], u) <=> Matches(LaneRatio(ln), g.lane[ln], t, n)
  BY LaneSizes, MatchesIs
<1> HIDE DEF u
<1>4. \A q : q \in WindowOf(n - 1) <=> q \in 0 .. n - 1 /\ n <= q + Win
  BY <1>1 DEF WindowOf
<1>5. (\A l \in Layer : \A p \in WindowOf(Len(u) - 1) : g.ring[l][p % RawCap] = RowAt(u, p))
        <=> RingHas(g, t, n, n)
  BY <1>1, <1>2, <1>4, Zenon DEF RingHas
<1>. QED BY <1>3, <1>5 DEF GraphMatches, Held, u

\* Only the tokens held count.
LEMMA HeldPrefix ==
    ASSUME NEW g, NEW t, IsSeq(t), NEW m \in 0 .. Len(t), NEW n \in 0 .. m
    PROVE  Held(g, SubSeq(t, 1, m), n) <=> Held(g, t, n)
<1> DEFINE u == SubSeq(t, 1, m)
<1>1. IsSeq(u) /\ Len(u) = m /\ n \in 0 .. Len(t) /\ n \in Nat /\ Len(t) \in Nat
  BY SubSeqIs DEF IsSeq
<1>2. SubSeq(u, 1, n) = SubSeq(t, 1, n)
  BY <1>1, PrefixFacts
<1> HIDE DEF u
<1>3. GraphMatches(g, SubSeq(u, 1, n)) <=> Held(g, u, n)
  BY <1>1, HeldIs
<1>4. GraphMatches(g, SubSeq(t, 1, n)) <=> Held(g, t, n)
  BY <1>1, HeldIs
<1>. QED BY <1>2, <1>3, <1>4 DEF u

\* h is g after the tokens p0 .. p0 + n - 1 of t.
Grown(g, h, t, p0, n) ==
    /\ Shape(h)
    /\ \A l \in Layer : h.ring[l] = StoreRaw(g.ring[l], t, p0, n)
    /\ \A ln \in Lane : Matches(LaneRatio(ln), g.lane[ln], t, p0)
                          => Matches(LaneRatio(ln), h.lane[ln], t, p0 + n)

LEMMA StoreRawShape ==
    ASSUME NEW ring, NEW t, NEW p0, NEW n
    PROVE  RingShape(StoreRaw(ring, t, p0, n))
<1> DEFINE e == StoreRaw(ring, t, p0, n)
           V(i) == LET here == {p \in p0 .. p0 + n - 1 : p % RawCap = i}
                   IN  IF here = {} THEN ring[i] ELSE RowAt(t, CHOOSE p \in here : \A q \in here : q <= p)
<1>1. e = [i \in 0 .. RawCap - 1 |-> V(i)]
  BY DEF StoreRaw
<1> HIDE DEF e, V
<1>2. e = [i \in 0 .. RawCap - 1 |-> e[i]]
  BY <1>1
<1>. QED BY <1>2 DEF RingShape, e

LEMMA BatchGrows ==
    ASSUME NEW g, Shape(g), NEW t, IsSeq(t), NEW p0 \in Nat, NEW n \in Nat, p0 + n <= Len(t)
    PROVE  /\ Grown(g, Batch(g, t, p0, n), t, p0, n)
           /\ p0 = 0 => \A ln \in Lane : Matches(LaneRatio(ln), Batch(g, t, p0, n).lane[ln], t, p0 + n)
           /\ \A ln \in Lane :
                 Len(Batch(g, t, p0, n).lane[ln].rows) =
                    IF p0 = 0 THEN n \div LaneRatio(ln)
                    ELSE Len(g.lane[ln].rows) + ((p0 + n) \div LaneRatio(ln)) - (p0 \div LaneRatio(ln))
<1> DEFINE h == Batch(g, t, p0, n)
<1>1. /\ h = [ring |-> h.ring, lane |-> h.lane]
      /\ h.ring = [l \in Layer |-> StoreRaw(g.ring[l], t, p0, n)]
      /\ h.lane = [ln \in Lane |-> BatchLane(LaneRatio(ln), g.lane[ln], t, p0, n)]
  BY DEF Batch
<1> HIDE DEF h
<1>2. ASSUME NEW ln \in Lane
      PROVE  /\ LaneShape(LaneRatio(ln), h.lane[ln])
             /\ Len(h.lane[ln].rows) =
                    IF p0 = 0 THEN n \div LaneRatio(ln)
                    ELSE Len(g.lane[ln].rows) + ((p0 + n) \div LaneRatio(ln)) - (p0 \div LaneRatio(ln))
             /\ p0 = 0 \/ Matches(LaneRatio(ln), g.lane[ln], t, p0)
                   => Matches(LaneRatio(ln), h.lane[ln], t, p0 + n)
  <2> DEFINE r == LaneRatio(ln)
             c == g.lane[ln]
  <2>1. r \in Nat \ {0} /\ LaneShape(r, c)
    BY LaneSizes DEF Shape
  <2>2. h.lane[ln] = BatchLane(r, c, t, p0, n)
    BY <1>1
  <2> HIDE DEF r, c
  <2>3. /\ LaneShape(r, BatchLane(r, c, t, p0, n))
        /\ Len(BatchLane(r, c, t, p0, n).rows) =
              IF p0 = 0 THEN n \div r ELSE Len(c.rows) + ((p0 + n) \div r) - (p0 \div r)
        /\ p0 = 0 \/ Matches(r, c, t, p0) => Matches(r, BatchLane(r, c, t, p0, n), t, p0 + n)
    BY <2>1, BatchLaneIs
  <2>. QED BY <2>2, <2>3, Zenon DEF r, c
<1>3. \A l \in Layer : h.ring[l] = StoreRaw(g.ring[l], t, p0, n) /\ RingShape(h.ring[l])
  BY <1>1, StoreRawShape
<1>4. h.ring = [l \in Layer |-> h.ring[l]] /\ h.lane = [ln \in Lane |-> h.lane[ln]]
  <2> DEFINE a == h.ring
             b == h.lane
             A(l) == StoreRaw(g.ring[l], t, p0, n)
             B(ln) == BatchLane(LaneRatio(ln), g.lane[ln], t, p0, n)
  <2>1. a = [l \in Layer |-> A(l)] /\ b = [ln \in Lane |-> B(ln)]
    BY <1>1
  <2> HIDE DEF a, b, A, B
  <2>2. a = [l \in Layer |-> a[l]] /\ b = [ln \in Lane |-> b[ln]]
    BY <2>1
  <2>. QED BY <2>2 DEF a, b
<1>5. Shape(h)
  BY <1>1, <1>2, <1>3, <1>4 DEF Shape
<1>6. Grown(g, h, t, p0, n)
  BY <1>2, <1>3, <1>5 DEF Grown
<1>. QED BY <1>2, <1>6 DEF h

LEMMA DecodeGrows ==
    ASSUME NEW g, Shape(g), NEW t, IsSeq(t), NEW p \in Nat, p < Len(t)
    PROVE  /\ Grown(g, Decode(g, t, p), t, p, 1)
           /\ \A ln \in Lane :
                 Len(Decode(g, t, p).lane[ln].rows) =
                    Len(g.lane[ln].rows) + ((p + 1) \div LaneRatio(ln)) - (p \div LaneRatio(ln))
<1> DEFINE h == Decode(g, t, p)
<1>1. /\ h = [ring |-> h.ring, lane |-> h.lane]
      /\ h.ring = [l \in Layer |-> [g.ring[l] EXCEPT ![p % RawCap] = RowAt(t, p)]]
      /\ h.lane = [ln \in Lane |-> Compress(LaneRatio(ln), g.lane[ln], t, p)]
  BY DEF Decode
<1> HIDE DEF h
<1>2. ASSUME NEW ln \in Lane
      PROVE  /\ LaneShape(LaneRatio(ln), h.lane[ln])
             /\ Len(h.lane[ln].rows) =
                    Len(g.lane[ln].rows) + ((p + 1) \div LaneRatio(ln)) - (p \div LaneRatio(ln))
             /\ Matches(LaneRatio(ln), g.lane[ln], t, p) => Matches(LaneRatio(ln), h.lane[ln], t, p + 1)
  <2> DEFINE r == LaneRatio(ln)
             c == g.lane[ln]
  <2>1. r \in Nat \ {0} /\ LaneShape(r, c)
    BY LaneSizes DEF Shape
  <2>2. h.lane[ln] = Compress(r, c, t, p)
    BY <1>1
  <2> HIDE DEF r, c
  <2>3. /\ LaneShape(r, Compress(r, c, t, p))
        /\ Len(Compress(r, c, t, p).rows) = Len(c.rows) + ((p + 1) \div r) - (p \div r)
    BY <2>1, CompressShape
  <2>4. ASSUME Matches(r, c, t, p) PROVE Matches(r, Compress(r, c, t, p), t, p + 1)
    BY <2>1, <2>4, CompressMatches
  <2>. QED BY <2>2, <2>3, <2>4, Zenon DEF r, c
<1>3. \A l \in Layer : h.ring[l] = StoreRaw(g.ring[l], t, p, 1) /\ RingShape(h.ring[l])
  <2> SUFFICES ASSUME NEW l \in Layer
               PROVE  h.ring[l] = StoreRaw(g.ring[l], t, p, 1) /\ RingShape(h.ring[l])
    OBVIOUS
  <2> DEFINE ring == g.ring[l]
  <2>1. ring = [i \in 0 .. RawCap - 1 |-> ring[i]]
    BY DEF Shape, RingShape
  <2>2. h.ring[l] = [ring EXCEPT ![p % RawCap] = RowAt(t, p)]
    BY <1>1
  <2> HIDE DEF ring
  <2>3. [ring EXCEPT ![p % RawCap] = RowAt(t, p)] = StoreRaw(ring, t, p, 1)
    BY <2>1, DecodeStores
  <2>. QED BY <2>2, <2>3, StoreRawShape DEF ring
<1>4. h.ring = [l \in Layer |-> h.ring[l]] /\ h.lane = [ln \in Lane |-> h.lane[ln]]
  <2> DEFINE a == h.ring
             b == h.lane
             A(l) == [g.ring[l] EXCEPT ![p % RawCap] = RowAt(t, p)]
             B(ln) == Compress(LaneRatio(ln), g.lane[ln], t, p)
  <2>1. a = [l \in Layer |-> A(l)] /\ b = [ln \in Lane |-> B(ln)]
    BY <1>1
  <2> HIDE DEF a, b, A, B
  <2>2. a = [l \in Layer |-> a[l]] /\ b = [ln \in Lane |-> b[ln]]
    BY <2>1
  <2>. QED BY <2>2 DEF a, b
<1>5. Shape(h)
  BY <1>1, <1>2, <1>3, <1>4 DEF Shape
<1>6. Grown(g, h, t, p, 1)
  BY <1>2, <1>3, <1>5 DEF Grown
<1>. QED BY <1>2, <1>6 DEF h

\* The positions a batch may begin or end at leave the rows of its queries.
LEMMA GrownRing ==
    ASSUME NEW g, NEW h, NEW t, NEW p0 \in Nat, NEW n \in Nat, NEW p \in Nat, p <= p0,
           Grown(g, h, t, p0, n), RingHas(g, t, p, p0),
           \A q \in Nat : p <= q + Win => p0 + n <= q + RawCap
    PROVE  RingHas(h, t, p, p0 + n)
<1> SUFFICES ASSUME NEW l \in Layer, NEW q \in 0 .. p0 + n - 1, p <= q + Win
             PROVE  h.ring[l][q % RawCap] = RowAt(t, q)
  BY DEF RingHas
<1>1. q \in Nat /\ q < p0 + n /\ p0 + n <= q + RawCap
  BY Sizes
<1>2. h.ring[l][q % RawCap] = IF p0 <= q THEN RowAt(t, q) ELSE g.ring[l][q % RawCap]
  <2>1. h.ring[l] = StoreRaw(g.ring[l], t, p0, n)
    BY DEF Grown
  <2> DEFINE ring == g.ring[l]
  <2> HIDE DEF ring
  <2>2. StoreRaw(ring, t, p0, n)[q % RawCap] = IF p0 <= q THEN RowAt(t, q) ELSE ring[q % RawCap]
    BY <1>1, StoreRawIs
  <2>. QED BY <2>1, <2>2, Zenon DEF ring
<1>3. CASE p0 <= q
  BY <1>2, <1>3
<1>4. CASE ~(p0 <= q)
  <2>1. q \in 0 .. p0 - 1
    BY <1>1, <1>4
  <2>2. g.ring[l][q % RawCap] = RowAt(t, q)
    BY <2>1 DEF RingHas
  <2>. QED BY <1>2, <1>4, <2>2
<1>. QED BY <1>3, <1>4

\* What is asked of a ring less often is in it all the more.
LEMMA RingLess ==
    ASSUME NEW g, NEW t, NEW p \in Nat, NEW n \in Nat, NEW p1 \in Nat, NEW n1 \in Nat,
           RingHas(g, t, p, n), p <= p1, n1 <= n
    PROVE  RingHas(g, t, p1, n1)
<1>1. Win \in Nat
  BY Sizes
<1>2. \A q \in 0 .. n1 - 1 : q \in 0 .. n - 1 /\ (p1 <= q + Win => p <= q + Win)
  BY <1>1
<1>. QED BY <1>2 DEF RingHas

LEMMA GrownHolds ==
    ASSUME NEW g, NEW h, NEW t, NEW p0 \in Nat, NEW n \in Nat,
           p0 + n <= Ctx, n <= PrefillCap, Grown(g, h, t, p0, n),
           RingHas(g, t, p0, p0), \A ln \in Lane : Matches(LaneRatio(ln), h.lane[ln], t, p0 + n)
    PROVE  RingHas(h, t, p0, p0 + n) /\ Held(h, t, p0 + n)
<1>1. \A q \in Nat : p0 <= q + Win => p0 + n <= q + RawCap
  BY BatchRoom
<1>2. RingHas(h, t, p0, p0 + n)
  BY <1>1, GrownRing
<1>3. p0 + n \in Nat /\ p0 <= p0 + n /\ p0 + n <= p0 + n
  OBVIOUS
<1>4. RingHas(h, t, p0 + n, p0 + n)
  <2> DEFINE m == p0 + n
  <2>1. m \in Nat /\ p0 <= m /\ m <= m /\ RingHas(h, t, p0, m)
    BY <1>2, <1>3
  <2> HIDE DEF m
  <2>2. RingHas(h, t, m, m)
    BY <2>1, RingLess
  <2>. QED BY <2>2 DEF m
<1>. QED BY <1>2, <1>4 DEF Held

\* The blocks of a prefix of the tokens held are all there.
LEMMA HeldBlocksAbove ==
    ASSUME NEW g, NEW t, NEW n \in Nat, NEW p \in Nat, p <= n,
           \A ln \in Lane : Matches(LaneRatio(ln), g.lane[ln], t, n)
    PROVE  BlocksAbove(g, t, p) /\ \A ln \in Lane : Len(g.lane[ln].rows) = n \div LaneRatio(ln)
<1> SUFFICES ASSUME NEW ln \in Lane
             PROVE  /\ p \div LaneRatio(ln) <= Len(g.lane[ln].rows)
                    /\ \A b \in 1 .. p \div LaneRatio(ln) : g.lane[ln].rows[b] = BlockOf(LaneRatio(ln), t, b - 1)
                    /\ Len(g.lane[ln].rows) = n \div LaneRatio(ln)
  BY DEF BlocksAbove
<1> DEFINE r == LaneRatio(ln)
           u == g.lane[ln].rows
           k == n \div r
           j == p \div r
<1>1. r \in Nat \ {0}
  BY LaneSizes
<1>2. u = [b \in 1 .. k |-> BlockOf(r, t, b - 1)]
  BY DEF Matches
<1> HIDE DEF r
<1>3. k \in Nat /\ j \in Nat /\ j <= k
  BY <1>1, DivMod, DivMonotone
<1> HIDE DEF u, k, j
<1>4. u = [b \in 1 .. k |-> u[b]]
  BY <1>2
<1>5. Len(u) = k
  BY <1>3, <1>4, Listed
<1>6. \A b \in 1 .. j : u[b] = BlockOf(r, t, b - 1)
  BY <1>2, <1>3
<1>. QED BY <1>3, <1>5, <1>6 DEF r, u, k, j

\* Before the tokens p0 .. p0 + n - 1 and after them, everything up to p.
LEMMA GrownAbove ==
    ASSUME NEW h, NEW t, NEW p0 \in Nat, NEW m \in Nat, NEW p \in Nat, p0 <= p, p <= m,
           RingHas(h, t, p0, m), \A ln \in Lane : Matches(LaneRatio(ln), h.lane[ln], t, m)
    PROVE  Above(h, t, p)
<1>1. RingHas(h, t, p, p)
  BY RingLess
<1>2. BlocksAbove(h, t, p)
  BY HeldBlocksAbove
<1>. QED BY <1>1, <1>2 DEF Above

LEMMA HeldAbove ==
    ASSUME NEW g, NEW t, NEW n \in Nat, Held(g, t, n)
    PROVE  Above(g, t, n)
<1>1. n <= n /\ RingHas(g, t, n, n) /\ \A ln \in Lane : Matches(LaneRatio(ln), g.lane[ln], t, n)
  BY DEF Held
<1>. QED BY <1>1, GrownAbove

LEMMA HeldBounded ==
    ASSUME NEW g, NEW t, NEW n \in Nat, n <= Ctx,
           \A ln \in Lane : Matches(LaneRatio(ln), g.lane[ln], t, n)
    PROVE  Bounded(g)
<1> SUFFICES ASSUME NEW ln \in Lane PROVE Len(g.lane[ln].rows) <= CompCap
  BY DEF Bounded
<1>1. Len(g.lane[ln].rows) = n \div LaneRatio(ln)
  <2>1. n <= n
    OBVIOUS
  <2>. QED BY <2>1, HeldBlocksAbove
<1>2. n \div LaneRatio(ln) <= CompCap
  BY BlocksOfContext
<1>. QED BY <1>1, <1>2

(***************************************************************************)
(* What attention reads.                                                   *)
(***************************************************************************)

\* RawSpan reaches back to the window of the first query.
LEMMA SpanReaches ==
    ASSUME NEW p0 \in Nat, NEW n \in Nat \ {0}, p0 + n <= Ctx, n <= PrefillCap
    PROVE  /\ p0 + n - RawSpan(p0, n) \in Nat
           /\ \A q \in Nat : p0 < q + Win => p0 + n - RawSpan(p0, n) <= q
  BY Sizes DEF RawSpan, Smaller

LEMMA ReadsExactly ==
    ASSUME NEW h, Shape(h), NEW t, IsSeq(t), NEW p0 \in Nat, NEW n \in Nat \ {0},
           p0 + n <= Len(t), p0 + n <= Ctx, n <= PrefillCap,
           RingHas(h, t, p0, p0 + n), \A ln \in Lane : Matches(LaneRatio(ln), h.lane[ln], t, p0 + n)
    PROVE  Misread(h, t, p0, n) = {}
<1> DEFINE first == p0 + n - RawSpan(p0, n)
           start == first % RawCap
           gathered(l, q) == h.ring[l][(start + (q - first)) % RawCap]
           rawWrong(l, p) ==
               p0 > 0 /\ \E q \in WindowOf(p) : q < first \/ gathered(l, q) # RowAt(t, q)
           blocksWrong(l, p) ==
               \E ln \in Lane : ln[1] = l /\
                   ~IsPrefix(Blocks(Ratio[l], SubSeq(t, 1, p + 1)), h.lane[ln].rows)
<1>1. first \in Nat /\ \A q \in Nat : p0 < q + Win => first <= q
  BY SpanReaches
<1>2. Win \in Nat /\ RawCap \in Nat \ {0} /\ Len(t) \in Nat
  BY Sizes DEF IsSeq
<1> HIDE DEF first
<1>3. ASSUME NEW l \in Layer, NEW p \in p0 .. p0 + n - 1 PROVE ~rawWrong(l, p)
  <2> SUFFICES ASSUME NEW q \in WindowOf(p) PROVE ~(q < first) /\ gathered(l, q) = RowAt(t, q)
    OBVIOUS
  <2>1. q \in 0 .. p0 + n - 1 /\ p0 < q + Win /\ p0 <= q + Win /\ q \in Nat
    BY <1>2 DEF WindowOf
  <2>2. first <= q
    BY <1>1, <2>1
  <2>3. (start + (q - first)) % RawCap = q % RawCap
    <3> DEFINE c == q - first
               w == RawCap
    <3>1. c \in Nat /\ first + c = q /\ w \in Nat \ {0}
      BY <1>1, <1>2, <2>1, <2>2
    <3> HIDE DEF c, w
    <3>2. ((first % w) + c) % w = (first + c) % w
      BY <1>1, <3>1, SlotAdd
    <3>. QED BY <3>1, <3>2 DEF w, c
  <2>4. h.ring[l][q % RawCap] = RowAt(t, q)
    BY <2>1 DEF RingHas
  <2>. QED BY <1>1, <2>1, <2>2, <2>3, <2>4
<1>4. ASSUME NEW l \in Layer, NEW p \in p0 .. p0 + n - 1, NEW ln \in Lane, ln[1] = l
      PROVE  IsPrefix(Blocks(Ratio[l], SubSeq(t, 1, p + 1)), h.lane[ln].rows)
  <2> DEFINE r == Ratio[l]
             u == h.lane[ln].rows
             m == p0 + n
             k == m \div r
             j == (p + 1) \div r
  <2>1. r \in Nat \ {0} /\ LaneRatio(ln) = r
    BY <1>4, LaneSizes
  <2>2. p + 1 \in 0 .. Len(t) /\ p + 1 \in Nat /\ m \in Nat /\ p + 1 <= m
    BY <1>2
  <2>3. u = [b \in 1 .. k |-> BlockOf(r, t, b - 1)]
    BY <2>1 DEF Matches
  <2>4. IsSeq(u)
    BY DEF Shape, LaneShape
  <2>5. Blocks(r, SubSeq(t, 1, p + 1)) = [b \in 1 .. j |-> BlockOf(r, t, b - 1)]
    BY <2>1, <2>2, BlocksIs
  <2>6. k \in Nat /\ j \in Nat /\ j <= k
    <3> HIDE DEF r, m
    <3>. QED BY <2>1, <2>2, DivMod, DivMonotone
  <2> DEFINE v == Blocks(r, SubSeq(t, 1, p + 1))
  <2> HIDE DEF r, u, v, k, j, m
  <2>7. Len(u) = k /\ IsSeq(v) /\ Len(v) = j
    <3>1. u = [b \in 1 .. k |-> u[b]] /\ v = [b \in 1 .. j |-> v[b]]
      BY <2>3, <2>5 DEF v
    <3>. QED BY <3>1, <2>6, Listed
  <2>8. j \in 0 .. Len(u) /\ j \in 0 .. Len(v)
    BY <2>6, <2>7
  <2>9. SubSeq(u, 1, j) = [b \in 1 .. j |-> u[b]] /\ SubSeq(v, 1, j) = [b \in 1 .. j |-> v[b]]
    BY <2>4, <2>7, <2>8, SubSeqIs
  <2>10. \A b \in 1 .. j : u[b] = v[b]
    BY <2>3, <2>5, <2>6 DEF v
  <2>11. SubSeq(u, 1, j) = SubSeq(v, 1, j)
    BY <2>9, <2>10
  <2>12. IsPrefix(v, u)
    BY <2>6, <2>7, <2>11 DEF IsPrefix
  <2>. QED BY <2>12 DEF v, u, r
<1>5. \A lp \in Layer \X (p0 .. p0 + n - 1) : ~(rawWrong(lp[1], lp[2]) \/ blocksWrong(lp[1], lp[2]))
  <2> HIDE DEF rawWrong
  <2>. QED BY <1>3, <1>4
<1>6. Misread(h, t, p0, n) = {lp \in Layer \X (p0 .. p0 + n - 1) : rawWrong(lp[1], lp[2]) \/ blocksWrong(lp[1], lp[2])}
  BY DEF Misread, first
<1> HIDE DEF rawWrong, blocksWrong
<1>. QED BY <1>5, <1>6

(***************************************************************************)
(* Commands that fail part of the way, and frontiers put back.             *)
(***************************************************************************)

LEMMA PartlyIs ==
    ASSUME NEW g, Shape(g), NEW h, Shape(h), NEW k
    PROVE  /\ Shape(Partly(g, h, k))
           /\ \A l \in Layer : Partly(g, h, k).ring[l] = IF l <= k THEN h.ring[l] ELSE g.ring[l]
           /\ \A ln \in Lane : Partly(g, h, k).lane[ln] = IF ln[1] <= k THEN h.lane[ln] ELSE g.lane[ln]
<1> DEFINE e == Partly(g, h, k)
           A(l) == IF l <= k THEN h.ring[l] ELSE g.ring[l]
           B(ln) == IF ln[1] <= k THEN h.lane[ln] ELSE g.lane[ln]
<1>1. /\ e = [ring |-> e.ring, lane |-> e.lane]
      /\ e.ring = [l \in Layer |-> A(l)]
      /\ e.lane = [ln \in Lane |-> B(ln)]
  BY DEF Partly
<1>2. (\A l \in Layer : e.ring[l] = A(l)) /\ (\A ln \in Lane : e.lane[ln] = B(ln))
  BY <1>1
<1>3. e.ring = [l \in Layer |-> e.ring[l]] /\ e.lane = [ln \in Lane |-> e.lane[ln]]
  <2> DEFINE a == e.ring
             b == e.lane
  <2>1. a = [l \in Layer |-> A(l)] /\ b = [ln \in Lane |-> B(ln)]
    BY <1>1
  <2> HIDE DEF a, b, A, B
  <2>2. a = [l \in Layer |-> a[l]] /\ b = [ln \in Lane |-> b[ln]]
    BY <2>1
  <2>. QED BY <2>2 DEF a, b
<1>4. (\A l \in Layer : RingShape(A(l))) /\ (\A ln \in Lane : LaneShape(LaneRatio(ln), B(ln)))
  BY DEF Shape
<1> HIDE DEF e
<1>5. Shape(e)
  <2> HIDE DEF A, B
  <2>. QED BY <1>1, <1>2, <1>3, <1>4 DEF Shape
<1>. QED BY <1>2, <1>5 DEF e

LEMMA PartlyBounded ==
    ASSUME NEW g, Shape(g), Bounded(g), NEW h, Shape(h), NEW k,
           \A ln \in Lane : ln[1] <= k => Len(h.lane[ln].rows) <= CompCap
    PROVE  Bounded(Partly(g, h, k))
<1> DEFINE e == Partly(g, h, k)
<1>1. \A ln \in Lane : e.lane[ln] = IF ln[1] <= k THEN h.lane[ln] ELSE g.lane[ln]
  BY PartlyIs
<1> HIDE DEF e
<1>2. \A ln \in Lane : Len(e.lane[ln].rows) <= CompCap
  BY <1>1, Zenon DEF Bounded
<1>. QED BY <1>2 DEF Bounded, e

LEMMA PartlyAbove ==
    ASSUME NEW g, Shape(g), NEW h, Shape(h), NEW k, NEW t, NEW p, Above(g, t, p), Above(h, t, p)
    PROVE  Above(Partly(g, h, k), t, p)
<1> DEFINE e == Partly(g, h, k)
<1>1. /\ \A l \in Layer : e.ring[l] = IF l <= k THEN h.ring[l] ELSE g.ring[l]
      /\ \A ln \in Lane : e.lane[ln] = IF ln[1] <= k THEN h.lane[ln] ELSE g.lane[ln]
  BY PartlyIs
<1> HIDE DEF e
<1>2. RingHas(e, t, p, p)
  BY <1>1, Zenon DEF RingHas, Above
<1>3. BlocksAbove(e, t, p)
  BY <1>1, Zenon DEF BlocksAbove, Above
<1>. QED BY <1>2, <1>3 DEF Above, e

\* A frontier put back over a graph that still holds those tokens.
LEMMA RestoredIs ==
    ASSUME NEW g, Shape(g), NEW f, NEW t, NEW p \in Nat, p <= Ctx, Above(g, t, p), FrontierAt(f, t, p)
    PROVE  /\ Shape(Restored(g, f)) /\ Bounded(Restored(g, f))
           /\ Held(Restored(g, f), t, p)
<1> DEFINE h == Restored(g, f)
           B(ln) == [rows |-> SubSeq(g.lane[ln].rows, 1, f[ln].count), state |-> f[ln].state]
<1>1. /\ h = [ring |-> h.ring, lane |-> h.lane] /\ h.ring = g.ring
      /\ h.lane = [ln \in Lane |-> B(ln)]
  <2>1. g = [ring |-> g.ring, lane |-> g.lane]
    BY DEF Shape
  <2>2. \A b : [g EXCEPT !.lane = b] = [ring |-> g.ring, lane |-> b]
    BY <2>1
  <2>3. h = [ring |-> g.ring, lane |-> [ln \in Lane |-> B(ln)]]
    BY <2>2 DEF Restored
  <2> HIDE DEF h, B
  <2>. QED BY <2>3
<1> HIDE DEF h
<1>2. h.lane = [ln \in Lane |-> h.lane[ln]] /\ \A ln \in Lane : h.lane[ln] = B(ln)
  <2> DEFINE b == h.lane
  <2>1. b = [ln \in Lane |-> B(ln)]
    BY <1>1
  <2> HIDE DEF b, B
  <2>2. b = [ln \in Lane |-> b[ln]] /\ \A ln \in Lane : b[ln] = B(ln)
    BY <2>1
  <2>. QED BY <2>2 DEF b
<1>3. ASSUME NEW ln \in Lane
      PROVE  /\ LaneShape(LaneRatio(ln), h.lane[ln])
             /\ Matches(LaneRatio(ln), h.lane[ln], t, p)
  <2> DEFINE r == LaneRatio(ln)
             u == g.lane[ln].rows
             k == p \div r
             s == f[ln].state
             d == h.lane[ln]
             v == SubSeq(u, 1, k)
  <2>1. r \in Nat \ {0}
    BY LaneSizes
  <2>2. /\ f[ln].count = k /\ s = [i \in 0 .. Depth(r) - 1 |-> s[i]]
        /\ \A i \in 0 .. CurrentHalf(r) + (p % r) - 1 : s[i] = Slot(r, t, p, i)
    BY DEF FrontierAt
  <2>3. IsSeq(u) /\ k <= Len(u) /\ \A b \in 1 .. k : u[b] = BlockOf(r, t, b - 1)
    BY DEF Shape, LaneShape, Above, BlocksAbove
  <2>4. k \in Nat
    <3> HIDE DEF r
    <3>. QED BY <2>1, DivMod
  <2>5. d = [rows |-> v, state |-> s]
    BY <1>2, <2>2
  <2> HIDE DEF r, u, k, s, d
  <2>6. k \in 0 .. Len(u)
    BY <2>3, <2>4 DEF IsSeq
  <2>7. v = [b \in 1 .. k |-> u[b]] /\ IsSeq(v)
    BY <2>3, <2>6, SubSeqIs
  <2>8. v = [b \in 1 .. k |-> BlockOf(r, t, b - 1)]
    BY <2>3, <2>7
  <2>9. d = [rows |-> d.rows, state |-> d.state] /\ d.rows = v /\ d.state = s
    BY <2>5
  <2> HIDE DEF v
  <2>10. LaneShape(r, d)
    BY <2>2, <2>7, <2>9 DEF LaneShape
  <2>11. Matches(r, d, t, p)
    BY <2>2, <2>8, <2>9 DEF Matches, k
  <2>. QED BY <2>10, <2>11 DEF r, d
<1>4. Shape(h)
  BY <1>1, <1>2, <1>3 DEF Shape
<1>5. Held(h, t, p)
  BY <1>1, <1>3 DEF Held, RingHas, Above
<1>6. Bounded(h)
  BY <1>3, HeldBounded
<1>. QED BY <1>4, <1>5, <1>6 DEF h

\* The frontier of a graph that holds the first p tokens of t.
LEMMA FrontierIs ==
    ASSUME NEW g, Shape(g), NEW t, NEW p \in Nat, \A ln \in Lane : Matches(LaneRatio(ln), g.lane[ln], t, p)
    PROVE  FrontierAt(Frontier(g), t, p)
<1> SUFFICES ASSUME NEW ln \in Lane
             PROVE  LET r == LaneRatio(ln)
                        f == Frontier(g)
                    IN  /\ f[ln].count = p \div r
                        /\ f[ln].state = [i \in 0 .. Depth(r) - 1 |-> f[ln].state[i]]
                        /\ \A i \in 0 .. CurrentHalf(r) + (p % r) - 1 : f[ln].state[i] = Slot(r, t, p, i)
  BY DEF FrontierAt
<1>1. Frontier(g)[ln] = [count |-> Len(g.lane[ln].rows), state |-> g.lane[ln].state]
  BY DEF Frontier
<1> DEFINE f == Frontier(g)
           c == g.lane[ln]
<1>2. f[ln].count = Len(c.rows) /\ f[ln].state = c.state
  BY <1>1
<1> HIDE DEF f
<1>3. Len(c.rows) = p \div LaneRatio(ln)
  <2>1. p <= p
    OBVIOUS
  <2>. QED BY <2>1, HeldBlocksAbove
<1>4. c.state = [i \in 0 .. Depth(LaneRatio(ln)) - 1 |-> c.state[i]]
  BY DEF Shape, LaneShape
<1>5. \A i \in 0 .. CurrentHalf(LaneRatio(ln)) + (p % LaneRatio(ln)) - 1 :
         c.state[i] = Slot(LaneRatio(ln), t, p, i)
  BY DEF Matches
<1> HIDE DEF c
<1>. QED BY <1>2, <1>3, <1>4, <1>5 DEF f

\* In the layers that could be encoded the new blocks fit.
LEMMA BatchFits ==
    ASSUME NEW g, Shape(g), NEW t, IsSeq(t), NEW p0 \in Nat, NEW n \in Nat, p0 + n <= Len(t), NEW k,
           EncodableTo(g, p0, n, k)
    PROVE  \A ln \in Lane : ln[1] <= k => Len(Batch(g, t, p0, n).lane[ln].rows) <= CompCap
<1> SUFFICES ASSUME NEW ln \in Lane, ln[1] <= k
             PROVE  Len(Batch(g, t, p0, n).lane[ln].rows) <= CompCap
  OBVIOUS
<1> DEFINE r == LaneRatio(ln)
           x == Len(Batch(g, t, p0, n).lane[ln].rows)
           y == Len(g.lane[ln].rows)
<1>1. x = IF p0 = 0 THEN n \div r ELSE y + ((p0 + n) \div r) - (p0 \div r)
  BY BatchGrows
<1>2. r \in Nat \ {0}
  BY LaneSizes
<1>3. ASSUME p0 # 0 PROVE x <= CompCap
  <2>1. HeldBlocks(g)[ln] + ((p0 + n) \div r) - (p0 \div r) <= CompCap
    BY <1>3 DEF EncodableTo, BlocksFit
  <2>2. HeldBlocks(g)[ln] = y
    BY DEF HeldBlocks
  <2> HIDE DEF x, y, r
  <2>. QED BY <1>1, <1>3, <2>1, <2>2
<1>4. ASSUME p0 = 0 PROVE x <= CompCap
  <2>1. [m \in Lane |-> 0][ln] + ((0 + n) \div r) - (0 \div r) <= CompCap
    BY <1>4 DEF EncodableTo, BlocksFit
  <2>2. 0 \div r = 0
    BY <1>2, SmallResidue
  <2>3. n \div r \in Nat
    BY <1>2, DivMod
  <2>4. [m \in Lane |-> 0][ln] = 0 /\ 0 + n = n
    OBVIOUS
  <2> HIDE DEF x, y, r
  <2>5. n \div r + 0 - 0 <= CompCap
    BY <2>1, <2>2, <2>3, <2>4
  <2>. QED BY <1>1, <1>4, <2>3, <2>5
<1>. QED BY <1>3, <1>4

LEMMA DecodeFits ==
    ASSUME NEW g, Shape(g), NEW t, IsSeq(t), NEW p \in Nat, p < Len(t), NEW k, DecodableTo(g, p, k)
    PROVE  \A ln \in Lane : ln[1] <= k => Len(Decode(g, t, p).lane[ln].rows) <= CompCap
<1> SUFFICES ASSUME NEW ln \in Lane, ln[1] <= k
             PROVE  Len(Decode(g, t, p).lane[ln].rows) <= CompCap
  OBVIOUS
<1>1. HeldBlocks(g)[ln] + ((p + 1) \div LaneRatio(ln)) - (p \div LaneRatio(ln)) <= CompCap
  BY DEF DecodableTo, BlocksFit
<1>2. HeldBlocks(g)[ln] = Len(g.lane[ln].rows)
  BY DEF HeldBlocks
<1>. QED BY <1>1, <1>2, DecodeGrows

(***************************************************************************)
(* The session's invariant, call by call.                                  *)
(***************************************************************************)

\* What a call had committed when it accepted the first token of acc.
Root(acc, t) == SubSeq(t, 1, Len(t) - Len(acc) + 1)

\* acc is the end of t, and its second token is the model's.
Chosen(acc, t) ==
    LET from == Len(t) - Len(acc)
    IN  /\ Len(acc) <= Len(t)
        /\ \A i \in 1 .. Len(acc) : acc[i] = t[from + i]
        /\ Len(acc) > 1 => acc[2] = Greedy(Root(acc, t))

\* All but the first token of acc are such as its call may emit.
Allowed(acc, t) ==
    LET from == Len(t) - Len(acc)
    IN  \A i \in 2 .. Len(acc) : acc[i] \in Emitted(Root(acc, t), SubSeq(t, 1, from + i - 1))

Exact ==
    valid /\ sound => /\ Held(graph, checkpoint, Len(checkpoint))
                      /\ logits = checkpoint
                      /\ draft \subseteq {checkpoint}

InIdle ==
    /\ call = Idle /\ Exact
    /\ valid => Chosen(accepted, checkpoint) /\ (sound => Allowed(accepted, checkpoint))

InPrefill ==
    /\ call.op = "prefill"
    /\ call = [op |-> "prefill", prompt |-> call.prompt, start |-> call.start, at |-> call.at,
               notify |-> call.notify]
    /\ call.prompt \in Seq(Token) /\ Len(call.prompt) \in 1 .. Ctx - 1
    /\ call.start \in Nat /\ call.at \in 0 .. Len(call.prompt)
    /\ accepted = << >>
    /\ call.notify => Exact
    /\ sound /\ call.at > 0 => Held(graph, call.prompt, call.at)

InExtend ==
    /\ call.op = "extend"
    /\ call.prompt \in Seq(Token) /\ Len(call.prompt) < Ctx
    /\ Len(checkpoint) <= Len(call.prompt) /\ checkpoint = SubSeq(call.prompt, 1, Len(checkpoint))
    /\ valid /\ draft = NoDraft /\ accepted = << >> /\ Exact

\* A speculative call that started after from goes on with the drafts d.
Speculating(from, d) ==
    /\ valid /\ sound /\ draft = NoDraft /\ logits = from
    /\ from \in Seq(Token) /\ d \in Seq(Token)
    /\ Len(d) >= 1 /\ Len(from) + Len(d) < Ctx
    /\ Chosen(accepted, from) /\ d[1] = Greedy(from)
    /\ Len(accepted) = 1 /\ Len(d) <= MaxDrafts(from)

InDrafted ==
    /\ call.op = "drafted" /\ Speculating(checkpoint, call.drafts)
    /\ Held(graph, checkpoint, Len(checkpoint))

\* The first n drafts are in the graph; nothing of what it held before them
\* has been overwritten, and the frontier is that of before them.
Drafted(from, d, n, f) ==
    /\ Held(graph, from \o d, Len(from) + n)
    /\ RingHas(graph, from \o d, Len(from), Len(from) + n)
    /\ FrontierAt(f, from \o d, Len(from))

InExact ==
    /\ call.op = "exact" /\ Speculating(checkpoint, call.drafts) /\ Len(call.drafts) = 2
    /\ Drafted(checkpoint, call.drafts, 1, call.frontier)

InCompared ==
    /\ call.op = "compared" /\ Speculating(checkpoint, call.drafts) /\ Len(call.drafts) = 2
    /\ Drafted(checkpoint, call.drafts, 2, call.frontier)
    /\ FrontierAt(call.prefix1, checkpoint \o call.drafts, Len(checkpoint) + 1)

\* A call that has committed from may emit the first n drafts, if the first.
Emittable(from, d, n) == \A i \in 2 .. n : d[i] \in Emitted(from, from \o SubSeq(d, 1, i - 1))

InVerified ==
    /\ call.op = "verified" /\ Speculating(call.from, call.drafts) /\ Len(call.drafts) <= PrefillCap
    /\ checkpoint = call.from \o call.drafts
    /\ Drafted(call.from, call.drafts, Len(call.drafts), call.frontier)
    /\ FrontierAt(call.prefix1, checkpoint, Len(call.from) + 1)
    /\ call.stand \in 1 .. Len(call.drafts) /\ Emittable(call.from, call.drafts, call.stand)

InReplay ==
    /\ call.op = "replay" /\ Speculating(call.from, call.drafts) /\ Len(call.drafts) <= PrefillCap
    /\ checkpoint = call.from /\ call.take \in 1 .. Len(call.drafts)
    /\ Emittable(call.from, call.drafts, call.take)
    /\ Drafted(call.from, call.drafts, 0, call.frontier)

InSequential ==
    /\ call.op = "sequential" /\ call = [op |-> "sequential", drafts |-> call.drafts]
    /\ call.drafts \in Seq(Token) /\ Len(checkpoint) + Len(call.drafts) < Ctx
    /\ valid /\ draft = NoDraft /\ Chosen(accepted, checkpoint)
    /\ Len(accepted) >= 1 /\ (Len(accepted) = 1 => logits = checkpoint)
    /\ sound => Held(graph, checkpoint, Len(checkpoint)) /\ Allowed(accepted, checkpoint)

InCall ==
    \/ InIdle \/ InPrefill \/ InExtend \/ InDrafted \/ InExact \/ InCompared
    \/ InVerified \/ InReplay \/ InSequential

\* A payload is consistent in itself.
Consistent(d) ==
    /\ d.tokens \in Seq(Token) /\ Len(d.tokens) <= Ctx
    /\ d.logits = d.tokens
    /\ \A l \in Layer : /\ DOMAIN d.rows[l] = WindowOf(Len(d.tokens) - 1)
                        /\ \A q \in WindowOf(Len(d.tokens) - 1) : d.rows[l][q] = RowAt(d.tokens, q)
    /\ d.lane = [ln \in Lane |-> d.lane[ln]]
    /\ \A ln \in Lane : /\ LaneShape(LaneRatio(ln), d.lane[ln])
                        /\ Matches(LaneRatio(ln), d.lane[ln], d.tokens, Len(d.tokens))

Typed ==
    /\ Shape(graph) /\ Bounded(graph)
    /\ checkpoint \in Seq(Token) /\ Len(checkpoint) <= Ctx
    /\ valid \in BOOLEAN /\ sound \in BOOLEAN
    /\ accepted \in Seq(Token)

SessionInv == Typed /\ InCall /\ (disk # NoPayload => Consistent(disk)) /\ AttentionExact

(***************************************************************************)
(* A generation's invariant.                                               *)
(***************************************************************************)

\* The rows of the sliding window of the CPU path after n tokens.
KeptRows(t, n) == [i \in 1 .. Smaller(n, RawKept) |-> RowAt(t, n - Smaller(n, RawKept) + i - 1)]

CpuHolds(m, t, n) ==
    /\ m.raw = [l \in Layer |-> KeptRows(t, n)]
    /\ \A ln \in Lane : /\ LaneShape(LaneRatio(ln), m.lane[ln])
                        /\ Matches(LaneRatio(ln), m.lane[ln], t, n)

MemHolds(backend, m, t, n) == IF backend = "cpu" THEN CpuHolds(m, t, n) ELSE Shape(m) /\ Held(m, t, n)

JobRecord(j) ==
    j = [at |-> j.at, backend |-> j.backend, prompt |-> j.prompt, budget |-> j.budget, emitted |-> j.emitted,
         pos |-> j.pos, parallel |-> j.parallel, read |-> j.read, garbled |-> j.garbled]

JobTyped ==
    /\ JobRecord(job)
    /\ job.at \in {"prefill", "decode", "emitted", "done", "failed"}
    /\ job.backend \in {"cpu", "metal"}
    /\ job.prompt \in Seq(Token) /\ IsSeq(job.emitted) /\ job.budget \in Nat
    /\ job.pos \in Nat

Running ==
    /\ job.garbled = FALSE /\ ReadExactly
    /\ Len(job.prompt) \in 1 .. Ctx
    /\ MemHolds(job.backend, mem, Fed, job.pos)

GenInv ==
    /\ JobTyped
    /\ job.at = "prefill" => Running /\ job.emitted = << >> /\ job.pos <= Len(job.prompt)
    /\ job.at = "decode" => Running /\ job.pos = Len(Fed) /\ job.pos <= Ctx
    /\ job.at = "emitted" => Running /\ job.pos + 1 = Len(Fed) /\ job.pos < Ctx

(***************************************************************************)
(* What is accepted.                                                       *)
(***************************************************************************)

LEMMA SuffixIs ==
    ASSUME NEW s, IsSeq(s), NEW t, IsSeq(t), Len(s) <= Len(t),
           \A i \in 1 .. Len(s) : s[i] = t[Len(t) - Len(s) + i]
    PROVE  IsSuffix(s, t)
<1> DEFINE n == Len(s)
           m == Len(t)
           a == [i \in 1 .. n |-> s[(n - i) + 1]]
           b == [i \in 1 .. m |-> t[(m - i) + 1]]
<1>1. n \in Nat /\ m \in Nat /\ n <= m
  BY DEF IsSeq
<1>2. Reverse(s) = a /\ Reverse(t) = b
  BY DEF Reverse
<1>3. \A i \in 1 .. n : a[i] = b[i]
  <2> SUFFICES ASSUME NEW i \in 1 .. n PROVE a[i] = b[i]
    OBVIOUS
  <2> DEFINE j == (n - i) + 1
  <2>1. j \in 1 .. n /\ i \in 1 .. m /\ m - n + j = (m - i) + 1
    BY <1>1
  <2>2. s[j] = t[m - n + j]
    BY <2>1
  <2>3. a[i] = s[j] /\ b[i] = t[(m - i) + 1]
    BY <2>1
  <2>. QED BY <2>1, <2>2, <2>3
<1>4. IsSeq(a) /\ Len(a) = n /\ IsSeq(b) /\ Len(b) = m
  <2>1. a = [i \in 1 .. n |-> a[i]] /\ b = [i \in 1 .. m |-> b[i]]
    OBVIOUS
  <2> HIDE DEF a, b, n, m
  <2>. QED BY <2>1, <1>1, Listed
<1> HIDE DEF a, b, n, m
<1>5. n \in 0 .. Len(a) /\ n \in 0 .. Len(b)
  BY <1>1, <1>4
<1>6. SubSeq(a, 1, n) = [i \in 1 .. n |-> a[i]] /\ SubSeq(b, 1, n) = [i \in 1 .. n |-> b[i]]
  BY <1>4, <1>5, SubSeqIs
<1>7. IsPrefix(a, b)
  BY <1>1, <1>3, <1>4, <1>6 DEF IsPrefix
<1>. QED BY <1>2, <1>7 DEF IsSuffix

LEMMA EmittedGreedy ==
    ASSUME NEW from, NEW t
    PROVE  Greedy(t) \in Emitted(from, t)
  BY DEF Emitted, RowTops

LEMMA RootOfOne ==
    ASSUME NEW acc, Len(acc) = 1, NEW t, IsSeq(t)
    PROVE  Root(acc, t) = t
<1>1. Len(t) \in Nat /\ Len(t) - 1 + 1 = Len(t) /\ SubSeq(t, 1, Len(t)) = t
  BY PrefixFacts DEF IsSeq
<1>. QED BY <1>1 DEF Root

\* Drafts accepted after tokens accepted before them.
LEMMA RootOfMore ==
    ASSUME NEW acc, IsSeq(acc), NEW t, IsSeq(t), Len(acc) >= 1, Len(acc) <= Len(t), NEW d, IsSeq(d)
    PROVE  /\ Root(acc \o d, t \o d) = Root(acc, t)
           /\ \A k \in 0 .. Len(t) : SubSeq(t \o d, 1, k) = SubSeq(t, 1, k)
<1> DEFINE u == t \o d
           na == Len(acc)
           nt == Len(t)
           nd == Len(d)
<1>1. na \in Nat /\ nt \in Nat /\ nd \in Nat
  BY DEF IsSeq
<1>2. Len(acc \o d) = na + nd /\ IsSeq(u) /\ Len(u) = nt + nd
  BY ConcatIs
<1>3. SubSeq(u, 1, nt) = t
  <2>1. 0 \in 0 .. Len(d)
    BY <1>1
  <2>. QED BY <2>1, PrefixOfConcat
<1> HIDE DEF u, na, nt, nd
<1>4. ASSUME NEW k \in 0 .. nt PROVE SubSeq(u, 1, k) = SubSeq(t, 1, k)
  <2>1. k \in Nat /\ k <= nt /\ nt \in 0 .. nt + nd
    BY <1>1
  <2>2. SubSeq(SubSeq(u, 1, nt), 1, k) = SubSeq(u, 1, k)
    BY <2>1, <1>2, PrefixFacts
  <2>. QED BY <2>2, <1>3
<1>5. (nt + nd) - (na + nd) + 1 = nt - na + 1 /\ nt - na + 1 \in 0 .. nt
  BY <1>1 DEF na, nt
<1>6. Root(acc \o d, u) = Root(acc, t)
  BY <1>2, <1>4, <1>5 DEF Root, na, nt
<1>. QED BY <1>4, <1>6 DEF u, nt

LEMMA ChosenMore ==
    ASSUME NEW acc, IsSeq(acc), NEW t, IsSeq(t), Chosen(acc, t), Len(acc) >= 1, NEW d, IsSeq(d),
           Len(acc) = 1 /\ Len(d) >= 1 => d[1] = Greedy(t)
    PROVE  Chosen(acc \o d, t \o d)
<1> DEFINE a == acc \o d
           u == t \o d
           na == Len(acc)
           nt == Len(t)
           nd == Len(d)
           from == nt - na
<1>1. na \in Nat /\ nt \in Nat /\ nd \in Nat /\ na <= nt /\ from \in Nat /\ na >= 1
  BY DEF IsSeq, Chosen
<1>2. /\ IsSeq(a) /\ Len(a) = na + nd
      /\ \A i \in 1 .. na : a[i] = acc[i]
      /\ \A i \in 1 .. nd : a[na + i] = d[i]
  BY ConcatIs
<1>3. /\ IsSeq(u) /\ Len(u) = nt + nd
      /\ \A i \in 1 .. nt : u[i] = t[i]
      /\ \A i \in 1 .. nd : u[nt + i] = d[i]
  BY ConcatIs
<1>4. /\ \A i \in 1 .. na : acc[i] = t[from + i]
      /\ na > 1 => acc[2] = Greedy(Root(acc, t))
  BY DEF Chosen
<1>5. Root(a, u) = Root(acc, t)
  BY <1>1, RootOfMore
<1>6. na = 1 => Root(acc, t) = t
  BY RootOfOne
<1>13. na = 1 /\ nd >= 1 => d[1] = Greedy(t)
  OBVIOUS
<1> HIDE DEF a, u, na, nt, nd
<1>7. Len(u) - Len(a) = from
  BY <1>1, <1>2, <1>3
<1>8. ASSUME NEW i \in 1 .. na + nd PROVE a[i] = u[from + i]
  <2>1. CASE i <= na
    <3>1. i \in 1 .. na /\ from + i \in 1 .. nt
      BY <1>1, <2>1
    <3>. QED BY <3>1, <1>2, <1>3, <1>4
  <2>2. CASE ~(i <= na)
    <3> DEFINE j == i - na
    <3>1. j \in 1 .. nd /\ i = na + j /\ from + i = nt + j
      BY <1>1, <2>2
    <3> HIDE DEF j
    <3>. QED BY <3>1, <1>2, <1>3
  <2>. QED BY <2>1, <2>2
<1>9. ASSUME na + nd > 1 PROVE a[2] = Greedy(Root(a, u))
  <2>1. CASE na > 1
    <3>1. 2 \in 1 .. na
      BY <1>1, <2>1
    <3>. QED BY <1>2, <1>4, <1>5, <2>1, <3>1
  <2>2. CASE ~(na > 1)
    <3>1. na = 1 /\ nd >= 1 /\ 1 \in 1 .. nd /\ na + 1 = 2
      BY <1>1, <1>9, <2>2
    <3>2. a[2] = d[1]
      BY <1>2, <3>1
    <3>. QED BY <1>5, <1>6, <1>13, <3>1, <3>2
  <2>. QED BY <2>1, <2>2
<1>10. Len(a) <= Len(u)
  BY <1>1, <1>2, <1>3
<1> HIDE DEF from
<1>11. Chosen(a, u)
  <2>1. /\ \A i \in 1 .. Len(a) : a[i] = u[from + i]
        /\ Len(a) > 1 => a[2] = Greedy(Root(a, u))
    BY <1>2, <1>8, <1>9, Zenon
  <2>. QED BY <1>7, <1>10, <2>1, Zenon DEF Chosen
<1>. QED BY <1>11 DEF a, u

LEMMA AllowedMore ==
    ASSUME NEW acc, IsSeq(acc), NEW t, IsSeq(t), Chosen(acc, t), Len(acc) >= 1, Allowed(acc, t), NEW d, IsSeq(d),
           \A i \in 1 .. Len(d) : d[i] \in Emitted(Root(acc, t), t \o SubSeq(d, 1, i - 1))
    PROVE  Allowed(acc \o d, t \o d)
<1> DEFINE a == acc \o d
           u == t \o d
           na == Len(acc)
           nt == Len(t)
           nd == Len(d)
           from == nt - na
           root == Root(acc, t)
<1>1. na \in Nat /\ nt \in Nat /\ nd \in Nat /\ na <= nt /\ from \in Nat /\ na >= 1
  BY DEF IsSeq, Chosen
<1>2. /\ IsSeq(a) /\ Len(a) = na + nd
      /\ \A i \in 1 .. na : a[i] = acc[i]
      /\ \A i \in 1 .. nd : a[na + i] = d[i]
  BY ConcatIs
<1>3. IsSeq(u) /\ Len(u) = nt + nd
  BY ConcatIs
<1>4. \A i \in 2 .. na : acc[i] \in Emitted(root, SubSeq(t, 1, from + i - 1))
  BY DEF Allowed
<1>5. \A k \in 0 .. nd : SubSeq(u, 1, nt + k) = t \o SubSeq(d, 1, k)
  BY PrefixOfConcat
<1>6. Root(a, u) = root /\ \A k \in 0 .. nt : SubSeq(u, 1, k) = SubSeq(t, 1, k)
  BY <1>1, RootOfMore
<1>7. \A i \in 1 .. nd : d[i] \in Emitted(root, t \o SubSeq(d, 1, i - 1))
  OBVIOUS
<1> HIDE DEF a, u, na, nt, nd, root
<1>8. Len(u) - Len(a) = from
  BY <1>1, <1>2, <1>3
<1>9. ASSUME NEW i \in 2 .. na + nd PROVE a[i] \in Emitted(root, SubSeq(u, 1, from + i - 1))
  <2>1. CASE i <= na
    <3> DEFINE k == from + i - 1
    <3>1. i \in 1 .. na /\ i \in 2 .. na /\ k \in 0 .. nt
      BY <1>1, <2>1
    <3>2. a[i] \in Emitted(root, SubSeq(t, 1, k))
      BY <3>1, <1>2, <1>4
    <3> HIDE DEF k
    <3>3. SubSeq(u, 1, k) = SubSeq(t, 1, k)
      BY <3>1, <1>6
    <3>. QED BY <3>2, <3>3 DEF k
  <2>2. CASE ~(i <= na)
    <3> DEFINE j == i - na
    <3>1. j \in 1 .. nd /\ i = na + j /\ from + i - 1 = nt + (j - 1) /\ j - 1 \in 0 .. nd
      BY <1>1, <2>2
    <3> HIDE DEF j
    <3>2. a[i] = d[j]
      BY <3>1, <1>2
    <3>3. d[j] \in Emitted(root, t \o SubSeq(d, 1, j - 1))
      BY <3>1, <1>7
    <3>4. SubSeq(u, 1, nt + (j - 1)) = t \o SubSeq(d, 1, j - 1)
      BY <3>1, <1>5
    <3>. QED BY <3>1, <3>2, <3>3, <3>4
  <2>. QED BY <2>1, <2>2
<1> HIDE DEF from
<1>10. Allowed(a, u)
  <2>1. \A i \in 2 .. Len(a) : a[i] \in Emitted(Root(a, u), SubSeq(u, 1, from + i - 1))
    BY <1>2, <1>6, <1>9, Zenon
  <2>. QED BY <1>8, <2>1, Zenon DEF Allowed
<1>. QED BY <1>10 DEF a, u

LEMMA ChosenNothing ==
    ASSUME NEW t, Len(t) \in Nat
    PROVE  Chosen(<< >>, t) /\ Allowed(<< >>, t)
  BY DEF Chosen, Allowed

LEMMA AllowedOne ==
    ASSUME NEW acc, Len(acc) = 1, NEW t
    PROVE  Allowed(acc, t)
<1>1. 2 .. Len(acc) = {}
  OBVIOUS
<1>. QED BY <1>1 DEF Allowed

\* What the batch verifier lets stand, its call may emit: it is not the one
\* that looks at two drafts of a strict call.
LEMMA StandsIs ==
    ASSUME NEW t, NEW d, Len(d) \in Nat, Len(d) <= MaxDrafts(t), ~Exactly(t, d), NEW k \in BatchAgreed(t, d)
    PROVE  k \in 1 .. Len(d) /\ Emittable(t, d, k)
<1>1. k \in 1 .. Len(d) /\ \A i \in 2 .. k : d[i] \in RowTops(t \o SubSeq(d, 1, i - 1))
  BY DEF BatchAgreed
<1>2. CASE Strict(t) /\ MaxDrafts(t) \in 0 .. 2
  <2>1. Len(d) # 2
    BY <1>2 DEF Exactly
  <2>2. k \in Nat /\ k <= 1
    <3> DEFINE m == MaxDrafts(t)
               n == Len(d)
    <3>1. m \in 0 .. 2 /\ n \in Nat /\ n <= m /\ n # 2 /\ k \in 1 .. n
      BY <1>1, <1>2, <2>1
    <3> HIDE DEF m, n
    <3>. QED BY <3>1
  <2>3. 2 .. k = {}
    BY <2>2
  <2>. QED BY <1>1, <2>3 DEF Emittable
<1>3. CASE ~(Strict(t) /\ MaxDrafts(t) \in 0 .. 2)
  BY <1>1, <1>3 DEF Emittable, Emitted
<1>. QED BY <1>2, <1>3

(***************************************************************************)
(* Payloads.                                                               *)
(***************************************************************************)

\* A window is shorter than a ring: no two of its rows share a slot.
LEMMA WindowSlots ==
    ASSUME NEW n \in 0 .. Ctx, NEW p \in WindowOf(n - 1), NEW q \in WindowOf(n - 1), p % RawCap = q % RawCap
    PROVE  p = q
<1>1. p \in Nat /\ q \in Nat /\ RawCap \in Nat \ {0} /\ p < q + RawCap /\ q < p + RawCap
  BY Sizes DEF WindowOf
<1>2. ~(p < q) /\ ~(q < p)
  BY <1>1, SlotsApart
<1>. QED BY <1>1, <1>2

LEMMA LoadedRingIs ==
    ASSUME NEW ring, NEW rows, NEW n \in 0 .. Ctx, DOMAIN rows = WindowOf(n - 1)
    PROVE  /\ RingShape(LoadedRing(ring, rows))
           /\ \A q \in WindowOf(n - 1) : LoadedRing(ring, rows)[q % RawCap] = rows[q]
<1> DEFINE V(i) == LET here == {q \in DOMAIN rows : q % RawCap = i}
                   IN  IF here = {} THEN ring[i] ELSE rows[CHOOSE q \in here : TRUE]
           e == LoadedRing(ring, rows)
<1>1. e = [i \in 0 .. RawCap - 1 |-> V(i)]
  BY DEF LoadedRing
<1>2. RingShape(e)
  <2> HIDE DEF e, V
  <2>1. e = [i \in 0 .. RawCap - 1 |-> e[i]]
    BY <1>1
  <2>. QED BY <2>1 DEF RingShape
<1>3. ASSUME NEW q \in WindowOf(n - 1) PROVE e[q % RawCap] = rows[q]
  <2> DEFINE i == q % RawCap
             here == {x \in DOMAIN rows : x % RawCap = i}
             one == CHOOSE x \in here : TRUE
  <2>1. q \in Nat
    BY DEF WindowOf
  <2>2. i \in 0 .. RawCap - 1
    BY <2>1, SlotIn
  <2>3. q \in here
    OBVIOUS
  <2>4. \A x \in here : x = q
    BY WindowSlots
  <2>5. one = q
    <3> HIDE DEF here
    <3>. QED BY <2>3, <2>4
  <2>6. e[i] = V(i)
    <3> HIDE DEF e, V, i
    <3>. QED BY <1>1, <2>2
  <2>7. V(i) = rows[one]
    BY <2>3
  <2>. QED BY <2>5, <2>6, <2>7
<1>. QED BY <1>2, <1>3

LEMMA LoadedIs ==
    ASSUME NEW g, NEW d, Consistent(d)
    PROVE  LET h == [ring |-> [l \in Layer |-> LoadedRing(g.ring[l], d.rows[l])], lane |-> d.lane]
           IN  Shape(h) /\ Bounded(h) /\ Held(h, d.tokens, Len(d.tokens))
<1> DEFINE h == [ring |-> [l \in Layer |-> LoadedRing(g.ring[l], d.rows[l])], lane |-> d.lane]
           n == Len(d.tokens)
<1>0. n \in Nat /\ n <= Ctx /\ n \in 0 .. Ctx /\ Win \in Nat
  BY Sizes DEF Consistent
<1>1. /\ h = [ring |-> h.ring, lane |-> h.lane] /\ h.lane = d.lane
      /\ h.ring = [l \in Layer |-> LoadedRing(g.ring[l], d.rows[l])]
  OBVIOUS
<1> HIDE DEF h
<1>2. ASSUME NEW l \in Layer
      PROVE  /\ RingShape(h.ring[l])
             /\ \A q \in WindowOf(n - 1) : h.ring[l][q % RawCap] = RowAt(d.tokens, q)
  <2> DEFINE rows == d.rows[l]
             ring == g.ring[l]
  <2>1. DOMAIN rows = WindowOf(n - 1) /\ \A q \in WindowOf(n - 1) : rows[q] = RowAt(d.tokens, q)
    BY DEF Consistent
  <2>2. h.ring[l] = LoadedRing(ring, rows)
    BY <1>1
  <2> HIDE DEF rows, ring, n
  <2>3. /\ RingShape(LoadedRing(ring, rows))
        /\ \A q \in WindowOf(n - 1) : LoadedRing(ring, rows)[q % RawCap] = rows[q]
    BY <1>0, <2>1, LoadedRingIs
  <2>. QED BY <2>1, <2>2, <2>3, Zenon
<1>3. h.ring = [l \in Layer |-> h.ring[l]]
  <2> DEFINE a == h.ring
             A(l) == LoadedRing(g.ring[l], d.rows[l])
  <2>1. a = [l \in Layer |-> A(l)]
    BY <1>1
  <2> HIDE DEF a, A
  <2>2. a = [l \in Layer |-> a[l]]
    BY <2>1
  <2>. QED BY <2>2 DEF a
<1>4. Shape(h)
  BY <1>1, <1>2, <1>3 DEF Shape, Consistent
<1>5. RingHas(h, d.tokens, n, n)
  <2>1. \A q \in 0 .. n - 1 : n <= q + Win => q \in WindowOf(n - 1)
    BY <1>0 DEF WindowOf
  <2> HIDE DEF n
  <2>. QED BY <1>2, <2>1 DEF RingHas
<1>6. \A ln \in Lane : Matches(LaneRatio(ln), h.lane[ln], d.tokens, n)
  BY <1>1 DEF Consistent
<1>7. Bounded(h)
  <2> HIDE DEF n
  <2>. QED BY <1>0, <1>6, HeldBounded
<1>. QED BY <1>4, <1>5, <1>6, <1>7 DEF Held, h

LEMMA SavedIs ==
    ASSUME NEW g, Shape(g), NEW t \in Seq(Token), Len(t) <= Ctx, Held(g, t, Len(t))
    PROVE  Consistent([tokens |-> t, logits |-> t,
                       rows |-> [l \in Layer |-> LiveRows(g.ring[l], Len(t))], lane |-> g.lane])
<1> DEFINE d == [tokens |-> t, logits |-> t,
                 rows |-> [l \in Layer |-> LiveRows(g.ring[l], Len(t))], lane |-> g.lane]
           n == Len(t)
<1>1. /\ d.tokens = t /\ d.logits = t /\ d.lane = g.lane
      /\ \A l \in Layer : d.rows[l] = LiveRows(g.ring[l], n)
  OBVIOUS
<1> HIDE DEF d
<1>2. n \in Nat /\ Win \in Nat
  BY Sizes
<1>3. ASSUME NEW l \in Layer
      PROVE  /\ DOMAIN d.rows[l] = WindowOf(n - 1)
             /\ \A q \in WindowOf(n - 1) : d.rows[l][q] = RowAt(t, q)
  <2> DEFINE ring == g.ring[l]
  <2>1. d.rows[l] = [q \in WindowOf(n - 1) |-> ring[q % RawCap]]
    BY <1>1 DEF LiveRows
  <2>2. \A q \in WindowOf(n - 1) : q \in 0 .. n - 1 /\ n <= q + Win
    BY <1>2 DEF WindowOf
  <2>3. \A q \in WindowOf(n - 1) : ring[q % RawCap] = RowAt(t, q)
    BY <2>2 DEF Held, RingHas
  <2> HIDE DEF ring
  <2>. QED BY <2>1, <2>3
<1>4. /\ d.lane = [ln \in Lane |-> d.lane[ln]]
      /\ \A ln \in Lane : LaneShape(LaneRatio(ln), d.lane[ln]) /\ Matches(LaneRatio(ln), d.lane[ln], t, n)
  BY <1>1 DEF Shape, Held
<1>. QED BY <1>1, <1>3, <1>4 DEF Consistent, d

(***************************************************************************)
(* What a batch or a decode leaves, whole, torn or put back.               *)
(***************************************************************************)

\* The graph h has been through the tokens p .. p + n - 1 of t as it should.
After(h, t, p, n) ==
    /\ Shape(h) /\ Bounded(h)
    /\ RingHas(h, t, p, p + n) /\ Held(h, t, p + n)
    /\ Misread(h, t, p, n) = {}

LEMMA GrownIsAfter ==
    ASSUME NEW g, NEW h, NEW t, IsSeq(t), NEW p \in Nat, NEW n \in Nat \ {0},
           p + n <= Len(t), p + n <= Ctx, n <= PrefillCap, Grown(g, h, t, p, n), RingHas(g, t, p, p),
           \A ln \in Lane : Matches(LaneRatio(ln), h.lane[ln], t, p + n)
    PROVE  After(h, t, p, n)
<1>1. Shape(h)
  BY DEF Grown
<1>2. RingHas(h, t, p, p + n) /\ Held(h, t, p + n)
  BY GrownHolds
<1>3. p + n \in Nat
  OBVIOUS
<1>4. Bounded(h)
  BY <1>3, HeldBounded
<1>5. Misread(h, t, p, n) = {}
  BY <1>1, <1>2, ReadsExactly
<1>. QED BY <1>1, <1>2, <1>4, <1>5 DEF After

LEMMA BatchExact ==
    ASSUME NEW g, Shape(g), NEW t, IsSeq(t), NEW p \in Nat, NEW n \in Nat \ {0},
           p + n <= Len(t), p + n <= Ctx, n <= PrefillCap, p = 0 \/ Held(g, t, p)
    PROVE  After(Batch(g, t, p, n), t, p, n)
<1> DEFINE h == Batch(g, t, p, n)
<1>1. /\ Grown(g, h, t, p, n)
      /\ p = 0 => \A ln \in Lane : Matches(LaneRatio(ln), h.lane[ln], t, p + n)
  BY BatchGrows
<1> HIDE DEF h
<1>2. RingHas(g, t, p, p)
  BY DEF Held, RingHas
<1>3. \A ln \in Lane : Matches(LaneRatio(ln), h.lane[ln], t, p + n)
  BY <1>1, Zenon DEF Grown, Held
<1>4. After(h, t, p, n)
  BY <1>1, <1>2, <1>3, GrownIsAfter
<1>. QED BY <1>4 DEF h

LEMMA DecodeExact ==
    ASSUME NEW g, Shape(g), NEW t, IsSeq(t), NEW p \in Nat, p < Len(t), p < Ctx, Held(g, t, p)
    PROVE  After(Decode(g, t, p), t, p, 1)
<1> DEFINE h == Decode(g, t, p)
<1>1. Grown(g, h, t, p, 1)
  BY DecodeGrows
<1> HIDE DEF h
<1>2. RingHas(g, t, p, p) /\ \A ln \in Lane : Matches(LaneRatio(ln), g.lane[ln], t, p)
  BY DEF Held
<1>3. \A ln \in Lane : Matches(LaneRatio(ln), h.lane[ln], t, p + 1)
  BY <1>1, <1>2, Zenon DEF Grown
<1>4. 1 \in Nat \ {0} /\ p + 1 <= Len(t) /\ p + 1 <= Ctx /\ 1 <= PrefillCap
  BY Sizes DEF IsSeq
<1>5. After(h, t, p, 1)
  BY <1>1, <1>2, <1>3, <1>4, GrownIsAfter
<1>. QED BY <1>5 DEF h

\* Whatever the tokens, a batch or a decode that fits leaves a well-formed
\* graph, and so does one that fails in some of the layers.
LEMMA BatchSafe ==
    ASSUME NEW g, Shape(g), Bounded(g), NEW t, IsSeq(t), NEW p \in Nat, NEW n \in Nat, p + n <= Len(t)
    PROVE  /\ Encodable(g, p, n) => Shape(Batch(g, t, p, n)) /\ Bounded(Batch(g, t, p, n))
           /\ \A k : EncodableTo(g, p, n, k) => /\ Shape(Partly(g, Batch(g, t, p, n), k))
                                                /\ Bounded(Partly(g, Batch(g, t, p, n), k))
<1> DEFINE h == Batch(g, t, p, n)
<1>1. Shape(h)
  BY BatchGrows DEF Grown
<1>2. ASSUME NEW k, EncodableTo(g, p, n, k)
      PROVE  \A ln \in Lane : ln[1] <= k => Len(h.lane[ln].rows) <= CompCap
  BY <1>2, BatchFits
<1> HIDE DEF h
<1>3. Encodable(g, p, n) => Bounded(h)
  <2>1. \A ln \in Lane : ln[1] <= NumLayers
    BY LaneSizes DEF Layer
  <2>. QED BY <1>2, <2>1 DEF Encodable, Bounded
<1>4. ASSUME NEW k, EncodableTo(g, p, n, k) PROVE Shape(Partly(g, h, k)) /\ Bounded(Partly(g, h, k))
  <2>1. Shape(Partly(g, h, k))
    BY <1>1, PartlyIs
  <2>2. \A ln \in Lane : ln[1] <= k => Len(h.lane[ln].rows) <= CompCap
    BY <1>2, <1>4
  <2>. QED BY <1>1, <2>1, <2>2, PartlyBounded
<1>. QED BY <1>1, <1>3, <1>4 DEF h

LEMMA DecodeSafe ==
    ASSUME NEW g, Shape(g), Bounded(g), NEW t, IsSeq(t), NEW p \in Nat, p < Len(t)
    PROVE  /\ Decodable(g, p) => Shape(Decode(g, t, p)) /\ Bounded(Decode(g, t, p))
           /\ \A k : DecodableTo(g, p, k) => /\ Shape(Partly(g, Decode(g, t, p), k))
                                             /\ Bounded(Partly(g, Decode(g, t, p), k))
<1> DEFINE h == Decode(g, t, p)
<1>1. Shape(h)
  BY DecodeGrows DEF Grown
<1>2. ASSUME NEW k, DecodableTo(g, p, k)
      PROVE  \A ln \in Lane : ln[1] <= k => Len(h.lane[ln].rows) <= CompCap
  BY <1>2, DecodeFits
<1> HIDE DEF h
<1>3. Decodable(g, p) => Bounded(h)
  <2>1. \A ln \in Lane : ln[1] <= NumLayers
    BY LaneSizes DEF Layer
  <2>. QED BY <1>2, <2>1 DEF Decodable, Bounded
<1>4. ASSUME NEW k, DecodableTo(g, p, k) PROVE Shape(Partly(g, h, k)) /\ Bounded(Partly(g, h, k))
  <2>1. Shape(Partly(g, h, k))
    BY <1>1, PartlyIs
  <2>2. \A ln \in Lane : ln[1] <= k => Len(h.lane[ln].rows) <= CompCap
    BY <1>2, <1>4
  <2>. QED BY <1>1, <2>1, <2>2, PartlyBounded
<1>. QED BY <1>1, <1>3, <1>4 DEF h

\* A graph torn between g and h, when h is what a batch or a decode left.
LEMMA TornIs ==
    ASSUME NEW g, Shape(g), Bounded(g), NEW t, NEW p \in Nat, NEW n \in Nat, Held(g, t, p),
           NEW h, After(h, t, p, n), NEW k
    PROVE  Shape(Partly(g, h, k)) /\ Bounded(Partly(g, h, k)) /\ Above(Partly(g, h, k), t, p)
<1>1. Shape(h) /\ Bounded(h) /\ RingHas(h, t, p, p + n)
      /\ \A ln \in Lane : Matches(LaneRatio(ln), h.lane[ln], t, p + n)
  BY DEF After, Held
<1>2. Above(h, t, p)
  <2>1. p + n \in Nat /\ p <= p /\ p <= p + n
    OBVIOUS
  <2>. QED BY <1>1, <2>1, GrownAbove
<1>3. Above(g, t, p)
  BY HeldAbove
<1>4. \A ln \in Lane : ln[1] <= k => Len(h.lane[ln].rows) <= CompCap
  BY <1>1 DEF Bounded
<1>5. Shape(Partly(g, h, k))
  BY <1>1, PartlyIs
<1>6. Bounded(Partly(g, h, k))
  BY <1>1, <1>4, PartlyBounded
<1>7. Above(Partly(g, h, k), t, p)
  BY <1>1, <1>2, <1>3, PartlyAbove
<1>. QED BY <1>5, <1>6, <1>7

\* The frontier is put back, whole or not.
LEMMA PutBackIs ==
    ASSUME NEW g, Shape(g), Bounded(g), NEW f, NEW t, NEW p \in Nat, p <= Ctx,
           Above(g, t, p), FrontierAt(f, t, p), PutBack(g, f)
    PROVE  /\ Shape(graph') /\ Bounded(graph')
           /\ (sound' = sound /\ Held(graph', t, p)) \/ sound' = FALSE
<1> DEFINE h == Restored(g, f)
<1>1. Shape(h) /\ Bounded(h) /\ Held(h, t, p)
  BY RestoredIs
<1>2. (graph' = h /\ sound' = sound) \/ (sound' = FALSE /\ \E k \in 0 .. NumLayers - 1 : graph' = Partly(g, h, k))
  BY DEF PutBack
<1> HIDE DEF h
<1>3. CASE graph' = h /\ sound' = sound
  BY <1>1, <1>3
<1>4. CASE sound' = FALSE /\ \E k \in 0 .. NumLayers - 1 : graph' = Partly(g, h, k)
  <2>1. PICK k : graph' = Partly(g, h, k)
    BY <1>4
  <2>2. \A ln \in Lane : ln[1] <= k => Len(h.lane[ln].rows) <= CompCap
    BY <1>1 DEF Bounded
  <2>3. Shape(Partly(g, h, k)) /\ Bounded(Partly(g, h, k))
    BY <1>1, <2>2, PartlyIs, PartlyBounded
  <2>. QED BY <1>4, <2>1, <2>3
<1>. QED BY <1>2, <1>3, <1>4

(***************************************************************************)
(* A transcript and the drafts behind it.                                  *)
(***************************************************************************)

LEMMA FrontierPrefix ==
    ASSUME NEW f, NEW t, IsSeq(t), NEW m \in 0 .. Len(t), NEW n \in 0 .. m
    PROVE  FrontierAt(f, SubSeq(t, 1, m), n) <=> FrontierAt(f, t, n)
<1> DEFINE u == SubSeq(t, 1, m)
<1>1. IsSeq(u) /\ Len(u) = m /\ n \in Nat /\ n <= m /\ n \in 0 .. Len(u) /\ n \in 0 .. Len(t)
  BY SubSeqIs DEF IsSeq
<1>2. SubSeq(u, 1, n) = SubSeq(t, 1, n)
  BY <1>1, PrefixFacts
<1> HIDE DEF u
<1>3. ASSUME NEW ln \in Lane, NEW i \in 0 .. CurrentHalf(LaneRatio(ln)) + (n % LaneRatio(ln)) - 1
      PROVE  Slot(LaneRatio(ln), u, n, i) = Slot(LaneRatio(ln), t, n, i)
  <2> DEFINE r == LaneRatio(ln)
             A(j) == Slot(r, u, n, j)
             B(j) == Slot(r, t, n, j)
  <2>1. r \in Nat \ {0} /\ n % r \in 0 .. r - 1
    BY LaneSizes, <1>1
  <2>2. i \in 0 .. Depth(r) - 1
    <3> HIDE DEF r
    <3>1. Depth(r) = CurrentHalf(r) + r /\ CurrentHalf(r) \in {0, r}
      BY <2>1, Halves
    <3>2. i \in 0 .. CurrentHalf(r) + (n % r) - 1
      BY DEF r
    <3> DEFINE k == n % r
    <3> HIDE DEF k
    <3>. QED BY <2>1, <3>1, <3>2 DEF k
  <2>3. StateAfter(r, SubSeq(u, 1, n)) = [j \in 0 .. Depth(r) - 1 |-> A(j)]
    <3> HIDE DEF r
    <3>. QED BY <1>1, <2>1, StateAfterIs
  <2>4. StateAfter(r, SubSeq(t, 1, n)) = [j \in 0 .. Depth(r) - 1 |-> B(j)]
    <3> HIDE DEF r
    <3>. QED BY <1>1, <2>1, StateAfterIs
  <2>5. A(i) = B(i)
    <3> HIDE DEF A, B, r
    <3>. QED BY <1>2, <2>2, <2>3, <2>4
  <2>. QED BY <2>5
<1>4. FrontierAt(f, u, n) <=> FrontierAt(f, t, n)
  BY <1>3, Zenon DEF FrontierAt
<1>. QED BY <1>4 DEF u

\* What a graph holds of the transcript s it holds of s and any drafts.
LEMMA HeldBefore ==
    ASSUME NEW s, IsSeq(s), NEW d, IsSeq(d)
    PROVE  /\ IsSeq(s \o d) /\ Len(s \o d) = Len(s) + Len(d) /\ Len(s) \in Nat /\ Len(d) \in Nat
           /\ \A g : Held(g, s \o d, Len(s)) <=> Held(g, s, Len(s))
           /\ \A f : FrontierAt(f, s \o d, Len(s)) <=> FrontierAt(f, s, Len(s))
<1> DEFINE t == s \o d
           p == Len(s)
<1>1. IsSeq(t) /\ Len(t) = p + Len(d) /\ p \in Nat /\ Len(d) \in Nat
  BY ConcatIs DEF IsSeq
<1>2. SubSeq(t, 1, p) = s
  <2>1. 0 \in 0 .. Len(d)
    BY <1>1
  <2>. QED BY <2>1, PrefixOfConcat
<1> HIDE DEF t
<1>3. p \in 0 .. Len(t) /\ p \in 0 .. p
  BY <1>1
<1>4. \A g : Held(g, SubSeq(t, 1, p), p) <=> Held(g, t, p)
  BY <1>1, <1>3, HeldPrefix
<1>5. \A f : FrontierAt(f, SubSeq(t, 1, p), p) <=> FrontierAt(f, t, p)
  BY <1>1, <1>3, FrontierPrefix
<1>. QED BY <1>1, <1>2, <1>4, <1>5 DEF t

\* The same for the first n drafts.
LEMMA HeldDrafts ==
    ASSUME NEW s, IsSeq(s), NEW d, IsSeq(d), NEW n \in 0 .. Len(d)
    PROVE  /\ IsSeq(s \o SubSeq(d, 1, n)) /\ Len(s \o SubSeq(d, 1, n)) = Len(s) + n
           /\ IsSeq(SubSeq(d, 1, n)) /\ Len(SubSeq(d, 1, n)) = n
           /\ \A g : Held(g, s \o d, Len(s) + n) <=> Held(g, s \o SubSeq(d, 1, n), Len(s) + n)
<1> DEFINE t == s \o d
           c == SubSeq(d, 1, n)
           m == Len(s) + n
<1>1. IsSeq(t) /\ Len(t) = Len(s) + Len(d) /\ Len(s) \in Nat /\ Len(d) \in Nat
  BY ConcatIs DEF IsSeq
<1>2. IsSeq(c) /\ Len(c) = n
  BY SubSeqIs
<1>3. SubSeq(t, 1, m) = s \o c
  BY PrefixOfConcat
<1>4. IsSeq(s \o c) /\ Len(s \o c) = m
  <2> HIDE DEF c
  <2>. QED BY <1>2, ConcatIs
<1> HIDE DEF t, c
<1>5. m \in 0 .. Len(t) /\ m \in 0 .. m
  BY <1>1
<1> HIDE DEF m
<1>6. \A g : Held(g, SubSeq(t, 1, m), m) <=> Held(g, t, m)
  BY <1>1, <1>5, HeldPrefix
<1>. QED BY <1>2, <1>3, <1>4, <1>6 DEF t, c, m

(***************************************************************************)
(* A memory nothing has been written to.                                   *)
(***************************************************************************)

LEMMA EmptyLane ==
    ASSUME NEW r \in Nat \ {0}, NEW t
    PROVE  /\ LaneShape(r, EmptyCache(r)) /\ Matches(r, EmptyCache(r), t, 0)
           /\ Len(EmptyCache(r).rows) = 0
<1> DEFINE c == EmptyCache(r)
<1>1. c = [rows |-> << >>, state |-> [i \in 0 .. Depth(r) - 1 |-> NoRow]]
  BY DEF EmptyCache, EmptyState
<1>2. c.rows = << >> /\ c.state = [i \in 0 .. Depth(r) - 1 |-> NoRow]
  BY <1>1
<1>3. c = [rows |-> c.rows, state |-> c.state]
  BY <1>1
<1> HIDE DEF c
<1>4. 0 \div r = 0 /\ 0 % r = 0
  BY DivModUnique
<1>5. IsSeq(c.rows) /\ Len(c.rows) = 0
  BY <1>2 DEF IsSeq
<1>6. c.state = [i \in 0 .. Depth(r) - 1 |-> c.state[i]]
  BY <1>2
<1>7. LaneShape(r, c)
  BY <1>3, <1>5, <1>6 DEF LaneShape
<1>8. c.rows = [b \in 1 .. 0 \div r |-> BlockOf(r, t, b - 1)]
  <2>1. 1 .. 0 \div r = {}
    BY <1>4
  <2> DEFINE B(b) == BlockOf(r, t, b - 1)
  <2> HIDE DEF B
  <2>2. [b \in {} |-> B(b)] = << >>
    OBVIOUS
  <2>. QED BY <1>2, <2>1, <2>2, Zenon DEF B
<1>9. \A i \in 0 .. CurrentHalf(r) + (0 % r) - 1 : c.state[i] = Slot(r, t, 0, i)
  <2> SUFFICES ASSUME NEW i \in 0 .. CurrentHalf(r) + (0 % r) - 1 PROVE c.state[i] = Slot(r, t, 0, i)
    OBVIOUS
  <2>1. CurrentHalf(r) \in {0, r} /\ Depth(r) = CurrentHalf(r) + r
    BY Halves
  <2>2. i \in 0 .. Depth(r) - 1 /\ i < CurrentHalf(r) /\ ~(0 - (0 % r) >= r)
    BY <1>4, <2>1
  <2>3. i \notin CurrentHalf(r) .. CurrentHalf(r) + (0 % r) - 1
    BY <2>1, <2>2
  <2>. QED BY <1>2, <2>2, <2>3 DEF Slot
<1>10. Matches(r, c, t, 0)
  BY <1>8, <1>9 DEF Matches
<1>. QED BY <1>5, <1>7, <1>10 DEF c

LEMMA EmptyGraphIs ==
    Shape(EmptyGraph) /\ Bounded(EmptyGraph) /\ \A t : Held(EmptyGraph, t, 0)
<1> DEFINE g == EmptyGraph
<1>1. /\ g = [ring |-> g.ring, lane |-> g.lane]
      /\ g.ring = [l \in Layer |-> [i \in 0 .. RawCap - 1 |-> NoRow]]
      /\ g.lane = [ln \in Lane |-> EmptyCache(LaneRatio(ln))]
  BY DEF EmptyGraph
<1> HIDE DEF g
<1>2. g.ring = [l \in Layer |-> g.ring[l]] /\ \A l \in Layer : RingShape(g.ring[l])
  BY <1>1 DEF RingShape
<1>3. g.lane = [ln \in Lane |-> g.lane[ln]] /\ \A ln \in Lane : g.lane[ln] = EmptyCache(LaneRatio(ln))
  <2> DEFINE b == g.lane
             B(ln) == EmptyCache(LaneRatio(ln))
  <2>1. b = [ln \in Lane |-> B(ln)]
    BY <1>1
  <2> HIDE DEF b, B
  <2>2. b = [ln \in Lane |-> b[ln]] /\ \A ln \in Lane : b[ln] = B(ln)
    BY <2>1
  <2>. QED BY <2>2 DEF b, B
<1>4. \A ln \in Lane : LaneShape(LaneRatio(ln), g.lane[ln])
  BY <1>3, LaneSizes, EmptyLane
<1>5. \A ln \in Lane : \A t : Matches(LaneRatio(ln), g.lane[ln], t, 0)
  BY <1>3, LaneSizes, EmptyLane
<1>6. Shape(g)
  BY <1>1, <1>2, <1>3, <1>4 DEF Shape
<1>7. Bounded(g)
  <2>1. ASSUME NEW ln \in Lane PROVE Len(g.lane[ln].rows) <= CompCap
    <3>1. LaneRatio(ln) \in Nat \ {0} /\ g.lane[ln] = EmptyCache(LaneRatio(ln))
      BY <1>3, LaneSizes
    <3>2. Len(g.lane[ln].rows) = 0
      BY <3>1, EmptyLane
    <3>3. CompCap \in Nat /\ 0 \div LaneRatio(ln) <= CompCap
      BY Sizes, BlocksOfContext
    <3>. QED BY <3>2, <3>3
  <2>. QED BY <2>1 DEF Bounded
<1>8. \A t : RingHas(g, t, 0, 0)
  BY DEF RingHas
<1>. QED BY <1>5, <1>6, <1>7, <1>8 DEF Held, g

(***************************************************************************)
(* The steps of a session, one by one.                                     *)
(***************************************************************************)

\* A call in progress is where its name says.
LEMMA CallIs ==
    ASSUME InCall
    PROVE  /\ call.op = "idle" => InIdle
           /\ call.op = "prefill" => InPrefill
           /\ call.op = "extend" => InExtend
           /\ call.op = "drafted" => InDrafted
           /\ call.op = "exact" => InExact
           /\ call.op = "compared" => InCompared
           /\ call.op = "verified" => InVerified
           /\ call.op = "replay" => InReplay
           /\ call.op = "sequential" => InSequential
<1>1. InIdle => call.op = "idle"
  BY DEF InIdle, Idle
<1>2. /\ InPrefill => call.op = "prefill"
      /\ InExtend => call.op = "extend"
      /\ InDrafted => call.op = "drafted"
      /\ InExact => call.op = "exact"
      /\ InCompared => call.op = "compared"
      /\ InVerified => call.op = "verified"
      /\ InReplay => call.op = "replay"
      /\ InSequential => call.op = "sequential"
  BY DEF InPrefill, InExtend, InDrafted, InExact, InCompared, InVerified, InReplay, InSequential
<1>. QED BY <1>1, <1>2 DEF InCall

\* What a step has read, when it has read anything.
LEMMA ReadNothing ==
    ASSUME ReadsNothing
    PROVE  AttentionExact'
  BY DEF ReadsNothing, AttentionExact

LEMMA ReadRight ==
    ASSUME NEW t, NEW p, NEW n, Reads(t, p, n), sound' => Misread(graph', t, p, n) = {}
    PROVE  AttentionExact'
  BY DEF Reads, AttentionExact

LEMMA TranscriptIs ==
    ASSUME NEW t \in Transcripts
    PROVE  t \in Seq(Token)
<1>1. PICK c \in Conversations : \E n \in 0 .. Len(c) : t = SubSeq(c, 1, n)
  BY DEF Transcripts
<1>2. PICK n \in 0 .. Len(c) : t = SubSeq(c, 1, n)
  BY <1>1
<1>3. c \in Seq(Token)
  BY <1>1, SessionAssumption
<1>. QED BY <1>2, <1>3

LEMMA PrefixTokens ==
    ASSUME NEW t \in Seq(Token), NEW n \in 0 .. Len(t)
    PROVE  /\ SubSeq(t, 1, n) \in Seq(Token) /\ Len(SubSeq(t, 1, n)) = n
           /\ \A g : Held(g, SubSeq(t, 1, n), n) <=> Held(g, t, n)
<1>1. IsSeq(t)
  BY SeqIs
<1>2. Len(SubSeq(t, 1, n)) = n /\ SubSeq(t, 1, n) \in Seq(Token)
  BY <1>1, SubSeqIs
<1>3. n \in 0 .. n
  OBVIOUS
<1>. QED BY <1>1, <1>2, <1>3, HeldPrefix

LEMMA SyncKeeps ==
    ASSUME SessionInv, NEW prompt \in Transcripts, NEW notify \in BOOLEAN, Sync(prompt, notify)
    PROVE  SessionInv'
<1>1. Typed /\ InIdle /\ (disk # NoPayload => Consistent(disk))
  BY CallIs DEF SessionInv, Sync
<1>2. /\ Len(prompt) \in 1 .. Ctx - 1 /\ accepted' = << >> /\ ReadsNothing
      /\ UNCHANGED <<graph, checkpoint, valid, logits, disk, sound>>
  BY DEF Sync
<1>3. prompt \in Seq(Token) /\ IsSeq(prompt) /\ Len(prompt) \in Nat
  BY TranscriptIs, SeqIs
<1>4. checkpoint \in Seq(Token) /\ IsSeq(checkpoint) /\ Len(checkpoint) \in Nat
  BY <1>1, SeqIs DEF Typed
<1>5. Typed'
  <2>1. << >> \in Seq(Token)
    OBVIOUS
  <2>. QED BY <1>1, <1>2, <2>1 DEF Typed
<1>6. Exact /\ (draft' = draft \/ draft' = NoDraft) => Exact'
  BY <1>2 DEF Exact, NoDraft
<1>7. Exact
  BY <1>1 DEF InIdle
<1>8. ASSUME Extends(prompt)
      PROVE  /\ valid /\ Len(checkpoint) <= Len(prompt) /\ checkpoint = SubSeq(prompt, 1, Len(checkpoint))
             /\ sound => Held(graph, prompt, Len(checkpoint))
  <2>1. valid /\ Len(checkpoint) <= Len(prompt) /\ SubSeq(checkpoint, 1, Len(checkpoint)) = SubSeq(prompt, 1, Len(checkpoint))
    BY <1>8 DEF Extends, IsPrefix
  <2>2. checkpoint = SubSeq(prompt, 1, Len(checkpoint))
    BY <2>1, <1>4, PrefixFacts
  <2>3. Len(checkpoint) \in 0 .. Len(prompt)
    BY <2>1, <1>3, <1>4
  <2>4. sound => Held(graph, checkpoint, Len(checkpoint))
    BY <1>7, <2>1 DEF Exact
  <2> DEFINE n == Len(checkpoint)
  <2> HIDE DEF n
  <2>5. n \in 0 .. Len(prompt) /\ checkpoint = SubSeq(prompt, 1, n) /\ (sound => Held(graph, checkpoint, n))
    BY <2>2, <2>3, <2>4 DEF n
  <2>6. Held(graph, SubSeq(prompt, 1, n), n) <=> Held(graph, prompt, n)
    BY <1>3, <2>5, PrefixTokens
  <2>7. sound => Held(graph, prompt, n)
    BY <2>5, <2>6
  <2>. QED BY <2>1, <2>2, <2>7 DEF n
<1> DEFINE batch(start, n) == [op |-> "prefill", prompt |-> prompt, start |-> start, at |-> start, notify |-> n]
<1>9. ASSUME NEW start \in 0 .. Len(prompt), NEW n, call' = batch(start, n),
             draft' = draft \/ draft' = NoDraft, sound /\ start > 0 => Held(graph, prompt, start)
      PROVE  InPrefill'
  <2>1. Exact'
    BY <1>6, <1>7, <1>9
  <2>2. /\ call'.op = "prefill" /\ call'.prompt = prompt /\ call'.start = start /\ call'.at = start
        /\ call'.notify = n /\ call' = batch(start, n)
    BY <1>9
  <2>3. graph' = graph /\ sound' = sound /\ accepted' = << >> /\ start \in Nat
    BY <1>2, <1>3
  <2>. QED BY <1>2, <1>3, <1>9, <2>1, <2>2, <2>3 DEF InPrefill
<1>10. InCall'
  <2>1. CASE Extends(prompt) /\ call' = batch(Len(checkpoint), notify) /\ draft' = NoDraft
    <3>1. Len(checkpoint) \in 0 .. Len(prompt) /\ (sound => Held(graph, prompt, Len(checkpoint)))
      BY <2>1, <1>3, <1>4, <1>8
    <3> HIDE DEF batch
    <3>. QED BY <2>1, <3>1, <1>9 DEF InCall
  <2>2. CASE Extends(prompt) /\ call' = [op |-> "extend", prompt |-> prompt] /\ draft' = NoDraft
    <3>1. Exact'
      BY <1>6, <1>7, <2>2
    <3>2. call'.op = "extend" /\ call'.prompt = prompt
      BY <2>2
    <3>3. /\ valid /\ Len(checkpoint) <= Len(prompt) /\ checkpoint = SubSeq(prompt, 1, Len(checkpoint))
          /\ Len(prompt) < Ctx
      BY <1>2, <1>3, <1>8, <2>2, Sizes
    <3>4. InExtend'
      BY <1>2, <1>3, <2>2, <3>1, <3>2, <3>3, Zenon DEF InExtend
    <3>. QED BY <3>4 DEF InCall
  <2>3. CASE Extends(prompt) /\ call' = Idle /\ draft' = NoDraft
    <3>1. Exact'
      BY <1>6, <1>7, <2>3
    <3>2. Chosen(<< >>, checkpoint) /\ Allowed(<< >>, checkpoint)
      BY <1>4, ChosenNothing
    <3>3. InIdle'
      BY <1>2, <2>3, <3>1, <3>2 DEF InIdle
    <3>. QED BY <3>3 DEF InCall
  <2>4. CASE call' = batch(0, notify /\ PrefillCap < Len(prompt)) /\ UNCHANGED draft
    <3>1. 0 \in 0 .. Len(prompt) /\ ~(0 > 0)
      BY <1>3
    <3> HIDE DEF batch
    <3>. QED BY <2>4, <3>1, <1>9 DEF InCall
  <2>. QED BY <2>1, <2>2, <2>3, <2>4 DEF Sync
<1>11. AttentionExact'
  BY <1>2, ReadNothing
<1>. QED BY <1>1, <1>2, <1>5, <1>10, <1>11 DEF SessionInv

LEMMA ChunkIs ==
    ASSUME InPrefill, call.at < Len(call.prompt)
    PROVE  ChunkLen \in Nat \ {0} /\ ChunkLen <= PrefillCap /\ call.at + ChunkLen <= Len(call.prompt)
<1> DEFINE m == Len(call.prompt)
           a == call.at
           k == a % PrefillCap
<1>1. m \in Nat /\ a \in Nat /\ a < m /\ PrefillCap \in Nat \ {0} /\ RawCap \in Nat \ {0}
  BY Sizes DEF InPrefill
<1>2. k \in 0 .. PrefillCap - 1
  <2> HIDE DEF a
  <2>. QED BY <1>1
<1>3. ChunkLen = Smaller(m - a, IF call.start # 0 THEN Smaller(PrefillCap - k, Smaller(PrefillCap, RawCap))
                                ELSE PrefillCap)
  BY DEF ChunkLen
<1> HIDE DEF m, a, k
<1>4. Smaller(PrefillCap, RawCap) \in 1 .. PrefillCap
  BY <1>1 DEF Smaller
<1>5. Smaller(PrefillCap - k, Smaller(PrefillCap, RawCap)) \in 1 .. PrefillCap
  <2> DEFINE w == Smaller(PrefillCap, RawCap)
  <2> HIDE DEF w
  <2>1. w \in 1 .. PrefillCap
    BY <1>4 DEF w
  <2>. QED BY <1>1, <1>2, <2>1 DEF Smaller, w
<1> DEFINE c == IF call.start # 0 THEN Smaller(PrefillCap - k, Smaller(PrefillCap, RawCap)) ELSE PrefillCap
<1>6. c \in 1 .. PrefillCap
  BY <1>1, <1>5
<1> HIDE DEF c
<1>7. Smaller(m - a, c) \in Nat \ {0} /\ Smaller(m - a, c) <= PrefillCap /\ a + Smaller(m - a, c) <= m
  BY <1>1, <1>6 DEF Smaller
<1>. QED BY <1>3, <1>7 DEF c, m, a

LEMMA PrefillChunkKeeps ==
    ASSUME SessionInv, PrefillChunk
    PROVE  SessionInv'
<1>1. Typed /\ InPrefill /\ (disk # NoPayload => Consistent(disk)) /\ call.at < Len(call.prompt)
  BY CallIs DEF SessionInv, PrefillChunk
<1> DEFINE t == call.prompt
           p == call.at
           n == ChunkLen
           u == SubSeq(t, 1, p + n)
<1>2. /\ Encodable(graph, p, n) /\ graph' = Batch(graph, t, p, n) /\ Reads(t, p, n)
      /\ sound' = (sound \/ p = 0) /\ Note(u) /\ call' = [call EXCEPT !.at = p + n]
      /\ accepted' = accepted /\ disk' = disk
  BY DEF PrefillChunk
<1>3. n \in Nat \ {0} /\ n <= PrefillCap /\ p + n <= Len(t)
  BY <1>1, ChunkIs
<1>4. /\ call = [op |-> "prefill", prompt |-> t, start |-> call.start, at |-> p, notify |-> call.notify]
      /\ t \in Seq(Token) /\ Len(t) \in 1 .. Ctx - 1 /\ call.start \in Nat /\ p \in 0 .. Len(t)
      /\ accepted = << >> /\ (call.notify => Exact) /\ (sound /\ p > 0 => Held(graph, t, p))
  BY <1>1 DEF InPrefill
<1>5. call' = [op |-> "prefill", prompt |-> t, start |-> call.start, at |-> p + n, notify |-> call.notify]
  BY <1>2, <1>4
<1>6. /\ call'.op = "prefill" /\ call'.prompt = t /\ call'.start = call.start /\ call'.at = p + n
      /\ call'.notify = call.notify
  BY <1>5
<1> HIDE DEF t, p, n
<1>7. IsSeq(t) /\ p \in Nat /\ Len(t) \in Nat /\ Ctx \in Nat /\ p + n <= Ctx /\ p + n \in 0 .. Len(t) /\ p + n > 0
  <2>1. IsSeq(t)
    BY <1>4, SeqIs
  <2>. QED BY <2>1, <1>3, <1>4, Sizes
<1>8. Shape(graph') /\ Bounded(graph')
  <2>1. Shape(graph) /\ Bounded(graph)
    BY <1>1 DEF Typed
  <2>. QED BY <1>2, <1>3, <1>7, <2>1, BatchSafe
<1>9. sound' => Held(graph', t, p + n) /\ Misread(graph', t, p, n) = {}
  <2>0. (sound' => sound \/ p = 0) /\ (sound /\ p > 0 => Held(graph, t, p))
    BY <1>2, <1>4, Zenon
  <2>1. sound' => p = 0 \/ Held(graph, t, p)
    BY <2>0, <1>7
  <2>2. Shape(graph)
    BY <1>1 DEF Typed
  <2>3. sound' => After(Batch(graph, t, p, n), t, p, n)
    BY <1>3, <1>7, <2>1, <2>2, BatchExact
  <2>. QED BY <1>2, <2>3 DEF After
<1>10. u \in Seq(Token) /\ Len(u) = p + n /\ (Held(graph', u, p + n) <=> Held(graph', t, p + n))
  BY <1>4, <1>7, PrefixTokens
<1> HIDE DEF u
<1>11. \/ call.notify /\ checkpoint' = u /\ valid' = TRUE /\ logits' = u /\ draft' = NoDraft
       \/ ~call.notify /\ UNCHANGED <<checkpoint, valid, logits, draft>>
  BY <1>2 DEF Note, Hold
<1>12. call.notify => Exact'
  <2>1. call.notify => checkpoint' = u /\ logits' = u /\ draft' = NoDraft
    BY <1>11
  <2>2. call.notify /\ sound' => Held(graph', u, Len(u))
    BY <1>9, <1>10
  <2>. QED BY <2>1, <2>2 DEF Exact, NoDraft
<1>13. InPrefill'
  <2>1. sound' /\ p + n > 0 => Held(graph', t, p + n)
    BY <1>9
  <2>. QED BY <1>2, <1>4, <1>5, <1>6, <1>7, <1>12, <2>1, Zenon DEF InPrefill
<1>14. Typed'
  <2>1. checkpoint' \in Seq(Token) /\ Len(checkpoint') <= Ctx
    BY <1>1, <1>7, <1>10, <1>11 DEF Typed
  <2>2. valid' \in BOOLEAN /\ sound' \in BOOLEAN
    BY <1>1, <1>2, <1>11 DEF Typed
  <2>. QED BY <1>1, <1>2, <1>8, <2>1, <2>2 DEF Typed
<1>15. AttentionExact'
  BY <1>2, <1>9, ReadRight
<1>. QED BY <1>1, <1>2, <1>13, <1>14, <1>15 DEF SessionInv, InCall

LEMMA PrefillDoneKeeps ==
    ASSUME SessionInv, PrefillDone
    PROVE  SessionInv'
<1>1. Typed /\ InPrefill /\ (disk # NoPayload => Consistent(disk)) /\ call.at = Len(call.prompt)
  BY CallIs DEF SessionInv, PrefillDone
<1> DEFINE t == call.prompt
<1>2. /\ checkpoint' = t /\ valid' = TRUE /\ logits' = t /\ draft' = NoDraft /\ call' = Idle
      /\ ReadsNothing /\ UNCHANGED <<graph, accepted, disk, sound>>
  BY DEF PrefillDone, Hold
<1>3. /\ t \in Seq(Token) /\ Len(t) \in 1 .. Ctx - 1 /\ accepted = << >>
      /\ (sound /\ Len(t) > 0 => Held(graph, t, Len(t)))
  BY <1>1 DEF InPrefill
<1> HIDE DEF t
<1>4. Len(t) \in Nat /\ Len(t) <= Ctx /\ Len(t) > 0
  BY <1>3, Sizes
<1>5. Exact'
  BY <1>2, <1>3, <1>4 DEF Exact, NoDraft
<1>6. Chosen(<< >>, t) /\ Allowed(<< >>, t)
  BY <1>4, ChosenNothing
<1>7. InIdle'
  BY <1>2, <1>3, <1>5, <1>6 DEF InIdle
<1>8. Typed'
  BY <1>1, <1>2, <1>3, <1>4 DEF Typed
<1>9. AttentionExact'
  BY <1>2, ReadNothing
<1>. QED BY <1>1, <1>2, <1>7, <1>8, <1>9 DEF SessionInv, InCall

\* A call that gives up leaves a well-formed graph and no checkpoint to extend.
LEMMA GivesUp ==
    ASSUME SessionInv, GiveUp, Shape(graph'), Bounded(graph'), ReadsNothing
    PROVE  SessionInv'
<1>1. valid' = FALSE /\ call' = Idle /\ UNCHANGED <<checkpoint, logits, accepted, disk, sound>>
  BY DEF GiveUp
<1>2. InIdle'
  BY <1>1 DEF InIdle, Exact
<1>3. Typed'
  BY <1>1 DEF SessionInv, Typed
<1>4. AttentionExact'
  BY ReadNothing
<1>. QED BY <1>1, <1>2, <1>3, <1>4 DEF SessionInv, InCall

LEMMA PrefillFailKeeps ==
    ASSUME SessionInv, PrefillFail
    PROVE  SessionInv'
<1>1. Typed /\ InPrefill /\ GiveUp /\ ReadsNothing
  BY CallIs DEF SessionInv, PrefillFail
<1>2. Shape(graph) /\ Bounded(graph)
  BY <1>1 DEF Typed
<1>3. Shape(graph') /\ Bounded(graph')
  <2>1. CASE UNCHANGED graph
    BY <1>2, <2>1
  <2>2. CASE /\ call.at < Len(call.prompt)
             /\ \E k \in 0 .. NumLayers :
                   /\ EncodableTo(graph, call.at, ChunkLen, k)
                   /\ graph' = Partly(graph, Batch(graph, call.prompt, call.at, ChunkLen), k)
    <3> DEFINE t == call.prompt
               p == call.at
               n == ChunkLen
    <3>1. n \in Nat \ {0} /\ p + n <= Len(t)
      BY <1>1, <2>2, ChunkIs
    <3>2. t \in Seq(Token) /\ p \in 0 .. Len(t)
      BY <1>1 DEF InPrefill
    <3>3. PICK k : EncodableTo(graph, p, n, k) /\ graph' = Partly(graph, Batch(graph, t, p, n), k)
      BY <2>2
    <3> HIDE DEF t, p, n
    <3>4. IsSeq(t) /\ p \in Nat /\ n \in Nat
      BY <3>1, <3>2, SeqIs
    <3>. QED BY <1>2, <3>1, <3>3, <3>4, BatchSafe
  <2>. QED BY <2>1, <2>2 DEF PrefillFail
<1>. QED BY <1>1, <1>3, GivesUp

LEMMA DecodedIs ==
    ASSUME Typed, NEW t \in Seq(Token), Len(t) >= 1, Len(t) <= Ctx, Decoded(t)
    PROVE  /\ Shape(graph') /\ Bounded(graph') /\ Reads(t, Len(t) - 1, 1)
           /\ Held(graph, t, Len(t) - 1) => /\ Held(graph', t, Len(t))
                                            /\ RingHas(graph', t, Len(t) - 1, Len(t))
                                            /\ Misread(graph', t, Len(t) - 1, 1) = {}
<1> DEFINE p == Len(t) - 1
<1>1. Shape(graph) /\ Bounded(graph)
  BY DEF Typed
<1>2. Decodable(graph, p) /\ graph' = Decode(graph, t, p) /\ Reads(t, p, 1)
  BY DEF Decoded
<1>3. IsSeq(t)
  BY SeqIs
<1>4. p \in Nat /\ p < Len(t) /\ p < Ctx /\ p + 1 = Len(t)
  BY Sizes
<1> HIDE DEF p
<1>5. Shape(graph') /\ Bounded(graph')
  BY <1>1, <1>2, <1>3, <1>4, DecodeSafe
<1>6. Held(graph, t, p) => After(Decode(graph, t, p), t, p, 1)
  BY <1>1, <1>3, <1>4, DecodeExact
<1>7. Held(graph, t, p) => /\ Held(graph', t, Len(t)) /\ RingHas(graph', t, p, Len(t))
                           /\ Misread(graph', t, p, 1) = {}
  BY <1>2, <1>4, <1>6, Zenon DEF After
<1>. QED BY <1>2, <1>5, <1>7 DEF p

LEMMA DecodeFailsIs ==
    ASSUME Typed, NEW t \in Seq(Token), Len(t) >= 1, DecodeFails(t)
    PROVE  Shape(graph') /\ Bounded(graph') /\ ReadsNothing
<1> DEFINE p == Len(t) - 1
<1>1. Shape(graph) /\ Bounded(graph)
  BY DEF Typed
<1>2. IsSeq(t)
  BY SeqIs
<1>3. p \in Nat /\ p < Len(t)
  OBVIOUS
<1>4. PICK k : DecodableTo(graph, p, k) /\ graph' = Partly(graph, Decode(graph, t, p), k)
  BY DEF DecodeFails
<1>5. ReadsNothing
  BY DEF DecodeFails
<1> HIDE DEF p
<1>. QED BY <1>1, <1>2, <1>3, <1>4, <1>5, DecodeSafe

LEMMA AppendTokens ==
    ASSUME NEW t \in Seq(Token), NEW tok \in Token
    PROVE  /\ Append(t, tok) \in Seq(Token) /\ Len(Append(t, tok)) = Len(t) + 1
           /\ Len(t) \in Nat /\ (Len(t) + 1) - 1 = Len(t)
           /\ \A g : Held(g, Append(t, tok), Len(t)) <=> Held(g, t, Len(t))
<1> DEFINE u == Append(t, tok)
           n == Len(t)
<1>1. IsSeq(t) /\ u \in Seq(Token) /\ Len(u) = n + 1 /\ n \in Nat
  BY SeqIs
<1>2. SubSeq(u, 1, n) = t
  BY <1>1, PrefixOfAppend
<1> HIDE DEF u, n
<1>3. n \in 0 .. Len(u)
  BY <1>1
<1>4. \A g : Held(g, SubSeq(u, 1, n), n) <=> Held(g, u, n)
  BY <1>1, <1>3, PrefixTokens
<1>5. (n + 1) - 1 = n
  BY <1>1
<1>6. ASSUME NEW g PROVE Held(g, u, n) <=> Held(g, t, n)
  BY <1>2, <1>4
<1>. QED BY <1>1, <1>5, <1>6, Zenon DEF u, n

LEMMA ExtendKeeps ==
    ASSUME SessionInv, Extend
    PROVE  SessionInv'
<1> DEFINE t == NextOf(call.prompt)
           c == call.prompt
           p == Len(checkpoint)
<1>1. Typed /\ InExtend /\ (disk # NoPayload => Consistent(disk)) /\ p < Len(c)
  BY CallIs DEF SessionInv, Extend
<1>2. Decoded(t) /\ Hold(t) /\ UNCHANGED <<draft, accepted, call, disk, sound>>
  BY DEF Extend
<1>3. /\ call.op = "extend" /\ c \in Seq(Token) /\ Len(c) < Ctx /\ p <= Len(c) /\ checkpoint = SubSeq(c, 1, p)
      /\ valid /\ draft = NoDraft /\ accepted = << >> /\ Exact
  BY <1>1 DEF InExtend
<1>4. p \in Nat /\ Len(c) \in Nat
  BY <1>1, <1>3 DEF Typed
<1>5. t = SubSeq(c, 1, p + 1)
  BY DEF NextOf
<1> HIDE DEF t, c
<1>6. checkpoint' = t /\ valid' = TRUE /\ logits' = t
  BY <1>2 DEF Hold
<1>7. p + 1 \in 0 .. Len(c) /\ p \in 0 .. Len(c)
  BY <1>1, <1>4
<1>8. /\ t \in Seq(Token) /\ Len(t) = p + 1
      /\ \A g : Held(g, t, p + 1) <=> Held(g, c, p + 1)
  BY <1>3, <1>5, <1>7, PrefixTokens
<1>9. IsSeq(c)
  BY <1>3, SeqIs
<1>10. p \in 0 .. p + 1
  BY <1>4
<1>11. sound => Held(graph, t, p)
  <2>1. sound => Held(graph, checkpoint, p)
    BY <1>3 DEF Exact
  <2> HIDE DEF p
  <2>2. Held(graph, SubSeq(c, 1, p), p) <=> Held(graph, c, p)
    BY <1>3, <1>7, PrefixTokens
  <2>3. Held(graph, SubSeq(c, 1, p + 1), p) <=> Held(graph, c, p)
    BY <1>7, <1>9, <1>10, HeldPrefix
  <2>. QED BY <2>1, <2>2, <2>3, <1>3, <1>5, Zenon
<1>12. Len(t) >= 1 /\ Len(t) <= Ctx /\ Len(t) - 1 = p
  BY <1>1, <1>3, <1>4, <1>8, Sizes
<1>13. /\ Shape(graph') /\ Bounded(graph') /\ Reads(t, p, 1)
       /\ sound => Held(graph', t, Len(t)) /\ Misread(graph', t, p, 1) = {}
  <2> HIDE DEF p
  <2>1. /\ Shape(graph') /\ Bounded(graph') /\ Reads(t, Len(t) - 1, 1)
        /\ Held(graph, t, Len(t) - 1) => /\ Held(graph', t, Len(t))
                                         /\ Misread(graph', t, Len(t) - 1, 1) = {}
    BY <1>1, <1>2, <1>8, <1>12, DecodedIs
  <2>. QED BY <1>11, <1>12, <2>1, Zenon
<1>14. Exact'
  BY <1>2, <1>3, <1>6, <1>13 DEF Exact, NoDraft
<1>15. InExtend'
  <2>1. call' = call /\ draft' = NoDraft /\ accepted' = << >> /\ Len(t) <= Len(c) /\ checkpoint' = SubSeq(c, 1, Len(t))
    BY <1>2, <1>3, <1>5, <1>6, <1>7, <1>8
  <2>. QED BY <1>3, <1>6, <1>14, <2>1 DEF InExtend, c
<1>16. Typed'
  BY <1>1, <1>2, <1>6, <1>8, <1>12, <1>13 DEF Typed
<1>17. AttentionExact'
  BY <1>2, <1>13, ReadRight
<1>. QED BY <1>1, <1>2, <1>15, <1>16, <1>17 DEF SessionInv, InCall

LEMMA ExtendFailKeeps ==
    ASSUME SessionInv, ExtendFail
    PROVE  SessionInv'
<1> DEFINE t == NextOf(call.prompt)
           c == call.prompt
           p == Len(checkpoint)
<1>1. Typed /\ InExtend /\ p < Len(c) /\ DecodeFails(t) /\ GiveUp
  BY CallIs DEF SessionInv, ExtendFail
<1>2. c \in Seq(Token) /\ p \in Nat /\ t = SubSeq(c, 1, p + 1)
  BY <1>1 DEF InExtend, Typed, NextOf
<1> HIDE DEF t, c, p
<1>3. p + 1 \in 0 .. Len(c)
  BY <1>1, <1>2
<1>4. t \in Seq(Token) /\ Len(t) = p + 1 /\ Len(t) >= 1
  BY <1>2, <1>3, PrefixTokens
<1>5. Shape(graph') /\ Bounded(graph') /\ ReadsNothing
  BY <1>1, <1>4, DecodeFailsIs
<1>. QED BY <1>1, <1>5, GivesUp

LEMMA ExtendDoneKeeps ==
    ASSUME SessionInv, ExtendDone
    PROVE  SessionInv'
<1>1. Typed /\ InExtend /\ (disk # NoPayload => Consistent(disk))
  BY CallIs DEF SessionInv, ExtendDone
<1>2. /\ call' = Idle /\ ReadsNothing
      /\ UNCHANGED <<graph, checkpoint, valid, logits, draft, accepted, disk, sound>>
  BY DEF ExtendDone
<1>3. Exact'
  BY <1>1, <1>2 DEF InExtend, Exact
<1>4. Chosen(<< >>, checkpoint) /\ Allowed(<< >>, checkpoint)
  BY <1>1, ChosenNothing DEF Typed
<1>5. InIdle'
  BY <1>1, <1>2, <1>3, <1>4 DEF InIdle, InExtend
<1>6. Typed'
  BY <1>1, <1>2 DEF Typed
<1>7. AttentionExact'
  BY <1>2, ReadNothing
<1>. QED BY <1>1, <1>2, <1>5, <1>6, <1>7 DEF SessionInv, InCall

LEMMA CanEvalIs ==
    ASSUME SessionInv, NEW tok \in Token, CanEval(tok)
    PROVE  LET t == Append(checkpoint, tok)
           IN  /\ Typed /\ call = Idle /\ valid /\ sound /\ (disk # NoPayload => Consistent(disk))
               /\ t \in Seq(Token) /\ Len(t) = Len(checkpoint) + 1 /\ Len(t) >= 1 /\ Len(t) <= Ctx
               /\ Len(t) - 1 = Len(checkpoint) /\ Held(graph, t, Len(t) - 1)
<1> DEFINE t == Append(checkpoint, tok)
<1>1. Typed /\ InIdle /\ (disk # NoPayload => Consistent(disk)) /\ valid /\ sound /\ Len(checkpoint) < Ctx
  BY CallIs DEF SessionInv, CanEval
<1>2. checkpoint \in Seq(Token) /\ Held(graph, checkpoint, Len(checkpoint)) /\ call = Idle
  BY <1>1 DEF Typed, InIdle, Exact
<1>3. /\ t \in Seq(Token) /\ Len(t) = Len(checkpoint) + 1 /\ Len(checkpoint) \in Nat
      /\ Held(graph, t, Len(checkpoint))
  BY <1>2, AppendTokens
<1> HIDE DEF t
<1>4. Len(t) >= 1 /\ Len(t) <= Ctx /\ Len(t) - 1 = Len(checkpoint)
  BY <1>1, <1>3, Sizes
<1>. QED BY <1>1, <1>2, <1>3, <1>4 DEF t

LEMMA EvalKeeps ==
    ASSUME SessionInv, NEW tok \in Token, Eval(tok)
    PROVE  SessionInv'
<1> DEFINE t == Append(checkpoint, tok)
<1>1. CanEval(tok)
  BY DEF Eval
<1>2. /\ Typed /\ call = Idle /\ valid /\ sound /\ (disk # NoPayload => Consistent(disk))
      /\ t \in Seq(Token) /\ Len(t) >= 1 /\ Len(t) <= Ctx /\ Held(graph, t, Len(t) - 1)
  BY <1>1, CanEvalIs
<1>3. /\ Decoded(t) /\ Hold(t) /\ (draft' = {t} \/ draft' = NoDraft)
      /\ accepted' = << >> /\ UNCHANGED <<call, disk, sound>>
  BY DEF Eval
<1> HIDE DEF t
<1>4. /\ Shape(graph') /\ Bounded(graph') /\ Reads(t, Len(t) - 1, 1)
      /\ Held(graph', t, Len(t)) /\ Misread(graph', t, Len(t) - 1, 1) = {}
  BY <1>2, <1>3, DecodedIs
<1>5. checkpoint' = t /\ valid' = TRUE /\ logits' = t
  BY <1>3 DEF Hold
<1>6. Exact'
  <2>1. draft' \subseteq {t}
    BY <1>3 DEF NoDraft
  <2>. QED BY <2>1, <1>4, <1>5 DEF Exact
<1>7. Chosen(<< >>, t) /\ Allowed(<< >>, t)
  <2>1. Len(t) \in Nat
    BY <1>2
  <2>. QED BY <2>1, ChosenNothing
<1>8. InIdle'
  BY <1>2, <1>3, <1>5, <1>6, <1>7 DEF InIdle
<1>9. Typed'
  BY <1>2, <1>3, <1>4, <1>5 DEF Typed
<1>10. AttentionExact'
  BY <1>4, ReadRight
<1>. QED BY <1>2, <1>3, <1>8, <1>9, <1>10 DEF SessionInv, InCall

LEMMA EvalFailKeeps ==
    ASSUME SessionInv, NEW tok \in Token, EvalFail(tok)
    PROVE  SessionInv'
<1> DEFINE t == Append(checkpoint, tok)
<1>1. CanEval(tok) /\ DecodeFails(t) /\ GiveUp
  BY DEF EvalFail
<1>2. Typed /\ t \in Seq(Token) /\ Len(t) >= 1
  BY <1>1, CanEvalIs
<1> HIDE DEF t
<1>3. Shape(graph') /\ Bounded(graph') /\ ReadsNothing
  BY <1>1, <1>2, DecodeFailsIs
<1>. QED BY <1>1, <1>3, GivesUp

LEMMA DraftsAre ==
    ASSUME NEW t \in Seq(Token), Len(t) <= Ctx, NEW d \in Drafts(t)
    PROVE  /\ d \in Seq(Token) /\ Len(d) >= 1 /\ Len(t) + Len(d) < Ctx /\ d[1] = Greedy(t)
           /\ Len(d) <= MaxDrafts(t)
<1>1. PICK n \in 1 .. DraftRoom(t) : n <= MaxDrafts(t) /\ d \in [1 .. n -> Token]
  BY DEF Drafts
<1>2. d[1] = Greedy(t)
  BY DEF Drafts
<1>3. Len(t) \in Nat /\ Ctx \in Nat
  BY Sizes
<1>4. n \in Nat /\ n >= 1 /\ n <= Ctx - Len(t) - 1
  BY <1>3 DEF DraftRoom
<1>5. d \in Seq(Token) /\ Len(d) = n
  BY <1>1, <1>4
<1>. QED BY <1>1, <1>2, <1>3, <1>4, <1>5

LEMMA ChosenOne ==
    ASSUME NEW t \in Seq(Token), NEW tok \in Token
    PROVE  Chosen(<<tok>>, Append(t, tok)) /\ Len(<<tok>>) = 1
<1> DEFINE u == Append(t, tok)
           acc == <<tok>>
<1>1. Len(u) = Len(t) + 1 /\ u[Len(t) + 1] = tok /\ Len(acc) = 1 /\ acc[1] = tok /\ Len(t) \in Nat
  OBVIOUS
<1> HIDE DEF u, acc
<1>2. Len(acc) <= Len(u) /\ Len(u) - Len(acc) = Len(t)
  BY <1>1
<1>3. \A i \in 1 .. Len(acc) : acc[i] = u[Len(t) + i]
  BY <1>1
<1>4. ~(Len(acc) > 1)
  BY <1>1
<1>5. Chosen(acc, u)
  BY <1>2, <1>3, <1>4 DEF Chosen
<1>. QED BY <1>1, <1>5 DEF acc, u

LEMMA SpeculateKeeps ==
    ASSUME SessionInv, NEW tok \in Token, NEW drafts, Speculate(tok, drafts)
    PROVE  SessionInv'
<1> DEFINE t == Append(checkpoint, tok)
<1>1. CanEval(tok)
  BY DEF Speculate
<1>2. /\ Typed /\ call = Idle /\ valid /\ sound /\ (disk # NoPayload => Consistent(disk))
      /\ t \in Seq(Token) /\ Len(t) >= 1 /\ Len(t) <= Ctx /\ Held(graph, t, Len(t) - 1)
  BY <1>1, CanEvalIs
<1>3. /\ drafts \in Drafts(t) /\ Decoded(t) /\ Hold(t) /\ draft' = NoDraft /\ accepted' = <<tok>>
      /\ call' = [op |-> "drafted", drafts |-> drafts] /\ UNCHANGED <<disk, sound>>
  BY DEF Speculate
<1>4. Chosen(<<tok>>, t) /\ Len(<<tok>>) = 1
  BY <1>2, ChosenOne DEF Typed
<1> HIDE DEF t
<1>5. /\ Shape(graph') /\ Bounded(graph') /\ Reads(t, Len(t) - 1, 1)
      /\ Held(graph', t, Len(t)) /\ Misread(graph', t, Len(t) - 1, 1) = {}
  BY <1>2, <1>3, DecodedIs
<1>6. checkpoint' = t /\ valid' = TRUE /\ logits' = t /\ sound' = TRUE
  BY <1>2, <1>3 DEF Hold, Typed
<1>7. /\ drafts \in Seq(Token) /\ Len(drafts) >= 1 /\ Len(t) + Len(drafts) < Ctx /\ drafts[1] = Greedy(t)
      /\ Len(drafts) <= MaxDrafts(t)
  BY <1>2, <1>3, DraftsAre
<1>8. call'.op = "drafted" /\ call'.drafts = drafts
  BY <1>3
<1>9. Speculating(checkpoint, call.drafts)'
  BY <1>2, <1>3, <1>4, <1>6, <1>7, <1>8, Zenon DEF Speculating
<1>10. InDrafted'
  BY <1>5, <1>6, <1>8, <1>9, Zenon DEF InDrafted
<1>11. Typed'
  BY <1>2, <1>3, <1>5, <1>6 DEF Typed
<1>12. AttentionExact'
  BY <1>5, ReadRight
<1>. QED BY <1>2, <1>3, <1>10, <1>11, <1>12 DEF SessionInv, InCall

(***************************************************************************)
(* The steps of a speculative call.                                        *)
(***************************************************************************)

LEMMA RingPrefix ==
    ASSUME NEW g, NEW t, IsSeq(t), NEW m \in 0 .. Len(t), NEW p, NEW n \in 0 .. m
    PROVE  RingHas(g, SubSeq(t, 1, m), p, n) <=> RingHas(g, t, p, n)
<1>1. \A q \in 0 .. n - 1 : q \in Nat /\ q < m
  OBVIOUS
<1>2. \A q \in 0 .. n - 1 : RowAt(SubSeq(t, 1, m), q) = RowAt(t, q)
  BY <1>1, RowFacts
<1>. QED BY <1>2, Zenon DEF RingHas

LEMMA SpeculatingIs ==
    ASSUME NEW from, NEW d, Speculating(from, d)
    PROVE  /\ valid /\ sound /\ draft = NoDraft /\ logits = from
           /\ from \in Seq(Token) /\ d \in Seq(Token) /\ IsSeq(from) /\ IsSeq(d)
           /\ Len(from) \in Nat /\ Len(d) \in Nat \ {0} /\ Len(from) + Len(d) < Ctx
           /\ from \o d \in Seq(Token) /\ IsSeq(from \o d) /\ Len(from \o d) = Len(from) + Len(d)
           /\ Chosen(accepted, from) /\ d[1] = Greedy(from)
           /\ Len(accepted) = 1 /\ Len(d) <= MaxDrafts(from)
<1>1. /\ valid /\ sound /\ draft = NoDraft /\ logits = from
      /\ from \in Seq(Token) /\ d \in Seq(Token)
      /\ Len(d) >= 1 /\ Len(from) + Len(d) < Ctx
      /\ Chosen(accepted, from) /\ d[1] = Greedy(from)
      /\ Len(accepted) = 1 /\ Len(d) <= MaxDrafts(from)
  BY DEF Speculating
<1>2. IsSeq(from) /\ IsSeq(d)
  BY <1>1, SeqIs
<1>3. IsSeq(from \o d) /\ Len(from \o d) = Len(from) + Len(d)
  BY <1>2, ConcatIs
<1>4. from \o d \in Seq(Token) /\ Len(from) \in Nat /\ Len(d) \in Nat \ {0}
  BY <1>1
<1>. QED BY <1>1, <1>2, <1>3, <1>4, Zenon

LEMMA FirstDraft ==
    ASSUME NEW s \in Seq(Token), NEW d \in Seq(Token), Len(d) >= 1
    PROVE  /\ SubSeq(d, 1, 1) = <<d[1]>> /\ d[1] \in Token
           /\ Append(s, d[1]) = s \o SubSeq(d, 1, 1)
<1>1. IsSeq(d) /\ IsSeq(s) /\ 1 \in 0 .. Len(d) /\ 1 \in 1 .. Len(d)
  BY SeqIs
<1>2. SubSeq(d, 1, 1) = [i \in 1 .. 1 |-> d[i]] /\ IsSeq(SubSeq(d, 1, 1)) /\ Len(SubSeq(d, 1, 1)) = 1
  BY <1>1, SubSeqIs
<1>3. SubSeq(d, 1, 1)[1] = d[1]
  BY <1>2
<1>4. SubSeq(d, 1, 1) = <<d[1]>>
  <2> DEFINE a == SubSeq(d, 1, 1)
             b == <<d[1]>>
  <2>1. IsSeq(b) /\ Len(b) = 1 /\ b[1] = d[1]
    BY DEF IsSeq
  <2>2. IsSeq(a) /\ Len(a) = 1 /\ a[1] = d[1]
    BY <1>2, <1>3
  <2> HIDE DEF a, b
  <2>3. \A i \in 1 .. Len(a) : a[i] = b[i]
    BY <2>1, <2>2
  <2>4. a = b
    BY <2>1, <2>2, <2>3, SameSeq
  <2>. QED BY <2>4 DEF a, b
<1>5. Append(s, d[1]) = s \o <<d[1]>>
  BY <1>1, PrefixOfAppend
<1>. QED BY <1>1, <1>4, <1>5

\* What stands of the drafts is accepted.
LEMMA Accepts ==
    ASSUME Typed, NEW from, NEW d, Speculating(from, d), NEW n \in 1 .. Len(d),
           Emittable(from, d, n),
           Accept(from, SubSeq(d, 1, n)), draft' = draft, sound' = sound,
           Shape(graph'), Bounded(graph'), Held(graph', from \o SubSeq(d, 1, n), Len(from) + n)
    PROVE  Typed' /\ InIdle'
<1> DEFINE c == SubSeq(d, 1, n)
           t == from \o c
<1>1. /\ draft = NoDraft /\ sound
      /\ from \in Seq(Token) /\ d \in Seq(Token) /\ IsSeq(from) /\ IsSeq(d)
      /\ Len(from) \in Nat /\ Len(d) \in Nat \ {0} /\ Len(from) + Len(d) < Ctx
      /\ Chosen(accepted, from) /\ d[1] = Greedy(from) /\ Len(accepted) = 1
  BY SpeculatingIs
<1>2. n \in 0 .. Len(d) /\ n \in Nat
  OBVIOUS
<1>3. c \in Seq(Token) /\ Len(c) = n
  BY <1>1, <1>2, PrefixTokens
<1>4. c = [i \in 1 .. n |-> d[i]] /\ IsSeq(c)
  BY <1>1, <1>2, SubSeqIs
<1>5. accepted \in Seq(Token) /\ IsSeq(accepted)
  BY SeqIs DEF Typed
<1>6. \A m \in Nat : m <= n => SubSeq(c, 1, m) = SubSeq(d, 1, m)
  BY <1>1, <1>2, PrefixFacts
<1>7. /\ checkpoint' = t /\ valid' = TRUE /\ logits' = t /\ accepted' = accepted \o c /\ call' = Idle
  BY DEF Accept, Hold
<1>8. Held(graph', t, Len(from) + n)
  OBVIOUS
<1> HIDE DEF c
<1>15. c[1] = d[1] /\ Root(accepted, from) = from
  <2>1. 1 \in 1 .. n
    BY <1>2
  <2>. QED BY <1>1, <1>4, <2>1, RootOfOne
<1>9. \A i \in 1 .. Len(c) : c[i] \in Emitted(from, from \o SubSeq(c, 1, i - 1))
  <2> SUFFICES ASSUME NEW i \in 1 .. Len(c) PROVE c[i] \in Emitted(from, from \o SubSeq(c, 1, i - 1))
    OBVIOUS
  <2>1. i \in 1 .. n /\ i - 1 \in Nat /\ i - 1 <= n /\ (i = 1 \/ i \in 2 .. n)
    BY <1>2, <1>3
  <2>2. c[i] = d[i]
    BY <1>4, <2>1
  <2>3. SubSeq(c, 1, i - 1) = SubSeq(d, 1, i - 1)
    BY <1>6, <2>1
  <2>4. CASE i = 1
    <3>1. i - 1 = 0 /\ SubSeq(d, 1, 0) = << >>
      BY <1>1, <2>4
    <3>2. from \o SubSeq(c, 1, i - 1) = from
      BY <1>1, <2>3, <3>1
    <3>. QED BY <1>1, <2>2, <2>4, <3>2, EmittedGreedy
  <2>5. CASE i \in 2 .. n
    BY <2>2, <2>3, <2>5 DEF Emittable
  <2>. QED BY <2>1, <2>4, <2>5
<1>16. Allowed(accepted, from)
  BY <1>1, AllowedOne
<1>10. Chosen(accepted \o c, t) /\ Allowed(accepted \o c, t)
  <2>1. Len(accepted) >= 1
    BY <1>1
  <2>2. Chosen(accepted \o c, t)
    BY <1>1, <1>4, <1>5, <1>15, <2>1, ChosenMore
  <2>3. Allowed(accepted \o c, t)
    BY <1>1, <1>4, <1>5, <1>9, <1>15, <1>16, <2>1, AllowedMore
  <2>. QED BY <2>2, <2>3
<1>11. t \in Seq(Token) /\ Len(t) = Len(from) + n /\ Len(t) <= Ctx /\ accepted \o c \in Seq(Token)
  <2>1. t \in Seq(Token) /\ Len(t) = Len(from) + Len(c)
    BY <1>1, <1>3
  <2>2. accepted \o c \in Seq(Token)
    BY <1>3, <1>5
  <2>3. Len(from) + n <= Ctx
    BY <1>1, <1>2, Sizes
  <2>. QED BY <2>1, <2>2, <2>3, <1>3
<1> HIDE DEF t
<1>12. Exact'
  <2>1. Held(graph', t, Len(t)) /\ draft' = NoDraft
    BY <1>1, <1>8, <1>11
  <2>. QED BY <1>7, <2>1 DEF Exact, NoDraft
<1>13. InIdle'
  BY <1>7, <1>10, <1>12 DEF InIdle
<1>14. Typed'
  BY <1>7, <1>11 DEF Typed
<1>. QED BY <1>13, <1>14

\* The call goes on one token at a time.
LEMMA GoesSequential ==
    ASSUME Typed, NEW from, NEW d, Speculating(from, d), Sequential(from, d), draft' = draft,
           Shape(graph'), Bounded(graph'),
           (sound' = sound /\ Held(graph', from, Len(from))) \/ sound' = FALSE
    PROVE  Typed' /\ InSequential'
<1>1. /\ valid /\ sound /\ draft = NoDraft
      /\ from \in Seq(Token) /\ d \in Seq(Token)
      /\ Len(from) \in Nat /\ Len(d) \in Nat \ {0} /\ Len(from) + Len(d) < Ctx /\ Chosen(accepted, from)
      /\ logits = from /\ Len(accepted) = 1
  BY SpeculatingIs
<1>7. Len(accepted) >= 1 /\ Allowed(accepted, from)
  BY <1>1, AllowedOne
<1>2. /\ checkpoint' = from /\ call' = [op |-> "sequential", drafts |-> d]
      /\ UNCHANGED <<valid, logits, accepted>>
  BY DEF Sequential
<1>3. call'.op = "sequential" /\ call'.drafts = d
  BY <1>2
<1>4. sound' => Held(graph', from, Len(from))
  OBVIOUS
<1>5. InSequential'
  BY <1>1, <1>2, <1>3, <1>4, <1>7, Zenon DEF InSequential
<1>6. Len(from) <= Ctx /\ sound' \in BOOLEAN
  <2>1. Len(from) <= Ctx
    BY <1>1, Sizes
  <2>2. sound \in BOOLEAN
    BY DEF Typed
  <2>3. sound' = sound \/ sound' = FALSE
    OBVIOUS
  <2>. QED BY <2>1, <2>2, <2>3
<1>8. Typed'
  BY <1>1, <1>2, <1>6 DEF Typed
<1>. QED BY <1>5, <1>8

LEMMA MarginSkipKeeps ==
    ASSUME SessionInv, MarginSkip
    PROVE  SessionInv'
<1> DEFINE d == call.drafts
           t == Append(checkpoint, d[1])
           c == checkpoint
<1>1. Typed /\ InDrafted /\ (disk # NoPayload => Consistent(disk))
  BY CallIs DEF SessionInv, MarginSkip
<1>2. \/ Decoded(t) /\ Accept(c, <<d[1]>>) /\ UNCHANGED <<disk, sound, draft>>
      \/ DecodeFails(t) /\ GiveUp
  BY DEF MarginSkip
<1>3. Speculating(c, d) /\ Held(graph, c, Len(c))
  BY <1>1 DEF InDrafted
<1>4. /\ sound /\ c \in Seq(Token) /\ d \in Seq(Token) /\ Len(c) \in Nat /\ Len(d) \in Nat \ {0}
      /\ Len(c) + Len(d) < Ctx /\ Len(d) >= 1
  BY <1>3, SpeculatingIs
<1>5. SubSeq(d, 1, 1) = <<d[1]>> /\ d[1] \in Token /\ t = c \o SubSeq(d, 1, 1)
  BY <1>4, FirstDraft
<1>6. t \in Seq(Token) /\ Len(t) = Len(c) + 1 /\ (Held(graph, t, Len(c)) <=> Held(graph, c, Len(c)))
  BY <1>4, <1>5, AppendTokens
<1> HIDE DEF d, t, c
<1>7. Len(t) >= 1 /\ Len(t) <= Ctx /\ Len(t) - 1 = Len(c)
  BY <1>4, <1>6, Sizes
<1>8. Held(graph, t, Len(t) - 1)
  BY <1>3, <1>6, <1>7
<1>9. CASE Decoded(t) /\ Accept(c, <<d[1]>>) /\ UNCHANGED <<disk, sound, draft>>
  <2>1. /\ Shape(graph') /\ Bounded(graph') /\ Reads(t, Len(t) - 1, 1)
        /\ Held(graph', t, Len(t)) /\ Misread(graph', t, Len(t) - 1, 1) = {}
    BY <1>1, <1>6, <1>7, <1>8, <1>9, DecodedIs
  <2>2. 1 \in 1 .. Len(d) /\ Emittable(c, d, 1)
    BY <1>4 DEF Emittable
  <2>3. Held(graph', c \o SubSeq(d, 1, 1), Len(c) + 1) /\ Accept(c, SubSeq(d, 1, 1))
    BY <1>5, <1>6, <1>9, <2>1
  <2>4. Typed' /\ InIdle'
    BY <1>1, <1>3, <1>9, <2>1, <2>2, <2>3, Accepts
  <2>5. AttentionExact'
    BY <2>1, ReadRight
  <2>. QED BY <1>1, <1>9, <2>4, <2>5 DEF SessionInv, InCall
<1>10. CASE DecodeFails(t) /\ GiveUp
  BY <1>1, <1>6, <1>7, <1>10, DecodeFailsIs, GivesUp
<1>. QED BY <1>2, <1>9, <1>10

LEMMA ExactOneKeeps ==
    ASSUME SessionInv, ExactOne
    PROVE  SessionInv'
<1> DEFINE d == call.drafts
           t == Append(checkpoint, d[1])
           c == checkpoint
           u == c \o d
           p == Len(c)
<1>1. Typed /\ InDrafted /\ (disk # NoPayload => Consistent(disk)) /\ Len(d) = 2
  BY CallIs DEF SessionInv, ExactOne, Exactly
<1>2. /\ Decoded(t) /\ call' = [op |-> "exact", drafts |-> d, frontier |-> Frontier(graph)]
      /\ UNCHANGED <<checkpoint, valid, logits, draft, accepted, disk, sound>>
  BY DEF ExactOne
<1>3. Speculating(c, d) /\ Held(graph, c, p) /\ Shape(graph)
  BY <1>1 DEF InDrafted, Typed
<1>4. /\ sound /\ c \in Seq(Token) /\ d \in Seq(Token) /\ IsSeq(c) /\ IsSeq(d)
      /\ p \in Nat /\ Len(d) \in Nat \ {0}
      /\ p + Len(d) < Ctx /\ Len(d) >= 1 /\ IsSeq(u) /\ Len(u) = p + Len(d)
  BY <1>3, SpeculatingIs
<1>5. SubSeq(d, 1, 1) = <<d[1]>> /\ d[1] \in Token /\ t = c \o SubSeq(d, 1, 1)
  BY <1>4, FirstDraft
<1>6. t \in Seq(Token) /\ Len(t) = p + 1 /\ (Held(graph, t, p) <=> Held(graph, c, p))
  BY <1>4, <1>5, AppendTokens
<1>7. /\ Held(graph, u, p) <=> Held(graph, c, p)
      /\ \A f : FrontierAt(f, u, p) <=> FrontierAt(f, c, p)
  BY <1>4, HeldBefore
<1>8. 1 \in 0 .. Len(d)
  BY <1>4
<1>9. SubSeq(u, 1, p + 1) = t
  BY <1>4, <1>5, <1>8, PrefixOfConcat
<1>10. call'.op = "exact" /\ call'.drafts = d /\ call'.frontier = Frontier(graph)
  BY <1>2
<1>11. Speculating(checkpoint, call.drafts)'
  BY <1>2, <1>3, <1>10 DEF Speculating
<1> HIDE DEF d, t, c, u, p
<1>12. Len(t) >= 1 /\ Len(t) <= Ctx /\ Len(t) - 1 = p /\ p + 1 \in 0 .. Len(u) /\ p + 1 \in 0 .. p + 1
  BY <1>4, <1>6, Sizes
<1>13. Held(graph, t, Len(t) - 1)
  BY <1>3, <1>6, <1>12
<1>14. /\ Shape(graph') /\ Bounded(graph') /\ Reads(t, Len(t) - 1, 1)
       /\ Held(graph', t, Len(t)) /\ RingHas(graph', t, Len(t) - 1, Len(t))
       /\ Misread(graph', t, Len(t) - 1, 1) = {}
  BY <1>1, <1>2, <1>6, <1>12, <1>13, DecodedIs
<1>15. Held(graph', u, p + 1)
  <2>1. Held(graph', SubSeq(u, 1, p + 1), p + 1) <=> Held(graph', u, p + 1)
    BY <1>4, <1>12, HeldPrefix
  <2>. QED BY <2>1, <1>6, <1>9, <1>14
<1>16. RingHas(graph', u, p, p + 1)
  <2>1. RingHas(graph', SubSeq(u, 1, p + 1), p, p + 1) <=> RingHas(graph', u, p, p + 1)
    BY <1>4, <1>12, RingPrefix
  <2>. QED BY <2>1, <1>6, <1>9, <1>12, <1>14
<1>17. FrontierAt(Frontier(graph), u, p)
  <2>1. \A ln \in Lane : Matches(LaneRatio(ln), graph.lane[ln], u, p)
    BY <1>3, <1>7 DEF Held
  <2>. QED BY <1>3, <1>4, <2>1, FrontierIs
<1>18. Drafted(checkpoint, call.drafts, 1, call.frontier)'
  BY <1>2, <1>10, <1>15, <1>16, <1>17, Zenon DEF Drafted, u, p, c
<1>19. InExact'
  BY <1>1, <1>10, <1>11, <1>18, Zenon DEF InExact
<1>20. Typed'
  BY <1>1, <1>2, <1>14 DEF Typed
<1>21. AttentionExact'
  BY <1>14, ReadRight
<1>. QED BY <1>1, <1>2, <1>19, <1>20, <1>21 DEF SessionInv, InCall

\* The transcript s and the drafts d behind it, and what the graph holds when
\* the first n of them are in it.
LEMMA DraftedIs ==
    ASSUME NEW s, NEW d, Speculating(s, d), NEW n \in 0 .. Len(d), NEW f, Drafted(s, d, n, f)
    PROVE  /\ Held(graph, s \o d, Len(s) + n) /\ RingHas(graph, s \o d, Len(s), Len(s) + n)
           /\ FrontierAt(f, s \o d, Len(s)) /\ FrontierAt(f, s, Len(s))
           /\ \A g : Held(g, s \o d, Len(s)) <=> Held(g, s, Len(s))
           /\ \A m \in 0 .. n : Above(graph, s \o d, Len(s) + m)
<1> DEFINE t == s \o d
           p == Len(s)
<1>1. IsSeq(s) /\ IsSeq(d) /\ p \in Nat /\ Len(d) \in Nat
  BY SpeculatingIs
<1>2. Held(graph, t, p + n) /\ RingHas(graph, t, p, p + n) /\ FrontierAt(f, t, p)
  BY DEF Drafted
<1>3. /\ \A g : Held(g, t, p) <=> Held(g, s, p)
      /\ \A h : FrontierAt(h, t, p) <=> FrontierAt(h, s, p)
  BY <1>1, HeldBefore
<1>4. \A ln \in Lane : Matches(LaneRatio(ln), graph.lane[ln], t, p + n)
  BY <1>2 DEF Held
<1> HIDE DEF t, p
<1>5. ASSUME NEW m \in 0 .. n PROVE Above(graph, t, p + m)
  <2>1. p + n \in Nat /\ p + m \in Nat /\ p <= p + m /\ p + m <= p + n
    BY <1>1
  <2>. QED BY <1>1, <1>2, <1>4, <2>1, GrownAbove
<1>. QED BY <1>2, <1>3, <1>5 DEF t, p

\* The second of two drafts, decoded over the first.
LEMMA SecondDraft ==
    ASSUME NEW g, Shape(g), NEW t, IsSeq(t), NEW p \in Nat, p + 2 <= Len(t), p + 2 <= Ctx,
           Held(g, t, p + 1), RingHas(g, t, p, p + 1)
    PROVE  After(Decode(g, t, p + 1), t, p + 1, 1) /\ RingHas(Decode(g, t, p + 1), t, p, p + 2)
<1>1. p + 1 \in Nat /\ p + 1 < Len(t) /\ p + 1 < Ctx /\ 1 \in Nat /\ p <= p + 1 /\ (p + 1) + 1 = p + 2
  BY Sizes DEF IsSeq
<1>2. After(Decode(g, t, p + 1), t, p + 1, 1)
  BY <1>1, DecodeExact
<1>3. Grown(g, Decode(g, t, p + 1), t, p + 1, 1)
  BY <1>1, DecodeGrows
<1>4. \A q \in Nat : p <= q + Win => (p + 1) + 1 <= q + RawCap
  BY Sizes, SessionAssumption
<1>5. RingHas(Decode(g, t, p + 1), t, p, (p + 1) + 1)
  BY <1>1, <1>3, <1>4, GrownRing
<1>. QED BY <1>1, <1>2, <1>5

LEMMA ExactTwoKeeps ==
    ASSUME SessionInv, ExactTwo
    PROVE  SessionInv'
<1> DEFINE d == call.drafts
           c == checkpoint
           t == c \o d
           p == Len(c)
           f == call.frontier
<1>1. Typed /\ InExact /\ (disk # NoPayload => Consistent(disk))
  BY CallIs DEF SessionInv, ExactTwo
<1>2. /\ graph' = Decode(graph, t, Len(t) - 1) /\ Reads(t, Len(t) - 1, 1)
      /\ call' = [op |-> "compared", drafts |-> d, frontier |-> f, prefix1 |-> Frontier(graph)]
      /\ UNCHANGED <<checkpoint, valid, logits, draft, accepted, disk, sound>>
  BY DEF ExactTwo
<1>3. Speculating(c, d) /\ Len(d) = 2 /\ Drafted(c, d, 1, f)
  BY <1>1 DEF InExact
<1>4. IsSeq(t) /\ Len(t) = p + Len(d) /\ p \in Nat /\ p + Len(d) < Ctx
  BY <1>3, SpeculatingIs
<1>5. 1 \in 0 .. Len(d)
  BY <1>3
<1>6. Held(graph, t, p + 1) /\ RingHas(graph, t, p, p + 1) /\ FrontierAt(f, t, p)
  BY <1>3, <1>5, DraftedIs
<1>7. Shape(graph)
  BY <1>1 DEF Typed
<1>8. /\ call'.op = "compared" /\ call'.drafts = d /\ call'.frontier = f /\ call'.prefix1 = Frontier(graph)
  BY <1>2
<1>9. Speculating(checkpoint, call.drafts)'
  BY <1>2, <1>3, <1>8 DEF Speculating
<1> HIDE DEF d, c, t, p, f
<1>10. p + 2 <= Len(t) /\ p + 2 <= Ctx /\ Len(t) - 1 = p + 1 /\ (p + 1) + 1 = p + 2
  BY <1>3, <1>4, Sizes
<1>11. After(Decode(graph, t, p + 1), t, p + 1, 1) /\ RingHas(Decode(graph, t, p + 1), t, p, p + 2)
  BY <1>4, <1>6, <1>7, <1>10, SecondDraft
<1>12. /\ Shape(graph') /\ Bounded(graph') /\ RingHas(graph', t, p, p + 2) /\ Held(graph', t, p + 2)
       /\ Misread(graph', t, p + 1, 1) = {} /\ Reads(t, p + 1, 1)
  BY <1>2, <1>10, <1>11, Zenon DEF After
<1>13. FrontierAt(Frontier(graph), t, p + 1)
  <2>1. \A ln \in Lane : Matches(LaneRatio(ln), graph.lane[ln], t, p + 1)
    BY <1>6 DEF Held
  <2>2. p + 1 \in Nat
    BY <1>4
  <2>. QED BY <1>7, <2>1, <2>2, FrontierIs
<1>14. Drafted(checkpoint, call.drafts, 2, call.frontier)'
  BY <1>2, <1>6, <1>8, <1>12, Zenon DEF Drafted, t, p, c
<1>15. FrontierAt(call'.prefix1, checkpoint' \o call'.drafts, Len(checkpoint') + 1)
  BY <1>2, <1>8, <1>13, Zenon DEF t, p, c
<1>16. InCompared'
  BY <1>3, <1>8, <1>9, <1>14, <1>15, Zenon DEF InCompared
<1>17. Typed'
  BY <1>1, <1>2, <1>12 DEF Typed
<1>18. AttentionExact'
  BY <1>12, ReadRight
<1>. QED BY <1>1, <1>2, <1>16, <1>17, <1>18 DEF SessionInv, InCall

LEMMA ExactCommitKeeps ==
    ASSUME SessionInv, ExactCommit
    PROVE  SessionInv'
<1> DEFINE d == call.drafts
           c == checkpoint
           t == c \o d
           p == Len(c)
<1>1. Typed /\ InCompared /\ (disk # NoPayload => Consistent(disk))
  BY CallIs DEF SessionInv, ExactCommit
<1>2. /\ \/ d[2] = Greedy(Append(c, d[1])) /\ Accept(c, d) /\ graph' = graph
         \/ Accept(c, <<d[1]>>) /\ graph' = Restored(graph, call.prefix1)
      /\ ReadsNothing /\ UNCHANGED <<draft, disk, sound>>
  BY DEF ExactCommit
<1>3. /\ Speculating(c, d) /\ Len(d) = 2 /\ Drafted(c, d, 2, call.frontier)
      /\ FrontierAt(call.prefix1, t, p + 1) /\ Shape(graph) /\ Bounded(graph)
  BY <1>1 DEF InCompared, Typed
<1>4. /\ c \in Seq(Token) /\ d \in Seq(Token) /\ IsSeq(c) /\ IsSeq(d) /\ IsSeq(t) /\ Len(t) = p + Len(d) /\ p \in Nat
      /\ p + Len(d) < Ctx
  BY <1>3, SpeculatingIs
<1>5. 2 \in 0 .. Len(d) /\ 1 \in 0 .. 2 /\ 1 \in 0 .. Len(d)
  BY <1>3
<1>6. Held(graph, t, p + 2) /\ Above(graph, t, p + 1)
  BY <1>3, <1>5, DraftedIs
<1>7. SubSeq(d, 1, 1) = <<d[1]>> /\ SubSeq(d, 1, 2) = d /\ Append(c, d[1]) = c \o SubSeq(d, 1, 1)
  <2>1. SubSeq(d, 1, Len(d)) = d
    BY <1>4, PrefixFacts
  <2>2. Len(d) >= 1
    BY <1>3
  <2>. QED BY <2>1, <2>2, <1>3, <1>4, FirstDraft
<1>9. \A g : Held(g, t, p + 1) <=> Held(g, c \o SubSeq(d, 1, 1), p + 1)
  BY <1>4, <1>5, HeldDrafts
<1> HIDE DEF d, c, t, p
<1>10. ASSUME d[2] = Greedy(Append(c, d[1])) /\ Accept(c, d) /\ graph' = graph
       PROVE  Typed' /\ InIdle'
  <2>1. 2 \in 1 .. Len(d) /\ Emittable(c, d, 2)
    <3>1. d[2] \in Emitted(c, c \o SubSeq(d, 1, 1))
      BY <1>7, <1>10, EmittedGreedy
    <3>2. \A i \in 2 .. 2 : i = 2 /\ i - 1 = 1
      OBVIOUS
    <3>. QED BY <1>3, <3>1, <3>2 DEF Emittable
  <2>2. /\ Shape(graph') /\ Bounded(graph') /\ Held(graph', c \o SubSeq(d, 1, 2), Len(c) + 2)
        /\ Accept(c, SubSeq(d, 1, 2))
    BY <1>3, <1>6, <1>7, <1>10 DEF t, p
  <2>. QED BY <2>1, <2>2, <1>1, <1>2, <1>3, Accepts
<1>11. ASSUME Accept(c, <<d[1]>>) /\ graph' = Restored(graph, call.prefix1)
       PROVE  Typed' /\ InIdle'
  <2>1. 1 \in 1 .. Len(d) /\ Emittable(c, d, 1)
    BY <1>3 DEF Emittable
  <2>2. p + 1 \in Nat /\ p + 1 <= Ctx
    BY <1>3, <1>4, Sizes
  <2>3. Shape(graph') /\ Bounded(graph') /\ Held(graph', t, p + 1)
    BY <1>3, <1>6, <1>11, <2>2, RestoredIs
  <2>4. Held(graph', c \o SubSeq(d, 1, 1), Len(c) + 1) /\ Accept(c, SubSeq(d, 1, 1))
    BY <1>7, <1>9, <1>11, <2>3 DEF p
  <2>. QED BY <2>1, <2>3, <2>4, <1>1, <1>2, <1>3, Accepts
<1>12. Typed' /\ InIdle'
  BY <1>2, <1>10, <1>11
<1>13. AttentionExact'
  BY <1>2, ReadNothing
<1>. QED BY <1>1, <1>2, <1>12, <1>13 DEF SessionInv, InCall

\* A frontier put back after an error: the call goes on one token at a time.
LEMMA PutBackGoesOn ==
    ASSUME SessionInv, NEW s, NEW d, Speculating(s, d), NEW g, Shape(g), Bounded(g), NEW f, NEW t,
           Above(g, t, Len(s)), FrontierAt(f, t, Len(s)), PutBack(g, f),
           Held(graph', t, Len(s)) => Held(graph', s, Len(s)),
           Sequential(s, d), draft' = draft, disk' = disk, ReadsNothing
    PROVE  SessionInv'
<1>1. Len(s) \in Nat /\ Len(s) <= Ctx
  <2>1. Len(s) \in Nat /\ Len(d) \in Nat /\ Len(s) + Len(d) < Ctx
    BY SpeculatingIs
  <2>. QED BY <2>1, Sizes
<1>2. /\ Shape(graph') /\ Bounded(graph')
      /\ (sound' = sound /\ Held(graph', t, Len(s))) \/ sound' = FALSE
  BY <1>1, PutBackIs
<1>3. Typed' /\ InSequential'
  BY <1>2, GoesSequential DEF SessionInv
<1>4. AttentionExact'
  BY ReadNothing
<1>. QED BY <1>3, <1>4 DEF SessionInv, InCall

LEMMA ExactFailsKeeps ==
    ASSUME SessionInv, ExactFails
    PROVE  SessionInv'
<1> DEFINE d == call.drafts
           c == checkpoint
           t == c \o d
           p == Len(c)
           f == call.frontier
<1>1. /\ \/ call.op = "exact" /\ \E k \in 0 .. NumLayers : PutBack(Partly(graph, Decode(graph, t, p + 1), k), f)
         \/ call.op = "compared" /\ PutBack(graph, f)
      /\ Sequential(c, d) /\ ReadsNothing /\ draft' = draft /\ disk' = disk
  BY DEF ExactFails
<1>2. Shape(graph) /\ Bounded(graph)
  BY DEF SessionInv, Typed
<1>3. CASE call.op = "exact" /\ \E k \in 0 .. NumLayers : PutBack(Partly(graph, Decode(graph, t, p + 1), k), f)
  <2>1. Speculating(c, d) /\ Len(d) = 2 /\ Drafted(c, d, 1, f)
    BY <1>3, CallIs DEF SessionInv, InExact
  <2>2. IsSeq(t) /\ Len(t) = p + Len(d) /\ p \in Nat /\ p + Len(d) < Ctx
    BY <2>1, SpeculatingIs
  <2>3. 1 \in 0 .. Len(d) /\ 0 \in 0 .. 1
    BY <2>1
  <2>4. /\ Held(graph, t, p + 1) /\ RingHas(graph, t, p, p + 1) /\ FrontierAt(f, t, p)
        /\ Above(graph, t, p + 0) /\ \A g : Held(g, t, p) <=> Held(g, c, p)
    BY <2>1, <2>3, DraftedIs
  <2>5. PICK k : PutBack(Partly(graph, Decode(graph, t, p + 1), k), f)
    BY <1>3
  <2> DEFINE h == Decode(graph, t, p + 1)
             g == Partly(graph, h, k)
  <2> HIDE DEF d, c, t, p, f
  <2>6. p + 2 <= Len(t) /\ p + 2 <= Ctx /\ p + 0 = p /\ p <= p /\ p <= p + 2 /\ p + 2 \in Nat /\ (p + 1) + 1 = p + 2
    BY <2>1, <2>2, Sizes
  <2>7. After(h, t, p + 1, 1) /\ RingHas(h, t, p, p + 2)
    BY <1>2, <2>2, <2>4, <2>6, SecondDraft
  <2> HIDE DEF h
  <2>8. Shape(h) /\ Bounded(h) /\ \A ln \in Lane : Matches(LaneRatio(ln), h.lane[ln], t, p + 2)
    BY <2>6, <2>7 DEF After, Held
  <2>9. Above(h, t, p)
    BY <2>2, <2>6, <2>7, <2>8, GrownAbove
  <2>10. Above(graph, t, p)
    BY <2>4, <2>6
  <2>11. \A ln \in Lane : ln[1] <= k => Len(h.lane[ln].rows) <= CompCap
    BY <2>8 DEF Bounded
  <2>12. Shape(g) /\ Bounded(g)
    BY <1>2, <2>8, <2>11, PartlyIs, PartlyBounded
  <2>13. Above(g, t, p)
    BY <1>2, <2>8, <2>9, <2>10, PartlyAbove
  <2>14. PutBack(g, f)
    BY <2>5 DEF h
  <2> HIDE DEF g
  <2>15. Above(g, t, Len(c)) /\ FrontierAt(f, t, Len(c)) /\ (Held(graph', t, Len(c)) => Held(graph', c, Len(c)))
    BY <2>4, <2>13 DEF p
  <2>. QED BY <1>1, <2>1, <2>12, <2>14, <2>15, PutBackGoesOn
<1>4. CASE call.op = "compared" /\ PutBack(graph, f)
  <2>1. Speculating(c, d) /\ Len(d) = 2 /\ Drafted(c, d, 2, f)
    BY <1>4, CallIs DEF SessionInv, InCompared
  <2>2. p \in Nat
    BY <2>1, SpeculatingIs
  <2>3. 2 \in 0 .. Len(d) /\ 0 \in 0 .. 2
    BY <2>1
  <2>4. FrontierAt(f, t, p) /\ Above(graph, t, p + 0) /\ \A g : Held(g, t, p) <=> Held(g, c, p)
    BY <2>1, <2>3, DraftedIs
  <2> HIDE DEF d, c, t, p, f
  <2>5. p + 0 = p
    BY <2>2
  <2>6. /\ Above(graph, t, Len(c)) /\ FrontierAt(f, t, Len(c))
        /\ (Held(graph', t, Len(c)) => Held(graph', c, Len(c)))
    BY <2>4, <2>5 DEF p
  <2>. QED BY <1>1, <1>2, <1>4, <2>1, <2>6, PutBackGoesOn
<1>. QED BY <1>1, <1>3, <1>4

\* A failure before the first layer has changed nothing.
LEMMA PartlyNone ==
    ASSUME NEW g, Shape(g), NEW h, Shape(h)
    PROVE  Partly(g, h, 0) = g
<1> DEFINE e == Partly(g, h, 0)
<1>1. /\ Shape(e)
      /\ \A l \in Layer : e.ring[l] = IF l <= 0 THEN h.ring[l] ELSE g.ring[l]
      /\ \A ln \in Lane : e.lane[ln] = IF ln[1] <= 0 THEN h.lane[ln] ELSE g.lane[ln]
  BY PartlyIs
<1> HIDE DEF e
<1>2. \A l \in Layer : ~(l <= 0)
  BY Sizes DEF Layer
<1>3. \A ln \in Lane : ~(ln[1] <= 0)
  BY <1>2, LaneSizes
<1>4. (\A l \in Layer : e.ring[l] = g.ring[l]) /\ (\A ln \in Lane : e.lane[ln] = g.lane[ln])
  BY <1>1, <1>2, <1>3, Zenon
<1>5. /\ e = [ring |-> e.ring, lane |-> e.lane] /\ g = [ring |-> g.ring, lane |-> g.lane]
      /\ e.ring = [l \in Layer |-> e.ring[l]] /\ g.ring = [l \in Layer |-> g.ring[l]]
      /\ e.lane = [ln \in Lane |-> e.lane[ln]] /\ g.lane = [ln \in Lane |-> g.lane[ln]]
  BY <1>1 DEF Shape
<1>6. e.ring = g.ring /\ e.lane = g.lane
  <2> DEFINE a == e.ring
             b == g.ring
             c == e.lane
             d == g.lane
  <2>1. /\ a = [l \in Layer |-> a[l]] /\ b = [l \in Layer |-> b[l]] /\ \A l \in Layer : a[l] = b[l]
        /\ c = [ln \in Lane |-> c[ln]] /\ d = [ln \in Lane |-> d[ln]] /\ \A ln \in Lane : c[ln] = d[ln]
    BY <1>4, <1>5
  <2> HIDE DEF a, b, c, d
  <2>2. a = b
    BY <2>1
  <2>3. c = d
    BY <2>1
  <2>. QED BY <2>2, <2>3 DEF a, b, c, d
<1>7. e = g
  BY <1>5, <1>6
<1>. QED BY <1>7 DEF e

LEMMA VerifyBatchKeeps ==
    ASSUME SessionInv, NEW prep, VerifyBatch(prep)
    PROVE  SessionInv'
<1> DEFINE d == call.drafts
           c == checkpoint
           t == c \o d
           p == Len(c)
           n == Len(d)
           u == SubSeq(t, 1, p + 1)
           one == Frontier(Batch(graph, u, p, 1))
<1>1. Typed /\ InDrafted /\ (disk # NoPayload => Consistent(disk))
  BY CallIs DEF SessionInv, VerifyBatch
<1>18. PICK stand \in BatchAgreed(c, d) :
           call' = [op |-> "verified", drafts |-> d, from |-> c, prep |-> prep, stand |-> stand,
                    frontier |-> Frontier(graph), prefix1 |-> one]
  BY DEF VerifyBatch
<1>2. /\ n <= PrefillCap /\ graph' = Batch(graph, t, p, n) /\ Reads(t, p, n) /\ checkpoint' = t
      /\ ~Exactly(c, d) /\ UNCHANGED <<valid, logits, draft, accepted, disk, sound>>
  BY DEF VerifyBatch
<1>3. Speculating(c, d) /\ Held(graph, c, p) /\ Shape(graph)
  BY <1>1 DEF InDrafted, Typed
<1>4. /\ sound /\ IsSeq(c) /\ IsSeq(d) /\ p \in Nat /\ n \in Nat \ {0} /\ p + n < Ctx
      /\ t \in Seq(Token) /\ IsSeq(t) /\ Len(t) = p + n
  BY <1>3, SpeculatingIs
<1>5. /\ call'.op = "verified" /\ call'.drafts = d /\ call'.from = c /\ call'.prep = prep
      /\ call'.frontier = Frontier(graph) /\ call'.prefix1 = one /\ call'.stand = stand
  BY <1>18
<1>19. stand \in 1 .. n /\ Emittable(c, d, stand)
  <2>1. n \in Nat /\ n <= MaxDrafts(c)
    BY <1>3, SpeculatingIs
  <2>. QED BY <1>2, <2>1, StandsIs
<1>6. Held(graph, t, p) <=> Held(graph, c, p)
  BY <1>4, HeldBefore
<1> HIDE DEF d, c, t, p, n, u
<1>7. /\ p + n <= Len(t) /\ p + n <= Ctx /\ 1 \in Nat \ {0} /\ p + 1 <= Ctx /\ 1 <= PrefillCap
      /\ p + 1 \in 0 .. Len(t) /\ p \in 0 .. p + 1 /\ p + 1 \in 0 .. p + 1
  BY <1>4, Sizes
<1>8. After(graph', t, p, n)
  BY <1>2, <1>3, <1>4, <1>6, <1>7, BatchExact
<1>9. /\ Shape(graph') /\ Bounded(graph') /\ RingHas(graph', t, p, p + n) /\ Held(graph', t, p + n)
      /\ Misread(graph', t, p, n) = {}
  BY <1>8 DEF After
<1>10. FrontierAt(Frontier(graph), t, p)
  <2>1. \A ln \in Lane : Matches(LaneRatio(ln), graph.lane[ln], t, p)
    BY <1>3, <1>6 DEF Held
  <2>. QED BY <1>3, <1>4, <2>1, FrontierIs
<1>11. FrontierAt(one, t, p + 1)
  <2> DEFINE h == Batch(graph, u, p, 1)
  <2>1. IsSeq(u) /\ Len(u) = p + 1 /\ p + 1 <= Len(u) /\ p + 1 \in Nat
    BY <1>4, <1>7, SubSeqIs DEF u
  <2>2. Held(graph, u, p) <=> Held(graph, t, p)
    BY <1>4, <1>7, HeldPrefix DEF u
  <2>3. After(h, u, p, 1)
    BY <1>3, <1>4, <1>6, <1>7, <2>1, <2>2, BatchExact
  <2> HIDE DEF h
  <2>4. Shape(h) /\ Held(h, u, p + 1)
    BY <2>3 DEF After
  <2>5. Held(h, u, p + 1) <=> Held(h, t, p + 1)
    BY <1>4, <1>7, HeldPrefix DEF u
  <2>6. \A ln \in Lane : Matches(LaneRatio(ln), h.lane[ln], t, p + 1)
    BY <2>4, <2>5 DEF Held
  <2>7. FrontierAt(Frontier(h), t, p + 1)
    BY <2>1, <2>4, <2>6, FrontierIs
  <2>. QED BY <2>7 DEF h
<1> HIDE DEF one
<1>12. Speculating(call.from, call.drafts)'
  BY <1>2, <1>3, <1>5, Zenon DEF Speculating
<1>13. Drafted(call.from, call.drafts, Len(call.drafts), call.frontier)'
  BY <1>5, <1>9, <1>10, Zenon DEF Drafted, t, p, n
<1>14. FrontierAt(call'.prefix1, checkpoint', Len(call'.from) + 1)
  BY <1>2, <1>5, <1>11, Zenon DEF p
<1>15. InVerified'
  BY <1>2, <1>5, <1>12, <1>13, <1>14, <1>19, Zenon DEF InVerified, t, n
<1>16. Typed'
  <2>1. Len(t) <= Ctx
    BY <1>4, <1>7
  <2>. QED BY <1>1, <1>2, <1>4, <1>9, <2>1 DEF Typed
<1>17. AttentionExact'
  BY <1>2, <1>9, ReadRight
<1>. QED BY <1>1, <1>2, <1>15, <1>16, <1>17 DEF SessionInv, InCall

LEMMA VerifyBatchFailsKeeps ==
    ASSUME SessionInv, NEW prep, VerifyBatchFails(prep)
    PROVE  SessionInv'
<1> DEFINE d == call.drafts
           c == checkpoint
           t == c \o d
           p == Len(c)
           n == Len(d)
           h == Batch(graph, t, p, n)
           reached == IF n <= PrefillCap THEN 0 .. NumLayers ELSE {0}
           f == Frontier(graph)
<1>1. Typed /\ InDrafted
  BY CallIs DEF SessionInv, VerifyBatchFails
<1>2. /\ \/ Sequential(c, d) /\ disk' = disk /\ \E k \in reached : PutBack(Partly(graph, h, k), f)
         \/ GiveUp /\ \E k \in reached : graph' = Partly(graph, h, k)
      /\ ReadsNothing /\ draft' = draft
  BY DEF VerifyBatchFails
<1>3. Speculating(c, d) /\ Held(graph, c, p) /\ Shape(graph) /\ Bounded(graph)
  BY <1>1 DEF InDrafted, Typed
<1>4. IsSeq(c) /\ IsSeq(d) /\ p \in Nat /\ n \in Nat \ {0} /\ p + n < Ctx /\ IsSeq(t) /\ Len(t) = p + n
  BY <1>3, SpeculatingIs
<1>5. \A g : Held(g, t, p) <=> Held(g, c, p)
  BY <1>4, HeldBefore
<1> HIDE DEF d, c, t, p, n, f
<1>6. p + n <= Len(t) /\ p + n <= Ctx
  BY <1>4, Sizes
<1>7. Shape(h)
  BY <1>3, <1>4, <1>6, BatchGrows DEF Grown
<1>8. n <= PrefillCap => After(h, t, p, n)
  BY <1>3, <1>4, <1>5, <1>6, BatchExact
<1>9. FrontierAt(f, t, p)
  <2>1. \A ln \in Lane : Matches(LaneRatio(ln), graph.lane[ln], t, p)
    BY <1>3, <1>5 DEF Held
  <2>. QED BY <1>3, <1>4, <2>1, FrontierIs DEF f
<1> HIDE DEF h
<1>10. ASSUME NEW k \in reached
       PROVE  Shape(Partly(graph, h, k)) /\ Bounded(Partly(graph, h, k)) /\ Above(Partly(graph, h, k), t, p)
  <2>1. Held(graph, t, p)
    BY <1>3, <1>5
  <2>2. CASE n <= PrefillCap
    BY <1>3, <1>4, <1>8, <2>1, <2>2, TornIs
  <2>3. CASE ~(n <= PrefillCap)
    <3>1. k = 0
      BY <2>3
    <3>2. Partly(graph, h, k) = graph
      BY <1>3, <1>7, <3>1, PartlyNone
    <3>3. Above(graph, t, p)
      BY <1>4, <2>1, HeldAbove
    <3>. QED BY <1>3, <3>2, <3>3
  <2>. QED BY <2>2, <2>3
<1> HIDE DEF reached
<1>11. CASE Sequential(c, d) /\ disk' = disk /\ \E k \in reached : PutBack(Partly(graph, h, k), f)
  <2>1. PICK k \in reached : PutBack(Partly(graph, h, k), f)
    BY <1>11
  <2> DEFINE g == Partly(graph, h, k)
  <2>2. Shape(g) /\ Bounded(g) /\ Above(g, t, p) /\ PutBack(g, f)
    BY <1>10, <2>1
  <2> HIDE DEF g
  <2>3. /\ Above(g, t, Len(c)) /\ FrontierAt(f, t, Len(c))
        /\ (Held(graph', t, Len(c)) => Held(graph', c, Len(c)))
    BY <1>5, <1>9, <2>2 DEF p
  <2>. QED BY <1>2, <1>3, <1>11, <2>2, <2>3, PutBackGoesOn
<1>12. CASE GiveUp /\ \E k \in reached : graph' = Partly(graph, h, k)
  BY <1>2, <1>10, <1>12, GivesUp
<1>. QED BY <1>2, <1>11, <1>12

\* The facts a verified call gives its commit.
LEMMA VerifiedIs ==
    ASSUME InVerified
    PROVE  LET d == call.drafts
               s == call.from
               n == Len(d)
               k == Standing
           IN  /\ Speculating(s, d) /\ n <= PrefillCap /\ checkpoint = s \o d
               /\ Held(graph, s \o d, Len(s) + n) /\ FrontierAt(call.frontier, s \o d, Len(s))
               /\ FrontierAt(call.prefix1, s \o d, Len(s) + 1)
               /\ Above(graph, s \o d, Len(s)) /\ Above(graph, s \o d, Len(s) + 1)
               /\ \A g : Held(g, s \o d, Len(s)) <=> Held(g, s, Len(s))
               /\ k \in 1 .. n /\ Emittable(s, d, k)
               /\ SubSeq(d, 1, n) = d /\ SubSeq(d, 1, 1) = <<d[1]>>
               /\ n \in 1 .. n /\ 1 \in 1 .. n /\ Len(s) \in Nat /\ Len(s) + n < Ctx
<1> DEFINE d == call.drafts
           s == call.from
           n == Len(d)
           k == Standing
           t == s \o d
           p == Len(s)
<1>1. /\ Speculating(s, d) /\ n <= PrefillCap /\ checkpoint = t
      /\ Drafted(s, d, n, call.frontier) /\ FrontierAt(call.prefix1, t, p + 1)
      /\ k \in 1 .. n /\ Emittable(s, d, k)
  BY DEF InVerified, Standing
<1>2. /\ s \in Seq(Token) /\ d \in Seq(Token) /\ IsSeq(d) /\ p \in Nat /\ n \in Nat \ {0} /\ p + n < Ctx
  BY <1>1, SpeculatingIs
<1> HIDE DEF d, s, k
<1>4. n \in 0 .. n /\ 0 \in 0 .. n /\ 1 \in 0 .. n /\ n \in 1 .. n /\ 1 \in 1 .. n /\ Len(d) >= 1
  BY <1>2
<1>5. /\ Held(graph, t, p + n) /\ FrontierAt(call.frontier, t, p)
      /\ Above(graph, t, p + 0) /\ Above(graph, t, p + 1)
      /\ \A g : Held(g, t, p) <=> Held(g, s, p)
  <2> HIDE DEF t, p
  <2>1. /\ Held(graph, s \o d, Len(s) + n) /\ FrontierAt(call.frontier, s \o d, Len(s))
        /\ \A g : Held(g, s \o d, Len(s)) <=> Held(g, s, Len(s))
        /\ \A m \in 0 .. n : Above(graph, s \o d, Len(s) + m)
    BY <1>1, <1>4, DraftedIs
  <2>. QED BY <1>4, <2>1 DEF t, p
<1>6. p + 0 = p
  BY <1>2
<1>8. SubSeq(d, 1, n) = d
  BY <1>2, PrefixFacts
<1>9. SubSeq(d, 1, 1) = <<d[1]>>
  BY <1>2, <1>4, FirstDraft
<1> HIDE DEF n, t, p
<1>10. Above(graph, t, p)
  BY <1>5, <1>6
<1>. QED BY <1>1, <1>2, <1>4, <1>5, <1>8, <1>9, <1>10, Zenon DEF n, t, p, d, s, k

LEMMA CommitAllKeeps ==
    ASSUME SessionInv, CommitAll
    PROVE  SessionInv'
<1> DEFINE d == call.drafts
           s == call.from
           n == Len(d)
<1>1. Typed /\ InVerified /\ (disk # NoPayload => Consistent(disk))
  BY CallIs DEF SessionInv, CommitAll
<1>2. /\ Standing = n /\ Accept(s, d) /\ ReadsNothing /\ UNCHANGED <<graph, draft, disk, sound>>
  BY DEF CommitAll
<1>3. /\ Speculating(s, d) /\ Held(graph, s \o d, Len(s) + n)
      /\ Emittable(s, d, Standing)
      /\ SubSeq(d, 1, n) = d /\ n \in 1 .. n
  BY <1>1, VerifiedIs
<1> HIDE DEF d, s
<1>4. /\ Shape(graph') /\ Bounded(graph') /\ Held(graph', s \o SubSeq(d, 1, n), Len(s) + n)
      /\ Accept(s, SubSeq(d, 1, n))
  BY <1>1, <1>2, <1>3 DEF Typed
<1>5. Emittable(s, d, n)
  BY <1>2, <1>3
<1>6. Typed' /\ InIdle'
  BY <1>1, <1>2, <1>3, <1>4, <1>5, Accepts
<1>7. AttentionExact'
  BY <1>2, ReadNothing
<1>. QED BY <1>1, <1>2, <1>6, <1>7 DEF SessionInv, InCall

LEMMA CommitPrefix1Keeps ==
    ASSUME SessionInv, CommitPrefix1
    PROVE  SessionInv'
<1> DEFINE d == call.drafts
           s == call.from
           n == Len(d)
           t == s \o d
           p == Len(s)
<1>1. Typed /\ InVerified /\ (disk # NoPayload => Consistent(disk))
  BY CallIs DEF SessionInv, CommitPrefix1
<1>2. /\ graph' = Restored(graph, call.prefix1) /\ Accept(s, <<d[1]>>)
      /\ ReadsNothing /\ UNCHANGED <<draft, disk, sound>>
  BY DEF CommitPrefix1
<1>3. /\ Speculating(s, d) /\ FrontierAt(call.prefix1, t, p + 1) /\ Above(graph, t, p + 1)
      /\ SubSeq(d, 1, 1) = <<d[1]>> /\ 1 \in 1 .. n /\ p \in Nat /\ p + n < Ctx
  BY <1>1, VerifiedIs
<1>4. IsSeq(s) /\ IsSeq(d) /\ n \in Nat
  BY <1>3, SpeculatingIs
<1> HIDE DEF d, s
<1>5. 1 \in 0 .. Len(d)
  BY <1>3
<1>6. \A g : Held(g, t, p + 1) <=> Held(g, s \o SubSeq(d, 1, 1), p + 1)
  BY <1>4, <1>5, HeldDrafts
<1> HIDE DEF t, p, n
<1>7. p + 1 \in Nat /\ p + 1 <= Ctx
  BY <1>3, <1>4, Sizes
<1>8. Shape(graph') /\ Bounded(graph') /\ Held(graph', t, p + 1)
  <2>1. Shape(graph)
    BY <1>1 DEF Typed
  <2>. QED BY <1>2, <1>3, <1>7, <2>1, RestoredIs
<1>9. Held(graph', s \o SubSeq(d, 1, 1), Len(s) + 1) /\ Accept(s, SubSeq(d, 1, 1)) /\ 1 \in 1 .. Len(d)
  BY <1>2, <1>3, <1>6, <1>8 DEF p, n
<1>10. Emittable(s, d, 1)
  BY DEF Emittable
<1>11. Typed' /\ InIdle'
  BY <1>1, <1>2, <1>3, <1>8, <1>9, <1>10, Accepts
<1>12. AttentionExact'
  BY <1>2, ReadNothing
<1>. QED BY <1>1, <1>2, <1>11, <1>12 DEF SessionInv, InCall

\* The frontier is back and what stands will be evaluated again.
LEMMA GoesBack ==
    ASSUME Typed, InVerified, Shape(graph'), Bounded(graph'), Held(graph', call.from, Len(call.from)),
           Replaying, checkpoint' = call.from,
           UNCHANGED <<valid, logits, draft, accepted, sound>>
    PROVE  Typed' /\ InReplay'
<1> DEFINE d == call.drafts
           s == call.from
           n == Len(d)
           t == s \o d
           p == Len(s)
           f == call.frontier
           k == Standing
<1>1. /\ Speculating(s, d) /\ n <= PrefillCap /\ FrontierAt(f, t, p)
      /\ (\A g : Held(g, t, p) <=> Held(g, s, p))
      /\ k \in 1 .. n /\ Emittable(s, d, k)
      /\ p \in Nat /\ p + n < Ctx
  BY VerifiedIs
<1>2. s \in Seq(Token) /\ n \in Nat
  BY <1>1, SpeculatingIs
<1>3. call' = [op |-> "replay", drafts |-> d, from |-> s, frontier |-> f, take |-> k]
  BY DEF Replaying
<1>4. /\ call'.op = "replay" /\ call'.drafts = d /\ call'.from = s /\ call'.frontier = f /\ call'.take = k
  BY <1>3
<1>5. Held(graph', s, p)
  OBVIOUS
<1>6. Speculating(call.from, call.drafts)'
  BY <1>1, <1>4, Zenon DEF Speculating
<1> HIDE DEF d, s, t, p, f, k, n
<1>7. p + 0 = p /\ p <= Ctx
  BY <1>1, <1>2, Sizes
<1>8. Held(graph', t, p + 0) /\ RingHas(graph', t, p, p + 0)
  <2>1. Held(graph', t, p)
    BY <1>1, <1>5
  <2>. QED BY <1>7, <2>1 DEF Held
<1>9. Drafted(call.from, call.drafts, 0, call.frontier)'
  BY <1>1, <1>4, <1>8, Zenon DEF Drafted, t, p
<1>10. checkpoint' = s
  BY DEF s
<1>11. InReplay'
  BY <1>1, <1>4, <1>6, <1>9, <1>10, Zenon DEF InReplay, n
<1>12. Typed'
  BY <1>2, <1>7, <1>10 DEF Typed, p
<1>. QED BY <1>11, <1>12

LEMMA RestoredBack ==
    ASSUME Typed, InVerified
    PROVE  LET g == Restored(graph, call.frontier)
           IN  Shape(g) /\ Bounded(g) /\ Held(g, call.from, Len(call.from))
<1> DEFINE d == call.drafts
           s == call.from
           t == s \o d
           p == Len(s)
           f == call.frontier
           g == Restored(graph, f)
<1>1. /\ FrontierAt(f, t, p) /\ Above(graph, t, p) /\ (\A h : Held(h, t, p) <=> Held(h, s, p))
      /\ p \in Nat /\ p + Len(d) < Ctx /\ Speculating(s, d)
  BY VerifiedIs
<1>2. Shape(graph) /\ Len(d) \in Nat
  BY <1>1, SpeculatingIs DEF Typed
<1> HIDE DEF d, s, t, p, f
<1>3. p <= Ctx
  BY <1>1, <1>2, Sizes
<1>4. Shape(g) /\ Bounded(g) /\ Held(g, t, p)
  BY <1>1, <1>2, <1>3, RestoredIs
<1> HIDE DEF g
<1>5. Held(g, s, p)
  BY <1>1, <1>4
<1>. QED BY <1>4, <1>5 DEF g, f, s, p

LEMMA RollbackKeeps ==
    ASSUME SessionInv, Rollback
    PROVE  SessionInv'
<1>1. Typed /\ InVerified /\ (disk # NoPayload => Consistent(disk))
  BY CallIs DEF SessionInv, Rollback
<1>2. /\ graph' = Restored(graph, call.frontier) /\ checkpoint' = call.from /\ Replaying
      /\ ReadsNothing /\ UNCHANGED <<valid, logits, draft, accepted, disk, sound>>
  BY DEF Rollback
<1>3. Shape(graph') /\ Bounded(graph') /\ Held(graph', call.from, Len(call.from))
  BY <1>1, <1>2, RestoredBack
<1>4. Typed' /\ InReplay'
  BY <1>1, <1>2, <1>3, GoesBack
<1>5. AttentionExact'
  BY <1>2, ReadNothing
<1>. QED BY <1>1, <1>2, <1>4, <1>5 DEF SessionInv, InCall

LEMMA CommitFailsKeeps ==
    ASSUME SessionInv, CommitFails
    PROVE  SessionInv'
<1> DEFINE d == call.drafts
           s == call.from
           t == s \o d
           f == call.frontier
<1>1. Typed /\ InVerified /\ (disk # NoPayload => Consistent(disk))
  BY CallIs DEF SessionInv, CommitFails
<1>2. ReadsNothing /\ draft' = draft
  BY DEF CommitFails
<1>3. AttentionExact'
  BY <1>2, ReadNothing
<1>4. Shape(graph) /\ Bounded(graph)
  BY <1>1 DEF Typed
<1>5. CASE /\ graph' = Restored(graph, f) /\ checkpoint' = s /\ Replaying
           /\ UNCHANGED <<valid, logits, accepted, disk, sound>>
  <2>1. Shape(graph') /\ Bounded(graph') /\ Held(graph', call.from, Len(call.from))
    BY <1>1, <1>5, RestoredBack
  <2>2. Typed' /\ InReplay'
    BY <1>1, <1>2, <1>5, <2>1, GoesBack
  <2>. QED BY <1>1, <1>3, <1>5, <2>2 DEF SessionInv, InCall
<1>6. CASE PutBack(graph, f) /\ Sequential(s, d) /\ disk' = disk
  <2>1. /\ Speculating(s, d) /\ FrontierAt(f, t, Len(s)) /\ Above(graph, t, Len(s))
        /\ \A h : Held(h, t, Len(s)) <=> Held(h, s, Len(s))
    BY <1>1, VerifiedIs
  <2>2. Held(graph', t, Len(s)) => Held(graph', s, Len(s))
    BY <2>1
  <2> HIDE DEF d, s, t, f
  <2>. QED BY <1>2, <1>4, <1>6, <2>1, <2>2, PutBackGoesOn
<1>7. CASE /\ valid' = FALSE /\ checkpoint' = s /\ call' = Idle
           /\ UNCHANGED <<graph, logits, accepted, disk, sound>>
  <2>1. s \in Seq(Token) /\ Len(s) \in Nat /\ Len(d) \in Nat /\ Len(s) + Len(d) < Ctx
    <3>1. Speculating(s, d)
      BY <1>1, VerifiedIs
    <3>. QED BY <3>1, SpeculatingIs
  <2>2. Len(s) <= Ctx
    <3> DEFINE a == Len(s)
               b == Len(d)
    <3>1. a \in Nat /\ b \in Nat /\ a + b < Ctx /\ Ctx \in Nat
      BY <2>1, Sizes
    <3> HIDE DEF a, b
    <3>2. a <= Ctx
      BY <3>1
    <3>. QED BY <3>2 DEF a
  <2>3. InIdle'
    BY <1>7 DEF InIdle, Exact
  <2>4. Typed'
    BY <1>1, <1>7, <2>1, <2>2 DEF Typed
  <2>. QED BY <1>1, <1>3, <1>7, <2>3, <2>4 DEF SessionInv, InCall
<1>. QED BY <1>5, <1>6, <1>7 DEF CommitFails

\* The replay of what stands.
LEMMA ReplayIs ==
    ASSUME Typed, InReplay
    PROVE  LET d == call.drafts
               s == call.from
               n == call.take
               t == s \o SubSeq(d, 1, n)
           IN  /\ Speculating(s, d) /\ n \in 1 .. Len(d) /\ n \in Nat \ {0} /\ Len(s) \in Nat
               /\ Emittable(s, d, n)
               /\ After(Replayed, t, Len(s), n) /\ Held(graph, t, Len(s))
               /\ FrontierAt(call.frontier, t, Len(s))
               /\ \A g : Held(g, t, Len(s)) <=> Held(g, s, Len(s))
<1> DEFINE d == call.drafts
           s == call.from
           n == call.take
           c == SubSeq(d, 1, n)
           t == s \o c
           p == Len(s)
           f == call.frontier
<1>1. /\ Speculating(s, d) /\ Len(d) <= PrefillCap /\ n \in 1 .. Len(d)
      /\ Emittable(s, d, n)
      /\ Drafted(s, d, 0, f)
  BY DEF InReplay
<1>2. IsSeq(s) /\ IsSeq(d) /\ p \in Nat /\ Len(d) \in Nat \ {0} /\ p + Len(d) < Ctx
  BY <1>1, SpeculatingIs
<1>3. Replayed = IF n = 1 /\ Len(d) = 2 THEN Decode(graph, t, p) ELSE Batch(graph, t, p, n)
  BY DEF Replayed
<1>4. Shape(graph)
  BY DEF Typed
<1> HIDE DEF d, s, n, f
<1>5. n \in 0 .. Len(d) /\ n \in Nat \ {0} /\ 0 \in 0 .. Len(d)
  BY <1>1, <1>2
<1>6. IsSeq(t) /\ Len(t) = p + n /\ IsSeq(c)
  BY <1>2, <1>5, HeldDrafts
<1>7. /\ \A g : Held(g, t, p) <=> Held(g, s, p)
      /\ \A h : FrontierAt(h, t, p) <=> FrontierAt(h, s, p)
  <2> HIDE DEF c
  <2>. QED BY <1>2, <1>6, HeldBefore
<1>8. FrontierAt(f, s, p) /\ Held(graph, s, p)
  <2>1. /\ Held(graph, s \o d, p + 0) /\ FrontierAt(f, s, p)
        /\ \A g : Held(g, s \o d, p) <=> Held(g, s, p)
    BY <1>1, <1>5, DraftedIs
  <2>2. p + 0 = p
    BY <1>2
  <2>. QED BY <2>1, <2>2
<1> HIDE DEF c, t, p
<1>9. p + n <= Len(t) /\ p + n <= Ctx /\ n <= PrefillCap /\ p < Len(t) /\ p < Ctx
  BY <1>1, <1>2, <1>5, <1>6, Sizes
<1>10. Held(graph, t, p)
  BY <1>7, <1>8
<1>11. After(Batch(graph, t, p, n), t, p, n)
  BY <1>2, <1>4, <1>5, <1>6, <1>9, <1>10, BatchExact
<1>12. After(Decode(graph, t, p), t, p, 1)
  BY <1>2, <1>4, <1>6, <1>9, <1>10, DecodeExact
<1>13. After(Replayed, t, p, n)
  BY <1>3, <1>11, <1>12
<1>. QED BY <1>1, <1>2, <1>5, <1>7, <1>8, <1>10, <1>13, Zenon DEF d, s, n, c, t, p, f

LEMMA ReplayKeeps ==
    ASSUME SessionInv, Replay
    PROVE  SessionInv'
<1> DEFINE d == call.drafts
           s == call.from
           n == call.take
           t == s \o SubSeq(d, 1, n)
<1>1. Typed /\ InReplay /\ (disk # NoPayload => Consistent(disk))
  BY CallIs DEF SessionInv, Replay
<1>2. /\ graph' = Replayed /\ Reads(t, Len(s), n) /\ Accept(s, SubSeq(d, 1, n))
      /\ UNCHANGED <<draft, disk, sound>>
  BY DEF Replay
<1>3. /\ Speculating(s, d) /\ n \in 1 .. Len(d)
      /\ Emittable(s, d, n)
      /\ After(Replayed, t, Len(s), n)
  BY <1>1, ReplayIs
<1> HIDE DEF d, s, n
<1>4. Shape(graph') /\ Bounded(graph') /\ Held(graph', t, Len(s) + n) /\ Misread(graph', t, Len(s), n) = {}
  BY <1>2, <1>3 DEF After
<1>5. Typed' /\ InIdle'
  BY <1>1, <1>2, <1>3, <1>4, Accepts
<1>6. AttentionExact'
  BY <1>2, <1>4, ReadRight
<1>. QED BY <1>1, <1>2, <1>5, <1>6 DEF SessionInv, InCall

LEMMA ReplayFailsKeeps ==
    ASSUME SessionInv, ReplayFails
    PROVE  SessionInv'
<1> DEFINE d == call.drafts
           s == call.from
           n == call.take
           t == s \o SubSeq(d, 1, n)
           f == call.frontier
           h == Replayed
<1>1. Typed /\ InReplay
  BY CallIs DEF SessionInv, ReplayFails
<1>2. /\ \E k \in 0 .. NumLayers : PutBack(Partly(graph, h, k), f)
      /\ Sequential(s, d) /\ ReadsNothing /\ draft' = draft /\ disk' = disk
  BY DEF ReplayFails
<1>3. /\ Speculating(s, d) /\ n \in Nat /\ Len(s) \in Nat
      /\ After(h, t, Len(s), n) /\ Held(graph, t, Len(s)) /\ FrontierAt(f, t, Len(s))
      /\ \A g : Held(g, t, Len(s)) <=> Held(g, s, Len(s))
  BY <1>1, ReplayIs
<1>4. Shape(graph) /\ Bounded(graph)
  BY <1>1 DEF Typed
<1>5. PICK k : PutBack(Partly(graph, h, k), f)
  BY <1>2
<1> HIDE DEF d, s, n, t, f, h
<1>6. Shape(Partly(graph, h, k)) /\ Bounded(Partly(graph, h, k)) /\ Above(Partly(graph, h, k), t, Len(s))
  BY <1>3, <1>4, TornIs
<1>7. Held(graph', t, Len(s)) => Held(graph', s, Len(s))
  BY <1>3
<1>. QED BY <1>2, <1>3, <1>5, <1>6, <1>7, PutBackGoesOn

LEMMA StepKeeps ==
    ASSUME SessionInv, Step
    PROVE  SessionInv'
<1> DEFINE d == call.drafts
           c == checkpoint
           x == d[1]
           t == Append(c, x)
<1>1. Typed /\ InSequential /\ (disk # NoPayload => Consistent(disk))
  BY CallIs DEF SessionInv, Step
<1>2. /\ d # << >> /\ x \in SequentialTops
      /\ \/ /\ Decoded(t) /\ checkpoint' = t /\ accepted' = Append(accepted, x)
            /\ call' = [call EXCEPT !.drafts = Tail(d)] /\ UNCHANGED <<valid, logits, disk, sound>>
         \/ DecodeFails(t) /\ GiveUp
      /\ draft' = draft
  BY DEF Step
<1>3. /\ call = [op |-> "sequential", drafts |-> d] /\ d \in Seq(Token) /\ Len(c) + Len(d) < Ctx
      /\ valid /\ draft = NoDraft /\ Chosen(accepted, c) /\ (sound => Held(graph, c, Len(c)))
      /\ c \in Seq(Token) /\ accepted \in Seq(Token)
      /\ Len(accepted) >= 1 /\ (Len(accepted) = 1 => logits = c) /\ (sound => Allowed(accepted, c))
  BY <1>1 DEF InSequential, Typed
<1>9. sound \/ logits = c => x = Greedy(c)
  BY <1>2 DEF SequentialTops
<1> HIDE DEF d, c
<1>4. x \in Token /\ Len(d) \in Nat \ {0} /\ Tail(d) \in Seq(Token) /\ Len(Tail(d)) = Len(d) - 1
  BY <1>2, <1>3
<1>5. /\ t \in Seq(Token) /\ Len(t) = Len(c) + 1 /\ Len(c) \in Nat
      /\ (Held(graph, t, Len(c)) <=> Held(graph, c, Len(c)))
  BY <1>3, <1>4, AppendTokens
<1> HIDE DEF x, t
<1>6. Len(t) >= 1 /\ Len(t) <= Ctx /\ Len(t) - 1 = Len(c) /\ Len(t) + Len(Tail(d)) < Ctx
  BY <1>3, <1>4, <1>5, Sizes
<1>7. CASE /\ Decoded(t) /\ checkpoint' = t /\ accepted' = Append(accepted, x)
           /\ call' = [call EXCEPT !.drafts = Tail(d)] /\ UNCHANGED <<valid, logits, disk, sound>>
  <2>1. /\ Shape(graph') /\ Bounded(graph') /\ Reads(t, Len(t) - 1, 1)
        /\ Held(graph, t, Len(t) - 1) => Held(graph', t, Len(t)) /\ Misread(graph', t, Len(t) - 1, 1) = {}
    BY <1>1, <1>5, <1>6, <1>7, DecodedIs
  <2>2. sound => Held(graph', t, Len(t)) /\ Misread(graph', t, Len(t) - 1, 1) = {}
    BY <1>3, <1>5, <1>6, <2>1
  <2>3. Chosen(Append(accepted, x), t) /\ (sound => Allowed(Append(accepted, x), t)) /\ Len(Append(accepted, x)) > 1
    <3> DEFINE e == <<x>>
               a == accepted
    <3>1. IsSeq(a) /\ IsSeq(c) /\ IsSeq(e) /\ Len(e) = 1 /\ e[1] = x
      BY <1>3, SeqIs DEF IsSeq
    <3>2. Append(a, x) = a \o e /\ t = c \o e
      BY <3>1, PrefixOfAppend DEF t
    <3>3. sound => \A i \in 1 .. Len(e) : e[i] \in Emitted(Root(a, c), c \o SubSeq(e, 1, i - 1))
      <4> SUFFICES ASSUME sound, NEW i \in 1 .. Len(e) PROVE e[i] \in Emitted(Root(a, c), c \o SubSeq(e, 1, i - 1))
        OBVIOUS
      <4>1. i = 1 /\ i - 1 = 0
        BY <3>1
      <4>2. SubSeq(e, 1, 0) = << >>
        OBVIOUS
      <4>3. c \o << >> = c
        BY <1>3
      <4>4. x = Greedy(c)
        BY <1>9
      <4> HIDE DEF e, a
      <4>. QED BY <3>1, <4>1, <4>2, <4>3, <4>4, EmittedGreedy
    <3>4. Chosen(a, c) /\ Len(a) >= 1 /\ (sound => Allowed(a, c))
      BY <1>3
    <3>5. Len(a) = 1 /\ Len(e) >= 1 => e[1] = Greedy(c)
      BY <1>3, <1>9, <3>1
    <3>6. Len(Append(a, x)) > 1
      BY <1>3
    <3> HIDE DEF e, a
    <3>7. Chosen(a \o e, c \o e)
      BY <3>1, <3>4, <3>5, ChosenMore
    <3>8. sound => Allowed(a \o e, c \o e)
      <4> SUFFICES ASSUME sound PROVE Allowed(a \o e, c \o e)
        OBVIOUS
      <4>. QED BY <3>1, <3>3, <3>4, AllowedMore
    <3>. QED BY <3>2, <3>6, <3>7, <3>8 DEF a
  <2>4. call' = [op |-> "sequential", drafts |-> Tail(d)]
    BY <1>3, <1>7
  <2>5. call'.op = "sequential" /\ call'.drafts = Tail(d)
    BY <2>4
  <2>6. InSequential'
    <3>1. Len(accepted') >= 1 /\ ~(Len(accepted') = 1)
      <4>1. Len(accepted') \in Nat /\ Len(accepted') > 1
        BY <1>3, <1>4, <1>7, <2>3
      <4>. QED BY <4>1
    <3>. QED BY <1>2, <1>3, <1>4, <1>6, <1>7, <2>2, <2>3, <2>4, <2>5, <3>1, Zenon DEF InSequential
  <2>7. Typed'
    <3>1. Append(accepted, x) \in Seq(Token)
      BY <1>3, <1>4
    <3>. QED BY <1>1, <1>5, <1>6, <1>7, <2>1, <3>1 DEF Typed
  <2>8. AttentionExact'
    BY <1>7, <2>1, <2>2, ReadRight
  <2>. QED BY <1>1, <1>7, <2>6, <2>7, <2>8 DEF SessionInv, InCall
<1>8. CASE DecodeFails(t) /\ GiveUp
  BY <1>1, <1>5, <1>6, <1>8, DecodeFailsIs, GivesUp
<1>. QED BY <1>2, <1>7, <1>8

LEMMA StepsDoneKeeps ==
    ASSUME SessionInv, StepsDone
    PROVE  SessionInv'
<1>1. Typed /\ InSequential /\ (disk # NoPayload => Consistent(disk))
  BY CallIs DEF SessionInv, StepsDone
<1>2. /\ \/ Hold(checkpoint) /\ call' = Idle /\ UNCHANGED <<accepted, disk, sound>>
         \/ GiveUp
      /\ ReadsNothing /\ UNCHANGED <<graph, draft>>
  BY DEF StepsDone
<1>3. /\ valid /\ draft = NoDraft /\ Chosen(accepted, checkpoint)
      /\ sound => Held(graph, checkpoint, Len(checkpoint)) /\ Allowed(accepted, checkpoint)
  BY <1>1 DEF InSequential
<1>4. CASE Hold(checkpoint) /\ call' = Idle /\ UNCHANGED <<accepted, disk, sound>>
  <2>1. checkpoint' = checkpoint /\ valid' = TRUE /\ logits' = checkpoint
    BY <1>4 DEF Hold
  <2>2. Exact'
    BY <1>2, <1>3, <1>4, <2>1 DEF Exact, NoDraft
  <2>3. InIdle'
    BY <1>3, <1>4, <2>1, <2>2 DEF InIdle
  <2>4. Typed'
    BY <1>1, <1>2, <1>4, <2>1 DEF Typed
  <2>5. AttentionExact'
    BY <1>2, ReadNothing
  <2>. QED BY <1>1, <1>4, <2>3, <2>4, <2>5 DEF SessionInv, InCall
<1>5. CASE GiveUp
  <2>1. Shape(graph') /\ Bounded(graph')
    BY <1>1, <1>2 DEF Typed
  <2>. QED BY <1>2, <1>5, <2>1, GivesUp
<1>. QED BY <1>2, <1>4, <1>5

(***************************************************************************)
(* Payloads, and the calls that only touch the checkpoint.                 *)
(***************************************************************************)

LEMMA SaveKeeps ==
    ASSUME SessionInv, Save
    PROVE  SessionInv'
<1> DEFINE t == checkpoint
<1>1. /\ CallerRuns /\ valid /\ sound /\ ReadsNothing
      /\ disk' = [tokens |-> t, logits |-> logits,
                  rows |-> [l \in Layer |-> LiveRows(graph.ring[l], Len(t))], lane |-> graph.lane]
      /\ UNCHANGED <<graph, checkpoint, valid, logits, draft, accepted, call, sound>>
  BY DEF Save
<1>2. Typed /\ InCall
  BY DEF SessionInv
<1>3. Exact
  BY <1>1, <1>2, CallIs DEF CallerRuns, InIdle, InPrefill
<1>4. Shape(graph) /\ t \in Seq(Token) /\ Len(t) <= Ctx /\ Held(graph, t, Len(t)) /\ logits = t
  BY <1>1, <1>2, <1>3 DEF Typed, Exact
<1>5. Consistent(disk')
  <2> HIDE DEF t
  <2>1. Consistent([tokens |-> t, logits |-> t,
                    rows |-> [l \in Layer |-> LiveRows(graph.ring[l], Len(t))], lane |-> graph.lane])
    BY <1>4, SavedIs
  <2>. QED BY <1>1, <1>4, <2>1, Zenon
<1>6. Typed'
  BY <1>1, <1>2 DEF Typed
<1>7. InCall'
  <2>1. Exact'
    BY <1>1, <1>3 DEF Exact
  <2>2. InIdle \/ InPrefill
    BY <1>1, <1>2, CallIs DEF CallerRuns
  <2>3. CASE InIdle
    <3>1. InIdle'
      BY <1>1, <2>1, <2>3, Zenon DEF InIdle
    <3>. QED BY <3>1 DEF InCall
  <2>4. CASE InPrefill
    <3>1. InPrefill'
      BY <1>1, <2>1, <2>4, Zenon DEF InPrefill
    <3>. QED BY <3>1 DEF InCall
  <2>. QED BY <2>2, <2>3, <2>4
<1>8. AttentionExact'
  BY <1>1, ReadNothing
<1>. QED BY <1>5, <1>6, <1>7, <1>8 DEF SessionInv

LEMMA LoadKeeps ==
    ASSUME SessionInv, Load
    PROVE  SessionInv'
<1> DEFINE d == disk
           h == [ring |-> [l \in Layer |-> LoadedRing(graph.ring[l], d.rows[l])], lane |-> d.lane]
<1>1. /\ call.op = "idle" /\ d # NoPayload /\ graph' = h
      /\ checkpoint' = d.tokens /\ valid' = TRUE /\ logits' = d.logits
      /\ draft' = NoDraft /\ accepted' = << >> /\ sound' = TRUE /\ ReadsNothing
      /\ UNCHANGED <<call, disk>>
  BY DEF Load
<1>2. Typed /\ InIdle /\ Consistent(d)
  BY <1>1, CallIs DEF SessionInv
<1>3. d.tokens \in Seq(Token) /\ Len(d.tokens) <= Ctx /\ d.logits = d.tokens
  BY <1>2 DEF Consistent
<1>4. Shape(h) /\ Bounded(h) /\ Held(h, d.tokens, Len(d.tokens))
  BY <1>2, LoadedIs
<1> HIDE DEF h
<1>5. Exact'
  BY <1>1, <1>3, <1>4 DEF Exact, NoDraft
<1>6. Chosen(<< >>, d.tokens) /\ Allowed(<< >>, d.tokens)
  <2> DEFINE t == d.tokens
  <2>1. Len(t) \in Nat
    BY <1>3
  <2> HIDE DEF t
  <2>2. Chosen(<< >>, t) /\ Allowed(<< >>, t)
    BY <2>1, ChosenNothing
  <2>. QED BY <2>2 DEF t
<1>7. InIdle'
  BY <1>1, <1>2, <1>5, <1>6, Zenon DEF InIdle
<1>8. Typed'
  <2>1. << >> \in Seq(Token)
    OBVIOUS
  <2>. QED BY <1>1, <1>2, <1>3, <1>4, <2>1 DEF Typed
<1>9. AttentionExact'
  BY <1>1, ReadNothing
<1>. QED BY <1>1, <1>2, <1>7, <1>8, <1>9 DEF SessionInv, InCall

\* The rows of a payload over those of the session, to the count of these.
LEMMA OverIs ==
    ASSUME NEW new, IsSeq(new), NEW old, IsSeq(old)
    PROVE  LET over == SubSeq(new \o SubSeq(old, Len(new) + 1, Len(old)), 1, Len(old))
           IN  IsSeq(over) /\ Len(over) = Len(old)
<1> DEFINE m == Len(new)
           n == Len(old)
           rest == SubSeq(old, m + 1, n)
           all == new \o rest
<1>1. m \in Nat /\ n \in Nat
  BY DEF IsSeq
<1>2. old \in Seq({old[i] : i \in 1 .. n})
  BY HasValues
<1>3. IsSeq(rest) /\ m + Len(rest) >= n
  <2> DEFINE S == {old[i] : i \in 1 .. n}
  <2>1. old \in Seq(S)
    BY <1>2
  <2> HIDE DEF S
  <2>2. CASE m + 1 <= n
    <3>1. rest \in Seq(S) /\ Len(rest) = n - m
      BY <1>1, <2>1, <2>2
    <3>2. IsSeq(rest)
      <4> HIDE DEF rest
      <4>. QED BY <3>1, SeqIs
    <3>. QED BY <1>1, <3>1, <3>2
  <2>3. CASE ~(m + 1 <= n)
    <3>1. rest = << >>
      BY <1>1, <2>1, <2>3
    <3>2. IsSeq(<< >>) /\ Len(<< >>) = 0
      BY DEF IsSeq
    <3>3. IsSeq(rest) /\ Len(rest) = 0
      <4> HIDE DEF rest
      <4>. QED BY <3>1, <3>2
    <3>4. m >= n
      <4> HIDE DEF m, n
      <4>. QED BY <1>1, <2>3
    <3> HIDE DEF m, n, rest
    <3>. QED BY <1>1, <3>3, <3>4
  <2>. QED BY <2>2, <2>3
<1>4. IsSeq(all) /\ Len(all) = m + Len(rest) /\ Len(rest) \in Nat
  <2> HIDE DEF rest
  <2>. QED BY <1>3, ConcatIs DEF IsSeq
<1> HIDE DEF all, rest, m, n
<1>5. n \in 0 .. Len(all)
  BY <1>1, <1>3, <1>4
<1>6. IsSeq(SubSeq(all, 1, n)) /\ Len(SubSeq(all, 1, n)) = n
  BY <1>4, <1>5, SubSeqIs
<1>. QED BY <1>6 DEF all, rest, m, n

LEMMA LoadTornKeeps ==
    ASSUME SessionInv, LoadTorn
    PROVE  SessionInv'
<1> DEFINE d == disk
           R(l) == LoadedRing(graph.ring[l], d.rows[l])
           L(ln) == [rows  |-> SubSeq(d.lane[ln].rows \o
                                        SubSeq(graph.lane[ln].rows, Len(d.lane[ln].rows) + 1, Len(graph.lane[ln].rows)),
                                      1, Len(graph.lane[ln].rows)),
                     state |-> d.lane[ln].state]
           h == [ring |-> [l \in Layer |-> R(l)], lane |-> [ln \in Lane |-> L(ln)]]
<1>1. /\ call.op = "idle" /\ d # NoPayload
      /\ \E k \in 0 .. NumLayers : graph' = Partly(graph, h, k)
      /\ sound' = FALSE /\ disk' = NoPayload /\ ReadsNothing
      /\ UNCHANGED <<checkpoint, valid, draft, accepted, call>>
  BY DEF LoadTorn
<1>2. Typed /\ InIdle /\ Consistent(d) /\ Shape(graph) /\ Bounded(graph)
  BY <1>1, CallIs DEF SessionInv, Typed
<1>3. \A l \in Layer : RingShape(R(l))
  <2>1. Len(d.tokens) \in 0 .. Ctx
    BY <1>2, Sizes DEF Consistent
  <2>2. \A l \in Layer : DOMAIN d.rows[l] = WindowOf(Len(d.tokens) - 1)
    BY <1>2 DEF Consistent
  <2>. QED BY <2>1, <2>2, LoadedRingIs
<1>4. ASSUME NEW ln \in Lane PROVE LaneShape(LaneRatio(ln), L(ln)) /\ Len(L(ln).rows) = Len(graph.lane[ln].rows)
  <2> DEFINE a == d.lane[ln]
             b == graph.lane[ln]
             e == L(ln)
             over == SubSeq(a.rows \o SubSeq(b.rows, Len(a.rows) + 1, Len(b.rows)), 1, Len(b.rows))
             r == LaneRatio(ln)
  <2>1. LaneShape(r, a) /\ LaneShape(r, b)
    BY <1>2 DEF Consistent, Shape
  <2>2. IsSeq(a.rows) /\ IsSeq(b.rows) /\ a.state = [i \in 0 .. Depth(r) - 1 |-> a.state[i]]
    BY <2>1 DEF LaneShape
  <2>3. e = [rows |-> over, state |-> a.state]
    OBVIOUS
  <2> HIDE DEF a, b, e, r
  <2>4. IsSeq(over) /\ Len(over) = Len(b.rows)
    BY <2>2, OverIs
  <2> HIDE DEF over
  <2>5. e.rows = over /\ e.state = a.state /\ e = [rows |-> e.rows, state |-> e.state]
    BY <2>3
  <2>6. LaneShape(r, e) /\ Len(e.rows) = Len(b.rows)
    BY <2>2, <2>4, <2>5 DEF LaneShape
  <2>. QED BY <2>6 DEF e, r, b
<1>5. Shape(h)
  <2> HIDE DEF R, L
  <2>1. /\ h = [ring |-> h.ring, lane |-> h.lane]
        /\ h.ring = [l \in Layer |-> R(l)] /\ h.lane = [ln \in Lane |-> L(ln)]
    OBVIOUS
  <2> HIDE DEF h
  <2>2. /\ \A l \in Layer : h.ring[l] = R(l)
        /\ \A ln \in Lane : h.lane[ln] = L(ln)
    BY <2>1
  <2>3. h.ring = [l \in Layer |-> h.ring[l]] /\ h.lane = [ln \in Lane |-> h.lane[ln]]
    <3> DEFINE x == h.ring
               y == h.lane
    <3>1. x = [l \in Layer |-> R(l)] /\ y = [ln \in Lane |-> L(ln)]
      BY <2>1
    <3> HIDE DEF x, y
    <3>2. x = [l \in Layer |-> x[l]] /\ y = [ln \in Lane |-> y[ln]]
      BY <3>1
    <3>. QED BY <3>2 DEF x, y
  <2>4. (\A l \in Layer : RingShape(h.ring[l])) /\ \A ln \in Lane : LaneShape(LaneRatio(ln), h.lane[ln])
    BY <1>3, <1>4, <2>2
  <2>. QED BY <2>1, <2>3, <2>4 DEF Shape
<1>6. \A ln \in Lane : Len(h.lane[ln].rows) <= CompCap
  <2>1. \A ln \in Lane : h.lane[ln] = L(ln)
    <3> HIDE DEF R, L
    <3>. QED OBVIOUS
  <2> HIDE DEF h, L
  <2>. QED BY <1>2, <1>4, <2>1 DEF Bounded
<1>7. PICK k : graph' = Partly(graph, h, k)
  BY <1>1
<1> HIDE DEF h
<1>8. Shape(graph') /\ Bounded(graph')
  <2>1. Shape(Partly(graph, h, k))
    BY <1>2, <1>5, PartlyIs
  <2>2. Bounded(Partly(graph, h, k))
    BY <1>2, <1>5, <1>6, PartlyBounded
  <2>. QED BY <1>7, <2>1, <2>2
<1>9. InIdle'
  BY <1>1, <1>2 DEF InIdle, Exact
<1>10. Typed'
  BY <1>1, <1>2, <1>8 DEF Typed
<1>11. AttentionExact'
  BY <1>1, ReadNothing
<1>. QED BY <1>1, <1>9, <1>10, <1>11 DEF SessionInv, InCall

LEMMA InvalidateKeeps ==
    ASSUME SessionInv, Invalidate
    PROVE  SessionInv'
<1>1. /\ call.op = "idle" /\ valid' = FALSE /\ checkpoint' = << >> /\ accepted' = << >>
      /\ ReadsNothing /\ UNCHANGED <<graph, call, disk, sound>>
  BY DEF Invalidate
<1>2. Typed /\ InIdle /\ (disk # NoPayload => Consistent(disk))
  BY <1>1, CallIs DEF SessionInv
<1>3. InIdle'
  BY <1>1, <1>2 DEF InIdle, Exact
<1>4. Typed'
  <2>1. << >> \in Seq(Token) /\ Len(<< >>) <= Ctx
    BY Sizes
  <2>. QED BY <1>1, <1>2, <2>1 DEF Typed
<1>5. AttentionExact'
  BY <1>1, ReadNothing
<1>. QED BY <1>1, <1>2, <1>3, <1>4, <1>5 DEF SessionInv, InCall

LEMMA RewindKeeps ==
    ASSUME SessionInv, NEW pos, Rewind(pos)
    PROVE  SessionInv'
<1> DEFINE t == SubSeq(checkpoint, 1, pos)
<1>1. /\ call.op = "idle" /\ pos \in 0 .. Len(checkpoint) - 1 /\ checkpoint' = t /\ sound' = FALSE
      /\ accepted' = << >> /\ ReadsNothing /\ UNCHANGED <<graph, valid, call, disk>>
  BY DEF Rewind
<1>2. Typed /\ InIdle /\ (disk # NoPayload => Consistent(disk))
  BY <1>1, CallIs DEF SessionInv
<1>3. checkpoint \in Seq(Token) /\ Len(checkpoint) <= Ctx /\ Len(checkpoint) \in Nat /\ pos \in 0 .. Len(checkpoint)
  BY <1>1, <1>2 DEF Typed
<1>4. t \in Seq(Token) /\ Len(t) = pos
  BY <1>3, PrefixTokens
<1> HIDE DEF t
<1>5. Len(t) <= Ctx /\ Len(t) \in Nat
  BY <1>3, <1>4, Sizes
<1>6. Chosen(<< >>, t) /\ Allowed(<< >>, t)
  BY <1>5, ChosenNothing
<1>7. InIdle'
  BY <1>1, <1>2, <1>6 DEF InIdle, Exact
<1>8. Typed'
  <2>1. << >> \in Seq(Token)
    OBVIOUS
  <2>. QED BY <1>1, <1>2, <1>4, <1>5, <2>1 DEF Typed
<1>9. AttentionExact'
  BY <1>1, ReadNothing
<1>. QED BY <1>1, <1>2, <1>7, <1>8, <1>9 DEF SessionInv, InCall

(***************************************************************************)
(* The session's invariant is inductive.                                   *)
(***************************************************************************)

LEMMA SessionStarts ==
    ASSUME SessionInit
    PROVE  SessionInv
<1>1. /\ graph = EmptyGraph /\ checkpoint = << >> /\ valid = FALSE
      /\ draft = NoDraft /\ accepted = << >> /\ call = Idle /\ disk = NoPayload
      /\ sound = TRUE /\ read = NoRead
  BY DEF SessionInit
<1>2. << >> \in Seq(Token) /\ Len(<< >>) = 0
  OBVIOUS
<1>3. Ctx \in Nat
  BY Sizes
<1>4. Typed
  <2>1. Shape(graph) /\ Bounded(graph)
    BY <1>1, EmptyGraphIs
  <2>2. checkpoint \in Seq(Token) /\ accepted \in Seq(Token) /\ Len(checkpoint) <= Ctx
    BY <1>1, <1>2, <1>3
  <2>3. valid \in BOOLEAN /\ sound \in BOOLEAN
    BY <1>1
  <2>. QED BY <2>1, <2>2, <2>3 DEF Typed
<1>5. InIdle
  BY <1>1 DEF InIdle, Exact
<1>6. AttentionExact
  BY <1>1 DEF AttentionExact
<1>. QED BY <1>1, <1>4, <1>5, <1>6 DEF SessionInv, InCall

LEMMA SessionRests ==
    ASSUME SessionInv, UNCHANGED vars
    PROVE  SessionInv'
<1>1. UNCHANGED <<graph, checkpoint, valid, logits, draft, accepted, call, disk, sound, read>>
  BY DEF vars
<1>2. Typed /\ InCall /\ (disk # NoPayload => Consistent(disk)) /\ AttentionExact
  BY DEF SessionInv
<1>3. Typed'
  BY <1>1, <1>2 DEF Typed
<1>4. AttentionExact'
  BY <1>1, <1>2 DEF AttentionExact
<1>5. Exact' <=> Exact
  BY <1>1 DEF Exact
<1>6. InIdle => InIdle'
  BY <1>1, <1>5, Zenon DEF InIdle
<1>7. InPrefill => InPrefill'
  BY <1>1, <1>5, Zenon DEF InPrefill
<1>8. InExtend => InExtend'
  BY <1>1, <1>5, Zenon DEF InExtend
<1>9. InDrafted => InDrafted'
  BY <1>1, Zenon DEF InDrafted, Speculating
<1>10. InExact => InExact'
  BY <1>1, Zenon DEF InExact, Speculating, Drafted
<1>11. InCompared => InCompared'
  BY <1>1, Zenon DEF InCompared, Speculating, Drafted
<1>12. InVerified => InVerified'
  BY <1>1, Zenon DEF InVerified, Speculating, Drafted
<1>13. InReplay => InReplay'
  BY <1>1, Zenon DEF InReplay, Speculating, Drafted
<1>14. InSequential => InSequential'
  BY <1>1, Zenon DEF InSequential
<1>15. InCall'
  BY <1>2, <1>6, <1>7, <1>8, <1>9, <1>10, <1>11, <1>12, <1>13, <1>14, Zenon DEF InCall
<1>. QED BY <1>1, <1>2, <1>3, <1>4, <1>15 DEF SessionInv

LEMMA SessionKeeps ==
    ASSUME SessionInv, SessionNext
    PROVE  SessionInv'
<1>1. CASE Work
  <2>1. ASSUME NEW prep, VerifyBatch(prep) PROVE SessionInv'
    BY <2>1, VerifyBatchKeeps
  <2>. QED BY <1>1, <2>1, PrefillChunkKeeps, PrefillDoneKeeps, ExtendKeeps, ExtendDoneKeeps, MarginSkipKeeps,
              ExactOneKeeps, ExactTwoKeeps, ExactCommitKeeps, CommitAllKeeps, CommitPrefix1Keeps, RollbackKeeps,
              ReplayKeeps, StepKeeps, StepsDoneKeeps, Zenon DEF Work
<1>2. CASE Failing
  <2>1. ASSUME NEW prep, VerifyBatchFails(prep) PROVE SessionInv'
    BY <2>1, VerifyBatchFailsKeeps
  <2>. QED BY <1>2, <2>1, PrefillFailKeeps, ExtendFailKeeps, ExactFailsKeeps, CommitFailsKeeps, ReplayFailsKeeps,
              Zenon DEF Failing
<1>3. CASE Calls
  <2>1. ASSUME NEW prompt \in Transcripts, NEW notify \in BOOLEAN, Sync(prompt, notify) PROVE SessionInv'
    BY <2>1, SyncKeeps
  <2>2. ASSUME NEW tok \in Token, Eval(tok) \/ EvalFail(tok) PROVE SessionInv'
    BY <2>2, EvalKeeps, EvalFailKeeps
  <2>3. ASSUME NEW tok \in Token, NEW drafts, Speculate(tok, drafts) PROVE SessionInv'
    BY <2>3, SpeculateKeeps
  <2>4. ASSUME NEW pos, Rewind(pos) PROVE SessionInv'
    BY <2>4, RewindKeeps
  <2>. QED BY <1>3, <2>1, <2>2, <2>3, <2>4, SaveKeeps, LoadKeeps, LoadTornKeeps, InvalidateKeeps, Zenon DEF Calls
<1>. QED BY <1>1, <1>2, <1>3 DEF SessionNext

\* Every call of the API and every step of one, whole, failed or torn, keeps
\* the session's invariant.
THEOREM SessionInvariant == Spec => []SessionInv
<1>1. Init => SessionInv
  BY SessionStarts DEF Init
<1>2. SessionInv /\ [Next]_allVars => SessionInv'
  <2> SUFFICES ASSUME SessionInv, [Next]_allVars PROVE SessionInv'
    OBVIOUS
  <2>1. CASE SessionNext
    BY <2>1, SessionKeeps
  <2>2. CASE UNCHANGED vars
    BY <2>2, SessionRests
  <2>3. SessionNext \/ UNCHANGED vars
    BY DEF Next, allVars
  <2>. QED BY <2>1, <2>2, <2>3
<1>. QED BY <1>1, <1>2, PTL DEF Spec

LEMMA SessionMeans ==
    ASSUME SessionInv
    PROVE  SessionExact /\ AttentionExact /\ SpeculationExact /\ PayloadExact
<1>1. Typed /\ InCall /\ (disk # NoPayload => Consistent(disk)) /\ AttentionExact
  BY DEF SessionInv
<1>2. IsSeq(checkpoint) /\ Len(checkpoint) \in 0 .. Len(checkpoint) /\ SubSeq(checkpoint, 1, Len(checkpoint)) = checkpoint
  BY <1>1, SeqIs, PrefixFacts DEF Typed, IsSeq
<1>3. SessionExact
  <2> SUFFICES ASSUME CallerRuns, valid, sound
               PROVE  GraphMatches(graph, checkpoint) /\ logits = checkpoint /\ draft \subseteq {checkpoint}
    BY DEF SessionExact
  <2>1. Exact
    BY <1>1, CallIs DEF CallerRuns, InIdle, InPrefill
  <2>2. Held(graph, checkpoint, Len(checkpoint)) /\ logits = checkpoint /\ draft \subseteq {checkpoint}
    BY <2>1 DEF Exact
  <2>3. GraphMatches(graph, SubSeq(checkpoint, 1, Len(checkpoint)))
    BY <1>2, <2>2, HeldIs
  <2>. QED BY <1>2, <2>2, <2>3
<1>4. SpeculationExact
  <2> DEFINE n == Len(accepted)
             from == Len(checkpoint) - n
             before(i) == SubSeq(checkpoint, 1, from + i - 1)
  <2> SUFFICES ASSUME call.op = "idle", valid, accepted # << >>
               PROVE  /\ IsSuffix(accepted, checkpoint)
                      /\ n > 1 => accepted[2] = Greedy(before(2))
                      /\ sound => \A i \in 2..n : accepted[i] \in Emitted(before(2), before(i))
    BY DEF SpeculationExact
  <2>1. Chosen(accepted, checkpoint) /\ (sound => Allowed(accepted, checkpoint))
    BY <1>1, CallIs DEF InIdle
  <2>2. /\ n <= Len(checkpoint)
        /\ \A i \in 1 .. n : accepted[i] = checkpoint[from + i]
        /\ n > 1 => accepted[2] = Greedy(Root(accepted, checkpoint))
    BY <2>1 DEF Chosen
  <2>3. IsSeq(accepted)
    BY <1>1, SeqIs DEF Typed
  <2>4. IsSuffix(accepted, checkpoint)
    BY <1>2, <2>2, <2>3, SuffixIs
  <2>5. Root(accepted, checkpoint) = before(2)
    <3>1. Len(checkpoint) \in Nat /\ n \in Nat
      BY <1>2, <2>3 DEF IsSeq
    <3>2. from + 2 - 1 = Len(checkpoint) - n + 1
      BY <3>1
    <3>. QED BY <3>2 DEF Root
  <2>6. sound => \A i \in 2 .. n : accepted[i] \in Emitted(before(2), before(i))
    BY <2>1, <2>5, Zenon DEF Allowed
  <2>. QED BY <2>2, <2>4, <2>5, <2>6
<1>5. PayloadExact
  <2> SUFFICES ASSUME disk # NoPayload
               PROVE  /\ disk.logits = disk.tokens
                      /\ \A l \in Layer : \A q \in WindowOf(Len(disk.tokens) - 1) :
                            disk.rows[l][q] = RowAt(disk.tokens, q)
                      /\ \A ln \in Lane : CacheMatches(LaneRatio(ln), disk.lane[ln], disk.tokens)
    BY DEF PayloadExact
  <2> DEFINE t == disk.tokens
             n == Len(t)
  <2>1. Consistent(disk)
    BY <1>1
  <2>2. /\ t \in Seq(Token) /\ disk.logits = t
        /\ \A l \in Layer : \A q \in WindowOf(n - 1) : disk.rows[l][q] = RowAt(t, q)
        /\ \A ln \in Lane : Matches(LaneRatio(ln), disk.lane[ln], t, n)
    BY <2>1 DEF Consistent
  <2>3. IsSeq(t) /\ n \in 0 .. n /\ SubSeq(t, 1, n) = t
    <3>1. IsSeq(t)
      BY <2>2, SeqIs
    <3> HIDE DEF t
    <3>2. SubSeq(t, 1, n) = t
      BY <3>1, PrefixFacts
    <3>3. n \in Nat
      BY <3>1 DEF IsSeq
    <3> HIDE DEF n
    <3>. QED BY <3>1, <3>2, <3>3
  <2>4. ASSUME NEW ln \in Lane PROVE CacheMatches(LaneRatio(ln), disk.lane[ln], t)
    <3>1. LaneRatio(ln) \in Nat \ {0}
      BY LaneSizes
    <3>2. Matches(LaneRatio(ln), disk.lane[ln], t, n)
      BY <2>2
    <3> HIDE DEF t, n
    <3>3. CacheMatches(LaneRatio(ln), disk.lane[ln], SubSeq(t, 1, n))
      BY <2>3, <3>1, <3>2, MatchesIs
    <3>. QED BY <2>3, <3>3
  <2>. QED BY <2>2, <2>4
<1>. QED BY <1>1, <1>3, <1>4, <1>5

(***************************************************************************)
(* The memory of a generation on the CPU.                                  *)
(***************************************************************************)

LEMMA TailIs ==
    ASSUME NEW s, IsSeq(s), Len(s) >= 1
    PROVE  /\ IsSeq(Tail(s)) /\ Len(Tail(s)) = Len(s) - 1
           /\ \A i \in 1 .. Len(s) - 1 : Tail(s)[i] = s[i + 1]
<1>1. s \in Seq({s[i] : i \in 1 .. Len(s)}) /\ Len(s) \in Nat
  BY HasValues DEF IsSeq
<1> DEFINE S == {s[i] : i \in 1 .. Len(s)}
<1> HIDE DEF S
<1>2. /\ Tail(s) \in Seq(S) /\ Len(Tail(s)) = Len(s) - 1
      /\ \A i \in 1 .. Len(s) - 1 : Tail(s)[i] = s[i + 1]
  BY <1>1 DEF S
<1>3. IsSeq(Tail(s))
  BY <1>2, SeqIs
<1>. QED BY <1>2, <1>3

\* The rows kept after n tokens.
LEMMA KeptIs ==
    ASSUME NEW t, NEW n \in Nat
    PROVE  /\ RawKept \in Nat \ {0} /\ Smaller(n, RawKept) \in 0 .. n
           /\ IsSeq(KeptRows(t, n)) /\ Len(KeptRows(t, n)) = Smaller(n, RawKept)
           /\ \A i \in 1 .. Smaller(n, RawKept) : KeptRows(t, n)[i] = RowAt(t, n - Smaller(n, RawKept) + i - 1)
<1> DEFINE k == Smaller(n, RawKept)
           f == KeptRows(t, n)
           B(i) == RowAt(t, n - k + i - 1)
<1>1. RawKept \in Nat \ {0} /\ k \in 0 .. n
  BY Sizes DEF RawKept, Smaller
<1>2. f = [i \in 1 .. k |-> B(i)]
  BY DEF KeptRows
<1> HIDE DEF f, B, k
<1>3. f = [i \in 1 .. k |-> f[i]] /\ \A i \in 1 .. k : f[i] = B(i)
  BY <1>2
<1>4. IsSeq(f) /\ Len(f) = k
  BY <1>1, <1>3, Listed
<1>. QED BY <1>1, <1>3, <1>4 DEF f, B, k

\* The window slides.
LEMMA PushIs ==
    ASSUME NEW t, NEW p \in Nat
    PROVE  PushRaw(KeptRows(t, p), RowAt(t, p)) = KeptRows(t, p + 1)
<1> DEFINE K == RawKept
           s == KeptRows(t, p)
           e == KeptRows(t, p + 1)
           x == RowAt(t, p)
           k == Smaller(p, K)
           j == Smaller(p + 1, K)
<1>1. /\ K \in Nat \ {0} /\ IsSeq(s) /\ Len(s) = k
      /\ \A i \in 1 .. k : s[i] = RowAt(t, p - k + i - 1)
  BY KeptIs
<1>2. /\ IsSeq(e) /\ Len(e) = j /\ \A i \in 1 .. j : e[i] = RowAt(t, (p + 1) - j + i - 1)
  <2>1. p + 1 \in Nat
    OBVIOUS
  <2>. QED BY <2>1, KeptIs
<1>3. CASE p < K
  <2>1. k = p /\ j = p + 1
    BY <1>1, <1>3 DEF Smaller
  <2> DEFINE a == Append(s, x)
  <2> HIDE DEF k, j, K, s, e
  <2>2. IsSeq(a) /\ Len(a) = p + 1 /\ (\A i \in 1 .. p : a[i] = s[i]) /\ a[p + 1] = x
    BY <1>1, <2>1, AppendIs
  <2> HIDE DEF a
  <2>3. ASSUME NEW i \in 1 .. p + 1 PROVE a[i] = e[i]
    <3>1. e[i] = RowAt(t, i - 1)
      <4>1. (p + 1) - (p + 1) + i - 1 = i - 1
        OBVIOUS
      <4>. QED BY <1>2, <2>1, <4>1
    <3>2. CASE i = p + 1
      <4>1. i - 1 = p
        BY <3>2
      <4>. QED BY <2>2, <3>1, <3>2, <4>1 DEF x
    <3>3. CASE i # p + 1
      <4>1. i \in 1 .. p /\ p - p + i - 1 = i - 1
        BY <3>3
      <4>2. a[i] = s[i] /\ s[i] = RowAt(t, p - p + i - 1)
        BY <1>1, <2>1, <2>2, <4>1
      <4>. QED BY <3>1, <4>1, <4>2
    <3>. QED BY <3>2, <3>3
  <2>4. a = e
    BY <1>2, <2>1, <2>2, <2>3, SameSeq
  <2>. QED BY <1>1, <1>3, <2>1, <2>4 DEF PushRaw, a, s, e, x, K
<1>4. CASE ~(p < K)
  <2>1. k = K /\ j = K
    BY <1>1, <1>4 DEF Smaller
  <2> DEFINE u == Tail(s)
             a == Append(u, x)
  <2> HIDE DEF k, j, K, s, e
  <2>2. IsSeq(u) /\ Len(u) = K - 1 /\ \A i \in 1 .. K - 1 : u[i] = s[i + 1]
    BY <1>1, <2>1, TailIs
  <2> HIDE DEF u
  <2>3. IsSeq(a) /\ Len(a) = K /\ (\A i \in 1 .. K - 1 : a[i] = u[i]) /\ a[K] = x
    <3>1. /\ IsSeq(a) /\ Len(a) = Len(u) + 1 /\ (\A i \in 1 .. Len(u) : a[i] = u[i]) /\ a[Len(u) + 1] = x
      BY <2>2, AppendIs
    <3> HIDE DEF a, x
    <3>2. Len(u) + 1 = K
      BY <1>1, <2>2
    <3>. QED BY <2>2, <3>1, <3>2
  <2> HIDE DEF a
  <2>4. ASSUME NEW i \in 1 .. K PROVE a[i] = e[i]
    <3>1. e[i] = RowAt(t, (p + 1) - K + i - 1)
      BY <1>2, <2>1
    <3>2. CASE i = K
      <4>1. (p + 1) - K + i - 1 = p
        BY <1>1, <3>2
      <4>. QED BY <2>3, <3>1, <3>2, <4>1 DEF x
    <3>3. CASE i # K
      <4>1. i \in 1 .. K - 1 /\ i + 1 \in 1 .. K /\ p - K + (i + 1) - 1 = (p + 1) - K + i - 1
        BY <1>1, <3>3
      <4>2. a[i] = u[i] /\ u[i] = s[i + 1]
        BY <2>2, <2>3, <4>1
      <4>3. s[i + 1] = RowAt(t, p - K + (i + 1) - 1)
        BY <1>1, <2>1, <4>1
      <4>. QED BY <3>1, <4>1, <4>2, <4>3
    <3>. QED BY <3>2, <3>3
  <2>5. a = e
    BY <1>2, <2>1, <2>3, <2>4, SameSeq
  <2>6. ~(Len(s) < K)
    BY <1>1, <2>1
  <2>. QED BY <2>5, <2>6 DEF PushRaw, a, u, s, e, x, K
<1>. QED BY <1>3, <1>4

\* A token through the layers.
LEMMA CpuTokenHolds ==
    ASSUME NEW m, NEW t, IsSeq(t), NEW p \in Nat, p < Len(t), CpuHolds(m, t, p)
    PROVE  CpuHolds(CpuToken(m, t, p), t, p + 1)
<1> DEFINE h == CpuToken(m, t, p)
           R(l) == PushRaw(m.raw[l], RowAt(t, p))
           L(ln) == Compress(LaneRatio(ln), m.lane[ln], t, p)
<1>1. h.raw = [l \in Layer |-> R(l)] /\ h.lane = [ln \in Lane |-> L(ln)]
  BY DEF CpuToken
<1>2. /\ m.raw = [l \in Layer |-> KeptRows(t, p)]
      /\ \A ln \in Lane : LaneShape(LaneRatio(ln), m.lane[ln]) /\ Matches(LaneRatio(ln), m.lane[ln], t, p)
  BY DEF CpuHolds
<1>3. \A l \in Layer : R(l) = KeptRows(t, p + 1)
  BY <1>2, PushIs
<1>4. h.raw = [l \in Layer |-> KeptRows(t, p + 1)]
  <2> HIDE DEF h, R
  <2>. QED BY <1>1, <1>3
<1>5. ASSUME NEW ln \in Lane PROVE LaneShape(LaneRatio(ln), L(ln)) /\ Matches(LaneRatio(ln), L(ln), t, p + 1)
  <2>1. LaneRatio(ln) \in Nat \ {0}
    BY LaneSizes
  <2>2. LaneShape(LaneRatio(ln), m.lane[ln]) /\ Matches(LaneRatio(ln), m.lane[ln], t, p)
    BY <1>2
  <2>. QED BY <2>1, <2>2, CompressShape, CompressMatches
<1>6. \A ln \in Lane : h.lane[ln] = L(ln)
  <2> HIDE DEF h, L
  <2>. QED BY <1>1
<1> HIDE DEF h, L
<1>7. \A ln \in Lane : LaneShape(LaneRatio(ln), h.lane[ln]) /\ Matches(LaneRatio(ln), h.lane[ln], t, p + 1)
  BY <1>5, <1>6
<1>8. CpuHolds(h, t, p + 1)
  BY <1>4, <1>7, Zenon DEF CpuHolds
<1>. QED BY <1>8 DEF h

\* What a position inside the context reads when the cache holds the tokens up
\* to it, itself included.
LEMMA CpuReads ==
    ASSUME NEW m, NEW t, IsSeq(t), NEW p \in Nat, p < Len(t), p < Ctx, CpuHolds(m, t, p + 1),
           NEW parallel
    PROVE  CpuReadsExactly(m, t, p, parallel)
<1> DEFINE k == Smaller(p + 1, RawKept)
           W == {RowAt(t, q) : q \in WindowOf(p)}
<1>1. /\ m.raw = [l \in Layer |-> KeptRows(t, p + 1)]
      /\ \A ln \in Lane : Matches(LaneRatio(ln), m.lane[ln], t, p + 1)
  BY DEF CpuHolds
<1>2. Win \in Nat \ {0} /\ Ctx \in Nat \ {0}
  BY Sizes
<1>3. WindowOf(p) = p + 1 - k .. p
  BY <1>2 DEF WindowOf, RawKept, Smaller
<1>4. /\ IsSeq(KeptRows(t, p + 1)) /\ Len(KeptRows(t, p + 1)) = k /\ k \in 0 .. p + 1
      /\ \A i \in 1 .. k : KeptRows(t, p + 1)[i] = RowAt(t, p + 1 - k + i - 1)
  <2> DEFINE n == p + 1
             K == Smaller(n, RawKept)
  <2>1. n \in Nat
    OBVIOUS
  <2> HIDE DEF n
  <2>2. /\ IsSeq(KeptRows(t, n)) /\ Len(KeptRows(t, n)) = K /\ K \in 0 .. n
        /\ \A i \in 1 .. K : KeptRows(t, n)[i] = RowAt(t, n - K + i - 1)
    BY <2>1, KeptIs
  <2>. QED BY <2>2 DEF n
<1>5. Range(KeptRows(t, p + 1)) = W
  <2> DEFINE f == KeptRows(t, p + 1)
  <2>1. DOMAIN f = 1 .. k
    BY <1>4 DEF IsSeq
  <2> HIDE DEF k
  <2>2. ASSUME NEW i \in 1 .. k PROVE f[i] \in W
    <3>1. p + 1 - k + i - 1 \in p + 1 - k .. p
      BY <1>4
    <3>. QED BY <1>3, <1>4, <3>1
  <2>3. ASSUME NEW q \in WindowOf(p) PROVE \E i \in 1 .. k : f[i] = RowAt(t, q)
    <3> DEFINE i == q - (p + 1 - k) + 1
    <3>1. i \in 1 .. k /\ p + 1 - k + i - 1 = q
      BY <1>3, <1>4
    <3> HIDE DEF i
    <3>. QED BY <1>4, <3>1
  <2> HIDE DEF f
  <2>4. Range(f) = {f[i] : i \in 1 .. k}
    BY <2>1 DEF Range
  <2>. QED BY <2>2, <2>3, <2>4 DEF f
<1>6. ASSUME NEW l \in Layer PROVE CpuWindow(m, t, p, parallel, l) = W
  BY <1>1, <1>3, <1>5 DEF CpuWindow
<1>7. ASSUME NEW ln \in Lane PROVE m.lane[ln].rows = Blocks(LaneRatio(ln), SubSeq(t, 1, p + 1))
  <2>1. LaneRatio(ln) \in Nat \ {0} /\ p + 1 \in 0 .. Len(t)
    BY LaneSizes DEF IsSeq
  <2>2. Matches(LaneRatio(ln), m.lane[ln], t, p + 1)
    BY <1>1
  <2>. QED BY <2>1, <2>2, BlocksIs DEF Matches
<1>. QED BY <1>6, <1>7 DEF CpuReadsExactly

LEMMA EmptyCpuIs ==
    ASSUME NEW t
    PROVE  CpuHolds(EmptyCpu, t, 0)
<1> DEFINE m == EmptyCpu
           C(ln) == EmptyCache(LaneRatio(ln))
<1>1. m.raw = [l \in Layer |-> << >>] /\ m.lane = [ln \in Lane |-> C(ln)]
  BY DEF EmptyCpu
<1> HIDE DEF m, C
<1>2. KeptRows(t, 0) = << >>
  <2>1. IsSeq(KeptRows(t, 0)) /\ Len(KeptRows(t, 0)) = 0
    BY KeptIs
  <2>2. IsSeq(<< >>) /\ Len(<< >>) = 0
    BY DEF IsSeq
  <2>. QED BY <2>1, <2>2, SameSeq
<1>3. m.raw = [l \in Layer |-> KeptRows(t, 0)]
  BY <1>1, <1>2
<1>4. ASSUME NEW ln \in Lane PROVE LaneShape(LaneRatio(ln), m.lane[ln]) /\ Matches(LaneRatio(ln), m.lane[ln], t, 0)
  <2>1. m.lane[ln] = C(ln)
    BY <1>1
  <2>2. LaneRatio(ln) \in Nat \ {0}
    BY LaneSizes
  <2>. QED BY <2>1, <2>2, EmptyLane DEF C
<1>5. CpuHolds(m, t, 0)
  BY <1>3, <1>4, Zenon DEF CpuHolds
<1>. QED BY <1>5 DEF m

\* The cache holds as much of a transcript that goes on.
LEMMA CpuHoldsPrefix ==
    ASSUME NEW m, NEW s, IsSeq(s), NEW d, IsSeq(d), NEW n \in 0 .. Len(s)
    PROVE  CpuHolds(m, s \o d, n) <=> CpuHolds(m, s, n)
<1> DEFINE t == s \o d
<1>1. /\ IsSeq(t) /\ Len(t) = Len(s) + Len(d) /\ Len(s) \in Nat /\ Len(d) \in Nat /\ n \in Nat
      /\ SubSeq(t, 1, Len(s)) = s
  <2>1. IsSeq(t) /\ Len(t) = Len(s) + Len(d) /\ Len(s) \in Nat /\ Len(d) \in Nat
    BY ConcatIs DEF IsSeq
  <2>2. 0 \in 0 .. Len(d)
    BY <2>1
  <2>. QED BY <2>1, <2>2, PrefixOfConcat
<1> HIDE DEF t
<1>2. n \in 0 .. Len(t) /\ Len(s) \in 0 .. Len(t)
  BY <1>1
<1>3. \A m1 \in 0 .. Len(s) : SubSeq(t, 1, m1) = SubSeq(s, 1, m1)
  BY <1>1, <1>2, PrefixFacts
<1>4. ASSUME NEW q \in 0 .. n - 1 PROVE RowAt(t, q) = RowAt(s, q)
  <2>1. q + 1 \in 0 .. Len(s)
    BY <1>1
  <2>. QED BY <1>3, <2>1 DEF RowAt
<1>5. KeptRows(t, n) = KeptRows(s, n)
  <2> DEFINE k == Smaller(n, RawKept)
             f == KeptRows(t, n)
             g == KeptRows(s, n)
  <2>1. /\ IsSeq(f) /\ Len(f) = k /\ \A i \in 1 .. k : f[i] = RowAt(t, n - k + i - 1)
    BY <1>1, KeptIs
  <2>2. /\ IsSeq(g) /\ Len(g) = k /\ \A i \in 1 .. k : g[i] = RowAt(s, n - k + i - 1)
    BY <1>1, KeptIs
  <2>3. k \in 0 .. n
    BY <1>1, KeptIs
  <2> HIDE DEF f, g, k
  <2>4. ASSUME NEW i \in 1 .. k PROVE f[i] = g[i]
    <3>1. n - k + i - 1 \in 0 .. n - 1
      BY <1>1, <2>3
    <3>. QED BY <1>4, <2>1, <2>2, <3>1
  <2>5. f = g
    BY <2>1, <2>2, <2>4, SameSeq
  <2>. QED BY <2>5 DEF f, g
<1>6. ASSUME NEW ln \in Lane PROVE Matches(LaneRatio(ln), m.lane[ln], t, n) <=> Matches(LaneRatio(ln), m.lane[ln], s, n)
  <2>1. LaneRatio(ln) \in Nat \ {0}
    BY LaneSizes
  <2>2. CacheMatches(LaneRatio(ln), m.lane[ln], SubSeq(t, 1, n)) <=> Matches(LaneRatio(ln), m.lane[ln], t, n)
    BY <1>1, <1>2, <2>1, MatchesIs
  <2>3. CacheMatches(LaneRatio(ln), m.lane[ln], SubSeq(s, 1, n)) <=> Matches(LaneRatio(ln), m.lane[ln], s, n)
    BY <2>1, MatchesIs
  <2>. QED BY <1>3, <2>2, <2>3
<1>7. CpuHolds(m, t, n) <=> CpuHolds(m, s, n)
  BY <1>5, <1>6 DEF CpuHolds
<1>. QED BY <1>7 DEF t

(***************************************************************************)
(* The steps of a generation, one by one.                                  *)
(***************************************************************************)

LEMMA JobIs ==
    ASSUME NEW at, NEW backend, NEW prompt, NEW budget, NEW emitted, NEW pos, NEW parallel, NEW rd, NEW garbled,
           NEW j, j = [at |-> at, backend |-> backend, prompt |-> prompt, budget |-> budget, emitted |-> emitted,
                       pos |-> pos, parallel |-> parallel, read |-> rd, garbled |-> garbled]
    PROVE  /\ j.at = at /\ j.backend = backend /\ j.prompt = prompt /\ j.budget = budget /\ j.emitted = emitted
           /\ j.pos = pos /\ j.parallel = parallel /\ j.read = rd /\ j.garbled = garbled
  OBVIOUS

\* A running generation has read what it should.
LEMMA RunningIs ==
    ASSUME JobTyped, Running
    PROVE  Garbled = FALSE /\ IsSeq(job.prompt) /\ IsSeq(Fed) /\ Len(Fed) = Len(job.prompt) + Len(job.emitted)
<1>1. job.garbled = FALSE /\ ReadExactly
  BY DEF Running
<1>2. Garbled = FALSE
  BY <1>1, Zenon DEF Garbled
<1>3. IsSeq(job.prompt) /\ IsSeq(job.emitted)
  BY SeqIs DEF JobTyped
<1>. QED BY <1>2, <1>3, ConcatIs DEF Fed

LEMMA FedPrompt ==
    ASSUME JobTyped, job.emitted = << >>
    PROVE  Fed = job.prompt
<1>1. job.prompt \in Seq(Token)
  BY DEF JobTyped
<1> DEFINE t == job.prompt
<1>2. t \in Seq(Token)
  BY <1>1
<1> HIDE DEF t
<1>3. t \o << >> = t
  BY <1>2
<1>. QED BY <1>3 DEF Fed, t

LEMMA GenStarts ==
    ASSUME GenInit
    PROVE  GenInv
<1>1. job = [at |-> "done", backend |-> "cpu", prompt |-> << >>, budget |-> 0, emitted |-> << >>,
             pos |-> 0, parallel |-> FALSE, read |-> NothingRead, garbled |-> FALSE]
  BY DEF GenInit
<1>2. /\ job.at = "done" /\ job.backend = "cpu" /\ job.prompt = << >> /\ job.budget = 0 /\ job.emitted = << >>
      /\ job.pos = 0 /\ job.parallel = FALSE /\ job.read = NothingRead /\ job.garbled = FALSE
  BY <1>1
<1>3. job = [at |-> job.at, backend |-> job.backend, prompt |-> job.prompt, budget |-> job.budget,
             emitted |-> job.emitted, pos |-> job.pos, parallel |-> job.parallel, read |-> job.read,
             garbled |-> job.garbled]
  BY <1>1, <1>2, Zenon
<1>4. IsSeq(<< >>)
  BY DEF IsSeq
<1>5. << >> \in Seq(Token) /\ 0 \in Nat
  OBVIOUS
<1>6. JobTyped
  BY <1>2, <1>3, <1>4, <1>5 DEF JobTyped, JobRecord
<1>. QED BY <1>2, <1>6 DEF GenInv

LEMMA GenRests ==
    ASSUME GenInv, UNCHANGED genVars
    PROVE  GenInv'
  BY DEF GenInv, genVars, JobTyped, JobRecord, Running, ReadExactly, Fed

LEMMA GenerateKeeps ==
    ASSUME GenInv, NEW backend \in {"cpu", "metal"}, NEW prompt \in Prompts, NEW budget \in Budgets,
           Generate(backend, prompt, budget)
    PROVE  GenInv'
<1>1. prompt \in Seq(Token) /\ budget \in Nat
  BY GenerateAssumption
<1>2. mem' = IF backend = "cpu" THEN EmptyCpu ELSE EmptyGraph
  BY DEF Generate
<1>3. PICK parallel : job' = [at |-> IF Len(prompt) \in 1..Ctx THEN "prefill" ELSE "failed", backend |-> backend,
                              prompt |-> prompt, budget |-> budget, emitted |-> << >>,
                              pos |-> 0, parallel |-> parallel, read |-> NothingRead, garbled |-> FALSE]
  BY DEF Generate
<1>4. /\ job'.at = (IF Len(prompt) \in 1..Ctx THEN "prefill" ELSE "failed")
      /\ job'.backend = backend /\ job'.prompt = prompt /\ job'.budget = budget /\ job'.emitted = << >>
      /\ job'.pos = 0 /\ job'.parallel = parallel /\ job'.read = NothingRead /\ job'.garbled = FALSE
  BY <1>3
<1>5. JobTyped'
  <2>1. job' = [at |-> job'.at, backend |-> job'.backend, prompt |-> job'.prompt, budget |-> job'.budget,
                emitted |-> job'.emitted, pos |-> job'.pos, parallel |-> job'.parallel, read |-> job'.read,
                garbled |-> job'.garbled]
    BY <1>3, <1>4, Zenon
  <2>2. IsSeq(<< >>) /\ 0 \in Nat
    BY DEF IsSeq
  <2>3. job'.at \in {"prefill", "failed"}
    BY <1>4
  <2>. QED BY <1>1, <1>4, <2>1, <2>2, <2>3 DEF JobTyped, JobRecord
<1>6. ASSUME job'.at = "prefill" PROVE Running'
  <2>1. Len(prompt) \in 1..Ctx
    BY <1>4, <1>6
  <2>2. ReadExactly'
    BY <1>4 DEF ReadExactly, NothingRead
  <2>3. \A t : MemHolds(backend, mem', t, 0)
    BY <1>2, EmptyCpuIs, EmptyGraphIs DEF MemHolds
  <2>4. MemHolds(job.backend, mem, Fed, job.pos)'
    BY <1>4, <2>3, Zenon
  <2>. QED BY <1>4, <2>1, <2>2, <2>4 DEF Running
<1>7. job'.at \in {"prefill", "failed"}
  BY <1>4
<1>8. job'.pos <= Len(job'.prompt)
  BY <1>1, <1>4
<1>. QED BY <1>4, <1>5, <1>6, <1>7, <1>8 DEF GenInv

LEMMA JobAfter ==
    ASSUME NEW j, JobRecord(j), NEW q, NEW r, NEW g
    PROVE  [j EXCEPT !.pos = q, !.read = r, !.garbled = g] =
               [at |-> j.at, backend |-> j.backend, prompt |-> j.prompt, budget |-> j.budget,
                emitted |-> j.emitted, pos |-> q, parallel |-> j.parallel, read |-> r, garbled |-> g]
<1> DEFINE j1 == [j EXCEPT !.pos = q]
           j2 == [j1 EXCEPT !.read = r]
           j3 == [j2 EXCEPT !.garbled = g]
<1>1. j1 = [at |-> j.at, backend |-> j.backend, prompt |-> j.prompt, budget |-> j.budget, emitted |-> j.emitted,
            pos |-> q, parallel |-> j.parallel, read |-> j.read, garbled |-> j.garbled]
  BY DEF JobRecord
<1> HIDE DEF j1
<1>2. j2 = [at |-> j.at, backend |-> j.backend, prompt |-> j.prompt, budget |-> j.budget, emitted |-> j.emitted,
            pos |-> q, parallel |-> j.parallel, read |-> r, garbled |-> j.garbled]
  BY <1>1
<1> HIDE DEF j2
<1>3. j3 = [at |-> j.at, backend |-> j.backend, prompt |-> j.prompt, budget |-> j.budget, emitted |-> j.emitted,
            pos |-> q, parallel |-> j.parallel, read |-> r, garbled |-> g]
  BY <1>2
<1>4. [j EXCEPT !.pos = q, !.read = r, !.garbled = g] = j3
  BY Zenon DEF j1, j2
<1>. QED BY <1>3, <1>4, Zenon

LEMMA GarbledNot ==
    ASSUME JobTyped, Running, NEW q, NEW r, job' = [job EXCEPT !.pos = q, !.read = r, !.garbled = Garbled]
    PROVE  job' = [at |-> job.at, backend |-> job.backend, prompt |-> job.prompt, budget |-> job.budget,
                   emitted |-> job.emitted, pos |-> q, parallel |-> job.parallel, read |-> r, garbled |-> FALSE]
<1>1. Garbled = FALSE
  BY RunningIs
<1>2. job' = [job EXCEPT !.pos = q, !.read = r, !.garbled = FALSE]
  BY <1>1, Zenon
<1>3. JobRecord(job)
  BY DEF JobTyped
<1>4. [job EXCEPT !.pos = q, !.read = r, !.garbled = FALSE] =
        [at |-> job.at, backend |-> job.backend, prompt |-> job.prompt, budget |-> job.budget,
         emitted |-> job.emitted, pos |-> q, parallel |-> job.parallel, read |-> r, garbled |-> FALSE]
  BY <1>3, JobAfter, Zenon
<1>. QED BY <1>2, <1>4, Zenon

\* A step of the prefill: n tokens of the prompt, read as they should be.
LEMMA PrefillStep ==
    ASSUME GenInv, job.at = "prefill", NEW n \in Nat, job.pos + n <= Len(job.prompt),
           NEW r, r.at = job.pos, r.n = n,
           job' = [at |-> job.at, backend |-> job.backend, prompt |-> job.prompt, budget |-> job.budget,
                   emitted |-> job.emitted, pos |-> job.pos + n, parallel |-> job.parallel,
                   read |-> r, garbled |-> FALSE],
           MemHolds(job.backend, mem', job.prompt, job.pos + n),
           IF job.backend = "cpu" THEN n = 1 /\ \A parallel : CpuReadsExactly(mem', job.prompt, job.pos, parallel)
           ELSE Misread(mem', job.prompt, job.pos, n) = {}
    PROVE  GenInv'
<1>1. JobTyped /\ Running /\ job.emitted = << >> /\ job.pos <= Len(job.prompt)
  BY DEF GenInv
<1>2. Fed = job.prompt
  BY <1>1, FedPrompt
<1>4. job' = [at |-> job.at, backend |-> job.backend, prompt |-> job.prompt, budget |-> job.budget,
              emitted |-> job.emitted, pos |-> job.pos + n, parallel |-> job.parallel,
              read |-> r, garbled |-> FALSE]
  OBVIOUS
<1>5. /\ job'.at = job.at /\ job'.backend = job.backend /\ job'.prompt = job.prompt /\ job'.budget = job.budget
      /\ job'.emitted = job.emitted /\ job'.pos = job.pos + n /\ job'.parallel = job.parallel
      /\ job'.read = r /\ job'.garbled = FALSE
  BY <1>4, JobIs
<1>6. job'.read.at = job.pos /\ job'.read.n = n
  BY <1>5
<1>7. JobTyped'
  <2>1. job' = [at |-> job'.at, backend |-> job'.backend, prompt |-> job'.prompt, budget |-> job'.budget,
                emitted |-> job'.emitted, pos |-> job'.pos, parallel |-> job'.parallel, read |-> job'.read,
                garbled |-> job'.garbled]
    BY <1>4, <1>5, Zenon
  <2>2. job.pos + n \in Nat
    BY <1>1 DEF JobTyped
  <2>. QED BY <1>1, <1>5, <2>1, <2>2 DEF JobTyped, JobRecord
<1>8. Fed' = job.prompt
  BY <1>2, <1>5 DEF Fed
<1>9. ReadExactly'
  BY <1>5, <1>6, <1>8 DEF ReadExactly
<1>10. Running'
  <2>1. MemHolds(job.backend, mem, Fed, job.pos)'
    BY <1>5, <1>8, Zenon
  <2>2. Len(job'.prompt) \in 1 .. Ctx
    BY <1>1, <1>5 DEF Running
  <2>. QED BY <1>5, <1>9, <2>1, <2>2 DEF Running
<1>. QED BY <1>1, <1>5, <1>7, <1>10 DEF GenInv

LEMMA PrefillCpuKeeps ==
    ASSUME GenInv, PrefillCpu
    PROVE  GenInv'
<1> DEFINE t == job.prompt
           p == job.pos
<1>1. /\ job.at = "prefill" /\ job.backend = "cpu" /\ p < Len(t) /\ mem' = CpuToken(mem, t, p)
      /\ job' = [job EXCEPT !.pos = @ + 1, !.read = [at |-> job.pos, n |-> 1], !.garbled = Garbled]
  BY DEF PrefillCpu
<1>2. JobTyped /\ Running /\ job.emitted = << >>
  BY <1>1 DEF GenInv
<1> DEFINE r == [at |-> p, n |-> 1]
<1>9. r.at = p /\ r.n = 1
  OBVIOUS
<1> HIDE DEF r
<1>10. job' = [at |-> job.at, backend |-> job.backend, prompt |-> t, budget |-> job.budget,
               emitted |-> job.emitted, pos |-> p + 1, parallel |-> job.parallel, read |-> r, garbled |-> FALSE]
  <2> DEFINE q == p + 1
  <2>1. job' = [job EXCEPT !.pos = q, !.read = r, !.garbled = Garbled]
    BY <1>1, Zenon DEF r
  <2> HIDE DEF q
  <2>2. job' = [at |-> job.at, backend |-> job.backend, prompt |-> job.prompt, budget |-> job.budget,
                emitted |-> job.emitted, pos |-> q, parallel |-> job.parallel, read |-> r, garbled |-> FALSE]
    BY <1>2, <2>1, GarbledNot, Zenon
  <2>. QED BY <2>2, Zenon DEF q
<1>3. IsSeq(t) /\ p \in Nat /\ Fed = t /\ Len(t) <= Ctx /\ Len(t) \in Nat
  <2>1. IsSeq(t) /\ Fed = t
    BY <1>2, RunningIs, FedPrompt
  <2>2. Len(t) \in 1 .. Ctx /\ Ctx \in Nat /\ p \in Nat
    BY <1>2, Sizes DEF Running, JobTyped
  <2> HIDE DEF t, p
  <2>. QED BY <2>1, <2>2
<1>4. CpuHolds(mem, t, p)
  BY <1>1, <1>2, <1>3 DEF Running, MemHolds
<1>5. p < Ctx /\ p + 1 <= Len(t)
  <2> HIDE DEF t, p
  <2>. QED BY <1>1, <1>3, Sizes
<1>6. CpuHolds(mem', t, p + 1)
  BY <1>1, <1>3, <1>4, CpuTokenHolds
<1>7. \A parallel : CpuReadsExactly(mem', t, p, parallel)
  BY <1>1, <1>3, <1>5, <1>6, CpuReads
<1>8. MemHolds(job.backend, mem', t, p + 1)
  BY <1>1, <1>6 DEF MemHolds
<1>. QED BY <1>1, <1>5, <1>7, <1>8, <1>9, <1>10, PrefillStep

LEMMA PrefillMetalKeeps ==
    ASSUME GenInv, PrefillMetal
    PROVE  GenInv'
<1> DEFINE t == job.prompt
           p == job.pos
           n == Smaller(Len(t) - p, PrefillCap)
<1>1. /\ job.at = "prefill" /\ job.backend = "metal" /\ p < Len(t) /\ mem' = Batch(mem, t, p, n)
      /\ job' = [job EXCEPT !.pos = @ + n, !.read = [at |-> job.pos, n |-> n], !.garbled = Garbled]
  BY DEF PrefillMetal
<1>2. JobTyped /\ Running /\ job.emitted = << >>
  BY <1>1 DEF GenInv
<1> DEFINE r == [at |-> p, n |-> n]
<1>9. r.at = p /\ r.n = n
  OBVIOUS
<1> HIDE DEF r
<1>10. job' = [at |-> job.at, backend |-> job.backend, prompt |-> t, budget |-> job.budget,
               emitted |-> job.emitted, pos |-> p + n, parallel |-> job.parallel, read |-> r, garbled |-> FALSE]
  <2> HIDE DEF n
  <2> DEFINE q == p + n
  <2>1. job' = [job EXCEPT !.pos = q, !.read = r, !.garbled = Garbled]
    BY <1>1, Zenon DEF r
  <2> HIDE DEF q
  <2>2. job' = [at |-> job.at, backend |-> job.backend, prompt |-> job.prompt, budget |-> job.budget,
                emitted |-> job.emitted, pos |-> q, parallel |-> job.parallel, read |-> r, garbled |-> FALSE]
    BY <1>2, <2>1, GarbledNot, Zenon
  <2>. QED BY <2>2, Zenon DEF q
<1>3. IsSeq(t) /\ p \in Nat /\ Fed = t /\ Len(t) <= Ctx /\ Len(t) \in Nat
  <2>1. IsSeq(t) /\ Fed = t
    BY <1>2, RunningIs, FedPrompt
  <2>2. Len(t) \in 1 .. Ctx /\ Ctx \in Nat /\ p \in Nat
    BY <1>2, Sizes DEF Running, JobTyped
  <2> HIDE DEF t, p
  <2>. QED BY <2>1, <2>2
<1>4. Shape(mem) /\ Held(mem, t, p)
  <2>1. MemHolds(job.backend, mem, Fed, job.pos)
    BY <1>2 DEF Running
  <2>. QED BY <1>1, <1>3, <2>1 DEF MemHolds
<1>5. n \in Nat \ {0} /\ n <= PrefillCap /\ p + n <= Len(t) /\ p + n <= Ctx
  <2> HIDE DEF t, p
  <2>. QED BY <1>1, <1>3, Sizes DEF Smaller
<1> HIDE DEF n
<1>6. After(mem', t, p, n)
  BY <1>1, <1>3, <1>4, <1>5, BatchExact
<1>7. MemHolds(job.backend, mem', t, p + n) /\ Misread(mem', t, p, n) = {}
  BY <1>1, <1>6 DEF MemHolds, After
<1>8. n \in Nat
  BY <1>5
<1>. QED BY <1>1, <1>5, <1>7, <1>8, <1>9, <1>10, PrefillStep

LEMMA JobPrefilled ==
    ASSUME NEW j, JobRecord(j), NEW a, NEW g, NEW r
    PROVE  [j EXCEPT !.at = a, !.garbled = g, !.read = r] =
               [at |-> a, backend |-> j.backend, prompt |-> j.prompt, budget |-> j.budget,
                emitted |-> j.emitted, pos |-> j.pos, parallel |-> j.parallel, read |-> r, garbled |-> g]
<1> DEFINE j1 == [j EXCEPT !.at = a]
           j2 == [j1 EXCEPT !.garbled = g]
           j3 == [j2 EXCEPT !.read = r]
<1>1. j1 = [at |-> a, backend |-> j.backend, prompt |-> j.prompt, budget |-> j.budget, emitted |-> j.emitted,
            pos |-> j.pos, parallel |-> j.parallel, read |-> j.read, garbled |-> j.garbled]
  BY DEF JobRecord
<1> HIDE DEF j1
<1>2. j2 = [at |-> a, backend |-> j.backend, prompt |-> j.prompt, budget |-> j.budget, emitted |-> j.emitted,
            pos |-> j.pos, parallel |-> j.parallel, read |-> j.read, garbled |-> g]
  BY <1>1
<1> HIDE DEF j2
<1>3. j3 = [at |-> a, backend |-> j.backend, prompt |-> j.prompt, budget |-> j.budget, emitted |-> j.emitted,
            pos |-> j.pos, parallel |-> j.parallel, read |-> r, garbled |-> g]
  BY <1>2
<1>4. [j EXCEPT !.at = a, !.garbled = g, !.read = r] = j3
  BY Zenon DEF j1, j2
<1>. QED BY <1>3, <1>4, Zenon

LEMMA JobChosen ==
    ASSUME NEW j, JobRecord(j), NEW a, NEW e, NEW g, NEW r
    PROVE  [j EXCEPT !.at = a, !.emitted = e, !.garbled = g, !.read = r] =
               [at |-> a, backend |-> j.backend, prompt |-> j.prompt, budget |-> j.budget, emitted |-> e,
                pos |-> j.pos, parallel |-> j.parallel, read |-> r, garbled |-> g]
<1> DEFINE j1 == [j EXCEPT !.at = a]
           j2 == [j1 EXCEPT !.emitted = e]
           j3 == [j2 EXCEPT !.garbled = g]
           j4 == [j3 EXCEPT !.read = r]
<1>1. j1 = [at |-> a, backend |-> j.backend, prompt |-> j.prompt, budget |-> j.budget, emitted |-> j.emitted,
            pos |-> j.pos, parallel |-> j.parallel, read |-> j.read, garbled |-> j.garbled]
  BY DEF JobRecord
<1> HIDE DEF j1
<1>2. j2 = [at |-> a, backend |-> j.backend, prompt |-> j.prompt, budget |-> j.budget, emitted |-> e,
            pos |-> j.pos, parallel |-> j.parallel, read |-> j.read, garbled |-> j.garbled]
  BY <1>1
<1> HIDE DEF j2
<1>3. j3 = [at |-> a, backend |-> j.backend, prompt |-> j.prompt, budget |-> j.budget, emitted |-> e,
            pos |-> j.pos, parallel |-> j.parallel, read |-> j.read, garbled |-> g]
  BY <1>2
<1> HIDE DEF j3
<1>4. j4 = [at |-> a, backend |-> j.backend, prompt |-> j.prompt, budget |-> j.budget, emitted |-> e,
            pos |-> j.pos, parallel |-> j.parallel, read |-> r, garbled |-> g]
  BY <1>3
<1>5. [j EXCEPT !.at = a, !.emitted = e, !.garbled = g, !.read = r] = j4
  BY Zenon DEF j1, j2, j3
<1>. QED BY <1>4, <1>5, Zenon

LEMMA JobEvaluated ==
    ASSUME NEW j, JobRecord(j), NEW a, NEW q, NEW r
    PROVE  [j EXCEPT !.at = a, !.pos = q, !.read = r] =
               [at |-> a, backend |-> j.backend, prompt |-> j.prompt, budget |-> j.budget,
                emitted |-> j.emitted, pos |-> q, parallel |-> j.parallel, read |-> r, garbled |-> j.garbled]
<1> DEFINE j1 == [j EXCEPT !.at = a]
           j2 == [j1 EXCEPT !.pos = q]
           j3 == [j2 EXCEPT !.read = r]
<1>1. j1 = [at |-> a, backend |-> j.backend, prompt |-> j.prompt, budget |-> j.budget, emitted |-> j.emitted,
            pos |-> j.pos, parallel |-> j.parallel, read |-> j.read, garbled |-> j.garbled]
  BY DEF JobRecord
<1> HIDE DEF j1
<1>2. j2 = [at |-> a, backend |-> j.backend, prompt |-> j.prompt, budget |-> j.budget, emitted |-> j.emitted,
            pos |-> q, parallel |-> j.parallel, read |-> j.read, garbled |-> j.garbled]
  BY <1>1
<1> HIDE DEF j2
<1>3. j3 = [at |-> a, backend |-> j.backend, prompt |-> j.prompt, budget |-> j.budget, emitted |-> j.emitted,
            pos |-> q, parallel |-> j.parallel, read |-> r, garbled |-> j.garbled]
  BY <1>2
<1>4. [j EXCEPT !.at = a, !.pos = q, !.read = r] = j3
  BY Zenon DEF j1, j2
<1>. QED BY <1>3, <1>4, Zenon

LEMMA JobEnded ==
    ASSUME NEW j, JobRecord(j), NEW a
    PROVE  [j EXCEPT !.at = a] =
               [at |-> a, backend |-> j.backend, prompt |-> j.prompt, budget |-> j.budget, emitted |-> j.emitted,
                pos |-> j.pos, parallel |-> j.parallel, read |-> j.read, garbled |-> j.garbled]
  BY DEF JobRecord

\* A generation that ends.
LEMMA EndKeeps ==
    ASSUME GenInv, NEW a \in {"done", "failed"}, job' = [job EXCEPT !.at = a]
    PROVE  GenInv'
<1>1. JobTyped /\ JobRecord(job)
  BY DEF GenInv, JobTyped
<1>2. job' = [at |-> a, backend |-> job.backend, prompt |-> job.prompt, budget |-> job.budget,
              emitted |-> job.emitted, pos |-> job.pos, parallel |-> job.parallel, read |-> job.read,
              garbled |-> job.garbled]
  BY <1>1, JobEnded, Zenon
<1>3. /\ job'.at = a /\ job'.backend = job.backend /\ job'.prompt = job.prompt /\ job'.budget = job.budget
      /\ job'.emitted = job.emitted /\ job'.pos = job.pos /\ job'.parallel = job.parallel
      /\ job'.read = job.read /\ job'.garbled = job.garbled
  BY <1>2, JobIs, Zenon
<1>4. job' = [at |-> job'.at, backend |-> job'.backend, prompt |-> job'.prompt, budget |-> job'.budget,
              emitted |-> job'.emitted, pos |-> job'.pos, parallel |-> job'.parallel, read |-> job'.read,
              garbled |-> job'.garbled]
  BY <1>2, <1>3, Zenon
<1>5. JobTyped'
  BY <1>1, <1>3, <1>4 DEF JobTyped, JobRecord
<1>. QED BY <1>3, <1>5 DEF GenInv

LEMMA PrefilledKeeps ==
    ASSUME GenInv, Prefilled
    PROVE  GenInv'
<1>1. job.at = "prefill" /\ job.pos = Len(job.prompt) /\ mem' = mem
      /\ job' = [job EXCEPT !.at = "decode", !.garbled = Garbled, !.read = NothingRead]
  BY DEF Prefilled
<1>2. JobTyped /\ JobRecord(job) /\ Running /\ job.emitted = << >>
  BY <1>1 DEF GenInv, JobTyped
<1>3. Garbled = FALSE /\ Fed = job.prompt
  BY <1>2, RunningIs, FedPrompt
<1>4. job' = [at |-> "decode", backend |-> job.backend, prompt |-> job.prompt, budget |-> job.budget,
              emitted |-> job.emitted, pos |-> job.pos, parallel |-> job.parallel, read |-> NothingRead,
              garbled |-> FALSE]
  <2>1. job' = [job EXCEPT !.at = "decode", !.garbled = FALSE, !.read = NothingRead]
    BY <1>1, <1>3, Zenon
  <2>. QED BY <1>2, <2>1, JobPrefilled, Zenon
<1>5. /\ job'.at = "decode" /\ job'.backend = job.backend /\ job'.prompt = job.prompt /\ job'.budget = job.budget
      /\ job'.emitted = job.emitted /\ job'.pos = job.pos /\ job'.parallel = job.parallel
      /\ job'.read = NothingRead /\ job'.garbled = FALSE
  BY <1>4, JobIs, Zenon
<1>6. job' = [at |-> job'.at, backend |-> job'.backend, prompt |-> job'.prompt, budget |-> job'.budget,
              emitted |-> job'.emitted, pos |-> job'.pos, parallel |-> job'.parallel, read |-> job'.read,
              garbled |-> job'.garbled]
  BY <1>4, <1>5, Zenon
<1>7. JobTyped'
  BY <1>2, <1>5, <1>6 DEF JobTyped, JobRecord
<1>8. Fed' = Fed
  BY <1>5 DEF Fed
<1>9. ReadExactly'
  BY <1>5 DEF ReadExactly, NothingRead
<1>10. MemHolds(job.backend, mem, Fed, job.pos)'
  <2>1. MemHolds(job.backend, mem, Fed, job.pos)
    BY <1>2 DEF Running
  <2>. QED BY <1>1, <1>5, <1>8, <2>1, Zenon
<1>11. Len(job'.prompt) \in 1 .. Ctx
  BY <1>2, <1>5 DEF Running
<1>12. Running'
  BY <1>5, <1>9, <1>10, <1>11 DEF Running
<1>13. job'.pos = Len(Fed') /\ job'.pos <= Ctx
  <2>1. Len(Fed') = Len(job.prompt)
    BY <1>3, <1>8
  <2>2. Len(job.prompt) <= Ctx
    BY <1>2 DEF Running
  <2>. QED BY <1>1, <1>5, <2>1, <2>2
<1>. QED BY <1>5, <1>7, <1>12, <1>13 DEF GenInv

LEMMA ConcatAppend ==
    ASSUME NEW s, IsSeq(s), NEW d, IsSeq(d), NEW x
    PROVE  s \o Append(d, x) = (s \o d) \o <<x>>
<1> DEFINE a == Append(d, x)
           u == s \o d
           e == <<x>>
<1>1. /\ IsSeq(a) /\ Len(a) = Len(d) + 1 /\ (\A i \in 1 .. Len(d) : a[i] = d[i]) /\ a[Len(d) + 1] = x
      /\ Len(s) \in Nat /\ Len(d) \in Nat
  BY AppendIs DEF IsSeq
<1>2. /\ IsSeq(u) /\ Len(u) = Len(s) + Len(d) /\ (\A i \in 1 .. Len(s) : u[i] = s[i])
      /\ \A i \in 1 .. Len(d) : u[Len(s) + i] = d[i]
  BY ConcatIs
<1>3. IsSeq(e) /\ Len(e) = 1 /\ e[1] = x
  BY DEF IsSeq
<1> HIDE DEF a, u, e
<1>10. IsSeq(a) /\ IsSeq(u) /\ IsSeq(e)
  BY <1>1, <1>2, <1>3
<1>4. /\ IsSeq(s \o a) /\ Len(s \o a) = Len(s) + Len(a)
      /\ (\A i \in 1 .. Len(s) : (s \o a)[i] = s[i]) /\ \A i \in 1 .. Len(a) : (s \o a)[Len(s) + i] = a[i]
  BY <1>10, ConcatIs
<1>5. /\ IsSeq(u \o e) /\ Len(u \o e) = Len(u) + Len(e)
      /\ (\A i \in 1 .. Len(u) : (u \o e)[i] = u[i]) /\ \A i \in 1 .. Len(e) : (u \o e)[Len(u) + i] = e[i]
  BY <1>10, ConcatIs
<1> DEFINE f == s \o a
           g == u \o e
<1> HIDE DEF f, g
<1>6. ASSUME NEW i \in 1 .. Len(f) PROVE f[i] = g[i]
  <2>0. Len(f) = Len(s) + Len(d) + 1 /\ i \in Nat
    BY <1>1, <1>4 DEF f
  <2>1. CASE i <= Len(s)
    <3>1. i \in 1 .. Len(s) /\ i \in 1 .. Len(u)
      BY <1>1, <1>2, <2>1
    <3>. QED BY <1>2, <1>4, <1>5, <3>1 DEF f, g
  <2>2. CASE ~(i <= Len(s)) /\ i # Len(s) + Len(d) + 1
    <3> DEFINE j == i - Len(s)
    <3>1. j \in 1 .. Len(d) /\ j \in 1 .. Len(a) /\ i = Len(s) + j /\ i \in 1 .. Len(u)
      <4>1. /\ Len(s) \in Nat /\ Len(d) \in Nat /\ Len(a) = Len(d) + 1 /\ Len(u) = Len(s) + Len(d)
            /\ i \in 1 .. Len(s) + Len(d) + 1
        BY <1>1, <1>2, <2>0
      <4>. QED BY <2>2, <4>1
    <3> HIDE DEF j
    <3>2. f[i] = a[j] /\ a[j] = d[j]
      BY <1>1, <1>4, <3>1 DEF f
    <3>3. g[i] = u[i] /\ u[i] = d[j]
      BY <1>2, <1>5, <3>1 DEF g
    <3>. QED BY <3>2, <3>3
  <2>3. CASE i = Len(s) + Len(d) + 1
    <3>1. Len(d) + 1 \in 1 .. Len(a) /\ i = Len(s) + (Len(d) + 1)
      BY <1>1, <2>3
    <3>2. f[i] = x
      BY <1>1, <1>4, <3>1 DEF f
    <3>3. 1 \in 1 .. Len(e) /\ i = Len(u) + 1
      BY <1>1, <1>2, <1>3, <2>3
    <3>4. g[i] = x
      BY <1>3, <1>5, <3>3 DEF g
    <3>. QED BY <3>2, <3>4
  <2>. QED BY <1>1, <2>0, <2>1, <2>2, <2>3
<1>7. IsSeq(f) /\ IsSeq(g) /\ Len(f) = Len(g)
  BY <1>1, <1>2, <1>3, <1>4, <1>5 DEF f, g
<1>8. f = g
  BY <1>6, <1>7, SameSeq
<1>. QED BY <1>8 DEF f, g, a, u, e

\* What a memory holds of the tokens fed it holds of those and the next one.
LEMMA MemHoldsMore ==
    ASSUME NEW backend, NEW m, NEW s, IsSeq(s), NEW x, MemHolds(backend, m, s, Len(s))
    PROVE  MemHolds(backend, m, s \o <<x>>, Len(s))
<1> DEFINE e == <<x>>
<1>1. IsSeq(e)
  BY DEF IsSeq
<1> HIDE DEF e
<1>2. Len(s) \in 0 .. Len(s)
  BY DEF IsSeq
<1>3. CASE backend = "cpu"
  <2>1. CpuHolds(m, s, Len(s))
    BY <1>3 DEF MemHolds
  <2>2. CpuHolds(m, s \o e, Len(s))
    BY <1>1, <1>2, <2>1, CpuHoldsPrefix
  <2>. QED BY <1>3, <2>2 DEF MemHolds, e
<1>4. CASE backend # "cpu"
  <2>1. Shape(m) /\ Held(m, s, Len(s))
    BY <1>4 DEF MemHolds
  <2>2. Held(m, s \o e, Len(s))
    BY <1>1, <2>1, HeldBefore
  <2>. QED BY <1>4, <2>1, <2>2 DEF MemHolds, e
<1>. QED BY <1>3, <1>4

\* The choice is the model's: what the last token read was right.
LEMMA ChoiceIs ==
    ASSUME GenInv, Choose
    PROVE  \/ /\ Greedy(Fed) = Eos \/ Len(job.emitted) >= job.budget \/ Len(Fed) >= Ctx
              /\ job' = [job EXCEPT !.at = "done"]
           \/ /\ Greedy(Fed) # Eos /\ Len(job.emitted) < job.budget /\ Len(Fed) < Ctx
              /\ job' = [at |-> "emitted", backend |-> job.backend, prompt |-> job.prompt, budget |-> job.budget,
                         emitted |-> Append(job.emitted, Greedy(Fed)), pos |-> job.pos,
                         parallel |-> job.parallel, read |-> NothingRead, garbled |-> FALSE]
<1>1. job.at = "decode"
  BY DEF Choose
<1>2. JobTyped /\ JobRecord(job) /\ Running /\ job.pos = Len(Fed)
  BY <1>1 DEF GenInv, JobTyped
<1>3. Garbled = FALSE
  BY <1>2, RunningIs
<1>4. Len(job.emitted) \in Nat /\ job.budget \in Nat /\ Len(Fed) \in Nat /\ Ctx \in Nat
  BY <1>2, RunningIs, Sizes DEF JobTyped, IsSeq
<1>5. CASE Len(job.emitted) < job.budget /\ job.pos < Ctx
  <2>1. \E tok \in {Greedy(Fed)} :
            job' = IF tok = Eos THEN [job EXCEPT !.at = "done"]
                   ELSE [job EXCEPT !.at = "emitted", !.emitted = Append(@, tok),
                                    !.garbled = Garbled, !.read = NothingRead]
    BY <1>3, <1>5, Zenon DEF Choose
  <2>2. CASE Greedy(Fed) = Eos
    BY <2>1, <2>2
  <2>3. CASE Greedy(Fed) # Eos
    <3> DEFINE x == Greedy(Fed)
    <3>1. job' = [job EXCEPT !.at = "emitted", !.emitted = Append(@, x),
                             !.garbled = Garbled, !.read = NothingRead]
      BY <2>1, <2>3, Zenon
    <3> HIDE DEF x
    <3> DEFINE e == Append(job.emitted, x)
    <3>2. job' = [job EXCEPT !.at = "emitted", !.emitted = e, !.garbled = FALSE, !.read = NothingRead]
      BY <1>3, <3>1, Zenon
    <3> HIDE DEF e
    <3>3. job' = [at |-> "emitted", backend |-> job.backend, prompt |-> job.prompt, budget |-> job.budget,
                  emitted |-> e, pos |-> job.pos, parallel |-> job.parallel, read |-> NothingRead,
                  garbled |-> FALSE]
      BY <1>2, <3>2, JobChosen, Zenon
    <3>4. Len(Fed) < Ctx
      BY <1>2, <1>5
    <3>. QED BY <1>5, <2>3, <3>3, <3>4, Zenon DEF e, x
  <2>. QED BY <2>2, <2>3
<1>6. CASE ~(Len(job.emitted) < job.budget /\ job.pos < Ctx)
  <2>1. job' = [job EXCEPT !.at = "done"]
    BY <1>6, Zenon DEF Choose
  <2>2. Len(job.emitted) >= job.budget \/ Len(Fed) >= Ctx
    BY <1>2, <1>4, <1>6
  <2>. QED BY <2>1, <2>2
<1>. QED BY <1>5, <1>6

LEMMA ChooseKeeps ==
    ASSUME GenInv, Choose
    PROVE  GenInv'
<1>1. job.at = "decode" /\ mem' = mem
  BY DEF Choose
<1>2. JobTyped /\ JobRecord(job) /\ Running /\ job.pos = Len(Fed)
  BY <1>1 DEF GenInv, JobTyped
<1>3. CASE job' = [job EXCEPT !.at = "done"]
  BY <1>3, EndKeeps
<1> DEFINE x == Greedy(Fed)
           e == Append(job.emitted, x)
<1>4. CASE /\ Len(Fed) < Ctx
           /\ job' = [at |-> "emitted", backend |-> job.backend, prompt |-> job.prompt, budget |-> job.budget,
                      emitted |-> e, pos |-> job.pos, parallel |-> job.parallel, read |-> NothingRead,
                      garbled |-> FALSE]
  <2> HIDE DEF x
  <2>1. /\ job'.at = "emitted" /\ job'.backend = job.backend /\ job'.prompt = job.prompt
        /\ job'.budget = job.budget /\ job'.emitted = e /\ job'.pos = job.pos /\ job'.parallel = job.parallel
        /\ job'.read = NothingRead /\ job'.garbled = FALSE
    BY <1>4, JobIs, Zenon
  <2>2. job' = [at |-> job'.at, backend |-> job'.backend, prompt |-> job'.prompt, budget |-> job'.budget,
                emitted |-> job'.emitted, pos |-> job'.pos, parallel |-> job'.parallel, read |-> job'.read,
                garbled |-> job'.garbled]
    BY <1>4, <2>1, Zenon
  <2>3. IsSeq(job.prompt) /\ IsSeq(job.emitted) /\ IsSeq(Fed) /\ Len(Fed) \in Nat
    BY <1>2, RunningIs DEF JobTyped, IsSeq
  <2>4. IsSeq(e)
    BY <2>3, AppendIs
  <2>5. JobTyped'
    <3> HIDE DEF e
    <3>. QED BY <1>2, <2>1, <2>2, <2>4 DEF JobTyped, JobRecord
  <2>6. Fed' = Fed \o <<x>>
    <3>1. Fed' = job.prompt \o e
      BY <2>1 DEF Fed
    <3>2. job.prompt \o e = (job.prompt \o job.emitted) \o <<x>>
      <4> DEFINE s == job.prompt
                 d == job.emitted
      <4>1. IsSeq(s) /\ IsSeq(d)
        BY <2>3
      <4> HIDE DEF s, d
      <4>2. s \o Append(d, x) = (s \o d) \o <<x>>
        BY <4>1, ConcatAppend
      <4>. QED BY <4>2 DEF s, d
    <3>. QED BY <3>1, <3>2, Zenon DEF Fed
  <2>7. ReadExactly'
    BY <2>1 DEF ReadExactly, NothingRead
  <2>8. MemHolds(job.backend, mem, Fed, Len(Fed))
    BY <1>2 DEF Running
  <2>9. MemHolds(job.backend, mem, Fed \o <<x>>, Len(Fed))
    BY <2>3, <2>8, MemHoldsMore
  <2>10. MemHolds(job.backend, mem, Fed, job.pos)'
    BY <1>1, <1>2, <2>1, <2>6, <2>9, Zenon
  <2>11. Len(job'.prompt) \in 1 .. Ctx
    BY <1>2, <2>1 DEF Running
  <2>12. Running'
    BY <2>1, <2>7, <2>10, <2>11 DEF Running
  <2>13. job'.pos + 1 = Len(Fed') /\ job'.pos < Ctx
    <3> DEFINE d == <<x>>
    <3>1. IsSeq(d) /\ Len(d) = 1
      BY DEF IsSeq
    <3>2. Fed' = Fed \o d
      BY <2>6
    <3> HIDE DEF d
    <3>3. Len(Fed') = Len(Fed) + 1
      <4> DEFINE u == Fed
      <4>1. IsSeq(u)
        BY <2>3
      <4> HIDE DEF u
      <4>2. Len(u \o d) = Len(u) + 1
        BY <3>1, <4>1, HeldBefore
      <4>. QED BY <3>2, <4>2 DEF u
    <3>. QED BY <1>2, <1>4, <2>1, <3>3
  <2>. QED BY <2>1, <2>5, <2>12, <2>13 DEF GenInv
<1>. QED BY <1>3, <1>4, ChoiceIs

LEMMA EvalTokenKeeps ==
    ASSUME GenInv, EvalToken
    PROVE  GenInv'
<1> DEFINE t == Fed
           p == job.pos
           r == [at |-> p, n |-> 1]
<1>1. /\ job.at = "emitted" /\ p + 1 < Ctx
      /\ mem' = IF job.backend = "cpu" THEN CpuToken(mem, t, p) ELSE Decode(mem, t, p)
      /\ job' = [job EXCEPT !.at = "decode", !.pos = @ + 1, !.read = [at |-> job.pos, n |-> 1]]
  <2>1. p \in Nat /\ Ctx \in Nat
    BY Sizes DEF GenInv, JobTyped
  <2>2. ~(p + 1 >= Ctx)
    BY DEF EvalToken, LastOne
  <2> HIDE DEF p
  <2>3. p + 1 < Ctx
    BY <2>1, <2>2
  <2>. QED BY <2>3 DEF EvalToken, p
<1>2. JobTyped /\ JobRecord(job) /\ Running /\ p + 1 = Len(t)
  BY <1>1 DEF GenInv, JobTyped
<1>3. IsSeq(t) /\ p \in Nat /\ p < Len(t) /\ p < Ctx
  <2>1. IsSeq(t) /\ p \in Nat /\ Ctx \in Nat
    BY <1>2, RunningIs, Sizes DEF JobTyped
  <2> HIDE DEF t, p
  <2>. QED BY <1>1, <1>2, <2>1
<1>4. MemHolds(job.backend, mem, t, p)
  BY <1>2 DEF Running
<1>5. job' = [at |-> "decode", backend |-> job.backend, prompt |-> job.prompt, budget |-> job.budget,
              emitted |-> job.emitted, pos |-> p + 1, parallel |-> job.parallel, read |-> r,
              garbled |-> FALSE]
  <2> DEFINE q == p + 1
  <2>1. job' = [job EXCEPT !.at = "decode", !.pos = q, !.read = r]
    BY <1>1
  <2> HIDE DEF q, r
  <2>2. job' = [at |-> "decode", backend |-> job.backend, prompt |-> job.prompt, budget |-> job.budget,
                emitted |-> job.emitted, pos |-> q, parallel |-> job.parallel, read |-> r,
                garbled |-> job.garbled]
    BY <1>2, <2>1, JobEvaluated, Zenon
  <2>3. job.garbled = FALSE
    BY <1>2 DEF Running
  <2>. QED BY <2>2, <2>3, Zenon DEF q
<1>6. r.at = p /\ r.n = 1
  OBVIOUS
<1> HIDE DEF r
<1>7. /\ job'.at = "decode" /\ job'.backend = job.backend /\ job'.prompt = job.prompt
      /\ job'.budget = job.budget /\ job'.emitted = job.emitted /\ job'.pos = p + 1
      /\ job'.parallel = job.parallel /\ job'.read = r /\ job'.garbled = FALSE
  BY <1>5, JobIs, Zenon
<1>8. job' = [at |-> job'.at, backend |-> job'.backend, prompt |-> job'.prompt, budget |-> job'.budget,
              emitted |-> job'.emitted, pos |-> job'.pos, parallel |-> job'.parallel, read |-> job'.read,
              garbled |-> job'.garbled]
  BY <1>5, <1>7, Zenon
<1>9. JobTyped'
  <2>1. p + 1 \in Nat
    BY <1>3
  <2>. QED BY <1>2, <1>7, <1>8, <2>1 DEF JobTyped, JobRecord
<1>10. Fed' = t
  BY <1>7 DEF Fed
<1>11. MemHolds(job.backend, mem', t, p + 1) /\ ReadExactly'
  <2>1. CASE job.backend = "cpu"
    <3>1. CpuHolds(mem, t, p) /\ mem' = CpuToken(mem, t, p)
      BY <1>1, <1>4, <2>1 DEF MemHolds
    <3>2. CpuHolds(mem', t, p + 1)
      BY <1>3, <3>1, CpuTokenHolds
    <3>3. \A parallel : CpuReadsExactly(mem', t, p, parallel)
      BY <1>3, <3>2, CpuReads
    <3>4. ReadExactly'
      BY <1>6, <1>7, <1>10, <2>1, <3>3 DEF ReadExactly
    <3>. QED BY <2>1, <3>2, <3>4 DEF MemHolds
  <2>2. CASE job.backend # "cpu"
    <3>1. Shape(mem) /\ Held(mem, t, p) /\ mem' = Decode(mem, t, p)
      BY <1>1, <1>4, <2>2 DEF MemHolds
    <3>2. After(mem', t, p, 1)
      BY <1>3, <3>1, DecodeExact
    <3>3. Shape(mem') /\ Held(mem', t, p + 1) /\ Misread(mem', t, p, 1) = {}
      BY <3>2 DEF After
    <3>4. ReadExactly'
      BY <1>6, <1>7, <1>10, <2>2, <3>3 DEF ReadExactly
    <3>. QED BY <2>2, <3>3, <3>4 DEF MemHolds
  <2>. QED BY <2>1, <2>2
<1>12. Running'
  <2>1. MemHolds(job.backend, mem, Fed, job.pos)'
    BY <1>7, <1>10, <1>11, Zenon
  <2>2. Len(job'.prompt) \in 1 .. Ctx
    BY <1>2, <1>7 DEF Running
  <2>. QED BY <1>7, <1>11, <2>1, <2>2 DEF Running
<1>13. job'.pos = Len(Fed') /\ job'.pos <= Ctx
  <2> HIDE DEF p
  <2>1. Ctx \in Nat
    BY Sizes
  <2>. QED BY <1>1, <1>2, <1>3, <1>7, <1>10, <2>1
<1>. QED BY <1>7, <1>9, <1>12, <1>13 DEF GenInv

LEMMA GenKeeps ==
    ASSUME GenInv, GenNext
    PROVE  GenInv'
<1>1. CASE \E b \in {"cpu", "metal"}, p \in Prompts, n \in Budgets : Generate(b, p, n)
  BY <1>1, GenerateKeeps
<1>2. CASE Stop
  BY <1>2, EndKeeps DEF Stop
<1>3. CASE MetalFails
  BY <1>3, EndKeeps DEF MetalFails
<1>. QED BY <1>1, <1>2, <1>3, PrefillCpuKeeps, PrefillMetalKeeps, PrefilledKeeps, ChooseKeeps, EvalTokenKeeps, Zenon
         DEF GenNext, GenWork

\* What a generation is doing and what it holds: an invariant of the engine,
\* whichever backend runs it.
THEOREM GenerationInvariant == Spec => []GenInv
<1>1. Init => GenInv
  BY GenStarts DEF Init
<1>2. GenInv /\ [Next]_allVars => GenInv'
  <2> SUFFICES ASSUME GenInv, [Next]_allVars PROVE GenInv'
    OBVIOUS
  <2>1. CASE GenNext
    BY <2>1, GenKeeps
  <2>2. CASE UNCHANGED genVars
    BY <2>2, GenRests
  <2>3. GenNext \/ UNCHANGED genVars
    BY DEF Next, allVars
  <2>. QED BY <2>1, <2>2, <2>3
<1>. QED BY <1>1, <1>2, PTL DEF Spec

LEMMA ClientStays == Spec => [](client \in {"session", "generation"})
<1> DEFINE C == client \in {"session", "generation"}
<1>1. Init => C
  BY DEF Init
<1>2. C /\ [Next]_allVars => C'
  BY DEF Next, allVars
<1>. QED BY <1>1, <1>2, PTL DEF Spec

LEMMA WellTyped ==
    ASSUME SessionInv, GenInv, client \in {"session", "generation"}
    PROVE  TypeOK
<1>1. Typed /\ InCall /\ job.at \in {"prefill", "decode", "emitted", "done", "failed"}
  BY DEF SessionInv, GenInv, JobTyped
<1>2. /\ checkpoint \in Seq(Token) /\ Len(checkpoint) <= Ctx /\ valid \in BOOLEAN /\ sound \in BOOLEAN
      /\ Shape(graph) /\ Bounded(graph)
  BY <1>1 DEF Typed
<1>3. ASSUME NEW l \in Layer PROVE DOMAIN graph.ring[l] = 0..RawCap - 1
  <2>1. RingShape(graph.ring[l])
    BY <1>2 DEF Shape
  <2>. QED BY <2>1 DEF RingShape
<1>4. ASSUME NEW ln \in Lane
      PROVE  /\ Len(graph.lane[ln].rows) <= CompCap
             /\ DOMAIN graph.lane[ln].state = 0..Depth(LaneRatio(ln)) - 1
  <2>1. LaneShape(LaneRatio(ln), graph.lane[ln])
    BY <1>2 DEF Shape
  <2>2. DOMAIN graph.lane[ln].state = 0..Depth(LaneRatio(ln)) - 1
    BY <2>1 DEF LaneShape
  <2>. QED BY <1>2, <2>2 DEF Bounded
<1>5. call.op \in {"idle", "prefill", "extend", "drafted", "exact", "compared", "verified", "replay", "sequential"}
  <2>1. InIdle => call.op = "idle"
    BY DEF InIdle, Idle
  <2>. QED BY <1>1, <2>1 DEF InCall, InPrefill, InExtend, InDrafted, InExact, InCompared, InVerified, InReplay,
                             InSequential
<1>. QED BY <1>1, <1>2, <1>3, <1>4, <1>5 DEF TypeOK

(***************************************************************************)
(* Generations are greedy streams.                                         *)
(***************************************************************************)

LEMMA StreamStarts ==
    ASSUME GenInit
    PROVE  Stream!Init
<1>1. job = [at |-> "done", backend |-> "cpu", prompt |-> << >>, budget |-> 0, emitted |-> << >>,
             pos |-> 0, parallel |-> FALSE, read |-> NothingRead, garbled |-> FALSE]
  BY DEF GenInit
<1>2. job.at = "done" /\ job.prompt = << >> /\ job.budget = 0 /\ job.emitted = << >>
  BY <1>1
<1>. QED BY <1>2 DEF Stream!Init, Outcome, GenIdle

\* A step that leaves the request and what was emitted alone, and goes on.
LEMMA StreamStutters ==
    ASSUME job'.prompt = job.prompt, job'.budget = job.budget, job'.emitted = job.emitted,
           ~GenIdle, job'.at \notin {"done", "failed"}
    PROVE  UNCHANGED Stream!vars
<1>1. Outcome = "running" /\ Outcome' = "running"
  BY DEF Outcome, GenIdle
<1>. QED BY <1>1 DEF Stream!vars

LEMMA StreamEnds ==
    ASSUME GenInv, ~GenIdle, NEW a \in {"done", "failed"}, job' = [job EXCEPT !.at = a],
           a = "done" => Greedy(Fed) = Eos \/ Len(job.emitted) >= job.budget \/ Len(Fed) >= Ctx
    PROVE  Stream!Finish
<1>1. JobRecord(job)
  BY DEF GenInv, JobTyped
<1>2. job' = [at |-> a, backend |-> job.backend, prompt |-> job.prompt, budget |-> job.budget,
              emitted |-> job.emitted, pos |-> job.pos, parallel |-> job.parallel, read |-> job.read,
              garbled |-> job.garbled]
  BY <1>1, JobEnded, Zenon
<1>3. job'.at = a /\ job'.prompt = job.prompt /\ job'.budget = job.budget /\ job'.emitted = job.emitted
  BY <1>2, JobIs, Zenon
<1>4. Outcome = "running" /\ Outcome' = a
  BY <1>3 DEF Outcome, GenIdle
<1>5. Stream!Ended <=> Greedy(Fed) = Eos \/ Len(job.emitted) >= job.budget \/ Len(Fed) >= Ctx
  BY DEF Stream!Ended, Stream!Seen, Fed
<1>. QED BY <1>3, <1>4, <1>5 DEF Stream!Finish

LEMMA StreamSteps ==
    ASSUME GenInv, GenNext
    PROVE  [Stream!Next]_(Stream!vars)
<1>1. JobTyped /\ JobRecord(job)
  BY DEF GenInv, JobTyped
<1>2. ASSUME NEW backend \in {"cpu", "metal"}, NEW prompt \in Prompts, NEW budget \in Budgets,
             Generate(backend, prompt, budget)
      PROVE  Stream!Next
  <2>1. PICK parallel : job' = [at |-> IF Len(prompt) \in 1..Ctx THEN "prefill" ELSE "failed", backend |-> backend,
                                prompt |-> prompt, budget |-> budget, emitted |-> << >>,
                                pos |-> 0, parallel |-> parallel, read |-> NothingRead, garbled |-> FALSE]
    BY <1>2 DEF Generate
  <2>2. /\ job'.at \in {"prefill", "failed"}
        /\ job'.prompt = prompt /\ job'.budget = budget /\ job'.emitted = << >>
    BY <2>1
  <2>3. Outcome \in {"done", "failed"}
    BY <1>2 DEF Generate, Outcome, GenIdle
  <2>4. Outcome' \in {"running", "failed"}
    BY <2>2 DEF Outcome, GenIdle
  <2>5. Stream!Ask(prompt, budget)
    BY <2>2, <2>3, <2>4 DEF Stream!Ask
  <2>. QED BY <2>5 DEF Stream!Next
<1>3. CASE PrefillCpu
  <2>1. job.at = "prefill" /\ job' = [job EXCEPT !.pos = @ + 1, !.read = [at |-> job.pos, n |-> 1], !.garbled = Garbled]
    BY <1>3 DEF PrefillCpu
  <2>2. Running
    BY <2>1 DEF GenInv
  <2> DEFINE q == job.pos + 1
             r == [at |-> job.pos, n |-> 1]
  <2>3. job' = [at |-> job.at, backend |-> job.backend, prompt |-> job.prompt, budget |-> job.budget,
                emitted |-> job.emitted, pos |-> q, parallel |-> job.parallel, read |-> r, garbled |-> FALSE]
    BY <1>1, <2>1, <2>2, GarbledNot
  <2> HIDE DEF q, r
  <2>4. job'.at = job.at /\ job'.prompt = job.prompt /\ job'.budget = job.budget /\ job'.emitted = job.emitted
    BY <2>3, JobIs, Zenon
  <2>. QED BY <2>1, <2>4, StreamStutters DEF GenIdle
<1>4. CASE PrefillMetal
  <2> DEFINE n == Smaller(Len(job.prompt) - job.pos, PrefillCap)
             q == job.pos + n
             r == [at |-> job.pos, n |-> n]
  <2>1. job.at = "prefill" /\ job' = [job EXCEPT !.pos = q, !.read = r, !.garbled = Garbled]
    BY <1>4 DEF PrefillMetal
  <2> HIDE DEF q, r
  <2>2. Running
    BY <2>1 DEF GenInv
  <2>3. job' = [at |-> job.at, backend |-> job.backend, prompt |-> job.prompt, budget |-> job.budget,
                emitted |-> job.emitted, pos |-> q, parallel |-> job.parallel, read |-> r, garbled |-> FALSE]
    BY <1>1, <2>1, <2>2, GarbledNot
  <2>4. job'.at = job.at /\ job'.prompt = job.prompt /\ job'.budget = job.budget /\ job'.emitted = job.emitted
    BY <2>3, JobIs, Zenon
  <2>. QED BY <2>1, <2>4, StreamStutters DEF GenIdle
<1>5. CASE Prefilled
  <2>1. job.at = "prefill" /\ job' = [job EXCEPT !.at = "decode", !.garbled = Garbled, !.read = NothingRead]
    BY <1>5 DEF Prefilled
  <2> DEFINE g == Garbled
  <2> HIDE DEF g
  <2>2. job' = [job EXCEPT !.at = "decode", !.garbled = g, !.read = NothingRead]
    BY <2>1 DEF g
  <2>3. job' = [at |-> "decode", backend |-> job.backend, prompt |-> job.prompt, budget |-> job.budget,
                emitted |-> job.emitted, pos |-> job.pos, parallel |-> job.parallel, read |-> NothingRead,
                garbled |-> g]
    BY <1>1, <2>2, JobPrefilled, Zenon
  <2>4. job'.at = "decode" /\ job'.prompt = job.prompt /\ job'.budget = job.budget /\ job'.emitted = job.emitted
    BY <2>3, JobIs, Zenon
  <2>. QED BY <2>1, <2>4, StreamStutters DEF GenIdle
<1>6. CASE Choose
  <2>1. job.at = "decode"
    BY <1>6 DEF Choose
  <2>2. ~GenIdle
    BY <2>1 DEF GenIdle
  <2>3. CASE /\ Greedy(Fed) = Eos \/ Len(job.emitted) >= job.budget \/ Len(Fed) >= Ctx
             /\ job' = [job EXCEPT !.at = "done"]
    BY <2>2, <2>3, StreamEnds DEF Stream!Next
  <2> DEFINE x == Greedy(Fed)
             e == Append(job.emitted, x)
  <2>4. CASE /\ Greedy(Fed) # Eos /\ Len(job.emitted) < job.budget /\ Len(Fed) < Ctx
             /\ job' = [at |-> "emitted", backend |-> job.backend, prompt |-> job.prompt, budget |-> job.budget,
                        emitted |-> e, pos |-> job.pos, parallel |-> job.parallel, read |-> NothingRead,
                        garbled |-> FALSE]
    <3> HIDE DEF e
    <3>1. job'.at = "emitted" /\ job'.prompt = job.prompt /\ job'.budget = job.budget /\ job'.emitted = e
      BY <2>4, JobIs, Zenon
    <3>2. Outcome = "running" /\ Outcome' = "running"
      BY <2>1, <3>1 DEF Outcome, GenIdle
    <3>3. job.budget \in Nat /\ Len(job.emitted) \in Nat /\ Len(Fed) \in Nat /\ Ctx \in Nat
      <4>1. Running
        BY <2>1 DEF GenInv
      <4>. QED BY <1>1, <4>1, RunningIs, Sizes DEF JobTyped, IsSeq
    <3>4. ~(Greedy(Fed) = Eos \/ Len(job.emitted) >= job.budget \/ Len(Fed) >= Ctx)
      BY <2>4, <3>3
    <3>5. ~Stream!Ended
      BY <3>4 DEF Stream!Ended, Stream!Seen, Fed
    <3>6. job'.emitted = Append(job.emitted, Greedy(Stream!Seen))
      BY <3>1 DEF e, Stream!Seen, Fed
    <3>7. Stream!Emit
      BY <3>1, <3>2, <3>5, <3>6 DEF Stream!Emit
    <3>. QED BY <3>7 DEF Stream!Next
  <2>. QED BY <1>6, <2>3, <2>4, ChoiceIs
<1>7. CASE Stop
  <2>1. job.at = "emitted" /\ job' = [job EXCEPT !.at = "done"]
        /\ (Len(job.emitted) = job.budget \/ job.pos + 1 >= Ctx)
    BY <1>7 DEF Stop, LastOne
  <2>2. Running /\ job.pos + 1 = Len(Fed)
    BY <2>1 DEF GenInv
  <2>3. Len(job.emitted) \in Nat
    BY <1>1 DEF JobTyped, IsSeq
  <2>4. Len(job.emitted) >= job.budget \/ Len(Fed) >= Ctx
    BY <2>1, <2>2, <2>3
  <2>. QED BY <2>1, <2>4, StreamEnds DEF GenIdle, Stream!Next
<1>8. CASE MetalFails
  <2>1. job.at \in {"prefill", "emitted"} /\ job' = [job EXCEPT !.at = "failed"]
    BY <1>8 DEF MetalFails
  <2>. QED BY <2>1, StreamEnds DEF GenIdle, Stream!Next
<1>9. CASE EvalToken
  <2> DEFINE q == job.pos + 1
             r == [at |-> job.pos, n |-> 1]
  <2>1. job.at = "emitted" /\ job' = [job EXCEPT !.at = "decode", !.pos = q, !.read = r]
    BY <1>9 DEF EvalToken
  <2> HIDE DEF q, r
  <2>2. job' = [at |-> "decode", backend |-> job.backend, prompt |-> job.prompt, budget |-> job.budget,
                emitted |-> job.emitted, pos |-> q, parallel |-> job.parallel, read |-> r,
                garbled |-> job.garbled]
    BY <1>1, <2>1, JobEvaluated, Zenon
  <2>3. job'.at = "decode" /\ job'.prompt = job.prompt /\ job'.budget = job.budget /\ job'.emitted = job.emitted
    BY <2>2, JobIs, Zenon
  <2>. QED BY <2>1, <2>3, StreamStutters DEF GenIdle
<1>. QED BY <1>2, <1>3, <1>4, <1>5, <1>6, <1>7, <1>8, <1>9, Zenon DEF GenNext, GenWork

LEMMA StreamRests ==
    ASSUME UNCHANGED genVars
    PROVE  UNCHANGED Stream!vars
<1>1. job' = job
  BY DEF genVars
<1>2. Outcome' = Outcome
  BY <1>1 DEF Outcome, GenIdle
<1>. QED BY <1>1, <1>2 DEF Stream!vars

(***************************************************************************)
(* The theorems.                                                           *)
(***************************************************************************)

\* Whatever a client does, ds4_session keeps a graph of the right shape, no
\* compressed cache outgrows its capacity (comp_cap), the checkpoint fits the
\* context, and every call is one of those there are.
THEOREM TypeCorrect == Spec => []TypeOK
  BY SessionInvariant, GenerationInvariant, ClientStays, WellTyped, PTL

\* ds4_session_sync, eval, eval_speculative_argmax and load_payload, in any
\* order and with any failures between them, leave behind a valid checkpoint
\* exactly the graph, logits and draft of its tokens.
THEOREM SessionIsExact == Spec => []SessionExact
  BY SessionInvariant, SessionMeans, PTL

\* metal_graph_raw_span_for_batch and the ring give every query of a chunk, a
\* decode or a verifier batch its own window and all the blocks before it.
THEOREM AttentionIsExact == Spec => []AttentionExact
  BY SessionInvariant, SessionMeans, PTL

\* ds4_session_eval_speculative_argmax accepts the end of its checkpoint: first
\* the draft one-token decoding would have given, then only what the verifier
\* that was asked for may take for it, whichever commit, rollback or replay it
\* went through.
THEOREM SpeculationIsExact == Spec => []SpeculationExact
  BY SessionInvariant, SessionMeans, PTL

\* ds4_session_save_payload writes a payload that is of its own tokens alone.
THEOREM PayloadIsExact == Spec => []PayloadExact
  BY SessionInvariant, SessionMeans, PTL

\* ds4_engine_generate_argmax, on the CPU with its sliding window or on the
\* Metal graph with its ring, emits the greedy stream and ends where it ends.
THEOREM GenerationIsGreedy == Spec => ImplementsGreedyStream
<1>1. Init => Stream!Init
  BY StreamStarts DEF Init
<1>2. GenInv /\ [Next]_allVars => [Stream!Next]_(Stream!vars)
  <2> SUFFICES ASSUME GenInv, [Next]_allVars PROVE [Stream!Next]_(Stream!vars)
    OBVIOUS
  <2>1. CASE GenNext
    BY <2>1, StreamSteps
  <2>2. CASE UNCHANGED genVars
    BY <2>2, StreamRests
  <2>3. GenNext \/ UNCHANGED genVars
    BY DEF Next, allVars
  <2>. QED BY <2>1, <2>2, <2>3
<1>. QED BY <1>1, <1>2, GenerationInvariant, PTL DEF Spec, Stream!Spec, ImplementsGreedyStream
=============================================================================
