-------------------------- MODULE ExpertCache_proofs ---------------------------
(***************************************************************************)
(* Proofs about the L1 cache by itself (GpuSLRU), under any caller, and    *)
(* about ExpertCache, which drives it, for any number of layers, experts,  *)
(* slots and prefetch threads, any warmup and any routing: a forward only  *)
(* computes on the GPU with experts the cache holds and, without the batch *)
(* prefetch of CpuExpertRunner, no transfer is redundant, only an access   *)
(* moves an expert into the protected segment and, in decoding, nothing    *)
(* the step has accessed is evicted.                                       *)
(***************************************************************************)
EXTENDS ExpertCache, GpuSLRU, SequenceTheorems, DataFacts_proofs

(***************************************************************************)
(* Facts about recency orders (what removal, appending and picking the     *)
(* least position do to the length and to the keys of an order) and about  *)
(* the operators of SegmentedLRU on cache values, on which the proofs of   *)
(* GpuSLRU and of ExpertCache rest: each keeps the cache value sound and   *)
(* accounts for every resident expert.                                     *)
(***************************************************************************)

\* Removing position n shifts the later entries down by one.
LEMMA RemoveAtProperties ==
    ASSUME NEW S, NEW s \in Seq(S), NEW n \in 1 .. Len(s)
    PROVE  /\ RemoveAt(s, n) \in Seq(S)
           /\ Len(RemoveAt(s, n)) = Len(s) - 1
           /\ \A j \in 1 .. Len(s) - 1 :
                 RemoveAt(s, n)[j] = IF j < n THEN s[j] ELSE s[j + 1]
<1> DEFINE a == SubSeq(s, 1, n - 1)
           b == SubSeq(s, n + 1, Len(s))
<1>1. /\ a \in Seq(S)
      /\ Len(a) = n - 1
      /\ \A i \in 1 .. n - 1 : a[i] = s[i]
  <2>1. \A i \in 1 .. n - 1 : s[i] \in S
    BY ElementOfSeq
  <2> QED
    BY <2>1, SubSeqProperties
<1>2. /\ b \in Seq(S)
      /\ Len(b) = Len(s) - n
      /\ \A i \in 1 .. Len(s) - n : b[i] = s[n + i]
  <2>1. \A i \in n + 1 .. Len(s) : s[i] \in S
    BY ElementOfSeq
  <2>2. /\ b \in Seq(S)
        /\ Len(b) = IF n + 1 <= Len(s) THEN Len(s) - (n + 1) + 1 ELSE 0
        /\ \A i \in 1 .. Len(s) - (n + 1) + 1 : b[i] = s[(n + 1) + i - 1]
    BY <2>1, SubSeqProperties
  <2> QED
    BY <2>2
<1>3. /\ a \o b \in Seq(S)
      /\ Len(a \o b) = Len(a) + Len(b)
      /\ \A i \in 1 .. Len(a) + Len(b) :
            (a \o b)[i] = IF i <= Len(a) THEN a[i] ELSE b[i - Len(a)]
  BY <1>1, <1>2, ConcatProperties
<1>4. RemoveAt(s, n) = a \o b
  BY DEF RemoveAt
<1> HIDE DEF a, b
<1>5. Len(a \o b) = Len(s) - 1
  BY <1>1, <1>2, <1>3
<1>6. ASSUME NEW j \in 1 .. Len(s) - 1
      PROVE  (a \o b)[j] = IF j < n THEN s[j] ELSE s[j + 1]
  <2>1. CASE j < n
    BY <2>1, <1>1, <1>2, <1>3
  <2>2. CASE ~ (j < n)
    <3>1. /\ (a \o b)[j] = b[j - (n - 1)]
          /\ j - (n - 1) \in 1 .. Len(s) - n
      BY <2>2, <1>1, <1>2, <1>3
    <3>2. b[j - (n - 1)] = s[n + (j - (n - 1))]
      BY <3>1, <1>2
    <3>3. n + (j - (n - 1)) = j + 1
      OBVIOUS
    <3> QED
      BY <2>2, <3>1, <3>2, <3>3
  <2> QED
    BY <2>1, <2>2
<1> QED
  BY <1>3, <1>4, <1>5, <1>6

\* Removal takes exactly the removed key out of a duplicate-free order.
LEMMA RemoveAtKeys ==
    ASSUME NEW S, NEW s \in Seq(S), NEW n \in 1 .. Len(s), Distinct(s)
    PROVE  /\ Distinct(RemoveAt(s, n))
           /\ ToSet(RemoveAt(s, n)) = ToSet(s) \ {s[n]}
<1> DEFINE r == RemoveAt(s, n)
<1>1. /\ r \in Seq(S)
      /\ Len(r) = Len(s) - 1
      /\ \A j \in 1 .. Len(s) - 1 : r[j] = IF j < n THEN s[j] ELSE s[j + 1]
  BY RemoveAtProperties
<1>2. DOMAIN r = 1 .. Len(s) - 1 /\ DOMAIN s = 1 .. Len(s)
  BY <1>1
<1> HIDE DEF r
<1>3. Distinct(r)
  <2> SUFFICES ASSUME NEW i \in 1 .. Len(s) - 1, NEW j \in 1 .. Len(s) - 1,
                      r[i] = r[j]
               PROVE  i = j
    BY <1>2 DEF Distinct
  <2> DEFINE at(k) == IF k < n THEN k ELSE k + 1
  <2>1. /\ at(i) \in 1 .. Len(s) /\ r[i] = s[at(i)]
        /\ at(j) \in 1 .. Len(s) /\ r[j] = s[at(j)]
    BY <1>1
  <2>2. at(i) = at(j)
    BY <2>1, <1>2 DEF Distinct
  <2> QED
    BY <2>2
<1>4. ToSet(r) \subseteq ToSet(s) \ {s[n]}
  <2> SUFFICES ASSUME NEW j \in 1 .. Len(s) - 1
               PROVE  r[j] \in ToSet(s) \ {s[n]}
    BY <1>2 DEF ToSet
  <2>1. PICK m \in 1 .. Len(s) : m # n /\ r[j] = s[m]
    <3>1. CASE j < n
      BY <3>1, <1>1
    <3>2. CASE ~ (j < n)
      <4>1. j + 1 \in 1 .. Len(s) /\ j + 1 # n /\ r[j] = s[j + 1]
        BY <3>2, <1>1
      <4> QED
        BY <4>1
    <3> QED
      BY <3>1, <3>2
  <2>2. s[m] # s[n]
    BY <2>1, <1>2 DEF Distinct
  <2>3. s[m] \in ToSet(s)
    BY <1>2 DEF ToSet
  <2> QED
    BY <2>1, <2>2, <2>3
<1>5. ToSet(s) \ {s[n]} \subseteq ToSet(r)
  <2> SUFFICES ASSUME NEW i \in 1 .. Len(s), s[i] # s[n]
               PROVE  s[i] \in ToSet(r)
    BY <1>2 DEF ToSet
  <2>1. CASE i < n
    <3>1. i \in 1 .. Len(s) - 1 /\ r[i] = s[i]
      BY <2>1, <1>1
    <3> QED
      BY <3>1, <1>2 DEF ToSet
  <2>2. CASE i > n
    <3>1. i - 1 \in 1 .. Len(s) - 1 /\ r[i - 1] = s[i]
      BY <2>2, <1>1
    <3> QED
      BY <3>1, <1>2 DEF ToSet
  <2> QED
    BY <2>1, <2>2
<1> QED
  BY <1>3, <1>4, <1>5 DEF r

\* Appending a new key adds exactly that key.
LEMMA AppendKeys ==
    ASSUME NEW S, NEW s \in Seq(S), NEW k \in S, Distinct(s), k \notin ToSet(s)
    PROVE  /\ Append(s, k) \in Seq(S)
           /\ Len(Append(s, k)) = Len(s) + 1
           /\ Distinct(Append(s, k))
           /\ ToSet(Append(s, k)) = ToSet(s) \cup {k}
<1> DEFINE a == Append(s, k)
<1>1. /\ a \in Seq(S)
      /\ Len(a) = Len(s) + 1
      /\ \A i \in 1 .. Len(s) : a[i] = s[i]
      /\ a[Len(s) + 1] = k
  BY AppendProperties
<1>2. DOMAIN a = 1 .. Len(s) + 1 /\ DOMAIN s = 1 .. Len(s)
  BY <1>1
<1> HIDE DEF a
<1>3. \A i \in 1 .. Len(s) : s[i] # k
  BY <1>2 DEF ToSet
<1>4. Distinct(a)
  BY <1>1, <1>2, <1>3 DEF Distinct
<1>5. ToSet(a) = ToSet(s) \cup {k}
  <2>1. ToSet(a) \subseteq ToSet(s) \cup {k}
    BY <1>1, <1>2 DEF ToSet
  <2>2. ToSet(s) \subseteq ToSet(a)
    BY <1>1, <1>2 DEF ToSet
  <2>3. k \in ToSet(a)
    BY <1>1, <1>2 DEF ToSet
  <2> QED
    BY <2>1, <2>2, <2>3
<1> QED
  BY <1>1, <1>4, <1>5 DEF a

\* Popping a key that is present removes exactly that key.
LEMMA PopKeys ==
    ASSUME NEW S, NEW s \in Seq(S), NEW k \in ToSet(s), Distinct(s)
    PROVE  /\ Pop(s, k) \in Seq(S)
           /\ Len(Pop(s, k)) = Len(s) - 1
           /\ Distinct(Pop(s, k))
           /\ ToSet(Pop(s, k)) = ToSet(s) \ {k}
<1>1. Position(s, k) \in 1 .. Len(s) /\ s[Position(s, k)] = k
  <2>1. \E i \in DOMAIN s : s[i] = k
    BY DEF ToSet
  <2> QED
    BY <2>1 DEF Position
<1> QED
  BY <1>1, RemoveAtProperties, RemoveAtKeys DEF Pop

\* Moving a key to the end changes the order only.
LEMMA MoveToEndKeys ==
    ASSUME NEW S, NEW s \in Seq(S), NEW k \in ToSet(s), Distinct(s)
    PROVE  /\ MoveToEnd(s, k) \in Seq(S)
           /\ Len(MoveToEnd(s, k)) = Len(s)
           /\ Distinct(MoveToEnd(s, k))
           /\ ToSet(MoveToEnd(s, k)) = ToSet(s)
<1>1. /\ Pop(s, k) \in Seq(S)
      /\ Len(Pop(s, k)) = Len(s) - 1
      /\ Distinct(Pop(s, k))
      /\ ToSet(Pop(s, k)) = ToSet(s) \ {k}
  BY PopKeys
<1>2. k \in S /\ Len(s) \in Nat
  <2>1. PICK i \in DOMAIN s : s[i] = k
    BY DEF ToSet
  <2> QED
    BY <2>1, ElementOfSeq
<1>3. /\ Append(Pop(s, k), k) \in Seq(S)
      /\ Len(Append(Pop(s, k), k)) = Len(Pop(s, k)) + 1
      /\ Distinct(Append(Pop(s, k), k))
      /\ ToSet(Append(Pop(s, k), k)) = ToSet(Pop(s, k)) \cup {k}
  BY <1>1, <1>2, AppendKeys
<1> QED
  BY <1>1, <1>2, <1>3 DEF MoveToEnd

\* A suffix of an order is an order of some of its keys.
LEMMA SuffixKeys ==
    ASSUME NEW S, NEW s \in Seq(S), NEW m \in 1 .. Len(s) + 1, Distinct(s)
    PROVE  /\ SubSeq(s, m, Len(s)) \in Seq(S)
           /\ Len(SubSeq(s, m, Len(s))) = Len(s) - m + 1
           /\ Distinct(SubSeq(s, m, Len(s)))
           /\ ToSet(SubSeq(s, m, Len(s))) \subseteq ToSet(s)
<1> DEFINE t == SubSeq(s, m, Len(s))
<1>1. \A i \in m .. Len(s) : s[i] \in S
  BY ElementOfSeq
<1>2. /\ t \in Seq(S)
      /\ Len(t) = IF m <= Len(s) THEN Len(s) - m + 1 ELSE 0
      /\ \A i \in 1 .. Len(s) - m + 1 : t[i] = s[m + i - 1]
  BY <1>1, SubSeqProperties
<1>3. Len(t) = Len(s) - m + 1
  BY <1>2
<1>4. DOMAIN t = 1 .. Len(s) - m + 1 /\ DOMAIN s = 1 .. Len(s)
  BY <1>2, <1>3
<1> HIDE DEF t
<1>5. \A i \in DOMAIN t : m + i - 1 \in DOMAIN s /\ t[i] = s[m + i - 1]
  <2> SUFFICES ASSUME NEW i \in 1 .. Len(s) - m + 1
               PROVE  m + i - 1 \in 1 .. Len(s) /\ t[i] = s[m + i - 1]
    BY <1>4
  <2>1. Len(s) \in Nat /\ m \in Nat /\ i \in Nat
    OBVIOUS
  <2>2. m + i - 1 \in 1 .. Len(s)
    BY <2>1
  <2> QED
    BY <2>2, <1>2
<1>6. Distinct(t)
  <2> SUFFICES ASSUME NEW i \in DOMAIN t, NEW j \in DOMAIN t, t[i] = t[j]
               PROVE  i = j
    BY DEF Distinct
  <2>1. m + i - 1 = m + j - 1
    BY <1>5 DEF Distinct
  <2> QED
    BY <2>1, <1>4
<1>7. ToSet(t) \subseteq ToSet(s)
  BY <1>5 DEF ToSet
<1> QED
  BY <1>2, <1>3, <1>6, <1>7 DEF t

\* An order has no more keys than entries.
LEMMA CardinalityOfKeys ==
    ASSUME NEW S, NEW s \in Seq(S)
    PROVE  /\ IsFiniteSet(ToSet(s))
           /\ Cardinality(ToSet(s)) <= Len(s)
<1>1. s \in Surjection(1 .. Len(s), ToSet(s))
  BY DEF Surjection, ToSet
<1>2. /\ IsFiniteSet(1 .. Len(s))
      /\ Cardinality(1 .. Len(s)) = Len(s)
  <2>1. Len(s) \in Nat
    BY LenProperties
  <2>2. Cardinality(1 .. Len(s)) = IF 1 > Len(s) THEN 0 ELSE Len(s) - 1 + 1
    BY <2>1, FS_Interval
  <2> QED
    BY <2>1, <2>2, FS_Interval
<1> QED
  BY <1>1, <1>2, FS_Surjection
----------------------------------------------------------------------------
(* Cache values.                                                           *)

Orders == [prot : Seq(Keys), prob : Seq(Keys)]

Apart(c) == /\ Distinct(c.prot)
            /\ Distinct(c.prob)
            /\ ToSet(c.prot) \cap ToSet(c.prob) = {}

Fits(c) == /\ Len(c.prot) <= ProtectedCapacity
           /\ Len(c.prob) <= ProbationCapacity

Sound(c) == c \in Orders /\ Apart(c) /\ Fits(c)

\* The victim scan always returns a position of a non-empty order.
LEMMA VictimIndexType ==
    ASSUME NEW od \in Seq(Keys), Len(od) > 0, NEW lay, NEW keep
    PROVE  VictimIndex(od, lay, keep) \in 1 .. Len(od)
<1> DEFINE I == {i \in DOMAIN od : ~ Spared(od[i], lay, keep)}
<1>1. CASE I = {}
  BY <1>1 DEF VictimIndex
<1>2. CASE I # {}
  <2>1. I \in SUBSET Nat
    OBVIOUS
  <2>2. \E i \in I : \A j \in I : i <= j
    BY <1>2, <2>1, LeastPosition
  <2>3. VictimIndex(od, lay, keep) = CHOOSE i \in I : \A j \in I : i <= j
    BY <1>2 DEF VictimIndex
  <2>4. VictimIndex(od, lay, keep) \in I
    BY <2>2, <2>3
  <2> QED
    BY <2>4
<1> QED
  BY <1>1, <1>2

\* Replacing the entry at one position by a new key at the end.
LEMMA ReplaceKeys ==
    ASSUME NEW od \in Seq(Keys), Distinct(od), NEW v \in 1 .. Len(od),
           NEW k \in Keys, k \notin ToSet(od)
    PROVE  LET r == Append(RemoveAt(od, v), k)
           IN  /\ r \in Seq(Keys)
               /\ Len(r) = Len(od)
               /\ Distinct(r)
               /\ ToSet(r) = (ToSet(od) \ {od[v]}) \cup {k}
               /\ od[v] \in ToSet(od)
<1>1. /\ RemoveAt(od, v) \in Seq(Keys)
      /\ Len(RemoveAt(od, v)) = Len(od) - 1
  BY RemoveAtProperties
<1>2. /\ Distinct(RemoveAt(od, v))
      /\ ToSet(RemoveAt(od, v)) = ToSet(od) \ {od[v]}
  BY RemoveAtKeys
<1>3. /\ Append(RemoveAt(od, v), k) \in Seq(Keys)
      /\ Len(Append(RemoveAt(od, v), k)) = Len(RemoveAt(od, v)) + 1
      /\ Distinct(Append(RemoveAt(od, v), k))
      /\ ToSet(Append(RemoveAt(od, v), k)) = ToSet(RemoveAt(od, v)) \cup {k}
  BY <1>1, <1>2, AppendKeys
<1>4. od[v] \in ToSet(od)
  BY DEF ToSet
<1> QED
  BY <1>1, <1>2, <1>3, <1>4

\* A promotion that starts with a free probation slot (the one the promoted
\* key has just left) keeps every resident expert.
LEMMA PromoteSound ==
    ASSUME NEW c \in Orders, Apart(c), Fits(c),
           Len(c.prob) < ProbationCapacity,
           NEW k \in Keys, k \notin Resident(c), NEW lay, NEW keep
    PROVE  /\ Sound(Promote(c, k, lay, keep))
           /\ Resident(Promote(c, k, lay, keep)) = Resident(c) \cup {k}
<1> DEFINE p == Promote(c, k, lay, keep)
<1>0. /\ c.prot \in Seq(Keys) /\ c.prob \in Seq(Keys)
      /\ Distinct(c.prot) /\ Distinct(c.prob)
      /\ ToSet(c.prot) \cap ToSet(c.prob) = {}
      /\ k \notin ToSet(c.prot) /\ k \notin ToSet(c.prob)
      /\ Len(c.prot) \in Nat /\ Len(c.prob) \in Nat
      /\ ProtectedCapacity \in Nat \ {0} /\ ProbationCapacity \in Nat \ {0}
  BY CapacityAssumption DEF Orders, Apart, Resident
<1>1. CASE Len(c.prot) < ProtectedCapacity
  <2>1. p = [prot |-> Append(c.prot, k), prob |-> c.prob]
    BY <1>1 DEF Promote, Orders
  <2>2. /\ Append(c.prot, k) \in Seq(Keys)
        /\ Len(Append(c.prot, k)) = Len(c.prot) + 1
        /\ Distinct(Append(c.prot, k))
        /\ ToSet(Append(c.prot, k)) = ToSet(c.prot) \cup {k}
    BY <1>0, AppendKeys
  <2>3. Len(p.prot) <= ProtectedCapacity /\ Len(p.prob) <= ProbationCapacity
    BY <1>0, <1>1, <2>1, <2>2 DEF Fits
  <2>4. p \in Orders /\ Apart(p)
    BY <1>0, <2>1, <2>2 DEF Orders, Apart
  <2>5. Resident(p) = Resident(c) \cup {k}
    BY <2>1, <2>2 DEF Resident
  <2> QED
    BY <2>3, <2>4, <2>5 DEF Sound, Fits
<1>2. CASE ~ (Len(c.prot) < ProtectedCapacity)
  <2> DEFINE v == VictimIndex(c.prot, lay, keep)
             d == c.prot[v]
             r == Append(RemoveAt(c.prot, v), k)
             b == Append(c.prob, d)
  <2>1. v \in 1 .. Len(c.prot)
    BY <1>0, <1>2, VictimIndexType
  <2>2. /\ r \in Seq(Keys)
        /\ Len(r) = Len(c.prot)
        /\ Distinct(r)
        /\ ToSet(r) = (ToSet(c.prot) \ {d}) \cup {k}
        /\ d \in ToSet(c.prot)
    BY <1>0, <2>1, ReplaceKeys
  <2>3. d \in Keys /\ d \notin ToSet(c.prob)
    BY <1>0, <2>1, <2>2, ElementOfSeq
  <2>4. /\ b \in Seq(Keys)
        /\ Len(b) = Len(c.prob) + 1
        /\ Distinct(b)
        /\ ToSet(b) = ToSet(c.prob) \cup {d}
    BY <1>0, <2>3, AppendKeys
  <2>5. p = [prot |-> r, prob |-> b]
    <3>1. PushProbation(c.prob, d) = b
      BY <1>0 DEF PushProbation
    <3>2. p = [prot |-> r, prob |-> PushProbation(c.prob, d)]
      BY <1>2, Zenon DEF Promote
    <3> QED
      BY <3>1, <3>2
  <2> HIDE DEF p, r, b, d, v
  <2>6. p \in Orders
    BY <2>2, <2>4, <2>5 DEF Orders
  <2>7. Apart(p)
    BY <1>0, <2>2, <2>4, <2>5 DEF Apart
  <2>8. Fits(p)
    BY <1>0, <2>2, <2>4, <2>5 DEF Fits
  <2>9. Resident(p) = Resident(c) \cup {k}
    BY <2>2, <2>4, <2>5 DEF Resident
  <2> QED
    BY <2>6, <2>7, <2>8, <2>9 DEF Sound, p
<1> QED
  BY <1>1, <1>2

\* A hit in protected keeps the resident set.
LEMMA ProtectedHitSound ==
    ASSUME NEW c, Sound(c), NEW k \in ToSet(c.prot)
    PROVE  /\ Sound([c EXCEPT !.prot = MoveToEnd(@, k)])
           /\ Resident([c EXCEPT !.prot = MoveToEnd(@, k)]) = Resident(c)
<1> DEFINE m == [c EXCEPT !.prot = MoveToEnd(@, k)]
           r == MoveToEnd(c.prot, k)
<1>0. /\ c \in Orders /\ c.prot \in Seq(Keys) /\ c.prob \in Seq(Keys)
      /\ Distinct(c.prot) /\ Distinct(c.prob)
      /\ ToSet(c.prot) \cap ToSet(c.prob) = {}
      /\ Len(c.prot) <= ProtectedCapacity /\ Len(c.prob) <= ProbationCapacity
  BY DEF Sound, Orders, Apart, Fits
<1>1. /\ r \in Seq(Keys) /\ Len(r) = Len(c.prot)
      /\ Distinct(r) /\ ToSet(r) = ToSet(c.prot)
  BY <1>0, MoveToEndKeys
<1>2. m \in Orders /\ m.prot = r /\ m.prob = c.prob
  BY <1>0, <1>1 DEF Orders
<1> HIDE DEF m, r
<1>3. Sound(m)
  BY <1>0, <1>1, <1>2 DEF Sound, Apart, Fits
<1>4. Resident(m) = Resident(c)
  BY <1>1, <1>2 DEF Resident
<1> QED
  BY <1>3, <1>4 DEF m

\* A hit in probation, which promotes, keeps it too.
LEMMA ProbationHitSound ==
    ASSUME NEW c, Sound(c), NEW k, k \in Resident(c), k \notin ToSet(c.prot),
           NEW lay, NEW keep
    PROVE  LET m == Promote([c EXCEPT !.prob = Pop(@, k)], k, lay, keep)
           IN  Sound(m) /\ Resident(m) = Resident(c)
<1> DEFINE q == [c EXCEPT !.prob = Pop(@, k)]
           b == Pop(c.prob, k)
<1>0. /\ c \in Orders /\ c.prot \in Seq(Keys) /\ c.prob \in Seq(Keys)
      /\ Distinct(c.prot) /\ Distinct(c.prob)
      /\ ToSet(c.prot) \cap ToSet(c.prob) = {}
      /\ Len(c.prot) \in Nat /\ Len(c.prob) \in Nat
      /\ Len(c.prot) <= ProtectedCapacity /\ Len(c.prob) <= ProbationCapacity
  BY DEF Sound, Orders, Apart, Fits
<1>1. k \in ToSet(c.prob) /\ k \in Keys
  <2>1. k \in ToSet(c.prob)
    BY DEF Resident
  <2>2. ToSet(c.prob) \subseteq Keys
    BY <1>0, ElementOfSeq DEF ToSet
  <2> QED
    BY <2>1, <2>2
<1>2. /\ b \in Seq(Keys) /\ Len(b) = Len(c.prob) - 1
      /\ Distinct(b) /\ ToSet(b) = ToSet(c.prob) \ {k}
  BY <1>0, <1>1, PopKeys
<1>3. q \in Orders /\ q.prot = c.prot /\ q.prob = b
  BY <1>0, <1>2 DEF Orders
<1> HIDE DEF q, b
<1>4. /\ Apart(q) /\ Fits(q) /\ Len(q.prob) < ProbationCapacity
      /\ k \notin Resident(q)
  BY <1>0, <1>2, <1>3, CapacityAssumption DEF Apart, Fits, Resident
<1>5. /\ Sound(Promote(q, k, lay, keep))
      /\ Resident(Promote(q, k, lay, keep)) = Resident(q) \cup {k}
  BY <1>1, <1>3, <1>4, PromoteSound
<1>6. Resident(q) \cup {k} = Resident(c)
  BY <1>1, <1>2, <1>3 DEF Resident
<1> QED
  BY <1>5, <1>6 DEF q

\* get, on a hit.
LEMMA GetSound ==
    ASSUME NEW c, Sound(c), NEW k \in Resident(c), NEW lay
    PROVE  Sound(Get(c, k, lay)) /\ Resident(Get(c, k, lay)) = Resident(c)
<1>1. CASE k \in ToSet(c.prot)
  BY <1>1, ProtectedHitSound DEF Get
<1>2. CASE k \notin ToSet(c.prot)
  <2> DEFINE m == Promote([c EXCEPT !.prob = Pop(@, k)], k, lay, {})
  <2>1. Sound(m) /\ Resident(m) = Resident(c)
    BY <1>2, ProbationHitSound
  <2>2. Get(c, k, lay) = m
    BY <1>2 DEF Get
  <2> HIDE DEF m
  <2> QED
    BY <2>1, <2>2
<1> QED
  BY <1>1, <1>2

\* Inserting a key that the order does not hold yet.
LEMMA AdmitKeys ==
    ASSUME NEW od \in Seq(Keys), Distinct(od),
           NEW capacity \in Nat \ {0}, Len(od) <= capacity,
           NEW k \in Keys, k \notin ToSet(od), NEW lay, NEW keep
    PROVE  LET a == Admit(od, capacity, k, lay, keep)
           IN  /\ a.order \in Seq(Keys)
               /\ Len(a.order) <= capacity
               /\ Distinct(a.order)
               /\ ToSet(a.order) = (ToSet(od) \ a.evicted) \cup {k}
               /\ a.evicted \in SUBSET ToSet(od)
<1> DEFINE a == Admit(od, capacity, k, lay, keep)
<1>0. Len(od) \in Nat
  OBVIOUS
<1>1. CASE Len(od) < capacity
  <2>1. a = [order |-> Append(od, k), evicted |-> {}]
    BY <1>1 DEF Admit
  <2>2. /\ Append(od, k) \in Seq(Keys)
        /\ Len(Append(od, k)) = Len(od) + 1
        /\ Distinct(Append(od, k))
        /\ ToSet(Append(od, k)) = ToSet(od) \cup {k}
    BY AppendKeys
  <2> HIDE DEF a
  <2>3. /\ a.order \in Seq(Keys)
        /\ Len(a.order) <= capacity
        /\ Distinct(a.order)
        /\ ToSet(a.order) = (ToSet(od) \ a.evicted) \cup {k}
        /\ a.evicted \in SUBSET ToSet(od)
    BY <1>0, <1>1, <2>1, <2>2
  <2> QED
    BY <2>3 DEF a
<1>2. CASE ~ (Len(od) < capacity)
  <2> DEFINE v == VictimIndex(od, lay, keep)
             r == Append(RemoveAt(od, v), k)
  <2>1. v \in 1 .. Len(od)
    BY <1>0, <1>2, VictimIndexType
  <2>2. /\ r \in Seq(Keys)
        /\ Len(r) = Len(od)
        /\ Distinct(r)
        /\ ToSet(r) = (ToSet(od) \ {od[v]}) \cup {k}
        /\ od[v] \in ToSet(od)
    BY <2>1, ReplaceKeys
  <2>3. a = [order |-> r, evicted |-> {od[v]}]
    BY <1>2, Zenon DEF Admit
  <2> HIDE DEF a, r, v
  <2>4. /\ a.order \in Seq(Keys)
        /\ Len(a.order) <= capacity
        /\ Distinct(a.order)
        /\ ToSet(a.order) = (ToSet(od) \ a.evicted) \cup {k}
        /\ a.evicted \in SUBSET ToSet(od)
    BY <2>2, <2>3
  <2> QED
    BY <2>4 DEF a
<1> QED
  BY <1>1, <1>2

\* What an insertion does to a sound cache, whichever segment it goes to:
\* exactly the returned entries leave, and never the inserted one.
Inserted(c, k, r) ==
    /\ Sound(r.cache)
    /\ Resident(r.cache) = (Resident(c) \ r.evicted) \cup {k}
    /\ r.evicted \in SUBSET (Resident(c) \ {k})

LEMMA PutForceSound ==
    ASSUME NEW c, Sound(c), NEW k \in Keys, NEW lay, NEW keep
    PROVE  Inserted(c, k, PutForce(c, k, lay, keep))
<1> DEFINE f == PutForce(c, k, lay, keep)
<1>0. /\ c \in Orders /\ c.prot \in Seq(Keys) /\ c.prob \in Seq(Keys)
      /\ Distinct(c.prot) /\ Distinct(c.prob)
      /\ ToSet(c.prot) \cap ToSet(c.prob) = {}
      /\ Len(c.prot) <= ProtectedCapacity /\ Len(c.prob) <= ProbationCapacity
  BY DEF Sound, Orders, Apart, Fits
<1>1. CASE k \in ToSet(c.prot)
  <2> DEFINE m == [c EXCEPT !.prot = MoveToEnd(@, k)]
  <2>1. k \in Resident(c)
    BY <1>1 DEF Resident
  <2>2. Sound(m) /\ Resident(m) = Resident(c)
    BY <1>1, ProtectedHitSound
  <2>3. f = [cache |-> m, evicted |-> {}]
    BY <1>1 DEF PutForce
  <2> HIDE DEF m, f
  <2>4. Inserted(c, k, f)
    BY <2>1, <2>2, <2>3 DEF Inserted
  <2> QED
    BY <2>4 DEF f
<1>2. CASE k \notin ToSet(c.prot) /\ k \in ToSet(c.prob)
  <2> DEFINE m == Promote([c EXCEPT !.prob = Pop(@, k)], k, lay, keep)
  <2>1. k \in Resident(c)
    BY <1>2 DEF Resident
  <2>2. Sound(m) /\ Resident(m) = Resident(c)
    BY <1>2, <2>1, ProbationHitSound
  <2>3. f = [cache |-> m, evicted |-> {}]
    BY <1>2 DEF PutForce
  <2> HIDE DEF m, f
  <2>4. Inserted(c, k, f)
    BY <2>1, <2>2, <2>3 DEF Inserted
  <2> QED
    BY <2>4 DEF f
<1>3. CASE k \notin ToSet(c.prot) /\ k \notin ToSet(c.prob)
  <2> DEFINE a == Admit(c.prob, ProbationCapacity, k, lay, keep)
             m == [c EXCEPT !.prob = a.order]
  <2>1. /\ a.order \in Seq(Keys)
        /\ Len(a.order) <= ProbationCapacity
        /\ Distinct(a.order)
        /\ ToSet(a.order) = (ToSet(c.prob) \ a.evicted) \cup {k}
        /\ a.evicted \in SUBSET ToSet(c.prob)
    BY <1>0, <1>3, AdmitKeys, CapacityAssumption
  <2>2. f = [cache |-> m, evicted |-> a.evicted]
    BY <1>3, Zenon DEF PutForce
  <2> HIDE DEF f, a
  <2>3. m \in Orders /\ m.prot = c.prot /\ m.prob = a.order
    BY <1>0, <2>1 DEF Orders
  <2> HIDE DEF m
  <2>4. Sound(m)
    BY <1>0, <1>3, <2>1, <2>3 DEF Sound, Apart, Fits
  <2>5. /\ Resident(m) = (Resident(c) \ a.evicted) \cup {k}
        /\ a.evicted \in SUBSET (Resident(c) \ {k})
    BY <1>0, <1>3, <2>1, <2>3 DEF Resident
  <2>6. Inserted(c, k, f)
    BY <2>2, <2>4, <2>5 DEF Inserted
  <2> QED
    BY <2>6 DEF f
<1> QED
  BY <1>1, <1>2, <1>3

LEMMA PutForceProtectedSound ==
    ASSUME NEW c, Sound(c), NEW k \in Keys, NEW lay, NEW keep
    PROVE  Inserted(c, k, PutForceProtected(c, k, lay, keep))
<1> DEFINE f == PutForceProtected(c, k, lay, keep)
<1>0. /\ c \in Orders /\ c.prot \in Seq(Keys) /\ c.prob \in Seq(Keys)
      /\ Distinct(c.prot) /\ Distinct(c.prob)
      /\ ToSet(c.prot) \cap ToSet(c.prob) = {}
      /\ Len(c.prot) \in Nat /\ Len(c.prob) \in Nat
      /\ Len(c.prot) <= ProtectedCapacity /\ Len(c.prob) <= ProbationCapacity
  BY DEF Sound, Orders, Apart, Fits
<1>1. CASE k \in ToSet(c.prot)
  <2> DEFINE m == [c EXCEPT !.prot = MoveToEnd(@, k)]
  <2>1. k \in Resident(c)
    BY <1>1 DEF Resident
  <2>2. Sound(m) /\ Resident(m) = Resident(c)
    BY <1>1, ProtectedHitSound
  <2>3. f = [cache |-> m, evicted |-> {}]
    BY <1>1 DEF PutForceProtected
  <2> HIDE DEF m, f
  <2>4. Inserted(c, k, f)
    BY <2>1, <2>2, <2>3 DEF Inserted
  <2> QED
    BY <2>4 DEF f
<1>2. CASE k \notin ToSet(c.prot)
  <2> DEFINE a == Admit(c.prot, ProtectedCapacity, k, lay, keep)
             b == IF k \in ToSet(c.prob) THEN Pop(c.prob, k) ELSE c.prob
             m == [prot |-> a.order, prob |-> b]
  <2>1. /\ a.order \in Seq(Keys)
        /\ Len(a.order) <= ProtectedCapacity
        /\ Distinct(a.order)
        /\ ToSet(a.order) = (ToSet(c.prot) \ a.evicted) \cup {k}
        /\ a.evicted \in SUBSET ToSet(c.prot)
    BY <1>0, <1>2, AdmitKeys, CapacityAssumption
  <2>2. /\ b \in Seq(Keys) /\ Len(b) <= ProbationCapacity
        /\ Distinct(b) /\ ToSet(b) = ToSet(c.prob) \ {k}
    <3>1. CASE k \in ToSet(c.prob)
      <4>1. /\ Pop(c.prob, k) \in Seq(Keys)
            /\ Len(Pop(c.prob, k)) = Len(c.prob) - 1
            /\ Distinct(Pop(c.prob, k))
            /\ ToSet(Pop(c.prob, k)) = ToSet(c.prob) \ {k}
        BY <1>0, <3>1, PopKeys
      <4>2. b = Pop(c.prob, k)
        BY <3>1
      <4> HIDE DEF b
      <4> QED
        BY <1>0, <4>1, <4>2, CapacityAssumption
    <3>2. CASE k \notin ToSet(c.prob)
      BY <1>0, <3>2
    <3> QED
      BY <3>1, <3>2
  <2>3. f = [cache |-> m, evicted |-> a.evicted]
    BY <1>2, Zenon DEF PutForceProtected
  <2> HIDE DEF f, a, b
  <2>4. m \in Orders /\ m.prot = a.order /\ m.prob = b
    BY <2>1, <2>2 DEF Orders
  <2> HIDE DEF m
  <2>5. Sound(m)
    BY <1>0, <2>1, <2>2, <2>4 DEF Sound, Apart, Fits
  <2>6. /\ Resident(m) = (Resident(c) \ a.evicted) \cup {k}
        /\ a.evicted \in SUBSET (Resident(c) \ {k})
    BY <1>0, <1>2, <2>1, <2>2, <2>4 DEF Resident
  <2>7. Inserted(c, k, f)
    BY <2>3, <2>5, <2>6 DEF Inserted
  <2> QED
    BY <2>7 DEF f
<1> QED
  BY <1>1, <1>2

LEMMA HalfOf ==
    ASSUME NEW n \in Nat
    PROVE  n \div 2 \in Nat /\ 2 * (n \div 2) <= n
OBVIOUS

\* The two lengths that evict_half cuts off are within the segments.
LEMMA HalfSplit ==
    ASSUME NEW p \in Nat, NEW q \in Nat
    PROVE  LET half     == (p + q) \div 2
               fromProb == IF half <= q THEN half ELSE q
           IN  /\ half - fromProb + 1 \in 1 .. p + 1
               /\ fromProb + 1 \in 1 .. q + 1
<1>1. /\ (p + q) \div 2 \in Nat
      /\ 2 * ((p + q) \div 2) <= p + q
  <2>1. p + q \in Nat
    OBVIOUS
  <2> QED
    BY <2>1, HalfOf
<1> DEFINE half == (p + q) \div 2
           fromProb == IF half <= q THEN half ELSE q
<1>2. half \in Nat /\ 2 * half <= p + q
  BY <1>1
<1> HIDE DEF half
<1>3. /\ half - fromProb + 1 \in 1 .. p + 1
      /\ fromProb + 1 \in 1 .. q + 1
  BY <1>2
<1> QED
  BY <1>3 DEF half

\* evict_half only removes.
LEMMA EvictHalfSound ==
    ASSUME NEW c, Sound(c)
    PROVE  /\ Sound(EvictHalf(c))
           /\ Resident(EvictHalf(c)) \in SUBSET Resident(c)
<1>0. /\ c \in Orders /\ c.prot \in Seq(Keys) /\ c.prob \in Seq(Keys)
      /\ Distinct(c.prot) /\ Distinct(c.prob)
      /\ ToSet(c.prot) \cap ToSet(c.prob) = {}
      /\ Len(c.prot) \in Nat /\ Len(c.prob) \in Nat
      /\ Len(c.prot) <= ProtectedCapacity /\ Len(c.prob) <= ProbationCapacity
  BY DEF Sound, Orders, Apart, Fits
<1> DEFINE half == (Len(c.prot) + Len(c.prob)) \div 2
           fromProb == IF half <= Len(c.prob) THEN half ELSE Len(c.prob)
           m == half - fromProb + 1
           n == fromProb + 1
           x == SubSeq(c.prot, m, Len(c.prot))
           y == SubSeq(c.prob, n, Len(c.prob))
           e == EvictHalf(c)
<1>2. m \in 1 .. Len(c.prot) + 1 /\ n \in 1 .. Len(c.prob) + 1
  BY <1>0, HalfSplit, Zenon
<1>3. e = [prot |-> x, prob |-> y]
  BY DEF EvictHalf
<1> HIDE DEF e, m, n, half, fromProb
<1>4. /\ x \in Seq(Keys) /\ Len(x) = Len(c.prot) - m + 1
      /\ Distinct(x) /\ ToSet(x) \subseteq ToSet(c.prot)
  BY <1>0, <1>2, SuffixKeys
<1>5. /\ y \in Seq(Keys) /\ Len(y) = Len(c.prob) - n + 1
      /\ Distinct(y) /\ ToSet(y) \subseteq ToSet(c.prob)
  BY <1>0, <1>2, SuffixKeys
<1> HIDE DEF x, y
<1>6. e \in Orders /\ e.prot = x /\ e.prob = y
  BY <1>3, <1>4, <1>5 DEF Orders
<1>7. Sound(e)
  BY <1>0, <1>2, <1>4, <1>5, <1>6, CapacityAssumption DEF Sound, Apart, Fits
<1>8. Resident(e) \in SUBSET Resident(c)
  BY <1>4, <1>5, <1>6 DEF Resident
<1> QED
  BY <1>7, <1>8 DEF e

\* A sound cache holds at most `capacity` experts.
LEMMA ResidentBound ==
    ASSUME NEW c, Sound(c)
    PROVE  Cardinality(Resident(c)) <= ProtectedCapacity + ProbationCapacity
<1> DEFINE A == ToSet(c.prot)
           B == ToSet(c.prob)
<1>1. /\ c.prot \in Seq(Keys) /\ c.prob \in Seq(Keys)
      /\ Len(c.prot) \in Nat /\ Len(c.prob) \in Nat
      /\ Len(c.prot) <= ProtectedCapacity /\ Len(c.prob) <= ProbationCapacity
  BY DEF Sound, Orders, Fits
<1>2. IsFiniteSet(A) /\ Cardinality(A) <= Len(c.prot)
  BY <1>1, CardinalityOfKeys
<1>3. IsFiniteSet(B) /\ Cardinality(B) <= Len(c.prob)
  BY <1>1, CardinalityOfKeys
<1> HIDE DEF A, B
<1>4. Cardinality(A) \in Nat /\ Cardinality(B) \in Nat
  BY <1>2, <1>3, FS_CardinalityType
<1>5. Cardinality(A \cup B) = Cardinality(A) + Cardinality(B) - Cardinality(A \cap B)
  BY <1>2, <1>3, FS_Union
<1>6. Cardinality(A \cap B) \in Nat
  BY <1>2, FS_Intersection, FS_CardinalityType
<1>7. Resident(c) = A \cup B
  BY DEF Resident, A, B
<1> QED
  BY <1>1, <1>2, <1>3, <1>4, <1>5, <1>6, <1>7, CapacityAssumption

LEMMA EmptySound == Sound(Empty) /\ Resident(Empty) = {}
<1>1. Empty \in Orders
  BY DEF Empty, Orders
<1>2. Empty.prot = <<>> /\ Empty.prob = <<>>
  BY DEF Empty
<1>3. ToSet(<<>>) = {}
  BY DEF ToSet
<1>4. Distinct(<<>>) /\ Len(<<>>) = 0
  BY DEF Distinct
<1>5. Apart(Empty) /\ Fits(Empty)
  BY <1>2, <1>3, <1>4, CapacityAssumption DEF Apart, Fits
<1> QED
  BY <1>1, <1>2, <1>3, <1>5 DEF Sound, Resident

LEMMA ResidentType ==
    ASSUME NEW c, Sound(c)
    PROVE  Resident(c) \subseteq Keys
<1>1. c.prot \in Seq(Keys) /\ c.prob \in Seq(Keys)
  BY DEF Sound, Orders
<1> QED
  BY <1>1, ElementOfSeq DEF Resident, ToSet
\* Inserting a key that is not resident leaves the protected segment alone.
LEMMA PutForceMiss ==
    ASSUME NEW c \in Orders, NEW k, k \notin Resident(c), NEW lay, NEW keep
    PROVE  PutForce(c, k, lay, keep).cache.prot = c.prot
<1> DEFINE a == Admit(c.prob, ProbationCapacity, k, lay, keep)
           m == [c EXCEPT !.prob = a.order]
<1>1. k \notin ToSet(c.prot) /\ k \notin ToSet(c.prob)
  BY DEF Resident
<1>2. PutForce(c, k, lay, keep) = [cache |-> m, evicted |-> a.evicted]
  BY <1>1, Zenon DEF PutForce
<1> HIDE DEF a
<1>3. m.prot = c.prot
  BY DEF Orders
<1> HIDE DEF m
<1>. QED BY <1>2, <1>3

\* A hit brings no key but its own into the protected segment.
LEMMA GetProtects ==
    ASSUME NEW c, Sound(c), NEW k \in Resident(c), NEW lay
    PROVE  ToSet(Get(c, k, lay).prot) \subseteq ToSet(c.prot) \cup {k}
<1>0. /\ c \in Orders /\ c.prot \in Seq(Keys) /\ c.prob \in Seq(Keys)
      /\ Distinct(c.prot) /\ Distinct(c.prob) /\ ToSet(c.prot) \cap ToSet(c.prob) = {}
      /\ Len(c.prot) \in Nat /\ ProtectedCapacity \in Nat \ {0}
  BY CapacityAssumption DEF Sound, Orders, Apart
<1>1. CASE k \in ToSet(c.prot)
  <2>1. ToSet(MoveToEnd(c.prot, k)) = ToSet(c.prot)
    BY <1>0, <1>1, MoveToEndKeys
  <2>2. Get(c, k, lay).prot = MoveToEnd(c.prot, k)
    BY <1>0, <1>1 DEF Get, Orders
  <2>. QED BY <2>1, <2>2
<1>2. CASE k \notin ToSet(c.prot)
  <2> DEFINE q == [c EXCEPT !.prob = Pop(@, k)]
             v == VictimIndex(c.prot, lay, {})
  <2>1. k \in Keys /\ k \in ToSet(c.prob)
    <3>1. k \in ToSet(c.prob)
      BY <1>2 DEF Resident
    <3>2. ToSet(c.prob) \subseteq Keys
      BY <1>0, ElementOfSeq DEF ToSet
    <3>. QED BY <3>1, <3>2
  <2>2. q.prot = c.prot /\ q = [prot |-> c.prot, prob |-> Pop(c.prob, k)]
    BY <1>0 DEF Orders
  <2>3. Get(c, k, lay) = Promote(q, k, lay, {})
    BY <1>2 DEF Get
  <2> HIDE DEF q
  <2>4. CASE Len(c.prot) < ProtectedCapacity
    <3>1. Get(c, k, lay).prot = Append(c.prot, k)
      BY <2>2, <2>3, <2>4 DEF Promote
    <3>2. ToSet(Append(c.prot, k)) = ToSet(c.prot) \cup {k}
      BY <1>0, <1>2, <2>1, AppendKeys
    <3>. QED BY <3>1, <3>2
  <2>5. CASE ~ (Len(c.prot) < ProtectedCapacity)
    <3>1. v \in 1 .. Len(c.prot)
      BY <1>0, <2>5, VictimIndexType
    <3>2. ToSet(Append(RemoveAt(c.prot, v), k)) = (ToSet(c.prot) \ {c.prot[v]}) \cup {k}
      BY <1>0, <1>2, <2>1, <3>1, ReplaceKeys
    <3>3. Promote(q, k, lay, {}) = [prot |-> Append(RemoveAt(q.prot, VictimIndex(q.prot, lay, {})), k),
                                      prob |-> PushProbation(q.prob, q.prot[VictimIndex(q.prot, lay, {})])]
      BY <2>2, <2>5, Zenon DEF Promote
    <3>4. Get(c, k, lay).prot = Append(RemoveAt(c.prot, v), k)
      BY <2>2, <2>3, <3>3
    <3> DEFINE r == Append(RemoveAt(c.prot, v), k)
               d == c.prot[v]
    <3>5. ToSet(r) = (ToSet(c.prot) \ {d}) \cup {k} /\ Get(c, k, lay).prot = r
      BY <3>2, <3>4
    <3> HIDE DEF r, d
    <3>. QED BY <3>5
  <2>. QED BY <2>4, <2>5
<1>. QED BY <1>1, <1>2

(***************************************************************************)
(* The L1 cache by itself, under any caller: its segments stay disjoint    *)
(* and bounded, and the component implements BoundedCache, so that no call *)
(* ever loses an expert silently.  `Sound` is preserved by every operator  *)
(* on cache values (one of the lemmas above each), and it leaves a         *)
(* promotion a free slot in probation, which is why the popitem in         *)
(* _promote_to_protected drops nothing.                                    *)
(***************************************************************************)

SlruInv ==
    /\ Sound(slru)
    /\ returned \in SUBSET Keys
    /\ call \in {"hit", "insert", "shed"}

\* Each call is a step of the abstract cache, from a sound cache to a sound
\* cache; the invariant and the refinement both follow from it.
LEMMA SlruStepSound ==
    ASSUME SlruInv, [SlruNext]_slruVars
    PROVE  SlruInv' /\ [Bounded!Next]_<<Resident(slru), returned, call>>
<1> USE DEF SlruInv
<1>1. ASSUME NEW k \in Keys, GetStep(k)
      PROVE  SlruInv' /\ Bounded!Hit
  <2>1. Sound(slru') /\ Resident(slru') = Resident(slru)
    BY <1>1, GetSound DEF GetStep
  <2> QED
    BY <1>1, <2>1 DEF GetStep, Bounded!Hit
<1>2. ASSUME NEW k \in Keys, Inserted(slru, k, [cache |-> slru', evicted |-> returned']),
             call' = "insert"
      PROVE  SlruInv' /\ Bounded!Insert(k)
  <2>1. /\ Sound(slru')
        /\ Resident(slru') = (Resident(slru) \ returned') \cup {k}
        /\ returned' \in SUBSET (Resident(slru) \ {k})
    BY <1>2 DEF Inserted
  <2>2. Cardinality(Resident(slru')) <= ProtectedCapacity + ProbationCapacity
    BY <2>1, ResidentBound
  <2>3. returned' \in SUBSET Keys
    BY <2>1, ResidentType
  <2>4. Bounded!Insert(k)
    <3>1. Bounded!Cardinality(Resident(slru')) = Cardinality(Resident(slru'))
      BY DEF Bounded!Cardinality, Cardinality
    <3> QED
      BY <1>2, <2>1, <2>2, <3>1 DEF Bounded!Insert
  <2> QED
    BY <1>2, <2>1, <2>3, <2>4
<1>3. ASSUME NEW k \in Keys, NEW lay, NEW keep, PutForceStep(k, lay, keep)
      PROVE  SlruInv' /\ Bounded!Insert(k)
  <2>1. Inserted(slru, k, PutForce(slru, k, lay, keep))
    BY PutForceSound
  <2>2. Inserted(slru, k, [cache |-> slru', evicted |-> returned'])
    BY <1>3, <2>1 DEF PutForceStep, Inserted
  <2> QED
    BY <1>2, <1>3, <2>2 DEF PutForceStep
<1>4. ASSUME NEW k \in Keys, NEW lay, NEW keep, PutForceProtectedStep(k, lay, keep)
      PROVE  SlruInv' /\ Bounded!Insert(k)
  <2>1. Inserted(slru, k, PutForceProtected(slru, k, lay, keep))
    BY PutForceProtectedSound
  <2>2. Inserted(slru, k, [cache |-> slru', evicted |-> returned'])
    BY <1>4, <2>1 DEF PutForceProtectedStep, Inserted
  <2> QED
    BY <1>2, <1>4, <2>2 DEF PutForceProtectedStep
<1>5. ASSUME EvictHalfStep
      PROVE  SlruInv' /\ Bounded!Shed
  BY <1>5, EvictHalfSound DEF EvictHalfStep, Bounded!Shed
<1>6. ASSUME Clear
      PROVE  SlruInv' /\ Bounded!Shed
  BY <1>6, EmptySound DEF Clear, Bounded!Shed
<1>7. CASE UNCHANGED slruVars
  BY <1>7 DEF slruVars
<1>8. CASE SlruNext
  <2>1. CASE \E k \in Keys : GetStep(k)
    BY <1>1, <2>1 DEF Bounded!Next
  <2>2. CASE \E k \in Keys, lay \in Layers \cup {NoLayer}, keep \in StepSets :
                PutForceStep(k, lay, keep) \/ PutForceProtectedStep(k, lay, keep)
    BY <1>3, <1>4, <2>2 DEF Bounded!Next
  <2>3. CASE EvictHalfStep \/ Clear
    BY <1>5, <1>6, <2>3 DEF Bounded!Next
  <2> QED
    BY <1>8, <2>1, <2>2, <2>3 DEF SlruNext
<1> QED
  BY <1>7, <1>8

LEMMA SlruInitSound == SlruInit => SlruInv /\ Bounded!Init
  BY EmptySound DEF SlruInit, SlruInv, Bounded!Init

LEMMA SlruSoundness == SlruSpec => []SlruInv
  BY SlruInitSound, SlruStepSound, PTL DEF SlruSpec

\* The state stays well typed for every capacity and every caller.
THEOREM SlruTypeCorrect == SlruSpec => []SlruTypeOK
<1>1. SlruInv => SlruTypeOK
  BY DEF SlruInv, Sound, Orders, SlruTypeOK
<1> QED
  BY <1>1, SlruSoundness, PTL

\* No expert occupies two slots.
THEOREM NoDoubleResidence == SlruSpec => []SegmentsDisjoint
<1>1. SlruInv => SegmentsDisjoint
  BY DEF SlruInv, Sound, Apart, SegmentsDisjoint
<1> QED
  BY <1>1, SlruSoundness, PTL

\* The cache never outgrows its slots.
THEOREM CapacityRespected == SlruSpec => []WithinCapacity
<1>1. SlruInv => WithinCapacity
  BY DEF SlruInv, Sound, Fits, WithinCapacity
<1> QED
  BY <1>1, SlruSoundness, PTL

\* Every call of GpuSLRU is a call of the abstract bounded cache: a hit loses
\* nothing, and an insertion loses only what it returns to be freed.
THEOREM Implementation == SlruSpec => ImplementsBoundedCache
<1>1. SlruInit => Bounded!Init
  BY SlruInitSound
<1>2. SlruInv /\ [SlruNext]_slruVars => [Bounded!Next]_(Bounded!vars)
  BY SlruStepSound DEF Bounded!vars
<1> QED
  BY <1>1, <1>2, SlruSoundness, PTL DEF SlruSpec, Bounded!Spec, ImplementsBoundedCache


(***************************************************************************)
(* The loops over arrived and over accessed experts, step by step.  A fold *)
(* is a recursive function over the sets of positions; that it exists is   *)
(* shown by least counterexample.                                          *)
(***************************************************************************)

LEMMA LastOfFirst ==
    ASSUME NEW n \in Nat \ {0}
    PROVE  Max(1 .. n) = n /\ (1 .. n) \ {n} = 1 .. n - 1 /\ n \in 1 .. n
<1>1. n \in 1 .. n /\ \A y \in 1 .. n : n >= y
  OBVIOUS
<1>2. \A x \in 1 .. n : (\A y \in 1 .. n : x >= y) => x = n
  BY <1>1
<1>3. Max(1 .. n) = n
  BY <1>1, <1>2 DEF Max
<1>. QED BY <1>1, <1>3

LEMMA GreatestOf ==
    ASSUME NEW n \in Nat \ {0}, NEW t \in SUBSET (1 .. n)
    PROVE  /\ n \in t => Max(t) = n /\ t \ {n} \in SUBSET (1 .. n - 1)
           /\ n \notin t => t \in SUBSET (1 .. n - 1)
<1>1. ASSUME n \in t PROVE Max(t) = n
  <2>1. \A y \in t : n >= y
    OBVIOUS
  <2>2. \A x \in t : (\A y \in t : x >= y) => x = n
    BY <1>1, <2>1
  <2>. QED BY <1>1, <2>1, <2>2 DEF Max
<1>. QED BY <1>1

\* The body of the loop of _promote_prefetch, or of the one over the hits.
Loop(op, s, k) == IF op = "put" THEN PutArrived(s, k) ELSE Access(s, k)

LoopFold(op, base, q, D, f) ==
    f = [t \in SUBSET D |-> IF t = {} THEN base
                            ELSE Loop(op, f[t \ {Max(t)}], q[Max(t)])]

LEMMA LoopFoldExists ==
    ASSUME NEW op, NEW base, NEW q, NEW n \in Nat
    PROVE  \E f : LoopFold(op, base, q, 1 .. n, f)
<1> DEFINE G == {m \in 0 .. n : \E f : LoopFold(op, base, q, 1 .. m, f)}
<1>1. 0 \in G
  <2> DEFINE f == [t \in SUBSET (1 .. 0) |-> base]
  <2>1. \A t \in SUBSET (1 .. 0) : t = {}
    OBVIOUS
  <2>2. LoopFold(op, base, q, 1 .. 0, f)
    BY <2>1 DEF LoopFold
  <2>. QED BY <2>2
<1>2. ASSUME NEW m \in 1 .. n, m - 1 \in G PROVE m \in G
  <2>1. m \in Nat \ {0} /\ m \in 0 .. n
    OBVIOUS
  <2>3. PICK f : LoopFold(op, base, q, 1 .. m - 1, f)
    BY <1>2
  <2> DEFINE h == [t \in SUBSET (1 .. m) |->
                      IF m \in t THEN Loop(op, f[t \ {m}], q[m]) ELSE f[t]]
             h2 == [t \in SUBSET (1 .. m) |->
                      IF t = {} THEN base ELSE Loop(op, h[t \ {Max(t)}], q[Max(t)])]
  <2>4. ASSUME NEW t \in SUBSET (1 .. m) PROVE h[t] = h2[t]
    <3>1. CASE m \in t
      <4>1. Max(t) = m /\ t \ {m} \in SUBSET (1 .. m - 1)
        BY <2>1, <3>1, GreatestOf
      <4>2. h[t \ {m}] = f[t \ {m}]
        BY <4>1
      <4>3. h2[t] = Loop(op, h[t \ {m}], q[m])
        BY <3>1, <4>1
      <4>4. h[t] = Loop(op, f[t \ {m}], q[m])
        BY <3>1
      <4>. QED BY <4>2, <4>3, <4>4
    <3>2. CASE m \notin t
      <4>1. t \in SUBSET (1 .. m - 1)
        BY <2>1, <3>2, GreatestOf
      <4>2. t \ {Max(t)} \in SUBSET (1 .. m - 1) /\ m \notin t \ {Max(t)}
            /\ t \ {Max(t)} \in SUBSET (1 .. m)
        BY <4>1, <3>2
      <4>3. h[t \ {Max(t)}] = f[t \ {Max(t)}]
        BY <4>2
      <4>4. h[t] = f[t]
        BY <3>2
      <4>5. f[t] = IF t = {} THEN base ELSE Loop(op, f[t \ {Max(t)}], q[Max(t)])
        BY <2>3, <4>1 DEF LoopFold
      <4>6. h2[t] = IF t = {} THEN base ELSE Loop(op, h[t \ {Max(t)}], q[Max(t)])
        OBVIOUS
      <4>. QED BY <4>3, <4>4, <4>5, <4>6
    <3>. QED BY <3>1, <3>2
  <2>5. h = h2
    BY <2>4
  <2>6. LoopFold(op, base, q, 1 .. m, h)
    BY <2>5 DEF LoopFold
  <2>. QED BY <2>1, <2>6
<1>3. 0 .. n \subseteq G
  <2> HIDE DEF G
  <2>. QED BY <1>1, <1>2, StepByStep
<1>4. n \in G
  BY <1>3
<1>. QED BY <1>4

\* PromotePrefetch is a chain of single puts.
LEMMA ArrivedSteps ==
    ASSUME NEW base, NEW S, NEW q \in Seq(S)
    PROVE  \E g : /\ g[0] = base
                  /\ \A n \in 1 .. Len(q) : g[n] = PutArrived(g[n - 1], q[n])
                  /\ g[Len(q)] = FoldLeft(PutArrived, base, q)
<1> DEFINE D == 1 .. Len(q)
           F(x) == x = [t \in SUBSET D |-> IF t = {} THEN base
                                           ELSE PutArrived(x[t \ {Max(t)}], q[Max(t)])]
           f == CHOOSE x : F(x)
           g == [n \in 0 .. Len(q) |-> f[1 .. n]]
<1>1. Len(q) \in Nat /\ DOMAIN q = D
  OBVIOUS
<1>2. F(f)
  <2>1. PICK x : LoopFold("put", base, q, D, x)
    BY <1>1, LoopFoldExists
  <2>2. F(x)
    BY <2>1 DEF LoopFold, Loop
  <2>. QED BY <2>2
<1>3. FoldLeft(PutArrived, base, q) = f[D]
  BY <1>1 DEF FoldLeft, MapThenFoldSet
<1> HIDE DEF f
<1>4. g[0] = base
  <2>1. 1 .. 0 = {} /\ {} \in SUBSET D
    OBVIOUS
  <2>2. f[{}] = base
    BY <1>2, <2>1
  <2>. QED BY <2>1, <2>2, <1>1
<1>5. ASSUME NEW n \in 1 .. Len(q) PROVE g[n] = PutArrived(g[n - 1], q[n])
  <2>1. n \in Nat \ {0} /\ 1 .. n \in SUBSET D /\ 1 .. n # {}
        /\ n \in 0 .. Len(q) /\ n - 1 \in 0 .. Len(q)
    BY <1>1
  <2>2. f[1 .. n] = PutArrived(f[(1 .. n) \ {Max(1 .. n)}], q[Max(1 .. n)])
    BY <1>2, <2>1
  <2>3. f[1 .. n] = PutArrived(f[1 .. n - 1], q[n])
    BY <2>1, <2>2, LastOfFirst
  <2>. QED BY <2>1, <2>3
<1>6. g[Len(q)] = FoldLeft(PutArrived, base, q)
  BY <1>1, <1>3
<1> HIDE DEF g
<1>. QED BY <1>4, <1>5, <1>6

\* GetAll is a chain of single accesses.
LEMMA AccessedSteps ==
    ASSUME NEW base, NEW S, NEW q \in Seq(S)
    PROVE  \E g : /\ g[0] = base
                  /\ \A n \in 1 .. Len(q) : g[n] = Access(g[n - 1], q[n])
                  /\ g[Len(q)] = FoldLeft(Access, base, q)
<1> DEFINE D == 1 .. Len(q)
           F(x) == x = [t \in SUBSET D |-> IF t = {} THEN base
                                           ELSE Access(x[t \ {Max(t)}], q[Max(t)])]
           f == CHOOSE x : F(x)
           g == [n \in 0 .. Len(q) |-> f[1 .. n]]
<1>1. Len(q) \in Nat /\ DOMAIN q = D
  OBVIOUS
<1>2. F(f)
  <2>1. PICK x : LoopFold("get", base, q, D, x)
    BY <1>1, LoopFoldExists
  <2>2. F(x)
    BY <2>1 DEF LoopFold, Loop
  <2>. QED BY <2>2
<1>3. FoldLeft(Access, base, q) = f[D]
  BY <1>1 DEF FoldLeft, MapThenFoldSet
<1> HIDE DEF f
<1>4. g[0] = base
  <2>1. 1 .. 0 = {} /\ {} \in SUBSET D
    OBVIOUS
  <2>2. f[{}] = base
    BY <1>2, <2>1
  <2>. QED BY <2>1, <2>2, <1>1
<1>5. ASSUME NEW n \in 1 .. Len(q) PROVE g[n] = Access(g[n - 1], q[n])
  <2>1. n \in Nat \ {0} /\ 1 .. n \in SUBSET D /\ 1 .. n # {}
        /\ n \in 0 .. Len(q) /\ n - 1 \in 0 .. Len(q)
    BY <1>1
  <2>2. f[1 .. n] = Access(f[(1 .. n) \ {Max(1 .. n)}], q[Max(1 .. n)])
    BY <1>2, <2>1
  <2>3. f[1 .. n] = Access(f[1 .. n - 1], q[n])
    BY <2>1, <2>2, LastOfFirst
  <2>. QED BY <2>1, <2>3
<1>6. g[Len(q)] = FoldLeft(Access, base, q)
  BY <1>1, <1>3
<1> HIDE DEF g
<1>. QED BY <1>4, <1>5, <1>6

(***************************************************************************)
(* What the loops do to the cache.                                         *)
(***************************************************************************)

PutStates == [cache : Orders, loaded : SUBSET Keys, step : SUBSET Keys]

\* t is what putting the keys ks, one after the other, may make of s.
AfterPuts(s, t, ks) ==
    /\ t \in PutStates /\ Sound(t.cache) /\ t.step = s.step
    /\ Resident(t.cache) \subseteq Resident(s.cache) \cup ks

LEMMA PutArrivedSound ==
    ASSUME NEW s \in PutStates, Sound(s.cache), NEW k \in Keys
    PROVE  /\ AfterPuts(s, PutArrived(s, k), {k})
           /\ k \notin Resident(s.cache) => PutArrived(s, k).cache.prot = s.cache.prot
<1> DEFINE r == PutForce(s.cache, k, layer, s.step)
           gone == {v \in r.evicted : LayerOf(v) # layer}
           t == GpuPut(s, k)
<1>1. Inserted(s.cache, k, r)
  BY PutForceSound
<1>2. t = [s EXCEPT !.cache = r.cache, !.loaded = @ \ gone]
  BY DEF GpuPut
<1>3. k \notin Resident(s.cache) => r.cache.prot = s.cache.prot
  BY PutForceMiss DEF PutStates
<1> HIDE DEF r, gone, t
<1>4. /\ Sound(r.cache) /\ r.cache \in Orders
      /\ Resident(r.cache) \subseteq Resident(s.cache) \cup {k}
  BY <1>1 DEF Inserted, Sound
<1>5. /\ t \in PutStates /\ t.cache = r.cache /\ t.step = s.step
  BY <1>2, <1>4 DEF PutStates
<1>6. PutArrived(s, k) = t \/ PutArrived(s, k) = s
  BY DEF PutArrived, t
<1>7. AfterPuts(s, t, {k}) /\ AfterPuts(s, s, {k})
  BY <1>4, <1>5 DEF AfterPuts
<1>. QED BY <1>3, <1>5, <1>6, <1>7

\* Without a repetition among the arrived keys, none of them resident, the
\* puts of _promote_prefetch promote nothing.
LEMMA PromoteArrived ==
    ASSUME NEW s \in PutStates, Sound(s.cache), pending \in Seq(Keys)
    PROVE  /\ AfterPuts(s, PromotePrefetch(s), ToSet(pending))
           /\ Distinct(pending) /\ ToSet(pending) \cap Resident(s.cache) = {}
                 => PromotePrefetch(s).cache.prot = s.cache.prot
<1> DEFINE Seen(n) == {pending[i] : i \in 1 .. n}
           Fresh == Distinct(pending) /\ ToSet(pending) \cap Resident(s.cache) = {}
<1>1. PICK g : /\ g[0] = s
               /\ \A n \in 1 .. Len(pending) : g[n] = PutArrived(g[n - 1], pending[n])
               /\ g[Len(pending)] = PromotePrefetch(s)
  BY ArrivedSteps DEF PromotePrefetch
<1>2. /\ Len(pending) \in Nat /\ DOMAIN pending = 1 .. Len(pending)
      /\ \A n \in 1 .. Len(pending) : pending[n] \in Keys
  OBVIOUS
<1> DEFINE Good(n) == /\ AfterPuts(s, g[n], Seen(n))
                      /\ Fresh => g[n].cache.prot = s.cache.prot
           G == {n \in 0 .. Len(pending) : Good(n)}
<1>3. 0 \in G
  BY <1>1, <1>2 DEF AfterPuts
<1>4. ASSUME NEW n \in 1 .. Len(pending), n - 1 \in G PROVE n \in G
  <2> DEFINE u == g[n - 1]
             t == PutArrived(u, pending[n])
  <2>1. /\ u \in PutStates /\ Sound(u.cache) /\ u.step = s.step
        /\ Resident(u.cache) \subseteq Resident(s.cache) \cup Seen(n - 1)
        /\ Fresh => u.cache.prot = s.cache.prot
    BY <1>4 DEF AfterPuts
  <2>2. /\ AfterPuts(u, t, {pending[n]})
        /\ pending[n] \notin Resident(u.cache) => t.cache.prot = u.cache.prot
    BY <1>2, <2>1, PutArrivedSound
  <2>3. g[n] = t /\ n \in 0 .. Len(pending)
    BY <1>1
  <2>4. Seen(n - 1) \subseteq Seen(n) /\ pending[n] \in Seen(n)
    OBVIOUS
  <2>5. Fresh => pending[n] \notin Seen(n - 1) /\ pending[n] \notin Resident(s.cache)
    <3> SUFFICES ASSUME Fresh
                 PROVE  pending[n] \notin Seen(n - 1) /\ pending[n] \notin Resident(s.cache)
      OBVIOUS
    <3>1. \A i \in 1 .. n - 1 : pending[i] # pending[n]
      BY <1>2 DEF Distinct
    <3>2. pending[n] \in ToSet(pending)
      BY <1>2 DEF ToSet
    <3>. QED BY <3>1, <3>2
  <2> HIDE DEF u, t, Seen, Fresh
  <2>6. AfterPuts(s, t, Seen(n))
    BY <2>1, <2>2, <2>4 DEF AfterPuts
  <2>7. Fresh => t.cache.prot = s.cache.prot
    BY <2>1, <2>2, <2>5
  <2>. QED BY <2>3, <2>6, <2>7
<1>5. Len(pending) \in G
  <2> HIDE DEF G
  <2>1. 0 .. Len(pending) \subseteq G
    BY <1>2, <1>3, <1>4, StepByStep
  <2>. QED BY <1>2, <2>1
<1>6. Seen(Len(pending)) = ToSet(pending)
  BY <1>2 DEF ToSet
<1> HIDE DEF Seen
<1>. QED BY <1>1, <1>5, <1>6

\* The look-ups of a layer keep every resident expert and protect no other
\* than those they are for.
LEMMA AccessAll ==
    ASSUME NEW c, Sound(c), NEW order \in Seq(Keys), ToSet(order) \subseteq Resident(c)
    PROVE  /\ Sound(GetAll(c, order))
           /\ Resident(GetAll(c, order)) = Resident(c)
           /\ ToSet(GetAll(c, order).prot) \subseteq ToSet(c.prot) \cup ToSet(order)
<1>1. PICK g : /\ g[0] = c
               /\ \A n \in 1 .. Len(order) : g[n] = Access(g[n - 1], order[n])
               /\ g[Len(order)] = GetAll(c, order)
  BY AccessedSteps DEF GetAll
<1>2. /\ Len(order) \in Nat
      /\ \A n \in 1 .. Len(order) : order[n] \in ToSet(order)
  BY DEF ToSet
<1> DEFINE Good(x) == /\ Sound(x) /\ Resident(x) = Resident(c)
                      /\ ToSet(x.prot) \subseteq ToSet(c.prot) \cup ToSet(order)
           G == {n \in 0 .. Len(order) : Good(g[n])}
<1>3. 0 \in G
  BY <1>1, <1>2
<1>4. ASSUME NEW n \in 1 .. Len(order), n - 1 \in G PROVE n \in G
  <2>1. Good(g[n - 1]) /\ order[n] \in Resident(g[n - 1])
    BY <1>2, <1>4
  <2>2. g[n] = Get(g[n - 1], order[n], NoLayer) /\ n \in 0 .. Len(order)
    BY <1>1 DEF Access
  <2>3. Sound(g[n]) /\ Resident(g[n]) = Resident(g[n - 1])
    BY <2>1, <2>2, GetSound
  <2>4. ToSet(g[n].prot) \subseteq ToSet(g[n - 1].prot) \cup {order[n]}
    BY <2>1, <2>2, GetProtects
  <2>. QED BY <1>2, <2>1, <2>2, <2>3, <2>4
<1>5. Len(order) \in G
  <2> HIDE DEF G
  <2>1. 0 .. Len(order) \subseteq G
    BY <1>2, <1>3, <1>4, StepByStep
  <2>. QED BY <1>2, <2>1
<1>. QED BY <1>1, <1>5

(***************************************************************************)
(* The arrived keys and the queue.                                         *)
(***************************************************************************)

\* r is p with k inserted at position n: the later entries shift up by one.
InsertedAt(S, p, n, k, r) ==
    /\ r \in Seq(S) /\ Len(r) = Len(p) + 1
    /\ \A i \in 1 .. n - 1 : r[i] = p[i]
    /\ r[n] = k
    /\ \A i \in n .. Len(p) : r[i + 1] = p[i]

LEMMA InsertAtProperties ==
    ASSUME NEW S, NEW p \in Seq(S), NEW n \in 1 .. Len(p) + 1, NEW k \in S
    PROVE  InsertedAt(S, p, n, k, InsertAt(p, n, k))
<1> DEFINE a == SubSeq(p, 1, n - 1)
           b == SubSeq(p, n, Len(p))
           e == <<k>>
           c == a \o e
<1>0. Len(p) \in Nat /\ n \in Nat \ {0} /\ n <= Len(p) + 1
  OBVIOUS
<1>1. /\ a \in Seq(S) /\ Len(a) = n - 1
      /\ \A i \in 1 .. n - 1 : a[i] = p[i]
  <2>1. \A i \in 1 .. n - 1 : p[i] \in S
    BY ElementOfSeq
  <2>. QED BY <2>1, SubSeqProperties
<1>2. /\ b \in Seq(S)
      /\ Len(b) = Len(p) - n + 1
      /\ \A i \in 1 .. Len(p) - n + 1 : b[i] = p[n + i - 1]
  <2>1. \A i \in n .. Len(p) : p[i] \in S
    BY ElementOfSeq
  <2>2. /\ b \in Seq(S)
        /\ Len(b) = IF n <= Len(p) THEN Len(p) - n + 1 ELSE 0
        /\ \A i \in 1 .. Len(p) - n + 1 : b[i] = p[n + i - 1]
    BY <2>1, SubSeqProperties
  <2>. QED BY <2>2
<1>3. e \in Seq(S) /\ Len(e) = 1 /\ e[1] = k
  OBVIOUS
<1>4. InsertAt(p, n, k) = c \o b
  BY DEF InsertAt
<1> HIDE DEF a, b, e
<1>5. /\ c \in Seq(S) /\ Len(c) = Len(a) + Len(e)
      /\ \A i \in 1 .. Len(a) + Len(e) :
            c[i] = IF i <= Len(a) THEN a[i] ELSE e[i - Len(a)]
  BY <1>1, <1>3, ConcatProperties
<1> HIDE DEF c
<1>6. Len(c) = n /\ (\A i \in 1 .. n - 1 : c[i] = p[i]) /\ c[n] = k
  <2>1. Len(c) = n
    BY <1>0, <1>1, <1>3, <1>5
  <2>2. c[n] = k
    <3>1. n \in 1 .. Len(a) + Len(e) /\ ~ (n <= Len(a)) /\ n - Len(a) = 1
      BY <1>0, <1>1, <1>3
    <3>. QED BY <3>1, <1>3, <1>5
  <2>3. \A i \in 1 .. n - 1 : c[i] = p[i]
    <3> SUFFICES ASSUME NEW i \in 1 .. n - 1 PROVE c[i] = p[i]
      OBVIOUS
    <3>1. i \in 1 .. Len(a) + Len(e) /\ i <= Len(a)
      BY <1>0, <1>1, <1>3
    <3>. QED BY <3>1, <1>1, <1>5
  <2>. QED BY <2>1, <2>2, <2>3
<1>7. /\ c \o b \in Seq(S) /\ Len(c \o b) = Len(c) + Len(b)
      /\ \A i \in 1 .. Len(c) + Len(b) :
            (c \o b)[i] = IF i <= Len(c) THEN c[i] ELSE b[i - Len(c)]
  <2>1. c \in Seq(S) /\ b \in Seq(S)
    BY <1>2, <1>5
  <2>. QED BY <2>1, ConcatProperties, Zenon
<1>8. Len(c \o b) = Len(p) + 1
  BY <1>0, <1>2, <1>6, <1>7
<1>9. \A i \in 1 .. n : (c \o b)[i] = c[i]
  <2> SUFFICES ASSUME NEW i \in 1 .. n PROVE (c \o b)[i] = c[i]
    OBVIOUS
  <2>1. i \in 1 .. Len(c) + Len(b) /\ i <= Len(c)
    BY <1>0, <1>2, <1>6
  <2>. QED BY <2>1, <1>7
<1>10. \A i \in n .. Len(p) : (c \o b)[i + 1] = p[i]
  <2> SUFFICES ASSUME NEW i \in n .. Len(p) PROVE (c \o b)[i + 1] = p[i]
    OBVIOUS
  <2>1. /\ i + 1 \in 1 .. Len(c) + Len(b) /\ ~ (i + 1 <= Len(c))
        /\ (i + 1) - Len(c) \in 1 .. Len(p) - n + 1
        /\ n + ((i + 1) - Len(c)) - 1 = i
    BY <1>0, <1>2, <1>6
  <2>2. (c \o b)[i + 1] = b[(i + 1) - Len(c)]
    BY <2>1, <1>7
  <2>. QED BY <2>1, <2>2, <1>2
<1>11. n \in 1 .. n /\ \A i \in 1 .. n - 1 : i \in 1 .. n
  BY <1>0
<1> DEFINE r == c \o b
<1>12. r \in Seq(S)
  BY <1>7
<1>13. (\A i \in 1 .. n - 1 : r[i] = p[i]) /\ r[n] = k
  BY <1>6, <1>9, <1>11
<1> HIDE DEF r
<1>14. InsertedAt(S, p, n, k, r)
  BY <1>8, <1>10, <1>12, <1>13 DEF InsertedAt, r
<1>. QED BY <1>4, <1>14 DEF r

\* The greatest of a set of positions.
LEMMA GreatestPosition ==
    ASSUME NEW n \in Nat, NEW I \in SUBSET (1 .. n), I # {}
    PROVE  Max(I) \in I
<1> DEFINE J == {n - i : i \in I}
<1>1. J \in SUBSET Nat
  OBVIOUS
<1>2. J # {}
  OBVIOUS
<1>3. \A x \in I : n - x \in J
  OBVIOUS
<1>4. \A j \in J : \E i \in I : j = n - i
  OBVIOUS
<1> HIDE DEF J
<1>5. PICK j \in J : \A x \in J : j <= x
  BY <1>1, <1>2, LeastPosition
<1>6. PICK i \in I : j = n - i
  BY <1>4
<1>7. \A x \in I : i >= x
  <2> SUFFICES ASSUME NEW x \in I PROVE i >= x
    OBVIOUS
  <2>1. n - i <= n - x
    BY <1>3, <1>5, <1>6
  <2>2. i \in 1 .. n /\ x \in 1 .. n
    OBVIOUS
  <2>. QED BY <2>1, <2>2
<1>8. Max(I) = CHOOSE x \in I : \A y \in I : x >= y
  BY DEF Max
<1>. QED BY <1>7, <1>8

\* Depositing a result adds its key, once.
LEMMA DepositKeys ==
    ASSUME NEW p \in Seq(Keys), NEW k \in Keys
    PROVE  /\ Deposit(p, k) \in Seq(Keys)
           /\ ToSet(Deposit(p, k)) = ToSet(p) \cup {k}
           /\ Distinct(p) => Distinct(Deposit(p, k))
<1> DEFINE same == {i \in DOMAIN p : LayerOf(p[i]) = LayerOf(k)}
           r == Deposit(p, k)
<1>0. Len(p) \in Nat /\ DOMAIN p = 1 .. Len(p)
  OBVIOUS
<1>1. CASE k \in ToSet(p)
  BY <1>1 DEF Deposit
<1>2. CASE k \notin ToSet(p)
  <2>0. PICK n \in 1 .. Len(p) + 1 : InsertedAt(Keys, p, n, k, r)
    <3>1. CASE same = {}
      <4>1. r = Append(p, k)
        BY <1>2, <3>1 DEF Deposit
      <4> HIDE DEF r
      <4>2. /\ r \in Seq(Keys) /\ Len(r) = Len(p) + 1 /\ r[Len(p) + 1] = k
            /\ \A i \in 1 .. Len(p) : r[i] = p[i]
        BY <4>1
      <4>3. /\ \A i \in Len(p) + 1 .. Len(p) : r[i + 1] = p[i]
            /\ Len(p) + 1 \in 1 .. Len(p) + 1 /\ (Len(p) + 1) - 1 = Len(p)
        BY <1>0
      <4>4. InsertedAt(Keys, p, Len(p) + 1, k, r)
        BY <4>2, <4>3 DEF InsertedAt
      <4>. QED BY <4>3, <4>4
    <3>2. CASE same # {}
      <4> DEFINE m == Max(same)
      <4>1. r = InsertAt(p, m + 1, k)
        BY <1>2, <3>2 DEF Deposit
      <4>2. same \in SUBSET (1 .. Len(p))
        BY <1>0
      <4> HIDE DEF same
      <4>3. m \in 1 .. Len(p)
        BY <1>0, <3>2, <4>2, GreatestPosition
      <4> HIDE DEF r, m
      <4> DEFINE n == m + 1
      <4>4. n \in 1 .. Len(p) + 1
        BY <1>0, <4>3
      <4> HIDE DEF n
      <4>5. InsertedAt(Keys, p, n, k, InsertAt(p, n, k))
        BY <4>4, InsertAtProperties, Zenon
      <4>6. r = InsertAt(p, n, k)
        BY <4>1 DEF n
      <4>. QED BY <4>4, <4>5, <4>6
    <3>. QED BY <3>1, <3>2
  <2> HIDE DEF r
  <2>1. /\ r \in Seq(Keys) /\ Len(r) = Len(p) + 1
        /\ \A i \in 1 .. n - 1 : r[i] = p[i]
        /\ r[n] = k
        /\ \A i \in n .. Len(p) : r[i + 1] = p[i]
    BY <2>0 DEF InsertedAt
  <2>2. DOMAIN r = 1 .. Len(p) + 1 /\ n \in Nat /\ n <= Len(p) + 1
    BY <1>0, <2>1
  <2>3. \A i \in DOMAIN r :
            \/ i \in 1 .. n - 1 /\ i \in DOMAIN p /\ r[i] = p[i]
            \/ i = n /\ r[i] = k
            \/ i > n /\ i - 1 \in DOMAIN p /\ r[i] = p[i - 1]
    <3> SUFFICES ASSUME NEW i \in DOMAIN r
                 PROVE  \/ i \in 1 .. n - 1 /\ i \in DOMAIN p /\ r[i] = p[i]
                        \/ i = n /\ r[i] = k
                        \/ i > n /\ i - 1 \in DOMAIN p /\ r[i] = p[i - 1]
      OBVIOUS
    <3>1. CASE i < n
      <4>1. i \in 1 .. n - 1 /\ i \in DOMAIN p
        BY <1>0, <2>2, <3>1
      <4>. QED BY <4>1, <2>1
    <3>2. CASE i = n
      BY <3>2, <2>1
    <3>3. CASE i > n
      <4>1. i - 1 \in n .. Len(p) /\ (i - 1) + 1 = i /\ i - 1 \in DOMAIN p
        BY <1>0, <2>2, <3>3
      <4>. QED BY <3>3, <4>1, <2>1
    <3>. QED BY <2>2, <3>1, <3>2, <3>3
  <2>4. \A i \in DOMAIN p :
            \/ i \in DOMAIN r /\ r[i] = p[i]
            \/ i + 1 \in DOMAIN r /\ r[i + 1] = p[i]
    <3> SUFFICES ASSUME NEW i \in DOMAIN p
                 PROVE  \/ i \in DOMAIN r /\ r[i] = p[i]
                        \/ i + 1 \in DOMAIN r /\ r[i + 1] = p[i]
      OBVIOUS
    <3>1. i \in DOMAIN r /\ i + 1 \in DOMAIN r /\ (i \in 1 .. n - 1 \/ i \in n .. Len(p))
      BY <1>0, <2>2
    <3>. QED BY <3>1, <2>1
  <2>5. ToSet(r) = ToSet(p) \cup {k}
    <3>1. ToSet(r) \subseteq ToSet(p) \cup {k}
      BY <2>3 DEF ToSet
    <3>2. ToSet(p) \subseteq ToSet(r)
      BY <2>4 DEF ToSet
    <3>3. n \in DOMAIN r
      BY <2>2
    <3>4. k \in ToSet(r)
      BY <2>1, <3>3 DEF ToSet
    <3>. QED BY <3>1, <3>2, <3>4
  <2>6. ASSUME Distinct(p) PROVE Distinct(r)
    <3> SUFFICES ASSUME NEW i \in DOMAIN r, NEW j \in DOMAIN r, r[i] = r[j] PROVE i = j
      BY DEF Distinct
    <3>1. \A x \in DOMAIN p : p[x] # k
      BY <1>2 DEF ToSet
    <3>2. \A x, y \in DOMAIN p : p[x] = p[y] => x = y
      BY <2>6 DEF Distinct
    <3>3. i \in Nat /\ j \in Nat
      BY <2>2
    <3>. QED BY <2>2, <2>3, <3>1, <3>2, <3>3
  <2>. QED BY <2>1, <2>5, <2>6 DEF r
<1>. QED BY <1>1, <1>2

LEMMA KeysFinite == IsFiniteSet(Keys)
<1>1. IsFiniteSet(Layers)
  BY LayersAssumption, FS_Interval
<1>. QED BY <1>1, ExpertsAssumption, FS_Product DEF Keys

LEMMA SeqWiden ==
    ASSUME NEW S, NEW T, S \subseteq T, NEW s \in Seq(S)
    PROVE  s \in Seq(T)
<1>1. Len(s) \in Nat /\ s \in [1 .. Len(s) -> S]
  OBVIOUS
<1>2. s \in [1 .. Len(s) -> T]
  BY <1>1
<1>. QED BY <1>1, <1>2

LEMMA OrdersOfKeys ==
    ASSUME NEW keys \in SUBSET Keys, NEW order \in SetToSeqs(keys)
    PROVE  order \in Seq(Keys) /\ Distinct(order) /\ ToSet(order) = keys
<1>1. IsFiniteSet(keys)
  BY KeysFinite, FS_Subset
<1>2. order \in Seq(keys) /\ IsInjective(order) /\ ToSet(order) = keys
  BY <1>1, OrdersOfSet
<1>. QED BY <1>2, SeqWiden DEF IsInjective, Distinct

LEMMA LayerKeysType ==
    ASSUME NEW l \in Layers, NEW es \in SUBSET Experts
    PROVE  LayerKeys(l, es) \in SUBSET Keys
  BY DEF LayerKeys, Keys

LEMMA WantedType ==
    ASSUME NEW l \in Layers, NEW es \in SUBSET Experts, NEW c, NEW p
    PROVE  /\ Wanted(l + 1, es, c, p) \in SUBSET Keys
           /\ Wanted(l + 1, es, c, p) \cap (Resident(c) \cup inflight) = {}
<1>1. l + 1 < NLayers => l + 1 \in Layers
  BY LayersAssumption
<1>. QED BY <1>1, LayerKeysType DEF Wanted

\* Submitting keys appends them to the queue, in some order.
LEMMA SubmitQueues ==
    ASSUME NEW keys \in SUBSET Keys, queue \in Seq(Keys), Submit(keys)
    PROVE  /\ queue' \in Seq(Keys) /\ inflight' = inflight \cup keys
           /\ Distinct(queue) /\ ToSet(queue) \cap keys = {}
                 => Distinct(queue') /\ ToSet(queue') = ToSet(queue) \cup keys
<1>1. PICK order \in Orderings(keys) : queue' = queue \o order
  BY DEF Submit
<1>2. order \in Seq(Keys) /\ Distinct(order) /\ ToSet(order) = keys
  BY OrdersOfKeys DEF Orderings
<1>3. queue' \in Seq(Keys) /\ inflight' = inflight \cup keys
  BY <1>1, <1>2 DEF Submit
<1>4. ASSUME Distinct(queue), ToSet(queue) \cap keys = {}
      PROVE  Distinct(queue') /\ ToSet(queue') = ToSet(queue) \cup keys
  <2>1. IsInjective(queue) /\ IsInjective(order)
    BY <1>2, <1>4 DEF IsInjective, Distinct
  <2>2. IsInjective(queue \o order) /\ ToSet(queue \o order) = ToSet(queue) \cup ToSet(order)
    BY <1>2, <1>4, <2>1, EnqueueAll
  <2>. QED BY <1>1, <1>2, <2>2 DEF IsInjective, Distinct
<1>. QED BY <1>3, <1>4

\* Taking the head of the queue.
LEMMA DequeueKeys ==
    ASSUME NEW q \in Seq(Keys), q # <<>>
    PROVE  /\ Head(q) \in Keys /\ Tail(q) \in Seq(Keys)
           /\ Distinct(q) => /\ Distinct(Tail(q))
                             /\ ToSet(q) = ToSet(Tail(q)) \cup {Head(q)}
                             /\ Head(q) \notin ToSet(Tail(q))
<1>1. Head(q) \in Keys /\ Tail(q) \in Seq(Keys)
  OBVIOUS
<1>2. ASSUME Distinct(q)
      PROVE  /\ Distinct(Tail(q))
             /\ ToSet(q) = ToSet(Tail(q)) \cup {Head(q)}
             /\ Head(q) \notin ToSet(Tail(q))
  <2>1. IsInjective(q)
    BY <1>2 DEF IsInjective, Distinct
  <2>2. /\ IsInjective(Tail(q)) /\ ToSet(q) = ToSet(Tail(q)) \cup {Head(q)}
        /\ Head(q) \notin ToSet(Tail(q))
    BY <2>1, TakeHead
  <2>. QED BY <2>2 DEF IsInjective, Distinct
<1>. QED BY <1>1, <1>2

(***************************************************************************)
(* Types, and what a forward computes with.                                *)
(***************************************************************************)

Tasks == {Idle} \cup [at : {"transfer", "leaving"}, key : Keys]

Typed ==
    /\ Sound(cache)
    /\ loaded \in SUBSET Keys /\ stepKeys \in SUBSET Keys /\ inflight \in SUBSET Keys
    /\ pending \in Seq(Keys) /\ queue \in Seq(Keys) /\ batch \in Seq(Keys)
    /\ worker \in [Workers -> Tasks]
    /\ pc \in {"step", "load", "forward", "batch", "submit", "stop", "dead"}
    /\ layer \in Layers /\ step \in 1 .. MaxSteps
    /\ activated \in SUBSET Experts

Inv == Typed /\ (pc = "submit" => batch # <<>>) /\ ComputedFromCache

LEMMA InvImpliesTypeOK == Typed => TypeOK
<1> SUFFICES ASSUME Typed PROVE TypeOK
  OBVIOUS
<1>1. cache \in [prot : Seq(Keys), prob : Seq(Keys)]
  BY DEF Typed, Sound, Orders
<1>2. \A w \in Workers : \/ worker[w] = Idle
                         \/ /\ worker[w].at \in {"transfer", "leaving"}
                            /\ worker[w].key \in Keys
  <2> SUFFICES ASSUME NEW w \in Workers, worker[w] # Idle
               PROVE  worker[w].at \in {"transfer", "leaving"} /\ worker[w].key \in Keys
    OBVIOUS
  <2>1. worker[w] \in [at : {"transfer", "leaving"}, key : Keys]
    BY DEF Typed, Tasks
  <2>. QED BY <2>1
<1>. QED BY <1>1, <1>2 DEF Typed, TypeOK

\* What the warmup leaves fits the segments it fills.
LEMMA WarmCache ==
    ASSUME NEW w \in Warmups
    PROVE  /\ Sound([prot |-> SubSeq(w, 1, Min({Len(w), ProtectedCapacity})),
                     prob |-> SubSeq(w, ProtectedCapacity + 1, Len(w))])
           /\ ToSet(w) \in SUBSET Keys
<1> DEFINE n == Min({Len(w), ProtectedCapacity})
           m == ProtectedCapacity + 1
           p == SubSeq(w, 1, n)
           q == SubSeq(w, m, Len(w))
<1>0. /\ w \in Seq(Keys) /\ Distinct(w) /\ Len(w) \in Nat
      /\ Len(w) <= ProtectedCapacity + ProbationCapacity
      /\ ProtectedCapacity \in Nat \ {0} /\ ProbationCapacity \in Nat \ {0}
      /\ DOMAIN w = 1 .. Len(w)
  BY WarmupAssumption, CapacityAssumption
<1>1. n \in Nat /\ n <= Len(w) /\ n <= ProtectedCapacity
  <2> DEFINE t == {Len(w), ProtectedCapacity}
  <2>1. \E x \in t : \A y \in t : x <= y
    BY <1>0
  <2>2. n \in t /\ \A y \in t : n <= y
    BY <2>1 DEF Min
  <2>. QED BY <1>0, <2>2
<1>2. m \in Nat \ {0} /\ m = ProtectedCapacity + 1 /\ m > n
  BY <1>0, <1>1
<1> HIDE DEF n
<1>3. /\ p \in Seq(Keys) /\ Len(p) = n
      /\ \A i \in 1 .. n : p[i] = w[i]
  <2>1. \A i \in 1 .. n : w[i] \in Keys
    BY <1>0, <1>1
  <2>2. 1 \in Int /\ n \in Int
    BY <1>1
  <2>3. /\ p \in Seq(Keys)
        /\ Len(p) = IF 1 <= n THEN n - 1 + 1 ELSE 0
        /\ \A i \in 1 .. n - 1 + 1 : p[i] = w[1 + i - 1]
    BY <2>1, <2>2, SubSeqProperties
  <2>4. n - 1 + 1 = n /\ \A i \in 1 .. n : 1 + i - 1 = i
    BY <1>1
  <2>. QED BY <1>1, <2>3, <2>4
<1>4. /\ q \in Seq(Keys)
      /\ Len(q) = IF m <= Len(w) THEN Len(w) - m + 1 ELSE 0
      /\ \A i \in 1 .. Len(w) - m + 1 : q[i] = w[m + i - 1]
  <2> HIDE DEF m
  <2>1. \A i \in m .. Len(w) : w[i] \in Keys
    <3> SUFFICES ASSUME NEW i \in m .. Len(w) PROVE w[i] \in Keys
      OBVIOUS
    <3>1. i \in 1 .. Len(w)
      BY <1>0, <1>2
    <3>. QED BY <1>0, <3>1, ElementOfSeq
  <2>2. m \in Int /\ Len(w) \in Int
    BY <1>0, <1>2
  <2>. QED BY <2>1, <2>2, SubSeqProperties
<1> HIDE DEF p, q
<1> HIDE DEF m
<1>5. DOMAIN p = 1 .. n /\ \A i \in DOMAIN p : i \in DOMAIN w /\ i < m /\ p[i] = w[i]
  BY <1>0, <1>1, <1>2, <1>3
<1>6. /\ \A i \in DOMAIN q : /\ i \in Nat /\ m + i - 1 \in DOMAIN w /\ m + i - 1 >= m
                             /\ q[i] = w[m + i - 1]
  <2> SUFFICES ASSUME NEW i \in DOMAIN q
               PROVE  /\ i \in Nat /\ m + i - 1 \in DOMAIN w /\ m + i - 1 >= m
                      /\ q[i] = w[m + i - 1]
    OBVIOUS
  <2>1. i \in 1 .. Len(q) /\ Len(q) \in Nat
    BY <1>4
  <2>2. Len(q) = Len(w) - m + 1
    <3>1. m <= Len(w)
      <4> SUFFICES ASSUME ~ (m <= Len(w)) PROVE FALSE
        OBVIOUS
      <4>1. Len(q) = 0
        BY <1>4
      <4>. QED BY <2>1, <4>1
    <3>. QED BY <1>4, <3>1
  <2>3. i \in 1 .. Len(w) - m + 1 /\ i \in Nat /\ m + i - 1 \in DOMAIN w /\ m + i - 1 >= m
    BY <1>0, <1>2, <2>1, <2>2
  <2>. QED BY <1>4, <2>3
<1>7. \A i, j \in DOMAIN w : w[i] = w[j] => i = j
  BY <1>0 DEF Distinct
<1>8. Distinct(p)
  BY <1>5, <1>7 DEF Distinct
<1>9. Distinct(q)
  <2> SUFFICES ASSUME NEW i \in DOMAIN q, NEW j \in DOMAIN q, q[i] = q[j] PROVE i = j
    BY DEF Distinct
  <2>1. m + i - 1 = m + j - 1 /\ i \in Nat /\ j \in Nat
    BY <1>6, <1>7
  <2>. QED BY <1>2, <2>1
<1>10. ToSet(p) \cap ToSet(q) = {}
  <2> SUFFICES ASSUME NEW i \in DOMAIN p, NEW j \in DOMAIN q, p[i] = q[j] PROVE FALSE
    BY DEF ToSet
  <2>1. i = m + j - 1 /\ i < m /\ m + j - 1 >= m /\ j \in Nat /\ i \in 1 .. n
    BY <1>5, <1>6, <1>7
  <2>. QED BY <1>1, <1>2, <2>1
<1>11. Len(p) <= ProtectedCapacity /\ Len(q) <= ProbationCapacity
  <2>1. Len(q) <= ProbationCapacity
    <3>1. CASE m <= Len(w)
      <4>1. Len(q) = Len(w) - m + 1
        BY <1>4, <3>1
      <4>. QED BY <1>0, <1>2, <4>1
    <3>2. CASE ~ (m <= Len(w))
      BY <1>0, <1>4, <3>2
    <3>. QED BY <3>1, <3>2
  <2>. QED BY <1>1, <1>3, <2>1
<1> DEFINE c == [prot |-> p, prob |-> q]
<1>13. Sound(c)
  <2>1. c.prot = p /\ c.prob = q
    OBVIOUS
  <2>2. p \in Seq(Keys) /\ q \in Seq(Keys)
    BY <1>3, <1>4
  <2>3. c \in Orders
    BY <2>2 DEF Orders
  <2> HIDE DEF c
  <2>. QED BY <1>8, <1>9, <1>10, <1>11, <2>1, <2>3 DEF Sound, Apart, Fits
<1>14. ToSet(w) \in SUBSET Keys
  BY <1>0 DEF ToSet
<1>. QED BY <1>13, <1>14 DEF c, p, q, n, m

\* What _promote_prefetch makes of the cache, whatever the step's keys.
LEMMA PromoteEffect ==
    ASSUME Typed, NEW keys \in SUBSET Keys, NEW s,
           s = PromotePrefetch([cache |-> cache, loaded |-> loaded, step |-> keys])
    PROVE  /\ Sound(s.cache) /\ s.loaded \in SUBSET Keys
           /\ Resident(s.cache) \subseteq Resident(cache) \cup ToSet(pending)
           /\ Distinct(pending) /\ ToSet(pending) \cap Resident(cache) = {}
                 => s.cache.prot = cache.prot
<1> DEFINE s0 == [cache |-> cache, loaded |-> loaded, step |-> keys]
<1>1. Sound(cache) /\ cache \in Orders /\ loaded \in SUBSET Keys /\ pending \in Seq(Keys)
  BY DEF Typed, Sound
<1>2. s0 \in PutStates /\ s0.cache = cache
  BY <1>1 DEF PutStates
<1>3. s = PromotePrefetch(s0)
  OBVIOUS
<1> HIDE DEF s0
<1>4. /\ AfterPuts(s0, s, ToSet(pending))
      /\ Distinct(pending) /\ ToSet(pending) \cap Resident(cache) = {}
            => s.cache.prot = cache.prot
  BY <1>1, <1>2, <1>3, PromoteArrived
<1>. QED BY <1>2, <1>4 DEF AfterPuts, PutStates

\* What loading the activated experts of a layer does.
LEMMA LoadEffect ==
    ASSUME Typed, NEW es \in SUBSET Experts, LoadActivated(es)
    PROVE  /\ Sound(cache') /\ loaded' \in SUBSET Keys /\ stepKeys' \in SUBSET Keys
           /\ Resident(cache') \subseteq Resident(cache) \cup ToSet(pending)
           /\ LayerKeys(layer, es) \cap loaded' \subseteq Resident(cache')
           /\ Distinct(pending) /\ ToSet(pending) \cap Resident(cache) = {}
                 => ToSet(cache'.prot) \subseteq ToSet(cache.prot) \cup LayerKeys(layer, es)
           /\ \E keep \in SUBSET Keys : /\ keep \cap (Resident(cache') \cup inflight) = {}
                                        /\ Submit(keep)
<1> DEFINE s == PromotePrefetch([cache |-> cache, loaded |-> loaded, step |-> stepKeys])
           keys == LayerKeys(layer, es)
           hits == keys \cap Resident(s.cache)
<1>1. stepKeys \in SUBSET Keys /\ layer \in Layers
  BY DEF Typed
<1>2. keys \in SUBSET Keys
  BY <1>1, LayerKeysType
<1>3. /\ Sound(s.cache) /\ s.loaded \in SUBSET Keys
      /\ Resident(s.cache) \subseteq Resident(cache) \cup ToSet(pending)
      /\ Distinct(pending) /\ ToSet(pending) \cap Resident(cache) = {}
            => s.cache.prot = cache.prot
  BY <1>1, PromoteEffect
<1>4. /\ \E order \in Orderings(hits) : cache' = GetAll(s.cache, order)
      /\ loaded' = (s.loaded \cup hits) \ (keys \ hits)
      /\ stepKeys' = IF Protecting THEN stepKeys \cup hits ELSE {}
      /\ \E keep \in SUBSET Wanted(layer + 1, es, cache', {}) : Submit(keep)
  BY DEF LoadActivated, SetExperts
<1> HIDE DEF s, keys
<1>5. PICK order \in Orderings(hits) : cache' = GetAll(s.cache, order)
  BY <1>4
<1>6. order \in Seq(Keys) /\ ToSet(order) = hits
  BY <1>2, OrdersOfKeys DEF Orderings
<1>7. /\ Sound(cache') /\ Resident(cache') = Resident(s.cache)
      /\ ToSet(cache'.prot) \subseteq ToSet(s.cache.prot) \cup ToSet(order)
  BY <1>3, <1>5, <1>6, AccessAll
<1>8. loaded' \in SUBSET Keys /\ stepKeys' \in SUBSET Keys
  BY <1>1, <1>2, <1>3, <1>4
<1>9. keys \cap loaded' \subseteq Resident(cache')
  BY <1>4, <1>7
<1>10. \E keep \in SUBSET Keys : /\ keep \cap (Resident(cache') \cup inflight) = {}
                                 /\ Submit(keep)
  BY <1>1, <1>4, WantedType
<1>. QED BY <1>3, <1>6, <1>7, <1>8, <1>9, <1>10 DEF keys

\* What the end of a step does.
LEMMA EndEffect ==
    ASSUME Typed, StepEnd
    PROVE  /\ Sound(cache') /\ loaded' \in SUBSET Keys
           /\ Resident(cache') \subseteq Resident(cache) \cup ToSet(pending)
           /\ \/ pending' = pending /\ cache' = cache
              \/ pending' = <<>>
           /\ Distinct(pending) /\ ToSet(pending) \cap Resident(cache) = {}
                 => cache'.prot = cache.prot
<1> DEFINE s == PromotePrefetch([cache |-> cache, loaded |-> loaded, step |-> {}])
<1>1. \/ cache' = cache /\ loaded' = loaded /\ pending' = pending
      \/ cache' = s.cache /\ loaded' = s.loaded /\ pending' = <<>>
  BY DEF StepEnd
<1>2. Sound(cache) /\ loaded \in SUBSET Keys
  BY DEF Typed
<1>3. /\ Sound(s.cache) /\ s.loaded \in SUBSET Keys
      /\ Resident(s.cache) \subseteq Resident(cache) \cup ToSet(pending)
      /\ Distinct(pending) /\ ToSet(pending) \cap Resident(cache) = {}
            => s.cache.prot = cache.prot
  <2>1. {} \in SUBSET Keys
    OBVIOUS
  <2>. QED BY <2>1, PromoteEffect
<1> HIDE DEF s
<1>. QED BY <1>1, <1>2, <1>3

LEMMA InvInit == Init => Inv
<1> SUFFICES ASSUME Init PROVE Inv
  OBVIOUS
<1>1. PICK w \in Warmups :
          /\ cache = [prot |-> SubSeq(w, 1, Min({Len(w), ProtectedCapacity})),
                      prob |-> SubSeq(w, ProtectedCapacity + 1, Len(w))]
          /\ loaded = ToSet(w)
  BY DEF Init
<1>2. Sound(cache) /\ loaded \in SUBSET Keys
  BY <1>1, WarmCache
<1>3. worker \in [Workers -> Tasks]
  BY DEF Init, Tasks
<1>4. layer \in Layers /\ step \in 1 .. MaxSteps
  BY LayersAssumption, StepsAssumption DEF Init
<1>5. Typed
  BY <1>2, <1>3, <1>4 DEF Init, Typed
<1>. QED BY <1>5 DEF Init, Inv, ComputedFromCache

LEMMA InvLoad ==
    ASSUME Inv, NEW es \in SUBSET Experts, LoadActivated(es)
    PROVE  Inv'
<1>1. Typed
  BY DEF Inv
<1>2. /\ Sound(cache') /\ loaded' \in SUBSET Keys /\ stepKeys' \in SUBSET Keys
      /\ LayerKeys(layer, es) \cap loaded' \subseteq Resident(cache')
  BY <1>1, LoadEffect
<1>3. queue' \in Seq(Keys) /\ inflight' \in SUBSET Keys
  <2>1. PICK keep \in SUBSET Keys : Submit(keep)
    BY <1>1, LoadEffect
  <2>. QED BY <1>1, <2>1, SubmitQueues DEF Typed
<1>4. /\ pending' = <<>> /\ activated' = es /\ pc' = "forward"
      /\ UNCHANGED <<layer, step, batch, worker>>
  BY DEF LoadActivated
<1>5. Typed'
  BY <1>1, <1>2, <1>3, <1>4 DEF Typed
<1>. QED BY <1>2, <1>4, <1>5 DEF Inv, ComputedFromCache

LEMMA InvForward ==
    ASSUME Inv, Forward
    PROVE  Inv'
<1> DEFINE lacking == IF RustRunner /\ layer + 1 < NLayers
                      THEN LayerKeys(layer + 1, Experts) \ Resident(cache) ELSE {}
           n == Min({BatchTop, Cardinality(lacking)})
<1>1. Typed
  BY DEF Inv
<1>2. /\ \E keys \in kSubset(n, lacking) : batch' \in SetToSeqs(keys)
      /\ activated' = {} /\ pc' = "batch"
      /\ UNCHANGED <<cache, loaded, stepKeys, layer, step, pending, inflight, queue, worker>>
  BY DEF Forward, shared
<1>3. lacking \in SUBSET Keys
  <2>1. layer \in Layers
    BY <1>1 DEF Typed
  <2>2. layer + 1 < NLayers => layer + 1 \in Layers
    BY <2>1, LayersAssumption
  <2>. QED BY <2>2, LayerKeysType
<1> HIDE DEF lacking, n
<1>4. batch' \in Seq(Keys)
  <2>1. PICK keys \in SUBSET lacking : batch' \in SetToSeqs(keys)
    BY <1>2 DEF kSubset
  <2>2. keys \in SUBSET Keys
    BY <1>3
  <2>. QED BY <2>1, <2>2, OrdersOfKeys
<1>5. Typed'
  BY <1>1, <1>2, <1>4 DEF Typed
<1>. QED BY <1>2, <1>5 DEF Inv, ComputedFromCache

LEMMA InvSubmit ==
    ASSUME Inv, BatchSubmit
    PROVE  Inv'
<1>1. Typed /\ batch \in Seq(Keys) /\ batch # <<>>
  BY DEF Inv, Typed, BatchSubmit
<1>2. /\ batch' = Tail(batch) /\ pc' = "batch"
      /\ \/ Submit({Head(batch)}) \/ UNCHANGED <<inflight, queue>>
      /\ UNCHANGED <<cache, loaded, stepKeys, layer, step, activated, pending, worker>>
  BY DEF BatchSubmit
<1>3. batch' \in Seq(Keys) /\ {Head(batch)} \in SUBSET Keys
  BY <1>1, <1>2
<1>4. queue' \in Seq(Keys) /\ inflight' \in SUBSET Keys
  <2>1. CASE Submit({Head(batch)})
    BY <1>1, <1>3, <2>1, SubmitQueues DEF Typed
  <2>2. CASE UNCHANGED <<inflight, queue>>
    BY <1>1, <2>2 DEF Typed
  <2>. QED BY <1>2, <2>1, <2>2
<1>5. Typed'
  BY <1>1, <1>2, <1>3, <1>4 DEF Typed
<1>. QED BY <1>2, <1>5 DEF Inv, ComputedFromCache

LEMMA InvEnd ==
    ASSUME Inv, StepEnd
    PROVE  Inv'
<1>1. Typed
  BY DEF Inv
<1>2. /\ Sound(cache') /\ loaded' \in SUBSET Keys
      /\ (pending' = pending \/ pending' = <<>>)
  BY <1>1, EndEffect
<1>3. /\ stepKeys' = {} /\ pc' \in {"step", "stop"}
      /\ UNCHANGED <<layer, activated, batch, inflight, queue, worker>>
  BY DEF StepEnd
<1>4. step' \in 1 .. MaxSteps
  <2>1. step \in 1 .. MaxSteps /\ (step' = step \/ (step < MaxSteps /\ step' = step + 1))
    BY <1>1 DEF StepEnd, Typed
  <2>. QED BY <2>1, StepsAssumption
<1>5. pending' \in Seq(Keys)
  <2>1. pending \in Seq(Keys) /\ <<>> \in Seq(Keys)
    BY <1>1 DEF Typed
  <2>. QED BY <1>2, <2>1
<1>6. Typed'
  BY <1>1, <1>2, <1>3, <1>4, <1>5 DEF Typed
<1>. QED BY <1>3, <1>6 DEF Inv, ComputedFromCache

\* A prefetch thread changes what it holds, and nothing the forward reads.
LEMMA WorkerTasks ==
    ASSUME Typed, NEW w \in Workers, worker[w] # Idle
    PROVE  /\ worker[w] \in [at : {"transfer", "leaving"}, key : Keys]
           /\ worker[w].key \in Keys
           /\ [worker[w] EXCEPT !.at = "leaving"] = [at |-> "leaving", key |-> worker[w].key]
           /\ [worker[w] EXCEPT !.at = "leaving"] \in Tasks
<1>1. worker[w] \in [at : {"transfer", "leaving"}, key : Keys]
  BY DEF Typed, Tasks
<1>. QED BY <1>1 DEF Tasks

LEMMA Busy ==
    ASSUME NEW w \in Workers
    PROVE  worker[w].at \in {"transfer", "leaving"} => worker[w] # Idle
  BY DEF Idle

LEMMA InvWorker ==
    ASSUME Inv, NEW w \in Workers, WorkerStep(w)
    PROVE  Inv'
<1>1. Typed
  BY DEF Inv
<1>2. /\ queue \in Seq(Keys) /\ pending \in Seq(Keys) /\ inflight \in SUBSET Keys
      /\ worker \in [Workers -> Tasks]
  BY <1>1 DEF Typed
<1>3. ASSUME pending' \in Seq(Keys), queue' \in Seq(Keys), inflight' \in SUBSET Keys,
             worker' \in [Workers -> Tasks], UNCHANGED main
      PROVE  Inv'
  <2>1. Typed'
    BY <1>1, <1>3 DEF Typed, main
  <2>. QED BY <1>3, <2>1 DEF Inv, ComputedFromCache, main
<1>4. CASE Take(w)
  <2>1. /\ queue # <<>> /\ queue' = Tail(queue)
        /\ worker' = [worker EXCEPT ![w] = [at |-> "transfer", key |-> Head(queue)]]
        /\ UNCHANGED <<main, pending, inflight>>
    BY <1>4 DEF Take
  <2>2. Head(queue) \in Keys /\ queue' \in Seq(Keys)
    BY <1>2, <2>1
  <2>3. [at |-> "transfer", key |-> Head(queue)] \in Tasks
    BY <2>2 DEF Tasks
  <2>4. worker' \in [Workers -> Tasks]
    BY <1>2, <2>1, <2>3
  <2>. QED BY <1>2, <1>3, <2>1, <2>2, <2>4
<1>5. CASE Publish(w)
  <2>1. /\ worker[w] # Idle /\ pending' = Deposit(pending, worker[w].key)
        /\ worker' = [worker EXCEPT ![w].at = "leaving"]
        /\ UNCHANGED <<main, inflight, queue>>
    BY <1>5, Busy DEF Publish
  <2>2. pending' \in Seq(Keys)
    BY <1>1, <1>2, <2>1, WorkerTasks, DepositKeys
  <2>3. worker' \in [Workers -> Tasks]
    BY <1>1, <1>2, <2>1, WorkerTasks
  <2>. QED BY <1>2, <1>3, <2>1, <2>2, <2>3
<1>6. CASE Abort(w)
  <2>1. /\ worker[w] # Idle /\ worker' = [worker EXCEPT ![w].at = "leaving"]
        /\ UNCHANGED <<main, shared>>
    BY <1>6, Busy DEF Abort
  <2>2. worker' \in [Workers -> Tasks]
    BY <1>1, <1>2, <2>1, WorkerTasks
  <2>. QED BY <1>2, <1>3, <2>1, <2>2 DEF shared
<1>7. CASE Discard(w)
  <2>1. /\ inflight' = inflight \ {worker[w].key}
        /\ worker' = [worker EXCEPT ![w] = Idle]
        /\ UNCHANGED <<main, pending, queue>>
    BY <1>7 DEF Discard
  <2>2. worker' \in [Workers -> Tasks]
    BY <1>2, <2>1 DEF Tasks
  <2>. QED BY <1>2, <1>3, <2>1, <2>2
<1>. QED BY <1>4, <1>5, <1>6, <1>7 DEF WorkerStep

LEMMA InvNext == Inv /\ [Next]_vars => Inv'
<1> SUFFICES ASSUME Inv, [Next]_vars PROVE Inv'
  OBVIOUS
<1>1. Typed
  BY DEF Inv
<1>2. CASE StepStart
  <2>1. /\ stepKeys' = {} /\ layer' = 0 /\ pc' = "load"
        /\ UNCHANGED <<cache, loaded, step, activated, batch, pending, inflight, queue, worker>>
    BY <1>2 DEF StepStart, shared
  <2>2. 0 \in Layers
    BY LayersAssumption
  <2>3. Typed'
    BY <1>1, <2>1, <2>2 DEF Typed
  <2>. QED BY <2>1, <2>3 DEF Inv, ComputedFromCache
<1>3. ASSUME NEW n \in 1 .. MaxActivated, NEW es \in kSubset(n, Experts), LoadActivated(es)
      PROVE  Inv'
  <2>1. es \in SUBSET Experts
    BY DEF kSubset
  <2>. QED BY <1>3, <2>1, InvLoad
<1>4. CASE ForwardMiss
  BY <1>1, <1>4 DEF ForwardMiss, shared, Typed, Inv, ComputedFromCache
<1>5. CASE Forward
  BY <1>5, InvForward
<1>6. CASE BatchCheckPending
  <2>1. /\ batch # <<>> /\ pc = "batch"
        /\ \/ batch' = Tail(batch) /\ pc' = pc
           \/ pc' = "submit" /\ batch' = batch
        /\ UNCHANGED <<cache, loaded, stepKeys, layer, step, activated, pending, inflight,
                       queue, worker>>
    BY <1>6 DEF BatchCheckPending, shared
  <2>2. batch' \in Seq(Keys)
    <3>1. batch \in Seq(Keys)
      BY <1>1 DEF Typed
    <3>. QED BY <2>1, <3>1
  <2>3. Typed'
    BY <1>1, <2>1, <2>2 DEF Typed
  <2>. QED BY <2>1, <2>3 DEF Inv, ComputedFromCache
<1>7. CASE BatchSubmit
  BY <1>7, InvSubmit
<1>8. CASE NextLayer
  <2>1. /\ layer + 1 < NLayers /\ layer' = layer + 1 /\ pc' = "load"
        /\ UNCHANGED <<cache, loaded, stepKeys, step, activated, batch, pending, inflight,
                       queue, worker>>
    BY <1>8 DEF NextLayer, shared
  <2>2. layer' \in Layers
    BY <1>1, <2>1, LayersAssumption DEF Typed
  <2>3. Typed'
    BY <1>1, <2>1, <2>2 DEF Typed
  <2>. QED BY <2>1, <2>3 DEF Inv, ComputedFromCache
<1>9. CASE StepEnd
  BY <1>9, InvEnd
<1>10. ASSUME NEW w \in Workers, WorkerStep(w) PROVE Inv'
  BY <1>10, InvWorker
<1>11. CASE UNCHANGED vars
  BY <1>1, <1>11 DEF vars, main, shared, Typed, Inv, ComputedFromCache
<1>. QED BY <1>2, <1>3, <1>4, <1>5, <1>6, <1>7, <1>8, <1>9, <1>10, <1>11 DEF Next, MainStep

LEMMA InvInvariant == Spec => []Inv
  BY InvInit, InvNext, PTL DEF Spec

\* The cache, the queues and the threads' tasks stay well typed, and the
\* walk over the layers never leaves the model.
THEOREM TypeCorrect == Spec => []TypeOK
<1>1. Inv => TypeOK
  BY InvImpliesTypeOK DEF Inv
<1>. QED BY <1>1, InvInvariant, PTL

\* _load_activated_experts, MoE.forward: an expert computed on the GPU is one
\* the cache holds, although the promotions of the same call may evict the
\* expert whose Expert object still has weights.
THEOREM ComputesFromCache == Spec => []ComputedFromCache
<1>1. Inv => ComputedFromCache
  BY DEF Inv
<1>. QED BY <1>1, InvInvariant, PTL

(***************************************************************************)
(* Without the batch prefetch of CpuExpertRunner, which decides under one  *)
(* lock and submits under another, a key is in one place only: resident,   *)
(* arrived, or on its way with one thread or in the queue; and what is on  *)
(* its way is what _iq2xs_prefetch_pending announces.                      *)
(***************************************************************************)

InHand == {worker[w].key : w \in {v \in Workers : worker[v] # Idle}}
Moving == {worker[w].key : w \in {v \in Workers : worker[v].at = "transfer"}}

OneEach == \A v, w \in Workers :
              worker[v] # Idle /\ worker[w] # Idle /\ worker[v].key = worker[w].key => v = w

Separate ==
    /\ batch = <<>> /\ pc # "submit"
    /\ Distinct(queue) /\ Distinct(pending)
    /\ OneEach
    /\ InHand \cap ToSet(queue) = {}
    /\ inflight = ToSet(queue) \cup InHand
    /\ (ToSet(queue) \cup Moving) \cap (Resident(cache) \cup ToSet(pending)) = {}
    /\ ToSet(pending) \cap Resident(cache) = {}

LEMMA MovingInHand == Moving \subseteq InHand
  BY Busy DEF Moving, InHand

\* A thread starts on a key that no thread had.
LEMMA HandTakes ==
    ASSUME Typed, OneEach, NEW w \in Workers, worker[w] = Idle, NEW k \in Keys, k \notin InHand,
           worker' = [worker EXCEPT ![w] = [at |-> "transfer", key |-> k]]
    PROVE  OneEach' /\ InHand' = InHand \cup {k} /\ Moving' = Moving \cup {k}
<1> DEFINE t == [at |-> "transfer", key |-> k]
<1>1. t # Idle /\ t.key = k /\ t.at = "transfer" /\ Idle.at # "transfer"
  BY DEF Idle
<1> HIDE DEF t
<1>2. worker \in [Workers -> Tasks]
  BY DEF Typed
<1>3. worker'[w] = t /\ \A v \in Workers \ {w} : worker'[v] = worker[v]
  BY <1>2 DEF t
<1>4. \A v \in Workers : worker[v] # Idle => worker[v].key # k
  BY DEF InHand
<1>5. OneEach'
  BY <1>1, <1>3, <1>4 DEF OneEach
<1>6. InHand' = InHand \cup {k}
  <2>1. InHand' \subseteq InHand \cup {k}
    BY <1>1, <1>3 DEF InHand
  <2>2. InHand \subseteq InHand'
    BY <1>3 DEF InHand
  <2>3. k \in InHand'
    BY <1>1, <1>3 DEF InHand
  <2>. QED BY <2>1, <2>2, <2>3
<1>7. Moving' = Moving \cup {k}
  <2>1. Moving' \subseteq Moving \cup {k}
    BY <1>1, <1>3 DEF Moving
  <2>2. Moving \subseteq Moving'
    BY <1>1, <1>3 DEF Moving
  <2>3. k \in Moving'
    BY <1>1, <1>3 DEF Moving
  <2>. QED BY <2>1, <2>2, <2>3
<1>. QED BY <1>5, <1>6, <1>7

\* A thread has finished its transfer, or given it up.
LEMMA HandLeaves ==
    ASSUME Typed, OneEach, NEW w \in Workers, worker[w] # Idle,
           worker' = [worker EXCEPT ![w].at = "leaving"]
    PROVE  /\ OneEach' /\ InHand' = InHand
           /\ Moving' \subseteq Moving /\ worker[w].key \notin Moving'
<1> DEFINE t == [at |-> "leaving", key |-> worker[w].key]
<1>1. t # Idle /\ t.key = worker[w].key /\ t.at # "transfer"
  BY DEF Idle
<1> HIDE DEF t
<1>2. worker \in [Workers -> Tasks] /\ [worker[w] EXCEPT !.at = "leaving"] = t
  BY WorkerTasks DEF Typed, t
<1>3. worker'[w] = t /\ \A v \in Workers \ {w} : worker'[v] = worker[v]
  BY <1>2
<1>4. \A v \in Workers : /\ worker'[v] # Idle <=> worker[v] # Idle
                         /\ worker[v] # Idle => worker'[v].key = worker[v].key
  BY <1>1, <1>3
<1>5. OneEach'
  BY <1>4 DEF OneEach
<1>6. InHand' = InHand
  BY <1>4 DEF InHand
<1>7. Moving' \subseteq Moving
  BY <1>1, <1>3 DEF Moving
<1>8. worker[w].key \notin Moving'
  <2> SUFFICES ASSUME NEW v \in Workers, worker'[v].at = "transfer",
                      worker'[v].key = worker[w].key
               PROVE  FALSE
    BY DEF Moving
  <2>1. v # w /\ worker[v].at = "transfer" /\ worker[v].key = worker[w].key
    BY <1>1, <1>3
  <2>2. worker[v] # Idle
    BY <2>1, Busy
  <2>. QED BY <2>1, <2>2 DEF OneEach
<1>. QED BY <1>5, <1>6, <1>7, <1>8

\* A thread is done with its key.
LEMMA HandDrops ==
    ASSUME Typed, OneEach, NEW w \in Workers, worker[w] # Idle,
           worker' = [worker EXCEPT ![w] = Idle]
    PROVE  /\ OneEach' /\ InHand' = InHand \ {worker[w].key}
           /\ Moving' \subseteq Moving
<1>1. Idle.at # "transfer"
  BY DEF Idle
<1>2. worker \in [Workers -> Tasks]
  BY DEF Typed
<1>3. worker'[w] = Idle /\ \A v \in Workers \ {w} : worker'[v] = worker[v]
  BY <1>2
<1>4. OneEach'
  BY <1>3 DEF OneEach
<1>5. InHand' = InHand \ {worker[w].key}
  <2>1. InHand' \subseteq InHand
    BY <1>3 DEF InHand
  <2>2. worker[w].key \notin InHand'
    BY <1>3 DEF InHand, OneEach
  <2>3. InHand \ {worker[w].key} \subseteq InHand'
    BY <1>3 DEF InHand
  <2>. QED BY <2>1, <2>2, <2>3
<1>6. Moving' \subseteq Moving
  BY <1>1, <1>3 DEF Moving
<1>. QED BY <1>4, <1>5, <1>6

LEMMA EmptyQueue == Distinct(<<>>) /\ ToSet(<<>>) = {}
  BY DEF Distinct, ToSet

LEMMA SeparateInit == Init => Separate
<1> SUFFICES ASSUME Init PROVE Separate
  OBVIOUS
<1>1. \A w \in Workers : worker[w] = Idle
  BY DEF Init
<1>2. InHand = {} /\ Moving = {}
  BY <1>1, MovingInHand DEF InHand
<1>3. OneEach
  BY <1>1 DEF OneEach
<1>. QED BY <1>2, <1>3, EmptyQueue DEF Init, Separate

LEMMA SeparateLoad ==
    ASSUME Inv, Separate, NEW es \in SUBSET Experts, LoadActivated(es)
    PROVE  /\ Separate'
           /\ ToSet(cache'.prot) \subseteq ToSet(cache.prot) \cup LayerKeys(layer, es)
<1>1. Typed /\ queue \in Seq(Keys)
  BY DEF Inv, Typed
<1>2. /\ Resident(cache') \subseteq Resident(cache) \cup ToSet(pending)
      /\ ToSet(cache'.prot) \subseteq ToSet(cache.prot) \cup LayerKeys(layer, es)
      /\ \E keep \in SUBSET Keys : /\ keep \cap (Resident(cache') \cup inflight) = {}
                                   /\ Submit(keep)
  BY <1>1, LoadEffect DEF Separate
<1>3. PICK keep \in SUBSET Keys : /\ keep \cap (Resident(cache') \cup inflight) = {}
                                  /\ Submit(keep)
  BY <1>2
<1>4. /\ pending' = <<>> /\ pc' = "forward" /\ batch' = batch /\ worker' = worker
  BY DEF LoadActivated
<1>5. ToSet(queue) \cap keep = {} /\ Distinct(queue)
  BY <1>3 DEF Separate
<1>6. /\ Distinct(queue') /\ ToSet(queue') = ToSet(queue) \cup keep
      /\ inflight' = inflight \cup keep
  BY <1>1, <1>3, <1>5, SubmitQueues
<1>7. InHand' = InHand /\ Moving' = Moving /\ (OneEach <=> OneEach')
  BY <1>4 DEF InHand, Moving, OneEach
<1>8. /\ batch' = <<>> /\ pc' # "submit" /\ Distinct(pending') /\ ToSet(pending') = {}
  BY <1>4, EmptyQueue DEF Separate
<1>9. InHand' \cap ToSet(queue') = {} /\ inflight' = ToSet(queue') \cup InHand'
  BY <1>3, <1>6, <1>7 DEF Separate
<1>10. (ToSet(queue') \cup Moving') \cap Resident(cache') = {}
  <2>1. (ToSet(queue) \cup Moving) \cap Resident(cache') = {}
    BY <1>2 DEF Separate
  <2>. QED BY <1>3, <1>6, <1>7, <2>1
<1>11. Separate'
  BY <1>6, <1>7, <1>8, <1>9, <1>10 DEF Separate
<1>. QED BY <1>2, <1>11

LEMMA NoBatch ==
    ASSUME ~ RustRunner, Forward
    PROVE  batch' = <<>>
<1>1. PICK n : \E keys \in kSubset(n, {}) : batch' \in SetToSeqs(keys)
  BY DEF Forward
<1>2. batch' \in SetToSeqs({})
  BY <1>1 DEF kSubset
<1>3. batch' \in Seq({}) /\ Len(batch') = 0
  BY <1>2, OrdersOfSet, FS_EmptySet
<1>. QED BY <1>3

LEMMA SeparateForward ==
    ASSUME ~ RustRunner, Separate, Forward
    PROVE  Separate'
<1>1. /\ pc' = "batch" /\ UNCHANGED <<cache, pending, inflight, queue, worker>>
  BY DEF Forward, shared
<1>2. batch' = <<>>
  BY NoBatch
<1>. QED BY <1>1, <1>2 DEF Separate, InHand, Moving, OneEach

LEMMA SeparateEnd ==
    ASSUME Inv, Separate, StepEnd
    PROVE  Separate' /\ cache'.prot = cache.prot
<1>1. Typed
  BY DEF Inv
<1>2. /\ Resident(cache') \subseteq Resident(cache) \cup ToSet(pending)
      /\ (pending' = pending /\ cache' = cache) \/ pending' = <<>>
      /\ cache'.prot = cache.prot
  BY <1>1, EndEffect DEF Separate
<1>3. /\ pc' # "submit" /\ UNCHANGED <<batch, inflight, queue, worker>>
  BY DEF StepEnd
<1>4. InHand' = InHand /\ Moving' = Moving /\ (OneEach <=> OneEach')
  BY <1>3 DEF InHand, Moving, OneEach
<1>5. CASE pending' = pending /\ cache' = cache
  BY <1>2, <1>3, <1>4, <1>5 DEF Separate
<1>6. CASE pending' = <<>>
  <2>1. Distinct(pending') /\ ToSet(pending') = {}
    BY <1>6, EmptyQueue
  <2>2. (ToSet(queue) \cup Moving) \cap Resident(cache') = {}
    BY <1>2 DEF Separate
  <2>3. Separate'
    BY <1>3, <1>4, <2>1, <2>2 DEF Separate
  <2>. QED BY <1>2, <2>3
<1>. QED BY <1>2, <1>5, <1>6

LEMMA SeparateWorker ==
    ASSUME Inv, Separate, NEW w \in Workers, WorkerStep(w)
    PROVE  Separate' /\ UNCHANGED main
<1>1. /\ Typed /\ OneEach /\ queue \in Seq(Keys) /\ pending \in Seq(Keys)
  BY DEF Inv, Typed, Separate
<1>2. CASE Take(w)
  <2>1. /\ worker[w] = Idle /\ queue # <<>> /\ queue' = Tail(queue)
        /\ worker' = [worker EXCEPT ![w] = [at |-> "transfer", key |-> Head(queue)]]
        /\ UNCHANGED <<main, pending, inflight>>
    BY <1>2 DEF Take
  <2>2. /\ Head(queue) \in Keys /\ Distinct(queue')
        /\ ToSet(queue) = ToSet(queue') \cup {Head(queue)}
        /\ Head(queue) \notin ToSet(queue')
    BY <1>1, <2>1, DequeueKeys DEF Separate
  <2>3. Head(queue) \notin InHand
    BY <2>2 DEF Separate
  <2>4. /\ OneEach' /\ InHand' = InHand \cup {Head(queue)}
        /\ Moving' = Moving \cup {Head(queue)}
    BY <1>1, <2>1, <2>2, <2>3, HandTakes
  <2>. QED BY <2>1, <2>2, <2>4 DEF Separate, main
<1>3. CASE Publish(w)
  <2> DEFINE k == worker[w].key
  <2>1. /\ worker[w] # Idle /\ worker[w].at = "transfer" /\ pending' = Deposit(pending, k)
        /\ worker' = [worker EXCEPT ![w].at = "leaving"]
        /\ UNCHANGED <<main, inflight, queue>>
    BY <1>3, Busy DEF Publish
  <2>2. k \in Keys /\ k \in Moving /\ k \in InHand
    BY <1>1, <2>1, WorkerTasks DEF Moving, InHand
  <2>3. /\ OneEach' /\ InHand' = InHand
        /\ Moving' \subseteq Moving /\ k \notin Moving'
    BY <1>1, <2>1, HandLeaves
  <2> HIDE DEF k
  <2>4. ToSet(pending') = ToSet(pending) \cup {k} /\ Distinct(pending')
    BY <1>1, <2>1, <2>2, DepositKeys DEF Separate
  <2>5. k \notin ToSet(queue) /\ k \notin Resident(cache)
    BY <2>2 DEF Separate
  <2>. QED BY <2>1, <2>3, <2>4, <2>5 DEF Separate, main
<1>4. CASE Abort(w)
  <2>1. /\ worker[w] # Idle /\ worker' = [worker EXCEPT ![w].at = "leaving"]
        /\ UNCHANGED <<main, shared>>
    BY <1>4, Busy DEF Abort
  <2>2. OneEach' /\ InHand' = InHand /\ Moving' \subseteq Moving
    BY <1>1, <2>1, HandLeaves
  <2>. QED BY <2>1, <2>2 DEF Separate, main, shared
<1>5. CASE Discard(w)
  <2> DEFINE k == worker[w].key
  <2>1. /\ worker[w] # Idle /\ inflight' = inflight \ {k}
        /\ worker' = [worker EXCEPT ![w] = Idle]
        /\ UNCHANGED <<main, pending, queue>>
    BY <1>5, Busy DEF Discard
  <2>2. k \in InHand
    BY <2>1 DEF InHand
  <2>3. OneEach' /\ InHand' = InHand \ {k} /\ Moving' \subseteq Moving
    BY <1>1, <2>1, HandDrops
  <2> HIDE DEF k
  <2>. QED BY <2>1, <2>2, <2>3 DEF Separate, main
<1>. QED BY <1>2, <1>3, <1>4, <1>5 DEF WorkerStep

\* Only the look-ups of a layer move keys into the protected segment.
PromotionsOnAccess == ToSet(cache'.prot) \ ToSet(cache.prot) \subseteq LayerKeys(layer', activated')

LEMMA SeparateNext ==
    ASSUME ~ RustRunner, Inv, Separate, [Next]_vars
    PROVE  Separate' /\ PromotionsOnAccess
<1>1. ASSUME UNCHANGED <<cache, batch, shared, worker>>, pc' # "submit"
      PROVE  Separate' /\ PromotionsOnAccess
  BY <1>1 DEF Separate, PromotionsOnAccess, InHand, Moving, OneEach, shared
<1>2. ASSUME cache'.prot = cache.prot PROVE PromotionsOnAccess
  BY <1>2 DEF PromotionsOnAccess
<1>3. CASE StepStart
  BY <1>1, <1>3 DEF StepStart
<1>4. ASSUME NEW n \in 1 .. MaxActivated, NEW es \in kSubset(n, Experts), LoadActivated(es)
      PROVE  Separate' /\ PromotionsOnAccess
  <2>1. es \in SUBSET Experts /\ layer' = layer /\ activated' = es
    BY <1>4 DEF kSubset, LoadActivated
  <2>2. Separate' /\ ToSet(cache'.prot) \subseteq ToSet(cache.prot) \cup LayerKeys(layer, es)
    BY <1>4, <2>1, SeparateLoad
  <2>. QED BY <2>1, <2>2 DEF PromotionsOnAccess
<1>5. CASE ForwardMiss
  BY <1>1, <1>5 DEF ForwardMiss
<1>6. CASE Forward
  <2>1. cache' = cache
    BY <1>6 DEF Forward
  <2>. QED BY <1>2, <1>6, <2>1, SeparateForward
<1>7. CASE BatchCheckPending
  BY <1>7 DEF BatchCheckPending, Separate
<1>8. CASE BatchSubmit
  BY <1>8 DEF BatchSubmit, Separate
<1>9. CASE NextLayer
  BY <1>1, <1>9 DEF NextLayer
<1>10. CASE StepEnd
  BY <1>2, <1>10, SeparateEnd
<1>11. ASSUME NEW w \in Workers, WorkerStep(w) PROVE Separate' /\ PromotionsOnAccess
  BY <1>2, <1>11, SeparateWorker DEF main
<1>12. CASE UNCHANGED vars
  <2>1. pc # "submit"
    BY DEF Separate
  <2>. QED BY <1>1, <1>12, <2>1 DEF vars, main
<1>. QED BY <1>3, <1>4, <1>5, <1>6, <1>7, <1>8, <1>9, <1>10, <1>11, <1>12 DEF Next, MainStep

LEMMA SeparateInvariant ==
    ASSUME ~ RustRunner
    PROVE  Spec => [](Inv /\ Separate)
<1>1. Inv /\ Separate /\ [Next]_vars => Inv' /\ Separate'
  BY InvNext, SeparateNext
<1>. QED BY <1>1, InvInit, SeparateInit, PTL DEF Spec

\* prefetch_experts_batch aside, no PCIe transfer is spent on an expert that is
\* resident, has arrived, or is on its way: _prefetch_layer_diffset never
\* submits what is announced, and what is announced is what is on its way.
THEOREM NoTransferIsRedundant ==
    ASSUME ~ RustRunner
    PROVE  Spec => []NoRedundantTransfer
<1>1. Inv /\ Separate => NoRedundantTransfer
  <2> SUFFICES ASSUME Separate PROVE NoRedundantTransfer
    OBVIOUS
  <2>1. Transferring = ToSet(queue) \cup Moving
    BY DEF Transferring, Moving
  <2>2. \A w \in Workers : worker[w].at = "transfer" =>
            /\ worker[w] # Idle /\ worker[w].key \in InHand
    BY Busy DEF InHand
  <2>3. \A w \in Workers : worker[w].at = "transfer" =>
          /\ worker[w].key \notin ToSet(queue)
          /\ \A v \in Workers \ {w} :
                worker[v].at = "transfer" => worker[v].key # worker[w].key
    BY <2>2 DEF Separate, OneEach
  <2>. QED BY <2>1, <2>3 DEF Separate, NoRedundantTransfer
<1>. QED BY <1>1, SeparateInvariant, PTL

\* put_force: "no automatic promotion".  A prefetched expert enters probation
\* because it is neither resident when it arrives nor deposited twice; only the
\* step's own look-ups protect an expert.
THEOREM OnlyAccessPromotes ==
    ASSUME ~ RustRunner
    PROVE  Spec => PromotedOnAccess
<1>1. Inv /\ Separate /\ [Next]_vars =>
         [ToSet(cache'.prot) \ ToSet(cache.prot) \subseteq LayerKeys(layer', activated')]_vars
  BY SeparateNext DEF PromotionsOnAccess
<1>. QED BY <1>1, SeparateInvariant, PTL DEF Spec, PromotedOnAccess

(***************************************************************************)
(* The keys of the current step.  While one token is computed they are the *)
(* most recent keys of the protected segment, and fewer than it holds: so  *)
(* the demotions that hits cause reach an older key first, and put_force   *)
(* takes its victims from probation.                                       *)
(***************************************************************************)

\* K is in od, at its most recent end.
Recent(od, K) ==
    /\ K \subseteq ToSet(od)
    /\ \A i, j \in DOMAIN od : i < j /\ od[i] \in K => od[j] \in K

LEMMA AppendRecent ==
    ASSUME NEW S, NEW s \in Seq(S), NEW k \in S, k \notin ToSet(s), NEW K, Recent(s, K)
    PROVE  Recent(Append(s, k), K \cup {k})
<1> DEFINE r == Append(s, k)
<1>1. /\ r \in Seq(S) /\ Len(s) \in Nat /\ Len(r) = Len(s) + 1
      /\ \A i \in 1 .. Len(s) : r[i] = s[i]
      /\ r[Len(s) + 1] = k
  BY AppendProperties
<1>2. DOMAIN r = 1 .. Len(s) + 1 /\ DOMAIN s = 1 .. Len(s)
  BY <1>1
<1> HIDE DEF r
<1>3. K \cup {k} \subseteq ToSet(r)
  <2>1. ToSet(s) \subseteq ToSet(r)
    BY <1>1, <1>2 DEF ToSet
  <2>2. k \in ToSet(r)
    BY <1>1, <1>2 DEF ToSet
  <2>. QED BY <2>1, <2>2 DEF Recent
<1>4. ASSUME NEW i \in DOMAIN r, NEW j \in DOMAIN r, i < j, r[i] \in K \cup {k}
      PROVE  r[j] \in K \cup {k}
  <2>1. CASE j = Len(s) + 1
    BY <1>1, <2>1
  <2>2. CASE j # Len(s) + 1
    <3>1. i \in DOMAIN s /\ j \in DOMAIN s
      BY <1>1, <1>2, <1>4, <2>2
    <3>2. r[i] = s[i] /\ r[j] = s[j]
      BY <1>1, <1>2, <3>1
    <3>3. s[i] # k
      BY <3>1 DEF ToSet
    <3>. QED BY <1>4, <3>1, <3>2, <3>3 DEF Recent
  <2>. QED BY <2>1, <2>2
<1>. QED BY <1>3, <1>4 DEF Recent, r

LEMMA RemoveRecent ==
    ASSUME NEW S, NEW s \in Seq(S), NEW n \in 1 .. Len(s), Distinct(s), NEW K, Recent(s, K)
    PROVE  Recent(RemoveAt(s, n), K \ {s[n]})
<1> DEFINE r == RemoveAt(s, n)
           at(k) == IF k < n THEN k ELSE k + 1
<1>1. /\ r \in Seq(S)
      /\ Len(r) = Len(s) - 1
      /\ \A j \in 1 .. Len(s) - 1 : r[j] = IF j < n THEN s[j] ELSE s[j + 1]
  BY RemoveAtProperties
<1>2. DOMAIN r = 1 .. Len(s) - 1 /\ DOMAIN s = 1 .. Len(s) /\ Len(s) \in Nat /\ n \in Nat
  BY <1>1
<1>3. ToSet(r) = ToSet(s) \ {s[n]}
  BY RemoveAtKeys
<1> HIDE DEF r
<1>4. ASSUME NEW i \in DOMAIN r
      PROVE  at(i) \in DOMAIN s /\ r[i] = s[at(i)] /\ at(i) # n /\ i \in Nat
  BY <1>1, <1>2
<1>5. ASSUME NEW i \in DOMAIN r, NEW j \in DOMAIN r, i < j, r[i] \in K \ {s[n]}
      PROVE  r[j] \in K \ {s[n]}
  <2>1. at(i) < at(j)
    BY <1>2, <1>4, <1>5
  <2> HIDE DEF at
  <2>2. s[at(j)] \in K
    BY <1>4, <1>5, <2>1 DEF Recent
  <2>3. s[at(j)] # s[n]
    BY <1>2, <1>4 DEF Distinct
  <2>. QED BY <1>4, <2>2, <2>3
<1>6. K \ {s[n]} \subseteq ToSet(r)
  BY <1>3 DEF Recent
<1>. QED BY <1>5, <1>6 DEF Recent, r

LEMMA MoveRecent ==
    ASSUME NEW S, NEW s \in Seq(S), Distinct(s), NEW k \in ToSet(s), NEW K, Recent(s, K)
    PROVE  Recent(MoveToEnd(s, k), K \cup {k})
<1> DEFINE n == Position(s, k)
           r == RemoveAt(s, n)
<1>1. n \in 1 .. Len(s) /\ s[n] = k
  <2>1. \E i \in DOMAIN s : s[i] = k
    BY DEF ToSet
  <2>. QED BY <2>1 DEF Position
<1>2. MoveToEnd(s, k) = Append(r, k)
  BY DEF MoveToEnd, Pop
<1> HIDE DEF n
<1>3. Recent(r, K \ {k}) /\ r \in Seq(S) /\ k \notin ToSet(r)
  <2>1. Recent(r, K \ {s[n]})
    BY <1>1, RemoveRecent
  <2>2. r \in Seq(S)
    BY <1>1, RemoveAtProperties
  <2>3. ToSet(r) = ToSet(s) \ {s[n]}
    BY <1>1, RemoveAtKeys
  <2> HIDE DEF r
  <2>. QED BY <1>1, <2>1, <2>2, <2>3
<1>4. k \in S
  BY DEF ToSet
<1> HIDE DEF r
<1>5. Recent(Append(r, k), (K \ {k}) \cup {k})
  BY <1>3, <1>4, AppendRecent
<1>6. (K \ {k}) \cup {k} = K \cup {k}
  OBVIOUS
<1>. QED BY <1>2, <1>5, <1>6

\* A look-up spares no layer and no key: its victim is the oldest.
LEMMA OldestVictim ==
    ASSUME NEW od \in Seq(Keys), Len(od) > 0
    PROVE  VictimIndex(od, NoLayer, {}) = 1
<1> DEFINE evictable == {i \in DOMAIN od : ~ Spared(od[i], NoLayer, {})}
<1>1. DOMAIN od = 1 .. Len(od) /\ Len(od) \in Nat /\ 1 \in 1 .. Len(od)
  OBVIOUS
<1>2. \A i \in DOMAIN od : ~ Spared(od[i], NoLayer, {})
  <2> SUFFICES ASSUME NEW i \in DOMAIN od PROVE ~ Spared(od[i], NoLayer, {})
    OBVIOUS
  <2>1. od[i] \in Keys
    OBVIOUS
  <2>2. LayerOf(od[i]) \in Nat
    BY <2>1, LayersAssumption DEF Keys, LayerOf
  <2>. QED BY <2>2 DEF Spared, NoLayer
<1>3. evictable = 1 .. Len(od)
  BY <1>1, <1>2
<1>4. VictimIndex(od, NoLayer, {}) =
         IF evictable = {} THEN 1 ELSE CHOOSE i \in evictable : \A j \in evictable : i <= j
  BY DEF VictimIndex
<1> HIDE DEF evictable
<1>5. 1 \in evictable /\ \A j \in evictable : 1 <= j
  BY <1>1, <1>3
<1>6. \A i \in evictable : (\A j \in evictable : i <= j) => i = 1
  BY <1>1, <1>3, <1>5
<1>. QED BY <1>4, <1>5, <1>6

LEMMA AccessRecent ==
    ASSUME NEW c, Sound(c), NEW k \in Resident(c), NEW K, Recent(c.prot, K),
           IsFiniteSet(K), Cardinality(K) < ProtectedCapacity
    PROVE  Recent(Access(c, k).prot, K \cup {k})
<1>0. /\ c \in Orders /\ c.prot \in Seq(Keys) /\ c.prob \in Seq(Keys)
      /\ Distinct(c.prot) /\ Len(c.prot) <= ProtectedCapacity
      /\ Len(c.prot) \in Nat /\ ProtectedCapacity \in Nat \ {0}
      /\ k \in Keys
  BY ResidentType, CapacityAssumption DEF Sound, Orders, Apart, Fits
<1>1. CASE k \in ToSet(c.prot)
  <2>1. Access(c, k).prot = MoveToEnd(c.prot, k)
    BY <1>0, <1>1 DEF Access, Get, Orders
  <2>. QED BY <1>0, <1>1, <2>1, MoveRecent
<1>2. CASE k \notin ToSet(c.prot)
  <2> DEFINE q == [c EXCEPT !.prob = Pop(@, k)]
  <2>1. q.prot = c.prot
    BY <1>0 DEF Orders
  <2>2. Access(c, k) = Promote(q, k, NoLayer, {})
    BY <1>2 DEF Access, Get
  <2>3. q = [prot |-> c.prot, prob |-> Pop(c.prob, k)]
    BY <1>0 DEF Orders
  <2> HIDE DEF q
  <2>4. CASE Len(c.prot) < ProtectedCapacity
    <3>1. Access(c, k).prot = Append(c.prot, k)
      BY <2>2, <2>3, <2>4 DEF Promote
    <3>. QED BY <1>0, <1>2, <3>1, AppendRecent
  <2>5. CASE ~ (Len(c.prot) < ProtectedCapacity)
    <3>1. Len(c.prot) = ProtectedCapacity /\ Len(c.prot) > 0 /\ 1 \in 1 .. Len(c.prot)
      BY <1>0, <2>5
    <3>2. VictimIndex(c.prot, NoLayer, {}) = 1
      BY <1>0, <3>1, OldestVictim
    <3> DEFINE r == RemoveAt(c.prot, 1)
    <3>3. Promote(q, k, NoLayer, {}) =
             [prot |-> Append(RemoveAt(q.prot, VictimIndex(q.prot, NoLayer, {})), k),
              prob |-> PushProbation(q.prob, q.prot[VictimIndex(q.prot, NoLayer, {})])]
      BY <2>1, <2>5, Zenon DEF Promote
    <3>4. Access(c, k).prot = Append(r, k)
      BY <2>1, <2>2, <3>2, <3>3
    <3>5. c.prot[1] \notin K
      <4> SUFFICES ASSUME c.prot[1] \in K PROVE FALSE
        OBVIOUS
      <4>1. \A j \in 1 .. Len(c.prot) : c.prot[j] \in K
        BY <1>0, <3>1 DEF Recent
      <4>2. ToSet(c.prot) \subseteq K
        BY <1>0, <4>1 DEF ToSet
      <4>3. Cardinality(ToSet(c.prot)) = Len(c.prot)
        BY <1>0, LengthOfQueue DEF IsInjective, Distinct
      <4>4. Cardinality(ToSet(c.prot)) <= Cardinality(K) /\ Cardinality(K) \in Nat
        BY <4>2, FS_Subset, FS_CardinalityType
      <4>. QED BY <1>0, <3>1, <4>3, <4>4
    <3>6. Recent(r, K \ {c.prot[1]})
      BY <1>0, <3>1, RemoveRecent
    <3>7. r \in Seq(Keys) /\ ToSet(r) \subseteq ToSet(c.prot)
      BY <1>0, <3>1, RemoveAtProperties, RemoveAtKeys
    <3>8. K \ {c.prot[1]} = K
      BY <3>5
    <3> HIDE DEF r
    <3>9. Recent(Append(r, k), K \cup {k})
      BY <1>0, <1>2, <3>6, <3>7, <3>8, AppendRecent
    <3>. QED BY <3>4, <3>9
  <2>. QED BY <2>4, <2>5
<1>. QED BY <1>1, <1>2

\* The look-ups of a layer put its hits at the recent end, too.
LEMMA AccessAllRecent ==
    ASSUME NEW c, Sound(c), NEW order \in Seq(Keys), ToSet(order) \subseteq Resident(c),
           NEW K, Recent(c.prot, K),
           IsFiniteSet(K \cup ToSet(order)),
           Cardinality(K \cup ToSet(order)) < ProtectedCapacity
    PROVE  Recent(GetAll(c, order).prot, K \cup ToSet(order))
<1> DEFINE Seen(n) == {order[i] : i \in 1 .. n}
           All == K \cup ToSet(order)
<1>1. PICK g : /\ g[0] = c
               /\ \A n \in 1 .. Len(order) : g[n] = Access(g[n - 1], order[n])
               /\ g[Len(order)] = GetAll(c, order)
  BY AccessedSteps DEF GetAll
<1>2. /\ Len(order) \in Nat
      /\ \A n \in 1 .. Len(order) : order[n] \in ToSet(order)
      /\ Seen(Len(order)) = ToSet(order)
  BY DEF ToSet
<1> DEFINE Good(n) == /\ Sound(g[n]) /\ Resident(g[n]) = Resident(c)
                      /\ Recent(g[n].prot, K \cup Seen(n))
           G == {n \in 0 .. Len(order) : Good(n)}
<1>3. 0 \in G
  <2>1. 1 .. 0 = {}
    OBVIOUS
  <2>2. Seen(0) = {}
    BY <2>1
  <2> HIDE DEF Seen
  <2>3. K \cup Seen(0) = K
    BY <2>2
  <2>4. Good(0)
    BY <1>1, <2>3
  <2> HIDE DEF Good
  <2>5. 0 \in 0 .. Len(order)
    BY <1>2
  <2>. QED BY <2>4, <2>5
<1>4. ASSUME NEW n \in 1 .. Len(order), n - 1 \in G PROVE n \in G
  <2>1. /\ Sound(g[n - 1]) /\ Resident(g[n - 1]) = Resident(c)
        /\ Recent(g[n - 1].prot, K \cup Seen(n - 1))
        /\ order[n] \in Resident(g[n - 1])
    BY <1>2, <1>4
  <2>2. g[n] = Access(g[n - 1], order[n]) /\ n \in 0 .. Len(order)
    BY <1>1
  <2>3. Sound(g[n]) /\ Resident(g[n]) = Resident(g[n - 1])
    BY <2>1, <2>2, GetSound DEF Access
  <2>4. K \cup Seen(n - 1) \subseteq All
    BY <1>2
  <2>5. Seen(n) = Seen(n - 1) \cup {order[n]}
    <3>1. \A i \in 1 .. n : i \in 1 .. n - 1 \/ i = n
      OBVIOUS
    <3>2. \A i \in 1 .. n - 1 : i \in 1 .. n
      OBVIOUS
    <3>3. n \in 1 .. n
      OBVIOUS
    <3>. QED BY <3>1, <3>2, <3>3
  <2> HIDE DEF Seen, All
  <2>6. /\ IsFiniteSet(K \cup Seen(n - 1))
        /\ Cardinality(K \cup Seen(n - 1)) < ProtectedCapacity
    <3>1. IsFiniteSet(All) /\ Cardinality(All) < ProtectedCapacity
      BY DEF All
    <3>2. /\ IsFiniteSet(K \cup Seen(n - 1))
          /\ Cardinality(K \cup Seen(n - 1)) <= Cardinality(All)
          /\ Cardinality(K \cup Seen(n - 1)) \in Nat /\ Cardinality(All) \in Nat
      BY <2>4, <3>1, FS_Subset, FS_CardinalityType
    <3>. QED BY <3>1, <3>2, CapacityAssumption
  <2>7. Recent(g[n].prot, (K \cup Seen(n - 1)) \cup {order[n]})
    BY <2>1, <2>2, <2>6, AccessRecent
  <2>8. K \cup Seen(n) = (K \cup Seen(n - 1)) \cup {order[n]}
    BY <2>5
  <2>. QED BY <2>1, <2>2, <2>3, <2>7, <2>8
<1>5. Len(order) \in G
  <2> HIDE DEF G
  <2>1. 0 .. Len(order) \subseteq G
    BY <1>2, <1>3, <1>4, StepByStep
  <2>. QED BY <1>2, <2>1
<1> HIDE DEF Seen
<1>. QED BY <1>1, <1>2, <1>5

Kept ==
    /\ Recent(cache.prot, stepKeys)
    /\ pc = "load" => Cardinality(stepKeys) <= layer * MaxActivated
    /\ pc \in {"forward", "batch", "submit"} =>
          Cardinality(stepKeys) <= (layer + 1) * MaxActivated

LEMMA FiniteKeys ==
    ASSUME NEW K \in SUBSET Keys
    PROVE  IsFiniteSet(K) /\ Cardinality(K) \in Nat
  BY KeysFinite, FS_Subset, FS_CardinalityType

\* One forward of a layer hits no more keys than it activates.
LEMMA FewKeys ==
    ASSUME NEW n \in Nat, NEW es \in kSubset(n, Experts), NEW l
    PROVE  Cardinality(LayerKeys(l, es)) <= n
<1>1. IsFiniteSet(es) /\ Cardinality(es) = n
  BY ExpertsAssumption, FS_Subset DEF kSubset
<1> DEFINE f == [e \in es |-> <<l, e>>]
<1>2. f \in Surjection(es, LayerKeys(l, es))
  BY DEF Surjection, LayerKeys
<1>3. Cardinality(LayerKeys(l, es)) <= Cardinality(es)
  BY <1>1, <1>2, FS_Surjection
<1>. QED BY <1>1, <1>3

\* The keys of all layers of one token fit the protected segment.
LEMMA RoomForStep ==
    ASSUME Protecting, MaxActivated <= TopK, ProbationCapacity < ProtectedCapacity,
           NEW l \in Layers
    PROVE  /\ (l + 1) * MaxActivated < ProtectedCapacity
           /\ l * MaxActivated + MaxActivated = (l + 1) * MaxActivated
           /\ l * MaxActivated \in Nat /\ (l + 1) * MaxActivated \in Nat
<1>1. /\ l \in Nat /\ l + 1 \in Nat /\ l + 1 <= NLayers /\ NLayers \in Nat
      /\ MaxActivated \in Nat /\ TopK \in Nat
      /\ ProtectedCapacity \in Nat /\ ProbationCapacity \in Nat
  BY LayersAssumption, RoutingAssumption, CapacityAssumption
<1>2. /\ (l + 1) * MaxActivated <= NLayers * MaxActivated
      /\ (l + 1) * MaxActivated \in Nat /\ NLayers * MaxActivated \in Nat
  BY <1>1, ProductMonotone
<1>3. /\ MaxActivated * NLayers <= TopK * NLayers
      /\ MaxActivated * NLayers \in Nat /\ TopK * NLayers \in Nat
  BY <1>1, ProductMonotone
<1>4. NLayers * MaxActivated = MaxActivated * NLayers /\ TopK * NLayers = NLayers * TopK
  BY <1>1, ProductFacts
<1>5. 2 * NLayers * TopK = 2 * (NLayers * TopK)
  BY <1>1, SMTT(20)
<1>6. l * MaxActivated \in Nat /\ l * MaxActivated + MaxActivated = (l + 1) * MaxActivated
  BY <1>1, ProductFacts
<1>7. ProtectedCapacity + ProbationCapacity >= 2 * NLayers * TopK
  BY DEF Protecting
<1> DEFINE a == (l + 1) * MaxActivated
           b == NLayers * TopK
<1>8. a <= b /\ a \in Nat /\ b \in Nat /\ ProtectedCapacity + ProbationCapacity >= 2 * b
  BY <1>2, <1>3, <1>4, <1>5, <1>7
<1> HIDE DEF a, b
<1>9. a < ProtectedCapacity
  BY <1>1, <1>8
<1>. QED BY <1>2, <1>6, <1>9 DEF a

LEMMA RecentNone == \A od : Recent(od, {})
  BY DEF Recent

\* Loading the experts of a layer adds its hits to the step's keys, and loses
\* none of them.
LEMMA LoadKeeps ==
    ASSUME MaxActivated <= TopK, ProbationCapacity < ProtectedCapacity,
           Typed, Separate, Kept, NEW n \in 1 .. MaxActivated, NEW es \in kSubset(n, Experts),
           LoadActivated(es)
    PROVE  /\ Recent(cache'.prot, stepKeys')
           /\ Cardinality(stepKeys') <= (layer + 1) * MaxActivated
           /\ Protecting => stepKeys \subseteq stepKeys'
<1> DEFINE s == PromotePrefetch([cache |-> cache, loaded |-> loaded, step |-> stepKeys])
           keys == LayerKeys(layer, es)
           hits == keys \cap Resident(s.cache)
<1>1. /\ stepKeys \in SUBSET Keys /\ layer \in Layers /\ es \in SUBSET Experts
      /\ n \in Nat /\ n <= MaxActivated /\ MaxActivated \in Nat /\ layer + 1 \in Nat
  BY RoutingAssumption, LayersAssumption DEF Typed, kSubset
<1>2. keys \in SUBSET Keys /\ Cardinality(keys) <= n
  BY <1>1, LayerKeysType, FewKeys
<1>3. Sound(s.cache) /\ s.cache.prot = cache.prot
  BY <1>1, PromoteEffect DEF Separate
<1>4. /\ \E order \in Orderings(hits) : cache' = GetAll(s.cache, order)
      /\ stepKeys' = IF Protecting THEN stepKeys \cup hits ELSE {}
      /\ pc = "load"
  BY DEF LoadActivated
<1> HIDE DEF s, keys
<1>5. CASE ~ Protecting
  <2>1. stepKeys' = {} /\ Cardinality(stepKeys') = 0
    BY <1>4, <1>5, FS_EmptySet
  <2>2. (layer + 1) * MaxActivated \in Nat
    BY <1>1, ProductFacts
  <2>. QED BY <1>5, <2>1, <2>2, RecentNone
<1>6. CASE Protecting
  <2>1. /\ (layer + 1) * MaxActivated < ProtectedCapacity
        /\ layer * MaxActivated + MaxActivated = (layer + 1) * MaxActivated
        /\ layer * MaxActivated \in Nat /\ (layer + 1) * MaxActivated \in Nat
    BY <1>1, <1>6, RoomForStep
  <2>2. hits \in SUBSET keys /\ hits \in SUBSET Keys
    BY <1>2
  <2>3. Cardinality(hits) <= Cardinality(keys)
    BY <1>2, <2>2, FiniteKeys, FS_Subset
  <2>4. PICK order \in Orderings(hits) : cache' = GetAll(s.cache, order)
    BY <1>4
  <2>5. order \in Seq(Keys) /\ ToSet(order) = hits
    BY <2>2, <2>4, OrdersOfKeys DEF Orderings
  <2>6. ToSet(order) \subseteq Resident(s.cache)
    BY <2>5
  <2> DEFINE all == stepKeys \cup hits
  <2>7. /\ IsFiniteSet(all) /\ Cardinality(all) \in Nat
        /\ Cardinality(all) <= Cardinality(stepKeys) + Cardinality(hits)
    <3> HIDE DEF hits
    <3>1. /\ IsFiniteSet(stepKeys) /\ IsFiniteSet(hits) /\ IsFiniteSet(stepKeys \cap hits)
          /\ Cardinality(stepKeys) \in Nat /\ Cardinality(hits) \in Nat
          /\ Cardinality(stepKeys \cap hits) \in Nat
      <4>1. stepKeys \cap hits \in SUBSET Keys
        BY <1>1
      <4>. QED BY <1>1, <2>2, <4>1, FiniteKeys
    <3>2. /\ IsFiniteSet(all)
          /\ Cardinality(all) = Cardinality(stepKeys) + Cardinality(hits)
                                  - Cardinality(stepKeys \cap hits)
      BY <3>1, FS_Union
    <3>3. Cardinality(all) \in Nat
      BY <3>2, FS_CardinalityType
    <3> HIDE DEF all
    <3>. QED BY <3>1, <3>2, <3>3
  <2>8. Cardinality(all) <= (layer + 1) * MaxActivated
    <3>1. Cardinality(stepKeys) <= layer * MaxActivated
      BY <1>4 DEF Kept
    <3>2. /\ Cardinality(stepKeys) \in Nat /\ Cardinality(hits) \in Nat
          /\ Cardinality(keys) \in Nat
      BY <1>1, <1>2, <2>2, FiniteKeys
    <3> DEFINE x == layer * MaxActivated
               y == (layer + 1) * MaxActivated
    <3>3. x + MaxActivated = y /\ x \in Nat /\ y \in Nat /\ Cardinality(stepKeys) <= x
      BY <2>1, <3>1
    <3> HIDE DEF x, y, all, hits
    <3>4. Cardinality(all) <= y
      BY <1>1, <1>2, <2>3, <2>7, <3>2, <3>3
    <3>. QED BY <3>4 DEF y
  <2>9. Cardinality(all) < ProtectedCapacity
    <3> DEFINE y == (layer + 1) * MaxActivated
    <3>1. Cardinality(all) <= y /\ y < ProtectedCapacity /\ y \in Nat
      BY <2>1, <2>8
    <3> HIDE DEF y, all
    <3>. QED BY <2>7, <3>1, CapacityAssumption
  <2>10. Recent(s.cache.prot, stepKeys)
    BY <1>3 DEF Kept
  <2>11. stepKeys \cup ToSet(order) = all
    BY <2>5
  <2> HIDE DEF all, hits
  <2>12. Recent(GetAll(s.cache, order).prot, stepKeys \cup ToSet(order))
    BY <1>3, <2>5, <2>6, <2>7, <2>9, <2>10, <2>11, AccessAllRecent
  <2>13. stepKeys' = all /\ stepKeys \subseteq stepKeys'
    BY <1>4, <1>6 DEF all
  <2>. QED BY <2>4, <2>8, <2>11, <2>12, <2>13
<1>. QED BY <1>5, <1>6

\* What StepProtected says of a step.
StepKeysStay == Protecting /\ stepKeys' # {} => stepKeys \subseteq Resident(cache')

LEMMA KeptInit == Init => Kept
<1> SUFFICES ASSUME Init PROVE Kept
  OBVIOUS
<1>1. stepKeys = {} /\ pc = "step"
  BY DEF Init
<1>. QED BY <1>1, RecentNone DEF Kept

LEMMA KeptNext ==
    ASSUME ~ RustRunner, MaxActivated <= TopK, ProbationCapacity < ProtectedCapacity,
           Inv, Separate, Kept, [Next]_vars
    PROVE  Kept' /\ StepKeysStay
<1>1. Typed /\ Typed' /\ layer \in Layers
  BY InvNext DEF Inv, Typed
<1>2. ASSUME stepKeys' \subseteq Resident(cache'), stepKeys \subseteq stepKeys' PROVE StepKeysStay
  BY <1>2 DEF StepKeysStay
<1>3. stepKeys \subseteq Resident(cache)
  BY DEF Kept, Recent, Resident
<1>4. ASSUME stepKeys' = {},
             pc' = "load" => layer' = 0, pc' \notin {"forward", "batch", "submit"}
      PROVE  Kept' /\ StepKeysStay
  <2>1. Cardinality(stepKeys') = 0 /\ 0 * MaxActivated = 0
    BY <1>4, FS_EmptySet, RoutingAssumption
  <2>2. Recent(cache'.prot, stepKeys')
    BY <1>4, RecentNone
  <2>. QED BY <1>4, <2>1, <2>2 DEF Kept, StepKeysStay
<1>5. ASSUME cache' = cache, stepKeys' = stepKeys, layer' = layer,
             \/ pc' = pc \/ pc' = "dead"
             \/ pc \in {"forward", "batch", "submit"} /\ pc' \in {"batch", "submit"}
      PROVE  Kept' /\ StepKeysStay
  <2>1. Kept'
    BY <1>5 DEF Kept
  <2>. QED BY <1>2, <1>3, <1>5, <2>1
<1>6. CASE StepStart
  BY <1>4, <1>6 DEF StepStart
<1>7. ASSUME NEW n \in 1 .. MaxActivated, NEW es \in kSubset(n, Experts), LoadActivated(es)
      PROVE  Kept' /\ StepKeysStay
  <2>1. /\ Recent(cache'.prot, stepKeys')
        /\ Cardinality(stepKeys') <= (layer + 1) * MaxActivated
        /\ Protecting => stepKeys \subseteq stepKeys'
    BY <1>1, <1>7, LoadKeeps
  <2>2. layer' = layer /\ pc' = "forward"
    BY <1>7 DEF LoadActivated
  <2>3. Kept'
    BY <2>1, <2>2 DEF Kept
  <2>4. stepKeys' \subseteq Resident(cache')
    BY <2>1 DEF Recent, Resident
  <2>. QED BY <2>1, <2>3, <2>4 DEF StepKeysStay
<1>8. CASE ForwardMiss
  BY <1>5, <1>8 DEF ForwardMiss
<1>9. CASE Forward
  BY <1>5, <1>9 DEF Forward
<1>10. CASE BatchCheckPending
  BY <1>5, <1>10 DEF BatchCheckPending
<1>11. CASE BatchSubmit
  BY <1>5, <1>11 DEF BatchSubmit
<1>12. CASE NextLayer
  <2>1. /\ pc = "batch" /\ layer' = layer + 1 /\ pc' = "load"
        /\ UNCHANGED <<cache, stepKeys>>
    BY <1>12 DEF NextLayer
  <2>2. Kept'
    BY <2>1 DEF Kept
  <2>. QED BY <1>2, <1>3, <2>1, <2>2
<1>13. CASE StepEnd
  <2>1. stepKeys' = {} /\ pc' \in {"step", "stop"}
    BY <1>13 DEF StepEnd
  <2>. QED BY <1>4, <2>1
<1>14. ASSUME NEW w \in Workers, WorkerStep(w) PROVE Kept' /\ StepKeysStay
  BY <1>5, <1>14, SeparateWorker DEF main
<1>15. CASE UNCHANGED vars
  BY <1>5, <1>15 DEF vars, main
<1>. QED BY <1>6, <1>7, <1>8, <1>9, <1>10, <1>11, <1>12, <1>13, <1>14, <1>15 DEF Next, MainStep

\* _step_protected_keys: with one token in the forward, no expert that the
\* current step has accessed leaves the cache, whatever is promoted, demoted and
\* evicted in between.  A prefill that activates more can overflow the segment.
THEOREM StepKeysProtected ==
    ASSUME ~ RustRunner, MaxActivated <= TopK, ProbationCapacity < ProtectedCapacity
    PROVE  Spec => StepProtected
<1>1. Inv /\ Separate /\ Kept /\ [Next]_vars => Inv' /\ Separate' /\ Kept'
  BY InvNext, SeparateNext, KeptNext
<1>2. Inv /\ Separate /\ Kept /\ [Next]_vars =>
         [Protecting /\ stepKeys' # {} => stepKeys \subseteq Resident(cache')]_vars
  BY KeptNext DEF StepKeysStay
<1>3. Init => Inv /\ Separate /\ Kept
  BY InvInit, SeparateInit, KeptInit
<1>. QED BY <1>1, <1>2, <1>3, PTL DEF Spec, StepProtected
================================================================================
