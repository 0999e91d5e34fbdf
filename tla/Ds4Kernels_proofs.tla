-------------------------- MODULE Ds4Kernels_proofs ---------------------------
(***************************************************************************)
(* Proofs about three of the computations of Ds4Kernels: the split of a    *)
(* token's picks between the hot and the cold experts of llama.cpp, for    *)
(* any profile, devices and failing buffers, the expert-grouped prefill of *)
(* ds4, for any number of tokens, experts and rows and any order in which  *)
(* the threads do the tasks, and the matrix products of llamafile_sgemm,   *)
(* for any sizes, class, number of threads and order of their steps.       *)
(***************************************************************************)
EXTENDS Ds4Kernels, DataFacts_proofs

(***************************************************************************)
(* Loops that build a sequence: what is recursive in the models is a chain *)
(* of values, each the next one of the one before.  Such a chain exists.   *)
(***************************************************************************)

\* One turn of a loop: of HotIds over a list, of TermsOf over the visited
\* pairs (of token a[2], with the terms a[3]), of FlattenSeq.
Turn(loop, a, s, k) ==
    CASE loop = "ids" -> IF a[k] \in Experts /\ Len(s) < KHot THEN Append(s, a[k]) ELSE s
      [] loop = "terms" -> IF TokenOf(a[1][k]) # a[2] THEN s ELSE Append(s, a[3][k])
      [] loop = "flatten" -> s \o a[k]

ChainOf(loop, a, base, first, last, x) ==
    x = [k \in first .. last |-> IF k = first THEN base ELSE Turn(loop, a, x[k - 1], k)]

LEMMA ChainExists ==
    ASSUME NEW loop, NEW a, NEW base, NEW first \in Nat, NEW n \in Nat
    PROVE  \E x : ChainOf(loop, a, base, first, first + n, x)
<1> DEFINE Steps == {m \in 0 .. n : \E x : ChainOf(loop, a, base, first, first + m, x)}
<1>1. 0 \in Steps
  <2> DEFINE x == [k \in first .. first + 0 |-> base]
  <2>1. \A k \in first .. first + 0 : k = first
    OBVIOUS
  <2>2. ChainOf(loop, a, base, first, first + 0, x)
    BY <2>1 DEF ChainOf
  <2>. QED BY <2>2
<1>2. ASSUME NEW m \in 1 .. n, m - 1 \in Steps PROVE m \in Steps
  <2> DEFINE top == first + m
  <2>1. top \in Nat /\ top - 1 = first + (m - 1) /\ top > first /\ m \in 0 .. n
    OBVIOUS
  <2>2. PICK f : ChainOf(loop, a, base, first, first + (m - 1), f)
    BY <1>2
  <2> HIDE DEF top
  <2> DEFINE h == [k \in first .. top |-> IF k = top THEN Turn(loop, a, f[top - 1], k) ELSE f[k]]
             g == [k \in first .. top |-> IF k = first THEN base ELSE Turn(loop, a, h[k - 1], k)]
  <2>3. f = [k \in first .. top - 1 |-> IF k = first THEN base ELSE Turn(loop, a, f[k - 1], k)]
    BY <2>1, <2>2 DEF ChainOf
  <2>4. ASSUME NEW k \in first .. top PROVE h[k] = g[k]
    <3>1. CASE k = top
      <4>1. h[top - 1] = f[top - 1] /\ k # first
        BY <2>1, <3>1
      <4>. QED BY <3>1, <4>1
    <3>2. CASE k # top /\ k # first
      <4>1. k \in first .. top - 1 /\ k - 1 \in first .. top /\ k - 1 # top
        BY <2>1, <3>2
      <4>2. h[k - 1] = f[k - 1] /\ h[k] = f[k]
        BY <3>2, <4>1
      <4>3. f[k] = Turn(loop, a, f[k - 1], k)
        BY <2>3, <3>2, <4>1
      <4>. QED BY <3>2, <4>2, <4>3
    <3>3. CASE k = first
      <4>1. k # top /\ k \in first .. top - 1
        BY <2>1, <3>3
      <4>. QED BY <2>3, <3>3, <4>1
    <3>. QED BY <3>1, <3>2, <3>3
  <2>5. h = g
    BY <2>4
  <2>6. ChainOf(loop, a, base, first, top, h)
    BY <2>5 DEF ChainOf
  <2>. QED BY <2>1, <2>6 DEF top
<1>3. 0 .. n \subseteq Steps
  <2> HIDE DEF Steps
  <2>. QED BY <1>1, <1>2, StepByStep
<1>. QED BY <1>3

(***************************************************************************)
(* The hot experts.                                                        *)
(***************************************************************************)

\* The kept entries of a list are experts.
LEMMA HotIdsAre ==
    ASSUME NEW list \in Seq(Int)
    PROVE  HotIds(list) \in Seq(Experts)
<1> DEFINE n == Len(list)
           next(s, k) == IF list[k] \in Experts /\ Len(s) < KHot THEN Append(s, list[k]) ELSE s
           F(x) == x = [k \in 0 .. n |->
                          IF k = 0 THEN << >>
                          ELSE IF list[k] \in Experts /\ Len(x[k - 1]) < KHot THEN Append(x[k - 1], list[k])
                          ELSE x[k - 1]]
           kept == CHOOSE x : F(x)
<1>1. n \in Nat
  OBVIOUS
<1>2. HotIds(list) = kept[n]
  BY DEF HotIds
<1>3. F(kept)
  <2> HIDE DEF n
  <2>1. PICK x : ChainOf("ids", list, << >>, 0, n, x)
    <3>1. 0 \in Nat /\ n = 0 + n
      BY <1>1
    <3>2. \E x : ChainOf("ids", list, << >>, 0, 0 + n, x)
      BY <1>1, <3>1, ChainExists
    <3>. QED BY <3>1, <3>2, Zenon
  <2>2. \A s, k : Turn("ids", list, s, k) = next(s, k)
    BY DEF Turn
  <2>3. x = [k \in 0 .. n |-> IF k = 0 THEN << >> ELSE Turn("ids", list, x[k - 1], k)]
    BY <2>1 DEF ChainOf
  <2>4. x = [k \in 0 .. n |-> IF k = 0 THEN << >> ELSE next(x[k - 1], k)]
    BY <2>2, <2>3, Zenon
  <2>5. F(x)
    BY <2>4, Zenon
  <2>. QED BY <2>5, Zenon
<1> HIDE DEF kept
<1>4. kept[0] = << >> /\ \A k \in 1 .. n : kept[k] = next(kept[k - 1], k)
  <2> HIDE DEF n
  <2>1. kept[0] = << >>
    BY <1>1, <1>3
  <2>2. ASSUME NEW k \in 1 .. n PROVE kept[k] = next(kept[k - 1], k)
    <3>1. k \in 0 .. n /\ k # 0
      BY <1>1
    <3>. QED BY <1>3, <3>1
  <2>. QED BY <2>1, <2>2
<1> HIDE DEF n, F
<1> DEFINE Steps == {k \in 0 .. n : kept[k] \in Seq(Experts)}
<1>5. 0 \in Steps
  <2>1. 0 \in 0 .. n /\ << >> \in Seq(Experts)
    BY <1>1
  <2>. QED BY <1>4, <2>1, Zenon
<1>6. ASSUME NEW k \in 1 .. n, k - 1 \in Steps PROVE k \in Steps
  <2>1. kept[k - 1] \in Seq(Experts) /\ k \in 0 .. n
    BY <1>1, <1>6
  <2>2. kept[k] = next(kept[k - 1], k)
    BY <1>4
  <2>3. next(kept[k - 1], k) \in Seq(Experts)
    BY <2>1
  <2>. QED BY <2>1, <2>2, <2>3
<1>7. n \in Steps
  <2> HIDE DEF Steps
  <2>1. 0 .. n \subseteq Steps
    BY <1>1, <1>5, <1>6, StepByStep
  <2>. QED BY <1>1, <2>1
<1>. QED BY <1>2, <1>7

LEMMA Greatest ==
    ASSUME NEW n \in Nat, NEW I \in SUBSET (1 .. n), I # {}
    PROVE  \E i \in I : \A j \in I : j <= i
<1> DEFINE J == {n - i : i \in I}
<1>1. J \in SUBSET Nat /\ J # {}
  <2>1. J \in SUBSET Nat
    OBVIOUS
  <2>2. PICK i \in I : TRUE
    OBVIOUS
  <2>3. n - i \in J
    OBVIOUS
  <2>. QED BY <2>1, <2>3
<1>2. PICK d \in J : \A j \in J : d <= j
  BY <1>1, LeastPosition
<1>3. PICK i \in I : d = n - i
  BY <1>2
<1>4. ASSUME NEW j \in I PROVE j <= i
  <2>1. n - j \in J
    OBVIOUS
  <2>2. d <= n - j
    BY <1>2, <2>1
  <2>. QED BY <1>3, <2>2
<1>. QED BY <1>4

\* An expert's row of the subset, the last of its own, or -1.
LEMMA RemapHotIs ==
    ASSUME NEW ids \in Seq(Experts), NEW e \in Experts
    PROVE  RemapHot(ids, e) = -1 \/ (RemapHot(ids, e) \in 0 .. Len(ids) - 1 /\ ids[RemapHot(ids, e) + 1] = e)
<1> DEFINE rows == {i \in 1 .. Len(ids) : ids[i] = e}
           last == CHOOSE i \in rows : \A j \in rows : j <= i
<1>1. RemapHot(ids, e) = IF rows = {} THEN -1 ELSE last - 1
  BY DEF RemapHot
<1>2. CASE rows # {}
  <2>1. Len(ids) \in Nat /\ rows \in SUBSET (1 .. Len(ids))
    OBVIOUS
  <2>2. \E i \in rows : \A j \in rows : j <= i
    <3> HIDE DEF rows
    <3>. QED BY <1>2, <2>1, Greatest
  <2>3. last \in rows
    <3> HIDE DEF rows
    <3>. QED BY <2>2
  <2>4. last \in 1 .. Len(ids) /\ ids[last] = e
    BY <2>3
  <2> HIDE DEF last
  <2>. QED BY <1>1, <1>2, <2>1, <2>4
<1>. QED BY <1>1, <1>2

\* A layer of the profile, as loading, placing and copying leave it.
LayerOk(st) ==
    \/ st = NoLayer
    \/ /\ st = [ids |-> st.ids, cold |-> st.cold, device |-> st.device, uploaded |-> st.uploaded]
       /\ st.ids \in Seq(Experts) /\ st.cold = ColdIds(st.ids)

LEMMA SentinelIs ==
    ASSUME NEW st, st.cold \in SUBSET Experts
    PROVE  ColdSentinel(st) \in Int
<1>1. CASE st.cold # {}
  <2>1. st.cold \in SUBSET Nat
    BY DEF Experts
  <2>2. \E e \in st.cold : \A d \in st.cold : e <= d
    BY <1>1, <2>1, LeastPosition
  <2>3. (CHOOSE e \in st.cold : \A d \in st.cold : e <= d) \in st.cold
    BY <2>2
  <2>. QED BY <1>1, <2>1, <2>3 DEF ColdSentinel
<1>. QED BY <1>1 DEF ColdSentinel

\* The row a pick takes of the subset, and what both paths add for it.
LEMMA PickIs ==
    ASSUME NEW st, st.ids \in Seq(Experts), st.cold = ColdIds(st.ids), ReadyForDispatch(st),
           NEW picks \in [1 .. Picks -> Experts], NEW i \in 1 .. Picks
    PROVE  /\ Contribution(st, picks, i) = <<picks[i]>>
           /\ LET row == HotId(st, picks, i)
              IN  \/ row \in 0 .. Len(st.ids) - 1 /\ st.ids[row + 1] = picks[i]
                  \/ row = Len(st.ids) + (i - 1)
<1> DEFINE e == picks[i]
           n == Len(st.ids)
           r == RemapHot(st.ids, e)
           row == HotId(st, picks, i)
<1>1. e \in Experts /\ e \in Nat /\ n \in Nat /\ i \in Nat /\ i >= 1 /\ i <= Picks /\ Picks \in Nat
  BY HotAssumption DEF Experts
<1>2. ColdSentinel(st) \in Int
  BY SentinelIs DEF ColdIds
<1>3. r = -1 \/ (r \in 0 .. n - 1 /\ st.ids[r + 1] = e)
  BY <1>1, RemapHotIs
<1>6. st.device \in st.uploaded /\ Cpu \in st.uploaded
  BY DEF ReadyForDispatch
<1>4. CASE r = -1
  <2>0. HotRemap(st, e) = n /\ IsCold(st, e) = 1 /\ PickArange(i) = i - 1
    BY <1>4 DEF HotRemap, IsCold, IsHot, PickArange
  <2>1. row = n + (i - 1)
    <3>1. row = HotRemap(st, e) + IsCold(st, e) * PickArange(i)
      BY DEF HotId
    <3> HIDE DEF row, n
    <3>. QED BY <1>1, <2>0, <3>1
  <2>2. Subset(st, row) = Zero
    <3> HIDE DEF row
    <3>. QED BY <1>1, <1>6, <2>1 DEF Subset
  <2>3. ColdId(st, picks, i) = e /\ IsCold(st, e) = 1
    BY <1>1, <1>2, <1>4 DEF ColdId, ColdRemap, IsCold, IsHot
  <2>4. Contribution(st, picks, i) = << >> \o <<e>>
    BY <1>6, <2>2, <2>3 DEF Contribution
  <2>. QED BY <2>1, <2>4
<1>5. CASE r # -1
  <2>0. HotRemap(st, e) = r /\ IsCold(st, e) = 0 /\ PickArange(i) = i - 1
    BY <1>5 DEF HotRemap, IsCold, IsHot, PickArange
  <2>1. row = r
    BY <1>1, <1>3, <1>5, <2>0 DEF HotId
  <2>2. Subset(st, row) = e
    <3> HIDE DEF row, r
    <3>. QED BY <1>1, <1>3, <1>5, <1>6, <2>1 DEF Subset
  <2>3. IsCold(st, e) = 0 /\ e # Zero
    BY <1>1, <1>5 DEF IsCold, IsHot, Zero
  <2>4. Contribution(st, picks, i) = <<e>> \o << >>
    <3>1. Contribution(st, picks, i) =
            (IF Subset(st, row) = Zero THEN << >> ELSE <<Subset(st, row)>>)
            \o (IF Cpu \notin st.uploaded THEN <<Outside>>
                 ELSE IF IsCold(st, e) = 1 THEN <<ColdId(st, picks, i)>> ELSE << >>)
      BY DEF Contribution
    <3>2. (IF Subset(st, row) = Zero THEN << >> ELSE <<Subset(st, row)>>) = <<e>>
      <4> HIDE DEF row, e
      <4>. QED BY <2>2, <2>3
    <3>3. (IF Cpu \notin st.uploaded THEN <<Outside>>
           ELSE IF IsCold(st, e) = 1 THEN <<ColdId(st, picks, i)>> ELSE << >>) = << >>
      <4> HIDE DEF row, e
      <4>. QED BY <1>6, <2>3
    <3> HIDE DEF row, e
    <3>. QED BY <3>1, <3>2, <3>3, Zenon
  <2>. QED BY <1>3, <1>5, <2>1, <2>4
<1>. QED BY <1>4, <1>5

\* No two picks of a token share a row.
LEMMA RowsDiffer ==
    ASSUME NEW st, st.ids \in Seq(Experts), st.cold = ColdIds(st.ids), ReadyForDispatch(st), NEW picks \in AnyPicks,
           NEW i \in 1 .. Picks, NEW j \in 1 .. Picks, HotId(st, picks, i) = HotId(st, picks, j)
    PROVE  i = j
<1> DEFINE row == HotId(st, picks, i)
<1>1. picks \in [1 .. Picks -> Experts] /\ (picks[i] = picks[j] => i = j)
  BY DEF AnyPicks
<1>2. /\ (row \in 0 .. Len(st.ids) - 1 /\ st.ids[row + 1] = picks[i]) \/ row = Len(st.ids) + (i - 1)
      /\ (row \in 0 .. Len(st.ids) - 1 /\ st.ids[row + 1] = picks[j]) \/ row = Len(st.ids) + (j - 1)
  BY <1>1, PickIs
<1>3. Len(st.ids) \in Nat /\ Picks \in Nat
  BY HotAssumption
<1> HIDE DEF row
<1>. QED BY <1>1, <1>2, <1>3

HotInv ==
    /\ HotColdOnce
    /\ placing = 0 \/ (hot = [il \in HotLayers |-> hot[il]] /\ \A il \in HotLayers : LayerOk(hot[il]))

LEMMA HotStarts ==
    ASSUME NEW lists \in Profiles, LoadProfile(lists)
    PROVE  HotInv
<1>1. ASSUME NEW il \in HotLayers PROVE LayerOk(hot[il])
  <2> DEFINE ids == HotIds(lists[il])
  <2>1. lists[il] \in Seq(Int)
    BY ProfilesAssumption
  <2>2. ids \in Seq(Experts)
    BY <2>1, HotIdsAre
  <2>3. hot[il] = IF ids = << >> THEN NoLayer
                  ELSE [ids |-> ids, cold |-> ColdIds(ids), device |-> Nowhere, uploaded |-> {}]
    BY DEF LoadProfile, LayerState
  <2> HIDE DEF ids
  <2> DEFINE st == hot[il]
             col == ColdIds(ids)
  <2>4. CASE ids # << >>
    <3>1. st = [ids |-> ids, cold |-> col, device |-> Nowhere, uploaded |-> {}]
      BY <2>3, <2>4
    <3> HIDE DEF st, col
    <3>2. st.ids = ids /\ st.cold = col /\ st.device = Nowhere /\ st.uploaded = {}
      BY <3>1
    <3>3. st = [ids |-> st.ids, cold |-> st.cold, device |-> st.device, uploaded |-> st.uploaded]
      BY <3>1, <3>2, Zenon
    <3>4. LayerOk(st)
      BY <2>2, <3>2, <3>3 DEF LayerOk, col
    <3>. QED BY <3>4 DEF st
  <2>. QED BY <2>3, <2>4 DEF LayerOk
<1>2. hot = [il \in HotLayers |-> hot[il]] /\ mix = << >>
  BY DEF LoadProfile
<1>. QED BY <1>1, <1>2 DEF HotInv, HotColdOnce

LEMMA PlaceKeeps ==
    ASSUME HotInv, NEW il \in HotLayers, NEW home, Place(il, home)
    PROVE  HotInv'
<1>1. placing = il /\ mix' = mix
  BY DEF Place, Advance
<1>2. hot = [l \in HotLayers |-> hot[l]] /\ \A l \in HotLayers : LayerOk(hot[l])
  BY <1>1 DEF HotInv, HotLayers
<1>3. hot' = hot \/ hot' = [hot EXCEPT ![il] = NoLayer]
      \/ \E d : Present(il) /\ hot' = [hot EXCEPT ![il].device = d]
  BY DEF Place
<1>4. ASSUME NEW st, st # NoLayer, LayerOk(st), NEW d PROVE LayerOk([st EXCEPT !.device = d])
  <2> DEFINE u == [st EXCEPT !.device = d]
  <2>1. u = [ids |-> st.ids, cold |-> st.cold, device |-> d, uploaded |-> st.uploaded]
    BY <1>4 DEF LayerOk
  <2> HIDE DEF u
  <2>2. u.ids = st.ids /\ u.cold = st.cold /\ u.device = d /\ u.uploaded = st.uploaded
    BY <2>1
  <2>3. u = [ids |-> u.ids, cold |-> u.cold, device |-> u.device, uploaded |-> u.uploaded]
    BY <2>1, <2>2, Zenon
  <2>4. LayerOk(u)
    BY <1>4, <2>2, <2>3 DEF LayerOk
  <2>. QED BY <2>4 DEF u
<1>5. hot' = [l \in HotLayers |-> hot'[l]] /\ \A l \in HotLayers : LayerOk(hot'[l])
  <2>1. CASE hot' = hot
    BY <1>2, <2>1
  <2>2. CASE hot' = [hot EXCEPT ![il] = NoLayer]
    BY <1>2, <2>2 DEF LayerOk
  <2>3. ASSUME NEW d, Present(il), hot' = [hot EXCEPT ![il].device = d]
        PROVE  hot' = [l \in HotLayers |-> hot'[l]] /\ \A l \in HotLayers : LayerOk(hot'[l])
    <3> DEFINE u == [hot[il] EXCEPT !.device = d]
    <3>1. hot' = [hot EXCEPT ![il] = u]
      BY <2>3
    <3>2. LayerOk(u)
      BY <1>2, <1>4, <2>3 DEF Present
    <3> HIDE DEF u
    <3>. QED BY <1>2, <3>1, <3>2
  <2>. QED BY <1>3, <2>1, <2>2, <2>3
<1>6. HotColdOnce'
  BY <1>1 DEF HotInv, HotColdOnce
<1>. QED BY <1>5, <1>6 DEF HotInv

LEMMA UploadKeeps ==
    ASSUME HotInv, NEW b, NEW granted, Upload(b, granted)
    PROVE  HotInv'
<1>1. placing = NumHotLayers + 1 /\ mix' = mix
  BY DEF Upload
<1>2. hot = [l \in HotLayers |-> hot[l]] /\ \A l \in HotLayers : LayerOk(hot[l])
  BY <1>1, HotAssumption DEF HotInv
<1>3. hot' = [l \in HotLayers |-> IF granted /\ l \in pending[b] THEN [hot[l] EXCEPT !.uploaded = @ \cup {b}] ELSE hot[l]]
  BY DEF Upload
<1>4. ASSUME NEW st, LayerOk(st) PROVE LayerOk([st EXCEPT !.uploaded = @ \cup {b}])
  <2> DEFINE v == st.uploaded \cup {b}
             u == [st EXCEPT !.uploaded = v]
  <2>1. [st EXCEPT !.uploaded = @ \cup {b}] = u
    OBVIOUS
  <2> HIDE DEF v
  <2>2. CASE st = NoLayer
    <3>1. u = NoLayer
      BY <2>2 DEF NoLayer
    <3>. QED BY <2>1, <3>1 DEF LayerOk
  <2>3. CASE st # NoLayer
    <3>1. u = [ids |-> st.ids, cold |-> st.cold, device |-> st.device, uploaded |-> v]
      BY <1>4, <2>3 DEF LayerOk
    <3> HIDE DEF u
    <3>2. u.ids = st.ids /\ u.cold = st.cold /\ u.device = st.device /\ u.uploaded = v
      BY <3>1
    <3>3. u = [ids |-> u.ids, cold |-> u.cold, device |-> u.device, uploaded |-> u.uploaded]
      BY <3>1, <3>2, Zenon
    <3>4. LayerOk(u)
      BY <1>4, <2>3, <3>2, <3>3 DEF LayerOk
    <3>. QED BY <2>1, <3>4, Zenon
  <2>. QED BY <2>2, <2>3
<1>5. hot' = [l \in HotLayers |-> hot'[l]] /\ \A l \in HotLayers : LayerOk(hot'[l])
  <2>1. ASSUME NEW l \in HotLayers PROVE LayerOk(hot'[l])
    <3>1. LayerOk(hot[l]) /\ LayerOk([hot[l] EXCEPT !.uploaded = @ \cup {b}])
      BY <1>2, <1>4
    <3>2. hot'[l] = [hot[l] EXCEPT !.uploaded = @ \cup {b}] \/ hot'[l] = hot[l]
      BY <1>3
    <3>. QED BY <3>1, <3>2, Zenon
  <2>. QED BY <1>3, <2>1
<1>6. HotColdOnce'
  BY <1>1 DEF HotInv, HotColdOnce
<1>. QED BY <1>5, <1>6 DEF HotInv

LEMMA RevalidateKeeps ==
    ASSUME HotInv, Revalidate
    PROVE  HotInv'
<1>1. placing = NumHotLayers + 1 /\ mix' = mix
  BY DEF Revalidate, Advance
<1>2. hot = [l \in HotLayers |-> hot[l]] /\ \A l \in HotLayers : LayerOk(hot[l])
  BY <1>1, HotAssumption DEF HotInv
<1>3. hot' = [l \in HotLayers |-> IF ReadyForDispatch(hot[l]) THEN hot[l] ELSE NoLayer]
  BY DEF Revalidate
<1>4. hot' = [l \in HotLayers |-> hot'[l]] /\ \A l \in HotLayers : LayerOk(hot'[l])
  BY <1>2, <1>3 DEF LayerOk
<1>5. HotColdOnce'
  BY <1>1 DEF HotInv, HotColdOnce
<1>. QED BY <1>4, <1>5 DEF HotInv

LEMMA ExpertMixKeeps ==
    ASSUME HotInv, NEW il \in HotLayers, NEW picks \in AnyPicks, ExpertMix(il, picks)
    PROVE  HotInv'
<1> DEFINE st == hot[il]
           rows == IF ReadyForDispatch(st) THEN [i \in 1 .. Picks |-> HotId(st, picks, i)] ELSE << >>
           added == [i \in 1 .. Picks |-> IF ReadyForDispatch(st) THEN Contribution(st, picks, i) ELSE <<picks[i]>>]
<1>1. placing = NumHotLayers + 2 /\ placing' = placing /\ hot' = hot
      /\ mix' = [picks |-> picks, rows |-> rows, added |-> added]
  BY DEF ExpertMix, HotReady
<1>2. hot = [l \in HotLayers |-> hot[l]] /\ \A l \in HotLayers : LayerOk(hot[l])
  BY <1>1, HotAssumption DEF HotInv
<1>3. picks \in [1 .. Picks -> Experts]
  BY DEF AnyPicks
<1>4. ReadyForDispatch(st) => st.ids \in Seq(Experts) /\ st.cold = ColdIds(st.ids)
  BY <1>2 DEF LayerOk, ReadyForDispatch
<1>5. \A i \in 1 .. Picks : added[i] = <<picks[i]>>
  BY <1>3, <1>4, PickIs
<1>6. ASSUME NEW i \in DOMAIN rows, NEW j \in DOMAIN rows, rows[i] = rows[j] PROVE i = j
  <2>1. CASE ReadyForDispatch(st)
    <3>1. rows = [k \in 1 .. Picks |-> HotId(st, picks, k)]
      BY <2>1
    <3> HIDE DEF rows, st
    <3>2. i \in 1 .. Picks /\ j \in 1 .. Picks
      BY <3>1
    <3>3. HotId(st, picks, i) = HotId(st, picks, j)
      BY <1>6, <3>1, <3>2
    <3>. QED BY <1>4, <2>1, <3>2, <3>3, RowsDiffer
  <2>. QED BY <2>1
<1> HIDE DEF rows, added
<1>7. mix'.picks = picks /\ mix'.rows = rows /\ mix'.added = added
  BY <1>1
<1>8. HotColdOnce'
  BY <1>5, <1>6, <1>7 DEF HotColdOnce
<1>. QED BY <1>1, <1>2, <1>8 DEF HotInv

LEMMA HotKeeps ==
    ASSUME HotInv, HotStep
    PROVE  HotInv'
<1>1. CASE \E il \in HotLayers, home \in {Cpu, Nowhere} \cup DOMAIN Gpus : Place(il, home)
  BY <1>1, PlaceKeeps
<1>2. CASE \E b \in DOMAIN pending, granted \in BOOLEAN : Upload(b, granted)
  BY <1>2, UploadKeeps
<1>3. CASE Revalidate
  BY <1>3, RevalidateKeeps
<1>4. CASE \E il \in HotLayers, picks \in AnyPicks : ExpertMix(il, picks)
  BY <1>4, ExpertMixKeeps
<1>. QED BY <1>1, <1>2, <1>3, <1>4 DEF HotStep

\* Whatever layers were placed, dropped or lost their buffers (allocate,
\* upload_pending, validate_layers_post_upload), the graph of build_expert_mix
\* adds each pick once.
THEOREM PicksAddedOnce == Spec => []HotColdOnce
<1>1. Init => HotInv
  <2>1. ASSUME IdleHot PROVE HotInv
    BY <2>1 DEF IdleHot, HotInv, HotColdOnce
  <2>. QED BY <2>1, HotStarts DEF Init
<1>2. HotInv /\ [Next]_kvars => HotInv'
  <2>1. ASSUME HotInv, UNCHANGED hvars PROVE HotInv'
    BY <2>1 DEF HotInv, HotColdOnce, hvars
  <2>2. [Next]_kvars => HotStep \/ UNCHANGED hvars
    BY DEF Next, kvars
  <2>. QED BY <2>1, <2>2, HotKeeps
<1>3. HotInv => HotColdOnce
  BY DEF HotInv
<1>. QED BY <1>1, <1>2, <1>3, PTL DEF Spec

(***************************************************************************)
(* The routed experts of a prefill batch.                                  *)
(***************************************************************************)

LEMMA IntervalSize ==
    ASSUME NEW n \in Nat
    PROVE  IsFiniteSet(1 .. n) /\ Cardinality(1 .. n) = n
<1>1. IsFiniteSet(1 .. n) /\ Cardinality(1 .. n) = IF 1 > n THEN 0 ELSE n - 1 + 1
  BY FS_Interval
<1>. QED BY <1>1

\* The place of an element in the order of a key.
RankOf(Elems, key, x) == Cardinality({y \in Elems : key[y] <= key[x]})

\* Distinct keys number the elements of a finite set from 1, in order.
LEMMA RanksNumber ==
    ASSUME NEW Elems, IsFiniteSet(Elems), NEW key \in [Elems -> Nat],
           \A x, y \in Elems : key[x] = key[y] => x = y
    PROVE  /\ \A x \in Elems : RankOf(Elems, key, x) \in 1 .. Cardinality(Elems)
           /\ \A x, y \in Elems : key[x] < key[y] <=> RankOf(Elems, key, x) < RankOf(Elems, key, y)
           /\ \A i \in 1 .. Cardinality(Elems) : \E x \in Elems : RankOf(Elems, key, x) = i
<1> DEFINE n == Cardinality(Elems)
           upto(x) == {y \in Elems : key[y] <= key[x]}
           rank(x) == Cardinality(upto(x))
<1>1. n \in Nat
  BY FS_CardinalityType
<1>2. ASSUME NEW x \in Elems
      PROVE  IsFiniteSet(upto(x)) /\ rank(x) \in 1 .. n /\ x \in upto(x)
  <2>1. upto(x) \in SUBSET Elems /\ x \in upto(x)
    OBVIOUS
  <2> HIDE DEF upto
  <2>2. IsFiniteSet(upto(x)) /\ rank(x) <= n
    BY <2>1, FS_Subset
  <2>3. rank(x) \in Nat /\ rank(x) # 0
    BY <2>1, <2>2, FS_CardinalityType, FS_EmptySet
  <2>. QED BY <1>1, <2>1, <2>2, <2>3
<1>3. ASSUME NEW x \in Elems, NEW y \in Elems, key[x] < key[y] PROVE rank(x) < rank(y)
  <2>1. upto(x) \in SUBSET upto(y) /\ y \notin upto(x) /\ y \in upto(y)
    BY <1>3
  <2> HIDE DEF upto
  <2>2. rank(x) <= rank(y) /\ rank(x) # rank(y)
    BY <1>2, <2>1, FS_Subset
  <2>. QED BY <1>2, <2>2
<1> HIDE DEF upto
<1>4. ASSUME NEW x \in Elems, NEW y \in Elems PROVE key[x] < key[y] <=> rank(x) < rank(y)
  <2>1. key[x] \in Nat /\ key[y] \in Nat /\ rank(x) \in Nat /\ rank(y) \in Nat
    BY <1>2
  <2>2. key[x] < key[y] => rank(x) < rank(y)
    BY <1>3
  <2>3. key[y] < key[x] => rank(y) < rank(x)
    BY <1>3
  <2>4. key[x] = key[y] => rank(x) = rank(y)
    OBVIOUS
  <2> HIDE DEF rank
  <2>. QED BY <2>1, <2>2, <2>3, <2>4
<1>5. ASSUME NEW i \in 1 .. n PROVE \E x \in Elems : rank(x) = i
  <2> DEFINE f == [x \in Elems |-> rank(x)]
  <2>1. f \in Injection(Elems, 1 .. n)
    <3>1. f \in [Elems -> 1 .. n]
      BY <1>2
    <3>2. ASSUME NEW x \in Elems, NEW y \in Elems, f[x] = f[y] PROVE x = y
      <4>1. rank(x) = rank(y) /\ rank(x) \in Nat
        BY <1>2, <3>2
      <4>2. ~ (rank(x) < rank(y)) /\ ~ (rank(y) < rank(x))
        BY <4>1
      <4>3. key[x] \in Nat /\ key[y] \in Nat /\ ~ (key[x] < key[y]) /\ ~ (key[y] < key[x])
        BY <1>4, <4>2
      <4>4. key[x] = key[y]
        BY <4>3
      <4>. QED BY <4>4
    <3>3. DOMAIN f = Elems
      OBVIOUS
    <3> HIDE DEF f
    <3>4. \A x, y \in Elems : f[x] = f[y] => x = y
      BY <3>2
    <3>. QED BY <3>1, <3>3, <3>4, Zenon DEF Injection, IsInjective
  <2>2. IsFiniteSet(1 .. n) /\ Cardinality(1 .. n) = n
    BY <1>1, IntervalSize
  <2>3. f \in Surjection(Elems, 1 .. n)
    <3> HIDE DEF f
    <3>. QED BY <2>1, <2>2, FS_Injection
  <2>4. \E x \in Elems : f[x] = i
    <3> HIDE DEF f
    <3>. QED BY <2>3 DEF Surjection
  <2>. QED BY <2>4
<1>. QED BY <1>2, <1>4, <1>5 DEF RankOf, upto

\* What the models of the grouping say of a selection sel.
NumPairs == MoeTokens * ExpertsUsed
OffsetIn(sel, e) == Cardinality({p \in Pairs : sel[p] < e})
ActiveIn(sel) == {e \in RExperts : OffsetIn(sel, e + 1) # OffsetIn(sel, e)}
IndexIn(sel, e) == Cardinality({d \in ActiveIn(sel) : d < e})
NthIn(sel, i) == CHOOSE e \in ActiveIn(sel) : IndexIn(sel, e) = i
PlaceIn(sel, p) == Cardinality({q \in Pairs : sel[q] < sel[p] \/ (sel[q] = sel[p] /\ q <= p)})

LEMMA PairsFinite ==
    /\ NumPairs \in Nat \ {0} /\ Pairs = 0 .. NumPairs - 1
    /\ IsFiniteSet(Pairs) /\ Cardinality(Pairs) = NumPairs
<1>1. MoeTokens \in Nat \ {0} /\ ExpertsUsed \in Nat \ {0}
  BY RoutedAssumption
<1>2. 1 * ExpertsUsed <= MoeTokens * ExpertsUsed /\ NumPairs \in Nat
  BY <1>1, ProductMonotone DEF NumPairs
<1>3. NumPairs \in Nat \ {0}
  BY <1>1, <1>2 DEF NumPairs
<1>4. Pairs = 0 .. NumPairs - 1
  BY DEF Pairs, NumPairs
<1>5. IsFiniteSet(Pairs) /\ Cardinality(Pairs) = IF 0 > NumPairs - 1 THEN 0 ELSE (NumPairs - 1) - 0 + 1
  <2>1. 0 \in Int /\ NumPairs - 1 \in Int
    BY <1>3
  <2>. QED BY <1>4, <2>1, FS_Interval
<1>. QED BY <1>3, <1>4, <1>5

\* pair_ids holds the pairs in the order of their experts, each at its place.
LEMMA PlacesAre ==
    ASSUME NEW sel \in [Pairs -> RExperts]
    PROVE  /\ \A p \in Pairs : PlaceIn(sel, p) \in 1 .. NumPairs
           /\ \A i \in 1 .. NumPairs : \E p \in Pairs : PlaceIn(sel, p) = i
           /\ \A p, q \in Pairs : PlaceIn(sel, p) = PlaceIn(sel, q) => p = q
<1> DEFINE key == [p \in Pairs |-> sel[p] * NumPairs + p]
<1>1. NumPairs \in Nat \ {0} /\ Pairs = 0 .. NumPairs - 1 /\ IsFiniteSet(Pairs) /\ Cardinality(Pairs) = NumPairs
  BY PairsFinite
<1>2. ASSUME NEW p \in Pairs
      PROVE  /\ p \in Nat /\ p < NumPairs /\ sel[p] \in Nat
             /\ sel[p] * NumPairs \in Nat /\ key[p] = sel[p] * NumPairs + p
  <2>1. p \in Nat /\ p < NumPairs /\ sel[p] \in Nat
    BY <1>1, RoutedAssumption DEF RExperts
  <2>2. sel[p] * NumPairs \in Nat
    BY <1>1, <2>1, ProductFacts
  <2>. QED BY <2>1, <2>2
<1>3. ASSUME NEW p \in Pairs, NEW q \in Pairs, sel[q] < sel[p]
      PROVE  key[q] < key[p]
  <2> DEFINE x == sel[q] * NumPairs
             y == sel[p] * NumPairs
  <2>1. sel[q] + 1 \in Nat /\ sel[q] + 1 <= sel[p]
    BY <1>2, <1>3
  <2>2. (sel[q] + 1) * NumPairs <= y
    BY <1>1, <1>2, <2>1, ProductMonotone
  <2>3. (sel[q] + 1) * NumPairs = x + NumPairs
    BY <1>1, <1>2, ProductFacts
  <2>4. key[q] = x + q /\ key[p] = y + p /\ x \in Nat /\ y \in Nat /\ q \in Nat /\ p \in Nat /\ q < NumPairs
    BY <1>2
  <2>5. x + NumPairs <= y
    BY <2>2, <2>3
  <2> HIDE DEF x, y, key
  <2>. QED BY <1>1, <2>4, <2>5
<1>4. ASSUME NEW p \in Pairs, NEW q \in Pairs
      PROVE  key[q] <= key[p] <=> (sel[q] < sel[p] \/ (sel[q] = sel[p] /\ q <= p))
  <2>1. /\ sel[p] \in Nat /\ sel[q] \in Nat /\ p \in Nat /\ q \in Nat
        /\ key[p] \in Nat /\ key[q] \in Nat
    BY <1>2
  <2>2. (sel[q] < sel[p] => key[q] < key[p]) /\ (sel[p] < sel[q] => key[p] < key[q])
    BY <1>3
  <2>3. sel[q] = sel[p] => (key[q] <= key[p] <=> q <= p)
    <3> SUFFICES ASSUME sel[q] = sel[p] PROVE key[q] <= key[p] <=> q <= p
      OBVIOUS
    <3> DEFINE x == sel[p] * NumPairs
    <3>1. key[q] = x + q /\ key[p] = x + p /\ x \in Nat
      BY <1>2
    <3> HIDE DEF x, key
    <3>. QED BY <2>1, <3>1
  <2> HIDE DEF key
  <2>. QED BY <2>1, <2>2, <2>3
<1>5. key \in [Pairs -> Nat]
  BY <1>2
<1>6. ASSUME NEW p \in Pairs, NEW q \in Pairs, key[p] = key[q] PROVE p = q
  <2>1. key[q] <= key[p] /\ key[p] <= key[q]
    BY <1>5, <1>6
  <2>. QED BY <1>2, <1>4, <2>1
<1>7. ASSUME NEW p \in Pairs PROVE PlaceIn(sel, p) = RankOf(Pairs, key, p)
  <2> HIDE DEF key
  <2>1. {q \in Pairs : sel[q] < sel[p] \/ (sel[q] = sel[p] /\ q <= p)} = {q \in Pairs : key[q] <= key[p]}
    BY <1>4
  <2>. QED BY <2>1 DEF PlaceIn, RankOf
<1> HIDE DEF key
<1>8. /\ \A p \in Pairs : RankOf(Pairs, key, p) \in 1 .. NumPairs
      /\ \A p, q \in Pairs : key[p] < key[q] <=> RankOf(Pairs, key, p) < RankOf(Pairs, key, q)
      /\ \A i \in 1 .. NumPairs : \E p \in Pairs : RankOf(Pairs, key, p) = i
  <2>1. \A x, y \in Pairs : key[x] = key[y] => x = y
    BY <1>6
  <2>2. /\ \A p \in Pairs : RankOf(Pairs, key, p) \in 1 .. Cardinality(Pairs)
        /\ \A p, q \in Pairs : key[p] < key[q] <=> RankOf(Pairs, key, p) < RankOf(Pairs, key, q)
        /\ \A i \in 1 .. Cardinality(Pairs) : \E p \in Pairs : RankOf(Pairs, key, p) = i
    <3>1. IsFiniteSet(Pairs)
      BY <1>1
    <3>. QED BY <1>5, <2>1, <3>1, RanksNumber
  <2>. QED BY <1>1, <2>2, Zenon
<1>9. ASSUME NEW p \in Pairs, NEW q \in Pairs, PlaceIn(sel, p) = PlaceIn(sel, q) PROVE p = q
  <2>1. RankOf(Pairs, key, p) = RankOf(Pairs, key, q) /\ RankOf(Pairs, key, p) \in Nat
    BY <1>7, <1>8, <1>9
  <2>2. ~ (key[p] < key[q]) /\ ~ (key[q] < key[p])
    BY <1>8, <2>1
  <2>3. key[p] \in Nat /\ key[q] \in Nat
    BY <1>5
  <2>. QED BY <1>6, <2>2, <2>3
<1>. QED BY <1>7, <1>8, <1>9

LEMMA GroupedAre ==
    ASSUME NEW sel \in [Pairs -> RExperts]
    PROVE  LET ids == Grouped(sel)
           IN  /\ ids \in [1 .. NumPairs -> Pairs]
               /\ \A i \in 1 .. NumPairs : PlaceIn(sel, ids[i]) = i
               /\ \A p \in Pairs : ids[PlaceIn(sel, p)] = p
<1> DEFINE ids == Grouped(sel)
<1>1. Cardinality(Pairs) = NumPairs
  BY PairsFinite
<1>2. ids = [i \in 1 .. NumPairs |-> CHOOSE p \in Pairs : PlaceIn(sel, p) = i]
  BY <1>1 DEF Grouped, PlaceIn
<1> HIDE DEF ids
<1>3. ASSUME NEW i \in 1 .. NumPairs PROVE ids[i] \in Pairs /\ PlaceIn(sel, ids[i]) = i
  <2>1. \E p \in Pairs : PlaceIn(sel, p) = i
    BY PlacesAre
  <2>2. ids[i] = CHOOSE p \in Pairs : PlaceIn(sel, p) = i
    BY <1>2
  <2>. QED BY <2>1, <2>2
<1>4. ASSUME NEW p \in Pairs PROVE ids[PlaceIn(sel, p)] = p
  <2>1. PlaceIn(sel, p) \in 1 .. NumPairs
    BY PlacesAre
  <2>2. ids[PlaceIn(sel, p)] \in Pairs /\ PlaceIn(sel, ids[PlaceIn(sel, p)]) = PlaceIn(sel, p)
    BY <1>3, <2>1
  <2>. QED BY <2>2, PlacesAre
<1>5. ids \in [1 .. NumPairs -> Pairs]
  BY <1>2, <1>3
<1>. QED BY <1>3, <1>4, <1>5 DEF ids

\* The offset of an expert ends the pairs of the experts before it.
LEMMA OffsetIs ==
    ASSUME NEW sel \in [Pairs -> RExperts], NEW e \in Nat
    PROVE  /\ OffsetIn(sel, e) \in 0 .. NumPairs
           /\ \A p \in Pairs : PlaceIn(sel, p) <= OffsetIn(sel, e) <=> sel[p] < e
<1> DEFINE Lower == {p \in Pairs : sel[p] < e}
<1>1. NumPairs \in Nat \ {0} /\ Pairs = 0 .. NumPairs - 1 /\ IsFiniteSet(Pairs) /\ Cardinality(Pairs) = NumPairs
  BY PairsFinite
<1>2. \A p \in Pairs : p \in Nat /\ sel[p] \in Nat
  BY <1>1, RoutedAssumption DEF RExperts
<1>3. Lower \in SUBSET Pairs
  OBVIOUS
<1>4. IsFiniteSet(Lower) /\ Cardinality(Lower) \in 0 .. NumPairs
  <2> HIDE DEF Lower
  <2>1. IsFiniteSet(Lower) /\ Cardinality(Lower) <= NumPairs
    BY <1>1, <1>3, FS_Subset, Zenon
  <2>. QED BY <1>1, <2>1, FS_CardinalityType
<1>5. ASSUME NEW p \in Pairs PROVE PlaceIn(sel, p) <= Cardinality(Lower) <=> sel[p] < e
  <2> DEFINE Upper == {q \in Pairs : sel[q] < sel[p] \/ (sel[q] = sel[p] /\ q <= p)}
  <2>1. p \in Upper /\ Upper \in SUBSET Pairs
    BY <1>2
  <2>2. PlaceIn(sel, p) = Cardinality(Upper)
    BY DEF PlaceIn
  <2>3. IsFiniteSet(Upper) /\ Cardinality(Upper) \in Nat
    <3> HIDE DEF Upper
    <3>. QED BY <1>1, <2>1, FS_Subset, FS_CardinalityType
  <2>4. CASE sel[p] < e
    <3>1. Upper \in SUBSET Lower
      BY <1>2, <2>4
    <3> HIDE DEF Upper, Lower
    <3>2. Cardinality(Upper) <= Cardinality(Lower)
      BY <1>4, <3>1, FS_Subset
    <3>. QED BY <2>2, <2>4, <3>2
  <2>5. CASE ~ (sel[p] < e)
    <3>1. Lower \in SUBSET Upper /\ p \notin Lower
      BY <1>2, <2>5
    <3> HIDE DEF Upper, Lower
    <3>2. Cardinality(Lower) <= Cardinality(Upper) /\ Cardinality(Lower) # Cardinality(Upper)
      BY <2>1, <2>3, <3>1, FS_Subset
    <3>3. ~ (Cardinality(Upper) <= Cardinality(Lower))
      BY <1>4, <2>3, <3>2
    <3>. QED BY <2>2, <2>5, <3>3
  <2>. QED BY <2>4, <2>5
<1>. QED BY <1>4, <1>5 DEF OffsetIn

\* An expert is active when some pair picked it.
LEMMA ActiveIs ==
    ASSUME NEW sel \in [Pairs -> RExperts], NEW e \in RExperts
    PROVE  /\ OffsetIn(sel, e) <= OffsetIn(sel, e + 1)
           /\ e \in ActiveIn(sel) <=> \E p \in Pairs : sel[p] = e
<1> DEFINE below(d) == {p \in Pairs : sel[p] < d}
           a == OffsetIn(sel, e)
           b == OffsetIn(sel, e + 1)
<1>1. e \in Nat /\ e + 1 \in Nat /\ \A p \in Pairs : sel[p] \in Nat
  BY RoutedAssumption DEF RExperts
<1>2. a \in Nat /\ b \in Nat /\ a = Cardinality(below(e)) /\ b = Cardinality(below(e + 1))
  <2> DEFINE f == e + 1
  <2>1. f \in Nat
    BY <1>1
  <2> HIDE DEF f
  <2>2. OffsetIn(sel, e) \in 0 .. NumPairs /\ OffsetIn(sel, f) \in 0 .. NumPairs
    BY <1>1, <2>1, OffsetIs
  <2>3. OffsetIn(sel, e) \in Nat /\ OffsetIn(sel, f) \in Nat
    BY <2>2, PairsFinite
  <2>. QED BY <2>3 DEF OffsetIn, f
<1>3. below(e) \in SUBSET below(e + 1) /\ below(e + 1) \in SUBSET Pairs
  BY <1>1
<1>4. (\E p \in Pairs : sel[p] = e) <=> below(e) # below(e + 1)
  BY <1>1
<1>5. IsFiniteSet(below(e + 1))
  <2> HIDE DEF below
  <2>. QED BY <1>3, PairsFinite, FS_Subset
<1>6. a <= b /\ (a = b => below(e) = below(e + 1)) /\ (below(e) = below(e + 1) => a = b)
  <2> HIDE DEF below, a, b
  <2>. QED BY <1>2, <1>3, <1>5, FS_Subset
<1>. QED BY <1>4, <1>6 DEF ActiveIn

\* active_expert lists the active experts in ascending order.
LEMMA ActiveNumbered ==
    ASSUME NEW sel \in [Pairs -> RExperts]
    PROVE  LET n == Cardinality(ActiveIn(sel))
           IN  /\ n \in Nat
               /\ \A e \in ActiveIn(sel) : IndexIn(sel, e) \in 0 .. n - 1 /\ NthIn(sel, IndexIn(sel, e)) = e
               /\ \A i \in 0 .. n - 1 : NthIn(sel, i) \in ActiveIn(sel) /\ IndexIn(sel, NthIn(sel, i)) = i
               /\ \A d, e \in ActiveIn(sel) : d < e <=> IndexIn(sel, d) < IndexIn(sel, e)
<1> DEFINE Elems == ActiveIn(sel)
           n == Cardinality(Elems)
           key == [e \in Elems |-> e]
<1>1. Elems \in SUBSET RExperts /\ Elems \in SUBSET Nat
  BY RoutedAssumption DEF ActiveIn, RExperts
<1>2. IsFiniteSet(Elems) /\ n \in Nat
  <2> HIDE DEF Elems
  <2>1. IsFiniteSet(RExperts)
    <3>1. 0 \in Int /\ RoutedExpert - 1 \in Int
      BY RoutedAssumption
    <3>. QED BY <3>1, FS_Interval DEF RExperts
  <2>. QED BY <1>1, <2>1, FS_Subset, FS_CardinalityType
<1> HIDE DEF Elems
<1>3. key \in [Elems -> Nat] /\ \A x, y \in Elems : key[x] = key[y] => x = y
  BY <1>1
<1>4. /\ \A x \in Elems : RankOf(Elems, key, x) \in 1 .. n
      /\ \A x, y \in Elems : key[x] < key[y] <=> RankOf(Elems, key, x) < RankOf(Elems, key, y)
      /\ \A i \in 1 .. n : \E x \in Elems : RankOf(Elems, key, x) = i
  <2> HIDE DEF key
  <2>. QED BY <1>2, <1>3, RanksNumber
<1>5. ASSUME NEW e \in Elems PROVE IndexIn(sel, e) \in 0 .. n - 1 /\ RankOf(Elems, key, e) = IndexIn(sel, e) + 1
  <2> DEFINE Lower == {d \in Elems : d < e}
             Upper == {d \in Elems : key[d] <= key[e]}
  <2>0. \A d \in Elems : d \in Nat /\ key[d] = d
    BY <1>1
  <2>1. Upper = Lower \cup {e} /\ e \notin Lower /\ Lower \in SUBSET Elems
    <3> HIDE DEF key, n
    <3>1. \A d \in Elems : key[d] <= key[e] <=> d < e \/ d = e
      BY <2>0
    <3>2. e \notin Lower
      BY <2>0
    <3>. QED BY <3>1, <3>2
  <2>2. IndexIn(sel, e) = Cardinality(Lower) /\ RankOf(Elems, key, e) = Cardinality(Upper)
    BY DEF IndexIn, RankOf, Elems
  <2> HIDE DEF Lower, Upper, key, n
  <2>3. IsFiniteSet(Lower) /\ Cardinality(Lower) \in Nat
    BY <1>2, <2>1, FS_Subset, FS_CardinalityType
  <2>4. Cardinality(Upper) = Cardinality(Lower) + 1
    BY <2>1, <2>3, FS_AddElement
  <2>. QED BY <1>2, <1>4, <2>2, <2>3, <2>4
<1>6. \A d, e \in Elems : d < e <=> IndexIn(sel, d) < IndexIn(sel, e)
  <2> SUFFICES ASSUME NEW d \in Elems, NEW e \in Elems PROVE d < e <=> IndexIn(sel, d) < IndexIn(sel, e)
    OBVIOUS
  <2>1. key[d] = d /\ key[e] = e
    OBVIOUS
  <2> HIDE DEF key, n
  <2>2. d < e <=> RankOf(Elems, key, d) < RankOf(Elems, key, e)
    BY <1>4, <2>1
  <2>3. IndexIn(sel, d) \in Int /\ IndexIn(sel, e) \in Int
    BY <1>2, <1>5
  <2>. QED BY <1>5, <2>2, <2>3
<1>7. ASSUME NEW i \in 0 .. n - 1 PROVE NthIn(sel, i) \in Elems /\ IndexIn(sel, NthIn(sel, i)) = i
  <2>1. i + 1 \in 1 .. n
    BY <1>2
  <2>2. PICK x \in Elems : RankOf(Elems, key, x) = i + 1
    BY <1>4, <2>1
  <2>3. IndexIn(sel, x) = i
    <3> HIDE DEF key, n
    <3>. QED BY <1>2, <1>5, <2>2
  <2>. QED BY <2>3 DEF NthIn, Elems
<1>8. ASSUME NEW e \in Elems PROVE NthIn(sel, IndexIn(sel, e)) = e
  <2> DEFINE d == NthIn(sel, IndexIn(sel, e))
  <2>1. d \in Elems /\ IndexIn(sel, d) = IndexIn(sel, e) /\ IndexIn(sel, e) \in Int
    <3> HIDE DEF n
    <3>1. IndexIn(sel, e) \in 0 .. n - 1
      BY <1>5
    <3>. QED BY <1>2, <1>7, <3>1
  <2> HIDE DEF d, n, key
  <2>2. ~ (d < e) /\ ~ (e < d)
    BY <1>6, <2>1
  <2>3. d \in Nat /\ e \in Nat
    BY <1>1, <2>1
  <2>4. d = e
    BY <2>2, <2>3
  <2>. QED BY <2>4 DEF d
<1>. QED BY <1>2, <1>5, <1>6, <1>7, <1>8 DEF Elems

\* The pairs of the active experts follow one another without a gap.
LEMMA ActiveFollow ==
    ASSUME NEW sel \in [Pairs -> RExperts]
    PROVE  LET n == Cardinality(ActiveIn(sel))
           IN  /\ n \in Nat \ {0}
               /\ OffsetIn(sel, NthIn(sel, 0)) = 0
               /\ \A i \in 1 .. n - 1 : OffsetIn(sel, NthIn(sel, i)) = OffsetIn(sel, NthIn(sel, i - 1) + 1)
               /\ OffsetIn(sel, NthIn(sel, n - 1) + 1) = NumPairs
<1> DEFINE Elems == ActiveIn(sel)
           n == Cardinality(Elems)
           index(e) == IndexIn(sel, e)
           nth(i) == NthIn(sel, i)
           below(e) == {p \in Pairs : sel[p] < e}
<1>1. /\ n \in Nat
      /\ \A e \in Elems : index(e) \in 0 .. n - 1 /\ nth(index(e)) = e
      /\ \A i \in 0 .. n - 1 : nth(i) \in Elems /\ index(nth(i)) = i
      /\ \A d, e \in Elems : d < e <=> index(d) < index(e)
  BY ActiveNumbered
<1>2. Elems \in SUBSET Nat
  BY RoutedAssumption DEF ActiveIn, RExperts
<1>3. \A p \in Pairs : sel[p] \in Elems /\ sel[p] \in RExperts
  BY ActiveIs
<1>4. \A e : OffsetIn(sel, e) = Cardinality(below(e))
  BY DEF OffsetIn
<1> HIDE DEF Elems, index, nth
<1>5. n \in Nat \ {0} /\ 0 \in 0 .. n - 1 /\ n - 1 \in 0 .. n - 1
  <2>1. 0 \in Pairs
    BY PairsFinite
  <2>2. index(sel[0]) \in 0 .. n - 1
    BY <1>1, <1>3, <2>1
  <2> HIDE DEF n
  <2>. QED BY <1>1, <2>2
<1> HIDE DEF n
<1>6. OffsetIn(sel, nth(0)) = 0
  <2>1. ASSUME NEW p \in Pairs, sel[p] < nth(0) PROVE FALSE
    <3>1. index(sel[p]) < index(nth(0)) /\ index(nth(0)) = 0 /\ index(sel[p]) \in 0 .. n - 1
      BY <1>1, <1>3, <1>5, <2>1
    <3>. QED BY <1>1, <3>1
  <2>2. below(nth(0)) = {}
    BY <2>1
  <2> HIDE DEF below
  <2>. QED BY <1>4, <2>2, FS_EmptySet
<1>7. ASSUME NEW i \in 1 .. n - 1
      PROVE  OffsetIn(sel, nth(i)) = OffsetIn(sel, nth(i - 1) + 1)
  <2> DEFINE j == i - 1
             a == nth(j)
             b == nth(i)
  <2>1. i \in 0 .. n - 1 /\ j \in 0 .. n - 1 /\ j + 1 = i
    BY <1>1
  <2> HIDE DEF j
  <2>2. a \in Elems /\ b \in Elems /\ index(a) = j /\ index(b) = i
    BY <1>1, <2>1
  <2>3. a \in Nat /\ b \in Nat
    BY <1>2, <2>2
  <2> HIDE DEF a, b
  <2>4. ASSUME NEW p \in Pairs PROVE sel[p] < b <=> sel[p] < a + 1
    <3> DEFINE e == sel[p]
    <3>1. e \in Elems /\ e \in Nat /\ index(e) \in 0 .. n - 1
      BY <1>1, <1>2, <1>3
    <3> HIDE DEF e
    <3>2. (e < b <=> index(e) < i) /\ (a < e <=> j < index(e))
      BY <1>1, <2>2, <3>1
    <3>3. index(e) < i <=> ~ (j < index(e))
      BY <1>1, <2>1, <3>1
    <3>4. e < b <=> e < a + 1
      BY <2>3, <3>1, <3>2, <3>3
    <3>. QED BY <3>4 DEF e
  <2>5. below(b) = below(a + 1)
    BY <2>4
  <2> HIDE DEF below
  <2>6. OffsetIn(sel, b) = OffsetIn(sel, a + 1)
    BY <1>4, <2>5
  <2>. QED BY <2>6 DEF a, b, j
<1>8. OffsetIn(sel, nth(n - 1) + 1) = NumPairs
  <2> DEFINE j == n - 1
             a == nth(j)
  <2>1. j \in 0 .. n - 1 /\ a \in Elems /\ index(a) = j /\ a \in Nat
    BY <1>1, <1>2, <1>5
  <2> HIDE DEF a
  <2>2. ASSUME NEW p \in Pairs PROVE sel[p] < a + 1
    <3> DEFINE e == sel[p]
    <3>1. e \in Elems /\ e \in Nat /\ index(e) \in 0 .. n - 1
      BY <1>1, <1>2, <1>3
    <3> HIDE DEF e
    <3>2. a < e <=> index(a) < index(e)
      BY <1>1, <2>1, <3>1
    <3>3. ~ (j < index(e))
      BY <1>1, <3>1
    <3>4. e < a + 1
      BY <2>1, <3>1, <3>2, <3>3
    <3>. QED BY <3>4 DEF e
  <2>3. below(a + 1) = Pairs
    BY <2>2
  <2> HIDE DEF below
  <2>4. OffsetIn(sel, a + 1) = NumPairs
    BY <1>4, <2>3, PairsFinite
  <2>. QED BY <2>4 DEF a
<1>. QED BY <1>5, <1>6, <1>7, <1>8 DEF Elems, n, nth

\* A run of a list and the run after it.
LEMMA RunsJoin ==
    ASSUME NEW Elems, NEW n \in Nat, NEW ids \in [1 .. n -> Elems], NEW a \in 0 .. n, NEW b \in 0 .. n, a <= b
    PROVE  [j \in 1 .. a |-> ids[j]] \o [j \in 1 .. b - a |-> ids[a + j]] = [j \in 1 .. b |-> ids[j]]
<1> DEFINE s == [j \in 1 .. a |-> ids[j]]
           d == b - a
           r == [j \in 1 .. d |-> ids[a + j]]
           u == [j \in 1 .. b |-> ids[j]]
<1>1. a \in Nat /\ b \in Nat /\ d \in Nat /\ a + d = b
  OBVIOUS
<1>2. \A j \in 1 .. a : ids[j] \in Elems
  OBVIOUS
<1>3. \A j \in 1 .. d : ids[a + j] \in Elems
  OBVIOUS
<1> HIDE DEF d
<1>4. s \in Seq(Elems) /\ Len(s) = a
  BY <1>1, <1>2
<1>5. r \in Seq(Elems) /\ Len(r) = d
  BY <1>1, <1>3
<1>6. \A j \in 1 .. a : s[j] = ids[j]
  OBVIOUS
<1>7. \A j \in 1 .. d : r[j] = ids[a + j]
  OBVIOUS
<1> HIDE DEF s, r
<1> DEFINE x == s \o r
<1>8. /\ x \in Seq(Elems) /\ Len(x) = Len(s) + Len(r)
      /\ \A j \in 1 .. Len(s) + Len(r) : x[j] = IF j <= Len(s) THEN s[j] ELSE r[j - Len(s)]
  BY <1>4, <1>5
<1> HIDE DEF x
<1>9. ASSUME NEW j \in 1 .. a + d PROVE x[j] = ids[j]
  <2>0. x[j] = IF j <= a THEN s[j] ELSE r[j - a]
    BY <1>4, <1>5, <1>8
  <2>1. CASE j <= a
    BY <1>1, <1>6, <2>0, <2>1
  <2>2. CASE ~ (j <= a)
    <3> DEFINE k == j - a
    <3>1. k \in 1 .. d /\ a + k = j
      BY <1>1, <2>2
    <3> HIDE DEF k
    <3>2. r[k] = ids[j]
      BY <1>7, <3>1
    <3>. QED BY <2>0, <2>2, <3>2 DEF k
  <2>. QED BY <2>1, <2>2
<1>10. x = [j \in 1 .. a + d |-> ids[j]]
  <2>1. Len(x) = a + d
    BY <1>4, <1>5, <1>8
  <2>2. x = [j \in 1 .. a + d |-> x[j]]
    BY <1>8, <2>1
  <2>. QED BY <1>9, <2>2
<1>. QED BY <1>1, <1>10 DEF s, r, d, x

\* The state's definitions are those of its selection.
LEMMA StateGrouping ==
    /\ Active = ActiveIn(selected)
    /\ \A e : Offset(e) = OffsetIn(selected, e)
    /\ \A i : ActiveExpert(i) = NthIn(selected, i)
<1>1. \A e : Offset(e) = OffsetIn(selected, e)
  BY DEF Offset, OffsetIn
<1>2. Active = ActiveIn(selected)
  BY <1>1, Zenon DEF Active, ActiveIn
<1>3. \A i : ActiveExpert(i) = NthIn(selected, i)
  BY <1>2, Zenon DEF ActiveExpert, NthIn, IndexIn
<1>. QED BY <1>1, <1>2, <1>3

\* Expert by expert, the workers visit every pair once.
LEMMA VisitedIs ==
    ASSUME selected \in [Pairs -> RExperts], pairIds = Grouped(selected)
    PROVE  FlattenSeq([i \in 1 .. Cardinality(Active) |-> PairsOf(ActiveExpert(i - 1))]) = pairIds
<1> DEFINE n == Cardinality(Active)
           ids == pairIds
           nth(i) == NthIn(selected, i)
           off(e) == OffsetIn(selected, e)
           seqs == [i \in 1 .. n |-> PairsOf(ActiveExpert(i - 1))]
           F(x) == x = [i \in 1 .. Len(seqs) |-> IF i = 1 THEN seqs[i] ELSE x[i - 1] \o seqs[i]]
           flat == CHOOSE x : F(x)
<1>1. /\ n \in Nat \ {0} /\ off(nth(0)) = 0
      /\ \A i \in 1 .. n - 1 : off(nth(i)) = off(nth(i - 1) + 1)
      /\ off(nth(n - 1) + 1) = NumPairs
  BY ActiveFollow, StateGrouping
<1>2. \A i \in 0 .. n - 1 : nth(i) \in ActiveIn(selected) /\ nth(i) \in RExperts
  BY ActiveNumbered, StateGrouping DEF ActiveIn
<1>3. ids \in [1 .. NumPairs -> Pairs] /\ NumPairs \in Nat
  BY GroupedAre, PairsFinite
<1>4. ASSUME NEW i \in 0 .. n - 1
      PROVE  off(nth(i)) \in 0 .. NumPairs /\ off(nth(i) + 1) \in 0 .. NumPairs /\ off(nth(i)) <= off(nth(i) + 1)
  <2> DEFINE e == nth(i)
             f == e + 1
  <2>1. e \in RExperts /\ e \in Nat /\ f \in Nat
    BY <1>2, RoutedAssumption DEF RExperts
  <2> HIDE DEF e
  <2>2. off(e) <= off(f)
    BY <2>1, ActiveIs
  <2> HIDE DEF f
  <2>3. off(e) \in 0 .. NumPairs /\ off(f) \in 0 .. NumPairs
    BY <2>1, OffsetIs
  <2>. QED BY <2>2, <2>3 DEF e, f
<1>5. \A i \in 0 .. n - 1 : PairsOf(ActiveExpert(i)) = [j \in 1 .. off(nth(i) + 1) - off(nth(i)) |-> ids[off(nth(i)) + j]]
  BY StateGrouping, Zenon DEF PairsOf
<1> HIDE DEF n, nth, off, ids
<1>6. Len(seqs) = n
  BY <1>1
<1>7. FlattenSeq(seqs) = flat[n]
  <2> HIDE DEF seqs
  <2>. QED BY <1>1, <1>6 DEF FlattenSeq
<1>8. F(flat)
  <2> HIDE DEF seqs
  <2> DEFINE m == n - 1
  <2>1. m \in Nat /\ 1 + m = n /\ 1 \in Nat
    BY <1>1
  <2> HIDE DEF m
  <2>2. \E x : ChainOf("flatten", seqs, seqs[1], 1, 1 + m, x)
    BY <2>1, ChainExists
  <2>3. PICK x : ChainOf("flatten", seqs, seqs[1], 1, n, x)
    BY <2>1, <2>2, Zenon
  <2>4. \A s, k : Turn("flatten", seqs, s, k) = s \o seqs[k]
    BY DEF Turn
  <2>5. x = [k \in 1 .. n |-> IF k = 1 THEN seqs[1] ELSE Turn("flatten", seqs, x[k - 1], k)]
    BY <2>3 DEF ChainOf
  <2>6. x = [k \in 1 .. n |-> IF k = 1 THEN seqs[k] ELSE x[k - 1] \o seqs[k]]
    BY <2>4, <2>5, Zenon
  <2>7. F(x)
    BY <1>6, <2>6, Zenon
  <2>. QED BY <2>7, Zenon
<1>9. \A i \in 1 .. n : flat[i] = IF i = 1 THEN seqs[i] ELSE flat[i - 1] \o seqs[i]
  <2> HIDE DEF seqs, flat
  <2>. QED BY <1>6, <1>8
<1> HIDE DEF flat, F
<1>10. \A i \in 1 .. n : seqs[i] = PairsOf(ActiveExpert(i - 1))
  OBVIOUS
<1> HIDE DEF seqs
<1> DEFINE run(k) == [j \in 1 .. off(nth(k) + 1) |-> ids[j]]
           Steps == {k \in 0 .. n - 1 : flat[k + 1] = run(k)}
<1>11. 0 \in Steps
  <2> DEFINE a == off(nth(0))
             b == off(nth(0) + 1)
  <2>1. 0 \in 0 .. n - 1 /\ 1 \in 1 .. n /\ 0 + 1 = 1 /\ 1 - 1 = 0
    BY <1>1
  <2>2. flat[1] = PairsOf(ActiveExpert(0))
    BY <1>9, <1>10, <2>1
  <2>3. PairsOf(ActiveExpert(0)) = [j \in 1 .. b - a |-> ids[a + j]]
    BY <1>5, <2>1
  <2>4. a = 0 /\ b \in Nat
    BY <1>1, <1>3, <1>4, <2>1
  <2> HIDE DEF a, b
  <2>5. 1 .. b - a = 1 .. b /\ \A j \in 1 .. b : a + j = j
    BY <2>4
  <2>6. [j \in 1 .. b - a |-> ids[a + j]] = [j \in 1 .. b |-> ids[j]]
    BY <2>5
  <2>7. flat[1] = run(0)
    BY <2>2, <2>3, <2>6 DEF b
  <2>. QED BY <2>1, <2>7
<1>12. ASSUME NEW k \in 1 .. n - 1, k - 1 \in Steps PROVE k \in Steps
  <2> DEFINE h == k - 1
             a == off(nth(k))
             b == off(nth(k) + 1)
             i == k + 1
  <2>1. /\ k \in 0 .. n - 1 /\ h \in 0 .. n - 1 /\ i \in 1 .. n /\ i # 1 /\ i - 1 = k /\ h + 1 = k
    BY <1>1
  <2>2. a \in 0 .. NumPairs /\ b \in 0 .. NumPairs /\ a <= b /\ a = off(nth(h) + 1)
    BY <1>1, <1>4, <2>1
  <2>3. flat[k] = [j \in 1 .. a |-> ids[j]]
    <3> HIDE DEF a
    <3>1. flat[h + 1] = run(h)
      BY <1>12
    <3>. QED BY <2>1, <2>2, <3>1, Zenon
  <2>4. PairsOf(ActiveExpert(k)) = [j \in 1 .. b - a |-> ids[a + j]]
    BY <1>5, <2>1
  <2> HIDE DEF i, a
  <2>5. flat[i] = flat[k] \o PairsOf(ActiveExpert(k))
    BY <1>9, <1>10, <2>1
  <2>6. [j \in 1 .. a |-> ids[j]] \o [j \in 1 .. b - a |-> ids[a + j]] = [j \in 1 .. b |-> ids[j]]
    <3>1. ids \in [1 .. NumPairs -> Pairs]
      BY <1>3
    <3>2. NumPairs \in Nat
      BY <1>3
    <3> HIDE DEF b
    <3>3. a \in 0 .. NumPairs
      BY <2>2
    <3>4. b \in 0 .. NumPairs
      BY <2>2
    <3>5. a <= b
      BY <2>2
    <3>. QED BY <3>1, <3>2, <3>3, <3>4, <3>5, RunsJoin, SMTT(30)
  <2>7. flat[i] = run(k)
    BY <2>3, <2>4, <2>5, <2>6, Zenon
  <2>. QED BY <2>1, <2>7 DEF i
<1>13. n - 1 \in Steps
  <2> DEFINE m == n - 1
  <2>1. m \in Nat /\ m \in 0 .. m
    BY <1>1
  <2> HIDE DEF Steps
  <2>2. 0 .. m \subseteq Steps
    <3>1. \A k \in 1 .. m : k - 1 \in Steps => k \in Steps
      BY <1>12
    <3> HIDE DEF m
    <3>. QED BY <1>11, <2>1, <3>1, StepByStep
  <2>. QED BY <2>1, <2>2
<1>14. flat[n] = ids
  <2>1. flat[(n - 1) + 1] = [j \in 1 .. NumPairs |-> ids[j]]
    BY <1>1, <1>13
  <2>2. (n - 1) + 1 = n
    BY <1>1
  <2>3. ids = [j \in 1 .. NumPairs |-> ids[j]]
    BY <1>3
  <2>. QED BY <2>1, <2>2, <2>3, Zenon
<1>. QED BY <1>7, <1>14 DEF seqs, n, ids

LEMMA AppendRange ==
    ASSUME NEW Elems, NEW s \in Seq(Elems), NEW v \in Elems
    PROVE  /\ Append(s, v) \in Seq(Elems) /\ Len(Append(s, v)) = Len(s) + 1
           /\ Range(Append(s, v)) = Range(s) \cup {v}
<1> DEFINE r == Append(s, v)
           n == Len(s)
<1>1. /\ r \in Seq(Elems) /\ n \in Nat /\ Len(r) = n + 1
      /\ \A i \in 1 .. n : r[i] = s[i]
      /\ r[n + 1] = v
  OBVIOUS
<1>2. DOMAIN s = 1 .. n /\ DOMAIN r = 1 .. n + 1
  BY <1>1
<1> HIDE DEF r, n
<1>3. ASSUME NEW x \in Range(r) PROVE x \in Range(s) \cup {v}
  <2>1. PICK i \in 1 .. n + 1 : r[i] = x
    BY <1>2 DEF Range
  <2>2. i \in 1 .. n \/ i = n + 1
    BY <1>1
  <2>. QED BY <1>1, <1>2, <2>1, <2>2 DEF Range
<1>4. ASSUME NEW x \in Range(s) \cup {v} PROVE x \in Range(r)
  <2>1. n + 1 \in 1 .. n + 1 /\ \A i \in 1 .. n : i \in 1 .. n + 1
    BY <1>1
  <2>2. CASE x = v
    BY <1>1, <1>2, <2>1, <2>2 DEF Range
  <2>3. CASE x \in Range(s)
    <3>1. PICK i \in 1 .. n : s[i] = x
      BY <1>2, <2>3 DEF Range
    <3>. QED BY <1>1, <1>2, <2>1, <3>1 DEF Range
  <2>. QED BY <2>2, <2>3
<1>. QED BY <1>1, <1>3, <1>4 DEF r, n

\* A token has ExpertsUsed pairs.
LEMMA TokenPairs ==
    ASSUME NEW t \in 0 .. MoeTokens - 1
    PROVE  LET Elems == {p \in Pairs : TokenOf(p) = t}
           IN  IsFiniteSet(Elems) /\ Cardinality(Elems) = ExpertsUsed
<1> DEFINE E == ExpertsUsed
           x == t * E
           Elems == {p \in Pairs : TokenOf(p) = t}
<1>1. E \in Nat \ {0} /\ MoeTokens \in Nat \ {0} /\ t \in Nat /\ t + 1 \in Nat /\ t + 1 <= MoeTokens
  BY RoutedAssumption
<1> HIDE DEF E
<1>2. x \in Nat /\ x = E * t /\ (t + 1) * E = x + E
  BY <1>1, ProductFacts
<1>3. (t + 1) * E <= NumPairs
  BY <1>1, ProductMonotone DEF NumPairs, E
<1>4. x + E <= NumPairs /\ NumPairs \in Nat /\ Pairs = 0 .. NumPairs - 1
  BY <1>2, <1>3, PairsFinite
<1>5. ASSUME NEW p \in x .. x + E - 1 PROVE p \in Elems
  <2> DEFINE r == p - x
  <2>1. r \in Nat /\ r < E /\ p = x + r /\ p \in Nat /\ p \in Pairs
    <3> HIDE DEF x
    <3>. QED BY <1>1, <1>2, <1>4
  <2> HIDE DEF r
  <2>2. p = E * t + r
    BY <1>2, <2>1
  <2>3. p \div E = t
    BY <1>1, <2>1, <2>2, DivModUnique
  <2>. QED BY <2>1, <2>3 DEF TokenOf, E
<1>6. ASSUME NEW p \in Elems PROVE p \in x .. x + E - 1
  <2>1. p \in Nat /\ p \div E = t
    BY <1>4 DEF TokenOf, E
  <2> DEFINE r == p % E
  <2>2. r \in Nat /\ r < E /\ p = E * t + r
    BY <1>1, <2>1, DivMod
  <2> HIDE DEF r, x
  <2>3. p = x + r
    BY <1>2, <2>2
  <2>. QED BY <1>1, <1>2, <2>1, <2>2, <2>3
<1>7. Elems = x .. x + E - 1
  BY <1>5, <1>6
<1> HIDE DEF Elems, x
<1> DEFINE b == x + E - 1
<1>8. x \in Int /\ b \in Int /\ ~ (x > b) /\ b - x + 1 = E
  BY <1>1, <1>2
<1> HIDE DEF b
<1>9. IsFiniteSet(x .. b) /\ Cardinality(x .. b) = IF x > b THEN 0 ELSE b - x + 1
  BY <1>8, FS_Interval
<1>. QED BY <1>7, <1>8, <1>9 DEF b, Elems, E

\* An output row sums one term of each pair of its token.
LEMMA TermsAre ==
    ASSUME selected \in [Pairs -> RExperts], pairIds = Grouped(selected),
           NEW row, NEW t \in 0 .. MoeTokens - 1
    PROVE  /\ Len(TermsOf(row, t)) = ExpertsUsed
           /\ Range(TermsOf(row, t)) =
                {<<selected[p], row, midq[p]>> : p \in {q \in Pairs : TokenOf(q) = t}}
<1> DEFINE n == NumPairs
           ids == pairIds
           term(p) == <<selected[p], row, midq[p]>>
           V == {term(p) : p \in Pairs}
           next(s, k) == IF TokenOf(ids[k]) # t THEN s ELSE Append(s, term(ids[k]))
           F(x) == x = [k \in 0 .. n |->
                          IF k = 0 THEN << >>
                          ELSE IF TokenOf(ids[k]) # t THEN x[k - 1]
                          ELSE Append(x[k - 1], <<selected[ids[k]], row, midq[ids[k]]>>)]
           summed == CHOOSE x : F(x)
           upto(k) == {p \in Pairs : PlaceIn(selected, p) <= k /\ TokenOf(p) = t}
<1>1. n \in Nat /\ IsFiniteSet(Pairs)
  BY PairsFinite
<1>2. /\ ids \in [1 .. n -> Pairs]
      /\ \A i \in 1 .. n : PlaceIn(selected, ids[i]) = i
      /\ \A p \in Pairs : ids[PlaceIn(selected, p)] = p
      /\ \A p \in Pairs : PlaceIn(selected, p) \in 1 .. n
  BY GroupedAre, PlacesAre
<1>3. Len(ids) = n
  BY <1>1, <1>2
<1>4. TermsOf(row, t) = summed[n]
  <2> DEFINE visited == FlattenSeq([i \in 1 .. Cardinality(Active) |-> PairsOf(ActiveExpert(i - 1))])
  <2>1. visited = ids
    BY VisitedIs
  <2>2. TermsOf(row, t) =
          LET s[k \in 0 .. Len(visited)] ==
                IF k = 0 THEN << >>
                ELSE IF TokenOf(visited[k]) # t THEN s[k - 1]
                ELSE Append(s[k - 1], <<selected[visited[k]], row, midq[visited[k]]>>)
          IN  s[Len(visited)]
    BY DEF TermsOf
  <2> HIDE DEF visited, n
  <2>. QED BY <1>3, <2>1, <2>2
<1>5. F(summed)
  <2> DEFINE terms == [k \in 1 .. n |-> <<selected[ids[k]], row, midq[ids[k]]>>]
             a == <<ids, t, terms>>
  <2>1. 0 + n = n
    BY <1>1
  <2> HIDE DEF n, terms
  <2>2. \E x : ChainOf("terms", a, << >>, 0, 0 + n, x)
    <3> HIDE DEF a
    <3>. QED BY <1>1, ChainExists
  <2>3. PICK x : ChainOf("terms", a, << >>, 0, n, x)
    BY <2>1, <2>2, Zenon
  <2>4. \A s, k : Turn("terms", a, s, k) = IF TokenOf(ids[k]) # t THEN s ELSE Append(s, terms[k])
    BY DEF Turn
  <2>5. x = [k \in 0 .. n |-> IF k = 0 THEN << >> ELSE Turn("terms", a, x[k - 1], k)]
    BY <2>3 DEF ChainOf
  <2>6. x = [k \in 0 .. n |-> IF k = 0 THEN << >> ELSE IF TokenOf(ids[k]) # t THEN x[k - 1] ELSE Append(x[k - 1], terms[k])]
    BY <2>4, <2>5, Zenon
  <2>7. \A k \in 0 .. n : k # 0 => terms[k] = <<selected[ids[k]], row, midq[ids[k]]>>
    BY <1>1 DEF terms
  <2>8. F(x)
    <3> HIDE DEF ids
    <3>. QED BY <2>6, <2>7
  <2>. QED BY <2>8, Zenon
<1> HIDE DEF summed, n
<1>6. summed[0] = << >> /\ \A k \in 1 .. n : summed[k] = next(summed[k - 1], k)
  <2> HIDE DEF ids
  <2>1. summed[0] = << >>
    BY <1>1, <1>5
  <2>2. ASSUME NEW k \in 1 .. n PROVE summed[k] = next(summed[k - 1], k)
    <3>1. k \in 0 .. n /\ k # 0
      BY <1>1
    <3>. QED BY <1>5, <3>1
  <2>. QED BY <2>1, <2>2
<1> HIDE DEF F, ids
<1> DEFINE ok(s, k) == s \in Seq(V) /\ Len(s) = Cardinality(upto(k)) /\ Range(s) = {term(p) : p \in upto(k)}
           Steps == {k \in 0 .. n : ok(summed[k], k)}
<1>7. 0 \in Steps
  <2>1. upto(0) = {}
    BY <1>1, <1>2
  <2> HIDE DEF upto, term
  <2>2. << >> \in Seq(V) /\ Len(<< >>) = 0 /\ Range(<< >>) = {}
    BY DEF Range
  <2>3. Cardinality(upto(0)) = 0 /\ {term(p) : p \in upto(0)} = {}
    BY <2>1, FS_EmptySet
  <2>4. 0 \in 0 .. n
    BY <1>1
  <2>. QED BY <1>6, <2>2, <2>3, <2>4, Zenon
<1>8. ASSUME NEW k \in 1 .. n, k - 1 \in Steps PROVE k \in Steps
  <2> DEFINE h == k - 1
             s == summed[h]
             q == ids[k]
             A == upto(h)
             Lower == upto(k)
  <2>1. k \in 0 .. n /\ h \in Nat /\ h + 1 = k /\ k \in Nat
    BY <1>1
  <2>2. ok(s, h)
    BY <1>8
  <2>3. q \in Pairs /\ PlaceIn(selected, q) = k /\ \A p \in Pairs : PlaceIn(selected, p) = k => p = q
    BY <1>2
  <2>4. \A p \in Pairs : PlaceIn(selected, p) \in Nat
    BY <1>1, <1>2
  <2>5. summed[k] = next(s, k)
    BY <1>6
  <2> HIDE DEF h, s, q
  <2>6. \A p \in Pairs : PlaceIn(selected, p) <= k <=> PlaceIn(selected, p) <= h \/ p = q
    BY <2>1, <2>3, <2>4
  <2>7. ~ (PlaceIn(selected, q) <= h)
    BY <2>1, <2>3
  <2>8. IsFiniteSet(A)
    <3>1. A \in SUBSET Pairs
      OBVIOUS
    <3> HIDE DEF A
    <3>. QED BY <1>1, <3>1, FS_Subset
  <2>9. CASE TokenOf(q) = t
    <3>1. Lower = A \cup {q} /\ q \notin A
      BY <2>3, <2>6, <2>7, <2>9
    <3> HIDE DEF A, Lower
    <3>2. Cardinality(Lower) = Cardinality(A) + 1
      BY <2>8, <3>1, FS_AddElement
    <3>3. term(q) \in V
      BY <2>3
    <3>4. {term(p) : p \in Lower} = {term(p) : p \in A} \cup {term(q)}
      BY <3>1
    <3>5. summed[k] = Append(s, term(q))
      BY <2>5, <2>9 DEF q
    <3> HIDE DEF term, V
    <3>6. s \in Seq(V) /\ Len(s) = Cardinality(A) /\ Range(s) = {term(p) : p \in A}
      BY <2>2 DEF A
    <3>7. /\ summed[k] \in Seq(V) /\ Len(summed[k]) = Len(s) + 1
          /\ Range(summed[k]) = Range(s) \cup {term(q)}
      BY <3>3, <3>5, <3>6, AppendRange
    <3>8. ok(summed[k], k)
      BY <3>2, <3>4, <3>6, <3>7, Zenon DEF Lower
    <3>. QED BY <2>1, <3>8
  <2>10. CASE TokenOf(q) # t
    <3>1. Lower = A
      BY <2>6, <2>10
    <3>2. summed[k] = s
      BY <2>5, <2>10 DEF q
    <3> HIDE DEF term, V, upto
    <3>3. ok(summed[k], k)
      BY <2>2, <3>1, <3>2, Zenon
    <3>. QED BY <2>1, <3>3
  <2>. QED BY <2>9, <2>10
<1>9. n \in Steps
  <2> HIDE DEF Steps
  <2>1. 0 .. n \subseteq Steps
    BY <1>1, <1>7, <1>8, StepByStep
  <2>. QED BY <1>1, <2>1
<1>10. upto(n) = {q \in Pairs : TokenOf(q) = t}
  BY <1>1, <1>2
<1>11. Cardinality({q \in Pairs : TokenOf(q) = t}) = ExpertsUsed
  BY TokenPairs
<1>. QED BY <1>4, <1>9, <1>10, <1>11

\* The pairs of an expert's slice are those that picked it.
LEMMA SliceIs ==
    ASSUME selected \in [Pairs -> RExperts], pairIds = Grouped(selected), NEW e \in RExperts, NEW p \in Pairs
    PROVE  (\E i \in DOMAIN PairsOf(e) : PairsOf(e)[i] = p) <=> selected[p] = e
<1> DEFINE f == e + 1
           a == OffsetIn(selected, e)
           b == OffsetIn(selected, f)
           ids == pairIds
           place(q) == PlaceIn(selected, q)
           slice == [i \in 1 .. b - a |-> ids[a + i]]
<1>1. NumPairs \in Nat /\ e \in Nat /\ f \in Nat /\ \A q \in Pairs : selected[q] \in Nat
  BY PairsFinite, RoutedAssumption DEF RExperts
<1>2. PairsOf(e) = slice
  BY StateGrouping, Zenon DEF PairsOf
<1>3. /\ \A i \in 1 .. NumPairs : ids[i] \in Pairs /\ place(ids[i]) = i
      /\ \A q \in Pairs : ids[place(q)] = q /\ place(q) \in 1 .. NumPairs
  BY GroupedAre, PlacesAre
<1>4. selected[p] < f <=> selected[p] <= e
  BY <1>1
<1> HIDE DEF f, ids, place
<1>5. a \in 0 .. NumPairs /\ \A q \in Pairs : place(q) <= a <=> selected[q] < e
  BY <1>1, OffsetIs DEF place
<1>6. b \in 0 .. NumPairs /\ \A q \in Pairs : place(q) <= b <=> selected[q] < f
  BY <1>1, OffsetIs DEF place
<1> HIDE DEF a, b
<1>7. selected[p] = e <=> a < place(p) /\ place(p) <= b
  <2>1. place(p) \in Nat /\ a \in Nat /\ b \in Nat
    BY <1>1, <1>3, <1>5, <1>6
  <2>. QED BY <1>1, <1>4, <1>5, <1>6, <2>1
<1>8. ASSUME NEW i \in DOMAIN slice, slice[i] = p PROVE selected[p] = e
  <2>1. i \in 1 .. b - a /\ ids[a + i] = p
    BY <1>8
  <2>2. a + i \in 1 .. NumPairs /\ a < a + i /\ a + i <= b
    BY <1>1, <1>5, <1>6, <2>1
  <2>3. place(p) = a + i
    BY <1>3, <2>1, <2>2
  <2>. QED BY <1>7, <2>2, <2>3
<1>9. ASSUME selected[p] = e PROVE \E i \in DOMAIN slice : slice[i] = p
  <2> DEFINE i == place(p) - a
  <2>1. place(p) \in 1 .. NumPairs /\ a < place(p) /\ place(p) <= b
    BY <1>3, <1>7, <1>9
  <2>2. i \in 1 .. b - a /\ a + i = place(p)
    BY <1>1, <1>5, <1>6, <2>1
  <2> HIDE DEF i
  <2>3. slice[i] = p
    BY <1>3, <2>2
  <2>. QED BY <2>2, <2>3
<1>. QED BY <1>2, <1>8, <1>9

WholeOf(sel, p) == [row \in 0 .. MidRows - 1 |-> <<sel[p], row, p>>]
\* The task of the first loop that computes a row of a pair.
TaskFor(sel, p, row) == IndexIn(sel, sel[p]) * MidRows + row
\* An output row is the sum of its token's pairs.
SumOk(sel, m, o) ==
    /\ Len(m) = ExpertsUsed
    /\ Range(m) = {<<sel[p], o[2], WholeOf(sel, p)>> : p \in {q \in Pairs : TokenOf(q) = o[1]}}

\* A task of the first loop: an active expert and a row.
LEMMA TaskIs ==
    ASSUME NEW sel \in [Pairs -> RExperts], NEW task \in 0 .. Cardinality(ActiveIn(sel)) * MidRows - 1
    PROVE  LET e == NthIn(sel, task \div MidRows)
               r == task % MidRows
           IN  /\ e \in RExperts /\ r \in 0 .. MidRows - 1
               /\ \A p \in Pairs, row \in 0 .. MidRows - 1 :
                     TaskFor(sel, p, row) = task => sel[p] = e /\ row = r
<1> DEFINE n == Cardinality(ActiveIn(sel))
           R == MidRows
           q == task \div R
           r == task % R
<1>1. R \in Nat \ {0} /\ n \in Nat /\ n * R \in Nat
  <2>1. R \in Nat \ {0} /\ n \in Nat
    BY RoutedAssumption, ActiveNumbered
  <2>. QED BY <2>1, ProductFacts
<1>2. task \in Nat /\ task < n * R
  BY <1>1
<1>3. q \in Nat /\ r \in Nat /\ r < R /\ task = R * q + r
  BY <1>1, <1>2, DivMod
<1>4. q \in 0 .. n - 1
  <2> SUFFICES ASSUME n <= q PROVE FALSE
    BY <1>1, <1>3
  <2> DEFINE x == n * R
             y == q * R
  <2> HIDE DEF q, r, n, R
  <2>1. x <= y /\ y = R * q /\ y \in Nat
    BY <1>1, <1>3, ProductMonotone, ProductFacts
  <2> DEFINE z == R * q
  <2>2. task = z + r /\ y = z
    BY <1>3, <2>1
  <2>3. r \in Nat /\ x \in Nat /\ task < x /\ x <= y /\ y \in Nat
    BY <1>1, <1>2, <1>3, <2>1
  <2> HIDE DEF x, y, z
  <2>. QED BY <2>2, <2>3
<1>5. NthIn(sel, q) \in RExperts
  BY <1>4, ActiveNumbered DEF ActiveIn
<1>6. ASSUME NEW p \in Pairs, NEW row \in 0 .. R - 1, TaskFor(sel, p, row) = task
      PROVE  sel[p] = NthIn(sel, q) /\ row = r
  <2> DEFINE i == IndexIn(sel, sel[p])
  <2>1. sel[p] \in ActiveIn(sel)
    BY ActiveIs
  <2>2. i \in 0 .. n - 1 /\ NthIn(sel, i) = sel[p]
    BY <2>1, ActiveNumbered
  <2>3. i \in Nat /\ row \in Nat /\ row < R
    BY <1>1, <2>2
  <2> HIDE DEF i
  <2>4. i * R = R * i
    BY <1>1, <2>3, ProductFacts
  <2>5. task = R * i + row
    BY <1>6, <2>4 DEF TaskFor, i
  <2>6. q = i /\ r = row
    <3>1. R \in Nat \ {0} /\ task \in Nat
      BY <1>1, <1>2
    <3> HIDE DEF R
    <3>. QED BY <2>3, <2>5, <3>1, DivModUnique
  <2>. QED BY <2>2, <2>6
<1>. QED BY <1>1, <1>3, <1>5, <1>6

(***************************************************************************)
(* What each loop leaves for the next, and what the tasks of the running   *)
(* loop that are done have left.                                           *)
(***************************************************************************)
RoutedShape ==
    /\ selected \in [Pairs -> RExperts]
    /\ mid = [p \in Pairs |-> [row \in 0 .. MidRows - 1 |-> mid[p][row]]]
    /\ midq = [p \in Pairs |-> midq[p]]
    /\ moe = [o \in Outputs |-> moe[o]]
    /\ left = [loop |-> left.loop, tasks |-> left.tasks]
RoutedStage ==
    /\ left.loop = "mid" =>
         /\ left.tasks \subseteq 0 .. Cardinality(ActiveIn(selected)) * MidRows - 1
         /\ \A p \in Pairs, row \in 0 .. MidRows - 1 :
               TaskFor(selected, p, row) \notin left.tasks => mid[p][row] = <<selected[p], row, p>>
    /\ left.loop = "quantize" =>
         \A p \in Pairs : mid[p] = WholeOf(selected, p) /\ (p \notin left.tasks => midq[p] = WholeOf(selected, p))
    /\ left.loop = "accumulate" =>
         /\ \A p \in Pairs : midq[p] = WholeOf(selected, p)
         /\ \A o \in Outputs : o[2] \notin left.tasks => SumOk(selected, moe[o], o)
    /\ left.loop = "done" => \A o \in Outputs : SumOk(selected, moe[o], o)
RoutedInv ==
    \/ left.loop = "idle"
    \/ /\ left.loop \in {"group", "mid", "quantize", "accumulate", "done"}
       /\ RoutedShape /\ RoutedStage
       /\ left.loop # "group" => pairIds = Grouped(selected)

LEMMA RoutedStarts ==
    ASSUME NEW sel \in Selections, StartRouted(sel)
    PROVE  RoutedInv
<1>1. selected = sel /\ sel \in [Pairs -> RExperts]
  BY DEF StartRouted, Selections
<1>2. mid = [p \in Pairs |-> [row \in 0 .. MidRows - 1 |-> mid[p][row]]]
  <2>1. mid = [p \in Pairs |-> [row \in 0 .. MidRows - 1 |-> Garbage]]
    BY DEF StartRouted
  <2>2. \A p \in Pairs : mid[p] = [row \in 0 .. MidRows - 1 |-> mid[p][row]]
    BY <2>1
  <2>. QED BY <2>1, <2>2
<1>3. midq = [p \in Pairs |-> midq[p]] /\ moe = [o \in Outputs |-> moe[o]]
  BY DEF StartRouted
<1>4. left = [loop |-> left.loop, tasks |-> left.tasks] /\ left.loop = "group"
  BY DEF StartRouted
<1>. QED BY <1>1, <1>2, <1>3, <1>4 DEF RoutedInv, RoutedShape, RoutedStage

\* A task leaves the running loop, or was its last and the next one starts.
LEMMA DidLeaves ==
    ASSUME RoutedShape, left.loop \in {"mid", "quantize", "accumulate"}, NEW task \in left.tasks, Did(task)
    PROVE  \/ /\ left'.loop = left.loop /\ left'.tasks = left.tasks \ {task}
              /\ left' = [loop |-> left'.loop, tasks |-> left'.tasks]
           \/ /\ left.tasks = {task}
              /\ left'.loop = NextLoop[left.loop] /\ left'.tasks = TasksOf(left'.loop)
              /\ left' = [loop |-> left'.loop, tasks |-> left'.tasks]
<1>1. CASE left.tasks = {task}
  <2> DEFINE l == NextLoop[left.loop]
             s == TasksOf(l)
  <2>1. left' = [loop |-> l, tasks |-> s]
    BY <1>1 DEF Did
  <2> HIDE DEF s
  <2>2. left'.loop = l /\ left'.tasks = s
    BY <2>1
  <2>3. left' = [loop |-> left'.loop, tasks |-> left'.tasks]
    BY <2>1, <2>2, Zenon
  <2> HIDE DEF l
  <2>. QED BY <1>1, <2>2, <2>3 DEF l, s
<1>2. CASE left.tasks # {task}
  <2> DEFINE l == left.loop
             s == left.tasks \ {task}
  <2>1. left' = [loop |-> l, tasks |-> s]
    <3>1. left' = [left EXCEPT !.tasks = @ \ {task}]
      BY <1>2 DEF Did
    <3>2. left = [loop |-> l, tasks |-> left.tasks]
      BY DEF RoutedShape
    <3>. QED BY <3>1, <3>2
  <2> HIDE DEF l, s
  <2>2. left'.loop = l /\ left'.tasks = s
    BY <2>1
  <2>3. left' = [loop |-> left'.loop, tasks |-> left'.tasks]
    BY <2>1, <2>2, Zenon
  <2>. QED BY <2>2, <2>3 DEF l, s
<1>. QED BY <1>1, <1>2

LEMMA GroupKeeps ==
    ASSUME RoutedInv, Group
    PROVE  RoutedInv'
<1> DEFINE n == Cardinality(Active) * MidRows
           s == 0 .. n - 1
<1>1. /\ left.loop = "group" /\ pairIds' = Grouped(selected) /\ left' = [loop |-> "mid", tasks |-> s]
      /\ selected' = selected /\ mid' = mid /\ midq' = midq /\ moe' = moe
  BY DEF Group
<1>2. RoutedShape
  BY <1>1 DEF RoutedInv
<1>3. Active = ActiveIn(selected)
  BY StateGrouping
<1> HIDE DEF n
<1> DEFINE w == s
<1>4. left' = [loop |-> "mid", tasks |-> w]
  BY <1>1
<1> HIDE DEF w
<1>5. left'.loop = "mid" /\ left'.tasks = w
  BY <1>4
<1>6. left' = [loop |-> left'.loop, tasks |-> left'.tasks]
  BY <1>4, <1>5, Zenon
<1>7. RoutedShape'
  BY <1>1, <1>2, <1>6 DEF RoutedShape
<1>8. ASSUME NEW p \in Pairs, NEW row \in 0 .. MidRows - 1 PROVE TaskFor(selected, p, row) \in s
  <2> DEFINE i == IndexIn(selected, selected[p])
             m == Cardinality(ActiveIn(selected))
             x == i * MidRows
  <2>1. selected[p] \in ActiveIn(selected)
    BY <1>2, ActiveIs DEF RoutedShape
  <2>2. m \in Nat /\ i \in 0 .. m - 1
    BY <1>2, <2>1, ActiveNumbered DEF RoutedShape
  <2> HIDE DEF i, m
  <2>3. MidRows \in Nat /\ i \in Nat /\ i + 1 \in Nat /\ i + 1 <= m
    BY <2>2, RoutedAssumption
  <2>4. (i + 1) * MidRows <= m * MidRows /\ (i + 1) * MidRows = x + MidRows /\ x \in Nat /\ m * MidRows \in Nat
    BY <2>2, <2>3, ProductMonotone, ProductFacts
  <2> DEFINE y == m * MidRows
             z == (i + 1) * MidRows
  <2>5. z <= y /\ z = x + MidRows /\ x \in Nat /\ y \in Nat
    BY <2>4
  <2>6. n = y /\ TaskFor(selected, p, row) = x + row
    BY <1>3 DEF n, m, TaskFor, i
  <2> HIDE DEF x, y, z
  <2>. QED BY <2>3, <2>5, <2>6
<1>9. RoutedStage'
  <2>1. w = 0 .. Cardinality(ActiveIn(selected)) * MidRows - 1
    BY <1>3 DEF w, n
  <2>2. \A p \in Pairs, row \in 0 .. MidRows - 1 : TaskFor(selected, p, row) \in w
    BY <1>8 DEF w
  <2>. QED BY <1>1, <1>5, <2>1, <2>2 DEF RoutedStage
<1>. QED BY <1>1, <1>5, <1>7, <1>9 DEF RoutedInv

LEMMA BatchMidKeeps ==
    ASSUME RoutedInv, NEW task \in left.tasks, BatchMid(task)
    PROVE  RoutedInv'
<1> DEFINE r == task % MidRows
           e == NthIn(selected, task \div MidRows)
           new(p, row) == <<selected[p], row, p>>
<1>1. /\ left.loop = "mid" /\ Did(task)
      /\ selected' = selected /\ pairIds' = pairIds /\ midq' = midq /\ moe' = moe
  BY DEF BatchMid
<1>2. RoutedShape /\ RoutedStage /\ pairIds = Grouped(selected) /\ selected \in [Pairs -> RExperts]
  BY <1>1 DEF RoutedInv, RoutedShape
<1>3. /\ e \in RExperts /\ r \in 0 .. MidRows - 1
      /\ \A p \in Pairs, row \in 0 .. MidRows - 1 : TaskFor(selected, p, row) = task => selected[p] = e /\ row = r
  <2>1. task \in 0 .. Cardinality(ActiveIn(selected)) * MidRows - 1
    BY <1>1, <1>2 DEF RoutedStage
  <2>. QED BY <1>2, <2>1, TaskIs
<1>4. mid' = [p \in Pairs |-> IF \E i \in DOMAIN PairsOf(e) : PairsOf(e)[i] = p
                              THEN [mid[p] EXCEPT ![r] = <<e, r, p>>] ELSE mid[p]]
  <2>1. ActiveExpert(task \div MidRows) = e
    BY StateGrouping
  <2> HIDE DEF e
  <2>. QED BY <2>1 DEF BatchMid
<1> HIDE DEF r, e
<1>5. \A p \in Pairs : (\E i \in DOMAIN PairsOf(e) : PairsOf(e)[i] = p) <=> selected[p] = e
  BY <1>2, <1>3, SliceIs
<1>6. mid' = [p \in Pairs |-> IF selected[p] = e THEN [mid[p] EXCEPT ![r] = <<e, r, p>>] ELSE mid[p]]
  BY <1>4, <1>5, Zenon
<1>7. \A p \in Pairs : mid[p] = [row \in 0 .. MidRows - 1 |-> mid[p][row]]
  <2>1. mid = [p \in Pairs |-> [row \in 0 .. MidRows - 1 |-> mid[p][row]]]
    BY <1>2 DEF RoutedShape
  <2>. QED BY <2>1
<1>8. ASSUME NEW p \in Pairs
      PROVE  /\ mid'[p] = [row \in 0 .. MidRows - 1 |-> mid'[p][row]]
             /\ \A row \in 0 .. MidRows - 1 :
                   mid'[p][row] = IF selected[p] = e /\ row = r THEN new(p, row) ELSE mid[p][row]
  <2>1. CASE selected[p] = e
    <3>1. mid'[p] = [mid[p] EXCEPT ![r] = <<e, r, p>>]
      BY <1>6, <2>1
    <3>2. mid'[p] = [row \in 0 .. MidRows - 1 |-> IF row = r THEN <<e, r, p>> ELSE mid[p][row]]
      BY <1>7, <3>1
    <3>. QED BY <2>1, <3>2
  <2>2. CASE selected[p] # e
    <3>1. mid'[p] = mid[p]
      BY <1>6, <2>2
    <3>. QED BY <1>7, <2>2, <3>1
  <2>. QED BY <2>1, <2>2
<1>9. mid' = [p \in Pairs |-> [row \in 0 .. MidRows - 1 |-> mid'[p][row]]]
  <2>1. mid' = [p \in Pairs |-> mid'[p]]
    BY <1>6
  <2>. QED BY <1>8, <2>1, Zenon
<1>10. ASSUME NEW p \in Pairs, NEW row \in 0 .. MidRows - 1, TaskFor(selected, p, row) \notin left.tasks \ {task}
       PROVE  mid'[p][row] = new(p, row)
  <2>1. CASE TaskFor(selected, p, row) = task
    BY <1>3, <1>8, <2>1
  <2>2. CASE TaskFor(selected, p, row) \notin left.tasks
    <3>1. mid[p][row] = new(p, row)
      BY <1>1, <1>2, <2>2 DEF RoutedStage
    <3>. QED BY <1>8, <3>1
  <2>. QED BY <1>10, <2>1, <2>2
<1>11. \/ /\ left'.loop = "mid" /\ left'.tasks = left.tasks \ {task}
          /\ left' = [loop |-> left'.loop, tasks |-> left'.tasks]
       \/ /\ left.tasks = {task} /\ left'.loop = "quantize" /\ left'.tasks = Pairs
          /\ left' = [loop |-> left'.loop, tasks |-> left'.tasks]
  BY <1>1, <1>2, DidLeaves DEF NextLoop, TasksOf
<1>12. RoutedShape'
  BY <1>1, <1>2, <1>9, <1>11 DEF RoutedShape
<1>13. CASE left'.loop = "mid" /\ left'.tasks = left.tasks \ {task}
  <2>1. left.tasks \ {task} \subseteq 0 .. Cardinality(ActiveIn(selected)) * MidRows - 1
    BY <1>1, <1>2 DEF RoutedStage
  <2>2. RoutedStage'
    BY <1>1, <1>10, <1>13, <2>1 DEF RoutedStage
  <2>. QED BY <1>1, <1>2, <1>12, <1>13, <2>2 DEF RoutedInv
<1>14. CASE left.tasks = {task} /\ left'.loop = "quantize" /\ left'.tasks = Pairs
  <2>1. ASSUME NEW p \in Pairs PROVE mid'[p] = WholeOf(selected, p)
    <3>1. \A row \in 0 .. MidRows - 1 : mid'[p][row] = new(p, row)
      BY <1>10, <1>14
    <3>2. [row \in 0 .. MidRows - 1 |-> mid'[p][row]] = WholeOf(selected, p)
      BY <3>1 DEF WholeOf
    <3>. QED BY <1>8, <3>2
  <2>2. RoutedStage'
    BY <1>1, <1>14, <2>1 DEF RoutedStage
  <2>. QED BY <1>1, <1>2, <1>12, <1>14, <2>2 DEF RoutedInv
<1>. QED BY <1>11, <1>13, <1>14

LEMMA QuantizeMidKeeps ==
    ASSUME RoutedInv, NEW p \in left.tasks, QuantizeMid(p)
    PROVE  RoutedInv'
<1>1. /\ left.loop = "quantize" /\ Did(p) /\ midq' = [midq EXCEPT ![p] = mid[p]]
      /\ selected' = selected /\ pairIds' = pairIds /\ mid' = mid /\ moe' = moe
  BY DEF QuantizeMid
<1>2. RoutedShape /\ RoutedStage /\ pairIds = Grouped(selected)
  BY <1>1 DEF RoutedInv
<1>3. midq = [q \in Pairs |-> midq[q]]
  BY <1>2 DEF RoutedShape
<1>4. midq' = [q \in Pairs |-> midq'[q]] /\ \A q \in Pairs : midq'[q] = IF q = p THEN mid[p] ELSE midq[q]
  BY <1>1, <1>3
<1>5. ASSUME NEW q \in Pairs
      PROVE  mid[q] = WholeOf(selected, q) /\ (q \notin left.tasks \ {p} => midq'[q] = WholeOf(selected, q))
  BY <1>1, <1>2, <1>4 DEF RoutedStage
<1>6. \/ /\ left'.loop = "quantize" /\ left'.tasks = left.tasks \ {p}
         /\ left' = [loop |-> left'.loop, tasks |-> left'.tasks]
      \/ /\ left.tasks = {p} /\ left'.loop = "accumulate" /\ left'.tasks = 0 .. OutRows - 1
         /\ left' = [loop |-> left'.loop, tasks |-> left'.tasks]
  BY <1>1, <1>2, DidLeaves DEF NextLoop, TasksOf
<1>7. RoutedShape'
  BY <1>1, <1>2, <1>4, <1>6 DEF RoutedShape
<1>8. CASE left'.loop = "quantize" /\ left'.tasks = left.tasks \ {p}
  <2>1. RoutedStage'
    BY <1>1, <1>5, <1>8 DEF RoutedStage
  <2>. QED BY <1>1, <1>2, <1>7, <1>8, <2>1 DEF RoutedInv
<1>9. CASE left.tasks = {p} /\ left'.loop = "accumulate" /\ left'.tasks = 0 .. OutRows - 1
  <2>1. \A q \in Pairs : midq'[q] = WholeOf(selected, q)
    BY <1>5, <1>9
  <2>2. \A o \in Outputs : o[2] \in 0 .. OutRows - 1
    BY DEF Outputs
  <2>3. RoutedStage'
    BY <1>1, <1>9, <2>1, <2>2 DEF RoutedStage
  <2>. QED BY <1>1, <1>2, <1>7, <1>9, <2>3 DEF RoutedInv
<1>. QED BY <1>6, <1>8, <1>9

LEMMA AccumRowsKeeps ==
    ASSUME RoutedInv, NEW row \in left.tasks, AccumRows(row)
    PROVE  RoutedInv'
<1>1. /\ left.loop = "accumulate" /\ Did(row)
      /\ moe' = [o \in Outputs |-> IF o[2] = row THEN TermsOf(row, o[1]) ELSE moe[o]]
      /\ selected' = selected /\ pairIds' = pairIds /\ mid' = mid /\ midq' = midq
  BY DEF AccumRows
<1>2. RoutedShape /\ RoutedStage /\ pairIds = Grouped(selected) /\ selected \in [Pairs -> RExperts]
  BY <1>1 DEF RoutedInv, RoutedShape
<1>3. \A p \in Pairs : midq[p] = WholeOf(selected, p)
  BY <1>1, <1>2 DEF RoutedStage
<1>4. ASSUME NEW o \in Outputs, o[2] \notin left.tasks \ {row} PROVE SumOk(selected, moe'[o], o)
  <2>1. CASE o[2] = row
    <3> DEFINE t == o[1]
               m == TermsOf(row, t)
    <3>1. t \in 0 .. MoeTokens - 1 /\ moe'[o] = m
      BY <1>1, <2>1 DEF Outputs
    <3> HIDE DEF t
    <3>2. /\ Len(m) = ExpertsUsed
          /\ Range(m) = {<<selected[p], row, midq[p]>> : p \in {q \in Pairs : TokenOf(q) = t}}
      BY <1>2, <3>1, TermsAre
    <3> HIDE DEF m
    <3>3. {<<selected[p], row, midq[p]>> : p \in {q \in Pairs : TokenOf(q) = t}}
            = {<<selected[p], row, WholeOf(selected, p)>> : p \in {q \in Pairs : TokenOf(q) = t}}
      BY <1>3
    <3>. QED BY <2>1, <3>1, <3>2, <3>3 DEF SumOk, t
  <2>2. CASE o[2] # row
    <3>1. SumOk(selected, moe[o], o)
      BY <1>1, <1>2, <1>4, <2>2 DEF RoutedStage
    <3>2. moe'[o] = moe[o]
      BY <1>1, <2>2
    <3>. QED BY <3>1, <3>2
  <2>. QED BY <2>1, <2>2
<1>5. moe' = [o \in Outputs |-> moe'[o]]
  BY <1>1
<1>6. \/ /\ left'.loop = "accumulate" /\ left'.tasks = left.tasks \ {row}
         /\ left' = [loop |-> left'.loop, tasks |-> left'.tasks]
      \/ /\ left.tasks = {row} /\ left'.loop = "done"
         /\ left' = [loop |-> left'.loop, tasks |-> left'.tasks]
  BY <1>1, <1>2, DidLeaves DEF NextLoop
<1>7. RoutedShape'
  BY <1>1, <1>2, <1>5, <1>6 DEF RoutedShape
<1>8. CASE left'.loop = "accumulate" /\ left'.tasks = left.tasks \ {row}
  <2>1. RoutedStage'
    BY <1>1, <1>3, <1>4, <1>8 DEF RoutedStage
  <2>. QED BY <1>1, <1>2, <1>7, <1>8, <2>1 DEF RoutedInv
<1>9. CASE left.tasks = {row} /\ left'.loop = "done"
  <2>1. \A o \in Outputs : SumOk(selected, moe'[o], o)
    BY <1>4, <1>9
  <2>2. RoutedStage'
    BY <1>1, <1>9, <2>1 DEF RoutedStage
  <2>. QED BY <1>1, <1>2, <1>7, <1>9, <2>2 DEF RoutedInv
<1>. QED BY <1>6, <1>8, <1>9

\* In whatever order the threads do the tasks of the three loops of
\* layer_routed_moe_batch, every output row is the sum of one term of each pair
\* of its token, made of all that pair's rows.
THEOREM PairsSummedOnce == Spec => []RoutedOnce
<1>1. Init => RoutedInv
  <2>1. IdleRouted => RoutedInv
    BY DEF IdleRouted, RoutedInv
  <2>. QED BY <2>1, RoutedStarts DEF Init
<1>2. RoutedInv /\ [Next]_kvars => RoutedInv'
  <2>1. ASSUME RoutedInv, UNCHANGED rvars PROVE RoutedInv'
    BY <2>1 DEF RoutedInv, RoutedShape, RoutedStage, rvars
  <2>2. ASSUME RoutedInv, RoutedStep PROVE RoutedInv'
    BY <2>2, GroupKeeps, BatchMidKeeps, QuantizeMidKeeps, AccumRowsKeeps DEF RoutedStep
  <2>3. [Next]_kvars => RoutedStep \/ UNCHANGED rvars
    BY DEF Next, kvars
  <2>. QED BY <2>1, <2>2, <2>3
<1>3. RoutedInv => RoutedOnce
  <2> SUFFICES ASSUME RoutedInv, left.loop = "done", NEW o \in Outputs
               PROVE  /\ Len(moe[o]) = ExpertsUsed
                      /\ Range(moe[o]) = {<<selected[p], o[2], [row \in 0 .. MidRows - 1 |-> <<selected[p], row, p>>]>> :
                                            p \in {q \in Pairs : TokenOf(q) = o[1]}}
    BY DEF RoutedOnce
  <2>1. SumOk(selected, moe[o], o)
    BY DEF RoutedInv, RoutedStage
  <2>. QED BY <2>1 DEF SumOk, WholeOf
<1>. QED BY <1>1, <1>2, <1>3, PTL DEF Spec

(***************************************************************************)
(* The matrix products of llamafile_sgemm.                                 *)
(***************************************************************************)

Rects == Nat \X Nat \X Nat \X Nat
Postures == [call : Nat \ {0}, panel : Nat, job : Nat,
             stage : {"enter", "gather", "work", "leave", "tiled", "pack", "out"}, stack : Seq(Rects)]

\* The element belongs to C, not to the margin.
InProduct(e) == e[2] < product.n

-----------------------------------------------------------------------------
\* How far a thread has come, and how far it knows all others to have come.
Position(calls, t) == CASE t.stage = "enter"  -> 4 * t.call + 1
                     [] t.stage = "gather" -> 4 * t.call + 2
                     [] t.stage = "work"   -> 4 * t.call + 3
                     [] t.stage = "leave"  -> 4 * t.call + 4
                     [] OTHER              -> 4 * calls + 4
Floor(calls, t) == CASE t.stage \in {"enter", "gather"} -> 4 * t.call
                     [] t.stage \in {"work", "leave"}   -> 4 * t.call + 2
                     [] OTHER                           -> 4 * calls + 4
Barriers == \A w, v \in Threads : Position(product.calls, threads[v]) >= Floor(product.calls, threads[w])

\* The chunk counter of call q, also before thread 0 sets it.
Counter(q) == IF threads[0].call = q /\ threads[0].stage # "enter" THEN chunk ELSE product.nth
\* Thread w has not looked for its last job in call q yet.
Busy(w, q) == /\ threads[w].stage # "out"
              /\ threads[w].call < q \/ (threads[w].call = q /\ threads[w].stage # "leave")
\* Job j of call q is still to do.
Pending(q, j) == \E w \in Threads : Busy(w, q) /\ (threads[w].call < q \/ threads[w].job = j \/ j >= Counter(q))

JobIs(p, j, e) == \A k \in 0 .. NbJob(p) - 1 : TimesInJob(p, k, e) = IF k = j THEN 1 ELSE 0
JobOf(p, e) == CHOOSE j \in 0 .. NbJob(p) - 1 : JobIs(p, j, e)

Jobs ==
    \A w \in Threads :
        LET t == threads[w]
        IN  /\ t.stage \in {"enter", "gather", "work", "leave", "out"} /\ t.call <= product.calls
            /\ t.stage \in {"enter", "gather"} => t.job = w
            /\ t.stage \in {"enter", "gather", "work"} => t.job < Counter(t.call)
            /\ \A v \in Threads \ {w} :
                 {t.stage, threads[v].stage} \subseteq {"enter", "gather", "work"} /\ t.call = threads[v].call
                    => t.job # threads[v].job
Counting ==
    /\ threads[0].stage # "enter" => chunk >= product.nth
    /\ threads[0].stage = "gather" /\ (\A v \in Threads : threads[v].call = threads[0].call => threads[v].stage \in {"enter", "gather"})
         => chunk = product.nth
JobsCounted ==
    \A q \in 1 .. product.calls : \A e \in Elements(product) :
        c[q][e] = IF InProduct(e) /\ ~ Pending(q, JobOf(product, e)) THEN product.panels ELSE 0
ChunkInv == Barriers /\ Jobs /\ Counting /\ JobsCounted

-----------------------------------------------------------------------------
Inside(r, e) == e[1] \in r[1] .. r[2] - 1 /\ e[2] \in r[3] .. r[4] - 1
InCut(p, r, e) == Inside(r, e) /\ e[1] < RowCut(p, r) /\ e[2] < ColCut(p, r)
Onward(p, r, e) == IF e[2] < ColCut(p, r) THEN Below(p, r) ELSE Beside(p, r)
Leads(p, e, r, s) == \A C \in SUBSET Rects :
    r \in C /\ (\A x \in C : InCut(p, x, e) \/ Onward(p, x, e) \in C) => s \in C
SaverOf(p, r, e) ==
    LET tile == Shape(p, r)
        ytiles == (r[2] - r[1]) \div tile[1]  xtiles == (r[4] - r[3]) \div tile[2]
        y == (e[1] - r[1]) \div tile[1]       x == (e[2] - r[3]) \div tile[2]
    IN  (y * xtiles + x) \div Duty(p, xtiles * ytiles)
Savers(p, r, e) == {SaverOf(p, s, e) : s \in {x \in Rects : Leads(p, e, r, x) /\ InCut(p, x, e)}}

TiledBase(p) == IF Tiled(p) THEN TileColumns(p) ELSE 0
Root(p) == <<0, p.m, TiledBase(p), p.n>>
\* The stack of a thread still holds the element.
OnStack(s, e) == \E i \in DOMAIN s : Inside(s[i], e)
Waiting(w, e) == OnStack(threads[w].stack, e)

\* What the shapes of the 16-bit PowerPC product leave out does not come up.
HpFits(p, r) == p.family = "HP16_PPC" /\ r[2] - r[1] < 4 => (r[4] - r[3]) % 8 \notin 5 .. 7
Fits(p, r) == /\ r \in Rects /\ r[1] <= r[2] /\ r[2] <= p.m /\ TiledBase(p) <= r[3] /\ r[3] <= r[4] /\ r[4] <= p.n
              /\ HpFits(p, r)
StackOk(p, s) ==
    /\ s \in Seq(Rects)
    /\ \A i \in DOMAIN s : /\ Fits(p, s[i]) /\ Cuttable(p, s[i])
                           /\ \A e \in Elements(p) : Inside(s[i], e) => Savers(p, s[i], e) = Savers(p, Root(p), e)
    /\ \A i, j \in DOMAIN s : i # j => \A e \in Elements(p) : ~ (Inside(s[i], e) /\ Inside(s[j], e))
Cuts == \A w \in Threads : StackOk(product, threads[w].stack)
Found ==
    \A w \in Threads, e \in Elements(product) :
        Inside(Root(product), e) /\ ~ Waiting(w, e) =>
          \E v \in Threads : Savers(product, Root(product), e) = {v}
TileIs(p, j, e) == \A k \in 0 .. TileCount(p) - 1 : TimesInTile(p, k, e) = IF k = j THEN 1 ELSE 0
TileOf(p, e) == CHOOSE j \in 0 .. TileCount(p) - 1 : TileIs(p, j, e)
TileOwner(p, e) == TileOf(p, e) \div Duty(p, TileCount(p))
\* The panels of tile j that a thread has done.
PanelsDone(panels, t, j) == IF t.stage # "tiled" \/ t.job > j THEN panels ELSE IF t.job = j THEN t.panel ELSE 0
InTurn ==
    \A w \in Threads :
        LET t == threads[w]
            first == Duty(product, TileCount(product)) * w
        IN  /\ t.call = 1 /\ t.stage \in {"tiled", "pack", "out"} /\ t.panel < product.panels
            /\ t.stage = "tiled" => /\ Tiled(product) /\ t.job >= first
                                    /\ t.job = first \/ t.job - 1 \in TileSlice(product, w)
                                    /\ t.panel = 0 \/ t.job \in TileSlice(product, w)
            /\ t.stage = "out" => t.stack = << >>
PacksCounted ==
    \A e \in Elements(product) :
        c[1][e] = IF ~ InProduct(e) THEN 0
                  ELSE IF e[2] < TiledBase(product)
                       THEN PanelsDone(product.panels, threads[TileOwner(product, e)], TileOf(product, e))
                  ELSE IF \E v \in Threads : v \in Savers(product, Root(product), e) /\ ~ Waiting(v, e)
                       THEN product.panels ELSE 0
PackInv == Cuts /\ Found /\ InTurn /\ PacksCounted

-----------------------------------------------------------------------------
\* Arithmetic of the splits.

\* How far a rounded up quotient exceeds the exact one.
LEMMA CeilDivIs ==
    ASSUME NEW a \in Nat, NEW b \in Nat \ {0}
    PROVE  /\ CeilDiv(a, b) \in Nat /\ a <= CeilDiv(a, b) * b /\ CeilDiv(a, b) * b < a + b
           /\ a > 0 => CeilDiv(a, b) > 0
<1> DEFINE x == a + b - 1
           q == x \div b
<1>1. x \in Nat /\ x = (a + b) - 1
  OBVIOUS
<1>2. q \in Nat /\ x % b \in Nat /\ x % b < b /\ b * q \in Nat /\ x = b * q + (x % b)
  <2> HIDE DEF x
  <2>. QED BY <1>1, DivMod
<1>3. b * q = q * b /\ (q = 0 => b * q = 0)
  <2> HIDE DEF q
  <2>. QED BY <1>2, ProductFacts
<1>4. CeilDiv(a, b) = q
  BY DEF CeilDiv
<1> HIDE DEF q, x
<1>5. a <= b * q /\ b * q < a + b /\ (a > 0 => b * q > 0)
  BY <1>1, <1>2
<1>. QED BY <1>2, <1>3, <1>4, <1>5

\* Nothing is rounded where the division is exact.
LEMMA CeilDivExact ==
    ASSUME NEW k \in Nat, NEW b \in Nat \ {0}
    PROVE  CeilDiv(k * b, b) = k
<1>1. k * b \in Nat /\ b * k \in Nat /\ k * b = b * k
  BY ProductFacts
<1> DEFINE x == k * b
<1>2. (x + b) - 1 \in Nat /\ (x + b) - 1 = b * k + (b - 1) /\ b - 1 \in Nat /\ b - 1 < b
  <2> DEFINE y == b * k
  <2>1. x = y /\ y \in Nat
    BY <1>1
  <2> HIDE DEF x, y
  <2>2. (x + b) - 1 = y + (b - 1)
    BY <2>1
  <2>. QED BY <2>1, <2>2 DEF y
<1>3. ((x + b) - 1) \div b = k
  <2> DEFINE a == (x + b) - 1
             r == b - 1
  <2>1. a \in Nat /\ a = b * k + r /\ r \in Nat /\ r < b
    BY <1>2
  <2>2. a \div b = k
    <3> HIDE DEF a, r
    <3>. QED BY <2>1, DivModUnique
  <2>. QED BY <2>2
<1>. QED BY <1>3 DEF CeilDiv

\* n in parts of size and size - 1: so many of the first.
LEMMA EvenSplit ==
    ASSUME NEW t \in Nat \ {0}, NEW parts \in Nat \ {0}, NEW size \in Nat,
           t <= parts * size, parts * size < t + parts
    PROVE  LET J == parts - (parts * size - t)
           IN  /\ size > 0 /\ J \in 1 .. parts
               /\ J * size + (parts - J) * (size - 1) = t
<1> DEFINE x == parts * size
           J == parts - (x - t)
<1>1. x \in Nat /\ (size = 0 => x = 0) /\ t <= x /\ x < t + parts
  BY ProductFacts
<1>2. size > 0 /\ J \in 1 .. parts
  <2> HIDE DEF x
  <2>. QED BY <1>1
<1>3. J * size + (parts - J) * (size - 1) = t
  <2> DEFINE y == J * size
             z == (parts - J) * size
  <2>1. y + z = x
    <3>1. \A a, b \in Nat : a * size + b * size = (a + b) * size
      OBVIOUS
    <3>2. J \in Nat /\ parts - J \in Nat /\ J + (parts - J) = parts
      <4> HIDE DEF x
      <4>. QED BY <1>2, <1>1
    <3> HIDE DEF J
    <3>. QED BY <3>1, <3>2
  <2>2. (parts - J) * (size - 1) = z - (parts - J)
    <3>1. \A a \in Nat : a * (size - 1) = a * size - a
      BY <1>2
    <3>2. parts - J \in Nat
      <4> HIDE DEF x
      <4>. QED BY <1>2, <1>1
    <3> HIDE DEF J
    <3>. QED BY <3>1, <3>2
  <2>3. y \in Nat /\ z \in Nat
    <3>1. J \in Nat /\ parts - J \in Nat
      <4> HIDE DEF x
      <4>. QED BY <1>2, <1>1
    <3> HIDE DEF J
    <3>. QED BY <3>1, ProductFacts
  <2>4. parts - J = x - t
    <3> HIDE DEF x
    <3>. QED BY <1>1
  <2> HIDE DEF y, z
  <2>. QED BY <2>1, <2>2, <2>3, <2>4, <1>1 DEF y
<1>. QED BY <1>2, <1>3

\* Where the parts begin.
LEMMA BlocPosIs ==
    ASSUME NEW parts \in Nat \ {0}, NEW J \in 0 .. parts, NEW size \in Nat \ {0}
    PROVE  /\ BlocPos(0, J, size) = 0
           /\ BlocPos(parts, J, size) = J * size + (parts - J) * (size - 1)
           /\ \A i, k \in Nat : i <= k =>
                 /\ BlocPos(i, J, size) \in Nat /\ BlocPos(i, J, size) <= BlocPos(k, J, size)
<1>1. BlocPos(0, J, size) = 0
  BY DEF BlocPos
<1>2. BlocPos(parts, J, size) = J * size + (parts - J) * (size - 1)
  <2>1. parts < J \/ parts >= J
    OBVIOUS
  <2>2. parts >= J
    OBVIOUS
  <2>. QED BY <2>2 DEF BlocPos
<1>3. ASSUME NEW i \in Nat, NEW k \in Nat, i <= k
      PROVE  BlocPos(i, J, size) \in Nat /\ BlocPos(i, J, size) <= BlocPos(k, J, size)
  <2>1. CASE k < J
    <3>1. i * size \in Nat /\ i * size <= k * size
      BY <1>3, ProductMonotone
    <3>. QED BY <1>3, <2>1, <3>1 DEF BlocPos
  <2>2. CASE i < J /\ k >= J
    <3>1. i * size \in Nat /\ i * size <= J * size /\ J * size \in Nat
      BY <2>2, ProductMonotone
    <3>2. (k - J) * (size - 1) \in Nat
      <4>1. k - J \in Nat /\ size - 1 \in Nat
        BY <2>2
      <4>. QED BY <4>1, ProductFacts
    <3> DEFINE a == i * size
               b == J * size
               d == (k - J) * (size - 1)
    <3>3. BlocPos(i, J, size) = a /\ BlocPos(k, J, size) = b + d
      BY <1>3, <2>2 DEF BlocPos
    <3> HIDE DEF a, b, d
    <3>4. a \in Nat /\ b \in Nat /\ d \in Nat /\ a <= b
      BY <3>1, <3>2 DEF a, b, d
    <3>. QED BY <3>3, <3>4
  <2>3. CASE i >= J
    <3>1. (i - J) * (size - 1) \in Nat /\ (i - J) * (size - 1) <= (k - J) * (size - 1) /\ (k - J) * (size - 1) \in Nat
      <4>1. i - J \in Nat /\ k - J \in Nat /\ size - 1 \in Nat /\ i - J <= k - J
        BY <1>3, <2>3
      <4>. QED BY <4>1, ProductMonotone
    <3>2. J * size \in Nat
      BY ProductFacts
    <3> DEFINE a == (i - J) * (size - 1)
               b == J * size
               d == (k - J) * (size - 1)
    <3>3. BlocPos(i, J, size) = b + a /\ BlocPos(k, J, size) = b + d
      BY <1>3, <2>3 DEF BlocPos
    <3> HIDE DEF a, b, d
    <3>4. a \in Nat /\ b \in Nat /\ d \in Nat /\ a <= d
      BY <3>1, <3>2 DEF a, b, d
    <3>. QED BY <3>3, <3>4
  <2>. QED BY <1>3, <2>1, <2>2, <2>3
<1>. QED BY <1>1, <1>2, <1>3

\* Tiles of one width side by side.
LEMMA StripIs ==
    ASSUME NEW base \in Nat, NEW w \in Nat \ {0}, NEW k \in Nat, NEW x \in Nat
    PROVE  /\ \A y \in 0 .. k - 1 : x \in base + y * w .. base + y * w + w - 1
                 => base <= x /\ x < base + k * w /\ y = (x - base) \div w
           /\ base <= x /\ x < base + k * w
                 => LET y == (x - base) \div w IN y \in 0 .. k - 1 /\ x \in base + y * w .. base + y * w + w - 1
<1>1. ASSUME NEW y \in 0 .. k - 1, x \in base + y * w .. base + y * w + w - 1
      PROVE  base <= x /\ x < base + k * w /\ y = (x - base) \div w
  <2> DEFINE a == y * w
             b == k * w
             r == x - (base + a)
  <2>1. a \in Nat /\ b \in Nat /\ a + w <= b /\ a = w * y
    <3>1. y \in Nat /\ y + 1 \in Nat /\ y + 1 <= k
      BY <1>1
    <3>2. (y + 1) * w = a + w /\ a \in Nat /\ a = w * y
      BY <3>1, ProductFacts
    <3>3. (y + 1) * w <= k * w /\ k * w \in Nat
      BY <3>1, ProductMonotone
    <3>. QED BY <3>2, <3>3
  <2>2. x >= base + a /\ x <= base + a + w - 1
    <3> HIDE DEF a
    <3>. QED BY <1>1, <2>1 DEF a
  <2>3. base <= x /\ x < base + b /\ r \in Nat /\ r < w /\ x - base = a + r /\ x - base \in Nat
    <3> HIDE DEF a, b
    <3>. QED BY <2>1, <2>2
  <2>4. (x - base) \div w = y
    <3> DEFINE z == x - base
    <3>1. z \in Nat /\ z = w * y + r
      BY <2>1, <2>3
    <3> HIDE DEF z, r, a
    <3>. QED BY <3>1, <2>3, DivModUnique DEF z
  <2>. QED BY <2>3, <2>4
<1>2. ASSUME base <= x, x < base + k * w
      PROVE  LET y == (x - base) \div w IN y \in 0 .. k - 1 /\ x \in base + y * w .. base + y * w + w - 1
  <2> DEFINE z == x - base
             y == z \div w
             a == y * w
             b == k * w
  <2>1. z \in Nat /\ z < b /\ b \in Nat
    <3>1. b \in Nat
      BY ProductFacts
    <3> HIDE DEF b
    <3>. QED BY <1>2, <3>1 DEF b
  <2>2. y \in Nat /\ z % w \in Nat /\ z % w < w /\ z = w * y + (z % w)
    <3> HIDE DEF z
    <3>. QED BY <2>1, DivMod
  <2>3. a = w * y /\ a \in Nat
    <3> HIDE DEF y
    <3>. QED BY <2>2, ProductFacts
  <2>4. y < k
    <3>1. y >= k => b <= a
      <4> HIDE DEF y
      <4>. QED BY <2>2, ProductMonotone
    <3> HIDE DEF a, b, y, z
    <3>. QED BY <3>1, <2>1, <2>2, <2>3
  <2>5. x >= base + a /\ x <= base + a + w - 1
    <3>1. x = base + z
      OBVIOUS
    <3> HIDE DEF a, z, y
    <3>. QED BY <3>1, <2>1, <2>2, <2>3
  <2>6. x \in base + a .. base + a + w - 1
    <3> HIDE DEF a
    <3>. QED BY <2>3, <2>5
  <2>7. y \in 0 .. k - 1
    <3> HIDE DEF y
    <3>. QED BY <2>2, <2>4
  <2>. QED BY <2>6, <2>7
<1>. QED BY <1>1, <1>2

\* The fields of a request.
LEMMA ProductIs ==
    ASSUME NEW p \in Products
    PROVE  /\ p.family \in Families /\ p.m \in Nat /\ p.n \in Nat /\ p.nth \in Nat \ {0}
           /\ p.calls \in Nat \ {0} /\ p.panels \in Nat \ {0} /\ p.least \in {2, 4, 8}
           /\ p.aligned \in BOOLEAN /\ p.whole \in BOOLEAN
           /\ p.calls = 1 \/ Chunked(p)
<1> HIDE DEF Families
<1>. QED BY ProductsAssumption

\* The tile rows and block sizes of the float classes.
LEMMA BlockingIs ==
    ASSUME NEW p \in Products, Chunked(p), Serves(p)
    PROVE  LET rows == BlockingOf(p).RM * BM(p)
           IN  /\ p.n >= 2 /\ BlockingOf(p).RN \in {2, 3, 6} /\ BlockingOf(p).BN \in Nat \ {0}
               /\ rows \in Nat \ {0} /\ YTiles(p) \in Nat /\ p.m = rows * YTiles(p)
<1>2. p.family \in {"regs32", "regs16", "lmul1", "lmul2", "lmul4"}
  BY DEF Chunked, Blocking, BlockingRvv
<1>1. p.n >= 2 /\ p.m % 4 = 0 /\ p.m \in Nat /\ p.n \in Nat /\ p.nth \in Nat \ {0}
  <2>3. p.n >= p.least /\ p.m % 4 = 0
    BY <1>2 DEF Serves
  <2>4. p.least \in {2, 4, 8} /\ p.n \in Nat
    BY ProductIs
  <2>1. p.n >= 2 /\ p.m % 4 = 0
    BY <2>3, <2>4
  <2>2. p.m \in Nat /\ p.n \in Nat /\ p.nth \in Nat \ {0}
    BY ProductIs
  <2>. QED BY <2>1, <2>2
<1> DEFINE blk == BlockingOf(p)
           idx == IF p.m % 16 = 0 /\ p.m \div 16 >= p.nth THEN 1 ELSE IF p.m % 8 = 0 THEN 2 ELSE 3
<1>3. \/ blk = [RM |-> 4, RN |-> 6, BM |-> <<4, 2, 1>>, BN |-> 12]
      \/ blk = [RM |-> 4, RN |-> 3, BM |-> <<4, 2, 1>>, BN |-> 24]
      \/ blk = [RM |-> 2, RN |-> 2, BM |-> <<8, 4, 2>>, BN |-> 36]
  BY <1>2 DEF BlockingOf, Blocking, BlockingRvv
<1>4. /\ blk.RN \in {2, 3, 6} /\ blk.BN \in Nat \ {0}
      /\ \/ blk.RM = 4 /\ blk.BM = <<4, 2, 1>>
         \/ blk.RM = 2 /\ blk.BM = <<8, 4, 2>>
  BY <1>3
<1>5. BM(p) = blk.BM[idx]
  BY DEF BM
<1>6. blk.RM * BM(p) = IF idx = 1 THEN 16 ELSE IF idx = 2 THEN 8 ELSE 4
  <2>1. idx \in {1, 2, 3}
    OBVIOUS
  <2> HIDE DEF idx, blk
  <2>2. CASE blk.RM = 4 /\ blk.BM = <<4, 2, 1>>
    BY <2>1, <2>2, <1>5 DEF blk
  <2>3. CASE blk.RM = 2 /\ blk.BM = <<8, 4, 2>>
    BY <2>1, <2>3, <1>5 DEF blk
  <2>. QED BY <2>2, <2>3, <1>4
<1> DEFINE rows == blk.RM * BM(p)
<1>7. rows \in {4, 8, 16} /\ p.m % rows = 0
  BY <1>1, <1>6
<1>8. YTiles(p) = p.m \div rows
  BY DEF YTiles
<1> HIDE DEF rows
<1>9. YTiles(p) \in Nat /\ p.m = rows * YTiles(p)
  <2> DEFINE y == p.m \div rows
  <2>1. y \in Nat /\ p.m = rows * y + (p.m % rows) /\ rows * y \in Nat
    <3> DEFINE m == p.m
    <3>1. m \in Nat /\ rows \in Nat \ {0}
      BY <1>1, <1>7
    <3> HIDE DEF m
    <3>2. m \div rows \in Nat /\ m = rows * (m \div rows) + (m % rows) /\ rows * (m \div rows) \in Nat
      BY <3>1, DivMod
    <3>. QED BY <3>2 DEF m
  <2> DEFINE z == rows * y
  <2>2. p.m = z
    <3> HIDE DEF z, y
    <3>. QED BY <2>1, <1>7, <1>1 DEF z
  <2>. QED BY <2>1, <2>2, <1>8
<1>. QED BY <1>1, <1>4, <1>7, <1>9 DEF rows

\* The tiles of RN and RN - 1 columns come out even.
LEMMA ColumnTiles ==
    ASSUME NEW p \in Products, Chunked(p), Serves(p)
    PROVE  /\ RN(p) \in Nat /\ RN(p) >= 2 /\ XTiles(p) \in Nat \ {0} /\ JJ_RN(p) \in 1 .. XTiles(p)
           /\ JJ_RN(p) * RN(p) + (XTiles(p) - JJ_RN(p)) * (RN(p) - 1) = p.n
<1> DEFINE M == BlockingOf(p).RN
           n == p.n
           N == CeilDiv(n, M)
           q == n \div N
           rest == n % N
           r == RN(p)
           X == XTiles(p)
<1>1. n \in Nat /\ n >= 2 /\ M \in {2, 3, 6}
  BY BlockingIs, ProductIs
<1>2. N \in Nat \ {0} /\ n <= N * M /\ N * M < n + M
  <2> HIDE DEF n, M
  <2>. QED BY <1>1, CeilDivIs
<1>3. r = IF rest = 0 THEN q ELSE q + 1
  BY DEF RN, BlockSize
<1>4. q \in Nat /\ rest \in Nat /\ rest < N /\ N * q \in Nat /\ n = N * q + rest
  <2> HIDE DEF n, N
  <2>. QED BY <1>1, <1>2, DivMod
<1>5. X = CeilDiv(n, r)
  BY DEF XTiles
<1> HIDE DEF n, M, N, q, rest, r, X
<1>6. r \in Nat /\ N * r \in Nat /\ n <= N * r /\ N * r < n + N
  <2>1. N * (q + 1) = N * q + N
    BY <1>2, <1>4, ProductFacts
  <2> DEFINE z == N * q
             y == N * (q + 1)
  <2>2. y = z + N /\ z \in Nat /\ n = z + rest
    BY <2>1, <1>4
  <2>3. N * r = IF rest = 0 THEN z ELSE y
    BY <1>3
  <2> HIDE DEF y, z
  <2>. QED BY <2>2, <2>3, <1>1, <1>2, <1>3, <1>4
<1>7. r >= 2
  <2> SUFFICES ASSUME r < 2 PROVE FALSE
    BY <1>6
  <2>1. r = 0 \/ r = 1
    BY <1>6
  <2>2. n <= N
    BY <2>1, <1>2, <1>6, <1>1
  <2>. QED BY <2>2, <1>1, <1>2
<1>8. r <= M
  <2> SUFFICES ASSUME M + 1 <= r PROVE FALSE
    BY <1>1, <1>6
  <2>1. (M + 1) * N <= r * N /\ (M + 1) * N = M * N + N
    BY <1>1, <1>2, <1>6, ProductMonotone, ProductFacts
  <2>2. r * N = N * r /\ M * N = N * M /\ M * N \in Nat
    BY <1>1, <1>2, <1>6, ProductFacts
  <2> DEFINE a == (M + 1) * N
             b == M * N
             d == N * r
  <2>3. a <= d /\ a = b + N /\ n <= b /\ d < n + N /\ b \in Nat /\ d \in Nat
    BY <2>1, <2>2, <1>2, <1>6
  <2> HIDE DEF a, b, d
  <2>. QED BY <2>3, <1>1, <1>2
<1>9. X = N
  <2>1. X \in Nat /\ n <= X * r /\ X * r < n + r /\ X * r \in Nat
    <3>1. r \in Nat \ {0}
      BY <1>6, <1>7
    <3>2. X \in Nat /\ n <= X * r /\ X * r < n + r
      BY <1>1, <1>5, <3>1, CeilDivIs
    <3>. QED BY <3>1, <3>2, ProductFacts
  <2>2. CASE X > N
    <3>1. (N + 1) * r <= X * r /\ (N + 1) * r = N * r + r
      BY <2>1, <2>2, <1>2, <1>6, ProductMonotone, ProductFacts
    <3> DEFINE a == X * r
               b == N * r
               d == (N + 1) * r
    <3>2. d <= a /\ d = b + r /\ n <= b /\ a < n + r /\ a \in Nat /\ b \in Nat
      BY <3>1, <2>1, <1>6
    <3> HIDE DEF a, b, d
    <3>. QED BY <3>2, <1>1, <1>6
  <2>3. CASE X < N
    <3> DEFINE k == N - 1
    <3>1. k \in Nat /\ N = k + 1 /\ X <= k
      BY <2>1, <2>3, <1>2
    <3> HIDE DEF k
    <3>2. X * r <= k * r /\ k * r \in Nat
      BY <3>1, <2>1, <1>6, ProductMonotone
    <3>3. r * k <= M * k /\ r * k = k * r /\ M * k \in Nat
      BY <3>1, <1>1, <1>6, <1>8, ProductMonotone, ProductFacts
    <3>4. N * M = M * k + M
      <4>1. (k + 1) * M = k * M + M /\ k * M = M * k
        BY <3>1, <1>1, ProductFacts
      <4>. QED BY <4>1, <3>1
    <3> DEFINE a == X * r
               b == k * r
               d == M * k
               f == N * M
    <3>5. a <= b /\ b <= d /\ f = d + M /\ f < n + M /\ n <= a /\ a \in Nat /\ b \in Nat /\ d \in Nat
      BY <3>2, <3>3, <3>4, <2>1, <1>2
    <3> HIDE DEF a, b, d, f
    <3>. QED BY <3>5, <1>1
  <2>. QED BY <2>1, <2>2, <2>3, <1>2
<1>10. LET J == N - (N * r - n)
       IN  J \in 1 .. N /\ J * r + (N - J) * (r - 1) = n
  BY <1>1, <1>2, <1>6, EvenSplit
<1>11. JJ_RN(p) = N - (N * r - n)
  BY <1>9 DEF JJ_RN, X, r, n
<1>12. X \in Nat \ {0} /\ JJ_RN(p) \in 1 .. X /\ JJ_RN(p) * r + (X - JJ_RN(p)) * (r - 1) = n
  BY <1>9, <1>10, <1>11, <1>2
<1>. QED BY <1>6, <1>7, <1>12 DEF X, r, n

\* So do the blocks of tiles.
LEMMA TileBlocks ==
    ASSUME NEW p \in Products, Chunked(p), Serves(p)
    PROVE  /\ NB_BN(p) \in Nat \ {0} /\ SizeBN(p) \in Nat \ {0} /\ JJ_BN(p) \in 1 .. NB_BN(p)
           /\ JJ_BN(p) * SizeBN(p) + (NB_BN(p) - JJ_BN(p)) * (SizeBN(p) - 1) = XTiles(p)
<1> DEFINE X == XTiles(p)
           N == NB_BN(p)
           blk == BlockingOf(p).BN
           size == SizeBN(p)
<1>1. X \in Nat \ {0} /\ blk \in Nat \ {0}
  BY ColumnTiles, BlockingIs
<1>2. N = IF X < blk THEN 1 ELSE (X + blk \div 2) \div blk
  BY DEF NB_BN
<1>3. size = CeilDiv(X, N) /\ JJ_BN(p) = N - (N * size - X)
  BY DEF SizeBN, JJ_BN
<1> HIDE DEF X, N, blk, size
<1>4. N \in Nat \ {0}
  <2>1. CASE X < blk
    BY <1>2, <2>1
  <2>2. CASE ~ (X < blk)
    <3>1. blk \div 2 \in Nat
      BY <1>1
    <3> DEFINE y == X + blk \div 2
    <3>2. y \in Nat /\ blk <= y
      BY <3>1, <2>2, <1>1
    <3>3. N = y \div blk
      BY <1>2, <2>2
    <3> HIDE DEF y
    <3>4. y \div blk \in Nat /\ blk \div blk <= y \div blk
      BY <3>2, <1>1, DivMod, DivMonotone
    <3>5. blk \div blk = 1
      BY <1>1, DivModUnique, blk = blk * 1 + 0
    <3>. QED BY <3>3, <3>4, <3>5
  <2>. QED BY <2>1, <2>2
<1>5. size \in Nat /\ X <= N * size /\ N * size < X + N
  <2>1. size \in Nat /\ X <= size * N /\ size * N < X + N
    BY <1>1, <1>3, <1>4, CeilDivIs
  <2>2. size * N = N * size
    BY <2>1, <1>4, ProductFacts
  <2>. QED BY <2>1, <2>2
<1>6. LET J == N - (N * size - X)
      IN  size > 0 /\ J \in 1 .. N /\ J * size + (N - J) * (size - 1) = X
  BY <1>1, <1>4, <1>5, EvenSplit
<1>. QED BY <1>3, <1>4, <1>5, <1>6 DEF X, N, size

\* A difference of multiples.
LEMMA DifferenceTimes ==
    ASSUME NEW a \in Nat, NEW b \in Nat, NEW k \in Nat, a <= b
    PROVE  b - a \in Nat /\ (b - a) * k \in Nat /\ (b - a) * k + a * k = b * k
<1>1. b - a \in Nat
  OBVIOUS
<1>2. \A x, y \in Nat : x * k + y * k = (x + y) * k
  OBVIOUS
<1>3. (b - a) + a = b
  OBVIOUS
<1> DEFINE d == b - a
<1>4. d * k \in Nat /\ d * k + a * k = (d + a) * k
  <2> HIDE DEF d
  <2>. QED BY <1>1, <1>2, ProductFacts DEF d
<1>. QED BY <1>1, <1>3, <1>4

\* The loops over the tiles of a job end at its last column, as the assertion
\* after them says.
LEMMA LoopsMeet ==
    ASSUME NEW J \in Nat, NEW r \in Nat, r >= 2, NEW b0 \in Nat, NEW b1 \in Nat, b0 <= b1
    PROVE  LET jj0 == BlocPos(b0, J, r)
               jj2 == BlocPos(b1, J, r)
               jj1 == Least(jj2, J * r)
               wide   == IF jj0 < jj1 THEN CeilDiv(jj1 - jj0, r) ELSE 0
               start  == jj0 + wide * r
               narrow == IF r > 1 /\ start < jj2 THEN CeilDiv(jj2 - start, r - 1) ELSE 0
           IN  /\ jj0 \in Nat /\ wide \in Nat /\ narrow \in Nat
               /\ jj2 = start + narrow * (r - 1)
<1> DEFINE jj0 == BlocPos(b0, J, r)
           jj2 == BlocPos(b1, J, r)
           top == J * r
           s == r - 1
           jj1 == Least(jj2, top)
           wide   == IF jj0 < jj1 THEN CeilDiv(jj1 - jj0, r) ELSE 0
           start  == jj0 + wide * r
           narrow == IF r > 1 /\ start < jj2 THEN CeilDiv(jj2 - start, s) ELSE 0
<1>1. s \in Nat \ {0} /\ r \in Nat \ {0} /\ top \in Nat
  BY ProductFacts
<1>2. 0 * r = 0 /\ 0 * s = 0
  BY <1>1
<1>3. CASE b1 <= J
  <2> DEFINE k == b1 - b0
             w == k * r
             x == b0 * r
             y == b1 * r
  <2>1. k \in Nat /\ w \in Nat /\ w + x = y /\ x \in Nat /\ y \in Nat /\ y <= top
    BY <1>3, DifferenceTimes, ProductMonotone, ProductFacts
  <2>2. jj0 = x /\ jj2 = y
    <3>1. b1 = J => jj2 = y
      <4>1. (J - J) * s = 0
        BY <1>2
      <4>2. b1 = J => jj2 = y + (J - J) * s
        BY DEF BlocPos
      <4> HIDE DEF jj2, y, s
      <4>. QED BY <4>1, <4>2, <2>1
    <3>2. b1 < J => jj2 = y
      BY DEF BlocPos
    <3>3. b0 = J => jj0 = x
      <4>1. (J - J) * s = 0
        BY <1>2
      <4>2. b0 = J => jj0 = x + (J - J) * s
        BY DEF BlocPos
      <4> HIDE DEF jj0, x, s
      <4>. QED BY <4>1, <4>2, <2>1
    <3>4. b0 < J => jj0 = x
      BY DEF BlocPos
    <3>. QED BY <3>1, <3>2, <3>3, <3>4, <1>3
  <2>3. CeilDiv(w, r) = k
    <3> HIDE DEF k
    <3>. QED BY <2>1, <1>1, CeilDivExact
  <2> HIDE DEF x, y, jj0, jj2, top, w, k
  <2>4. jj1 = jj2
    BY <2>1, <2>2, <1>1 DEF Least
  <2> HIDE DEF jj1
  <2>5. jj1 - jj0 = w /\ (jj0 < jj1 => wide = k) /\ (~ (jj0 < jj1) => wide = 0 /\ w = 0)
    <3>1. jj1 - jj0 = w /\ (~ (jj0 < jj1) => w = 0)
      BY <2>1, <2>2, <2>4
    <3>. QED BY <3>1, <2>3
  <2>6. wide \in Nat /\ wide * r = w
    <3>1. k * r = w
      BY DEF w
    <3>2. wide = k \/ (wide = 0 /\ w = 0)
      BY <2>5
    <3> HIDE DEF wide
    <3>. QED BY <3>1, <3>2, <1>2, <2>1
  <2>7. start = jj2 /\ jj2 \in Nat
    <3> DEFINE z == wide * r
    <3>1. start = jj0 + z /\ z = w
      BY <2>6
    <3> HIDE DEF start, z
    <3>. QED BY <3>1, <2>1, <2>2
  <2>8. narrow = 0
    <3> HIDE DEF start
    <3>. QED BY <2>7
  <2> HIDE DEF narrow, start, wide
  <2>9. jj0 \in Nat /\ narrow * s = 0
    BY <2>1, <2>2, <2>8, <1>2
  <2>10. jj2 = start + narrow * s
    <3> DEFINE z == narrow * s
    <3> HIDE DEF z
    <3>. QED BY <2>7, <2>9 DEF z
  <2>. QED BY <2>6, <2>8, <2>9, <2>10 DEF narrow, start, wide, jj0, jj1, jj2, top
<1>4. CASE b1 > J
  <2> DEFINE k == IF b0 < J THEN J - b0 ELSE 0
             h == IF b0 < J THEN b1 - J ELSE b1 - b0
             w == k * r
             x == jj0
             y == h * s
  <2>1. /\ k \in Nat /\ h \in Nat /\ w \in Nat /\ y \in Nat /\ x \in Nat
        /\ jj2 = x + w + y /\ jj2 >= top
        /\ b0 < J => x + w = top /\ k > 0
        /\ b0 >= J => x >= top /\ k = 0
    <3>1. jj2 = top + (b1 - J) * s /\ b1 - J \in Nat /\ (b1 - J) * s \in Nat
      <4>1. jj2 = top + (b1 - J) * s
        BY <1>4 DEF BlocPos
      <4>2. b1 - J \in Nat
        BY <1>4
      <4>. QED BY <4>1, <4>2, <1>1, ProductFacts
    <3>2. CASE b0 < J
      <4> DEFINE a == b0 * r
                 d == (b1 - J) * s
      <4>1. jj0 = a
        BY <3>2 DEF BlocPos
      <4>2. k = J - b0 /\ h = b1 - J
        BY <3>2
      <4>3. (J - b0) * r \in Nat /\ (J - b0) * r + a = top /\ J - b0 \in Nat /\ a \in Nat
        BY <3>2, DifferenceTimes, ProductFacts
      <4>4. w \in Nat /\ w + a = top /\ k \in Nat /\ k > 0 /\ h \in Nat /\ y = d /\ d \in Nat
        BY <4>2, <4>3, <3>1, <3>2
      <4>5. jj2 = top + d
        BY <3>1
      <4> HIDE DEF jj0, jj2, a, d, w, y, k, h, top
      <4>. QED BY <4>1, <4>3, <4>4, <4>5, <3>2, <1>1
    <3>3. CASE b0 >= J
      <4> DEFINE a == (b0 - J) * s
                 d == (b1 - J) * s
      <4>1. jj0 = top + a
        BY <3>3 DEF BlocPos
      <4>2. k = 0 /\ h = b1 - b0
        BY <3>3
      <4>3. b0 - J \in Nat /\ b1 - J \in Nat /\ b0 - J <= b1 - J /\ (b1 - J) - (b0 - J) = b1 - b0
        BY <3>3
      <4>4. (b1 - b0) * s \in Nat /\ (b1 - b0) * s + a = d /\ a \in Nat /\ b1 - b0 \in Nat
        <5> DEFINE u == b0 - J
                   v == b1 - J
        <5>1. u \in Nat /\ v \in Nat /\ u <= v /\ v - u = b1 - b0
          BY <4>3
        <5> HIDE DEF u, v
        <5>2. (v - u) * s \in Nat /\ (v - u) * s + u * s = v * s /\ u * s \in Nat /\ v - u \in Nat
          BY <5>1, <1>1, DifferenceTimes, ProductFacts
        <5>. QED BY <5>1, <5>2 DEF u, v
      <4>5. y \in Nat /\ y + a = d /\ w = 0
        BY <4>2, <4>4, <1>2
      <4>6. jj2 = top + d /\ h \in Nat
        BY <3>1, <4>2, <4>4
      <4> HIDE DEF jj0, jj2, a, d, w, y, k, h, top
      <4>. QED BY <4>1, <4>2, <4>4, <4>5, <4>6, <3>3, <1>1
    <3>. QED BY <3>2, <3>3
  <2>2. CeilDiv(w, r) = k /\ CeilDiv(y, s) = h
    <3> HIDE DEF k, h, s
    <3>. QED BY <2>1, <1>1, CeilDivExact
  <2>3. w = k * r /\ y = h * s /\ (y = 0 \/ h > 0)
    <3>1. h = 0 => y = 0
      BY <1>2
    <3> HIDE DEF h
    <3>. QED BY <3>1, <2>1
  <2>4. k > 0 => w > 0
    <3>1. 1 * r = r
      OBVIOUS
    <3>2. k > 0 => 1 * r <= k * r
      <4> HIDE DEF k
      <4>. QED BY <2>1, <1>1, ProductMonotone
    <3> HIDE DEF k, w, h, y
    <3>. QED BY <3>1, <3>2, <2>1, <2>3, <1>1
  <2> HIDE DEF jj0, jj2, top, w, k, h, y
  <2>5. jj1 = top
    BY <2>1, <1>1 DEF Least
  <2> HIDE DEF jj1
  <2>6. (jj0 < jj1 => jj1 - jj0 = w) /\ (~ (jj0 < jj1) => k = 0)
    <3>1. b0 < J \/ b0 >= J
      OBVIOUS
    <3>. QED BY <3>1, <2>1, <2>4, <2>5, <1>1
  <2>7. wide = k
    BY <2>2, <2>6
  <2> HIDE DEF wide
  <2>8. start = jj0 + w
    BY <2>3, <2>7
  <2> HIDE DEF start
  <2>9. start \in Nat /\ jj2 = start + y /\ jj2 - start = y /\ (start < jj2 <=> y > 0)
    BY <2>1, <2>8
  <2>10. CASE y > 0
    <3>1. narrow = h
      BY <2>2, <2>9, <2>10
    <3> HIDE DEF narrow
    <3>2. narrow * s = y
      BY <3>1, <2>3
    <3>3. jj0 \in Nat /\ wide \in Nat /\ narrow \in Nat /\ jj2 = start + narrow * s
      BY <3>1, <3>2, <2>1, <2>7, <2>9
    <3>. QED BY <3>3 DEF narrow, start, wide, jj0, jj1, jj2, top
  <2>11. CASE y = 0
    <3>1. narrow = 0
      BY <2>9, <2>11
    <3> HIDE DEF narrow
    <3>2. narrow * s = y
      BY <3>1, <2>11, <1>2
    <3>3. jj0 \in Nat /\ wide \in Nat /\ narrow \in Nat /\ jj2 = start + narrow * s
      BY <3>1, <3>2, <2>1, <2>7, <2>9
    <3>. QED BY <3>3 DEF narrow, start, wide, jj0, jj1, jj2, top
  <2>. QED BY <2>1, <2>10, <2>11
<1>. QED BY <1>3, <1>4

Strips(j0, r, wide, narrow) ==
    {<<j0 + y * r, r>> : y \in 0 .. wide - 1}
    \cup {<<j0 + wide * r + y * (r - 1), r - 1>> : y \in 0 .. narrow - 1}
AtColumn(tiles, x) == {tile \in tiles : x \in tile[1] .. tile[1] + tile[2] - 1}

\* Wide tiles followed by narrow ones hold each of their columns once.
LEMMA StripsOnce ==
    ASSUME NEW j0 \in Nat, NEW r \in Nat, r >= 2, NEW wide \in Nat, NEW narrow \in Nat, NEW x \in Nat
    PROVE  Cardinality(AtColumn(Strips(j0, r, wide, narrow), x))
             = IF j0 <= x /\ x < j0 + wide * r + narrow * (r - 1) THEN 1 ELSE 0
<1> DEFINE s == r - 1
           start == j0 + wide * r
           end == start + narrow * s
           Wide == {<<j0 + y * r, r>> : y \in 0 .. wide - 1}
           Narrow == {<<start + y * s, s>> : y \in 0 .. narrow - 1}
           Holds(tile) == x \in tile[1] .. tile[1] + tile[2] - 1
           T == AtColumn(Strips(j0, r, wide, narrow), x)
           a == (x - j0) \div r
           b == (x - start) \div s
<1>0. T = {tile \in Wide \cup Narrow : Holds(tile)}
  BY DEF AtColumn, Strips
<1> HIDE DEF T
<1>1. s \in Nat \ {0} /\ r \in Nat \ {0} /\ start \in Nat /\ end \in Nat /\ j0 <= start /\ start <= end
  <2>1. s \in Nat \ {0} /\ wide * r \in Nat /\ narrow * s \in Nat
    BY ProductFacts
  <2> DEFINE y == wide * r
             z == narrow * s
  <2>2. start = j0 + y /\ end = start + z
    OBVIOUS
  <2> HIDE DEF y, z, start, end
  <2>. QED BY <2>1, <2>2 DEF y, z
<1>2. ASSUME NEW tile \in Wide, Holds(tile) PROVE j0 <= x /\ x < start /\ tile = <<j0 + a * r, r>>
  <2>1. PICK y \in 0 .. wide - 1 : tile = <<j0 + y * r, r>>
    OBVIOUS
  <2>2. x \in j0 + y * r .. j0 + y * r + r - 1
    BY <2>1, <1>2
  <2>3. j0 <= x /\ x < j0 + wide * r /\ y = (x - j0) \div r
    BY <2>2, <1>1, StripIs
  <2>. QED BY <2>1, <2>3
<1>3. ASSUME NEW tile \in Narrow, Holds(tile) PROVE start <= x /\ x < end /\ tile = <<start + b * s, s>>
  <2> HIDE DEF s, start
  <2>1. PICK y \in 0 .. narrow - 1 : tile = <<start + y * s, s>>
    OBVIOUS
  <2>2. x \in start + y * s .. start + y * s + s - 1
    BY <2>1, <1>3
  <2>3. start <= x /\ x < start + narrow * s /\ y = (x - start) \div s
    BY <2>2, <1>1, StripIs
  <2>. QED BY <2>1, <2>3
<1>4. CASE j0 <= x /\ x < start
  <2>1. a \in 0 .. wide - 1 /\ x \in j0 + a * r .. j0 + a * r + r - 1
    BY <1>1, <1>4, StripIs
  <2>2. <<j0 + a * r, r>> \in Wide /\ Holds(<<j0 + a * r, r>>)
    <3> HIDE DEF a
    <3>. QED BY <2>1
  <2> HIDE DEF Wide, Narrow, a, b, Holds, start, end
  <2>3. T = {<<j0 + a * r, r>>}
    <3>1. \A tile \in T : tile = <<j0 + a * r, r>>
      <4>1. \A tile \in Narrow : ~ Holds(tile)
        BY <1>1, <1>3, <1>4
      <4>. QED BY <4>1, <1>0, <1>2
    <3>. QED BY <3>1, <2>2, <1>0
  <2>4. Cardinality(T) = 1
    BY <2>3, FS_Singleton
  <2>5. x < end
    BY <1>1, <1>4
  <2>. QED BY <2>4, <2>5, <1>4 DEF T, start, end
<1>5. CASE start <= x /\ x < end
  <2> HIDE DEF s, start
  <2>1. b \in 0 .. narrow - 1 /\ x \in start + b * s .. start + b * s + s - 1
    BY <1>1, <1>5, StripIs
  <2>2. <<start + b * s, s>> \in Narrow /\ Holds(<<start + b * s, s>>)
    <3> HIDE DEF b
    <3>. QED BY <2>1
  <2> HIDE DEF Wide, Narrow, a, b, Holds, end
  <2>3. T = {<<start + b * s, s>>}
    <3>1. \A tile \in T : tile = <<start + b * s, s>>
      <4>1. \A tile \in Wide : ~ Holds(tile)
        BY <1>1, <1>2, <1>5
      <4>. QED BY <4>1, <1>0, <1>3
    <3>. QED BY <3>1, <2>2, <1>0
  <2>4. Cardinality(T) = 1
    BY <2>3, FS_Singleton
  <2>5. j0 <= x
    BY <1>1, <1>5
  <2>. QED BY <2>4, <2>5, <1>5 DEF T, start, end, s
<1>6. CASE x < j0 \/ end <= x
  <2> HIDE DEF Wide, Narrow, a, b, Holds, start, end
  <2>1. T = {}
    <3>1. \A tile \in Wide : ~ Holds(tile)
      BY <1>1, <1>2, <1>6
    <3>2. \A tile \in Narrow : ~ Holds(tile)
      BY <1>1, <1>3, <1>6
    <3>. QED BY <3>1, <3>2, <1>0
  <2>2. Cardinality(T) = 0
    BY <2>1, FS_EmptySet
  <2>3. ~ (j0 <= x /\ x < end)
    BY <1>1, <1>6
  <2>. QED BY <2>2, <2>3 DEF T, start, end
<1>7. (j0 <= x /\ x < start) \/ (start <= x /\ x < end) \/ x < j0 \/ end <= x
  <2> HIDE DEF start, end
  <2>. QED BY <1>1
<1>. QED BY <1>4, <1>5, <1>6, <1>7

\* The columns before block i of a row of blocks.
ColumnsBefore(p, i) == BlocPos(BlocPos(i, JJ_BN(p), SizeBN(p)), JJ_RN(p), RN(p))

\* The columns before a block, at its two ends.
LEMMA ColumnsBeforeIs ==
    ASSUME NEW p \in Products, Chunked(p), Serves(p)
    PROVE  /\ ColumnsBefore(p, 0) = 0 /\ ColumnsBefore(p, NB_BN(p)) = p.n
           /\ \A i, k \in Nat : i <= k => /\ ColumnsBefore(p, i) \in Nat
                                          /\ ColumnsBefore(p, i) <= ColumnsBefore(p, k)
<1> DEFINE X == XTiles(p)
           J == JJ_RN(p)
           r == RN(p)
           N == NB_BN(p)
           H == JJ_BN(p)
           size == SizeBN(p)
<1>1. /\ X \in Nat \ {0} /\ J \in 0 .. X /\ r \in Nat \ {0}
      /\ J * r + (X - J) * (r - 1) = p.n
  BY ColumnTiles
<1>2. /\ N \in Nat \ {0} /\ H \in 0 .. N /\ size \in Nat \ {0}
      /\ H * size + (N - H) * (size - 1) = X
  BY TileBlocks
<1> HIDE DEF X, J, r, N, H, size
<1>3. /\ BlocPos(0, J, r) = 0 /\ BlocPos(X, J, r) = p.n
      /\ \A i, k \in Nat : i <= k => BlocPos(i, J, r) \in Nat /\ BlocPos(i, J, r) <= BlocPos(k, J, r)
  BY <1>1, BlocPosIs
<1>4. /\ BlocPos(0, H, size) = 0 /\ BlocPos(N, H, size) = X
      /\ \A i, k \in Nat : i <= k => BlocPos(i, H, size) \in Nat /\ BlocPos(i, H, size) <= BlocPos(k, H, size)
  BY <1>2, BlocPosIs
<1>5. \A i : ColumnsBefore(p, i) = BlocPos(BlocPos(i, H, size), J, r)
  BY DEF ColumnsBefore, J, r, H, size
<1>6. \A i \in Nat : BlocPos(i, H, size) \in Nat
  BY <1>4
<1>7. ASSUME NEW i \in Nat, NEW k \in Nat, i <= k
      PROVE  ColumnsBefore(p, i) \in Nat /\ ColumnsBefore(p, i) <= ColumnsBefore(p, k)
  BY <1>3, <1>4, <1>5, <1>6, <1>7
<1>. QED BY <1>3, <1>4, <1>5, <1>7 DEF N

\* How often a job computes a column of its rows.
LEMMA ColumnInJob ==
    ASSUME NEW p \in Products, Chunked(p), Serves(p), NEW job \in Nat, NEW x \in Nat, YTiles(p) > 0
    PROVE  Cardinality(AtColumn(TilesOf(p, job), x))
             = IF ColumnsBefore(p, job \div YTiles(p)) <= x /\ x < ColumnsBefore(p, job \div YTiles(p) + 1)
               THEN 1 ELSE 0
<1> DEFINE jb == job \div YTiles(p)
           J == JJ_RN(p)
           r == RN(p)
           b0 == BlocPos(jb, JJ_BN(p), SizeBN(p))
           b1 == BlocPos(jb + 1, JJ_BN(p), SizeBN(p))
           jj0 == BlocPos(b0, J, r)
           jj2 == BlocPos(b1, J, r)
           jj1 == Least(jj2, J * r)
           wide   == IF jj0 < jj1 THEN CeilDiv(jj1 - jj0, r) ELSE 0
           start  == jj0 + wide * r
           narrow == IF r > 1 /\ start < jj2 THEN CeilDiv(jj2 - start, r - 1) ELSE 0
<1>1. jb \in Nat /\ YTiles(p) \in Nat \ {0}
  BY BlockingIs, DivMod
<1>2. J \in Nat /\ r \in Nat /\ r >= 2
  BY ColumnTiles
<1>3. b0 \in Nat /\ b1 \in Nat /\ b0 <= b1
  <2> DEFINE N == NB_BN(p)
             H == JJ_BN(p)
             size == SizeBN(p)
  <2>1. N \in Nat \ {0} /\ H \in 0 .. N /\ size \in Nat \ {0}
    BY TileBlocks
  <2> HIDE DEF N, H, size
  <2>2. \A i, k \in Nat : i <= k => BlocPos(i, H, size) \in Nat /\ BlocPos(i, H, size) <= BlocPos(k, H, size)
    BY <2>1, BlocPosIs
  <2> HIDE DEF jb
  <2>3. jb + 1 \in Nat /\ jb <= jb + 1 /\ jb + 1 <= jb + 1
    BY <1>1
  <2>. QED BY <1>1, <2>2, <2>3 DEF H, size
<1>4. TilesOf(p, job) = Strips(jj0, r, wide, narrow)
  BY DEF TilesOf, Strips
<1>5. jj0 = ColumnsBefore(p, jb) /\ jj2 = ColumnsBefore(p, jb + 1)
  BY DEF ColumnsBefore
<1> HIDE DEF J, r, b0, b1
<1>6. jj0 \in Nat /\ wide \in Nat /\ narrow \in Nat /\ jj2 = start + narrow * (r - 1)
  BY <1>2, <1>3, LoopsMeet
<1> HIDE DEF jj0, jj2, wide, narrow
<1>7. Cardinality(AtColumn(Strips(jj0, r, wide, narrow), x))
        = IF jj0 <= x /\ x < start + narrow * (r - 1) THEN 1 ELSE 0
  BY <1>2, <1>6, StripsOnce
<1> HIDE DEF start
<1>. QED BY <1>4, <1>5, <1>6, <1>7

\* Blocks that follow each other from 0 to n: each x below n is in one.
LEMMA BlockWith ==
    ASSUME NEW p \in Products, Chunked(p), Serves(p), NEW x \in Nat
    PROVE  /\ x < p.n => \E b \in 0 .. NB_BN(p) - 1 : \A k \in 0 .. NB_BN(p) - 1 :
                           (ColumnsBefore(p, k) <= x /\ x < ColumnsBefore(p, k + 1)) <=> k = b
           /\ x >= p.n => \A k \in 0 .. NB_BN(p) - 1 :
                           ~ (ColumnsBefore(p, k) <= x /\ x < ColumnsBefore(p, k + 1))
<1> DEFINE N == NB_BN(p)
           P(i) == ColumnsBefore(p, i)
<1>1. N \in Nat \ {0} /\ p.n \in Nat
  BY TileBlocks, ProductIs
<1>2. P(0) = 0 /\ P(N) = p.n /\ \A i, k \in Nat : i <= k => P(i) \in Nat /\ P(i) <= P(k)
  BY ColumnsBeforeIs
<1> HIDE DEF P, N
<1>3. ASSUME NEW k \in 0 .. N - 1 PROVE P(k + 1) <= p.n /\ P(k) \in Nat /\ P(k + 1) \in Nat
  <2>1. k \in Nat /\ k + 1 \in Nat /\ k + 1 <= N /\ k <= k + 1
    BY <1>1, <1>3
  <2> DEFINE h == k + 1
  <2> HIDE DEF h
  <2>2. h \in Nat /\ h <= N /\ k <= h /\ h <= h
    BY <2>1 DEF h
  <2>3. P(h) <= P(N) /\ P(h) \in Nat /\ P(k) \in Nat
    BY <1>1, <1>2, <2>1, <2>2
  <2>. QED BY <2>3, <1>2 DEF h
<1>4. ASSUME x >= p.n, NEW k \in 0 .. N - 1 PROVE ~ (P(k) <= x /\ x < P(k + 1))
  BY <1>1, <1>3, <1>4
<1>5. ASSUME x < p.n PROVE \E b \in 0 .. N - 1 : \A k \in 0 .. N - 1 : (P(k) <= x /\ x < P(k + 1)) <=> k = b
  <2> DEFINE I == {i \in 0 .. N : x < P(i)}
  <2>1. N \in I /\ I \in SUBSET Nat
    BY <1>1, <1>2, <1>5
  <2>2. PICK l \in I : \A i \in I : l <= i
    <3> HIDE DEF I
    <3>. QED BY <2>1, LeastPosition
  <2>3. l \in 1 .. N /\ x < P(l)
    <3>1. l # 0
      BY <1>2, <2>2
    <3>. QED BY <2>2, <3>1, <1>1
  <2> DEFINE b == l - 1
  <2>4. b \in 0 .. N - 1 /\ b + 1 = l
    BY <2>3, <1>1
  <2> HIDE DEF b
  <2>5. P(b) <= x
    <3>1. b \notin I /\ b \in 0 .. N /\ P(b) \in Nat
      BY <2>2, <2>4, <1>3, <1>1
    <3>. QED BY <3>1
  <2>6. ASSUME NEW k \in 0 .. N - 1, P(k) <= x, x < P(k + 1) PROVE k = b
    <3>1. CASE k < b
      <4> DEFINE h == k + 1
      <4>1. h \in Nat /\ h <= b /\ b \in Nat
        BY <3>1, <2>4, <1>1
      <4> HIDE DEF h
      <4>2. P(h) <= P(b) /\ P(h) \in Nat /\ P(b) \in Nat
        BY <4>1, <1>2, <2>4, <1>3
      <4>. QED BY <4>2, <2>5, <2>6 DEF h
    <3>2. CASE b < k
      <4>1. l \in Nat /\ l <= k /\ k \in Nat
        BY <3>2, <2>4, <1>1
      <4>2. P(l) <= P(k) /\ P(l) \in Nat /\ P(k) \in Nat
        BY <4>1, <1>2, <1>3
      <4>. QED BY <4>2, <2>3, <2>6
    <3>. QED BY <3>1, <3>2, <2>4, <1>1
  <2>. QED BY <2>3, <2>4, <2>5, <2>6
<1>. QED BY <1>4, <1>5 DEF P, N

\* Every element of C belongs to one job, which computes it once; what lies
\* past the last column belongs to none.
LEMMA JobsOnce ==
    ASSUME NEW p \in Products, Chunked(p), Serves(p), NEW e \in Elements(p)
    PROVE  /\ e[2] < p.n => JobOf(p, e) \in 0 .. NbJob(p) - 1 /\ JobIs(p, JobOf(p, e), e)
           /\ e[2] >= p.n => \A k \in 0 .. NbJob(p) - 1 : TimesInJob(p, k, e) = 0
<1> DEFINE rows == BlockingOf(p).RM * BM(p)
           Y == YTiles(p)
           N == NB_BN(p)
           n == p.n
           i == e[1]
           x == e[2]
           Holds(k) == ColumnsBefore(p, k) <= x /\ x < ColumnsBefore(p, k + 1)
           OfRow(k) == i \in (k % Y) * rows .. (k % Y) * rows + rows - 1
<1>1. /\ rows \in Nat \ {0} /\ Y \in Nat /\ p.m = rows * Y /\ N \in Nat \ {0} /\ n \in Nat /\ p.m \in Nat
      /\ NbJob(p) = Y * N
  BY BlockingIs, TileBlocks, ProductIs DEF NbJob
<1>2. i \in 0 .. p.m - 1 /\ x \in 0 .. n + Margin - 1
  BY DEF Elements
<1>3. i \in Nat /\ i < p.m /\ x \in Nat
  BY <1>1, <1>2 DEF Margin
<1>4. Y > 0
  <2>1. Y = 0 => rows * Y = 0
    <3> HIDE DEF rows, Y
    <3>. QED BY <1>1
  <2> HIDE DEF rows, Y
  <2>. QED BY <2>1, <1>1, <1>3
<1>5. ASSUME NEW k \in Nat
      PROVE  TimesInJob(p, k, e) = IF OfRow(k) /\ Holds(k \div Y) THEN 1 ELSE 0
  <2>1. OfRow(k) <=> e[1] \in JobRows(p, k)
    BY DEF JobRows
  <2>2. Cardinality(AtColumn(TilesOf(p, k), x)) = IF Holds(k \div Y) THEN 1 ELSE 0
    BY <1>3, <1>4, ColumnInJob
  <2>3. TimesInJob(p, k, e) = IF e[1] \in JobRows(p, k) THEN Cardinality(AtColumn(TilesOf(p, k), x)) ELSE 0
    BY DEF TimesInJob, AtColumn
  <2> HIDE DEF OfRow, Holds
  <2>. QED BY <2>1, <2>2, <2>3
<1> DEFINE y == i \div rows
<1>6. y \in Nat /\ y < Y /\ \A h \in Nat : i \in h * rows .. h * rows + rows - 1 <=> h = y
  <2> HIDE DEF rows, i, y, Y
  <2>1. p.m = Y * rows /\ Y * rows \in Nat
    BY <1>1, ProductFacts
  <2>2. 0 <= i /\ i < 0 + Y * rows /\ i - 0 = i
    BY <1>3, <2>1
  <2>3. y \in 0 .. Y - 1 /\ i \in 0 + y * rows .. 0 + y * rows + rows - 1
    <3> DEFINE h == (i - 0) \div rows
    <3>1. h \in 0 .. Y - 1 /\ i \in 0 + h * rows .. 0 + h * rows + rows - 1
      BY <1>1, <1>3, <2>2, StripIs
    <3>2. h = y
      BY <2>2 DEF y
    <3>. QED BY <3>1, <3>2
  <2>4. y \in Nat /\ y < Y
    BY <2>3, <1>1
  <2>5. ASSUME NEW h \in Nat PROVE 0 + h * rows = h * rows
    BY <1>1, ProductFacts
  <2>6. i \in y * rows .. y * rows + rows - 1
    BY <2>3, <2>4, <2>5
  <2>7. ASSUME NEW h \in Nat, i \in h * rows .. h * rows + rows - 1 PROVE h = y
    <3> DEFINE k == h + 1
    <3>1. k \in Nat /\ h \in 0 .. k - 1 /\ i \in 0 + h * rows .. 0 + h * rows + rows - 1
      BY <2>5, <2>7
    <3> HIDE DEF k
    <3>2. h = (i - 0) \div rows
      BY <3>1, <1>1, <1>3, StripIs
    <3>. QED BY <3>2, <2>2 DEF y
  <2>. QED BY <2>4, <2>6, <2>7
<1>7. ASSUME NEW k \in 0 .. NbJob(p) - 1
      PROVE  k \in Nat /\ k % Y \in Nat /\ k \div Y \in 0 .. N - 1 /\ k = Y * (k \div Y) + (k % Y)
  <2> HIDE DEF Y, N
  <2>1. k \in Nat /\ k < Y * N /\ Y * N \in Nat
    <3> DEFINE z == Y * N
    <3>1. z \in Nat /\ NbJob(p) = z
      BY <1>1, ProductFacts
    <3> HIDE DEF z
    <3>. QED BY <3>1, <1>7 DEF z
  <2>2. k % Y \in Nat /\ k \div Y \in Nat /\ k % Y < Y /\ k = Y * (k \div Y) + (k % Y) /\ Y * (k \div Y) \in Nat
    BY <2>1, <1>1, <1>4, DivMod
  <2>3. k \div Y < N
    <3> DEFINE q == k \div Y
    <3>1. q \in Nat
      BY <2>2
    <3> HIDE DEF q
    <3>2. q >= N => N * Y <= q * Y /\ N * Y = Y * N /\ q * Y = Y * q
      BY <3>1, <1>1, ProductMonotone, ProductFacts
    <3> DEFINE a == Y * N
               b == Y * q
               u == N * Y
               v == q * Y
    <3>3. (q >= N => u <= v /\ u = a /\ v = b) /\ k < a /\ a \in Nat /\ b \in Nat /\ k = b + (k % Y)
      BY <3>2, <2>1, <2>2 DEF q
    <3> HIDE DEF a, b, u, v
    <3>4. ~ (q >= N)
      BY <3>3, <2>2
    <3>. QED BY <3>1, <3>4, <1>1 DEF q
  <2>. QED BY <2>1, <2>2, <2>3, <1>1
<1>8. ASSUME x >= n, NEW k \in 0 .. NbJob(p) - 1 PROVE TimesInJob(p, k, e) = 0
  <2>1. k \in Nat /\ k \div Y \in 0 .. N - 1
    BY <1>7
  <2>2. ~ Holds(k \div Y)
    BY <2>1, <1>3, <1>8, BlockWith
  <2> HIDE DEF Holds, OfRow
  <2>. QED BY <2>1, <2>2, <1>5
<1>9. ASSUME x < n PROVE \E j \in 0 .. NbJob(p) - 1 : JobIs(p, j, e)
  <2>1. PICK b \in 0 .. N - 1 : \A k \in 0 .. N - 1 : Holds(k) <=> k = b
    BY <1>3, <1>9, BlockWith
  <2> DEFINE j == Y * b + y
  <2> HIDE DEF Y, N, y, Holds
  <2>2. b \in Nat /\ b <= N - 1
    BY <2>1, <1>1
  <2>3. j \in Nat /\ j \div Y = b /\ j % Y = y
    <3>1. Y * b \in Nat
      BY <2>2, <1>1, ProductFacts
    <3> DEFINE z == Y * b
    <3>2. j \in Nat /\ j = z + y
      <4>1. z \in Nat
        BY <3>1
      <4>2. j = z + y
        OBVIOUS
      <4> HIDE DEF z, j
      <4>. QED BY <4>1, <4>2, <1>6
    <3>3. j = Y * b + y
      OBVIOUS
    <3> HIDE DEF j
    <3>4. Y \in Nat \ {0} /\ b \in Nat /\ y \in Nat /\ y < Y
      BY <2>2, <1>1, <1>4, <1>6
    <3>. QED BY <3>2, <3>3, <3>4, DivModUnique
  <2>4. j \in 0 .. NbJob(p) - 1
    <3>1. (b + 1) * Y <= N * Y /\ (b + 1) * Y = b * Y + Y
      <4>1. b + 1 \in Nat /\ b + 1 <= N
        BY <2>2, <1>1
      <4> DEFINE h == b + 1
      <4>2. h \in Nat /\ h <= N
        BY <4>1
      <4>3. (b + 1) * Y = b * Y + Y
        BY <2>2, <1>1, ProductFacts
      <4> HIDE DEF h
      <4>4. h * Y <= N * Y
        BY <4>2, <1>1, ProductMonotone
      <4>. QED BY <4>3, <4>4 DEF h
    <3>2. b * Y = Y * b /\ N * Y = Y * N /\ Y * b \in Nat /\ Y * N \in Nat
      BY <2>2, <1>1, ProductFacts
    <3> DEFINE u == Y * b
               v == Y * N
               s == b * Y
               t == N * Y
    <3>3. s + Y <= t /\ s = u /\ t = v /\ u \in Nat /\ v \in Nat /\ j = u + y /\ NbJob(p) = v
      <4>1. j = u + y
        OBVIOUS
      <4> HIDE DEF j
      <4>. QED BY <3>1, <3>2, <4>1, <1>1
    <3> HIDE DEF j, u, v, s, t
    <3>. QED BY <3>3, <1>1, <1>6, <2>3
  <2> HIDE DEF j
  <2>5. ASSUME NEW k \in 0 .. NbJob(p) - 1 PROVE TimesInJob(p, k, e) = IF k = j THEN 1 ELSE 0
    <3>1. k \in Nat /\ k % Y \in Nat /\ k \div Y \in 0 .. N - 1 /\ k = Y * (k \div Y) + (k % Y)
      BY <1>7
    <3>2. OfRow(k) <=> k % Y = y
      BY <3>1, <1>6
    <3>3. Holds(k \div Y) <=> k \div Y = b
      BY <3>1, <2>1
    <3>4. k = j <=> k % Y = y /\ k \div Y = b
      <4>1. j = Y * b + y
        BY DEF j
      <4>. QED BY <3>1, <2>3, <4>1
    <3> HIDE DEF OfRow
    <3>. QED BY <3>1, <3>2, <3>3, <3>4, <1>5
  <2>. QED BY <2>4, <2>5 DEF JobIs
<1>10. x < n => JobOf(p, e) \in 0 .. NbJob(p) - 1 /\ JobIs(p, JobOf(p, e), e)
  <2> HIDE DEF x, n
  <2>. QED BY <1>9 DEF JobOf
<1>. QED BY <1>8, <1>10

-----------------------------------------------------------------------------
\* The jobs of the float classes.

\* What moves when one thread does.
LEMMA MoveIs ==
    ASSUME threads \in [Threads -> Postures], NEW w \in Threads, NEW u \in Postures, Move(w, u)
    PROVE  threads' \in [Threads -> Postures] /\ threads'[w] = u /\ \A v \in Threads \ {w} : threads'[v] = threads[v]
<1> HIDE DEF Postures, Threads
<1>. QED BY DEF Move

Restaged(t, s) == [t EXCEPT !.stage = s]

\* A thread that only changes its stage.
LEMMA RestageIs ==
    ASSUME NEW t \in Postures, NEW s \in {"enter", "gather", "work", "leave", "tiled", "pack", "out"}
    PROVE  /\ Restaged(t, s) \in Postures /\ Restaged(t, s).stage = s /\ Restaged(t, s).call = t.call
           /\ Restaged(t, s).job = t.job /\ Restaged(t, s).panel = t.panel /\ Restaged(t, s).stack = t.stack
BY DEF Postures, Restaged

\* The position and the floor at each stage.
LEMMA PositionIs ==
    ASSUME NEW calls, NEW t
    PROVE  /\ t.stage = "enter"  => Position(calls, t) = 4 * t.call + 1 /\ Floor(calls, t) = 4 * t.call
           /\ t.stage = "gather" => Position(calls, t) = 4 * t.call + 2 /\ Floor(calls, t) = 4 * t.call
           /\ t.stage = "work"   => Position(calls, t) = 4 * t.call + 3 /\ Floor(calls, t) = 4 * t.call + 2
           /\ t.stage = "leave"  => Position(calls, t) = 4 * t.call + 4 /\ Floor(calls, t) = 4 * t.call + 2
           /\ t.stage = "out"    => Position(calls, t) = 4 * calls + 4 /\ Floor(calls, t) = 4 * calls + 4
<1>1. Position(calls, t) = CASE t.stage = "enter"  -> 4 * t.call + 1
                          [] t.stage = "gather" -> 4 * t.call + 2
                          [] t.stage = "work"   -> 4 * t.call + 3
                          [] t.stage = "leave"  -> 4 * t.call + 4
                          [] OTHER              -> 4 * calls + 4
  BY DEF Position
<1>2. Floor(calls, t) = CASE t.stage \in {"enter", "gather"} -> 4 * t.call
                          [] t.stage \in {"work", "leave"}   -> 4 * t.call + 2
                          [] OTHER                           -> 4 * calls + 4
  BY DEF Floor
<1>. QED BY <1>1, <1>2

\* The position is what Opens compares.
LEMMA ReachedIs ==
    ASSUME NEW t, t.stage \in {"enter", "gather", "work", "leave", "out"}
    PROVE  Reached(t) = Position(product.calls, t)
<1> DEFINE step(x) == CHOOSE s \in 1 .. 4 : Stages[s] = x
<1>1. Stages[1] = "enter" /\ Stages[2] = "gather" /\ Stages[3] = "work" /\ Stages[4] = "leave"
  BY DEF Stages
<1>2. \A s \in 1 .. 4 : s = 1 \/ s = 2 \/ s = 3 \/ s = 4
  OBVIOUS
<1>3. step("enter") = 1 /\ step("gather") = 2 /\ step("work") = 3 /\ step("leave") = 4
  <2>1. \A s \in 1 .. 4 : Stages[s] = "enter" <=> s = 1
    BY <1>1, <1>2
  <2>2. \A s \in 1 .. 4 : Stages[s] = "gather" <=> s = 2
    BY <1>1, <1>2
  <2>3. \A s \in 1 .. 4 : Stages[s] = "work" <=> s = 3
    BY <1>1, <1>2
  <2>4. \A s \in 1 .. 4 : Stages[s] = "leave" <=> s = 4
    BY <1>1, <1>2
  <2>5. step("enter") = 1
    BY <2>1
  <2>6. step("gather") = 2
    BY <2>2
  <2>7. step("work") = 3
    BY <2>3
  <2>8. step("leave") = 4
    BY <2>4
  <2>. QED BY <2>5, <2>6, <2>7, <2>8
<1>4. t.stage # "out" => Reached(t) = 4 * t.call + step(t.stage)
  BY DEF Reached
<1>5. t.stage = "out" => Reached(t) = 4 * product.calls + 4
  BY DEF Reached
<1> HIDE DEF step
<1>. QED BY <1>3, <1>4, <1>5, PositionIs

BlasShape ==
    /\ product \in Products /\ threads \in [Threads -> Postures] /\ chunk \in Nat
    /\ c = [q \in 1 .. product.calls |-> [e \in Elements(product) |-> c[q][e]]]
InChunks == BlasShape /\ Serves(product) /\ Chunked(product) /\ ChunkInv

\* The types of what the float classes keep.
LEMMA ChunkFacts ==
    ASSUME InChunks
    PROVE  /\ 0 \in Threads /\ product.nth \in Nat \ {0} /\ product.calls \in Nat \ {0} /\ NbJob(product) \in Nat
           /\ \A w \in Threads :
                /\ w \in Nat /\ w < product.nth /\ threads[w] \in Postures
                /\ threads[w].call \in 1 .. product.calls /\ threads[w].job \in Nat
                /\ threads[w].stage \in {"enter", "gather", "work", "leave", "out"}
<1>1. product \in Products /\ threads \in [Threads -> Postures] /\ Serves(product) /\ Chunked(product)
  BY DEF InChunks, BlasShape
<1>2. product.nth \in Nat \ {0} /\ product.calls \in Nat \ {0}
  BY <1>1, ProductIs
<1>3. NbJob(product) \in Nat
  <2>1. YTiles(product) \in Nat /\ NB_BN(product) \in Nat
    BY <1>1, BlockingIs, TileBlocks
  <2>. QED BY <2>1, ProductFacts DEF NbJob
<1>4. \A w \in Threads : w \in Nat /\ w < product.nth
  BY <1>2 DEF Threads
<1>5. 0 \in Threads
  BY <1>2 DEF Threads
<1>6. ASSUME NEW w \in Threads
      PROVE  /\ threads[w] \in Postures /\ threads[w].call \in 1 .. product.calls /\ threads[w].job \in Nat
             /\ threads[w].stage \in {"enter", "gather", "work", "leave", "out"}
  <2>1. threads[w] \in Postures
    BY <1>1
  <2>2. threads[w].call \in Nat \ {0} /\ threads[w].job \in Nat
    BY <2>1 DEF Postures
  <2>3. threads[w].call <= product.calls /\ threads[w].stage \in {"enter", "gather", "work", "leave", "out"}
    BY DEF InChunks, ChunkInv, Jobs
  <2>. QED BY <1>2, <2>1, <2>2, <2>3
<1>. QED BY <1>2, <1>3, <1>4, <1>5, <1>6

\* Positions and floors are numbers.
LEMMA PositionsAreNumbers ==
    ASSUME InChunks, NEW v \in Threads
    PROVE  Position(product.calls, threads[v]) \in Nat /\ Floor(product.calls, threads[v]) \in Nat
<1> DEFINE calls == product.calls
<1>1. /\ threads[v].call \in Nat /\ calls \in Nat
      /\ threads[v].stage \in {"enter", "gather", "work", "leave", "out"}
  BY ChunkFacts
<1> HIDE DEF calls
<1>. QED BY <1>1, PositionIs DEF calls

\* What the barriers mean: while a thread works on a call the others are at it
\* too, and nobody is more than one call behind or has begun to work before.
LEMMA BarriersHold ==
    ASSUME InChunks, NEW w \in Threads
    PROVE  /\ threads[w].stage = "work" => \A v \in Threads :
                threads[v].call = threads[w].call /\ threads[v].stage \in {"gather", "work", "leave"}
           /\ threads[w].stage \in {"enter", "gather"} => \A v \in Threads :
                /\ threads[v].stage # "out"
                /\ \/ threads[v].call = threads[w].call
                   \/ threads[v].call + 1 = threads[w].call /\ threads[v].stage = "leave"
<1> DEFINE calls == product.calls
<1>1. \A v \in Threads :
        /\ threads[v].call \in Nat /\ threads[v].call <= calls /\ calls \in Nat
        /\ threads[v].stage \in {"enter", "gather", "work", "leave", "out"}
  BY ChunkFacts
<1>2. \A u, v \in Threads : Position(calls, threads[v]) >= Floor(calls, threads[u])
  BY DEF InChunks, ChunkInv, Barriers
<1> DEFINE begin(v) == 4 * threads[v].call
           end == 4 * calls + 4
<1> HIDE DEF calls
<1>3. ASSUME NEW u \in Threads
      PROVE  /\ threads[u].stage = "out" => Floor(calls, threads[u]) = end
             /\ threads[u].stage \in {"work", "leave"} => Floor(calls, threads[u]) = begin(u) + 2
             /\ threads[u].stage \in {"enter", "gather"} => Floor(calls, threads[u]) = begin(u)
  BY PositionIs
<1>4. ASSUME NEW v \in Threads
      PROVE  /\ threads[v].stage = "enter"  => Position(calls, threads[v]) = begin(v) + 1
             /\ threads[v].stage = "gather" => Position(calls, threads[v]) = begin(v) + 2
             /\ threads[v].stage = "work"   => Position(calls, threads[v]) = begin(v) + 3
             /\ threads[v].stage = "leave"  => Position(calls, threads[v]) = begin(v) + 4
             /\ threads[v].stage = "out"    => Position(calls, threads[v]) = end
  BY PositionIs
<1>5. ASSUME NEW v \in Threads, threads[w].stage = "work"
      PROVE  threads[v].call = threads[w].call /\ threads[v].stage \in {"gather", "work", "leave"}
  <2>1. Position(calls, threads[v]) >= begin(w) + 2
    BY <1>2, <1>3, <1>5
  <2>2. begin(w) + 3 >= Floor(calls, threads[v])
    BY <1>2, <1>4, <1>5
  <2>. QED BY <2>1, <2>2, <1>1, <1>3, <1>4
<1>6. ASSUME NEW v \in Threads, threads[w].stage \in {"enter", "gather"}
      PROVE  /\ threads[v].stage # "out"
             /\ \/ threads[v].call = threads[w].call
                \/ threads[v].call + 1 = threads[w].call /\ threads[v].stage = "leave"
  <2>1. Position(calls, threads[v]) >= begin(w)
    BY <1>2, <1>3, <1>6
  <2>2. begin(w) + 2 >= Floor(calls, threads[v])
    <3>1. Position(calls, threads[w]) >= Floor(calls, threads[v]) /\ Floor(calls, threads[v]) \in Nat
      BY <1>2, PositionsAreNumbers DEF calls
    <3>. QED BY <3>1, <1>1, <1>4, <1>6
  <2>. QED BY <2>1, <2>2, <1>1, <1>3, <1>4
<1>. QED BY <1>5, <1>6

\* As long as the same jobs are pending, C may stay as it is.
LEMMA StaysCounted ==
    ASSUME InChunks, product' = product, c' = c,
           \A q \in 1 .. product.calls : \A j \in 0 .. NbJob(product) - 1 : Pending(q, j)' <=> Pending(q, j)
    PROVE  JobsCounted'
<1>1. \A e \in Elements(product) : InProduct(e) => JobOf(product, e) \in 0 .. NbJob(product) - 1
  <2>1. product \in Products /\ Serves(product) /\ Chunked(product)
    BY DEF InChunks, BlasShape
  <2>. QED BY <2>1, JobsOnce DEF InProduct
<1> SUFFICES ASSUME NEW q \in 1 .. product.calls, NEW e \in Elements(product)
             PROVE  c[q][e] = IF InProduct(e) /\ ~ Pending(q, JobOf(product, e))' THEN product.panels ELSE 0
  BY DEF JobsCounted, InProduct
<1>2. c[q][e] = IF InProduct(e) /\ ~ Pending(q, JobOf(product, e)) THEN product.panels ELSE 0
  BY DEF InChunks, ChunkInv, JobsCounted
<1>3. JobOf(product, e)' = JobOf(product, e)
  OBVIOUS
<1> HIDE DEF InProduct
<1>. QED BY <1>1, <1>2, <1>3

\* A step that takes threads forward and promises nothing new keeps the barriers.
LEMMA BarriersStay ==
    ASSUME InChunks, product' = product,
           \A v \in Threads : /\ Position(product.calls, threads'[v]) \in Nat
                               /\ Position(product.calls, threads'[v]) >= Position(product.calls, threads[v])
                               /\ \/ Floor(product.calls, threads'[v]) = Floor(product.calls, threads[v])
                                  \/ \A x \in Threads : Position(product.calls, threads'[x]) >= Floor(product.calls, threads'[v])
    PROVE  Barriers'
<1> DEFINE calls == product.calls
<1>1. Threads' = Threads
  BY DEF Threads
<1>2. \A w, v \in Threads : Position(calls, threads[v]) >= Floor(calls, threads[w])
  BY DEF InChunks, ChunkInv, Barriers
<1>3. \A v \in Threads : Position(calls, threads[v]) \in Nat /\ Floor(calls, threads[v]) \in Nat
  BY PositionsAreNumbers
<1>4. ASSUME NEW w \in Threads, NEW v \in Threads
      PROVE  Position(calls, threads'[v]) >= Floor(calls, threads'[w])
  BY <1>2, <1>3
<1>. QED BY <1>1, <1>4 DEF Barriers

\* Passing a gate changes no job.
LEMMA GateKeeps ==
    ASSUME InChunks, NEW w \in Threads, NEW s \in {"gather", "work"}, threads[w].stage \in {"enter", "gather"},
           Move(w, Restaged(threads[w], s)), product' = product, c' = c, chunk' \in Nat,
           \A q : Counter(q)' = Counter(q)
    PROVE  BlasShape' /\ Jobs' /\ JobsCounted'
<1> DEFINE u == Restaged(threads[w], s)
<1>1. threads \in [Threads -> Postures] /\ \A v \in Threads : threads[v] \in Postures
  BY DEF InChunks, BlasShape
<1>2. u \in Postures /\ u.stage = s /\ u.call = threads[w].call /\ u.job = threads[w].job
  BY <1>1, RestageIs
<1> HIDE DEF u
<1>3. threads' \in [Threads -> Postures] /\ threads'[w] = u /\ \A v \in Threads \ {w} : threads'[v] = threads[v]
  BY <1>1, <1>2, MoveIs DEF u
<1>4. Threads' = Threads
  BY DEF Threads
<1>5. BlasShape'
  <2>1. Elements(product)' = Elements(product)
    BY DEF Elements
  <2>. QED BY <1>3, <1>4, <2>1 DEF InChunks, BlasShape
<1>6. ASSUME NEW v \in Threads
      PROVE  /\ threads'[v].call = threads[v].call /\ threads'[v].job = threads[v].job
             /\ v # w => threads'[v].stage = threads[v].stage
             /\ v = w => threads'[v].stage = s
  BY <1>2, <1>3
<1>7. Jobs'
  <2>1. ASSUME NEW v \in Threads
        PROVE  LET t == threads'[v]
               IN  /\ t.stage \in {"enter", "gather", "work", "leave", "out"} /\ t.call <= product.calls
                   /\ t.stage \in {"enter", "gather"} => t.job = v
                   /\ t.stage \in {"enter", "gather", "work"} => t.job < Counter(t.call)
                   /\ \A x \in Threads \ {v} :
                        {t.stage, threads'[x].stage} \subseteq {"enter", "gather", "work"} /\ t.call = threads'[x].call
                           => t.job # threads'[x].job
    <3>1. LET t == threads[v]
          IN  /\ t.stage \in {"enter", "gather", "work", "leave", "out"} /\ t.call <= product.calls
              /\ t.stage \in {"enter", "gather"} => t.job = v
              /\ t.stage \in {"enter", "gather", "work"} => t.job < Counter(t.call)
              /\ \A x \in Threads \ {v} :
                   {t.stage, threads[x].stage} \subseteq {"enter", "gather", "work"} /\ t.call = threads[x].call
                      => t.job # threads[x].job
      BY DEF InChunks, ChunkInv, Jobs
    <3>. QED BY <3>1, <1>6
  <2>. QED BY <2>1, <1>4 DEF Jobs
<1>8. ASSUME NEW q \in 1 .. product.calls, NEW j PROVE Pending(q, j)' <=> Pending(q, j)
  <2>1. ASSUME NEW v \in Threads PROVE Busy(v, q)' <=> Busy(v, q)
    BY <1>6 DEF Busy
  <2>. QED BY <2>1, <1>4, <1>6 DEF Pending
<1>9. JobsCounted'
  BY <1>8, StaysCounted
<1>. QED BY <1>5, <1>7, <1>9

\* Thread 0 sets the counter while no other thread reads it.
LEMMA EnterKeeps ==
    ASSUME InChunks, NEW w \in Threads, Enter(w)
    PROVE  InChunks'
<1> DEFINE u == Restaged(threads[w], "gather")
<1>1. /\ threads[w].stage = "enter" /\ chunk' = (IF w = 0 THEN product.nth ELSE chunk)
      /\ Move(w, u) /\ product' = product /\ c' = c
  BY DEF Enter, Restaged
<1>2. threads \in [Threads -> Postures] /\ u \in Postures /\ u.stage = "gather" /\ u.call = threads[w].call
  <2>1. threads \in [Threads -> Postures]
    BY DEF InChunks, BlasShape
  <2>. QED BY <2>1, RestageIs
<1> HIDE DEF u
<1>3. threads'[w] = u /\ \A v \in Threads \ {w} : threads'[v] = threads[v]
  BY <1>1, <1>2, MoveIs
<1>4. Threads' = Threads /\ 0 \in Threads /\ product.nth \in Nat \ {0}
  BY <1>1, ChunkFacts DEF Threads
<1>5. ASSUME NEW q PROVE Counter(q)' = Counter(q)
  <2>1. CASE w = 0
    BY <2>1, <1>1, <1>2, <1>3 DEF Counter
  <2>2. CASE w # 0
    BY <2>2, <1>1, <1>3, <1>4 DEF Counter
  <2>. QED BY <2>1, <2>2
<1>6. BlasShape' /\ Jobs' /\ JobsCounted'
  <2>1. chunk' \in Nat
    BY <1>1, <1>4 DEF InChunks, BlasShape
  <2>. QED BY <1>1, <1>5, <2>1, GateKeeps DEF u
<1>7. Counting'
  <2>1. Counting
    BY DEF InChunks, ChunkInv
  <2>2. CASE w = 0
    BY <2>2, <1>1, <1>4 DEF Counting
  <2>3. CASE w # 0
    <3>1. threads'[0] = threads[0] /\ chunk' = chunk
      BY <2>3, <1>1, <1>3, <1>4
    <3>2. ASSUME \A v \in Threads : threads'[v].call = threads'[0].call => threads'[v].stage \in {"enter", "gather"}
          PROVE  \A v \in Threads : threads[v].call = threads[0].call => threads[v].stage \in {"enter", "gather"}
      BY <3>1, <3>2, <1>1, <1>3
    <3>. QED BY <2>1, <3>1, <3>2, <1>1, <1>4 DEF Counting
  <2>. QED BY <2>2, <2>3
<1>8. Barriers'
  <2> DEFINE calls == product.calls
  <2>1. ASSUME NEW v \in Threads
        PROVE  /\ Position(calls, threads'[v]) \in Nat
               /\ Position(calls, threads'[v]) >= Position(calls, threads[v])
               /\ Floor(calls, threads'[v]) = Floor(calls, threads[v])
    <3>1. threads[w].call \in Nat
      BY ChunkFacts
    <3> HIDE DEF calls
    <3>2. /\ Position(calls, threads[w]) = 4 * threads[w].call + 1 /\ Floor(calls, threads[w]) = 4 * threads[w].call
          /\ Position(calls, u) = 4 * u.call + 2 /\ Floor(calls, u) = 4 * u.call
      BY <1>1, <1>2, PositionIs
    <3>3. CASE v = w
      BY <3>1, <3>2, <3>3, <1>2, <1>3
    <3>4. CASE v # w
      BY <3>4, <1>3, PositionsAreNumbers DEF calls
    <3>. QED BY <3>3, <3>4
  <2>. QED BY <2>1, <1>1, <1>4, BarriersStay
<1>. QED BY <1>1, <1>6, <1>7, <1>8 DEF InChunks, ChunkInv

\* The first barrier of a call.
LEMMA GatherKeeps ==
    ASSUME InChunks, NEW w \in Threads, Gather(w)
    PROVE  InChunks'
<1> DEFINE u == Restaged(threads[w], "work")
<1>1. /\ threads[w].stage = "gather" /\ chunk' = chunk /\ Opens(w)
      /\ Move(w, u) /\ product' = product /\ c' = c
  BY DEF Gather, Restaged
<1>2. threads \in [Threads -> Postures] /\ u \in Postures /\ u.stage = "work" /\ u.call = threads[w].call
  <2>1. threads \in [Threads -> Postures]
    BY DEF InChunks, BlasShape
  <2>. QED BY <2>1, RestageIs
<1> HIDE DEF u
<1>3. threads'[w] = u /\ \A v \in Threads \ {w} : threads'[v] = threads[v]
  BY <1>1, <1>2, MoveIs
<1>4. Threads' = Threads /\ 0 \in Threads
  BY <1>1, ChunkFacts DEF Threads
<1>5. ASSUME NEW q PROVE Counter(q)' = Counter(q)
  <2>1. CASE w = 0
    BY <2>1, <1>1, <1>2, <1>3 DEF Counter
  <2>2. CASE w # 0
    BY <2>2, <1>1, <1>3, <1>4 DEF Counter
  <2>. QED BY <2>1, <2>2
<1>6. BlasShape' /\ Jobs' /\ JobsCounted'
  <2>1. chunk' \in Nat
    BY <1>1 DEF InChunks, BlasShape
  <2>. QED BY <1>1, <1>5, <2>1, GateKeeps DEF u
<1>7. Counting'
  <2>1. Counting
    BY DEF InChunks, ChunkInv
  <2>2. threads'[0].stage # "enter" => chunk' >= product'.nth
    BY <2>1, <1>1, <1>3, <1>4 DEF Counting
  <2>3. ASSUME threads'[0].stage = "gather",
               \A v \in Threads : threads'[v].call = threads'[0].call => threads'[v].stage \in {"enter", "gather"}
        PROVE  chunk' = product'.nth
    <3>1. w # 0 /\ threads'[0] = threads[0]
      BY <2>3, <1>2, <1>3, <1>4
    <3>2. threads[w].call # threads[0].call
      BY <2>3, <3>1, <1>2, <1>3
    <3>3. \A v \in Threads : threads[v].call = threads[0].call => threads[v].stage \in {"enter", "gather"}
      BY <2>3, <3>1, <3>2, <1>3
    <3>. QED BY <2>1, <2>3, <3>1, <3>3, <1>1 DEF Counting
  <2>. QED BY <2>2, <2>3, <1>4 DEF Counting
<1>8. Barriers'
  <2> DEFINE calls == product.calls
  <2>1. /\ threads[w].call \in Nat
        /\ Position(calls, threads[w]) = 4 * threads[w].call + 2
        /\ Position(calls, u) = 4 * u.call + 3 /\ Floor(calls, u) = 4 * u.call + 2
    BY <1>1, <1>2, PositionIs, ChunkFacts
  <2>2. \A x \in Threads : Position(calls, threads[x]) >= Position(calls, threads[w])
    <3>1. \A x \in Threads : Reached(threads[x]) = Position(calls, threads[x])
      BY ReachedIs, ChunkFacts
    <3>. QED BY <3>1, <1>1 DEF Opens
  <2> HIDE DEF calls
  <2>3. ASSUME NEW v \in Threads
        PROVE  /\ Position(calls, threads'[v]) \in Nat
               /\ Position(calls, threads'[v]) >= Position(calls, threads[v])
               /\ v # w => Floor(calls, threads'[v]) = Floor(calls, threads[v])
    <3>1. CASE v = w
      BY <3>1, <2>1, <1>2, <1>3
    <3>2. CASE v # w
      BY <3>2, <1>3, PositionsAreNumbers DEF calls
    <3>. QED BY <3>1, <3>2
  <2>4. ASSUME NEW x \in Threads PROVE Position(calls, threads'[x]) >= Floor(calls, threads'[w])
    <3>1. Position(calls, threads'[x]) >= Position(calls, threads[x]) /\ Position(calls, threads[x]) \in Nat
      BY <2>3, PositionsAreNumbers DEF calls
    <3>2. Floor(calls, threads'[w]) = Position(calls, threads[w]) /\ Position(calls, threads[w]) \in Nat
      BY <2>1, <1>2, <1>3
    <3>. QED BY <3>1, <3>2, <2>2, <2>3
  <2>. QED BY <2>3, <2>4, <1>1, <1>4, BarriersStay DEF calls
<1>. QED BY <1>1, <1>6, <1>7, <1>8 DEF InChunks, ChunkInv

\* While a thread works on a call, the jobs of the earlier calls are done and
\* those of the later ones are all pending.
LEMMA OnlyCurrent ==
    ASSUME InChunks, NEW w \in Threads, threads[w].stage = "work", NEW q \in 1 .. product.calls, NEW j
    PROVE  /\ q < threads[w].call => ~ Pending(q, j)
           /\ q > threads[w].call => Pending(q, j)
           /\ Busy(w, q) <=> q >= threads[w].call
<1> DEFINE now == threads[w].call
<1>1. now \in Nat /\ q \in Nat /\ \A v \in Threads : threads[v].call = now /\ threads[v].stage \in {"gather", "work", "leave"}
  BY BarriersHold, ChunkFacts
<1> HIDE DEF now
<1>2. Busy(w, q) <=> q >= now
  BY <1>1 DEF Busy
<1>3. ASSUME q < now PROVE ~ Pending(q, j)
  <2>1. \A v \in Threads : ~ Busy(v, q)
    BY <1>1, <1>3 DEF Busy
  <2>. QED BY <2>1 DEF Pending
<1>4. ASSUME q > now PROVE Pending(q, j)
  BY <1>1, <1>2, <1>4 DEF Pending
<1>. QED BY <1>2, <1>3, <1>4 DEF now

\* A thread whose last job lies beyond the end.
LEMMA FinishKeeps ==
    ASSUME InChunks, NEW w \in Threads, Finish(w)
    PROVE  InChunks'
<1> DEFINE u == Restaged(threads[w], "leave")
           now == threads[w].call
<1>1. /\ threads[w].stage = "work" /\ threads[w].job >= NbJob(product) /\ chunk' = chunk
      /\ Move(w, u) /\ product' = product /\ c' = c
  BY DEF Finish, Restaged
<1>2. /\ threads \in [Threads -> Postures]
      /\ u \in Postures /\ u.stage = "leave" /\ u.call = threads[w].call /\ u.job = threads[w].job
  <2>1. threads \in [Threads -> Postures]
    BY DEF InChunks, BlasShape
  <2>. QED BY <2>1, RestageIs
<1> HIDE DEF u
<1>3. threads' \in [Threads -> Postures] /\ threads'[w] = u /\ \A v \in Threads \ {w} : threads'[v] = threads[v]
  BY <1>1, <1>2, MoveIs
<1>4. Threads' = Threads /\ 0 \in Threads
  BY <1>1, ChunkFacts DEF Threads
<1>5. ASSUME NEW q PROVE Counter(q)' = Counter(q)
  <2>1. CASE w = 0
    BY <2>1, <1>1, <1>2, <1>3 DEF Counter
  <2>2. CASE w # 0
    BY <2>2, <1>1, <1>3, <1>4 DEF Counter
  <2>. QED BY <2>1, <2>2
<1>6. ASSUME NEW v \in Threads
      PROVE  /\ threads'[v].call = threads[v].call /\ threads'[v].job = threads[v].job
             /\ v # w => threads'[v].stage = threads[v].stage
             /\ v = w => threads'[v].stage = "leave"
  BY <1>2, <1>3
<1>7. BlasShape'
  <2>1. Elements(product)' = Elements(product)
    BY <1>1 DEF Elements
  <2>. QED BY <1>1, <1>3, <1>4, <2>1 DEF InChunks, BlasShape
<1>8. Jobs'
  <2>1. ASSUME NEW v \in Threads
        PROVE  LET t == threads'[v]
               IN  /\ t.stage \in {"enter", "gather", "work", "leave", "out"} /\ t.call <= product.calls
                   /\ t.stage \in {"enter", "gather"} => t.job = v
                   /\ t.stage \in {"enter", "gather", "work"} => t.job < Counter(t.call)
                   /\ \A x \in Threads \ {v} :
                        {t.stage, threads'[x].stage} \subseteq {"enter", "gather", "work"} /\ t.call = threads'[x].call
                           => t.job # threads'[x].job
    <3>1. LET t == threads[v]
          IN  /\ t.stage \in {"enter", "gather", "work", "leave", "out"} /\ t.call <= product.calls
              /\ t.stage \in {"enter", "gather"} => t.job = v
              /\ t.stage \in {"enter", "gather", "work"} => t.job < Counter(t.call)
              /\ \A x \in Threads \ {v} :
                   {t.stage, threads[x].stage} \subseteq {"enter", "gather", "work"} /\ t.call = threads[x].call
                      => t.job # threads[x].job
      BY DEF InChunks, ChunkInv, Jobs
    <3>. QED BY <3>1, <1>1, <1>6
  <2>. QED BY <2>1, <1>1, <1>4, <1>5 DEF Jobs
<1>9. Counting'
  <2>1. Counting
    BY DEF InChunks, ChunkInv
  <2>2. threads'[0].stage # "enter" => chunk' >= product'.nth
    BY <2>1, <1>1, <1>3, <1>4 DEF Counting
  <2>3. \A v \in Threads : threads[v].call = now
    BY <1>1, BarriersHold
  <2>4. threads'[w].call = threads'[0].call /\ threads'[w].stage = "leave"
    BY <2>3, <1>4, <1>6
  <2>. QED BY <2>2, <2>4, <1>4 DEF Counting
<1>10. Barriers'
  <2> DEFINE calls == product.calls
  <2>1. /\ threads[w].call \in Nat
        /\ Position(calls, threads[w]) = 4 * threads[w].call + 3 /\ Floor(calls, threads[w]) = 4 * threads[w].call + 2
        /\ Position(calls, u) = 4 * u.call + 4 /\ Floor(calls, u) = 4 * u.call + 2
    BY <1>1, <1>2, PositionIs, ChunkFacts
  <2> HIDE DEF calls
  <2>2. ASSUME NEW v \in Threads
        PROVE  /\ Position(calls, threads'[v]) \in Nat
               /\ Position(calls, threads'[v]) >= Position(calls, threads[v])
               /\ Floor(calls, threads'[v]) = Floor(calls, threads[v])
    <3>1. CASE v = w
      BY <3>1, <2>1, <1>2, <1>3
    <3>2. CASE v # w
      BY <3>2, <1>3, PositionsAreNumbers DEF calls
    <3>. QED BY <3>1, <3>2
  <2>. QED BY <2>2, <1>1, <1>4, BarriersStay DEF calls
<1>11. JobsCounted'
  <2>1. ASSUME NEW q \in 1 .. product.calls, NEW j \in 0 .. NbJob(product) - 1
        PROVE  Pending(q, j)' <=> Pending(q, j)
    <3>1. threads[w].job # j /\ threads[w].job < Counter(now) /\ threads[w].job \in Nat /\ NbJob(product) \in Nat
      <4>1. threads[w].job < Counter(now)
        BY <1>1 DEF InChunks, ChunkInv, Jobs
      <4>. QED BY <4>1, <1>1, ChunkFacts
    <3>2. Counter(now) \in Nat
      BY ChunkFacts DEF Counter, InChunks, BlasShape
    <3>3. q \in Nat /\ now \in Nat /\ \A v \in Threads : threads[v].call = now /\ threads[v].stage \in {"gather", "work", "leave"}
      BY <1>1, ChunkFacts, BarriersHold
    <3>4. \A v \in Threads \ {w} : Busy(v, q)' <=> Busy(v, q)
      BY <1>6 DEF Busy
    <3>5. CASE q = now
      <4>1. ~ Busy(w, q)'
        BY <3>5, <1>4, <1>6, <3>3 DEF Busy
      <4>2. ~ (threads[w].call < q \/ threads[w].job = j \/ j >= Counter(q))
        BY <3>1, <3>2, <3>3, <3>5, <1>1
      <4>. QED BY <4>1, <4>2, <3>4, <1>4, <1>5, <1>6 DEF Pending
    <3>6. CASE q # now
      <4>1. Busy(w, q)' <=> Busy(w, q)
        BY <3>6, <1>1, <1>6, <3>3 DEF Busy
      <4>. QED BY <4>1, <3>4, <1>4, <1>5, <1>6 DEF Pending
    <3>. QED BY <3>5, <3>6
  <2>. QED BY <2>1, <1>1, StaysCounted
<1>. QED BY <1>1, <1>7, <1>8, <1>9, <1>10, <1>11 DEF InChunks, ChunkInv

Rejobbed(t, j) == [t EXCEPT !.job = j]

\* A thread that only changes its job.
LEMMA RejobIs ==
    ASSUME NEW t \in Postures, NEW j \in Nat
    PROVE  /\ Rejobbed(t, j) \in Postures /\ Rejobbed(t, j).stage = t.stage /\ Rejobbed(t, j).call = t.call
           /\ Rejobbed(t, j).job = j /\ Rejobbed(t, j).panel = t.panel /\ Rejobbed(t, j).stack = t.stack
BY DEF Postures, Rejobbed

\* Adding to the elements of one C.
LEMMA AddedIs ==
    ASSUME BlasShape, product' = product, NEW q \in 1 .. product.calls, NEW g,
           c' = [c EXCEPT ![q] = g], g = [e \in Elements(product) |-> g[e]]
    PROVE  /\ c' = [k \in 1 .. product'.calls |-> [e \in Elements(product)' |-> c'[k][e]]]
           /\ \A e \in Elements(product) : c'[q][e] = g[e]
           /\ \A k \in (1 .. product.calls) \ {q} : \A e \in Elements(product) : c'[k][e] = c[k][e]
<1> DEFINE D == 1 .. product.calls
           E == Elements(product)
<1>1. c = [k \in D |-> [e \in E |-> c[k][e]]]
  BY DEF BlasShape
<1>2. DOMAIN c = D
  BY <1>1
<1>3. \A k \in D : c[k] = [e \in E |-> c[k][e]]
  BY <1>1
<1>4. c' = [k \in D |-> IF k = q THEN g ELSE c[k]]
  BY <1>2
<1>5. \A k \in D : c'[k] = IF k = q THEN g ELSE c[k]
  BY <1>4
<1>6. \A k \in D : c'[k] = [e \in E |-> c'[k][e]]
  BY <1>3, <1>5
<1>7. c' = [k \in D |-> c'[k]]
  BY <1>4, <1>5
<1>8. c' = [k \in D |-> [e \in E |-> c'[k][e]]]
  BY <1>6, <1>7
<1>9. product'.calls = product.calls /\ Elements(product)' = E
  BY DEF Elements
<1> HIDE DEF E
<1>. QED BY <1>5, <1>8, <1>9

\* A job is done and the next taken from the counter.
LEMMA WorkKeeps ==
    ASSUME InChunks, NEW w \in Threads, Work(w),
           NEW now, now = threads[w].call, NEW mine, mine = threads[w].job
    PROVE  InChunks'
<1> DEFINE t == threads[w]
           u == Rejobbed(t, chunk)
           g == [e \in DOMAIN c[now] |-> c[now][e] + TimesInJob(product, mine, e) * product.panels]
           N == NbJob(product)
<1>1. /\ threads[w].stage = "work" /\ mine < N /\ chunk' = chunk + 1
      /\ Move(w, u) /\ product' = product /\ c' = [c EXCEPT ![now] = g]
  BY DEF Work, Rejobbed, Add
<1>2. /\ product \in Products /\ Serves(product) /\ Chunked(product) /\ BlasShape
      /\ threads \in [Threads -> Postures] /\ chunk \in Nat /\ t \in Postures
      /\ Barriers /\ Jobs /\ Counting /\ JobsCounted
  BY DEF InChunks, BlasShape, ChunkInv
<1>3. u \in Postures /\ u.stage = "work" /\ u.call = now /\ u.job = chunk
  BY <1>1, <1>2, RejobIs
<1>4. /\ now \in 1 .. product.calls /\ now \in Nat /\ mine \in Nat /\ N \in Nat
      /\ product.panels \in Nat \ {0} /\ product.nth \in Nat \ {0} /\ 0 \in Threads
      /\ \A v \in Threads : threads[v].job \in Nat
  BY <1>2, ChunkFacts, ProductIs
<1> HIDE DEF u, g, N
<1>5. threads' \in [Threads -> Postures] /\ threads'[w] = u /\ \A v \in Threads \ {w} : threads'[v] = threads[v]
  BY <1>1, <1>2, <1>3, MoveIs
<1>6. Threads' = Threads
  BY <1>1 DEF Threads
<1>7. /\ \A v \in Threads : threads[v].call = now /\ threads[v].stage \in {"gather", "work", "leave"}
      /\ Counter(now) = chunk /\ Counter(now)' = chunk + 1
  <2>1. \A v \in Threads : threads[v].call = now /\ threads[v].stage \in {"gather", "work", "leave"}
    BY <1>1, BarriersHold
  <2>2. threads'[0].call = now /\ threads'[0].stage # "enter"
    BY <2>1, <1>3, <1>4, <1>5
  <2>. QED BY <2>1, <2>2, <1>1, <1>4 DEF Counter
<1>8. ASSUME NEW v \in Threads
      PROVE  /\ threads'[v].call = threads[v].call /\ threads'[v].stage = threads[v].stage
             /\ threads'[v].job = IF v = w THEN chunk ELSE threads[v].job
  BY <1>1, <1>3, <1>5
<1>9. \A v \in Threads : threads[v].stage \in {"gather", "work"} => threads[v].job < chunk
  BY <1>2, <1>7 DEF Jobs
<1>10. \A v \in Threads \ {w} : threads[v].stage \in {"gather", "work"} => threads[v].job # mine
  BY <1>1, <1>2, <1>7 DEF Jobs
<1>11. Jobs'
  <2>1. ASSUME NEW v \in Threads
        PROVE  LET s == threads'[v]
               IN  /\ s.stage \in {"enter", "gather", "work", "leave", "out"} /\ s.call <= product.calls
                   /\ s.stage \in {"enter", "gather"} => s.job = v
                   /\ s.stage \in {"enter", "gather", "work"} => s.job < chunk + 1
                   /\ \A x \in Threads \ {v} :
                        {s.stage, threads'[x].stage} \subseteq {"enter", "gather", "work"} /\ s.call = threads'[x].call
                           => s.job # threads'[x].job
    <3>1. LET s == threads[v]
          IN  /\ s.stage \in {"enter", "gather", "work", "leave", "out"} /\ s.call <= product.calls
              /\ s.stage \in {"enter", "gather"} => s.job = v
              /\ \A x \in Threads \ {v} :
                   {s.stage, threads[x].stage} \subseteq {"enter", "gather", "work"} /\ s.call = threads[x].call
                      => s.job # threads[x].job
      BY <1>2 DEF Jobs
    <3>2. threads'[v].stage \in {"gather", "work"} => threads'[v].job < chunk + 1
      BY <1>2, <1>4, <1>8, <1>9
    <3>3. ASSUME NEW x \in Threads \ {v}, {threads'[v].stage, threads'[x].stage} \subseteq {"enter", "gather", "work"}
          PROVE  threads'[v].job # threads'[x].job
      <4>1. threads[v].stage \in {"gather", "work"} /\ threads[x].stage \in {"gather", "work"}
        BY <3>3, <1>7, <1>8
      <4>2. CASE v = w
        BY <4>1, <4>2, <1>2, <1>4, <1>8, <1>9
      <4>3. CASE x = w
        BY <4>1, <4>3, <1>2, <1>4, <1>8, <1>9
      <4>4. CASE v # w /\ x # w
        BY <4>1, <4>4, <3>1, <1>7, <1>8
      <4>. QED BY <4>2, <4>3, <4>4
    <3>4. threads'[v].call = now
      BY <1>7, <1>8
    <3>5. threads'[v].stage \in {"enter", "gather", "work"} => threads'[v].job < chunk + 1
      BY <3>2, <1>7, <1>8
    <3>6. threads'[v].stage \in {"enter", "gather"} => threads'[v].job = v
      BY <3>1, <1>1, <1>8
    <3>. QED BY <3>1, <3>3, <3>5, <3>6, <1>8
  <2>2. ASSUME NEW v \in Threads PROVE Counter(threads[v].call)' = chunk + 1
    <3>1. threads'[v].call = now
      BY <1>7, <1>8
    <3>2. threads'[0].call = now /\ threads'[0].stage # "enter"
      BY <1>4, <1>7, <1>8
    <3>. QED BY <3>1, <3>2, <1>1 DEF Counter
  <2>. QED BY <2>1, <2>2, <1>1, <1>6 DEF Jobs
<1>12. Counting'
  <2>1. threads'[w].stage = "work" /\ threads'[w].call = threads'[0].call
    BY <1>1, <1>4, <1>7, <1>8
  <2>2. threads'[0].stage # "enter" => chunk' >= product'.nth
    BY <1>1, <1>2, <1>4, <1>7, <1>8 DEF Counting
  <2>. QED BY <2>1, <2>2, <1>6 DEF Counting
<1>13. Barriers'
  <2> DEFINE calls == product.calls
  <2>1. ASSUME NEW v \in Threads
        PROVE  /\ Position(calls, threads'[v]) = Position(calls, threads[v])
               /\ Floor(calls, threads'[v]) = Floor(calls, threads[v])
    BY <1>8 DEF Position, Floor
  <2>2. \A v \in Threads : Position(calls, threads[v]) \in Nat
    BY PositionsAreNumbers
  <2> HIDE DEF calls
  <2>3. \A v \in Threads : /\ Position(calls, threads'[v]) \in Nat
                           /\ Position(calls, threads'[v]) >= Position(calls, threads[v])
                           /\ Floor(calls, threads'[v]) = Floor(calls, threads[v])
    BY <2>1, <2>2
  <2>. QED BY <2>3, <1>1, BarriersStay DEF calls
<1>14. /\ g = [e \in Elements(product) |-> g[e]]
       /\ \A e \in Elements(product) : g[e] = c[now][e] + TimesInJob(product, mine, e) * product.panels
  <2>1. c[now] = [e \in Elements(product) |-> c[now][e]]
    BY <1>2, <1>4 DEF BlasShape
  <2>2. DOMAIN c[now] = Elements(product)
    BY <2>1
  <2>. QED BY <2>2 DEF g
<1>15. /\ c' = [k \in 1 .. product'.calls |-> [e \in Elements(product)' |-> c'[k][e]]]
       /\ \A e \in Elements(product) : c'[now][e] = g[e]
       /\ \A k \in (1 .. product.calls) \ {now} : \A e \in Elements(product) : c'[k][e] = c[k][e]
  BY <1>1, <1>2, <1>4, <1>14, AddedIs
<1>16. BlasShape'
  BY <1>1, <1>2, <1>5, <1>6, <1>15 DEF BlasShape
<1>17. ASSUME NEW j \in Nat, j # mine PROVE Pending(now, j)' <=> Pending(now, j)
  <2>1. Busy(w, now) /\ Busy(w, now)'
    BY <1>1, <1>4, <1>8 DEF Busy
  <2>2. \A v \in Threads : Busy(v, now)' <=> Busy(v, now)
    BY <1>8 DEF Busy
  <2>3. Pending(now, j) <=> (\E v \in Threads : Busy(v, now) /\ threads[v].job = j) \/ j >= chunk
    BY <2>1, <1>4, <1>7 DEF Pending
  <2>4. Pending(now, j)' <=> (\E v \in Threads : Busy(v, now)' /\ threads'[v].job = j) \/ j >= chunk + 1
    BY <2>1, <1>4, <1>6, <1>7, <1>8 DEF Pending
  <2>5. j >= chunk <=> j >= chunk + 1 \/ j = chunk
    BY <1>2
  <2>6. (\E v \in Threads : Busy(v, now)' /\ threads'[v].job = j) <=> (\E v \in Threads : Busy(v, now) /\ threads[v].job = j) \/ j = chunk
    <3>1. \A v \in Threads \ {w} : (Busy(v, now)' /\ threads'[v].job = j) <=> (Busy(v, now) /\ threads[v].job = j)
      BY <2>2, <1>8
    <3>2. (Busy(w, now)' /\ threads'[w].job = j) <=> j = chunk
      BY <2>1, <1>8
    <3>3. ~ (Busy(w, now) /\ threads[w].job = j)
      BY <1>17
    <3>. QED BY <3>1, <3>2, <3>3
  <2>. QED BY <2>3, <2>4, <2>5, <2>6
<1>18. Pending(now, mine) /\ ~ Pending(now, mine)'
  <2>1. Busy(w, now)
    BY <1>1, <1>4 DEF Busy
  <2>2. ASSUME NEW v \in Threads, Busy(v, now)'
        PROVE  ~ (threads'[v].call < now \/ threads'[v].job = mine \/ mine >= Counter(now)')
    <3>1. threads[v].stage \in {"gather", "work"} /\ threads'[v].call = now
      BY <2>2, <1>4, <1>7, <1>8 DEF Busy
    <3>2. mine < chunk
      BY <1>1, <1>9
    <3>3. threads'[v].job # mine
      BY <3>1, <3>2, <1>2, <1>4, <1>8, <1>10
    <3>. QED BY <3>1, <3>2, <3>3, <1>2, <1>4, <1>7
  <2>. QED BY <2>1, <2>2, <1>6 DEF Pending
<1>19. ASSUME NEW q \in 1 .. product.calls, NEW e \in Elements(product), NEW j, j = JobOf(product, e)
       PROVE  c'[q][e] = IF InProduct(e) /\ ~ Pending(q, j)' THEN product.panels ELSE 0
  <2> DEFINE times == TimesInJob(product, mine, e)
  <2>1. c[q][e] = IF InProduct(e) /\ ~ Pending(q, j) THEN product.panels ELSE 0
    BY <1>2, <1>19 DEF JobsCounted
  <2>2. CASE q # now
    <3>1. Pending(q, j)' <=> Pending(q, j)
      <4>1. \A k : /\ q < now => ~ Pending(q, k)
                   /\ q > now => Pending(q, k)
        BY <1>1, OnlyCurrent
      <4>2. q < now => ~ Pending(q, j)'
        <5>1. q < now => \A v \in Threads : ~ Busy(v, q)'
          BY <1>4, <1>7, <1>8 DEF Busy
        <5>. QED BY <5>1, <1>6 DEF Pending
      <4>3. q > now => Pending(q, j)'
        <5>1. q > now => Busy(w, q)' /\ threads'[w].call < q
          BY <1>1, <1>4, <1>7, <1>8 DEF Busy
        <5>. QED BY <5>1, <1>6 DEF Pending
      <4>. QED BY <4>1, <4>2, <4>3, <2>2, <1>4
    <3>2. c'[q][e] = c[q][e]
      BY <2>2, <1>15
    <3>. QED BY <2>1, <3>1, <3>2
  <2>3. CASE q = now
    <3>1. c'[q][e] = c[q][e] + times * product.panels
      BY <2>3, <1>14, <1>15
    <3>2. CASE ~ InProduct(e)
      <4>1. e[2] >= product.n
        BY <3>2, <1>2, ProductIs DEF InProduct, Elements, Margin
      <4>2. times = 0
        <5>1. mine \in 0 .. N - 1
          BY <1>1, <1>4
        <5>. QED BY <4>1, <5>1, <1>2, JobsOnce DEF N
      <4> HIDE DEF times
      <4>3. times * product.panels = 0
        BY <4>2, <1>4
      <4>. QED BY <2>1, <3>1, <3>2, <4>3
    <3>3. CASE InProduct(e)
      <4>1. j \in 0 .. N - 1 /\ JobIs(product, j, e)
        BY <3>3, <1>2, <1>19, JobsOnce DEF N, InProduct
      <4>2. times = IF mine = j THEN 1 ELSE 0
        <5>1. mine \in 0 .. N - 1
          BY <1>1, <1>4
        <5>. QED BY <4>1, <5>1 DEF JobIs, N
      <4> HIDE DEF times
      <4>3. times * product.panels = IF mine = j THEN product.panels ELSE 0
        BY <4>2, <1>4
      <4>4. CASE mine = j
        BY <2>1, <2>3, <3>1, <3>3, <4>3, <4>4, <1>4, <1>18
      <4>5. CASE mine # j
        <5>1. j \in Nat
          BY <4>1, <1>4
        <5>2. Pending(now, j)' <=> Pending(now, j)
          BY <4>5, <5>1, <1>17
        <5>. QED BY <2>1, <2>3, <3>1, <3>3, <4>3, <4>5, <5>2, <1>4
      <4>. QED BY <4>4, <4>5
    <3>. QED BY <3>2, <3>3
  <2>. QED BY <2>2, <2>3
<1>20. JobsCounted'
  <2>1. Elements(product)' = Elements(product) /\ product' = product
    BY <1>1
  <2>2. \A e : InProduct(e)' <=> InProduct(e)
    BY <2>1 DEF InProduct
  <2>3. \A e : JobOf(product, e)' = JobOf(product, e)
    BY <2>1
  <2>. QED BY <1>19, <2>1, <2>2, <2>3 DEF JobsCounted
<1>. QED BY <1>1, <1>2, <1>11, <1>12, <1>13, <1>16, <1>20 DEF InChunks, ChunkInv

\* No call but the next lies between two calls.
LEMMA NextAfter ==
    ASSUME NEW k \in Nat, NEW n \in Nat, 4 * k + 2 >= 4 * n + 4, 4 * k <= 4 * n + 4
    PROVE  k = n + 1
OBVIOUS

\* Where a thread waits to leave a call, every other one waits there too or is
\* in front of the next one.
LEMMA AllLeave ==
    ASSUME InChunks, NEW w \in Threads, NEW now, now = threads[w].call, threads[w].stage = "leave", Opens(w)
    PROVE  \A v \in Threads :
              \/ threads[v].stage = "leave" /\ threads[v].call = now
              \/ threads[v].stage \in {"enter", "gather"} /\ threads[v].call = now + 1
              \/ threads[v].stage = "out" /\ now = product.calls
<1> DEFINE calls == product.calls
<1>1. ASSUME NEW v \in Threads
      PROVE  /\ threads[v].stage \in {"enter", "gather", "work", "leave", "out"}
             /\ threads[v].call \in Nat /\ threads[v].call <= calls /\ calls \in Nat
  BY ChunkFacts
<1>2. ASSUME NEW v \in Threads
      PROVE  Position(calls, threads[v]) >= 4 * now + 4 /\ Floor(calls, threads[v]) <= 4 * now + 4
  <2>1. Reached(threads[v]) = Position(calls, threads[v]) /\ Reached(threads[w]) = Position(calls, threads[w])
    BY <1>1, ReachedIs
  <2>2. Position(calls, threads[v]) >= Position(calls, threads[w])
    BY <2>1 DEF Opens
  <2>3. Position(calls, threads[w]) >= Floor(calls, threads[v]) /\ Floor(calls, threads[v]) \in Nat
    BY PositionsAreNumbers DEF InChunks, ChunkInv, Barriers
  <2> HIDE DEF calls
  <2>4. Position(calls, threads[w]) = 4 * now + 4 /\ now \in Nat
    BY <1>1, PositionIs
  <2>. QED BY <2>2, <2>3, <2>4
<1> HIDE DEF calls
<1>3. SUFFICES ASSUME NEW v \in Threads
               PROVE  \/ threads[v].stage = "leave" /\ threads[v].call = now
                      \/ threads[v].stage \in {"enter", "gather"} /\ threads[v].call = now + 1
                      \/ threads[v].stage = "out" /\ now = calls
  BY DEF calls
<1>4. now \in Nat /\ now <= calls
  BY <1>1
<1>5. /\ threads[v].stage = "enter"  => Position(calls, threads[v]) = 4 * threads[v].call + 1 /\ Floor(calls, threads[v]) = 4 * threads[v].call
      /\ threads[v].stage = "gather" => Position(calls, threads[v]) = 4 * threads[v].call + 2 /\ Floor(calls, threads[v]) = 4 * threads[v].call
      /\ threads[v].stage = "work"   => Position(calls, threads[v]) = 4 * threads[v].call + 3 /\ Floor(calls, threads[v]) = 4 * threads[v].call + 2
      /\ threads[v].stage = "leave"  => Position(calls, threads[v]) = 4 * threads[v].call + 4 /\ Floor(calls, threads[v]) = 4 * threads[v].call + 2
      /\ threads[v].stage = "out"    => Position(calls, threads[v]) = 4 * calls + 4 /\ Floor(calls, threads[v]) = 4 * calls + 4
  BY PositionIs
<1> DEFINE k == threads[v].call
           a == Position(calls, threads[v])
           f == Floor(calls, threads[v])
<1>6. k \in Nat /\ a >= 4 * now + 4 /\ f <= 4 * now + 4
  BY <1>1, <1>2
<1> HIDE DEF k, a, f
<1>7. CASE threads[v].stage = "enter"
  <2>1. a = 4 * k + 1 /\ f = 4 * k
    BY <1>5, <1>7 DEF k, a, f
  <2>2. k = now + 1
    BY <2>1, <1>4, <1>6, NextAfter
  <2>. QED BY <2>2, <1>7 DEF k
<1>8. CASE threads[v].stage = "gather"
  <2>1. a = 4 * k + 2 /\ f = 4 * k
    BY <1>5, <1>8 DEF k, a, f
  <2>2. k = now + 1
    BY <2>1, <1>4, <1>6, NextAfter
  <2>. QED BY <2>2, <1>8 DEF k
<1>9. CASE threads[v].stage = "work"
  BY <1>4, <1>5, <1>6, <1>9 DEF k, a, f
<1>10. CASE threads[v].stage = "leave"
  BY <1>4, <1>5, <1>6, <1>10 DEF k, a, f
<1>11. CASE threads[v].stage = "out"
  BY <1>1, <1>4, <1>5, <1>6, <1>11 DEF k, a, f
<1>. QED BY <1>1, <1>7, <1>8, <1>9, <1>10, <1>11

\* Where a thread of the float classes begins a call.
LEMMA BeginIs ==
    ASSUME NEW p \in Products, Serves(p), Chunked(p), NEW w \in Nat, NEW q \in Nat \ {0}
    PROVE  /\ Begin(p, w, q) \in Postures /\ Begin(p, w, q).call = q
           /\ Begin(p, w, q).job = w /\ Begin(p, w, q).stage = "enter"
<1>1. Begin(p, w, q) = [call |-> q, panel |-> 0, job |-> w, stage |-> "enter", stack |-> << >>]
  BY DEF Begin
<1>2. << >> \in Seq(Rects)
  OBVIOUS
<1>. QED BY <1>1, <1>2 DEF Postures

\* The last call is over for a thread.
LEMMA LastLeaveKeeps ==
    ASSUME InChunks, NEW w \in Threads, Leave(w), NEW now, now = threads[w].call, ~ (now < product.calls)
    PROVE  InChunks'
<1> DEFINE u == Restaged(threads[w], "out")
           calls == product.calls
<1>1. /\ threads[w].stage = "leave" /\ Opens(w) /\ Move(w, u) /\ product' = product /\ c' = c /\ chunk' = chunk
  BY DEF Leave, Restaged
<1>2. threads \in [Threads -> Postures] /\ u \in Postures /\ u.stage = "out" /\ u.call = now
  <2>1. threads \in [Threads -> Postures]
    BY DEF InChunks, BlasShape
  <2>. QED BY <2>1, RestageIs
<1> HIDE DEF u
<1>3. threads' \in [Threads -> Postures] /\ threads'[w] = u /\ \A v \in Threads \ {w} : threads'[v] = threads[v]
  BY <1>1, <1>2, MoveIs
<1>4. Threads' = Threads /\ 0 \in Threads /\ now \in Nat /\ calls \in Nat /\ now = calls /\ chunk \in Nat
  BY <1>1, ChunkFacts DEF Threads, InChunks, BlasShape
<1>5. ASSUME NEW v \in Threads
      PROVE  /\ threads[v].stage \in {"leave", "out"} /\ threads'[v].stage \in {"leave", "out"}
             /\ threads[v].call \in 1 .. calls /\ threads'[v].call = threads[v].call
             /\ threads[v].stage = "leave" => threads[v].call = calls
  <2>1. threads[v].call \in 1 .. calls
    BY ChunkFacts
  <2>2. \/ threads[v].stage = "leave" /\ threads[v].call = now
        \/ threads[v].stage \in {"enter", "gather"} /\ threads[v].call = now + 1
        \/ threads[v].stage = "out" /\ now = product.calls
    BY <1>1, AllLeave
  <2>3. threads[v].stage \in {"leave", "out"} /\ (threads[v].stage = "leave" => threads[v].call = calls)
    BY <2>1, <2>2, <1>4
  <2>. QED BY <2>1, <2>3, <1>2, <1>3
<1>6. BlasShape'
  <2>1. Elements(product)' = Elements(product)
    BY <1>1 DEF Elements
  <2>. QED BY <1>1, <1>3, <1>4, <2>1 DEF InChunks, BlasShape
<1>7. Jobs'
  <2>1. ASSUME NEW v \in Threads
        PROVE  threads'[v].stage \in {"leave", "out"} /\ threads'[v].call <= product'.calls
    BY <1>1, <1>4, <1>5
  <2>. QED BY <2>1, <1>4 DEF Jobs
<1>8. Counting'
  <2>1. Counting
    BY DEF InChunks, ChunkInv
  <2>2. chunk >= product.nth
    BY <2>1, <1>4, <1>5 DEF Counting
  <2>3. threads'[0].stage # "gather"
    BY <1>4, <1>5
  <2>. QED BY <2>2, <2>3, <1>1 DEF Counting
<1>9. Barriers'
  <2>1. ASSUME NEW v \in Threads
        PROVE  Position(calls, threads'[v]) = 4 * calls + 4 /\ Floor(calls, threads'[v]) <= 4 * calls + 4
    <3>1. CASE threads'[v].stage = "leave"
      <4>1. threads'[v].call = calls
        <5>1. v # w
          BY <3>1, <1>2, <1>3
        <5>. QED BY <3>1, <5>1, <1>3, <1>5
      <4> HIDE DEF calls
      <4>. QED BY <3>1, <4>1, <1>4, PositionIs
    <3>2. CASE threads'[v].stage = "out"
      <4> HIDE DEF calls
      <4>. QED BY <3>2, <1>4, PositionIs
    <3>. QED BY <3>1, <3>2, <1>5
  <2> HIDE DEF calls
  <2>2. \A x, v \in Threads : Position(calls, threads'[v]) >= Floor(calls, threads'[x])
    BY <2>1, <1>4
  <2>. QED BY <2>2, <1>1, <1>4 DEF Barriers, calls
<1>10. JobsCounted'
  <2>1. ASSUME NEW q \in 1 .. product.calls, NEW j PROVE Pending(q, j)' <=> Pending(q, j)
    <3>1. ASSUME NEW v \in Threads PROVE ~ Busy(v, q) /\ ~ Busy(v, q)'
      <4>1. CASE v = w
        BY <4>1, <1>1, <1>2, <1>3, <1>4 DEF Busy
      <4>2. CASE v # w
        BY <4>2, <1>3, <1>4, <1>5 DEF Busy
      <4>. QED BY <4>1, <4>2
    <3>. QED BY <3>1, <1>4 DEF Pending
  <2>. QED BY <2>1, <1>1, StaysCounted
<1>. QED BY <1>1, <1>6, <1>7, <1>8, <1>9, <1>10 DEF InChunks, ChunkInv

\* From one call to the next.
LEMMA NextCallKeeps ==
    ASSUME InChunks, NEW w \in Threads, Leave(w), NEW now, now = threads[w].call, now < product.calls
    PROVE  InChunks'
<1> DEFINE u == Begin(product, w, now + 1)
           calls == product.calls
<1>1. /\ threads[w].stage = "leave" /\ Opens(w) /\ Move(w, u) /\ product' = product /\ c' = c /\ chunk' = chunk
  BY DEF Leave
<1>2. product \in Products /\ Serves(product) /\ Chunked(product) /\ threads \in [Threads -> Postures] /\ Counting /\ Jobs
  BY DEF InChunks, BlasShape, ChunkInv
<1>3. /\ Threads' = Threads /\ 0 \in Threads /\ now \in Nat \ {0} /\ calls \in Nat /\ chunk \in Nat
      /\ product.nth \in Nat \ {0} /\ \A v \in Threads : v \in Nat /\ v < product.nth
  BY <1>1, ChunkFacts DEF Threads, InChunks, BlasShape
<1>4. u \in Postures /\ u.stage = "enter" /\ u.call = now + 1 /\ u.job = w
  <2>1. now + 1 \in Nat \ {0} /\ w \in Nat
    BY <1>3
  <2>. QED BY <1>2, <2>1, BeginIs
<1> HIDE DEF u
<1>5. threads' \in [Threads -> Postures] /\ threads'[w] = u /\ \A v \in Threads \ {w} : threads'[v] = threads[v]
  BY <1>1, <1>2, <1>4, MoveIs
<1>6. ASSUME NEW v \in Threads
      PROVE  \/ threads[v].stage = "leave" /\ threads[v].call = now
             \/ threads[v].stage \in {"enter", "gather"} /\ threads[v].call = now + 1 /\ threads[v].job = v
  <2>1. \/ threads[v].stage = "leave" /\ threads[v].call = now
        \/ threads[v].stage \in {"enter", "gather"} /\ threads[v].call = now + 1
        \/ threads[v].stage = "out" /\ now = product.calls
    BY <1>1, AllLeave
  <2>2. threads[v].stage \in {"enter", "gather"} => threads[v].job = v
    BY <1>2 DEF Jobs
  <2>. QED BY <1>3, <2>1, <2>2
<1>7. ASSUME NEW v \in Threads
      PROVE  /\ \/ threads'[v].stage = "leave" /\ threads'[v].call = now
                \/ threads'[v].stage \in {"enter", "gather"} /\ threads'[v].call = now + 1 /\ threads'[v].job = v
             /\ v # w => threads'[v] = threads[v]
             /\ v = w => threads'[v].stage = "enter"
  BY <1>4, <1>5, <1>6
<1>8. BlasShape'
  <2>1. Elements(product)' = Elements(product)
    BY <1>1 DEF Elements
  <2>. QED BY <1>1, <1>3, <1>5, <2>1 DEF InChunks, BlasShape
<1>9. Counting'
  <2>1. CASE w = 0
    BY <2>1, <1>1, <1>3, <1>7 DEF Counting
  <2>2. CASE w # 0
    <3>1. threads'[0] = threads[0]
      BY <2>2, <1>3, <1>7
    <3>2. ASSUME threads[0].stage = "gather" PROVE \A v \in Threads : threads[v].call = threads[0].call => threads[v].stage \in {"enter", "gather"}
      <4>1. threads[0].call = now + 1
        BY <3>2, <1>3, <1>6
      <4>. QED BY <4>1, <1>3, <1>6
    <3>. QED BY <3>1, <3>2, <1>1, <1>2, <1>3 DEF Counting
  <2>. QED BY <2>1, <2>2
<1>10. Counter(now + 1)' = product.nth \/ (Counter(now + 1)' = chunk /\ chunk >= product.nth)
  <2>1. Counter(now + 1)' = product.nth \/ (Counter(now + 1)' = chunk /\ threads'[0].stage # "enter")
    BY <1>1 DEF Counter
  <2>. QED BY <2>1, <1>1, <1>9 DEF Counting
<1>11. Jobs'
  <2>1. ASSUME NEW v \in Threads
        PROVE  /\ threads'[v].stage \in {"enter", "gather", "work", "leave", "out"} /\ threads'[v].call <= calls
               /\ threads'[v].stage \in {"enter", "gather"} => threads'[v].job = v
               /\ threads'[v].stage # "work"
               /\ threads'[v].stage \in {"enter", "gather"} => v < Counter(threads[v].call)'
    <3>1. threads'[v].stage \in {"enter", "gather"} => v < Counter(threads[v].call)'
      <4> SUFFICES ASSUME threads'[v].stage \in {"enter", "gather"} PROVE v < Counter(threads[v].call)'
        OBVIOUS
      <4>1. threads'[v].call = now + 1
        BY <1>7
      <4>2. Counter(threads[v].call)' = product.nth \/ (Counter(threads[v].call)' = chunk /\ threads'[0].stage # "enter")
        BY <1>1 DEF Counter
      <4>3. threads'[0].stage # "enter" => chunk >= product.nth
        BY <1>1, <1>9 DEF Counting
      <4>. QED BY <4>2, <4>3, <1>3
    <3>2. threads'[v].call <= calls
      BY <1>3, <1>7
    <3>. QED BY <3>1, <3>2, <1>7
  <2>2. ASSUME NEW v \in Threads, NEW x \in Threads \ {v},
               threads'[v].stage \in {"enter", "gather"}, threads'[x].stage \in {"enter", "gather"}
        PROVE  threads'[v].job # threads'[x].job
    BY <2>1, <2>2
  <2>. QED BY <2>1, <2>2, <1>1, <1>3 DEF Jobs
<1>12. Barriers'
  <2>1. ASSUME NEW v \in Threads
        PROVE  /\ Position(calls, threads'[v]) \in Nat /\ Position(calls, threads'[v]) >= 4 * now + 4
               /\ v = w => Position(calls, threads[v]) = 4 * now + 4 /\ Floor(calls, threads'[v]) = 4 * now + 4
    <3> HIDE DEF calls
    <3>1. CASE threads'[v].stage = "leave"
      <4>1. threads'[v].call = now /\ v # w
        BY <3>1, <1>7
      <4>. QED BY <3>1, <4>1, <1>3, PositionIs
    <3>2. CASE threads'[v].stage \in {"enter", "gather"}
      <4>1. threads'[v].call = now + 1
        BY <3>2, <1>7
      <4>2. Position(calls, threads'[v]) \in {4 * (now + 1) + 1, 4 * (now + 1) + 2} /\ Floor(calls, threads'[v]) = 4 * (now + 1)
        BY <3>2, <4>1, PositionIs
      <4>3. v = w => Position(calls, threads[v]) = 4 * now + 4
        BY <1>1, PositionIs
      <4>. QED BY <4>2, <4>3, <1>3
    <3>. QED BY <3>1, <3>2, <1>7
  <2>2. ASSUME NEW v \in Threads
        PROVE  /\ Position(calls, threads'[v]) \in Nat
               /\ Position(calls, threads'[v]) >= Position(calls, threads[v])
               /\ \/ Floor(calls, threads'[v]) = Floor(calls, threads[v])
                  \/ \A x \in Threads : Position(calls, threads'[x]) >= Floor(calls, threads'[v])
    <3>1. CASE v = w
      <4> HIDE DEF calls
      <4>. QED BY <2>1, <3>1
    <3>2. CASE v # w
      <4>1. threads'[v] = threads[v] /\ Position(calls, threads[v]) \in Nat
        BY <3>2, <1>7, PositionsAreNumbers
      <4> HIDE DEF calls
      <4>. QED BY <4>1
    <3>. QED BY <3>1, <3>2
  <2>. QED BY <2>2, <1>1, BarriersStay
<1>13. ASSUME NEW q \in 1 .. product.calls, NEW j \in Nat
       PROVE  Pending(q, j)' <=> Pending(q, j)
  <2>1. q \in Nat
    OBVIOUS
  <2>2. CASE q <= now
    <3>1. \A v \in Threads : ~ Busy(v, q) /\ ~ Busy(v, q)'
      BY <2>1, <2>2, <1>3, <1>6, <1>7 DEF Busy
    <3>. QED BY <3>1, <1>3 DEF Pending
  <2>3. CASE q > now
    <3>1. Pending(q, j)
      <4>1. Busy(w, q) /\ threads[w].call < q
        BY <2>1, <2>3, <1>1, <1>3 DEF Busy
      <4>. QED BY <4>1 DEF Pending
    <3>2. Pending(q, j)'
      <4>1. CASE \E v \in Threads : threads'[v].call < q
        <5>1. PICK v \in Threads : threads'[v].call < q
          BY <4>1
        <5>2. Busy(v, q)'
          BY <5>1, <1>7 DEF Busy
        <5>. QED BY <5>1, <5>2, <1>3 DEF Pending
      <4>2. CASE ~ \E v \in Threads : threads'[v].call < q
        <5>1. q = now + 1
          BY <4>2, <2>1, <2>3, <1>3, <1>7
        <5>2. \A v \in Threads : threads'[v].stage \in {"enter", "gather"} /\ threads'[v].call = q /\ threads'[v].job = v
          BY <4>2, <5>1, <1>3, <1>7
        <5>3. \A v \in Threads : Busy(v, q)'
          BY <5>2 DEF Busy
        <5>4. CASE j < product.nth
          <6>1. j \in Threads
            BY <5>4, <1>3 DEF Threads
          <6>. QED BY <6>1, <5>2, <5>3, <1>3 DEF Pending
        <5>5. CASE j >= product.nth
          <6>1. Counter(q)' = product.nth
            <7>1. threads'[0].stage = "gather" => chunk = product.nth
              BY <5>2, <1>1, <1>3, <1>9 DEF Counting
            <7>. QED BY <7>1, <5>2, <1>1, <1>3 DEF Counter
          <6>. QED BY <6>1, <5>3, <5>5, <1>3 DEF Pending
        <5>. QED BY <5>4, <5>5, <1>3
      <4>. QED BY <4>1, <4>2
    <3>. QED BY <3>1, <3>2
  <2>. QED BY <2>1, <2>2, <2>3, <1>3
<1>14. JobsCounted'
  <2>1. NbJob(product) \in Nat
    BY ChunkFacts
  <2>2. \A q \in 1 .. product.calls : \A j \in 0 .. NbJob(product) - 1 : Pending(q, j)' <=> Pending(q, j)
    BY <1>13, <2>1
  <2>. QED BY <2>2, <1>1, StaysCounted
<1>. QED BY <1>1, <1>2, <1>8, <1>9, <1>11, <1>12, <1>14 DEF InChunks, ChunkInv

\* Every step of the float classes.
LEMMA ChunkStep ==
    ASSUME InChunks, NEW w \in Threads,
           Enter(w) \/ Gather(w) \/ Work(w) \/ Finish(w) \/ Leave(w) \/ Pack(w) \/ PackDone(w) \/ Tile(w) \/ TilesDone(w)
    PROVE  InChunks'
<1>1. threads[w].stage \notin {"pack", "tiled"}
  BY ChunkFacts
<1>2. ~ Pack(w) /\ ~ PackDone(w) /\ ~ Tile(w) /\ ~ TilesDone(w)
  <2>1. Pack(w) \/ PackDone(w) => threads[w].stage = "pack"
    BY DEF Pack, PackDone
  <2>2. Tile(w) \/ TilesDone(w) => threads[w].stage = "tiled"
    BY DEF Tile, TilesDone
  <2>. QED BY <1>1, <2>1, <2>2
<1>3. PICK now : now = threads[w].call
  OBVIOUS
<1>4. PICK mine : mine = threads[w].job
  OBVIOUS
<1>5. CASE Enter(w)
  BY <1>5, EnterKeeps
<1>6. CASE Gather(w)
  BY <1>6, GatherKeeps
<1>7. CASE Work(w)
  BY <1>3, <1>4, <1>7, WorkKeeps
<1>8. CASE Finish(w)
  BY <1>8, FinishKeeps
<1>9. CASE Leave(w)
  BY <1>3, <1>9, LastLeaveKeeps, NextCallKeeps
<1>. QED BY <1>2, <1>5, <1>6, <1>7, <1>8, <1>9

\* A product begins with every job to do.
LEMMA ChunkStarts ==
    ASSUME NEW p \in Products, Serves(p), Chunked(p), StartBlas(p)
    PROVE  InChunks
<1>1. /\ product = p /\ chunk = 0 /\ p.nth \in Nat \ {0} /\ p.calls \in Nat \ {0} /\ 0 \in Threads
      /\ Threads = 0 .. p.nth - 1 /\ \A v \in Threads : v \in Nat /\ v < p.nth
  BY ProductIs DEF StartBlas, Threads
<1>2. threads \in [Threads -> Postures]
      /\ \A v \in Threads : threads[v].call = 1 /\ threads[v].job = v /\ threads[v].stage = "enter"
  <2>1. threads = [v \in Threads |-> Begin(p, v, 1)]
    BY <1>1 DEF StartBlas
  <2>2. \A v \in Threads : /\ Begin(p, v, 1) \in Postures /\ Begin(p, v, 1).call = 1
                           /\ Begin(p, v, 1).job = v /\ Begin(p, v, 1).stage = "enter"
    <3>1. 1 \in Nat \ {0}
      OBVIOUS
    <3>. QED BY <1>1, <3>1, BeginIs
  <2>. QED BY <2>1, <2>2
<1>3. /\ c = [q \in 1 .. product.calls |-> [e \in Elements(product) |-> c[q][e]]]
      /\ \A q \in 1 .. product.calls : \A e \in Elements(product) : c[q][e] = 0
  <2>1. c = [q \in 1 .. product.calls |-> [e \in Elements(product) |-> 0]]
    BY <1>1 DEF StartBlas
  <2>. QED BY <2>1
<1>4. BlasShape
  BY <1>1, <1>2, <1>3 DEF BlasShape
<1>5. Barriers
  <2> DEFINE calls == product.calls
  <2>1. ASSUME NEW v \in Threads PROVE Position(calls, threads[v]) = 5 /\ Floor(calls, threads[v]) = 4
    <3>1. threads[v].stage = "enter" /\ threads[v].call = 1
      BY <1>2
    <3>2. Position(calls, threads[v]) = 4 * 1 + 1 /\ Floor(calls, threads[v]) = 4 * 1
      BY <3>1, PositionIs
    <3>. QED BY <3>2
  <2> HIDE DEF calls
  <2>2. \A w, v \in Threads : Position(calls, threads[v]) >= Floor(calls, threads[w])
    BY <2>1
  <2>. QED BY <2>2 DEF Barriers, calls
<1>6. \A q : Counter(q) = product.nth
  BY <1>1, <1>2 DEF Counter
<1>7. Jobs
  BY <1>1, <1>2, <1>6 DEF Jobs
<1>8. Counting
  BY <1>1, <1>2 DEF Counting
<1>9. ASSUME NEW q \in 1 .. product.calls, NEW j \in Nat PROVE Pending(q, j)
  <2>1. \A v \in Threads : Busy(v, q)
    BY <1>2 DEF Busy
  <2>2. CASE j < p.nth
    <3>1. j \in Threads
      BY <2>2, <1>1
    <3>. QED BY <3>1, <2>1, <1>2 DEF Pending
  <2>3. CASE j >= p.nth
    BY <2>1, <2>3, <1>1, <1>6 DEF Pending
  <2>. QED BY <2>2, <2>3, <1>1
<1>10. JobsCounted
  <2> SUFFICES ASSUME NEW q \in 1 .. product.calls, NEW e \in Elements(product)
               PROVE  c[q][e] = IF InProduct(e) /\ ~ Pending(q, JobOf(product, e)) THEN product.panels ELSE 0
    BY DEF JobsCounted
  <2>1. InProduct(e) => JobOf(product, e) \in 0 .. NbJob(product) - 1
    BY <1>1, JobsOnce DEF InProduct
  <2>2. InProduct(e) => JobOf(product, e) \in Nat
    BY <2>1
  <2>3. InProduct(e) => Pending(q, JobOf(product, e))
    BY <2>2, <1>9
  <2>. QED BY <2>3, <1>3
<1>. QED BY <1>1, <1>4, <1>5, <1>7, <1>8, <1>10 DEF InChunks, ChunkInv

\* When all threads are out no job is left.
LEMMA ChunksDone ==
    ASSUME InChunks, \A v \in Threads : threads[v].stage = "out",
           NEW q \in 1 .. product.calls, NEW e \in Elements(product)
    PROVE  c[q][e] = IF InProduct(e) THEN product.panels ELSE 0
<1>1. \A j : ~ Pending(q, j)
  BY DEF Pending, Busy
<1>. QED BY <1>1 DEF InChunks, ChunkInv, JobsCounted

-----------------------------------------------------------------------------
\* The cuts of mnpack.

\* A tile fits into what it cuts, and there is one for whatever is not empty.
TileFits(tile, a, b) ==
    /\ tile[1] \in Nat /\ tile[2] \in Nat
    /\ (tile[1] # 0 /\ tile[2] # 0) <=> (a > 0 /\ b > 0)
    /\ a > 0 /\ b > 0 => /\ tile[1] \in {1, 2, 3, 4, 8} /\ tile[1] <= a
                         /\ tile[2] \in {1, 2, 3, 4, 8} /\ tile[2] <= b

\* The smaller of a remainder and a tile size.
LEMMA LeastIs ==
    ASSUME NEW a \in Nat, NEW k \in {3, 4}
    PROVE  /\ Least(a, k) \in Nat /\ Least(a, k) <= a /\ (Least(a, k) # 0 <=> a > 0)
           /\ Least(a, k) \in {0, 1, 2, 3, k} /\ (a >= k => Least(a, k) = k) /\ (a < k => Least(a, k) = a)
BY DEF Least

\* The shapes of the three quantised classes of up to four rows and columns.
LEMMA SmallShapes ==
    ASSUME NEW a \in Nat, NEW b \in Nat
    PROVE  TileFits(ShapeArm(a, b), a, b) /\ TileFits(ShapeAvx32(a, b), a, b) /\ TileFits(ShapeAvx16(a, b), a, b)
<1>1. TileFits(ShapeArm(a, b), a, b)
  <2> DEFINE r == Least(a, 3)
             s == Least(b, 3)
  <2>1. /\ r \in {0, 1, 2, 3} /\ r <= a /\ (r # 0 <=> a > 0)
        /\ s \in {0, 1, 2, 3} /\ s <= b /\ (s # 0 <=> b > 0)
    BY LeastIs
  <2>2. ShapeArm(a, b) = <<r, s>>
    BY DEF ShapeArm
  <2> HIDE DEF r, s
  <2>. QED BY <2>1, <2>2 DEF TileFits
<1> DEFINE r == Least(a, 4)
           s == Least(b, 4)
<1>2. /\ r \in {0, 1, 2, 3, 4} /\ r <= a /\ (r # 0 <=> a > 0)
      /\ s \in {0, 1, 2, 3, 4} /\ s <= b /\ (s # 0 <=> b > 0)
  BY LeastIs
<1>3. TileFits(ShapeAvx32(a, b), a, b)
  <2>2. ShapeAvx32(a, b) = <<r, s>>
    BY DEF ShapeAvx32
  <2> HIDE DEF r, s
  <2>. QED BY <1>2, <2>2 DEF TileFits
<1>4. TileFits(ShapeAvx16(a, b), a, b)
  <2>1. ShapeAvx16(a, b) = CASE r = 4 /\ s >= 2         -> <<4, 2>>
                             [] r \in {2, 3} /\ s = 4   -> <<2, 4>>
                             [] r = 3 /\ s \in {2, 3}   -> <<3, 2>>
                             [] OTHER                   -> <<r, s>>
    BY DEF ShapeAvx16
  <2> HIDE DEF r, s
  <2>2. CASE r = 4 /\ s >= 2
    BY <1>2, <2>1, <2>2 DEF TileFits
  <2>3. CASE r \in {2, 3} /\ s = 4
    BY <1>2, <2>1, <2>3 DEF TileFits
  <2>4. CASE r = 3 /\ s \in {2, 3}
    BY <1>2, <2>1, <2>4 DEF TileFits
  <2>5. CASE ~ (r = 4 /\ s >= 2) /\ ~ (r \in {2, 3} /\ s = 4) /\ ~ (r = 3 /\ s \in {2, 3})
    BY <1>2, <2>1, <2>5 DEF TileFits
  <2>. QED BY <2>2, <2>3, <2>4, <2>5
<1>. QED BY <1>1, <1>3, <1>4

\* The shapes of the PowerPC classes.
LEMMA PpcShapes ==
    ASSUME NEW a \in Nat, NEW b \in Nat
    PROVE  /\ TileFits(ShapePpc(a, b), a, b)
           /\ (a < 4 => b % 8 \notin 5 .. 7) => TileFits(ShapeHp16(a, b), a, b)
<1>1. TileFits(ShapePpc(a, b), a, b)
  <2> DEFINE r == Least(a, 4)
             s == Least(b, 4)
  <2>1. /\ r \in {0, 1, 2, 3, 4} /\ r <= a /\ (r # 0 <=> a > 0)
        /\ s \in {0, 1, 2, 3, 4} /\ s <= b /\ (s # 0 <=> b > 0)
    BY LeastIs
  <2>2. ShapePpc(a, b) = CASE a >= 8 /\ b >= 8      -> <<8, 8>>
                           [] a \in 4 .. 7 /\ b >= 8 -> <<4, 8>>
                           [] a >= 8 /\ b \in 4 .. 7 -> <<8, 4>>
                           [] OTHER                  -> <<r, s>>
    BY DEF ShapePpc
  <2> HIDE DEF r, s
  <2>3. CASE a >= 8 /\ b >= 8
    BY <2>2, <2>3 DEF TileFits
  <2>4. CASE a \in 4 .. 7 /\ b >= 8
    BY <2>2, <2>4 DEF TileFits
  <2>5. CASE a >= 8 /\ b \in 4 .. 7
    BY <2>2, <2>5 DEF TileFits
  <2>6. CASE ~ (a >= 8 /\ b >= 8) /\ ~ (a \in 4 .. 7 /\ b >= 8) /\ ~ (a >= 8 /\ b \in 4 .. 7)
    BY <2>1, <2>2, <2>6 DEF TileFits
  <2>. QED BY <2>3, <2>4, <2>5, <2>6
<1>2. ASSUME a < 4 => b % 8 \notin 5 .. 7 PROVE TileFits(ShapeHp16(a, b), a, b)
  <2>1. ShapeHp16(a, b) = CASE a >= 8 /\ b >= 8           -> <<8, 8>>
                            [] a \in 4 .. 7 /\ b >= 8      -> <<4, 8>>
                            [] a >= 8 /\ b \in 4 .. 7      -> <<8, 4>>
                            [] a < 4 /\ b >= 8             -> <<a, 8>>
                            [] a \in 4 .. 7 /\ b \in 4 .. 7 -> <<4, 4>>
                            [] a > 4 /\ b < 4              -> <<4, b>>
                            [] a <= 4 /\ b <= 4            -> <<a, b>>
                            [] OTHER                       -> <<0, 0>>
    BY DEF ShapeHp16
  <2>2. ~ (a < 4 /\ b \in 5 .. 7)
    <3>1. b = 5 \/ b = 6 \/ b = 7 => b % 8 \in 5 .. 7
      OBVIOUS
    <3>. QED BY <3>1, <1>2
  <2>3. CASE a >= 8 /\ b >= 8
    BY <2>1, <2>3 DEF TileFits
  <2>4. CASE a \in 4 .. 7 /\ b >= 8
    BY <2>1, <2>4 DEF TileFits
  <2>5. CASE a >= 8 /\ b \in 4 .. 7
    BY <2>1, <2>5 DEF TileFits
  <2>6. CASE a < 4 /\ b >= 8
    BY <2>1, <2>6 DEF TileFits
  <2>7. CASE a \in 4 .. 7 /\ b \in 4 .. 7
    <3>1. ShapeHp16(a, b) \in {<<4, 4>>, <<a, b>>} /\ ((a = 4 /\ b = 4) \/ ShapeHp16(a, b) = <<4, 4>>)
      BY <2>1, <2>7
    <3>. QED BY <2>7, <3>1 DEF TileFits
  <2>8. CASE a > 4 /\ b < 4
    BY <2>1, <2>8 DEF TileFits
  <2>9. CASE a <= 4 /\ b <= 4 /\ ~ (a = 4 /\ b = 4)
    BY <2>1, <2>9 DEF TileFits
  <2>. QED BY <2>2, <2>3, <2>4, <2>5, <2>6, <2>7, <2>8, <2>9
<1>. QED BY <1>1, <1>2

\* Whatever is not empty has a tile, and it fits.
LEMMA ShapeIs ==
    ASSUME NEW p \in Products, NEW r \in Rects, r[1] <= r[2], r[3] <= r[4], HpFits(p, r), ~ Chunked(p)
    PROVE  /\ r[1] \in Nat /\ r[2] \in Nat /\ r[3] \in Nat /\ r[4] \in Nat
           /\ TileFits(Shape(p, r), r[2] - r[1], r[4] - r[3])
<1> DEFINE a == r[2] - r[1]
           b == r[4] - r[3]
<1>1. r[1] \in Nat /\ r[2] \in Nat /\ r[3] \in Nat /\ r[4] \in Nat /\ a \in Nat /\ b \in Nat
  BY DEF Rects
<1>2. p.family = "HP16_PPC" => (a < 4 => b % 8 \notin 5 .. 7)
  BY DEF HpFits
<1>3. p.family \in {"Q0_ARM", "Q0_AVX32", "Q0_AVX16", "HP16_PPC", "F32_PPC", "Q0_PPC"}
  BY ProductIs DEF Families, Chunked
<1>4. Shape(p, r) = CASE p.family = "Q0_ARM"   -> ShapeArm(a, b)
                      [] p.family = "Q0_AVX32" -> ShapeAvx32(a, b)
                      [] p.family = "Q0_AVX16" -> ShapeAvx16(a, b)
                      [] p.family = "HP16_PPC" -> ShapeHp16(a, b)
                      [] OTHER                 -> ShapePpc(a, b)
  BY DEF Shape
<1> HIDE DEF a, b
<1>5. \/ Shape(p, r) \in {ShapeArm(a, b), ShapeAvx32(a, b), ShapeAvx16(a, b), ShapePpc(a, b)}
      \/ p.family = "HP16_PPC" /\ Shape(p, r) = ShapeHp16(a, b)
  BY <1>3, <1>4
<1>6. TileFits(Shape(p, r), a, b)
  BY <1>1, <1>2, <1>5, SmallShapes, PpcShapes
<1>. QED BY <1>1, <1>6 DEF a, b

\* A cut of whole tiles lies inside.
LEMMA WholeTiles ==
    ASSUME NEW a \in Nat, NEW t \in Nat \ {0}, t <= a
    PROVE  /\ a \div t \in Nat \ {0} /\ (a \div t) * t \in Nat /\ (a \div t) * t > 0
           /\ (a \div t) * t <= a /\ a < (a \div t) * t + t
<1> DEFINE k == a \div t
           z == k * t
<1>1. k \in Nat /\ a % t \in Nat /\ a % t < t /\ t * k \in Nat /\ a = t * k + (a % t)
  BY DivMod
<1>2. z = t * k /\ (k = 0 => t * k = 0)
  <2> HIDE DEF k
  <2>. QED BY <1>1, ProductFacts
<1> HIDE DEF z, k
<1>3. k # 0 /\ z \in Nat /\ z > 0 /\ z <= a /\ a < z + t
  BY <1>1, <1>2
<1>. QED BY <1>1, <1>3 DEF k, z

\* Where a cut ends, and how many tiles it has.
LEMMA CutIs ==
    ASSUME NEW p \in Products, NEW r \in Rects, r[1] <= r[2], r[3] <= r[4], HpFits(p, r), ~ Chunked(p), Cuttable(p, r)
    PROVE  LET tile == Shape(p, r)
               ytiles == (r[2] - r[1]) \div tile[1]
               xtiles == (r[4] - r[3]) \div tile[2]
           IN  /\ tile[1] \in {1, 2, 3, 4, 8} /\ tile[2] \in {1, 2, 3, 4, 8}
               /\ tile[1] <= r[2] - r[1] /\ tile[2] <= r[4] - r[3]
               /\ ytiles \in Nat \ {0} /\ RowCut(p, r) = r[1] + ytiles * tile[1] /\ ytiles * tile[1] \in Nat
               /\ RowCut(p, r) \in Nat /\ r[1] < RowCut(p, r) /\ RowCut(p, r) <= r[2] /\ r[2] < RowCut(p, r) + tile[1]
               /\ xtiles \in Nat \ {0} /\ ColCut(p, r) = r[3] + xtiles * tile[2] /\ xtiles * tile[2] \in Nat
               /\ ColCut(p, r) \in Nat /\ r[3] < ColCut(p, r) /\ ColCut(p, r) <= r[4] /\ r[4] < ColCut(p, r) + tile[2]
<1> DEFINE tile == Shape(p, r)
           s == tile[1]
           t == tile[2]
           a == r[2] - r[1]
           d == r[4] - r[3]
           y == a \div s
           x == d \div t
<1>1. r[1] \in Nat /\ r[2] \in Nat /\ r[3] \in Nat /\ r[4] \in Nat /\ TileFits(tile, a, d)
  BY ShapeIs
<1>2. a \in Nat /\ d \in Nat /\ a = r[2] - r[1] /\ d = r[4] - r[3]
  BY <1>1
<1>3. s # 0 /\ t # 0
  BY DEF Cuttable
<1>4. RowCut(p, r) = r[1] + y * s /\ ColCut(p, r) = r[3] + x * t
  BY DEF RowCut, ColCut
<1> HIDE DEF tile, a, d
<1>5. s \in {1, 2, 3, 4, 8} /\ s <= a /\ t \in {1, 2, 3, 4, 8} /\ t <= d
  BY <1>1, <1>2, <1>3 DEF TileFits
<1>6. s \in Nat \ {0} /\ t \in Nat \ {0}
  BY <1>5
<1> HIDE DEF s, t
<1>7. y \in Nat \ {0} /\ y * s \in Nat /\ y * s > 0 /\ y * s <= a /\ a < y * s + s
  BY <1>2, <1>5, <1>6, WholeTiles
<1>8. x \in Nat \ {0} /\ x * t \in Nat /\ x * t > 0 /\ x * t <= d /\ d < x * t + t
  BY <1>2, <1>5, <1>6, WholeTiles
<1> DEFINE ys == y * s
           xt == x * t
<1> HIDE DEF y, x
<1>9. ys \in Nat /\ ys > 0 /\ ys <= a /\ a < ys + s /\ xt \in Nat /\ xt > 0 /\ xt <= d /\ d < xt + t
  BY <1>7, <1>8
<1>10. RowCut(p, r) = r[1] + ys /\ ColCut(p, r) = r[3] + xt
  BY <1>4
<1> HIDE DEF ys, xt
<1>11. /\ RowCut(p, r) \in Nat /\ r[1] < RowCut(p, r) /\ RowCut(p, r) <= r[2] /\ r[2] < RowCut(p, r) + s
       /\ ColCut(p, r) \in Nat /\ r[3] < ColCut(p, r) /\ ColCut(p, r) <= r[4] /\ r[4] < ColCut(p, r) + t
  BY <1>1, <1>2, <1>6, <1>9, <1>10
<1>. QED BY <1>4, <1>5, <1>7, <1>8, <1>11 DEF s, t, y, x, a, d, tile

\* A tile or job of a slice belongs to one thread.
LEMMA SliceOwner ==
    ASSUME NEW tiles \in Nat \ {0}, NEW p \in Products, NEW t \in 0 .. tiles - 1
    PROVE  /\ Duty(p, tiles) \in Nat \ {0} /\ t \div Duty(p, tiles) \in 0 .. p.nth - 1
           /\ \A w \in Nat : t \in Slice(p, w, tiles) <=> w = t \div Duty(p, tiles)
<1> DEFINE duty == Duty(p, tiles)
           o == t \div duty
           nth == p.nth
<1>1. nth \in Nat \ {0}
  BY ProductIs
<1>2. duty \in Nat \ {0} /\ tiles <= duty * nth
  <2> HIDE DEF nth
  <2>1. CeilDiv(tiles, nth) \in Nat /\ tiles <= CeilDiv(tiles, nth) * nth /\ CeilDiv(tiles, nth) > 0
    BY <1>1, CeilDivIs
  <2>. QED BY <2>1 DEF Duty, nth
<1> HIDE DEF duty
<1>3. o \in Nat /\ t % duty \in Nat /\ t % duty < duty /\ duty * o \in Nat /\ t = duty * o + (t % duty)
  BY <1>2, DivMod
<1>4. o < nth
  <2>1. o >= nth => nth * duty <= o * duty /\ nth * duty \in Nat /\ o * duty \in Nat
    <3> HIDE DEF nth, o
    <3>. QED BY <1>1, <1>2, <1>3, ProductMonotone
  <2>2. nth * duty = duty * nth /\ o * duty = duty * o
    <3> HIDE DEF nth, o
    <3>. QED BY <1>1, <1>2, <1>3, ProductFacts
  <2> DEFINE f == duty * nth
             g == duty * o
  <2>3. g \in Nat /\ t = g + (t % duty) /\ tiles <= f /\ (o >= nth => f <= g /\ f \in Nat)
    BY <1>2, <1>3, <2>1, <2>2
  <2> HIDE DEF f, g, nth, o
  <2>. QED BY <2>3, <1>1, <1>3
<1>5. ASSUME NEW w \in Nat PROVE t \in Slice(p, w, tiles) <=> w = o
  <2> DEFINE f == duty * w
  <2>1. f \in Nat
    BY <1>2, ProductFacts
  <2>2. Slice(p, w, tiles) = f .. Least(f + duty, tiles) - 1
    BY DEF Slice, duty
  <2>3. t \in Slice(p, w, tiles) <=> (f <= t /\ t < f + duty)
    <3> HIDE DEF f
    <3>. QED BY <2>1, <2>2, <1>2 DEF Least
  <2>4. ASSUME f <= t, t < f + duty PROVE w = o
    <3> DEFINE z == t - f
    <3>1. z \in Nat /\ z < duty /\ t \in Nat /\ t = f + z
      <4> HIDE DEF f
      <4>. QED BY <2>1, <2>4, <1>2
    <3> HIDE DEF z
    <3>. QED BY <3>1, <1>2, DivModUnique
  <2>5. ASSUME w = o PROVE f <= t /\ t < f + duty
    <3>1. f = duty * o
      BY <2>5
    <3> DEFINE g == duty * o
    <3>2. g \in Nat /\ t = g + (t % duty) /\ f = g
      BY <1>3, <3>1
    <3> HIDE DEF g, f, o
    <3>. QED BY <3>2, <1>2, <1>3
  <2>. QED BY <2>3, <2>4, <2>5
<1> HIDE DEF o, nth
<1>6. o \in 0 .. nth - 1
  BY <1>1, <1>3, <1>4
<1>. QED BY <1>2, <1>5, <1>6 DEF o, nth, duty

\* The accumulators of a tile share its elements.
LEMMA SavedOnce ==
    ASSUME NEW tile, tile[1] \in {1, 2, 3, 4, 8}, tile[2] \in {1, 2, 3, 4, 8},
           NEW i \in 0 .. tile[1] - 1, NEW j \in 0 .. tile[2] - 1
    PROVE  TimesSaved(tile, i, j) = 1
<1> DEFINE rows == IF tile[1] = 8 THEN {0, 4} ELSE {0}
           cols == IF tile[2] = 8 THEN {0, 4} ELSE {0}
           a == IF i >= 4 THEN 4 ELSE 0
           d == IF j >= 4 THEN 4 ELSE 0
           saved == {acc \in rows \X cols : /\ i \in acc[1] .. acc[1] + Least(tile[1], 4) - 1
                                            /\ j \in acc[2] .. acc[2] + Least(tile[2], 4) - 1}
<1>1. ASSUME NEW x \in rows PROVE i \in x .. x + Least(tile[1], 4) - 1 <=> x = a
  BY DEF Least
<1>2. ASSUME NEW x \in cols PROVE j \in x .. x + Least(tile[2], 4) - 1 <=> x = d
  BY DEF Least
<1>3. a \in rows /\ d \in cols
  OBVIOUS
<1> HIDE DEF a, d, rows, cols
<1>4. saved = {<<a, d>>}
  <2>1. <<a, d>> \in saved
    BY <1>1, <1>2, <1>3
  <2>2. ASSUME NEW acc \in saved PROVE acc = <<a, d>>
    <3>1. acc \in rows \X cols /\ acc[1] \in rows /\ acc[2] \in cols /\ acc = <<acc[1], acc[2]>>
      OBVIOUS
    <3>2. acc[1] = a /\ acc[2] = d
      BY <3>1, <1>1, <1>2
    <3>. QED BY <3>1, <3>2
  <2> HIDE DEF saved
  <2>. QED BY <2>1, <2>2
<1>5. Cardinality({<<a, d>>}) = 1
  BY FS_Singleton
<1>6. TimesSaved(tile, i, j) = Cardinality(saved)
  BY DEF TimesSaved, Accumulators, rows, cols
<1>. QED BY <1>4, <1>5, <1>6

\* The tile of an element inside a cut of whole tiles.
LEMMA QuotientBelow ==
    ASSUME NEW u \in Nat, NEW s \in Nat \ {0}, NEW k \in Nat
    PROVE  u \div s \in Nat /\ u % s \in 0 .. s - 1 /\ (u \div s < k <=> u < k * s)
<1> DEFINE q == u \div s
           qs == q * s
           ks == k * s
<1>1. q \in Nat /\ u % s \in Nat /\ u % s < s /\ s * q \in Nat /\ u = s * q + (u % s)
  BY DivMod
<1>2. qs = s * q /\ (q + 1) * s = qs + s /\ ks \in Nat
  <2> HIDE DEF q
  <2>. QED BY <1>1, ProductFacts
<1>3. ASSUME q < k PROVE qs + s <= ks
  <2>1. q + 1 \in Nat /\ q + 1 <= k
    BY <1>1, <1>3
  <2>2. (q + 1) * s <= ks
    <3> HIDE DEF q
    <3>. QED BY <2>1, ProductMonotone
  <2>. QED BY <1>2, <2>2
<1>4. ASSUME k <= q PROVE ks <= qs
  <2> HIDE DEF q
  <2>. QED BY <1>1, <1>4, ProductMonotone
<1> DEFINE sq == s * q
<1>5. sq \in Nat /\ u = sq + (u % s) /\ qs = sq
  BY <1>1, <1>2
<1> HIDE DEF qs, ks, sq
<1>6. q < k <=> u < ks
  <2> HIDE DEF q
  <2>. QED BY <1>1, <1>2, <1>3, <1>4, <1>5
<1>7. u % s \in 0 .. s - 1
  BY <1>1
<1>. QED BY <1>1, <1>6, <1>7 DEF q, ks

\* The tiles of a grid are numbered row by row.
LEMMA GridIndex ==
    ASSUME NEW X \in Nat \ {0}, NEW Y \in Nat \ {0}, NEW y \in 0 .. Y - 1, NEW x \in 0 .. X - 1
    PROVE  /\ X * Y \in Nat \ {0} /\ y * X + x \in 0 .. X * Y - 1
           /\ (y * X + x) \div X = y /\ (y * X + x) % X = x
<1> DEFINE t == y * X + x
           f == y * X
           n == X * Y
<1>1. y \in Nat /\ x \in Nat /\ x < X /\ y + 1 \in Nat /\ y + 1 <= Y
  OBVIOUS
<1>2. f \in Nat /\ f = X * y /\ (y + 1) * X = f + X
  BY <1>1, ProductFacts
<1>3. (y + 1) * X <= Y * X /\ Y * X = n /\ n \in Nat
  BY <1>1, ProductMonotone, ProductFacts
<1>4. f + X <= n /\ n \in Nat
  BY <1>2, <1>3
<1>5. t \in Nat /\ t < n /\ n # 0 /\ t = f + x
  <2>1. t = f + x
    OBVIOUS
  <2> HIDE DEF t, f, n
  <2>. QED BY <2>1, <1>1, <1>2, <1>4
<1>6. t \div X = y /\ t % X = x
  <2>1. t = X * y + x
    <3> DEFINE h == X * y
    <3>1. f = h
      BY <1>2
    <3> HIDE DEF h, f, t
    <3>. QED BY <3>1, <1>5 DEF h
  <2> HIDE DEF t
  <2>. QED BY <2>1, <1>1, <1>5, DivModUnique
<1> HIDE DEF t, n
<1>7. n \in Nat \ {0} /\ t \in 0 .. n - 1
  BY <1>5, <1>4
<1>. QED BY <1>6, <1>7 DEF t, n

\* One thread saves an element of a cut, once.
LEMMA SaverIs ==
    ASSUME NEW p \in Products, NEW r \in Rects, r[1] <= r[2], r[3] <= r[4], HpFits(p, r), ~ Chunked(p), Cuttable(p, r),
           NEW e, e[1] \in Nat, e[2] \in Nat
    PROVE  /\ InCut(p, r, e) => SaverOf(p, r, e) \in 0 .. p.nth - 1
           /\ \A w \in Nat : TimesInSlice(p, w, r, e) = IF InCut(p, r, e) /\ w = SaverOf(p, r, e) THEN 1 ELSE 0
<1> DEFINE tile == Shape(p, r)
           s == tile[1]
           t == tile[2]
           Y == (r[2] - r[1]) \div s
           X == (r[4] - r[3]) \div t
           u == e[1] - r[1]
           v == e[2] - r[3]
           y == u \div s
           x == v \div t
           k == y * X + x
           within == e[1] >= r[1] /\ e[2] >= r[3] /\ y < Y /\ x < X
<1>1. r[1] \in Nat /\ r[2] \in Nat /\ r[3] \in Nat /\ r[4] \in Nat
  BY DEF Rects
<1>2. /\ s \in {1, 2, 3, 4, 8} /\ t \in {1, 2, 3, 4, 8} /\ Y \in Nat \ {0} /\ X \in Nat \ {0}
      /\ RowCut(p, r) = r[1] + Y * s /\ Y * s \in Nat /\ RowCut(p, r) <= r[2] /\ RowCut(p, r) \in Nat
      /\ ColCut(p, r) = r[3] + X * t /\ X * t \in Nat /\ ColCut(p, r) <= r[4] /\ ColCut(p, r) \in Nat
  BY CutIs
<1>3. /\ SaverOf(p, r, e) = k \div Duty(p, X * Y)
      /\ \A w : TimesInSlice(p, w, r, e) = IF within /\ k \in Slice(p, w, X * Y)
                                           THEN TimesSaved(tile, u % s, v % t) ELSE 0
  <2>1. \A w : TimesInSlice(p, w, r, e) = IF e[1] >= r[1] /\ e[2] >= r[3] /\ y < Y /\ x < X /\ k \in Slice(p, w, X * Y)
                                          THEN TimesSaved(tile, u % s, v % t) ELSE 0
    BY DEF TimesInSlice
  <2>2. SaverOf(p, r, e) = k \div Duty(p, X * Y)
    BY DEF SaverOf
  <2> HIDE DEF tile, u, v, y, x, k, X, Y
  <2>. QED BY <2>1, <2>2
<1> HIDE DEF X, Y, tile
<1>4. s \in Nat \ {0} /\ t \in Nat \ {0}
  BY <1>2
<1>5. within <=> InCut(p, r, e)
  <2>1. e[1] >= r[1] => u \in Nat /\ (y < Y <=> u < Y * s)
    <3> SUFFICES ASSUME e[1] >= r[1] PROVE u \in Nat /\ (y < Y <=> u < Y * s)
      OBVIOUS
    <3>1. u \in Nat
      BY <1>1
    <3> HIDE DEF u, s
    <3>. QED BY <3>1, <1>2, <1>4, QuotientBelow
  <2>2. e[2] >= r[3] => v \in Nat /\ (x < X <=> v < X * t)
    <3> SUFFICES ASSUME e[2] >= r[3] PROVE v \in Nat /\ (x < X <=> v < X * t)
      OBVIOUS
    <3>1. v \in Nat
      BY <1>1
    <3> HIDE DEF v, t
    <3>. QED BY <3>1, <1>2, <1>4, QuotientBelow
  <2> DEFINE ys == Y * s
             xt == X * t
  <2>3. ys \in Nat /\ xt \in Nat /\ RowCut(p, r) = r[1] + ys /\ ColCut(p, r) = r[3] + xt
    BY <1>2
  <2>4. (e[1] >= r[1] => (y < Y <=> u < ys)) /\ (e[2] >= r[3] => (x < X <=> v < xt))
    BY <2>1, <2>2
  <2> HIDE DEF ys, xt, y, x
  <2>5. within <=> e[1] >= r[1] /\ e[2] >= r[3] /\ u < ys /\ v < xt
    BY <2>4
  <2>6. e[1] >= r[1] /\ e[2] >= r[3] => (u < ys <=> e[1] < RowCut(p, r)) /\ (v < xt <=> e[2] < ColCut(p, r))
    BY <1>1, <2>3
  <2>7. InCut(p, r, e) <=> e[1] >= r[1] /\ e[2] >= r[3] /\ e[1] < RowCut(p, r) /\ e[2] < ColCut(p, r)
    BY <1>1, <1>2 DEF InCut, Inside
  <2> HIDE DEF u, v
  <2>. QED BY <2>5, <2>6, <2>7
<1>6. ASSUME within
      PROVE  /\ SaverOf(p, r, e) \in 0 .. p.nth - 1 /\ TimesSaved(tile, u % s, v % t) = 1
             /\ \A w \in Nat : k \in Slice(p, w, X * Y) <=> w = SaverOf(p, r, e)
  <2>1. u \in Nat /\ v \in Nat
    BY <1>1, <1>6
  <2>2. y \in Nat /\ u % s \in 0 .. s - 1 /\ x \in Nat /\ v % t \in 0 .. t - 1
    <3> HIDE DEF u, v, s, t
    <3>. QED BY <2>1, <1>2, <1>4, QuotientBelow
  <2>3. TimesSaved(tile, u % s, v % t) = 1
    BY <2>2, <1>2, SavedOnce
  <2>4. y \in 0 .. Y - 1 /\ x \in 0 .. X - 1
    <3> HIDE DEF y, x
    <3>. QED BY <2>2, <1>2, <1>6
  <2>5. X * Y \in Nat \ {0} /\ k \in 0 .. X * Y - 1
    <3> HIDE DEF y, x
    <3>. QED BY <2>4, <1>2, GridIndex
  <2> DEFINE n == X * Y
  <2> HIDE DEF n, k
  <2>6. k \div Duty(p, n) \in 0 .. p.nth - 1 /\ \A w \in Nat : k \in Slice(p, w, n) <=> w = k \div Duty(p, n)
    BY <2>5, SliceOwner DEF n
  <2>. QED BY <2>3, <2>6, <1>3 DEF n
<1> HIDE DEF within, k, u, v, s, t
<1>. QED BY <1>3, <1>5, <1>6

\* The 16-bit PowerPC tiles are eight columns wide, or there is one beside the other.
LEMMA HpTiles ==
    ASSUME NEW a \in Nat \ {0}, NEW b \in Nat \ {0}, a < 4 => b % 8 \notin 5 .. 7
    PROVE  LET t == ShapeHp16(a, b)[2] IN t = 8 \/ (t \in {1, 2, 3, 4} /\ t <= b /\ b < t + t)
<1>1. ShapeHp16(a, b) = CASE a >= 8 /\ b >= 8           -> <<8, 8>>
                          [] a \in 4 .. 7 /\ b >= 8      -> <<4, 8>>
                          [] a >= 8 /\ b \in 4 .. 7      -> <<8, 4>>
                          [] a < 4 /\ b >= 8             -> <<a, 8>>
                          [] a \in 4 .. 7 /\ b \in 4 .. 7 -> <<4, 4>>
                          [] a > 4 /\ b < 4              -> <<4, b>>
                          [] a <= 4 /\ b <= 4            -> <<a, b>>
                          [] OTHER                       -> <<0, 0>>
  BY DEF ShapeHp16
<1>2. ~ (a < 4 /\ b \in 5 .. 7)
  <2>1. b = 5 \/ b = 6 \/ b = 7 => b % 8 \in 5 .. 7
    OBVIOUS
  <2>. QED BY <2>1
<1> DEFINE t == ShapeHp16(a, b)[2]
<1>3. CASE b >= 8
  <2>1. t = 8
    BY <1>1, <1>3
  <2>. QED BY <2>1
<1>4. CASE b \in 5 .. 7
  <2>1. a >= 4
    BY <1>2, <1>4
  <2>2. t = 4
    <3>1. CASE a >= 8
      BY <1>1, <1>4, <3>1
    <3>2. CASE a \in 4 .. 7
      BY <1>1, <1>4, <3>2
    <3>. QED BY <2>1, <3>1, <3>2
  <2>. QED BY <1>4, <2>2
<1>5. CASE b = 4
  <2>1. t = 4
    <3>1. CASE a >= 8
      BY <1>1, <1>5, <3>1
    <3>2. CASE a \in 4 .. 7
      <4>1. ShapeHp16(a, b) \in {<<4, 4>>, <<a, b>>}
        BY <1>1, <1>5, <3>2
      <4>. QED BY <4>1, <1>5
    <3>3. CASE a < 4
      BY <1>1, <1>5, <3>3
    <3>. QED BY <3>1, <3>2, <3>3
  <2>. QED BY <1>5, <2>1
<1>6. CASE b \in 1 .. 3
  <2>1. t = b
    <3>1. CASE a > 4
      BY <1>1, <1>6, <3>1
    <3>2. CASE a <= 4
      BY <1>1, <1>6, <3>2
    <3>. QED BY <3>1, <3>2
  <2>. QED BY <1>6, <2>1
<1>. QED BY <1>3, <1>4, <1>5, <1>6

\* The remainders of a cut of the 16-bit PowerPC class can be cut too.
LEMMA HpRemainders ==
    ASSUME NEW p \in Products, NEW r \in Rects, r[1] <= r[2], r[3] <= r[4], HpFits(p, r), ~ Chunked(p), Cuttable(p, r)
    PROVE  HpFits(p, Below(p, r)) /\ HpFits(p, Beside(p, r))
<1> SUFFICES ASSUME p.family = "HP16_PPC" PROVE HpFits(p, Below(p, r)) /\ HpFits(p, Beside(p, r))
  BY DEF HpFits
<1> DEFINE a == r[2] - r[1]
           b == r[4] - r[3]
           t == Shape(p, r)[2]
           X == b \div t
           xt == X * t
<1>1. r[1] \in Nat /\ r[2] \in Nat /\ r[3] \in Nat /\ r[4] \in Nat
  BY DEF Rects
<1>2. /\ Shape(p, r)[1] \in {1, 2, 3, 4, 8} /\ t \in {1, 2, 3, 4, 8} /\ Shape(p, r)[1] <= a /\ t <= b
      /\ X \in Nat \ {0} /\ ColCut(p, r) = r[3] + xt /\ xt \in Nat
      /\ ColCut(p, r) \in Nat /\ ColCut(p, r) <= r[4] /\ r[4] < ColCut(p, r) + t
  BY CutIs
<1>3. a \in Nat \ {0} /\ b \in Nat \ {0}
  BY <1>1, <1>2
<1>4. a < 4 => b % 8 \notin 5 .. 7
  BY DEF HpFits
<1>5. Shape(p, r) = ShapeHp16(a, b)
  BY DEF Shape
<1>6. t = 8 \/ (t \in {1, 2, 3, 4} /\ t <= b /\ b < t + t)
  <2> HIDE DEF a, b
  <2>. QED BY <1>3, <1>4, <1>5, HpTiles
<1> DEFINE rest == r[4] - ColCut(p, r)
<1>7. rest \in Nat /\ b = xt + rest /\ rest < t /\ xt <= b
  <2> HIDE DEF xt, t
  <2>. QED BY <1>1, <1>2
<1>8. (t = 8 => xt % 8 = 0 /\ rest % 8 = b % 8) /\ (t # 8 => xt = t)
  <2>1. CASE t = 8
    <3> HIDE DEF X, rest, t, b
    <3>1. xt = 8 * X + 0 /\ 0 \in Nat /\ 8 \in Nat \ {0} /\ X \in Nat /\ b = 8 * X + rest /\ rest \in Nat /\ rest < 8 /\ xt \in Nat /\ b \in Nat
      BY <2>1, <1>2, <1>3, <1>7
    <3>2. xt % 8 = 0
      <4> HIDE DEF xt
      <4>. QED BY <3>1, DivModUnique
    <3>3. b % 8 = rest
      BY <3>1, DivModUnique
    <3>4. rest % 8 = rest
      BY <3>1, SmallResidue
    <3>. QED BY <2>1, <3>2, <3>3, <3>4
  <2>2. CASE t # 8
    <3>1. t \in Nat \ {0} /\ b < t + t /\ t <= b
      BY <2>2, <1>6
    <3>2. t * 1 + (b - t) = b /\ b - t \in Nat /\ b - t < t /\ 1 \in Nat
      <4> HIDE DEF b, t
      <4>. QED BY <3>1, <1>3
    <3>3. X = 1
      <4> DEFINE d == b - t
      <4>1. b = t * 1 + d /\ d \in Nat /\ d < t
        BY <3>2
      <4> HIDE DEF b, t, d
      <4>2. b \div t = 1
        BY <4>1, <3>1, <3>2, <1>3, DivModUnique
      <4>. QED BY <4>2
    <3>4. xt = t
      <4> HIDE DEF X, t
      <4>. QED BY <3>1, <3>3
    <3>. QED BY <2>2, <3>4
  <2>. QED BY <2>1, <2>2
<1> HIDE DEF t, X, a, b
<1>9. HpFits(p, Below(p, r))
  <2>1. Below(p, r)[3] = r[3] /\ Below(p, r)[4] = ColCut(p, r)
    BY DEF Below
  <2>2. ColCut(p, r) - r[3] = xt
    <3> HIDE DEF xt
    <3>. QED BY <1>1, <1>2
  <2>3. xt % 8 \notin 5 .. 7
    <3> HIDE DEF xt
    <3>1. t # 8 => xt \in {1, 2, 3, 4}
      BY <1>6, <1>8
    <3>. QED BY <1>8, <3>1
  <2>. QED BY <2>1, <2>2, <2>3 DEF HpFits
<1>10. HpFits(p, Beside(p, r))
  <2>1. Beside(p, r)[1] = r[1] /\ Beside(p, r)[2] = r[2] /\ Beside(p, r)[3] = ColCut(p, r) /\ Beside(p, r)[4] = r[4]
    BY DEF Beside
  <2>2. a < 4 => rest % 8 \notin 5 .. 7
    <3> HIDE DEF rest
    <3>1. t # 8 => rest \in {0, 1, 2, 3}
      BY <1>6, <1>7
    <3>. QED BY <1>4, <1>8, <3>1
  <2>. QED BY <2>1, <2>2 DEF HpFits, a
<1>. QED BY <1>9, <1>10

\* A cut leaves two remainders, and every element is in one of the three.
LEMMA RemaindersAre ==
    ASSUME NEW p \in Products, NEW r, Fits(p, r), ~ Chunked(p), Cuttable(p, r)
    PROVE  /\ Fits(p, Below(p, r)) /\ Fits(p, Beside(p, r))
           /\ \A e : e[1] \in Nat /\ e[2] \in Nat =>
                /\ Inside(Below(p, r), e)  => Inside(r, e) /\ ~ InCut(p, r, e) /\ ~ Inside(Beside(p, r), e) /\ Onward(p, r, e) = Below(p, r)
                /\ Inside(Beside(p, r), e) => Inside(r, e) /\ ~ InCut(p, r, e) /\ Onward(p, r, e) = Beside(p, r)
                /\ Inside(r, e) => InCut(p, r, e) \/ Inside(Below(p, r), e) \/ Inside(Beside(p, r), e)
<1> DEFINE y == RowCut(p, r)
           x == ColCut(p, r)
<1>1. /\ r \in Rects /\ r[1] <= r[2] /\ r[2] <= p.m /\ TiledBase(p) <= r[3] /\ r[3] <= r[4] /\ r[4] <= p.n
      /\ HpFits(p, r)
  BY DEF Fits
<1>2. r[1] \in Nat /\ r[2] \in Nat /\ r[3] \in Nat /\ r[4] \in Nat
  BY <1>1 DEF Rects
<1>3. y \in Nat /\ r[1] < y /\ y <= r[2] /\ x \in Nat /\ r[3] < x /\ x <= r[4]
  BY <1>1, CutIs
<1>4. HpFits(p, Below(p, r)) /\ HpFits(p, Beside(p, r))
  BY <1>1, HpRemainders
<1>5. Below(p, r) = <<y, r[2], r[3], x>> /\ Beside(p, r) = <<r[1], r[2], x, r[4]>>
  BY DEF Below, Beside
<1>6. p.m \in Nat /\ p.n \in Nat
  BY ProductIs
<1> HIDE DEF y, x
<1>7. TiledBase(p) <= x /\ x <= p.n
  <2>1. TiledBase(p) \in Nat
    <3>1. TileColumns(p) \in Nat
      BY <1>6 DEF TileColumns
    <3>. QED BY <3>1 DEF TiledBase
  <2>. QED BY <2>1, <1>1, <1>2, <1>3, <1>6
<1>8. Fits(p, Below(p, r))
  <2>1. Below(p, r) \in Rects
    BY <1>2, <1>3, <1>5 DEF Rects
  <2>. QED BY <2>1, <1>1, <1>2, <1>3, <1>4, <1>5, <1>7 DEF Fits
<1>9. Fits(p, Beside(p, r))
  <2>1. Beside(p, r) \in Rects
    BY <1>2, <1>3, <1>5 DEF Rects
  <2>. QED BY <2>1, <1>1, <1>2, <1>3, <1>4, <1>5, <1>7 DEF Fits
<1>10. ASSUME NEW e, e[1] \in Nat, e[2] \in Nat
       PROVE  /\ Inside(Below(p, r), e)  => Inside(r, e) /\ ~ InCut(p, r, e) /\ ~ Inside(Beside(p, r), e) /\ Onward(p, r, e) = Below(p, r)
              /\ Inside(Beside(p, r), e) => Inside(r, e) /\ ~ InCut(p, r, e) /\ Onward(p, r, e) = Beside(p, r)
              /\ Inside(r, e) => InCut(p, r, e) \/ Inside(Below(p, r), e) \/ Inside(Beside(p, r), e)
  <2>1. /\ Inside(r, e) <=> r[1] <= e[1] /\ e[1] < r[2] /\ r[3] <= e[2] /\ e[2] < r[4]
        /\ Inside(Below(p, r), e) <=> y <= e[1] /\ e[1] < r[2] /\ r[3] <= e[2] /\ e[2] < x
        /\ Inside(Beside(p, r), e) <=> r[1] <= e[1] /\ e[1] < r[2] /\ x <= e[2] /\ e[2] < r[4]
    BY <1>2, <1>3, <1>5, <1>10 DEF Inside
  <2>2. InCut(p, r, e) <=> Inside(r, e) /\ e[1] < y /\ e[2] < x
    BY DEF InCut, y, x
  <2>3. Onward(p, r, e) = IF e[2] < x THEN Below(p, r) ELSE Beside(p, r)
    BY DEF Onward, x
  <2>. QED BY <2>1, <2>2, <2>3, <1>2, <1>3, <1>10
<1>. QED BY <1>8, <1>9, <1>10

\* The thread that saves an element of a cut, and of what a cut leaves.
LEMMA SaversCut ==
    ASSUME NEW p, NEW e, NEW r \in Rects, InCut(p, r, e)
    PROVE  Savers(p, r, e) = {SaverOf(p, r, e)}
<1>1. ASSUME NEW s \in Rects, Leads(p, e, r, s) PROVE s = r
  <2>1. {r} \in SUBSET Rects /\ r \in {r} /\ \A x \in {r} : InCut(p, x, e) \/ Onward(p, x, e) \in {r}
    OBVIOUS
  <2>2. s \in {r}
    BY <1>1, <2>1, Zenon DEF Leads
  <2>. QED BY <2>2
<1>2. Leads(p, e, r, r)
  BY Zenon DEF Leads
<1>3. {x \in Rects : Leads(p, e, r, x) /\ InCut(p, x, e)} = {r}
  <2> HIDE DEF Rects
  <2>. QED BY <1>1, <1>2
<1>. QED BY <1>3 DEF Savers

\* An element outside a cut is saved by who saves it in the remainder it falls into.
LEMMA SaversNext ==
    ASSUME NEW p, NEW e, NEW r \in Rects, NEW o \in Rects, ~ InCut(p, r, e), o = Onward(p, r, e)
    PROVE  Savers(p, r, e) = Savers(p, o, e)
<1> HIDE DEF Rects
<1>1. ASSUME NEW s \in Rects, Leads(p, e, o, s) PROVE Leads(p, e, r, s)
  <2> SUFFICES ASSUME NEW C \in SUBSET Rects, r \in C, \A x \in C : InCut(p, x, e) \/ Onward(p, x, e) \in C
               PROVE  s \in C
    BY DEF Leads
  <2>1. o \in C
    OBVIOUS
  <2>. QED BY <1>1, <2>1, Zenon DEF Leads
<1>2. ASSUME NEW s \in Rects, Leads(p, e, r, s), InCut(p, s, e) PROVE Leads(p, e, o, s)
  <2> SUFFICES ASSUME NEW C \in SUBSET Rects, o \in C, \A x \in C : InCut(p, x, e) \/ Onward(p, x, e) \in C
               PROVE  s \in C
    BY DEF Leads
  <2> DEFINE E == C \cup {r}
  <2>1. E \in SUBSET Rects /\ r \in E /\ \A x \in E : InCut(p, x, e) \/ Onward(p, x, e) \in E
    OBVIOUS
  <2> HIDE DEF E
  <2>2. s \in E
    BY <1>2, <2>1, Zenon DEF Leads
  <2>3. s # r
    BY <1>2
  <2>. QED BY <2>2, <2>3 DEF E
<1>3. {x \in Rects : Leads(p, e, r, x) /\ InCut(p, x, e)} = {x \in Rects : Leads(p, e, o, x) /\ InCut(p, x, e)}
  BY <1>1, <1>2
<1>. QED BY <1>3 DEF Savers

\* Pushing what is left of a cut, when there is a tile for it.
LEMMA PushIs ==
    ASSUME NEW p \in Products, ~ Chunked(p), NEW s, StackOk(p, s), NEW r, Fits(p, r),
           \A e \in Elements(p) : Inside(r, e) => ~ OnStack(s, e) /\ Savers(p, r, e) = Savers(p, Root(p), e)
    PROVE  /\ StackOk(p, Push(p, r, s))
           /\ \A e \in Elements(p) : OnStack(Push(p, r, s), e) <=> Inside(r, e) \/ OnStack(s, e)
<1>1. s \in Seq(Rects) /\ r \in Rects /\ Len(s) \in Nat /\ DOMAIN s = 1 .. Len(s)
  <2>1. s \in Seq(Rects) /\ r \in Rects
    BY DEF StackOk, Fits
  <2> HIDE DEF Rects
  <2>. QED BY <2>1
<1>2. CASE ~ Cuttable(p, r)
  <2>1. Push(p, r, s) = s
    BY <1>2 DEF Push
  <2>2. ASSUME NEW e \in Elements(p) PROVE ~ Inside(r, e)
    <3>1. /\ r[1] \in Nat /\ r[2] \in Nat /\ r[3] \in Nat /\ r[4] \in Nat
          /\ TileFits(Shape(p, r), r[2] - r[1], r[4] - r[3]) /\ r[1] <= r[2] /\ r[3] <= r[4]
      BY <1>1, ShapeIs DEF Fits
    <3>2. ~ (r[2] - r[1] > 0 /\ r[4] - r[3] > 0)
      BY <3>1, <1>2 DEF TileFits, Cuttable
    <3>3. r[1] .. r[2] - 1 = {} \/ r[3] .. r[4] - 1 = {}
      BY <3>1, <3>2
    <3>. QED BY <3>3 DEF Inside
  <2>. QED BY <2>1, <2>2
<1>3. CASE Cuttable(p, r)
  <2> DEFINE n == <<r>> \o s
  <2>1. Push(p, r, s) = n
    BY <1>3 DEF Push
  <2>2. /\ n \in Seq(Rects) /\ DOMAIN n = 1 .. Len(s) + 1 /\ n[1] = r
        /\ \A i \in 2 .. Len(s) + 1 : i - 1 \in DOMAIN s /\ n[i] = s[i - 1]
    <3> HIDE DEF Rects
    <3>. QED BY <1>1
  <2>3. \A i \in DOMAIN s : i + 1 \in 2 .. Len(s) + 1 /\ (i + 1) - 1 = i
    BY <1>1
  <2> HIDE DEF n
  <2>4. ASSUME NEW e \in Elements(p) PROVE OnStack(n, e) <=> Inside(r, e) \/ OnStack(s, e)
    <3>1. ASSUME OnStack(n, e) PROVE Inside(r, e) \/ OnStack(s, e)
      <4>1. PICK i \in 1 .. Len(s) + 1 : Inside(n[i], e)
        BY <3>1, <2>2 DEF OnStack
      <4>2. i = 1 \/ i \in 2 .. Len(s) + 1
        BY <1>1
      <4>. QED BY <4>1, <4>2, <2>2 DEF OnStack
    <3>2. ASSUME Inside(r, e) PROVE OnStack(n, e)
      <4>1. 1 \in DOMAIN n
        BY <1>1, <2>2
      <4>. QED BY <3>2, <4>1, <2>2 DEF OnStack
    <3>3. ASSUME OnStack(s, e) PROVE OnStack(n, e)
      <4>1. PICK i \in DOMAIN s : Inside(s[i], e)
        BY <3>3 DEF OnStack
      <4>2. i + 1 \in DOMAIN n /\ n[i + 1] = s[i]
        BY <1>1, <2>2, <2>3
      <4>. QED BY <4>1, <4>2 DEF OnStack
    <3>. QED BY <3>1, <3>2, <3>3
  <2>5. ASSUME NEW i \in DOMAIN n
        PROVE  /\ Fits(p, n[i]) /\ Cuttable(p, n[i])
               /\ \A e \in Elements(p) : Inside(n[i], e) => Savers(p, n[i], e) = Savers(p, Root(p), e)
    <3>1. i = 1 \/ i \in 2 .. Len(s) + 1
      BY <1>1, <2>2
    <3>2. CASE i = 1
      BY <3>2, <2>2, <1>3
    <3>3. CASE i \in 2 .. Len(s) + 1
      BY <3>3, <2>2 DEF StackOk
    <3>. QED BY <3>1, <3>2, <3>3
  <2>6. ASSUME NEW i \in DOMAIN n, NEW j \in DOMAIN n, i # j, NEW e \in Elements(p), Inside(n[i], e), Inside(n[j], e)
        PROVE  FALSE
    <3>1. /\ i = 1 \/ i \in 2 .. Len(s) + 1
          /\ j = 1 \/ j \in 2 .. Len(s) + 1
      BY <1>1, <2>2
    <3>2. CASE i = 1
      <4>1. j \in 2 .. Len(s) + 1
        BY <2>6, <3>1, <3>2
      <4>. QED BY <2>2, <2>6, <3>2, <4>1 DEF OnStack
    <3>3. CASE j = 1
      <4>1. i \in 2 .. Len(s) + 1
        BY <2>6, <3>1, <3>3
      <4>. QED BY <2>2, <2>6, <3>3, <4>1 DEF OnStack
    <3>4. CASE i \in 2 .. Len(s) + 1 /\ j \in 2 .. Len(s) + 1
      <4>1. i - 1 \in DOMAIN s /\ j - 1 \in DOMAIN s /\ i - 1 # j - 1 /\ n[i] = s[i - 1] /\ n[j] = s[j - 1]
        BY <2>2, <2>6, <3>4, <1>1
      <4>. QED BY <4>1, <2>6 DEF StackOk
    <3>. QED BY <3>1, <3>2, <3>3, <3>4
  <2>. QED BY <2>1, <2>2, <2>4, <2>5, <2>6 DEF StackOk
<1>. QED BY <1>2, <1>3

\* The topmost cut and the ones below it share no element.
LEMMA PopIs ==
    ASSUME NEW p \in Products, NEW s, StackOk(p, s), s # << >>
    PROVE  /\ StackOk(p, Tail(s)) /\ Fits(p, Head(s)) /\ Cuttable(p, Head(s))
           /\ \A e \in Elements(p) :
                /\ OnStack(s, e) <=> Inside(Head(s), e) \/ OnStack(Tail(s), e)
                /\ ~ (Inside(Head(s), e) /\ OnStack(Tail(s), e))
                /\ Inside(Head(s), e) => Savers(p, Head(s), e) = Savers(p, Root(p), e)
<1> DEFINE r == Head(s)
           n == Tail(s)
<1>1. /\ s \in Seq(Rects) /\ Len(s) \in Nat /\ DOMAIN s = 1 .. Len(s)
      /\ \A i \in DOMAIN s : /\ Fits(p, s[i]) /\ Cuttable(p, s[i])
                             /\ \A e \in Elements(p) : Inside(s[i], e) => Savers(p, s[i], e) = Savers(p, Root(p), e)
      /\ \A i, j \in DOMAIN s : i # j => \A e \in Elements(p) : ~ (Inside(s[i], e) /\ Inside(s[j], e))
  <2>1. s \in Seq(Rects)
    BY DEF StackOk
  <2>2. Len(s) \in Nat /\ DOMAIN s = 1 .. Len(s)
    <3> HIDE DEF Rects
    <3>. QED BY <2>1
  <2>. QED BY <2>1, <2>2 DEF StackOk
<1>2. /\ Len(s) # 0 /\ r = s[1] /\ n \in Seq(Rects) /\ DOMAIN n = 1 .. Len(s) - 1
      /\ \A i \in 1 .. Len(s) - 1 : n[i] = s[i + 1]
  <2> HIDE DEF Rects
  <2>. QED BY <1>1
<1>3. 1 \in DOMAIN s /\ \A i \in 1 .. Len(s) - 1 : i + 1 \in DOMAIN s /\ i + 1 # 1
  BY <1>1, <1>2
<1> HIDE DEF r, n
<1>4. Fits(p, r) /\ Cuttable(p, r) /\ \A e \in Elements(p) : Inside(r, e) => Savers(p, r, e) = Savers(p, Root(p), e)
  BY <1>1, <1>2, <1>3
<1>5. StackOk(p, n)
  <2>1. \A i \in DOMAIN n : /\ Fits(p, n[i]) /\ Cuttable(p, n[i])
                            /\ \A e \in Elements(p) : Inside(n[i], e) => Savers(p, n[i], e) = Savers(p, Root(p), e)
    BY <1>1, <1>2, <1>3
  <2>2. ASSUME NEW i \in DOMAIN n, NEW j \in DOMAIN n, i # j, NEW e \in Elements(p)
        PROVE  ~ (Inside(n[i], e) /\ Inside(n[j], e))
    <3>1. i + 1 \in DOMAIN s /\ j + 1 \in DOMAIN s /\ i + 1 # j + 1 /\ n[i] = s[i + 1] /\ n[j] = s[j + 1]
      BY <1>1, <1>2, <1>3, <2>2
    <3>. QED BY <1>1, <3>1
  <2>. QED BY <1>2, <2>1, <2>2 DEF StackOk
<1>6. ASSUME NEW e \in Elements(p)
      PROVE  (OnStack(s, e) <=> Inside(r, e) \/ OnStack(n, e)) /\ ~ (Inside(r, e) /\ OnStack(n, e))
  <2>1. ASSUME OnStack(s, e) PROVE Inside(r, e) \/ OnStack(n, e)
    <3>1. PICK i \in DOMAIN s : Inside(s[i], e)
      BY <2>1 DEF OnStack
    <3>2. CASE i = 1
      BY <3>1, <3>2, <1>2
    <3>3. CASE i # 1
      <4>1. i - 1 \in 1 .. Len(s) - 1 /\ (i - 1) + 1 = i
        BY <3>3, <1>1
      <4>2. i - 1 \in DOMAIN n /\ n[i - 1] = s[i]
        BY <4>1, <1>2
      <4>. QED BY <3>1, <4>2 DEF OnStack
    <3>. QED BY <3>2, <3>3
  <2>2. ASSUME Inside(r, e) PROVE OnStack(s, e)
    BY <2>2, <1>2, <1>3 DEF OnStack
  <2>3. ASSUME OnStack(n, e) PROVE OnStack(s, e) /\ ~ Inside(r, e)
    <3>1. PICK i \in DOMAIN n : Inside(n[i], e)
      BY <2>3 DEF OnStack
    <3>2. i + 1 \in DOMAIN s /\ i + 1 # 1 /\ n[i] = s[i + 1]
      BY <3>1, <1>2, <1>3
    <3>3. ~ Inside(s[1], e)
      BY <1>1, <1>3, <3>1, <3>2
    <3>. QED BY <3>1, <3>2, <3>3, <1>2 DEF OnStack
  <2>. QED BY <2>1, <2>2, <2>3
<1>. QED BY <1>4, <1>5, <1>6 DEF r, n

\* The cut that is made and its two remainders.
LEMMA RemaindersKeep ==
    ASSUME NEW p \in Products, ~ Chunked(p), NEW s, StackOk(p, s), s # << >>
    PROVE  LET r == Head(s)
               n == Remainders(p, r, Tail(s))
           IN  /\ StackOk(p, n)
               /\ \A e \in Elements(p) :
                    /\ OnStack(n, e) <=> OnStack(s, e) /\ ~ InCut(p, r, e)
                    /\ InCut(p, r, e) => OnStack(s, e) /\ Savers(p, Root(p), e) = {SaverOf(p, r, e)}
<1> DEFINE r == Head(s)
           rest == Tail(s)
           n1 == Push(p, Beside(p, r), rest)
           n == Push(p, Below(p, r), n1)
<1>1. /\ StackOk(p, rest) /\ Fits(p, r) /\ Cuttable(p, r)
      /\ \A e \in Elements(p) : /\ OnStack(s, e) <=> Inside(r, e) \/ OnStack(rest, e)
                                /\ ~ (Inside(r, e) /\ OnStack(rest, e))
                                /\ Inside(r, e) => Savers(p, r, e) = Savers(p, Root(p), e)
  BY PopIs
<1>2. Remainders(p, r, rest) = n
  BY DEF Remainders
<1> HIDE DEF r, rest
<1>3. \A e \in Elements(p) : e[1] \in Nat /\ e[2] \in Nat
  BY ProductIs DEF Elements, Margin
<1>4. /\ Fits(p, Below(p, r)) /\ Fits(p, Beside(p, r))
      /\ \A e \in Elements(p) :
                /\ Inside(Below(p, r), e)  => Inside(r, e) /\ ~ InCut(p, r, e) /\ ~ Inside(Beside(p, r), e) /\ Onward(p, r, e) = Below(p, r)
                /\ Inside(Beside(p, r), e) => Inside(r, e) /\ ~ InCut(p, r, e) /\ Onward(p, r, e) = Beside(p, r)
                /\ Inside(r, e) => InCut(p, r, e) \/ Inside(Below(p, r), e) \/ Inside(Beside(p, r), e)
  BY <1>1, <1>3, RemaindersAre
<1>5. r \in Rects /\ Below(p, r) \in Rects /\ Beside(p, r) \in Rects
  BY <1>1, <1>4 DEF Fits
<1>6. ASSUME NEW e \in Elements(p), Inside(Beside(p, r), e)
      PROVE  ~ OnStack(rest, e) /\ Savers(p, Beside(p, r), e) = Savers(p, Root(p), e)
  <2>1. Savers(p, r, e) = Savers(p, Beside(p, r), e)
    BY <1>4, <1>5, <1>6, SaversNext
  <2>. QED BY <2>1, <1>1, <1>4, <1>6
<1>7. StackOk(p, n1) /\ \A e \in Elements(p) : OnStack(n1, e) <=> Inside(Beside(p, r), e) \/ OnStack(rest, e)
  BY <1>1, <1>4, <1>6, PushIs
<1> HIDE DEF n1
<1>8. ASSUME NEW e \in Elements(p), Inside(Below(p, r), e)
      PROVE  ~ OnStack(n1, e) /\ Savers(p, Below(p, r), e) = Savers(p, Root(p), e)
  <2>1. Savers(p, r, e) = Savers(p, Below(p, r), e)
    BY <1>4, <1>5, <1>8, SaversNext
  <2>. QED BY <2>1, <1>1, <1>4, <1>7, <1>8
<1>9. StackOk(p, n) /\ \A e \in Elements(p) : OnStack(n, e) <=> Inside(Below(p, r), e) \/ OnStack(n1, e)
  BY <1>4, <1>7, <1>8, PushIs
<1> HIDE DEF n
<1>10. ASSUME NEW e \in Elements(p)
       PROVE  /\ OnStack(n, e) <=> OnStack(s, e) /\ ~ InCut(p, r, e)
              /\ InCut(p, r, e) => OnStack(s, e) /\ Savers(p, Root(p), e) = {SaverOf(p, r, e)}
  <2>1. InCut(p, r, e) => Inside(r, e)
    BY DEF InCut
  <2>2. InCut(p, r, e) => Savers(p, r, e) = {SaverOf(p, r, e)}
    BY <1>5, SaversCut
  <2>. QED BY <2>1, <2>2, <1>1, <1>4, <1>7, <1>9
<1>. QED BY <1>2, <1>9, <1>10 DEF r, rest

-----------------------------------------------------------------------------
\* The tiled paths.

\* A number rounded down to a multiple.
LEMMA RoundDown ==
    ASSUME NEW n \in Nat, NEW k \in Nat \ {0}
    PROVE  (n \div k) * k \in Nat /\ (n \div k) * k <= n /\ ((n \div k) * k) % k = 0
<1> DEFINE q == n \div k
           z == q * k
<1>1. q \in Nat /\ n % k \in Nat /\ k * q \in Nat /\ n = k * q + (n % k)
  BY DivMod
<1>2. z = k * q
  <2> HIDE DEF q
  <2>. QED BY <1>1, ProductFacts
<1> DEFINE h == k * q
<1>3. h \in Nat /\ n = h + (n % k) /\ z = h /\ h = k * q + 0
  BY <1>1, <1>2
<1>4. z % k = 0
  <2> HIDE DEF q, h, z
  <2>0. 0 \in Nat /\ 0 < k
    OBVIOUS
  <2>1. h % k = 0
    BY <1>1, <1>3, <2>0, DivModUnique
  <2>. QED BY <2>1, <1>3
<1> HIDE DEF h, z
<1>. QED BY <1>1, <1>3, <1>4 DEF z

\* The width of a tile: a multiple of eight that divides the columns.
LEMMA TileWidths ==
    ASSUME NEW p \in Products, Tiled(p), ~ Uncovered(p)
    PROVE  /\ TileColumns(p) \in Nat \ {0} /\ TileColumns(p) <= p.n
           /\ TileWidth(p) \in Nat \ {0} /\ TileWidth(p) % 8 = 0 /\ TileColumns(p) % TileWidth(p) = 0
           /\ TileRows(p) \in {64, 256} /\ p.m % TileRows(p) = 0 /\ p.m \in Nat
<1> DEFINE n == p.n
           k == TileColumns(p)
<1>1. n \in Nat /\ p.m \in Nat
  BY ProductIs
<1>2. /\ p.family = "F32_PPC" \/ p.family = "Q0_PPC"
      /\ k > 0 /\ p.m % TileRows(p) = 0 /\ (p.family = "F32_PPC" => n % 256 = 0) /\ ~ (p.family = "Q0_PPC" /\ n = 4)
  BY DEF Tiled, Uncovered
<1>3. TileRows(p) \in {64, 256}
  BY DEF TileRows
<1>4. k = IF p.family = "F32_PPC" THEN n
          ELSE IF n % 64 = 0 \/ n = 4 THEN n
          ELSE IF n < 64 THEN (n \div 8) * 8 ELSE (n \div 64) * 64
  BY DEF TileColumns
<1>5. TileWidth(p) = IF p.family = "F32_PPC" THEN 256
                     ELSE IF k % 64 = 0 THEN 64 ELSE IF k = n THEN k
                     ELSE IF k % 32 = 0 THEN 32 ELSE IF k % 24 = 0 THEN 24 ELSE IF k % 16 = 0 THEN 16 ELSE 8
  BY DEF TileWidth
<1> HIDE DEF k
<1>6. CASE p.family = "F32_PPC"
  <2>1. k = n /\ TileWidth(p) = 256
    BY <1>4, <1>5, <1>6
  <2>. QED BY <2>1, <1>1, <1>2, <1>3, <1>6 DEF k
<1>7. CASE p.family # "F32_PPC"
  <2> DEFINE a == (n \div 8) * 8
             d == (n \div 64) * 64
  <2>1. a \in Nat /\ a <= n /\ a % 8 = 0 /\ d \in Nat /\ d <= n /\ d % 64 = 0
    <3>1. 8 \in Nat \ {0} /\ 64 \in Nat \ {0}
      OBVIOUS
    <3> HIDE DEF n
    <3>. QED BY <1>1, <3>1, RoundDown
  <2>2. k = IF n % 64 = 0 THEN n ELSE IF n < 64 THEN a ELSE d
    BY <1>2, <1>4, <1>7
  <2> HIDE DEF a, d, n
  <2>3. k \in Nat \ {0} /\ k <= n /\ (k % 64 = 0 \/ k % 8 = 0)
    BY <1>1, <1>2, <2>1, <2>2
  <2>4. k % 8 = 0
    BY <2>3
  <2>5. CASE k % 64 = 0
    <3>1. TileWidth(p) = 64
      BY <1>5, <1>7, <2>5
    <3>. QED BY <3>1, <2>3, <2>5, <1>1, <1>2, <1>3 DEF k, n
  <2>6. CASE k % 64 # 0 /\ k = n
    <3>1. TileWidth(p) = k
      BY <1>5, <1>7, <2>6
    <3>2. k % k = 0
      BY <2>3
    <3>. QED BY <3>1, <3>2, <2>3, <2>4, <1>1, <1>2, <1>3 DEF k, n
  <2>7. CASE k % 64 # 0 /\ k # n
    <3>1. TileWidth(p) \in {32, 24, 16, 8} /\ k % TileWidth(p) = 0
      BY <1>5, <1>7, <2>4, <2>7
    <3>. QED BY <3>1, <2>3, <1>1, <1>2, <1>3 DEF k, n
  <2>. QED BY <2>5, <2>6, <2>7
<1>. QED BY <1>6, <1>7

\* A number divided exactly.
LEMMA WholeParts ==
    ASSUME NEW a \in Nat, NEW k \in Nat \ {0}, a % k = 0
    PROVE  a \div k \in Nat /\ a = (a \div k) * k /\ (a > 0 => a \div k > 0)
<1> DEFINE q == a \div k
           z == q * k
<1>1. q \in Nat /\ k * q \in Nat /\ a = k * q + 0
  BY DivMod
<1>2. z = k * q /\ (q = 0 => z = 0)
  <2> HIDE DEF q
  <2>. QED BY <1>1, ProductFacts
<1> DEFINE h == k * q
<1>3. h \in Nat /\ a = h + 0 /\ z = h
  BY <1>1, <1>2
<1> HIDE DEF h, z, q
<1>4. a = z /\ (a > 0 => q > 0)
  BY <1>1, <1>2, <1>3
<1>. QED BY <1>1, <1>4 DEF z, q

\* The band of a given width that a number lies in.
LEMMA InBand ==
    ASSUME NEW x \in Nat, NEW w \in Nat \ {0}, NEW b \in Nat
    PROVE  x - b * w \in 0 .. w - 1 <=> b = x \div w
<1> DEFINE q == x \div w
           f == b * w
<1>1. q \in Nat /\ x % w \in Nat /\ x % w < w /\ w * q \in Nat /\ x = w * q + (x % w)
  BY DivMod
<1>2. f \in Nat /\ f = w * b
  BY ProductFacts
<1>3. ASSUME x - f \in 0 .. w - 1 PROVE b = q
  <2> DEFINE d == x - f
             h == w * b
  <2>1. d \in Nat /\ d < w /\ x = h + d
    <3> HIDE DEF f, h
    <3>1. f = h
      BY <1>2 DEF h
    <3>. QED BY <3>1, <1>2, <1>3
  <2> HIDE DEF d
  <2>. QED BY <2>1, DivModUnique
<1>4. ASSUME b = q PROVE x - f \in 0 .. w - 1
  <2> DEFINE h == w * q
  <2>1. f = h /\ h \in Nat /\ x = h + (x % w)
    BY <1>1, <1>2, <1>4
  <2> HIDE DEF f, h, q
  <2>. QED BY <2>1, <1>1
<1>. QED BY <1>3, <1>4

\* The tiled columns and rows are whole tiles, and tiles whole accumulators.
LEMMA TiledIs ==
    ASSUME NEW p \in Products, Tiled(p), ~ Uncovered(p)
    PROVE  LET TW == TileWidth(p)  TR == TileRows(p)
               X == TileColumns(p) \div TW  Y == p.m \div TR
           IN  /\ TW \in Nat \ {0} /\ TR \in Nat \ {0} /\ X \in Nat \ {0} /\ Y \in Nat
               /\ TileColumns(p) = X * TW /\ p.m = Y * TR /\ TileCount(p) = X * Y
               /\ CeilDiv(TW, 8) * 8 = TW /\ CeilDiv(TR, 16) * 16 = TR
<1> DEFINE TW == TileWidth(p)
           TR == TileRows(p)
           k == TileColumns(p)
           m == p.m
<1>1. /\ k \in Nat \ {0} /\ TW \in Nat \ {0} /\ TW % 8 = 0 /\ k % TW = 0
      /\ TR \in {64, 256} /\ m % TR = 0 /\ m \in Nat
  BY TileWidths
<1>2. TileCount(p) = (k \div TW) * (m \div TR)
  BY DEF TileCount
<1> HIDE DEF TW, TR, k, m
<1>3. k \div TW \in Nat \ {0} /\ k = (k \div TW) * TW
  <2>1. k \div TW \in Nat /\ k = (k \div TW) * TW /\ (k > 0 => k \div TW > 0)
    BY <1>1, WholeParts
  <2> DEFINE q == k \div TW
  <2>2. q \in Nat /\ q > 0
    BY <1>1, <2>1
  <2> HIDE DEF q
  <2>3. q \in Nat \ {0}
    BY <2>2
  <2>. QED BY <2>1, <2>3 DEF q
<1>4. m \div TR \in Nat /\ m = (m \div TR) * TR
  <2>1. TR \in Nat \ {0}
    BY <1>1
  <2>. QED BY <1>1, <2>1, WholeParts
<1>5. CeilDiv(TW, 8) * 8 = TW
  <2> DEFINE q == TW \div 8
  <2>1. q \in Nat /\ TW = q * 8
    BY <1>1, WholeParts
  <2> HIDE DEF q
  <2>2. CeilDiv(q * 8, 8) = q
    BY <2>1, CeilDivExact
  <2>. QED BY <2>1, <2>2
<1>6. CeilDiv(TR, 16) * 16 = TR
  <2>1. CeilDiv(64, 16) = 4 /\ CeilDiv(256, 16) = 16
    BY DEF CeilDiv
  <2>. QED BY <1>1, <2>1
<1>7. TR \in Nat \ {0}
  BY <1>1
<1>. QED BY <1>1, <1>2, <1>3, <1>4, <1>5, <1>6, <1>7 DEF TW, TR, k, m

\* Every element of the tiled columns belongs to one tile, the others to none.
LEMMA TilesAre ==
    ASSUME NEW p \in Products, Tiled(p), ~ Uncovered(p), NEW e \in Elements(p)
    PROVE  /\ e[2] < TileColumns(p) => TileOf(p, e) \in 0 .. TileCount(p) - 1 /\ TileIs(p, TileOf(p, e), e)
           /\ e[2] >= TileColumns(p) => \A k \in 0 .. TileCount(p) - 1 : TimesInTile(p, k, e) = 0
<1> DEFINE TW == TileWidth(p)
           TR == TileRows(p)
           X == TileColumns(p) \div TW
           Y == p.m \div TR
           y == e[1] \div TR
           x == e[2] \div TW
           N == TileCount(p)
<1>1. /\ TW \in Nat \ {0} /\ TR \in Nat \ {0} /\ X \in Nat \ {0} /\ Y \in Nat
      /\ TileColumns(p) = X * TW /\ p.m = Y * TR /\ N = X * Y
      /\ CeilDiv(TW, 8) * 8 = TW /\ CeilDiv(TR, 16) * 16 = TR
  BY TiledIs
<1>2. e[1] \in Nat /\ e[2] \in Nat /\ e[1] < p.m /\ p.m \in Nat
  BY ProductIs DEF Elements, Margin
<1>3. \A k : TimesInTile(p, k, e) = IF e[1] - (k \div X) * TR \in 0 .. TR - 1 /\ e[2] - (k % X) * TW \in 0 .. TW - 1 THEN 1 ELSE 0
  BY <1>1 DEF TimesInTile
<1>4. y \in Nat /\ y < Y /\ x \in Nat /\ (x < X <=> e[2] < TileColumns(p))
  <2> HIDE DEF TW, TR, X, Y
  <2>. QED BY <1>1, <1>2, QuotientBelow
<1> HIDE DEF TW, TR, X, Y, N
<1>5. ASSUME NEW k \in 0 .. N - 1
      PROVE  /\ k \div X \in Nat /\ k % X \in Nat /\ k % X < X /\ k = X * (k \div X) + (k % X)
             /\ TimesInTile(p, k, e) = IF k \div X = y /\ k % X = x THEN 1 ELSE 0
  <2>1. k \in Nat
    BY <1>1, ProductFacts
  <2>2. k \div X \in Nat /\ k % X \in Nat /\ k % X < X /\ k = X * (k \div X) + (k % X)
    BY <1>1, <2>1, DivMod
  <2> DEFINE b == k \div X
             d == k % X
  <2>0. b \in Nat /\ d \in Nat
    BY <2>2
  <2> HIDE DEF b, d
  <2>3. e[1] - b * TR \in 0 .. TR - 1 <=> b = y
    BY <1>1, <1>2, <2>0, InBand
  <2>4. e[2] - d * TW \in 0 .. TW - 1 <=> d = x
    BY <1>1, <1>2, <2>0, InBand
  <2> HIDE DEF y, x
  <2>. QED BY <1>3, <2>2, <2>3, <2>4 DEF b, d
<1> HIDE DEF y, x
<1>6. ASSUME e[2] >= TileColumns(p), NEW k \in 0 .. N - 1 PROVE TimesInTile(p, k, e) = 0
  <2>1. ~ (x < X)
    <3>1. TileColumns(p) \in Nat
      BY TileWidths
    <3>. QED BY <3>1, <1>2, <1>4, <1>6
  <2>2. k % X # x
    BY <2>1, <1>5
  <2>. QED BY <1>5, <2>2
<1>7. ASSUME e[2] < TileColumns(p) PROVE TileOf(p, e) \in 0 .. N - 1 /\ TileIs(p, TileOf(p, e), e)
  <2> DEFINE j == y * X + x
  <2>1. y \in 0 .. Y - 1 /\ x \in 0 .. X - 1 /\ Y \in Nat \ {0}
    BY <1>1, <1>4, <1>7
  <2>2. j \in 0 .. N - 1 /\ j \div X = y /\ j % X = x
    BY <1>1, <2>1, GridIndex
  <2>3. ASSUME NEW k \in 0 .. N - 1 PROVE TimesInTile(p, k, e) = IF k = j THEN 1 ELSE 0
    <3>1. CASE k = j
      <4> HIDE DEF j
      <4>1. k \div X = y /\ k % X = x
        BY <2>2, <3>1
      <4>. QED BY <4>1, <3>1, <1>5
    <3>2. CASE k # j
      <4>1. ASSUME k \div X = y, k % X = x PROVE k = j
        <5>1. k = X * y + x /\ X * y = y * X
          BY <1>1, <1>4, <1>5, <4>1, ProductFacts
        <5>. QED BY <5>1
      <4> HIDE DEF j
      <4>. QED BY <4>1, <3>2, <1>5
    <3>. QED BY <3>1, <3>2
  <2> HIDE DEF j
  <2>4. TileIs(p, j, e)
    BY <2>3 DEF TileIs, N
  <2>5. \E k \in 0 .. N - 1 : TileIs(p, k, e)
    BY <2>2, <2>4
  <2> DEFINE T(k) == TileIs(p, k, e)
  <2>6. \E k \in 0 .. N - 1 : T(k)
    BY <2>5
  <2> HIDE DEF T
  <2>7. (CHOOSE k \in 0 .. N - 1 : T(k)) \in 0 .. N - 1 /\ T(CHOOSE k \in 0 .. N - 1 : T(k))
    BY <2>6
  <2>8. TileOf(p, e) = CHOOSE k \in 0 .. N - 1 : T(k)
    BY DEF TileOf, T, N
  <2>. QED BY <2>7, <2>8 DEF T
<1>. QED BY <1>6, <1>7 DEF N

\* A thread does the tiles of its slice.
LEMMA OwnerIs ==
    ASSUME NEW p \in Products, Tiled(p), ~ Uncovered(p), NEW e \in Elements(p), e[2] < TiledBase(p)
    PROVE  /\ TileOf(p, e) \in 0 .. TileCount(p) - 1 /\ TileIs(p, TileOf(p, e), e) /\ TileOwner(p, e) \in 0 .. p.nth - 1
           /\ TileOf(p, e) \in Nat
           /\ \A w \in Nat : TileOf(p, e) \in TileSlice(p, w) <=> w = TileOwner(p, e)
<1> DEFINE j == TileOf(p, e)
           N == TileCount(p)
<1>1. j \in 0 .. N - 1 /\ TileIs(p, j, e)
  BY TilesAre DEF TiledBase
<1>2. N \in Nat
  <2>1. N = (TileColumns(p) \div TileWidth(p)) * (p.m \div TileRows(p))
    BY DEF TileCount
  <2>2. TileColumns(p) \div TileWidth(p) \in Nat /\ p.m \div TileRows(p) \in Nat
    BY TiledIs
  <2>. QED BY <2>1, <2>2, ProductFacts
<1> HIDE DEF j, N
<1>3. N \in Nat \ {0} /\ j \in Nat
  BY <1>1, <1>2
<1>4. j \div Duty(p, N) \in 0 .. p.nth - 1 /\ \A w \in Nat : j \in Slice(p, w, N) <=> w = j \div Duty(p, N)
  BY <1>1, <1>3, SliceOwner
<1>. QED BY <1>1, <1>3, <1>4 DEF j, N, TileOwner, TileSlice

InPacks == BlasShape /\ Serves(product) /\ ~ Chunked(product) /\ ~ Uncovered(product) /\ PackInv

\* The types of what the classes with mnpack keep.
LEMMA PackFacts ==
    ASSUME InPacks
    PROVE  /\ product \in Products /\ product.calls = 1 /\ product.panels \in Nat \ {0} /\ product.nth \in Nat \ {0}
           /\ threads \in [Threads -> Postures]
           /\ \A w \in Threads :
                /\ w \in Nat /\ w < product.nth /\ threads[w] \in Postures /\ threads[w].job \in Nat /\ threads[w].panel \in Nat
                /\ threads[w].call = 1 /\ threads[w].stage \in {"tiled", "pack", "out"}
           /\ \A e \in Elements(product) : e[1] \in Nat /\ e[2] \in Nat /\ e[1] < product.m
           /\ product.m \in Nat /\ product.n \in Nat /\ TiledBase(product) \in Nat
<1>1. product \in Products /\ threads \in [Threads -> Postures] /\ ~ Chunked(product)
  BY DEF InPacks, BlasShape
<1>2. product.calls = 1 /\ product.panels \in Nat \ {0} /\ product.nth \in Nat \ {0} /\ product.m \in Nat /\ product.n \in Nat
  BY <1>1, ProductIs
<1>3. ASSUME NEW w \in Threads
      PROVE  /\ w \in Nat /\ w < product.nth /\ threads[w] \in Postures /\ threads[w].job \in Nat /\ threads[w].panel \in Nat
             /\ threads[w].call = 1 /\ threads[w].stage \in {"tiled", "pack", "out"}
  <2>1. w \in Nat /\ w < product.nth
    BY <1>2 DEF Threads
  <2>2. threads[w] \in Postures
    BY <1>1
  <2>3. threads[w].job \in Nat /\ threads[w].panel \in Nat
    BY <2>2 DEF Postures
  <2>4. threads[w].call = 1 /\ threads[w].stage \in {"tiled", "pack", "out"}
    BY DEF InPacks, PackInv, InTurn
  <2>. QED BY <2>1, <2>2, <2>3, <2>4
<1>4. \A e \in Elements(product) : e[1] \in Nat /\ e[2] \in Nat /\ e[1] < product.m
  BY <1>2 DEF Elements, Margin
<1>5. TiledBase(product) \in Nat
  <2>1. TileColumns(product) \in Nat
    BY <1>2 DEF TileColumns
  <2>. QED BY <2>1 DEF TiledBase
<1>. QED BY <1>1, <1>2, <1>3, <1>4, <1>5

\* Where no stack changes, no element is cut.
LEMMA StacksStay ==
    ASSUME InPacks, product' = product, \A v \in Threads : threads'[v].stack = threads[v].stack
    PROVE  Cuts' /\ Found' /\ \A v \in Threads : \A e : Waiting(v, e)' <=> Waiting(v, e)
<1>1. Threads' = Threads
  BY DEF Threads
<1>2. \A v \in Threads : \A e : Waiting(v, e)' <=> Waiting(v, e)
  BY DEF Waiting
<1>3. Cuts'
  <2>1. \A v \in Threads : StackOk(product, threads'[v].stack)
    BY DEF InPacks, PackInv, Cuts
  <2>. QED BY <1>1, <2>1 DEF Cuts
<1>4. Found'
  <2>1. ASSUME NEW w \in Threads, NEW e \in Elements(product), Inside(Root(product), e), ~ Waiting(w, e)'
        PROVE  \E v \in Threads : Savers(product, Root(product), e) = {v}
    BY <1>2, <2>1 DEF InPacks, PackInv, Found
  <2>. QED BY <1>1, <2>1 DEF Found
<1>. QED BY <1>2, <1>3, <1>4

\* Where no panel is done either, C stays as it is.
LEMMA PacksStay ==
    ASSUME InPacks, product' = product, c' = c, \A v \in Threads : threads'[v].stack = threads[v].stack,
           \A e \in Elements(product) : Tiled(product) /\ e[2] < TiledBase(product) =>
              PanelsDone(product.panels, threads'[TileOwner(product, e)], TileOf(product, e))
                = PanelsDone(product.panels, threads[TileOwner(product, e)], TileOf(product, e))
    PROVE  Cuts' /\ Found' /\ PacksCounted'
<1>1. Threads' = Threads
  BY DEF Threads
<1>2. Cuts' /\ Found' /\ \A v \in Threads : \A e : Waiting(v, e)' <=> Waiting(v, e)
  BY StacksStay
<1>3. ASSUME NEW e \in Elements(product)
      PROVE  c[1][e] = IF ~ InProduct(e) THEN 0
                       ELSE IF e[2] < TiledBase(product)
                            THEN PanelsDone(product.panels, threads'[TileOwner(product, e)], TileOf(product, e))
                       ELSE IF \E v \in Threads : v \in Savers(product, Root(product), e) /\ ~ Waiting(v, e)'
                            THEN product.panels ELSE 0
  <2>1. c[1][e] = IF ~ InProduct(e) THEN 0
                  ELSE IF e[2] < TiledBase(product)
                       THEN PanelsDone(product.panels, threads[TileOwner(product, e)], TileOf(product, e))
                  ELSE IF \E v \in Threads : v \in Savers(product, Root(product), e) /\ ~ Waiting(v, e)
                       THEN product.panels ELSE 0
    BY DEF InPacks, PackInv, PacksCounted
  <2>2. e[2] < TiledBase(product) => Tiled(product)
    <3>1. e[2] \in Nat
      BY PackFacts
    <3>. QED BY <3>1 DEF TiledBase
  <2>3. (\E v \in Threads : v \in Savers(product, Root(product), e) /\ ~ Waiting(v, e)')
          <=> (\E v \in Threads : v \in Savers(product, Root(product), e) /\ ~ Waiting(v, e))
    BY <1>2
  <2> DEFINE now == PanelsDone(product.panels, threads'[TileOwner(product, e)], TileOf(product, e))
             then == PanelsDone(product.panels, threads[TileOwner(product, e)], TileOf(product, e))
  <2>4. e[2] < TiledBase(product) => now = then
    BY <2>2
  <2> HIDE DEF now, then
  <2>. QED BY <2>1, <2>3, <2>4 DEF now, then
<1>4. \A e : InProduct(e)' <=> InProduct(e)
  BY DEF InProduct
<1>5. PacksCounted'
  BY <1>1, <1>3, <1>4 DEF PacksCounted
<1>. QED BY <1>2, <1>5

\* The threads of a step that leaves the product alone.
LEMMA PackShapeStays ==
    ASSUME InPacks, product' = product, chunk' = chunk, threads' \in [Threads -> Postures],
           c' = [q \in 1 .. product'.calls |-> [e \in Elements(product)' |-> c'[q][e]]],
           Cuts', Found', InTurn', PacksCounted'
    PROVE  InPacks'
<1>1. Threads' = Threads
  BY DEF Threads
<1>2. BlasShape'
  BY <1>1 DEF InPacks, BlasShape
<1>3. PackInv'
  BY DEF PackInv
<1>. QED BY <1>2, <1>3 DEF InPacks

\* C keeps its shape where it keeps its elements.
LEMMA ShapeOfC ==
    ASSUME InPacks, product' = product, c' = c
    PROVE  c' = [q \in 1 .. product'.calls |-> [e \in Elements(product)' |-> c'[q][e]]]
<1>1. Elements(product)' = Elements(product)
  BY DEF Elements
<1>. QED BY <1>1 DEF InPacks, BlasShape

\* A thread with no cut left.
LEMMA PackDoneKeeps ==
    ASSUME InPacks, NEW w \in Threads, PackDone(w)
    PROVE  InPacks'
<1> DEFINE u == Restaged(threads[w], "out")
<1>1. /\ threads[w].stage = "pack" /\ threads[w].stack = << >>
      /\ Move(w, u) /\ product' = product /\ c' = c /\ chunk' = chunk
  BY DEF PackDone, Restaged
<1>2. threads \in [Threads -> Postures] /\ threads[w] \in Postures /\ product \in Products /\ product.nth \in Nat \ {0}
  BY PackFacts
<1>3. /\ u \in Postures /\ u.stage = "out" /\ u.call = threads[w].call /\ u.job = threads[w].job
      /\ u.panel = threads[w].panel /\ u.stack = threads[w].stack
  BY <1>2, RestageIs
<1> HIDE DEF u
<1>4. threads' \in [Threads -> Postures] /\ threads'[w] = u /\ \A v \in Threads \ {w} : threads'[v] = threads[v]
  BY <1>1, <1>2, <1>3, MoveIs
<1>5. \A v \in Threads : threads'[v].stack = threads[v].stack
  BY <1>3, <1>4
<1>6. ASSUME NEW e \in Elements(product), Tiled(product), e[2] < TiledBase(product)
      PROVE  PanelsDone(product.panels, threads'[TileOwner(product, e)], TileOf(product, e))
                = PanelsDone(product.panels, threads[TileOwner(product, e)], TileOf(product, e))
  <2> DEFINE o == TileOwner(product, e)
  <2>1. o \in Threads
    BY <1>6, <1>2, OwnerIs DEF InPacks, Threads
  <2> HIDE DEF o
  <2>2. CASE o = w
    BY <2>2, <1>1, <1>3, <1>4 DEF PanelsDone, o
  <2>3. CASE o # w
    BY <2>1, <2>3, <1>4 DEF o
  <2>. QED BY <2>2, <2>3
<1>7. Cuts' /\ Found' /\ PacksCounted'
  BY <1>1, <1>5, <1>6, PacksStay
<1>8. InTurn'
  <2>1. InTurn /\ Threads' = Threads
    BY <1>1 DEF InPacks, PackInv, Threads
  <2>. QED BY <2>1, <1>1, <1>3, <1>4 DEF InTurn
<1>. QED BY <1>1, <1>4, <1>7, <1>8, PackShapeStays, ShapeOfC

\* A thread with no tile left.
LEMMA TilesDoneKeeps ==
    ASSUME InPacks, NEW w \in Threads, TilesDone(w)
    PROVE  InPacks'
<1> DEFINE u == Restaged(threads[w], "pack")
           N == TileCount(product)
           duty == Duty(product, N)
<1>1. /\ threads[w].stage = "tiled" /\ threads[w].job \notin TileSlice(product, w)
      /\ Move(w, u) /\ product' = product /\ c' = c /\ chunk' = chunk
  BY DEF TilesDone, Restaged
<1>2. /\ threads \in [Threads -> Postures] /\ threads[w] \in Postures /\ product \in Products /\ product.nth \in Nat \ {0}
      /\ threads[w].job \in Nat /\ w \in Nat
  BY PackFacts
<1>3. /\ u \in Postures /\ u.stage = "pack" /\ u.call = threads[w].call /\ u.job = threads[w].job
      /\ u.panel = threads[w].panel /\ u.stack = threads[w].stack
  BY <1>2, RestageIs
<1> HIDE DEF u
<1>4. threads' \in [Threads -> Postures] /\ threads'[w] = u /\ \A v \in Threads \ {w} : threads'[v] = threads[v]
  BY <1>1, <1>2, <1>3, MoveIs
<1>5. \A v \in Threads : threads'[v].stack = threads[v].stack
  BY <1>3, <1>4
<1>6. ASSUME NEW e \in Elements(product), Tiled(product), e[2] < TiledBase(product)
      PROVE  PanelsDone(product.panels, threads'[TileOwner(product, e)], TileOf(product, e))
                = PanelsDone(product.panels, threads[TileOwner(product, e)], TileOf(product, e))
  <2> DEFINE o == TileOwner(product, e)
             j == TileOf(product, e)
  <2>1. o \in Threads /\ j \in 0 .. N - 1 /\ j \in Nat /\ (j \in TileSlice(product, w) <=> w = o)
    BY <1>6, <1>2, OwnerIs DEF InPacks, Threads
  <2>2. CASE o = w
    <3>1. threads[w].job > j
      <4>1. TileSlice(product, w) = duty * w .. Least(duty * w + duty, N) - 1 /\ threads[w].job >= duty * w
        <5>1. TileSlice(product, w) = duty * w .. Least(duty * w + duty, N) - 1
          BY DEF TileSlice, Slice
        <5>2. threads[w].job >= duty * w
          BY <1>1 DEF InPacks, PackInv, InTurn
        <5>. QED BY <5>1, <5>2
      <4> DEFINE first == duty * w
                 end == Least(first + duty, N)
      <4>2. N \in Nat /\ duty \in Nat /\ first \in Nat /\ end \in Nat
        <5>1. N \in Nat
          BY <1>2, <1>6, TiledIs, ProductFacts DEF InPacks
        <5> HIDE DEF N
        <5>2. N \in Nat \ {0}
          BY <5>1, <2>1
        <5>3. duty \in Nat
          BY <5>1, <1>2, CeilDivIs DEF Duty
        <5> HIDE DEF duty
        <5>4. first \in Nat
          BY <5>3, <1>2, ProductFacts
        <5> HIDE DEF first
        <5>5. end \in Nat
          BY <5>1, <5>3, <5>4 DEF Least
        <5>. QED BY <5>1, <5>3, <5>4, <5>5 DEF first, duty
      <4> HIDE DEF first, end, duty, N, j
      <4>3. j \in first .. end - 1 /\ threads[w].job \notin first .. end - 1 /\ threads[w].job >= first
        BY <4>1, <1>1, <2>1, <2>2 DEF first, end
      <4>. QED BY <4>2, <4>3, <1>2, <2>1
    <3> HIDE DEF j, o
    <3>. QED BY <3>1, <2>2, <1>1, <1>3, <1>4 DEF PanelsDone, o, j
  <2> HIDE DEF o
  <2>3. CASE o # w
    BY <2>1, <2>3, <1>4 DEF o
  <2>. QED BY <2>2, <2>3 DEF o
<1>7. Cuts' /\ Found' /\ PacksCounted'
  BY <1>1, <1>5, <1>6, PacksStay
<1>8. InTurn'
  <2>1. InTurn /\ Threads' = Threads
    BY <1>1 DEF InPacks, PackInv, Threads
  <2>. QED BY <2>1, <1>1, <1>3, <1>4 DEF InTurn
<1>. QED BY <1>1, <1>4, <1>7, <1>8, PackShapeStays, ShapeOfC

Advanced(t, panel, job) == [t EXCEPT !.panel = panel, !.job = job]

\* A thread that only changes its panel and its tile.
LEMMA AdvanceIs ==
    ASSUME NEW t \in Postures, NEW panel \in Nat, NEW job \in Nat
    PROVE  LET u == Advanced(t, panel, job)
           IN  u \in Postures /\ u.stage = t.stage /\ u.call = t.call /\ u.stack = t.stack /\ u.panel = panel /\ u.job = job
BY DEF Postures, Advanced

\* A panel of a tile is added to the elements of that tile alone.
LEMMA TileKeeps ==
    ASSUME InPacks, NEW w \in Threads, Tile(w)
    PROVE  InPacks'
<1> DEFINE t == threads[w]
           last == t.panel + 1 = product.panels
           u == Advanced(t, IF last THEN 0 ELSE t.panel + 1, IF last THEN t.job + 1 ELSE t.job)
           N == TileCount(product)
           g == [e \in DOMAIN c[1] |-> c[1][e] + TimesInTile(product, t.job, e)]
<1>1. /\ product \in Products /\ product.calls = 1 /\ threads \in [Threads -> Postures] /\ t \in Postures
      /\ t.job \in Nat /\ t.panel \in Nat /\ t.call = 1 /\ w \in Nat /\ product.panels \in Nat \ {0} /\ product.nth \in Nat \ {0}
      /\ product.n \in Nat
  BY PackFacts
<1>2. t.stage = "tiled" /\ t.job \in TileSlice(product, w) /\ product' = product /\ chunk' = chunk
  BY DEF Tile
<1>3. Move(w, u)
  BY DEF Tile, Advanced
<1>4. c' = [c EXCEPT ![1] = g]
  <2>1. Add(t.call, LAMBDA e : TimesInTile(product, t.job, e))
    BY DEF Tile
  <2>. QED BY <2>1, <1>1 DEF Add
<1>5. /\ u \in Postures /\ u.stage = "tiled" /\ u.call = 1 /\ u.stack = t.stack
      /\ u.panel = (IF last THEN 0 ELSE t.panel + 1) /\ u.job = (IF last THEN t.job + 1 ELSE t.job)
  <2> DEFINE x == IF last THEN 0 ELSE t.panel + 1
             y == IF last THEN t.job + 1 ELSE t.job
  <2>1. x \in Nat /\ y \in Nat
    BY <1>1
  <2> HIDE DEF x, y
  <2>2. Advanced(t, x, y) \in Postures /\ Advanced(t, x, y).stage = t.stage /\ Advanced(t, x, y).call = t.call
        /\ Advanced(t, x, y).stack = t.stack /\ Advanced(t, x, y).panel = x /\ Advanced(t, x, y).job = y
    <3>1. t \in Postures
      BY <1>1
    <3> HIDE DEF t
    <3>. QED BY <2>1, <3>1, AdvanceIs
  <2>3. u = Advanced(t, x, y)
    BY DEF x, y
  <2> HIDE DEF u
  <2>4. u \in Postures /\ u.stage = "tiled" /\ u.call = 1 /\ u.stack = t.stack /\ u.panel = x /\ u.job = y
    BY <2>2, <2>3, <1>1, <1>2
  <2>. QED BY <2>4 DEF x, y
<1> HIDE DEF u, g
<1>6. threads' \in [Threads -> Postures] /\ threads'[w] = u /\ \A v \in Threads \ {w} : threads'[v] = threads[v]
  BY <1>1, <1>3, <1>5, MoveIs
<1>7. Cuts' /\ Found' /\ \A v \in Threads : \A e : Waiting(v, e)' <=> Waiting(v, e)
  <2>1. \A v \in Threads : threads'[v].stack = threads[v].stack
    BY <1>5, <1>6
  <2>. QED BY <1>2, <2>1, StacksStay
<1>8. /\ Tiled(product) /\ t.panel < product.panels /\ t.job >= Duty(product, N) * w
      /\ Threads' = Threads /\ InTurn /\ ~ Uncovered(product)
  BY <1>2 DEF InPacks, PackInv, InTurn, Threads
<1>9. InTurn'
  <2>1. u.panel < product.panels
    BY <1>1, <1>5, <1>8
  <2>2. u.job >= Duty(product, N) * w
    <3> DEFINE first == Duty(product, N) * w
    <3>1. first \in Nat
      <4>1. N \in Nat
        BY <1>1, <1>8, TiledIs, ProductFacts
      <4> HIDE DEF N
      <4>2. Duty(product, N) \in Nat
        BY <4>1, <1>1, CeilDivIs DEF Duty
      <4> DEFINE d == Duty(product, N)
      <4> HIDE DEF d
      <4>3. d * w \in Nat
        BY <4>2, <1>1, ProductFacts DEF d
      <4>. QED BY <4>3 DEF d
    <3>2. t.job >= first
      BY <1>8
    <3> HIDE DEF first, last
    <3>3. u.job >= first
      BY <3>1, <3>2, <1>1, <1>5
    <3>. QED BY <3>3 DEF first
  <2>3. u.job = Duty(product, N) * w \/ u.job - 1 \in TileSlice(product, w)
    <3>1. CASE last
      <4>1. u.job - 1 = t.job
        BY <3>1, <1>1, <1>5
      <4>. QED BY <4>1, <1>2
    <3>2. CASE ~ last
      <4>1. t.job = Duty(product, N) * w \/ t.job - 1 \in TileSlice(product, w)
        BY <1>2, <1>8 DEF InTurn
      <4>2. u.job = t.job
        BY <3>2, <1>5
      <4>. QED BY <4>1, <4>2
    <3>. QED BY <3>1, <3>2
  <2>4. u.panel = 0 \/ u.job \in TileSlice(product, w)
    BY <1>2, <1>5
  <2>5. ASSUME NEW v \in Threads
        PROVE  LET s == threads'[v]
                   first == Duty(product, TileCount(product)) * v
               IN  /\ s.call = 1 /\ s.stage \in {"tiled", "pack", "out"} /\ s.panel < product.panels
                   /\ s.stage = "tiled" => /\ Tiled(product) /\ s.job >= first
                                           /\ s.job = first \/ s.job - 1 \in TileSlice(product, v)
                                           /\ s.panel = 0 \/ s.job \in TileSlice(product, v)
                   /\ s.stage = "out" => s.stack = << >>
    <3>1. CASE v = w
      BY <3>1, <2>1, <2>2, <2>3, <2>4, <1>5, <1>6, <1>8
    <3>2. CASE v # w
      <4>1. threads'[v] = threads[v]
        BY <3>2, <1>6
      <4>. QED BY <4>1, <1>8 DEF InTurn
    <3>. QED BY <3>1, <3>2
  <2>. QED BY <2>5, <1>2, <1>8 DEF InTurn
<1>10. /\ g = [e \in Elements(product) |-> g[e]]
       /\ \A e \in Elements(product) : g[e] = c[1][e] + TimesInTile(product, t.job, e)
  <2>1. c[1] = [e \in Elements(product) |-> c[1][e]]
    BY <1>1 DEF InPacks, BlasShape
  <2>2. DOMAIN c[1] = Elements(product)
    BY <2>1
  <2>. QED BY <2>2 DEF g
<1>11. /\ c' = [k \in 1 .. product'.calls |-> [e \in Elements(product)' |-> c'[k][e]]]
       /\ \A e \in Elements(product) : c'[1][e] = c[1][e] + TimesInTile(product, t.job, e)
  <2>1. 1 \in 1 .. product.calls
    BY <1>1
  <2>2. /\ c' = [k \in 1 .. product'.calls |-> [e \in Elements(product)' |-> c'[k][e]]]
        /\ \A e \in Elements(product) : c'[1][e] = g[e]
    BY <2>1, <1>2, <1>4, <1>10, AddedIs DEF InPacks
  <2>. QED BY <2>2, <1>10
<1>12. t.job \in 0 .. N - 1
  <2> DEFINE d == Duty(product, N)
  <2>1. TileSlice(product, w) = d * w .. Least(d * w + d, N) - 1
    BY DEF TileSlice, Slice
  <2>2. N \in Nat
    BY <1>1, <1>8, TiledIs, ProductFacts
  <2> HIDE DEF N
  <2>3. d \in Nat
    BY <2>2, <1>1, CeilDivIs DEF Duty
  <2> HIDE DEF d
  <2> DEFINE f == d * w
  <2>4. f \in Nat
    BY <2>3, <1>1, ProductFacts
  <2>5. t.job \in f .. Least(f + d, N) - 1
    BY <2>1, <1>2
  <2> HIDE DEF f
  <2>6. Least(f + d, N) \in Nat /\ Least(f + d, N) <= N
    BY <2>2, <2>3, <2>4 DEF Least
  <2>. QED BY <2>2, <2>4, <2>5, <2>6, <1>1
<1>13. ASSUME NEW e \in Elements(product)
       PROVE  c'[1][e] = IF ~ InProduct(e) THEN 0
                         ELSE IF e[2] < TiledBase(product)
                              THEN PanelsDone(product.panels, threads'[TileOwner(product, e)], TileOf(product, e))
                         ELSE IF \E v \in Threads : v \in Savers(product, Root(product), e) /\ ~ Waiting(v, e)'
                              THEN product.panels ELSE 0
  <2> DEFINE times == TimesInTile(product, t.job, e)
             o == TileOwner(product, e)
             j == TileOf(product, e)
  <2>1. c'[1][e] = c[1][e] + times
    BY <1>11
  <2>2. c[1][e] = IF ~ InProduct(e) THEN 0
                  ELSE IF e[2] < TiledBase(product) THEN PanelsDone(product.panels, threads[o], j)
                  ELSE IF \E v \in Threads : v \in Savers(product, Root(product), e) /\ ~ Waiting(v, e)
                       THEN product.panels ELSE 0
    BY DEF InPacks, PackInv, PacksCounted
  <2>3. /\ TiledBase(product) = TileColumns(product) /\ TileColumns(product) \in Nat /\ TileColumns(product) <= product.n
        /\ e[2] \in Nat
    BY <1>1, <1>8, TileWidths, PackFacts DEF TiledBase
  <2>4. CASE e[2] >= TileColumns(product)
    <3>1. times = 0
      BY <2>4, <1>1, <1>8, <1>12, TilesAre
    <3>2. c'[1][e] = c[1][e]
      <4> HIDE DEF times
      <4>1. c[1][e] \in {0, product.panels}
        BY <2>2, <2>3, <2>4
      <4>. QED BY <2>1, <3>1, <4>1, <1>1
    <3>3. ~ (e[2] < TiledBase(product))
      BY <2>3, <2>4
    <3>4. (\E v \in Threads : v \in Savers(product, Root(product), e) /\ ~ Waiting(v, e)')
          <=> (\E v \in Threads : v \in Savers(product, Root(product), e) /\ ~ Waiting(v, e))
      BY <1>7
    <3>. QED BY <2>2, <3>2, <3>3, <3>4
  <2>5. CASE e[2] < TileColumns(product)
    <3>1. /\ j \in 0 .. N - 1 /\ j \in Nat /\ o \in 0 .. product.nth - 1
          /\ (j \in TileSlice(product, w) <=> w = o) /\ TileIs(product, j, e)
      BY <2>3, <2>5, <1>1, <1>8, OwnerIs
    <3>2. times = IF t.job = j THEN 1 ELSE 0
      BY <3>1, <1>12 DEF TileIs
    <3>3. o \in Threads /\ InProduct(e) /\ e[2] < TiledBase(product)
      BY <3>1, <2>3, <2>5, <1>1 DEF Threads, InProduct
    <3> DEFINE then == PanelsDone(product.panels, threads[o], j)
               now == PanelsDone(product.panels, threads'[o], j)
    <3>4. c'[1][e] = then + times
      BY <2>1, <2>2, <3>3
    <3>5. now = then + times
      <4> HIDE DEF times, j, o
      <4>1. CASE o # w
        <5>1. t.job # j
          BY <4>1, <3>1, <1>2
        <5>2. now = then /\ then \in Nat
          <6>1. threads'[o] = threads[o]
            BY <4>1, <3>3, <1>6
          <6>2. threads[o].panel \in Nat
            BY <3>3, PackFacts
          <6>. QED BY <6>1, <6>2, <1>1 DEF PanelsDone
        <5> HIDE DEF now, then
        <5>. QED BY <5>1, <5>2, <3>2
      <4>2. CASE o = w
        <5>1. /\ then = IF t.job > j THEN product.panels ELSE IF t.job = j THEN t.panel ELSE 0
              /\ now = IF u.job > j THEN product.panels ELSE IF u.job = j THEN u.panel ELSE 0
          BY <4>2, <1>2, <1>5, <1>6 DEF PanelsDone
        <5> HIDE DEF now, then
        <5>2. CASE t.job = j
          BY <5>1, <5>2, <3>1, <3>2, <1>1, <1>5
        <5>3. CASE t.job # j
          BY <5>1, <5>3, <3>1, <3>2, <1>1, <1>5
        <5>. QED BY <5>2, <5>3
      <4>. QED BY <4>1, <4>2
    <3>6. c'[1][e] = now
      BY <3>4, <3>5
    <3>. QED BY <3>3, <3>6
  <2>. QED BY <2>3, <2>4, <2>5
<1>14. PacksCounted'
  <2>1. \A e : InProduct(e)' <=> InProduct(e)
    BY <1>2 DEF InProduct
  <2>2. Elements(product)' = Elements(product)
    BY <1>2
  <2>. QED BY <1>2, <1>8, <1>13, <2>1, <2>2 DEF PacksCounted
<1>. QED BY <1>2, <1>6, <1>7, <1>9, <1>11, <1>14, PackShapeStays

Restacked(t, s) == [t EXCEPT !.stack = s]

\* A thread that only changes its stack.
LEMMA RestackIs ==
    ASSUME NEW t \in Postures, NEW s \in Seq(Rects)
    PROVE  LET u == Restacked(t, s)
           IN  u \in Postures /\ u.stage = t.stage /\ u.call = t.call /\ u.stack = s /\ u.panel = t.panel /\ u.job = t.job
BY DEF Postures, Restacked

\* A thread saves its slice of the topmost cut and goes on to the remainders.
LEMMA PackKeeps ==
    ASSUME InPacks, NEW w \in Threads, Pack(w),
           NEW s, s = threads[w].stack, NEW r, r = Head(s), NEW n, n = Remainders(product, r, Tail(s))
    PROVE  InPacks'
<1> DEFINE t == threads[w]
           u == Restacked(t, n)
           root == Root(product)
           g == [e \in DOMAIN c[1] |-> c[1][e] + TimesInSlice(product, w, r, e) * product.panels]
<1>1. /\ product \in Products /\ product.calls = 1 /\ threads \in [Threads -> Postures] /\ t \in Postures
      /\ t.job \in Nat /\ t.panel \in Nat /\ t.call = 1 /\ w \in Nat /\ product.panels \in Nat \ {0} /\ product.nth \in Nat \ {0}
      /\ product.n \in Nat
  BY PackFacts
<1>2. t.stage = "pack" /\ s # << >> /\ product' = product /\ chunk' = chunk
  BY DEF Pack
<1>3. Move(w, u)
  BY DEF Pack, Restacked
<1>4. c' = [c EXCEPT ![1] = g]
  <2>1. c' = [c EXCEPT ![t.call] = [e \in DOMAIN c[t.call] |->
                        c[t.call][e] + TimesInSlice(product, w, Head(t.stack), e) * product.panels]]
    BY DEF Pack, Add
  <2>2. Head(t.stack) = r /\ t.call = 1
    BY <1>1
  <2> HIDE DEF t
  <2>. QED BY <2>1, <2>2, Zenon
<1>5. /\ StackOk(product, s) /\ StackOk(product, n) /\ n \in Seq(Rects)
      /\ \A e \in Elements(product) :
            /\ OnStack(n, e) <=> OnStack(s, e) /\ ~ InCut(product, r, e)
            /\ InCut(product, r, e) => OnStack(s, e) /\ Savers(product, root, e) = {SaverOf(product, r, e)}
  <2>1. StackOk(product, s) /\ ~ Chunked(product)
    BY DEF InPacks, PackInv, Cuts
  <2>2. /\ StackOk(product, n)
        /\ \A e \in Elements(product) :
              /\ OnStack(n, e) <=> OnStack(s, e) /\ ~ InCut(product, r, e)
              /\ InCut(product, r, e) => OnStack(s, e) /\ Savers(product, root, e) = {SaverOf(product, r, e)}
    BY <1>1, <1>2, <2>1, RemaindersKeep
  <2>3. n \in Seq(Rects)
    BY <2>2 DEF StackOk
  <2>. QED BY <2>1, <2>2, <2>3
<1>6. /\ Fits(product, r)
      /\ \A e \in Elements(product) :
            /\ InCut(product, r, e) => SaverOf(product, r, e) \in Threads
            /\ TimesInSlice(product, w, r, e) = IF InCut(product, r, e) /\ w = SaverOf(product, r, e) THEN 1 ELSE 0
  <2>1. Fits(product, r) /\ Cuttable(product, r) /\ ~ Chunked(product)
    BY <1>1, <1>2, <1>5, PopIs DEF InPacks
  <2>2. r \in Rects /\ r[1] <= r[2] /\ r[3] <= r[4] /\ HpFits(product, r)
    BY <2>1 DEF Fits
  <2>3. \A e \in Elements(product) : e[1] \in Nat /\ e[2] \in Nat
    BY PackFacts
  <2>4. ASSUME NEW e \in Elements(product)
        PROVE  /\ InCut(product, r, e) => SaverOf(product, r, e) \in 0 .. product.nth - 1
               /\ TimesInSlice(product, w, r, e) = IF InCut(product, r, e) /\ w = SaverOf(product, r, e) THEN 1 ELSE 0
    BY <1>1, <2>1, <2>2, <2>3, SaverIs
  <2>. QED BY <2>1, <2>4 DEF Threads
<1>7. u \in Postures /\ u.stage = "pack" /\ u.call = 1 /\ u.stack = n /\ u.panel = t.panel /\ u.job = t.job
  <2> HIDE DEF t
  <2>. QED BY <1>1, <1>2, <1>5, RestackIs
<1> HIDE DEF u, g
<1>8. threads' \in [Threads -> Postures] /\ threads'[w] = u /\ \A v \in Threads \ {w} : threads'[v] = threads[v]
  BY <1>1, <1>3, <1>7, MoveIs
<1>9. Threads' = Threads
  BY <1>2 DEF Threads
<1>10. \A v \in Threads : \A e \in Elements(product) :
         Waiting(v, e)' <=> Waiting(v, e) /\ ~ (v = w /\ InCut(product, r, e))
  <2>1. ASSUME NEW e \in Elements(product) PROVE Waiting(w, e)' <=> Waiting(w, e) /\ ~ InCut(product, r, e)
    <3>1. threads'[w].stack = n
      BY <1>7, <1>8
    <3>. QED BY <3>1, <1>5 DEF Waiting
  <2>2. ASSUME NEW v \in Threads \ {w}, NEW e \in Elements(product) PROVE Waiting(v, e)' <=> Waiting(v, e)
    BY <1>8 DEF Waiting
  <2>. QED BY <2>1, <2>2
<1>11. Cuts'
  <2>1. \A v \in Threads : StackOk(product, threads[v].stack)
    BY DEF InPacks, PackInv, Cuts
  <2>2. ASSUME NEW v \in Threads PROVE StackOk(product, threads'[v].stack)
    <3>1. CASE v = w
      BY <3>1, <1>5, <1>7, <1>8
    <3>2. CASE v # w
      BY <3>2, <2>1, <1>8
    <3>. QED BY <3>1, <3>2
  <2>. QED BY <2>2, <1>2, <1>9 DEF Cuts
<1>12. Found'
  <2>1. ASSUME NEW x \in Threads, NEW e \in Elements(product), Inside(root, e), ~ Waiting(x, e)'
        PROVE  \E v \in Threads : Savers(product, root, e) = {v}
    <3>1. CASE ~ Waiting(x, e)
      BY <2>1, <3>1 DEF InPacks, PackInv, Found
    <3>2. CASE Waiting(x, e)
      <4>1. InCut(product, r, e)
        BY <2>1, <3>2, <1>10
      <4>. QED BY <4>1, <1>5, <1>6
    <3>. QED BY <3>1, <3>2
  <2>. QED BY <2>1, <1>2, <1>9 DEF Found
<1>13. InTurn'
  <2>1. InTurn
    BY DEF InPacks, PackInv
  <2>. QED BY <2>1, <1>1, <1>2, <1>7, <1>8, <1>9 DEF InTurn
<1>14. /\ g = [e \in Elements(product) |-> g[e]]
       /\ \A e \in Elements(product) : g[e] = c[1][e] + TimesInSlice(product, w, r, e) * product.panels
  <2>1. c[1] = [e \in Elements(product) |-> c[1][e]]
    BY <1>1 DEF InPacks, BlasShape
  <2>2. DOMAIN c[1] = Elements(product)
    BY <2>1
  <2>. QED BY <2>2 DEF g
<1>15. /\ c' = [k \in 1 .. product'.calls |-> [e \in Elements(product)' |-> c'[k][e]]]
       /\ \A e \in Elements(product) : c'[1][e] = c[1][e] + TimesInSlice(product, w, r, e) * product.panels
  <2>1. 1 \in 1 .. product.calls
    BY <1>1
  <2>2. /\ c' = [k \in 1 .. product'.calls |-> [e \in Elements(product)' |-> c'[k][e]]]
        /\ \A e \in Elements(product) : c'[1][e] = g[e]
    BY <2>1, <1>2, <1>4, <1>14, AddedIs DEF InPacks
  <2>. QED BY <2>2, <1>14
<1>16. ASSUME NEW e \in Elements(product)
       PROVE  c'[1][e] = IF ~ InProduct(e) THEN 0
                         ELSE IF e[2] < TiledBase(product)
                              THEN PanelsDone(product.panels, threads'[TileOwner(product, e)], TileOf(product, e))
                         ELSE IF \E v \in Threads : v \in Savers(product, Root(product), e) /\ ~ Waiting(v, e)'
                              THEN product.panels ELSE 0
  <2> DEFINE times == TimesInSlice(product, w, r, e)
             o == TileOwner(product, e)
             j == TileOf(product, e)
  <2>1. c'[1][e] = c[1][e] + times * product.panels
    BY <1>15
  <2>2. c[1][e] = IF ~ InProduct(e) THEN 0
                  ELSE IF e[2] < TiledBase(product) THEN PanelsDone(product.panels, threads[o], j)
                  ELSE IF \E v \in Threads : v \in Savers(product, root, e) /\ ~ Waiting(v, e)
                       THEN product.panels ELSE 0
    BY DEF InPacks, PackInv, PacksCounted
  <2>3. times = IF InCut(product, r, e) /\ w = SaverOf(product, r, e) THEN 1 ELSE 0
    BY <1>6
  <2>4. /\ InCut(product, r, e) => InProduct(e) /\ ~ (e[2] < TiledBase(product))
        /\ e[2] < TiledBase(product) => Tiled(product)
    <3>1. TiledBase(product) \in Nat /\ e[2] \in Nat
      BY PackFacts
    <3>2. r[3] \in Nat /\ r[4] \in Nat /\ TiledBase(product) <= r[3] /\ r[4] <= product.n
      BY <1>6 DEF Fits, Rects
    <3>3. InCut(product, r, e) => e[2] \in r[3] .. r[4] - 1
      BY DEF InCut, Inside
    <3>4. e[2] < TiledBase(product) => Tiled(product)
      BY <3>1 DEF TiledBase
    <3>. QED BY <3>1, <3>2, <3>3, <3>4, <1>1 DEF InProduct
  <2>5. times = 0 \/ times = 1
    BY <2>3
  <2> HIDE DEF times
  <2>6. times * product.panels = IF times = 1 THEN product.panels ELSE 0
    BY <2>5, <1>1
  <2>7. CASE ~ InProduct(e)
    BY <2>1, <2>2, <2>3, <2>4, <2>6, <2>7
  <2>8. CASE InProduct(e) /\ e[2] < TiledBase(product)
    <3>1. times = 0 /\ Tiled(product)
      BY <2>3, <2>4, <2>8
    <3>2. o \in Threads
      BY <2>8, <3>1, <1>1, OwnerIs DEF InPacks, Threads
    <3> DEFINE then == PanelsDone(product.panels, threads[o], j)
               now == PanelsDone(product.panels, threads'[o], j)
    <3>3. now = then /\ then \in Nat
      <4> HIDE DEF o, j
      <4>1. threads[o].panel \in Nat
        BY <3>2, PackFacts
      <4>2. CASE o = w
        BY <4>1, <4>2, <1>1, <1>2, <1>7, <1>8 DEF PanelsDone
      <4>3. CASE o # w
        BY <4>1, <4>3, <3>2, <1>1, <1>8 DEF PanelsDone
      <4>. QED BY <4>2, <4>3
    <3>4. c'[1][e] = then + 0
      BY <2>1, <2>2, <2>6, <2>8, <3>1
    <3> HIDE DEF o, j
    <3>5. c'[1][e] = now
      <4> HIDE DEF then, now
      <4>. QED BY <3>3, <3>4
    <3>. QED BY <3>5, <2>8 DEF o, j
  <2>9. CASE InProduct(e) /\ ~ (e[2] < TiledBase(product))
    <3> DEFINE Was == \E v \in Threads : v \in Savers(product, root, e) /\ ~ Waiting(v, e)
               Is == \E v \in Threads : v \in Savers(product, root, e) /\ ~ Waiting(v, e)'
    <3>1. CASE InCut(product, r, e) /\ w = SaverOf(product, r, e)
      <4>1. Savers(product, root, e) = {w} /\ Waiting(w, e) /\ ~ Waiting(w, e)'
        <5>1. Savers(product, root, e) = {SaverOf(product, r, e)} /\ OnStack(s, e)
          BY <3>1, <1>5, Zenon
        <5>2. Waiting(w, e)
          BY <5>1 DEF Waiting
        <5>3. ~ Waiting(w, e)'
          BY <3>1, <1>10, Zenon
        <5>. QED BY <3>1, <5>1, <5>2, <5>3, Zenon
      <4>2. ~ Was /\ Is
        <5>1. \A v : v \in Savers(product, root, e) <=> v = w
          BY <4>1
        <5>. QED BY <4>1, <5>1, Zenon
      <4> HIDE DEF Was, Is
      <4>3. c[1][e] = 0 /\ times = 1
        BY <2>2, <2>3, <2>9, <3>1, <4>2 DEF Was
      <4>4. c'[1][e] = product.panels
        BY <2>1, <2>6, <4>3, <1>1
      <4>. QED BY <4>2, <4>4, <2>9 DEF Is
    <3>2. CASE ~ (InCut(product, r, e) /\ w = SaverOf(product, r, e))
      <4>1. ASSUME NEW v \in Threads, v \in Savers(product, root, e)
            PROVE  Waiting(v, e)' <=> Waiting(v, e)
        <5>1. InCut(product, r, e) => v # w
          BY <3>2, <4>1, <1>5
        <5>. QED BY <5>1, <1>10
      <4>2. Is <=> Was
        BY <4>1
      <4> HIDE DEF Was, Is
      <4>3. times = 0 /\ c[1][e] = IF Was THEN product.panels ELSE 0
        BY <2>2, <2>3, <2>9, <3>2 DEF Was
      <4>4. c'[1][e] = IF Was THEN product.panels ELSE 0
        BY <2>1, <2>6, <4>3, <1>1
      <4>. QED BY <4>2, <4>4, <2>9 DEF Is
    <3>. QED BY <3>1, <3>2
  <2>. QED BY <2>7, <2>8, <2>9
<1>17. PacksCounted'
  <2>1. \A e : InProduct(e)' <=> InProduct(e)
    BY <1>2 DEF InProduct
  <2>2. Elements(product)' = Elements(product)
    BY <1>2
  <2>. QED BY <1>2, <1>9, <1>16, <2>1, <2>2 DEF PacksCounted
<1>. QED BY <1>2, <1>8, <1>11, <1>12, <1>13, <1>15, <1>17, PackShapeStays

\* Where a thread of the classes with mnpack begins.
LEMMA FirstCut ==
    ASSUME NEW p \in Products, ~ Chunked(p), ~ Uncovered(p), Serves(p), NEW w \in Nat
    PROVE  LET b == Begin(p, w, 1)
           IN  /\ b \in Postures /\ b.call = 1 /\ b.panel = 0 /\ b.stage = (IF Tiled(p) THEN "tiled" ELSE "pack")
               /\ b.job = IF Tiled(p) THEN Duty(p, TileCount(p)) * w ELSE 0
               /\ StackOk(p, b.stack)
               /\ \A e \in Elements(p) : OnStack(b.stack, e) <=> Inside(Root(p), e)
<1> DEFINE job == IF Tiled(p) THEN Duty(p, TileCount(p)) * w ELSE 0
           stage == IF Tiled(p) THEN "tiled" ELSE "pack"
           s == Push(p, Root(p), << >>)
<1>1. Begin(p, w, 1) = [call |-> 1, panel |-> 0, job |-> job, stage |-> stage, stack |-> s]
  BY DEF Begin, Root, TiledBase
<1>2. job \in Nat
  <2>1. CASE Tiled(p)
    <3>1. TileCount(p) \in Nat
      <4>1. TileCount(p) = (TileColumns(p) \div TileWidth(p)) * (p.m \div TileRows(p))
        BY DEF TileCount
      <4>2. TileColumns(p) \div TileWidth(p) \in Nat /\ p.m \div TileRows(p) \in Nat
        BY <2>1, TiledIs
      <4>. QED BY <4>1, <4>2, ProductFacts
    <3>2. Duty(p, TileCount(p)) \in Nat
      <4>1. p.nth \in Nat \ {0}
        BY ProductIs
      <4>. QED BY <3>1, <4>1, CeilDivIs DEF Duty
    <3>3. Duty(p, TileCount(p)) * w \in Nat
      <4> DEFINE d == Duty(p, TileCount(p))
      <4> HIDE DEF d
      <4>1. d * w \in Nat
        BY <3>2, ProductFacts DEF d
      <4>. QED BY <4>1 DEF d
    <3>. QED BY <2>1, <3>3
  <2>2. CASE ~ Tiled(p)
    BY <2>2
  <2>. QED BY <2>1, <2>2
<1>3. p.m \in Nat /\ p.n \in Nat /\ TiledBase(p) \in Nat /\ TiledBase(p) <= p.n
  <2>1. p.m \in Nat /\ p.n \in Nat
    BY ProductIs
  <2>2. CASE Tiled(p)
    BY <2>1, <2>2, TileWidths DEF TiledBase
  <2>3. CASE ~ Tiled(p)
    BY <2>1, <2>3 DEF TiledBase
  <2>. QED BY <2>1, <2>2, <2>3
<1>4. Fits(p, Root(p))
  <2> DEFINE base == TiledBase(p)
             r == Root(p)
  <2>1. r = <<0, p.m, base, p.n>>
    BY DEF Root
  <2>2. r \in Rects
    <3> HIDE DEF base
    <3>. QED BY <1>3, <2>1 DEF Rects, base
  <2>3. r[1] = 0 /\ r[2] = p.m /\ r[3] = base /\ r[4] = p.n
    BY <2>1
  <2>4. HpFits(p, r)
    <3> SUFFICES ASSUME p.family = "HP16_PPC", p.m - 0 < 4 PROVE (p.n - base) % 8 \notin 5 .. 7
      <4> HIDE DEF base, r
      <4>. QED BY <2>3 DEF HpFits
    <3>1. p.m < 4
      BY <1>3
    <3>2. p.n % 8 \notin 5 .. 7
      BY <3>1 DEF Uncovered
    <3>3. base = 0
      BY DEF TiledBase, Tiled
    <3>4. p.n - base = p.n
      <4> HIDE DEF base
      <4>. QED BY <3>3, <1>3
    <3>. QED BY <3>2, <3>4
  <2> HIDE DEF base, r
  <2>5. r[1] <= r[2] /\ r[2] <= p.m /\ base <= r[3] /\ r[3] <= r[4] /\ r[4] <= p.n
    BY <2>3, <1>3 DEF base
  <2>. QED BY <2>2, <2>4, <2>5 DEF Fits, r, base
<1>5. StackOk(p, << >>) /\ \A e : ~ OnStack(<< >>, e)
  <2>1. << >> \in Seq(Rects) /\ DOMAIN << >> = {}
    <3> HIDE DEF Rects
    <3>. QED OBVIOUS
  <2>. QED BY <2>1 DEF StackOk, OnStack
<1>6. StackOk(p, s) /\ \A e \in Elements(p) : OnStack(s, e) <=> Inside(Root(p), e)
  BY <1>4, <1>5, PushIs
<1>7. Begin(p, w, 1) \in Postures
  <2>1. s \in Seq(Rects)
    BY <1>6 DEF StackOk
  <2>2. stage \in {"enter", "gather", "work", "leave", "tiled", "pack", "out"}
    OBVIOUS
  <2> HIDE DEF s, stage, job, Rects
  <2>. QED BY <1>1, <1>2, <2>1, <2>2 DEF Postures
<1> HIDE DEF s
<1>. QED BY <1>1, <1>6, <1>7

\* A product begins with every cut to make and every tile to do.
LEMMA PacksStart ==
    ASSUME NEW p \in Products, Serves(p), ~ Chunked(p), ~ Uncovered(p), StartBlas(p)
    PROVE  InPacks
<1>1. /\ product = p /\ chunk = 0 /\ p.nth \in Nat \ {0} /\ p.calls = 1 /\ p.panels \in Nat \ {0}
      /\ Threads = 0 .. p.nth - 1 /\ \A v \in Threads : v \in Nat
  BY ProductIs DEF StartBlas, Threads
<1>2. /\ threads \in [Threads -> Postures]
      /\ \A v \in Threads :
           LET t == threads[v]
           IN  /\ t.call = 1 /\ t.panel = 0 /\ t.stage = (IF Tiled(p) THEN "tiled" ELSE "pack")
               /\ t.job = IF Tiled(p) THEN Duty(p, TileCount(p)) * v ELSE 0
               /\ StackOk(p, t.stack)
               /\ \A e \in Elements(p) : OnStack(t.stack, e) <=> Inside(Root(p), e)
  <2>1. threads = [v \in Threads |-> Begin(p, v, 1)]
    BY <1>1 DEF StartBlas
  <2>2. \A v \in Threads : Begin(p, v, 1) \in Postures
    BY <1>1, FirstCut
  <2>3. threads \in [Threads -> Postures] /\ \A v \in Threads : threads[v] = Begin(p, v, 1)
    BY <2>1, <2>2
  <2>. QED BY <1>1, <2>3, FirstCut
<1>3. /\ c = [q \in 1 .. product.calls |-> [e \in Elements(product) |-> c[q][e]]]
      /\ \A e \in Elements(product) : c[1][e] = 0
  <2>1. c = [q \in 1 .. product.calls |-> [e \in Elements(product) |-> 0]]
    BY <1>1 DEF StartBlas
  <2>2. 1 \in 1 .. product.calls
    BY <1>1
  <2>. QED BY <2>1, <2>2
<1>4. BlasShape
  BY <1>1, <1>2, <1>3 DEF BlasShape
<1>5. \A v \in Threads : \A e \in Elements(p) : Waiting(v, e) <=> Inside(Root(p), e)
  BY <1>2 DEF Waiting
<1>6. Cuts
  BY <1>1, <1>2 DEF Cuts
<1>7. Found
  BY <1>1, <1>5 DEF Found
<1>8. InTurn
  <2> SUFFICES ASSUME NEW w \in Threads
               PROVE  LET t == threads[w]
                          first == Duty(product, TileCount(product)) * w
                      IN  /\ t.call = 1 /\ t.stage \in {"tiled", "pack", "out"} /\ t.panel < product.panels
                          /\ t.stage = "tiled" => /\ Tiled(product) /\ t.job >= first
                                                  /\ t.job = first \/ t.job - 1 \in TileSlice(product, w)
                                                  /\ t.panel = 0 \/ t.job \in TileSlice(product, w)
                          /\ t.stage = "out" => t.stack = << >>
    BY DEF InTurn
  <2> DEFINE first == Duty(product, TileCount(product)) * w
  <2>1. threads[w].job \in Nat
    BY <1>2 DEF Postures
  <2>2. /\ threads[w].call = 1 /\ threads[w].panel = 0 /\ threads[w].stage = (IF Tiled(product) THEN "tiled" ELSE "pack")
        /\ Tiled(product) => threads[w].job = first
    BY <1>1, <1>2
  <2> HIDE DEF first
  <2>3. 0 < product.panels
    BY <1>1
  <2>4. Tiled(product) => threads[w].job >= first
    BY <2>1, <2>2
  <2>. QED BY <2>2, <2>3, <2>4 DEF first
<1>9. PacksCounted
  <2> SUFFICES ASSUME NEW e \in Elements(product)
               PROVE  c[1][e] = IF ~ InProduct(e) THEN 0
                                ELSE IF e[2] < TiledBase(product)
                                     THEN PanelsDone(product.panels, threads[TileOwner(product, e)], TileOf(product, e))
                                ELSE IF \E v \in Threads : v \in Savers(product, Root(product), e) /\ ~ Waiting(v, e)
                                     THEN product.panels ELSE 0
    BY DEF PacksCounted
  <2>1. /\ p.m \in Nat /\ p.n \in Nat /\ e[1] \in 0 .. p.m - 1 /\ e[2] \in Nat
    BY <1>1, ProductIs DEF Elements, Margin
  <2>2. CASE InProduct(e) /\ e[2] < TiledBase(product)
    <3>1. Tiled(p)
      BY <2>1, <2>2, <1>1 DEF TiledBase
    <3> DEFINE j == TileOf(p, e)
               o == TileOwner(p, e)
               first == Duty(p, TileCount(p)) * o
    <3>2. j \in Nat /\ o \in Threads /\ j \in TileSlice(p, o)
      <4>1. j \in Nat /\ o \in 0 .. p.nth - 1 /\ \A v \in Nat : j \in TileSlice(p, v) <=> v = o
        BY <1>1, <2>2, <3>1, OwnerIs
      <4>2. o \in Threads
        BY <4>1, <1>1
      <4>. QED BY <4>1, <4>2, <1>1
    <3>3. j >= first
      BY <3>2 DEF TileSlice, Slice
    <3>4. threads[o].job = first /\ threads[o].job \in Nat /\ threads[o].panel = 0 /\ threads[o].stage = "tiled"
      BY <3>1, <3>2, <1>2 DEF Postures
    <3> HIDE DEF j, o, first
    <3>5. PanelsDone(p.panels, threads[o], j) = 0
      BY <3>2, <3>3, <3>4 DEF PanelsDone
    <3>. QED BY <1>1, <1>3, <2>2, <3>5 DEF j, o
  <2>3. CASE InProduct(e) /\ ~ (e[2] < TiledBase(product))
    <3>1. TiledBase(product) \in Nat
      <4>1. TileColumns(p) \in Nat
        BY <2>1 DEF TileColumns
      <4>. QED BY <4>1, <1>1 DEF TiledBase
    <3>2. e[2] \in TiledBase(p) .. p.n - 1
      BY <1>1, <2>1, <2>3, <3>1 DEF InProduct
    <3>3. Inside(Root(p), e)
      BY <2>1, <3>2 DEF Inside, Root
    <3>4. \A v \in Threads : Waiting(v, e)
      BY <1>1, <1>5, <3>3
    <3>. QED BY <1>3, <2>3, <3>4
  <2>4. CASE ~ InProduct(e)
    BY <1>3, <2>4
  <2>. QED BY <2>2, <2>3, <2>4
<1>. QED BY <1>1, <1>4, <1>6, <1>7, <1>8, <1>9 DEF InPacks, PackInv

\* When all threads are out nothing waits and no tile is left.
LEMMA PacksAreDone ==
    ASSUME InPacks, \A v \in Threads : threads[v].stage = "out", NEW e \in Elements(product)
    PROVE  c[1][e] = IF InProduct(e) THEN product.panels ELSE 0
<1>1. /\ product \in Products /\ product.nth \in Nat \ {0} /\ product.n \in Nat /\ product.m \in Nat
      /\ e[1] \in Nat /\ e[1] < product.m /\ e[2] \in Nat /\ TiledBase(product) \in Nat
  BY PackFacts
<1>2. c[1][e] = IF ~ InProduct(e) THEN 0
                ELSE IF e[2] < TiledBase(product)
                     THEN PanelsDone(product.panels, threads[TileOwner(product, e)], TileOf(product, e))
                ELSE IF \E v \in Threads : v \in Savers(product, Root(product), e) /\ ~ Waiting(v, e)
                     THEN product.panels ELSE 0
  BY DEF InPacks, PackInv, PacksCounted
<1>3. CASE ~ InProduct(e)
  BY <1>2, <1>3
<1>4. CASE InProduct(e) /\ e[2] < TiledBase(product)
  <2>1. TileOwner(product, e) \in Threads
    <3>1. Tiled(product)
      BY <1>1, <1>4 DEF TiledBase
    <3>. QED BY <3>1, <1>1, <1>4, OwnerIs DEF InPacks, Threads
  <2>2. PanelsDone(product.panels, threads[TileOwner(product, e)], TileOf(product, e)) = product.panels
    <3>1. threads[TileOwner(product, e)].stage # "tiled"
      BY <2>1
    <3>. QED BY <3>1 DEF PanelsDone
  <2>. QED BY <1>2, <1>4, <2>2
<1>5. CASE InProduct(e) /\ ~ (e[2] < TiledBase(product))
  <2>1. \A v \in Threads : ~ Waiting(v, e)
    <3>1. \A v \in Threads : threads[v].stack = << >>
      BY DEF InPacks, PackInv, InTurn
    <3>2. ~ OnStack(<< >>, e)
      BY DEF OnStack
    <3>. QED BY <3>1, <3>2 DEF Waiting
  <2>2. e[1] \in 0 .. product.m - 1 /\ e[2] \in TiledBase(product) .. product.n - 1
    BY <1>1, <1>5 DEF InProduct
  <2>3. Inside(Root(product), e)
    BY <2>2 DEF Inside, Root
  <2>4. 0 \in Threads
    BY <1>1 DEF Threads
  <2>5. PICK v \in Threads : Savers(product, Root(product), e) = {v}
    BY <2>1, <2>3, <2>4 DEF InPacks, PackInv, Found
  <2>. QED BY <1>2, <1>5, <2>1, <2>5
<1>. QED BY <1>3, <1>4, <1>5

\* Every step of the classes with mnpack.
LEMMA PackStep ==
    ASSUME InPacks, NEW w \in Threads,
           Enter(w) \/ Gather(w) \/ Work(w) \/ Finish(w) \/ Leave(w) \/ Pack(w) \/ PackDone(w) \/ Tile(w) \/ TilesDone(w)
    PROVE  InPacks'
<1>1. threads[w].stage \in {"tiled", "pack", "out"}
  BY PackFacts
<1>2. ~ Enter(w) /\ ~ Gather(w) /\ ~ Work(w) /\ ~ Finish(w) /\ ~ Leave(w)
  <2>1. Enter(w) => threads[w].stage = "enter"
    BY DEF Enter
  <2>2. Gather(w) => threads[w].stage = "gather"
    BY DEF Gather
  <2>3. Work(w) \/ Finish(w) => threads[w].stage = "work"
    BY DEF Work, Finish
  <2>4. Leave(w) => threads[w].stage = "leave"
    BY DEF Leave
  <2>. QED BY <1>1, <2>1, <2>2, <2>3, <2>4
<1>3. CASE Pack(w)
  <2>1. PICK s : s = threads[w].stack
    OBVIOUS
  <2>2. PICK r : r = Head(s)
    OBVIOUS
  <2>3. PICK n : n = Remainders(product, r, Tail(s))
    OBVIOUS
  <2>. QED BY <1>3, <2>1, <2>2, <2>3, PackKeeps
<1>4. CASE PackDone(w)
  BY <1>4, PackDoneKeeps
<1>5. CASE Tile(w)
  BY <1>5, TileKeeps
<1>6. CASE TilesDone(w)
  BY <1>6, TilesDoneKeeps
<1>. QED BY <1>2, <1>3, <1>4, <1>5, <1>6

-----------------------------------------------------------------------------
\* The products that are handed back leave C as it was.
Refused ==
    /\ product \in Products /\ ~ Serves(product) /\ DOMAIN threads = Threads
    /\ c = [q \in 1 .. product.calls |-> [e \in Elements(product) |-> 0]]

\* What a product keeps true: nothing runs, or it is one of the shapes set
\* aside, or handed back, or computed in chunks or in cuts.
BlasInv ==
    \/ product = << >> /\ threads = << >>
    \/ product \in Products /\ Uncovered(product)
    \/ Refused /\ \A w \in Threads : threads[w].stage = "out"
    \/ InChunks
    \/ InPacks

\* Every request begins in one of the cases.
LEMMA BlasStarts ==
    ASSUME NEW p \in Products, StartBlas(p)
    PROVE  BlasInv
<1>1. CASE Uncovered(p)
  BY <1>1 DEF StartBlas, BlasInv
<1>2. CASE ~ Serves(p)
  <2>1. product = p /\ Threads = 0 .. p.nth - 1
    BY DEF StartBlas, Threads
  <2>2. threads = [w \in Threads |-> Begin(p, w, 1)]
    BY <2>1 DEF StartBlas
  <2>3. \A w : Begin(p, w, 1).stage = "out"
    BY <1>2 DEF Begin
  <2>4. Refused
    BY <1>2, <2>1, <2>2 DEF StartBlas, Refused
  <2>. QED BY <2>2, <2>3, <2>4 DEF BlasInv
<1>3. CASE Serves(p) /\ Chunked(p)
  BY <1>3, ChunkStarts DEF BlasInv
<1>4. CASE Serves(p) /\ ~ Chunked(p) /\ ~ Uncovered(p)
  BY <1>4, PacksStart DEF BlasInv
<1>. QED BY <1>1, <1>2, <1>3, <1>4

\* Every step of a product.
LEMMA BlasKeeps ==
    ASSUME BlasInv, Blas
    PROVE  BlasInv'
<1>1. PICK w \in DOMAIN threads :
        Enter(w) \/ Gather(w) \/ Work(w) \/ Finish(w) \/ Leave(w) \/ Pack(w) \/ PackDone(w) \/ Tile(w) \/ TilesDone(w)
  BY DEF Blas
<1>2. product' = product /\ threads[w].stage # "out"
  <2>1. Enter(w) \/ Gather(w) \/ Work(w) => product' = product /\ threads[w].stage # "out"
    BY DEF Enter, Gather, Work
  <2>2. Finish(w) \/ Leave(w) \/ Pack(w) => product' = product /\ threads[w].stage # "out"
    BY DEF Finish, Leave, Pack
  <2>3. PackDone(w) \/ Tile(w) \/ TilesDone(w) => product' = product /\ threads[w].stage # "out"
    BY DEF PackDone, Tile, TilesDone
  <2>. QED BY <1>1, <2>1, <2>2, <2>3
<1>3. ~ (product = << >> /\ threads = << >>)
  BY DEF Blas
<1>4. CASE product \in Products /\ Uncovered(product)
  BY <1>2, <1>4 DEF BlasInv
<1>5. ~ (Refused /\ \A v \in Threads : threads[v].stage = "out")
  BY <1>2 DEF Refused
<1>6. CASE InChunks
  <2>1. w \in Threads
    BY <1>6 DEF InChunks, BlasShape
  <2>2. InChunks'
    BY <1>1, <1>6, <2>1, ChunkStep
  <2>. QED BY <2>2 DEF BlasInv
<1>7. CASE InPacks
  <2>1. w \in Threads
    BY <1>7 DEF InPacks, BlasShape
  <2>2. InPacks'
    BY <1>1, <1>7, <2>1, PackStep
  <2>. QED BY <2>2 DEF BlasInv
<1>. QED BY <1>3, <1>4, <1>5, <1>6, <1>7 DEF BlasInv

\* The steps of the other computations.
LEMMA BlasStays ==
    ASSUME BlasInv, UNCHANGED bvars
    PROVE  BlasInv'
<1>1. product' = product /\ threads' = threads /\ chunk' = chunk /\ c' = c
  BY DEF bvars
<1>2. /\ Threads' = Threads /\ BlasShape' = BlasShape
      /\ \A e : InProduct(e)' = InProduct(e)
  BY <1>1 DEF Threads, BlasShape, InProduct
<1>3. ASSUME InChunks PROVE InChunks'
  <2>1. Barriers' = Barriers
    BY <1>1, <1>2 DEF Barriers
  <2>2. \A q : Counter(q)' = Counter(q)
    BY <1>1 DEF Counter
  <2>3. Jobs' = Jobs
    BY <1>1, <1>2, <2>2 DEF Jobs
  <2>4. Counting' = Counting
    BY <1>1, <1>2 DEF Counting
  <2>5. \A q, j : Pending(q, j)' = Pending(q, j)
    BY <1>1, <1>2, <2>2 DEF Pending, Busy
  <2>6. JobsCounted' = JobsCounted
    BY <1>1, <1>2, <2>5 DEF JobsCounted
  <2>. QED BY <1>1, <1>2, <1>3, <2>1, <2>3, <2>4, <2>6 DEF InChunks, ChunkInv
<1>4. ASSUME InPacks PROVE InPacks'
  <2>1. \A w, e : Waiting(w, e)' = Waiting(w, e)
    BY <1>1 DEF Waiting
  <2>2. Cuts' = Cuts
    BY <1>1, <1>2 DEF Cuts
  <2>3. Found' = Found
    BY <1>1, <1>2, <2>1 DEF Found
  <2>4. InTurn' = InTurn
    BY <1>1, <1>2 DEF InTurn
  <2>5. PacksCounted' = PacksCounted
    BY <1>1, <1>2, <2>1 DEF PacksCounted
  <2>. QED BY <1>1, <1>2, <1>4, <2>2, <2>3, <2>4, <2>5 DEF InPacks, PackInv
<1>5. ASSUME Refused PROVE Refused'
  BY <1>1, <1>2, <1>5 DEF Refused
<1>. QED BY <1>1, <1>2, <1>3, <1>4, <1>5 DEF BlasInv

\* What the invariant says of a product that is done.
LEMMA BlasCounts ==
    ASSUME BlasInv
    PROVE  TilesOnce
<1> SUFFICES ASSUME BlasDone, product # << >>, ~ Uncovered(product), NEW q \in DOMAIN c, NEW e \in DOMAIN c[q]
             PROVE  c[q][e] = IF Serves(product) /\ e[2] < product.n THEN product.panels ELSE 0
  BY DEF TilesOnce
<1>1. CASE Refused
  <2>1. q \in 1 .. product.calls /\ e \in Elements(product) /\ c[q][e] = 0
    BY <1>1 DEF Refused
  <2>. QED BY <1>1, <2>1 DEF Refused
<1>2. CASE InChunks
  <2>1. q \in 1 .. product.calls /\ e \in Elements(product)
    BY <1>2 DEF InChunks, BlasShape
  <2>2. \A v \in Threads : threads[v].stage = "out"
    BY <1>2 DEF InChunks, BlasShape, BlasDone
  <2>3. c[q][e] = IF InProduct(e) THEN product.panels ELSE 0
    BY <1>2, <2>1, <2>2, ChunksDone
  <2>. QED BY <1>2, <2>3 DEF InChunks, InProduct
<1>3. CASE InPacks
  <2>1. q = 1 /\ e \in Elements(product)
    <3>1. product.calls = 1
      BY <1>3, PackFacts
    <3>2. q \in 1 .. 1
      BY <1>3, <3>1 DEF InPacks, BlasShape
    <3>. QED BY <1>3, <3>2 DEF InPacks, BlasShape
  <2>2. \A v \in Threads : threads[v].stage = "out"
    BY <1>3 DEF InPacks, BlasShape, BlasDone
  <2>3. c[1][e] = IF InProduct(e) THEN product.panels ELSE 0
    BY <1>3, <2>1, <2>2, PacksAreDone
  <2>. QED BY <1>3, <2>1, <2>3 DEF InPacks, InProduct
<1>. QED BY <1>1, <1>2, <1>3 DEF BlasInv

\* Whatever the sizes, the class, the number of threads and the order in which
\* they take jobs from the chunk counter, cuts from their stacks and panels of
\* their tiles, every element of every C is computed once, and nothing beside.
THEOREM EveryTileOnce == Spec => []TilesOnce
<1>1. Init => BlasInv
  <2>1. IdleBlas => BlasInv
    BY DEF IdleBlas, BlasInv
  <2>. QED BY <2>1, BlasStarts DEF Init
<1>2. BlasInv /\ [Next]_kvars => BlasInv'
  <2>1. [Next]_kvars => Blas \/ UNCHANGED bvars
    BY DEF Next, kvars
  <2>. QED BY <2>1, BlasKeeps, BlasStays
<1>3. BlasInv => TilesOnce
  BY BlasCounts
<1>. QED BY <1>1, <1>2, <1>3, PTL DEF Spec
===============================================================================
