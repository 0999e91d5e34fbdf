---------------------------- MODULE SegmentedLRU ----------------------------
(***************************************************************************)
(* The replacement policy of the L1 expert cache (class GpuSLRU of         *)
(* inference/expert_cache.py): a segmented LRU.  A new expert enters       *)
(* `probation`; a second access promotes it to `protected`; whatever does  *)
(* not fit is evicted from `probation`, sparing when possible the layer    *)
(* being computed and the experts the current step has touched.            *)
(*                                                                         *)
(* A cache value is a record [prot, prob] of two recency orders; each      *)
(* operator below is a method, as a function of the cache value.           *)
(***************************************************************************)
EXTENDS RecencyOrder, Integers, FiniteSets

CONSTANTS
    Layers,               \* layer ids
    Experts,              \* routed-expert ids of a layer
    ProtectedCapacity,    \* int(capacity * 0.90)
    ProbationCapacity     \* capacity - protected_capacity

\* adjust_window_for_vram leaves at least eight slots (100 MB of budget, at
\* most 12 MB an expert): both segments have room for an expert.
ASSUME CapacityAssumption ==
    /\ ProtectedCapacity \in Nat \ {0}
    /\ ProbationCapacity \in Nat \ {0}

Keys    == Layers \X Experts
LayerOf(k) == k[1]
NoLayer == -1                       \* _current_layer before the first layer

Empty == [prot |-> <<>>, prob |-> <<>>]

----------------------------------------------------------------------------
(* Operators on a cache value.                                             *)

Resident(c) == ToSet(c.prot) \cup ToSet(c.prob)

\* _evict_lru_skip_layer prefers an entry that is neither of the protected
\* layer nor in the step's set ...
Spared(k, layer, step) == LayerOf(k) = layer \/ k \in step

\* Faulty variant: the scan starts at the most recent entry.
VictimIndex_Newest(od, layer, step) ==
    LET evictable == {i \in DOMAIN od : ~ Spared(od[i], layer, step)}
    IN  IF evictable = {} THEN Len(od)
        ELSE CHOOSE i \in evictable : \A j \in evictable : i >= j

\* ... and takes the oldest one when every entry is spared.
VictimIndex(od, layer, step) ==
    LET evictable == {i \in DOMAIN od : ~ Spared(od[i], layer, step)}
    IN  IF evictable = {} THEN 1
        ELSE CHOOSE i \in evictable : \A j \in evictable : i <= j

\* probation.popitem(last=False) when probation has no room, then insert.
PushProbation(prob, k) ==
    Append(IF Len(prob) >= ProbationCapacity THEN Tail(prob) ELSE prob, k)

\* Faulty variants, each the definition that follows with one plausible bug:
\* the demoted entry is dropped; its key is rebuilt with layer and expert in
\* the wrong order; a probation hit leaves the key where it was; the capacity
\* test is off by one.
Promote_DropsDemoted(c, k, layer, step) ==
    IF Len(c.prot) < ProtectedCapacity
    THEN [c EXCEPT !.prot = Append(@, k)]
    ELSE LET v == VictimIndex(c.prot, layer, step)
         IN  [c EXCEPT !.prot = Append(RemoveAt(@, v), k)]

Promote_SwappedKey(c, k, layer, step) ==
    IF Len(c.prot) < ProtectedCapacity
    THEN [c EXCEPT !.prot = Append(@, k)]
    ELSE LET v == VictimIndex(c.prot, layer, step)
         IN  [prot |-> Append(RemoveAt(c.prot, v), k),
              prob |-> PushProbation(c.prob, <<c.prot[v][2], c.prot[v][1]>>)]

\* _promote_to_protected: k has already left probation.
Promote(c, k, layer, step) ==
    IF Len(c.prot) < ProtectedCapacity
    THEN [c EXCEPT !.prot = Append(@, k)]
    ELSE LET v == VictimIndex(c.prot, layer, step)
         IN  [prot |-> Append(RemoveAt(c.prot, v), k),
              prob |-> PushProbation(c.prob, c.prot[v])]

Get_KeepsProbation(c, k, layer) ==
    IF k \in ToSet(c.prot) THEN [c EXCEPT !.prot = MoveToEnd(@, k)]
    ELSE Promote(c, k, layer, {})

\* get: a probation hit is a second access.
Get(c, k, layer) ==
    IF k \in ToSet(c.prot) THEN [c EXCEPT !.prot = MoveToEnd(@, k)]
    ELSE Promote([c EXCEPT !.prob = Pop(@, k)], k, layer, {})

Admit_OffByOne(od, capacity, k, layer, step) ==
    IF Len(od) <= capacity
    THEN [order |-> Append(od, k), evicted |-> {}]
    ELSE LET v == VictimIndex(od, layer, step)
         IN  [order |-> Append(RemoveAt(od, v), k), evicted |-> {od[v]}]

\* Insert a key that is in neither segment: the room it needs and the victim
\* (a set of at most one key) that the caller is told about.
Admit(od, capacity, k, layer, step) ==
    IF Len(od) < capacity
    THEN [order |-> Append(od, k), evicted |-> {}]
    ELSE LET v == VictimIndex(od, layer, step)
         IN  [order |-> Append(RemoveAt(od, v), k), evicted |-> {od[v]}]

\* put_force: the new cache and what it returns to the caller.
PutForce(c, k, layer, step) ==
    IF k \in ToSet(c.prot)
    THEN [cache |-> [c EXCEPT !.prot = MoveToEnd(@, k)], evicted |-> {}]
    ELSE IF k \in ToSet(c.prob)
    THEN [cache |-> Promote([c EXCEPT !.prob = Pop(@, k)], k, layer, step),
          evicted |-> {}]
    ELSE LET a == Admit(c.prob, ProbationCapacity, k, layer, step)
         IN  [cache |-> [c EXCEPT !.prob = a.order], evicted |-> a.evicted]

\* put_force_protected: the warmup's insertion straight into protected.
PutForceProtected(c, k, layer, step) ==
    IF k \in ToSet(c.prot)
    THEN [cache |-> [c EXCEPT !.prot = MoveToEnd(@, k)], evicted |-> {}]
    ELSE LET a == Admit(c.prot, ProtectedCapacity, k, layer, step)
         IN  [cache   |-> [prot |-> a.order,
                           prob |-> IF k \in ToSet(c.prob) THEN Pop(c.prob, k)
                                    ELSE c.prob],
              evicted |-> a.evicted]

\* evict_half: half of the entries go, probation first, oldest first.
EvictHalf(c) ==
    LET total    == Len(c.prot) + Len(c.prob)
        half     == total \div 2
        fromProb == IF half <= Len(c.prob) THEN half ELSE Len(c.prob)
    IN  [prot |-> SubSeq(c.prot, half - fromProb + 1, Len(c.prot)),
         prob |-> SubSeq(c.prob, fromProb + 1, Len(c.prob))]
=============================================================================
