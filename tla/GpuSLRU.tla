------------------------------ MODULE GpuSLRU -------------------------------
(***************************************************************************)
(* The L1 expert cache as a component: any caller, the methods of the      *)
(* class GpuSLRU of inference/expert_cache.py in any order.                *)
(***************************************************************************)
EXTENDS SegmentedLRU

CONSTANT StepSets    \* the step_protected_keys a caller may pass ({} is None)

VARIABLES
    slru,         \* [prot, prob]
    returned,     \* the entries the last insertion handed to its caller
    call          \* the last call: "hit", "insert" or "shed"

slruVars == <<slru, returned, call>>

SlruInit ==
    /\ slru = Empty
    /\ returned = {}
    /\ call = "shed"

\* A miss returns None and changes nothing; this is a hit.
GetStep(k) ==
    /\ k \in Resident(slru)
    /\ slru' = Get(slru, k, NoLayer)
    /\ returned' = {}
    /\ call' = "hit"

PutForceStep(k, layer, step) ==
    LET r == PutForce(slru, k, layer, step)
    IN  /\ slru' = r.cache
        /\ returned' = r.evicted
        /\ call' = "insert"

PutForceProtectedStep(k, layer, step) ==
    LET r == PutForceProtected(slru, k, layer, step)
    IN  /\ slru' = r.cache
        /\ returned' = r.evicted
        /\ call' = "insert"

EvictHalfStep ==
    /\ slru' = EvictHalf(slru)
    /\ returned' = {}
    /\ call' = "shed"

Clear ==
    /\ slru' = Empty
    /\ returned' = {}
    /\ call' = "shed"

SlruNext ==
    \/ \E k \in Keys :
          \/ GetStep(k)
          \/ \E layer \in Layers \cup {NoLayer}, step \in StepSets :
                \/ PutForceStep(k, layer, step)
                \/ PutForceProtectedStep(k, layer, step)
    \/ EvictHalfStep
    \/ Clear

SlruSpec == SlruInit /\ [][SlruNext]_slruVars

----------------------------------------------------------------------------
(* Properties.                                                             *)

SlruTypeOK ==
    /\ slru \in [prot : Seq(Keys), prob : Seq(Keys)]
    /\ returned \in SUBSET Keys
    /\ call \in {"hit", "insert", "shed"}

\* The two segments are dictionaries without a common key: an expert held
\* twice would cost two slots of GPU memory, and a key found in one segment
\* would shadow stale parameters in the other.
SegmentsDisjoint ==
    /\ Distinct(slru.prot)
    /\ Distinct(slru.prob)
    /\ ToSet(slru.prot) \cap ToSet(slru.prob) = {}

\* Neither segment outgrows the capacity that the VRAM budget gave it,
\* whichever way promotions, demotions and warmup insertions interleave.
WithinCapacity ==
    /\ Len(slru.prot) <= ProtectedCapacity
    /\ Len(slru.prob) <= ProbationCapacity

\* What the cache promises, whatever its replacement policy: it holds at most
\* `capacity` experts, and an expert leaves it only by being handed back to
\* the caller that displaced it (ExpertCache._handle_eviction then frees the
\* Expert's weights) or in a wholesale evict_half / clear.
Bounded == INSTANCE BoundedCache
             WITH Key <- Keys, Capacity <- ProtectedCapacity + ProbationCapacity,
                  resident <- Resident(slru), released <- returned
ImplementsBoundedCache == Bounded!Spec
=============================================================================
