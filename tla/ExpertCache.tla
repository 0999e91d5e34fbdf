----------------------------- MODULE ExpertCache -----------------------------
(***************************************************************************)
(* ExpertCache of inference/expert_cache.py at work, in the archive mode   *)
(* with the whole pinned pool in RAM: the inference thread walks the MoE   *)
(* layers of each step (generate, _load_activated_experts, MoE.forward,    *)
(* CpuExpertRunner.prefetch_layer) while the two threads of                *)
(* `iq2xs_prefetch` copy experts to the GPU and leave them in              *)
(* _prefetch_pending, for the next on_layer_start to put into the cache.   *)
(*                                                                         *)
(* The router's choice, the access frequencies and the free VRAM are left  *)
(* open: any set of experts may be activated, any prefetch may be judged   *)
(* worthwhile or turned down.  What one lock section or one stretch of the *)
(* inference thread that touches no shared state does is one step.         *)
(***************************************************************************)
EXTENDS SegmentedLRU, FiniteSetsExt

CONSTANTS
    NLayers,          \* n_layers
    TopK,             \* experts the router picks for one token (6)
    MaxActivated,     \* distinct experts one forward activates in a layer:
                      \* TopK in a decode step, up to all in a prefill
    RustRunner,       \* whether CpuExpertRunner found its Rust kernels
    BatchTop,         \* _gpu_topk, the size of its prefetch batch
    Workers,          \* the threads of _iq2xs_prefetch_executor
    Warmups,          \* orders in which the warmup may have filled the cache
    MaxSteps          \* bound: steps explored before generation ends

ASSUME LayersAssumption == NLayers \in Nat \ {0} /\ Layers = 0 .. NLayers - 1
ASSUME ExpertsAssumption == IsFiniteSet(Experts)
ASSUME RoutingAssumption == TopK \in Nat \ {0} /\ MaxActivated \in Nat \ {0}
ASSUME StepsAssumption == MaxSteps \in Nat \ {0}

\* The warmup loads no expert twice and no more than the budget allows; it
\* stops early when VRAM runs out.
ASSUME WarmupAssumption ==
    \A w \in Warmups : /\ w \in Seq(Keys) /\ Distinct(w)
                      /\ Len(w) <= ProtectedCapacity + ProbationCapacity

VARIABLES
    cache,            \* _gpu_cache
    loaded,           \* the experts whose Expert object holds GPU weights
    stepKeys,         \* _step_protected_keys ({} when the protection is off)
    pending,          \* _prefetch_pending, in the order it is iterated
    inflight,         \* _iq2xs_prefetch_pending
    queue,            \* transfers submitted to the executor
    worker,           \* what each of its threads is doing
    pc, layer, step,  \* where the inference thread is
    activated,        \* the experts the gate chose for the layer
    batch             \* keys prefetch_experts_batch still has to look at

shared == <<pending, inflight, queue>>
main   == <<cache, loaded, stepKeys, pc, layer, step, activated, batch>>
vars   == <<main, shared, worker>>

Idle == [at |-> "idle"]
LayerKeys(l, es) == {<<l, e>> : e \in es}

\* on_step_start enables the protection only for a roomy cache.
Protecting == ProtectedCapacity + ProbationCapacity >= 2 * NLayers * TopK

Init ==
    /\ \E w \in Warmups :
          /\ cache = [prot |-> SubSeq(w, 1, Min({Len(w), ProtectedCapacity})),
                      prob |-> SubSeq(w, ProtectedCapacity + 1, Len(w))]
          /\ loaded = ToSet(w)
    /\ stepKeys = {}
    /\ pending = <<>> /\ inflight = {} /\ queue = <<>>
    /\ worker = [w \in Workers |-> Idle]
    /\ pc = "step" /\ layer = 0 /\ step = 1
    /\ activated = {} /\ batch = <<>>

----------------------------------------------------------------------------
(* The inference thread.                                                   *)

\* _gpu_put and _handle_eviction: the evicted expert's Expert object is
\* dropped, unless it belongs to the layer being computed.
GpuPut(s, k) ==
    LET r == PutForce(s.cache, k, layer, s.step)
    IN  [s EXCEPT !.cache  = r.cache,
                  !.loaded = @ \ {v \in r.evicted : LayerOf(v) # layer}]

\* _promote_prefetch: results for earlier layers have expired.
PutArrived(s, k) == IF LayerOf(k) >= layer THEN GpuPut(s, k) ELSE s
PromotePrefetch(s) == FoldLeft(PutArrived, s, pending)

\* The activated experts are visited in ascending order.
Ascending(order) == \A i, j \in DOMAIN order : i < j => order[i][2] < order[j][2]
Orderings(keys)  == {order \in SetToSeqs(keys) : Ascending(order)}

\* get_expert_gpu_params of one hit, and of all of them.
Access(c, k)     == Get(c, k, NoLayer)
GetAll(c, order) == FoldLeft(Access, c, order)

\* Faulty variants of Wanted: without the check of the cache, without the
\* check of the transfers in flight, and with an off-by-one layer bound.
Wanted_IgnoresCache(l, es, c, p) ==
    IF l < NLayers THEN LayerKeys(l, es) \ (inflight \cup p) ELSE {}
Wanted_IgnoresInflight(l, es, c, p) ==
    IF l < NLayers THEN LayerKeys(l, es) \ (Resident(c) \cup p) ELSE {}
Wanted_PastLastLayer(l, es, c, p) ==
    IF l <= NLayers THEN LayerKeys(l, es) \ (Resident(c) \cup inflight \cup p) ELSE {}

\* _prefetch_layer_diffset: the experts of layer l worth a transfer.
Wanted(l, es, c, p) ==
    IF l < NLayers THEN LayerKeys(l, es) \ (Resident(c) \cup inflight \cup p) ELSE {}

\* _async_prefetch_expert, which turns down what free VRAM does not allow.
Submit(keys) ==
    /\ inflight' = inflight \cup keys
    /\ \E order \in Orderings(keys) : queue' = queue \o order

\* Expert objects after classification: hits get their weights, misses are
\* set to None so that forward sends them to the CPU.
SetExperts_KeepsMisses(old, hits, misses) == old \cup hits
SetExperts(old, hits, misses) == (old \cup hits) \ misses

StepStart ==
    /\ pc = "step"
    /\ stepKeys' = {}
    /\ layer' = 0
    /\ pc' = "load"
    /\ UNCHANGED <<cache, loaded, step, activated, batch, shared, worker>>

\* _load_activated_experts: promote what has arrived, classify, fetch the
\* hits, then prefetch the same experts of the next layer.
LoadActivated(es) ==
    LET s == PromotePrefetch([cache |-> cache, loaded |-> loaded, step |-> stepKeys])
        keys   == LayerKeys(layer, es)
        hits   == keys \cap Resident(s.cache)
    IN  /\ pc = "load"
        /\ \E order \in Orderings(hits) : cache' = GetAll(s.cache, order)
        /\ loaded' = SetExperts(s.loaded, hits, keys \ hits)
        /\ stepKeys' = IF Protecting THEN stepKeys \cup hits ELSE {}
        /\ pending' = <<>>
        /\ \E keep \in SUBSET Wanted(layer + 1, es, cache', {}) : Submit(keep)
        /\ activated' = es
        /\ pc' = "forward"
        /\ UNCHANGED <<layer, step, batch, worker>>

\* MoE.forward: an expert without weights goes to the mixed-quantisation
\* pool, which this mode does not have; the AttributeError ends the process.
ForwardMiss ==
    /\ pc = "forward"
    /\ ~ (LayerKeys(layer, activated) \subseteq loaded)
    /\ pc' = "dead"
    /\ UNCHANGED <<cache, loaded, stepKeys, layer, step, activated, batch, shared, worker>>

\* All experts computed on the GPU; then CpuExpertRunner.prefetch_layer lists
\* the most used experts of the next layer that the cache lacks.
Forward ==
    /\ pc = "forward"
    /\ LayerKeys(layer, activated) \subseteq loaded
    /\ LET lacking == IF RustRunner /\ layer + 1 < NLayers
                      THEN LayerKeys(layer + 1, Experts) \ Resident(cache) ELSE {}
           n == Min({BatchTop, Cardinality(lacking)})
       IN  \E keys \in kSubset(n, lacking) : batch' \in SetToSeqs(keys)
    /\ activated' = {}
    /\ pc' = "batch"
    /\ UNCHANGED <<cache, loaded, stepKeys, layer, step, shared, worker>>

\* prefetch_experts_batch looks its next key up in _prefetch_pending ...
BatchCheckPending ==
    /\ pc = "batch"
    /\ batch # <<>>
    /\ IF Head(batch) \in ToSet(pending)
       THEN batch' = Tail(batch) /\ UNCHANGED pc
       ELSE pc' = "submit" /\ UNCHANGED batch
    /\ UNCHANGED <<cache, loaded, stepKeys, layer, step, activated, shared, worker>>

\* ... then, taking the lock anew, in the set of transfers in flight.
BatchSubmit ==
    /\ pc = "submit"
    /\ \/ Head(batch) \notin inflight /\ Submit({Head(batch)})
       \/ UNCHANGED <<inflight, queue>>
    /\ batch' = Tail(batch)
    /\ pc' = "batch"
    /\ UNCHANGED <<cache, loaded, stepKeys, layer, step, activated, pending, worker>>

NextLayer ==
    /\ pc = "batch"
    /\ batch = <<>>
    /\ layer + 1 < NLayers
    /\ layer' = layer + 1
    /\ pc' = "load"
    /\ UNCHANGED <<cache, loaded, stepKeys, step, activated, batch, shared, worker>>

\* on_step_end; then every tenth position finalize_prefetch promotes what has
\* arrived for the last layer.  When memory is short, check_memory_pressure
\* then drops shard metadata and PyTorch's unused blocks, none of which is here.
StepEnd ==
    /\ pc = "batch"
    /\ batch = <<>>
    /\ layer + 1 = NLayers
    /\ stepKeys' = {}
    /\ \/ UNCHANGED <<cache, loaded, pending>>
       \/ LET s == PromotePrefetch([cache |-> cache, loaded |-> loaded, step |-> {}])
          IN  cache' = s.cache /\ loaded' = s.loaded /\ pending' = <<>>
    /\ \/ step < MaxSteps /\ step' = step + 1 /\ pc' = "step"
       \/ step' = step /\ pc' = "stop"
    /\ UNCHANGED <<layer, activated, batch, inflight, queue, worker>>

----------------------------------------------------------------------------
(* The prefetch threads (_iq2xs_prefetch_worker).                          *)

Take(w) ==
    /\ worker[w] = Idle
    /\ queue # <<>>
    /\ worker' = [worker EXCEPT ![w] = [at |-> "transfer", key |-> Head(queue)]]
    /\ queue' = Tail(queue)
    /\ UNCHANGED <<main, pending, inflight>>

\* _prefetch_pending[layer][expert] = gpu_params, where iteration finds the
\* experts of a layer together.
Deposit(p, k) ==
    LET sameLayer == {i \in DOMAIN p : LayerOf(p[i]) = LayerOf(k)}
    IN  IF k \in ToSet(p) THEN p
        ELSE IF sameLayer = {} THEN Append(p, k)
        ELSE InsertAt(p, Max(sameLayer) + 1, k)

Publish(w) ==
    /\ worker[w].at = "transfer"
    /\ pending' = Deposit(pending, worker[w].key)
    /\ worker' = [worker EXCEPT ![w].at = "leaving"]
    /\ UNCHANGED <<main, inflight, queue>>

\* Faulty variant: the failure path without the `finally` clause.
Abort_SkipsFinally(w) ==
    /\ worker[w].at = "transfer"
    /\ worker' = [worker EXCEPT ![w] = Idle]
    /\ UNCHANGED <<main, shared>>

\* Out of VRAM, or any other exception: nothing to deposit.
Abort(w) ==
    /\ worker[w].at = "transfer"
    /\ worker' = [worker EXCEPT ![w].at = "leaving"]
    /\ UNCHANGED <<main, shared>>

\* The `finally` clause.
Discard(w) ==
    /\ worker[w].at = "leaving"
    /\ inflight' = inflight \ {worker[w].key}
    /\ worker' = [worker EXCEPT ![w] = Idle]
    /\ UNCHANGED <<main, pending, queue>>

----------------------------------------------------------------------------
MainStep ==
    \/ StepStart
    \/ \E n \in 1 .. MaxActivated : \E es \in kSubset(n, Experts) : LoadActivated(es)
    \/ ForwardMiss \/ Forward
    \/ BatchCheckPending \/ BatchSubmit
    \/ NextLayer \/ StepEnd

WorkerStep(w) == Take(w) \/ Publish(w) \/ Abort(w) \/ Discard(w)

Next == MainStep \/ \E w \in Workers : WorkerStep(w)

\* The operating system schedules the executor's threads; nothing obliges
\* generation to go on.
Spec == Init /\ [][Next]_vars /\ \A w \in Workers : WF_vars(WorkerStep(w))

----------------------------------------------------------------------------
(* Properties.                                                             *)

Transferring == ToSet(queue) \cup
                {worker[w].key : w \in {v \in Workers : worker[v].at = "transfer"}}

TypeOK ==
    /\ cache \in [prot : Seq(Keys), prob : Seq(Keys)]
    /\ loaded \subseteq Keys /\ stepKeys \subseteq Keys
    /\ pending \in Seq(Keys) /\ queue \in Seq(Keys) /\ inflight \subseteq Keys
    /\ \A w \in Workers : \/ worker[w] = Idle
                           \/ /\ worker[w].at \in {"transfer", "leaving"}
                              /\ worker[w].key \in Keys
    /\ pc \in {"step", "load", "forward", "batch", "submit", "stop", "dead"}
    /\ layer \in Layers /\ step \in 1 .. MaxSteps
    /\ activated \subseteq Experts /\ batch \in Seq(Keys)

\* No PCIe transfer is spent on an expert that is resident, that has already
\* arrived, or that another thread is transferring: _prefetch_layer_diffset
\* (expert_cache.py:1083-1100, "prefetch the experts of the difference set")
\* looks at the cache, which only its own thread changes, and then at both
\* sets of the prefetch threads in one lock section.
NoRedundantTransfer ==
    /\ Transferring \cap (Resident(cache) \cup ToSet(pending)) = {}
    /\ Distinct(queue)
    /\ \A w \in Workers : worker[w].at = "transfer" =>
          /\ worker[w].key \notin ToSet(queue)
          /\ \A v \in Workers \ {w} :
                worker[v].at = "transfer" => worker[v].key # worker[w].key

\* prefetch_experts_batch "submits all experts that are not in the GPU cache and
\* not being prefetched" (expert_cache.py:2609) and skips those "already in the
\* prefetch queue" (2623): none that it submits has arrived.
BatchSubmitsOnce ==
    [][pc = "submit" => (inflight' \ inflight) \cap (Resident(cache) \cup ToSet(pending)) = {}]_vars

\* The expert that a forward pass computes on the GPU is one the cache holds:
\* an Expert object never outlives the slot that its weights were charged to
\* into a computation.
ComputedFromCache ==
    pc = "forward" => LayerKeys(layer, activated) \cap loaded \subseteq Resident(cache)

\* "An expert the current step has accessed is not evicted": neither by the
\* promotions of a later layer nor by the demotions that hits cause.
StepProtected ==
    [][Protecting /\ stepKeys' # {} => stepKeys \subseteq Resident(cache')]_vars

\* put_force does "no automatic promotion, lest experts accessed once occupy
\* protected": only an access of the step itself moves an expert there.
PromotedOnAccess ==
    [][ToSet(cache'.prot) \ ToSet(cache.prot) \subseteq LayerKeys(layer', activated')]_vars

\* Every prefetch that is announced in _iq2xs_prefetch_pending is withdrawn
\* from it, whether it succeeds or fails: otherwise the expert could never be
\* prefetched again.
PrefetchCompletes == \A k \in Keys : k \in inflight ~> k \notin inflight
=============================================================================
