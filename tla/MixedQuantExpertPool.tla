------------------------ MODULE MixedQuantExpertPool -------------------------
(***************************************************************************)
(* The IQ2_XXS + Q2_K engine of inference/rust_cpu_expert.py with its GPU  *)
(* FFN on: MixedQuantExpertPool and the part of MoE.forward and            *)
(* _load_activated_experts that drives it.  For each routed (token,        *)
(* expert) pair the inference thread takes the GPU path if the expert is   *)
(* in _gpu_cache, and otherwise hands it to the threads of                 *)
(* _cpu_ffn_executor; one thread of _prefetch_executor uploads experts.    *)
(* Both kinds of thread go through _raw_cache without a lock, so that each *)
(* look-up, read, insertion and deletion there is a step.                  *)
(*                                                                         *)
(* Left open: what the gate routes, the frequency ranks that order         *)
(* predictions and choose victims, and when the GPU runs out of memory.    *)
(***************************************************************************)
EXTENDS Naturals, Sequences, FiniteSets, SequencesExt, FiniteSetsExt

CONSTANTS
    NLayers,          \* MoE layers
    Experts,          \* expert ids of a layer
    Tokens,           \* tokens of one forward: one in a decode step
    Capacity,         \* _gpu_cache_capacity
    PrefetchCount,    \* prefetch_count
    PrefetchLayers,   \* prefetch_layers
    Frequencies,      \* what the frequency file may say, saturated at two
    Slack,            \* evictions one prediction may cause (5)
    Threads,          \* workers of _cpu_ffn_executor (4)
    Uploader,         \* the single worker of _prefetch_executor
    MaxForwards       \* bound: forward passes explored

ASSUME PoolAssumption == /\ NLayers \in Nat \ {0}
                         /\ Experts \subseteq Nat /\ IsFiniteSet(Experts)
                         /\ Tokens \subseteq Nat /\ IsFiniteSet(Tokens)
                         /\ Capacity \in Nat \ {0}
                         /\ PrefetchCount \in Nat /\ PrefetchLayers \in Nat
                         /\ Slack \in Nat
                         /\ Uploader \notin Threads
                         /\ MaxForwards \in Nat \ {0}

Layers == 0 .. NLayers - 1
Keys   == Layers \X Experts
Pairs  == Tokens \X Experts         \* a routed token and its expert

ASSUME FrequenciesAssumption == Frequencies \subseteq [Keys -> 0 .. 2]

VARIABLES
    gpuCache,         \* keys of _gpu_cache
    hits,             \* _gpu_freq, saturated at two
    announced,        \* _prefetch_pending
    uploads,          \* the queue of _prefetch_executor
    rawCache,         \* keys of _raw_cache
    rustCache,        \* keys of _cache
    task,             \* what each executor thread is doing
    jobs,             \* the queue of _cpu_ffn_executor
    pc, layer, forwards,
    asks,             \* keys the pool is still asked about before forward
    budget,           \* total_budget - total_uploaded
    routed,           \* the pairs the gate chose for the layer
    todo,             \* those not dispatched yet
    computed,         \* those whose output a future or the GPU delivered
    failed            \* those whose future raised

gpuState  == <<gpuCache, hits, announced, uploads>>
hostState == <<rawCache, rustCache>>
asking    == <<asks, budget>>
main      == <<pc, layer, forwards, asking, routed, todo>>
results   == <<computed, failed>>
vars      == <<gpuState, hostState, task, jobs, main, results>>

Idle == [at |-> "idle"]

\* warmup_gpu_cache has run: some experts are already uploaded, and those it
\* evicted again, too, have left their raw data in _raw_cache.
Init ==
    /\ gpuCache \in {s \in SUBSET Keys : Cardinality(s) <= Capacity}
    /\ rawCache \in {s \in SUBSET Keys : gpuCache \subseteq s}
    /\ hits \in Frequencies
    /\ announced = {} /\ uploads = <<>>
    /\ rustCache = {}
    /\ task = [t \in Threads \cup {Uploader} |-> Idle]
    /\ jobs = <<>>
    /\ pc = "load" /\ layer = 0 /\ forwards = 1
    /\ asks = <<>> /\ budget = 0
    /\ routed = {} /\ todo = <<>> /\ computed = {} /\ failed = {}

----------------------------------------------------------------------------
(* The inference thread.                                                   *)

\* Faulty variant: a key already announced is submitted again.
Announce_Twice(k) ==
    /\ announced' = announced \cup {k}
    /\ uploads' = Append(uploads, k)

\* _async_upload.
Announce(k) ==
    /\ announced' = announced \cup {k}
    /\ uploads' = IF k \in announced THEN uploads ELSE Append(uploads, k)

\* forward and _load_activated_experts go through the experts in ascending
\* order, and forward for each through its tokens.
Ascending(order) ==
    \A i, j \in DOMAIN order : i < j =>
        \/ order[i][2] < order[j][2]
        \/ order[i][2] = order[j][2] /\ order[i][1] < order[j][1]
InOrder(s) == {order \in SetToSeqs(s) : Ascending(order)}

\* The gate has chosen; _load_activated_experts begins.
Load(pairs) ==
    /\ pc = "load"
    /\ routed' = pairs
    /\ todo' \in InOrder(pairs)
    /\ asks' \in InOrder({layer} \X {p[2] : p \in pairs})
    /\ pc' = "admit"
    /\ UNCHANGED <<gpuState, hostState, task, jobs, layer, forwards, budget, results>>

\* record_gpu_access: from its second access on, an expert that is not in
\* the cache is uploaded.
Accessed(k) == [hits EXCEPT ![k] = IF @ < 2 THEN @ + 1 ELSE @]

Admit ==
    /\ pc = "admit"
    /\ asks # <<>>
    /\ hits' = Accessed(Head(asks))
    /\ IF hits'[Head(asks)] >= 2 /\ Head(asks) \notin gpuCache
       THEN pc' = "upload" /\ UNCHANGED asks
       ELSE asks' = Tail(asks) /\ UNCHANGED pc
    /\ UNCHANGED <<gpuCache, announced, uploads, hostState, task, jobs,
                   layer, forwards, budget, routed, todo, results>>

UploadAdmitted ==
    /\ pc = "upload"
    /\ Announce(Head(asks))
    /\ asks' = Tail(asks)
    /\ pc' = "admit"
    /\ UNCHANGED <<gpuCache, hits, hostState, task, jobs,
                   layer, forwards, budget, routed, todo, results>>

\* predictive_prefetch: the experts that each of the next layers may need,
\* those of this layer and the most frequent of that one, and the uploads
\* that the free slots and the slack allow.
Budget == (IF Cardinality(gpuCache) < Capacity THEN Capacity - Cardinality(gpuCache) ELSE 0) + Slack

\* Faulty variant: an off-by-one layer bound.
Targets_PastLastLayer == {l \in layer + 1 .. layer + PrefetchLayers : l <= NLayers}
Targets == {l \in layer + 1 .. layer + PrefetchLayers : l < NLayers}

Predictions(es) ==
    LET ranked == {top \in SUBSET Experts : Cardinality(top) = PrefetchCount}
    IN  {UNION {{l} \X (es \cup top[l]) : l \in Targets} : top \in [Targets -> ranked]}

LayerByLayer(order) == \A i, j \in DOMAIN order : i < j => order[i][1] <= order[j][1]

Predict ==
    /\ pc = "admit"
    /\ asks = <<>>
    /\ budget' = Budget
    /\ \E keys \in Predictions({p[2] : p \in routed}) :
          asks' \in {order \in SetToSeqs(keys) : LayerByLayer(order)}
    /\ pc' = "predict"
    /\ UNCHANGED <<gpuState, hostState, task, jobs, layer, forwards, routed, todo, results>>

Foresee ==
    /\ pc = "predict"
    /\ asks # <<>> /\ budget > 0
    /\ IF Head(asks) \notin gpuCache
       THEN pc' = "prefetch" /\ UNCHANGED asks
       ELSE asks' = Tail(asks) /\ UNCHANGED pc
    /\ UNCHANGED <<gpuState, hostState, task, jobs,
                   layer, forwards, budget, routed, todo, results>>

UploadPredicted ==
    /\ pc = "prefetch"
    /\ Announce(Head(asks))
    /\ asks' = Tail(asks)
    /\ budget' = budget - 1
    /\ pc' = "predict"
    /\ UNCHANGED <<gpuCache, hits, hostState, task, jobs,
                   layer, forwards, routed, todo, results>>

\* _load_activated_experts returns to MoE.forward.
Loaded ==
    /\ pc = "predict"
    /\ asks = <<>> \/ budget = 0
    /\ asks' = <<>> /\ budget' = 0
    /\ pc' = "dispatch"
    /\ UNCHANGED <<gpuState, hostState, task, jobs, layer, forwards, routed, todo, results>>

\* MoE.forward asks gpu_cache_contains for the next pair; a miss goes to the
\* CPU threads ...
Dispatch ==
    /\ pc = "dispatch"
    /\ todo # <<>>
    /\ IF <<layer, Head(todo)[2]>> \in gpuCache
       THEN pc' = "compute" /\ UNCHANGED <<todo, jobs>>
       ELSE /\ todo' = Tail(todo)
            /\ jobs' = Append(jobs, Head(todo))
            /\ UNCHANGED pc
    /\ UNCHANGED <<gpuState, hostState, task, layer, forwards, asking, routed, results>>

\* ... and a hit is computed by compute_ffn_gpu, which looks the expert up
\* again; it may be gone, or the kernel may fail, and then the CPU takes over.
Compute ==
    /\ pc = "compute"
    /\ \/ /\ <<layer, Head(todo)[2]>> \in gpuCache
          /\ computed' = computed \cup {Head(todo)}
          /\ UNCHANGED jobs
       \/ /\ jobs' = Append(jobs, Head(todo))
          /\ UNCHANGED computed
    /\ todo' = Tail(todo)
    /\ pc' = "dispatch"
    /\ UNCHANGED <<gpuState, hostState, task, layer, forwards, asking, routed, failed>>

\* future.result() of all that was submitted: each has returned or raised.
AllResolved ==
    /\ pc = "dispatch"
    /\ todo = <<>> /\ jobs = <<>>
    /\ \A t \in Threads : task[t] = Idle

LayerDone ==
    /\ AllResolved
    /\ IF layer + 1 < NLayers THEN layer' = layer + 1 /\ UNCHANGED forwards
       ELSE layer' = 0 /\ forwards' = forwards + 1
    /\ pc' = IF forwards' <= MaxForwards THEN "load" ELSE "stop"
    /\ routed' = {} /\ computed' = {} /\ failed' = {}
    /\ UNCHANGED <<gpuState, hostState, task, jobs, asking, todo>>

----------------------------------------------------------------------------
(* _load_raw, as every executor thread runs it.                            *)

Goto(t, at) == task' = [task EXCEPT ![t].at = at]

\* if key in self._raw_cache ...
LoadCheck(t) ==
    /\ task[t].at = "check"
    /\ Goto(t, IF task[t].key \in rawCache THEN "read" ELSE "parse")
    /\ UNCHANGED <<gpuState, hostState, jobs, main, results>>

\* Faulty variant: a thread that finds the entry gone waits for it.
LoadRead_Waits(t) ==
    /\ task[t].at = "read"
    /\ task[t].key \in rawCache
    /\ Goto(t, "build")
    /\ UNCHANGED <<gpuState, hostState, jobs, main, results>>

\* ... return self._raw_cache[key], which raises KeyError if it has gone.
LoadRead(t) ==
    /\ task[t].at = "read"
    /\ Goto(t, IF task[t].key \in rawCache THEN "build" ELSE "raise")
    /\ UNCHANGED <<gpuState, hostState, jobs, main, results>>

\* Otherwise the tensors are parsed from the GGUF file and kept.
LoadParse(t) ==
    /\ task[t].at = "parse"
    /\ rawCache' = rawCache \cup {task[t].key}
    /\ Goto(t, "build")
    /\ UNCHANGED <<gpuState, rustCache, jobs, main, results>>

LoadRaw(t) == LoadCheck(t) \/ LoadRead(t) \/ LoadParse(t)

----------------------------------------------------------------------------
(* A thread of _cpu_ffn_executor: compute_ffn and get_rust_weights.        *)

TakeJob(t) ==
    /\ task[t] = Idle
    /\ jobs # <<>>
    /\ LET k == <<layer, Head(jobs)[2]>>
       IN  task' = [task EXCEPT ![t] = [at   |-> IF k \in rustCache THEN "ffn" ELSE "check",
                                        key  |-> k, pair |-> Head(jobs)]]
    /\ jobs' = Tail(jobs)
    /\ UNCHANGED <<gpuState, hostState, main, results>>

Build(t) ==
    /\ task[t].at = "build"
    /\ rustCache' = rustCache \cup {task[t].key}
    /\ Goto(t, "free")
    /\ UNCHANGED <<gpuState, rawCache, jobs, main, results>>

\* if key in self._raw_cache: ...
FreeCheck(t) ==
    /\ task[t].at = "free"
    /\ Goto(t, IF task[t].key \in rawCache THEN "delete" ELSE "ffn")
    /\ UNCHANGED <<gpuState, hostState, jobs, main, results>>

\* ... del self._raw_cache[key], which raises KeyError if it has gone.
Delete(t) ==
    /\ task[t].at = "delete"
    /\ rawCache' = rawCache \ {task[t].key}
    /\ Goto(t, IF task[t].key \in rawCache THEN "ffn" ELSE "raise")
    /\ UNCHANGED <<gpuState, rustCache, jobs, main, results>>

Finish(t) ==
    /\ task[t].at = "ffn"
    /\ computed' = computed \cup {task[t].pair}
    /\ task' = [task EXCEPT ![t] = Idle]
    /\ UNCHANGED <<gpuState, hostState, jobs, main, failed>>

\* forward prints the exception and leaves the pair out of the sum.
Raise(t) ==
    /\ task[t].at = "raise"
    /\ failed' = failed \cup {task[t].pair}
    /\ task' = [task EXCEPT ![t] = Idle]
    /\ UNCHANGED <<gpuState, hostState, jobs, main, computed>>

CpuThread(t) ==
    \/ TakeJob(t) \/ LoadRaw(t) \/ Build(t)
    \/ FreeCheck(t) \/ Delete(t) \/ Finish(t) \/ Raise(t)

----------------------------------------------------------------------------
(* The thread of _prefetch_executor: upload_to_gpu_cache.                  *)

\* What the cache may be after the eviction loop; the loop's victims are the
\* least frequently used keys.
Evicted_OffByOne(c) ==
    IF Cardinality(c) <= Capacity THEN {c} ELSE {c \ {v} : v \in c}
Evicted(c) ==
    IF Cardinality(c) < Capacity THEN {c} ELSE {c \ {v} : v \in c}

TakeUpload ==
    /\ task[Uploader] = Idle
    /\ uploads # <<>>
    /\ uploads' = Tail(uploads)
    /\ LET k == Head(uploads)
       IN  IF k \in gpuCache
           THEN /\ task' = [task EXCEPT ![Uploader] = [at |-> "leave", key |-> k]]
                /\ UNCHANGED gpuCache
           ELSE /\ task' = [task EXCEPT ![Uploader] =
                                [at |-> "check", key |-> k, retry |-> FALSE]]
                /\ gpuCache' \in Evicted(gpuCache)
    /\ UNCHANGED <<hits, announced, hostState, jobs, main, results>>

\* Faulty variant: the raw copy is released once the upload is complete.
Insert_FreesRaw ==
    /\ task[Uploader].at = "build"
    /\ gpuCache' = gpuCache \cup {task[Uploader].key}
    /\ rawCache' = rawCache \ {task[Uploader].key}
    /\ Goto(Uploader, "leave")
    /\ UNCHANGED <<hits, announced, uploads, rustCache, jobs, main, results>>

Insert ==
    /\ task[Uploader].at = "build"
    /\ gpuCache' = gpuCache \cup {task[Uploader].key}
    /\ Goto(Uploader, "leave")
    /\ UNCHANGED <<hits, announced, uploads, hostState, jobs, main, results>>

\* Out of memory: half of the cache goes and the upload is tried once more.
OutOfMemory ==
    /\ task[Uploader].at = "build"
    /\ IF task[Uploader].retry
       THEN Goto(Uploader, "leave") /\ UNCHANGED gpuCache
       ELSE LET n == Min({Cardinality(gpuCache), Max({1, Cardinality(gpuCache) \div 2})})
            IN  /\ gpuCache' \in {gpuCache \ v : v \in kSubset(n, gpuCache)}
                /\ task' = [task EXCEPT ![Uploader].at = "check", ![Uploader].retry = TRUE]
    /\ UNCHANGED <<hits, announced, uploads, hostState, jobs, main, results>>

\* A KeyError of _load_raw, or an error that is not out of memory, is printed
\* and the upload given up.
GiveUp ==
    /\ task[Uploader].at \in {"build", "raise"}
    /\ Goto(Uploader, "leave")
    /\ UNCHANGED <<gpuState, hostState, jobs, main, results>>

\* The `finally` clause.
Withdraw ==
    /\ task[Uploader].at = "leave"
    /\ announced' = announced \ {task[Uploader].key}
    /\ task' = [task EXCEPT ![Uploader] = Idle]
    /\ UNCHANGED <<gpuCache, hits, uploads, hostState, jobs, main, results>>

UploadThread ==
    \/ TakeUpload \/ LoadRaw(Uploader) \/ Insert
    \/ OutOfMemory \/ GiveUp \/ Withdraw

----------------------------------------------------------------------------
Routings == {r \in SUBSET Pairs : \A t \in Tokens : \E e \in Experts : <<t, e>> \in r}

Loading == Admit \/ UploadAdmitted \/ Predict \/ Foresee \/ UploadPredicted \/ Loaded
InLayer == Loading \/ Dispatch \/ Compute \/ LayerDone

Next ==
    \/ \E r \in Routings : Load(r)
    \/ InLayer
    \/ \E t \in Threads : CpuThread(t)
    \/ UploadThread

\* Threads run when the system schedules them, and the inference thread does
\* not stop in the middle of a layer.
Spec == /\ Init /\ [][Next]_vars
        /\ WF_vars(InLayer) /\ WF_vars(UploadThread)
        /\ \A t \in Threads : WF_vars(CpuThread(t))

----------------------------------------------------------------------------
(* Properties.                                                             *)

Busy(t) == task[t] # Idle

TypeOK ==
    /\ gpuCache \subseteq Keys /\ rawCache \subseteq Keys /\ rustCache \subseteq Keys
    /\ hits \in [Keys -> 0 .. 2]
    /\ announced \subseteq Keys /\ uploads \in Seq(Keys)
    /\ jobs \in Seq(Pairs) /\ todo \in Seq(Pairs)
    /\ asks \in Seq(Keys) /\ budget \in Nat
    /\ routed \subseteq Pairs /\ computed \subseteq Pairs /\ failed \subseteq Pairs
    /\ pc \in {"load", "admit", "upload", "predict", "prefetch", "dispatch", "compute", "stop"}
    /\ layer \in Layers /\ forwards \in 1 .. MaxForwards + 1
    /\ \A t \in Threads \cup {Uploader} : Busy(t) =>
          /\ task[t].at \in {"check", "read", "parse", "build", "free", "delete", "ffn",
                             "raise", "leave"}
          /\ task[t].key \in Keys

\* "The FFN output is complete" (model.py:1293): no future raises and, when
\* those submitted are resolved, no routed pair is missing from the sum,
\* whatever the uploader inserts or evicts meanwhile.
OutputComplete ==
    /\ failed = {}
    /\ AllResolved => computed = routed

\* Uploads never push the cache over the VRAM budget, although capacity is
\* tested before a transfer that takes long.
WithinCapacity == Cardinality(gpuCache) <= Capacity

\* An expert is queued or being uploaded at most once, and _prefetch_pending
\* says exactly which ones are.
AnnouncedExactly ==
    /\ announced = ToSet(uploads) \cup {task[u].key : u \in {v \in {Uploader} : Busy(v)}}
    /\ Cardinality(announced) = Len(uploads) + (IF Busy(Uploader) THEN 1 ELSE 0)

\* A layer that has begun ends: every future is resolved, by a result or an
\* exception, however the threads collide.
LayerEnds == pc # "load" ~> pc \in {"load", "stop"}

=============================================================================
