--------------------- MODULE MixedQuantExpertPool_proofs ----------------------
(***************************************************************************)
(* Proofs about MixedQuantExpertPool for any number of layers, experts,    *)
(* tokens and threads: no routed pair is lost between the queues and the   *)
(* threads, uploads respect the capacity and are announced exactly, and a  *)
(* forward of one token completes every layer.                             *)
(***************************************************************************)
EXTENDS MixedQuantExpertPool, DataFacts_proofs

(***************************************************************************)
(* The inductive invariant, in parts.                                      *)
(***************************************************************************)

CpuTask    == [at : {"check", "read", "parse", "build", "free", "delete", "ffn", "raise"},
               key : Keys, pair : Pairs]
UploadTask == [at : {"check", "read", "parse", "build", "raise", "leave"},
               key : Keys, retry : BOOLEAN]
              \cup [at : {"leave"}, key : Keys]

Typed ==
    /\ gpuCache \subseteq Keys /\ rawCache \subseteq Keys /\ rustCache \subseteq Keys
    /\ hits \in [Keys -> 0 .. 2]
    /\ announced \subseteq Keys /\ uploads \in Seq(Keys)
    /\ jobs \in Seq(Pairs) /\ todo \in Seq(Pairs)
    /\ asks \in Seq(Keys) /\ budget \in Nat
    /\ pc \in {"upload", "prefetch"} => asks # <<>>
    /\ pc = "prefetch" => budget > 0
    /\ routed \subseteq Pairs /\ computed \subseteq Pairs /\ failed \subseteq Pairs
    /\ pc \in {"load", "admit", "upload", "predict", "prefetch", "dispatch", "compute", "stop"}
    /\ layer \in Layers /\ forwards \in 1 .. MaxForwards + 1
    /\ pc # "stop" => forwards <= MaxForwards
    /\ task \in [Threads \cup {Uploader} -> {Idle} \cup CpuTask \cup UploadTask]
    /\ \A t \in Threads : task[t] \in {Idle} \cup CpuTask
    /\ task[Uploader] \in {Idle} \cup UploadTask

\* What _prefetch_pending and the queue say of each other.
InHand == {task[u].key : u \in {v \in {Uploader} : Busy(v)}}
Announcement ==
    /\ IsInjective(uploads)
    /\ announced = ToSet(uploads) \cup InHand
    /\ ToSet(uploads) \cap InHand = {}

\* An upload that has passed the eviction loop keeps its free slot.
Room ==
    /\ Cardinality(gpuCache) <= Capacity
    /\ task[Uploader].at \in {"check", "read", "parse", "build"} =>
           Cardinality(gpuCache) < Capacity

\* Every routed pair is in exactly one place: undispatched, queued, with a
\* thread, or resolved.
Working  == {t \in Threads : Busy(t)}
InFlight == {task[t].pair : t \in Working}
Accounted ==
    /\ IsInjective(todo) /\ IsInjective(jobs)
    /\ \A t, u \in Working : task[t].pair = task[u].pair => t = u
    /\ ToSet(todo) \cap ToSet(jobs) = {}
    /\ (ToSet(todo) \cup ToSet(jobs)) \cap InFlight = {}
    /\ (ToSet(todo) \cup ToSet(jobs) \cup InFlight) \cap (computed \cup failed) = {}
    /\ routed = ToSet(todo) \cup ToSet(jobs) \cup InFlight \cup computed \cup failed
    /\ pc \in {"load", "stop"} => routed = {}
    /\ pc = "compute" => todo # <<>>
    /\ \A t \in Working : task[t].key = <<layer, task[t].pair[2]>>

IInv == Typed /\ Announcement /\ Room /\ Accounted

\* With one token, a CPU thread that has seen an entry of _raw_cache still
\* finds it there: the other CPU threads work on other experts, and the
\* uploader deletes nothing.
Shielded ==
    /\ failed = {}
    /\ \A t \in Working :
          /\ task[t].at # "raise"
          /\ task[t].at \in {"read", "delete"} => task[t].key \in rawCache

(***************************************************************************)
(* What the executor threads are doing.                                    *)
(***************************************************************************)

LEMMA TaskFields ==
    /\ Idle.at = "idle"
    /\ \A r \in CpuTask \cup UploadTask : r # Idle /\ r.at # "idle" /\ r.key \in Keys
    /\ \A r \in CpuTask : r.pair \in Pairs
    /\ Idle \notin CpuTask /\ Idle \notin UploadTask
<1>1. Idle.at = "idle"
  BY DEF Idle
<1>2. ASSUME NEW r \in CpuTask PROVE r.at # "idle" /\ r.key \in Keys /\ r.pair \in Pairs
  BY DEF CpuTask
<1>3. ASSUME NEW r \in UploadTask PROVE r.at # "idle" /\ r.key \in Keys
  BY DEF UploadTask
<1>. QED BY <1>1, <1>2, <1>3

\* A CPU thread goes to another step of its task.
LEMMA CpuGoto ==
    ASSUME Typed, NEW t \in Threads, task[t].at # "idle", NEW at, Goto(t, at),
           at \in {"check", "read", "parse", "build", "free", "delete", "ffn", "raise"}
    PROVE  /\ task[t] \in CpuTask /\ task'[t] \in CpuTask
           /\ task'[t].at = at /\ task'[t].key = task[t].key /\ task'[t].pair = task[t].pair
           /\ \A u \in (Threads \cup {Uploader}) \ {t} : task'[u] = task[u]
           /\ task' \in [Threads \cup {Uploader} -> {Idle} \cup CpuTask \cup UploadTask]
<1>1. /\ task \in [Threads \cup {Uploader} -> {Idle} \cup CpuTask \cup UploadTask]
      /\ task[t] \in CpuTask
  BY TaskFields DEF Typed
<1>2. task' = [task EXCEPT ![t] = [task[t] EXCEPT !.at = at]]
  BY <1>1 DEF Goto
<1>3. /\ [task[t] EXCEPT !.at = at] \in CpuTask
      /\ [task[t] EXCEPT !.at = at].at = at
      /\ [task[t] EXCEPT !.at = at].key = task[t].key
      /\ [task[t] EXCEPT !.at = at].pair = task[t].pair
  BY <1>1 DEF CpuTask
<1>. QED BY <1>1, <1>2, <1>3

\* The uploader goes to another step of its task.
LEMMA UploadGoto ==
    ASSUME Typed, task[Uploader].at # "idle", NEW at, Goto(Uploader, at),
           \/ at = "leave"
           \/ /\ task[Uploader].at # "leave"
              /\ at \in {"check", "read", "parse", "build", "raise"}
    PROVE  /\ task[Uploader] \in UploadTask /\ task'[Uploader] \in UploadTask
           /\ task'[Uploader].at = at /\ task'[Uploader].key = task[Uploader].key
           /\ \A u \in Threads : task'[u] = task[u]
           /\ task' \in [Threads \cup {Uploader} -> {Idle} \cup CpuTask \cup UploadTask]
<1> DEFINE r == [task[Uploader] EXCEPT !.at = at]
<1>1. /\ task \in [Threads \cup {Uploader} -> {Idle} \cup CpuTask \cup UploadTask]
      /\ task[Uploader] \in UploadTask
  BY TaskFields DEF Typed
<1>2. task' = [task EXCEPT ![Uploader] = r]
  BY <1>1 DEF Goto
<1>3. r \in UploadTask /\ r.at = at /\ r.key = task[Uploader].key
  <2>1. CASE task[Uploader] \in [at : {"leave"}, key : Keys]
    BY <2>1 DEF UploadTask
  <2>2. CASE task[Uploader] \in [at : {"check", "read", "parse", "build", "raise", "leave"},
                                 key : Keys, retry : BOOLEAN]
    BY <2>2 DEF UploadTask
  <2>. QED BY <1>1, <2>1, <2>2 DEF UploadTask
<1>. HIDE DEF r
<1>4. Uploader \notin Threads
  BY PoolAssumption
<1>. QED BY <1>1, <1>2, <1>3, <1>4

\* A thread starts or ends a task.
LEMMA TaskSet ==
    ASSUME Typed, NEW t \in Threads \cup {Uploader}, NEW r,
           r \in {Idle} \cup CpuTask \cup UploadTask, task' = [task EXCEPT ![t] = r]
    PROVE  /\ task'[t] = r
           /\ \A u \in (Threads \cup {Uploader}) \ {t} : task'[u] = task[u]
           /\ task' \in [Threads \cup {Uploader} -> {Idle} \cup CpuTask \cup UploadTask]
  BY DEF Typed

(***************************************************************************)
(* Loading a layer: what is announced, and in which order.                 *)
(***************************************************************************)

LEMMA FiniteKeys == IsFiniteSet(Keys) /\ IsFiniteSet(Pairs)
<1>1. IsFiniteSet(Layers)
  BY PoolAssumption, FS_Interval DEF Layers
<1>. QED BY <1>1, PoolAssumption, FS_Product DEF Keys, Pairs

LEMMA PredictedKeys ==
    ASSUME Typed, NEW es \in SUBSET Experts, NEW keys \in Predictions(es)
    PROVE  keys \subseteq Keys
<1> DEFINE ranked == {top \in SUBSET Experts : Cardinality(top) = PrefetchCount}
<1>1. Targets \subseteq Layers
  BY PoolAssumption DEF Targets, Layers, Typed
<1>2. PICK top \in [Targets -> ranked] : keys = UNION {{l} \X (es \cup top[l]) : l \in Targets}
  BY DEF Predictions
<1>3. \A l \in Targets : top[l] \subseteq Experts
  BY <1>2
<1>. QED BY <1>1, <1>2, <1>3 DEF Keys

LEMMA LoadQueues ==
    ASSUME Typed, NEW pairs \in SUBSET Pairs, Load(pairs)
    PROVE  todo' \in SetToSeqs(pairs) /\ asks' \in Seq(Keys)
<1> DEFINE keys == {layer} \X {p[2] : p \in pairs}
<1>1. keys \subseteq Keys
  BY DEF Pairs, Typed, Keys
<1>2. todo' \in SetToSeqs(pairs) /\ asks' \in SetToSeqs(keys)
  BY DEF Load, InOrder
<1>. HIDE DEF keys
<1>3. asks' \in Seq(keys)
  BY <1>1, <1>2, FiniteKeys, FS_Subset, OrdersOfSet
<1>. QED BY <1>1, <1>2, <1>3

LEMMA PredictQueues ==
    ASSUME Typed, Predict
    PROVE  asks' \in Seq(Keys) /\ budget' \in Nat
<1> DEFINE es == {p[2] : p \in routed}
<1>1. es \in SUBSET Experts
  BY DEF Typed, Pairs
<1>2. PICK keys \in Predictions(es) : asks' \in SetToSeqs(keys)
  BY DEF Predict
<1>. HIDE DEF es
<1>3. keys \subseteq Keys /\ IsFiniteSet(keys)
  BY <1>1, <1>2, PredictedKeys, FiniteKeys, FS_Subset
<1>4. asks' \in Seq(keys)
  BY <1>2, <1>3, OrdersOfSet
<1>5. asks' \in Seq(Keys)
  BY <1>3, <1>4
<1>6. Cardinality(gpuCache) \in Nat
  BY FiniteKeys, FS_Subset, FS_CardinalityType DEF Typed
<1>7. budget' \in Nat
  BY <1>6, PoolAssumption DEF Predict, Budget
<1>. QED BY <1>5, <1>7

\* What a step of _load_activated_experts leaves alone.
LoadingFrame ==
    /\ UNCHANGED <<gpuCache, hostState, task, jobs, layer, forwards, routed, todo, results>>
    /\ pc \in {"admit", "upload", "predict", "prefetch"}
    /\ pc' \in {"admit", "upload", "predict", "prefetch", "dispatch"}
    /\ hits' \in [Keys -> 0 .. 2] /\ asks' \in Seq(Keys) /\ budget' \in Nat
    /\ pc' \in {"upload", "prefetch"} => asks' # <<>>
    /\ pc' = "prefetch" => budget' > 0
    /\ \/ UNCHANGED <<announced, uploads>>
       \/ \E k \in Keys : Announce(k)

LEMMA LoadingStep ==
    ASSUME Typed, Loading
    PROVE  LoadingFrame
<1>. USE DEF gpuState
<1>1. /\ hits \in [Keys -> 0 .. 2] /\ asks \in Seq(Keys) /\ budget \in Nat
      /\ pc \in {"upload", "prefetch"} => asks # <<>>
      /\ pc = "prefetch" => budget > 0
  BY DEF Typed
<1>2. asks # <<>> => Head(asks) \in Keys /\ Tail(asks) \in Seq(Keys)
  BY <1>1
<1>3. CASE Admit
  <2>1. asks # <<>> /\ pc = "admit" /\ hits' = Accessed(Head(asks))
        /\ UNCHANGED <<gpuCache, announced, uploads, hostState, task, jobs,
                       layer, forwards, budget, routed, todo, results>>
        /\ \/ pc' = "upload" /\ UNCHANGED asks
           \/ asks' = Tail(asks) /\ UNCHANGED pc
    BY <1>3 DEF Admit
  <2>2. hits' \in [Keys -> 0 .. 2]
    BY <1>1, <2>1 DEF Accessed
  <2>. QED BY <1>1, <1>2, <2>1, <2>2 DEF LoadingFrame
<1>4. CASE UploadAdmitted
  BY <1>1, <1>2, <1>4 DEF UploadAdmitted, LoadingFrame
<1>5. CASE Predict
  BY <1>1, <1>5, PredictQueues DEF Predict, LoadingFrame
<1>6. CASE Foresee
  BY <1>1, <1>2, <1>6 DEF Foresee, LoadingFrame
<1>7. CASE UploadPredicted
  <2>1. budget' \in Nat
    BY <1>1, <1>7 DEF UploadPredicted
  <2>. QED BY <1>1, <1>2, <1>7, <2>1 DEF UploadPredicted, LoadingFrame
<1>8. CASE Loaded
  <2>1. asks' \in Seq(Keys) /\ budget' \in Nat /\ pc' = "dispatch"
    BY <1>8 DEF Loaded
  <2>. QED BY <1>1, <1>8, <2>1 DEF Loaded, LoadingFrame
<1>. QED BY <1>3, <1>4, <1>5, <1>6, <1>7, <1>8 DEF Loading

(***************************************************************************)
(* Announcement: queued and announced agree, and nothing is queued twice.  *)
(***************************************************************************)

LEMMA Announces ==
    ASSUME Typed, Announcement, NEW k \in Keys, Announce(k), UNCHANGED task
    PROVE  uploads' \in Seq(Keys) /\ announced' \subseteq Keys /\ Announcement'
<1>1. /\ IsInjective(uploads) /\ announced = ToSet(uploads) \cup InHand
      /\ ToSet(uploads) \cap InHand = {}
  BY DEF Announcement
<1>2. uploads \in Seq(Keys) /\ announced \subseteq Keys
  BY DEF Typed
<1>3. InHand' = InHand
  BY DEF InHand, Busy
<1>4. announced' = announced \cup {k}
  BY DEF Announce
<1>5. CASE k \in announced
  <2>1. uploads' = uploads /\ announced' = announced
    BY <1>4, <1>5 DEF Announce
  <2>. QED BY <1>1, <1>2, <1>3, <2>1 DEF Announcement
<1>6. CASE k \notin announced
  <2>1. uploads' = Append(uploads, k) /\ k \notin ToSet(uploads) /\ k \notin InHand
    BY <1>1, <1>6 DEF Announce
  <2>2. /\ uploads' \in Seq(Keys) /\ IsInjective(uploads')
        /\ ToSet(uploads') = ToSet(uploads) \cup {k}
    BY <1>1, <1>2, <2>1, Enqueue
  <2>. QED BY <1>1, <1>2, <1>3, <1>4, <2>1, <2>2 DEF Announcement
<1>. QED BY <1>5, <1>6

LEMMA InHandIs ==
    InHand = IF task[Uploader] = Idle THEN {} ELSE {task[Uploader].key}
  BY DEF InHand, Busy

LEMMA InHandNext ==
    InHand' = IF task'[Uploader] = Idle THEN {} ELSE {task'[Uploader].key}
  BY DEF InHand, Busy

(***************************************************************************)
(* The three kinds of steps of a CPU thread, and of the uploader.          *)
(***************************************************************************)

Starts(t) ==
    /\ task[t] = Idle /\ jobs # <<>> /\ jobs' = Tail(jobs)
    /\ task'[t] \in CpuTask /\ task'[t].at \in {"ffn", "check"}
    /\ task'[t].pair = Head(jobs) /\ task'[t].key = <<layer, Head(jobs)[2]>>
    /\ UNCHANGED <<results, rawCache>>

Continues(t) ==
    /\ task[t] \in CpuTask /\ task'[t] \in CpuTask
    /\ task'[t].key = task[t].key /\ task'[t].pair = task[t].pair
    /\ UNCHANGED <<results, jobs>>
    /\ \/ task'[t].at \in {"read", "delete"} => task[t].key \in rawCache
       \/ task[t].at \in {"read", "delete"}
    /\ task'[t].at = "raise" => task[t].at \in {"read", "delete"} /\ task[t].key \notin rawCache
    /\ rawCache \ {task[t].key} \subseteq rawCache'
    /\ rawCache \subseteq rawCache' \/ task'[t].at \notin {"read", "delete"}

Ends(t) ==
    /\ task[t] \in CpuTask /\ task'[t] = Idle
    /\ UNCHANGED <<jobs, rawCache>>
    /\ \/ computed' = computed \cup {task[t].pair} /\ UNCHANGED failed
       \/ /\ task[t].at = "raise"
          /\ failed' = failed \cup {task[t].pair} /\ UNCHANGED computed

CpuFrame(t) ==
    /\ UNCHANGED <<gpuState, main>>
    /\ rawCache' \subseteq Keys /\ rustCache' \subseteq Keys
    /\ \A u \in (Threads \cup {Uploader}) \ {t} : task'[u] = task[u]
    /\ task' \in [Threads \cup {Uploader} -> {Idle} \cup CpuTask \cup UploadTask]

LEMMA CpuThreadStep ==
    ASSUME Typed, NEW t \in Threads, CpuThread(t)
    PROVE  CpuFrame(t) /\ (Starts(t) \/ Continues(t) \/ Ends(t))
<1>. USE DEF gpuState, main, results, hostState
<1>0. /\ task[t] \in {Idle} \cup CpuTask /\ rawCache \subseteq Keys /\ rustCache \subseteq Keys
      /\ jobs \in Seq(Pairs) /\ layer \in Layers
  BY DEF Typed
<1>1. CASE TakeJob(t)
  <2> DEFINE k == <<layer, Head(jobs)[2]>>
             r == [at |-> IF k \in rustCache THEN "ffn" ELSE "check", key |-> k,
                   pair |-> Head(jobs)]
  <2>1. task[t] = Idle /\ jobs # <<>> /\ jobs' = Tail(jobs) /\ task' = [task EXCEPT ![t] = r]
    BY <1>1 DEF TakeJob
  <2>2. Head(jobs) \in Pairs
    BY <2>1, <1>0
  <2>3. k \in Keys
    BY <2>2, <1>0 DEF Keys, Pairs
  <2>. HIDE DEF k
  <2>4. r \in CpuTask /\ r.at \in {"ffn", "check"} /\ r.pair = Head(jobs) /\ r.key = k
    BY <2>2, <2>3 DEF CpuTask
  <2>. HIDE DEF r
  <2>5. /\ task'[t] = r
        /\ \A u \in (Threads \cup {Uploader}) \ {t} : task'[u] = task[u]
        /\ task' \in [Threads \cup {Uploader} -> {Idle} \cup CpuTask \cup UploadTask]
    BY <2>1, <2>4, TaskSet
  <2>6. UNCHANGED <<gpuState, main, results, rawCache, rustCache>>
    BY <1>1 DEF TakeJob
  <2>. QED BY <2>1, <2>4, <2>5, <2>6, <1>0 DEF Starts, CpuFrame, k
<1>10. ASSUME NEW at, task[t].at # "idle", Goto(t, at),
              at \in {"check", "read", "parse", "build", "free", "delete", "ffn", "raise"},
              UNCHANGED <<gpuState, jobs, main, results>>,
              rawCache' \subseteq rawCache \cup {task[t].key},
              rustCache' \subseteq rustCache \cup {task[t].key}
       PROVE  /\ CpuFrame(t) /\ task[t] \in CpuTask /\ task'[t] \in CpuTask
              /\ task'[t].at = at /\ task'[t].key = task[t].key /\ task'[t].pair = task[t].pair
  <2>1. /\ task[t] \in CpuTask /\ task'[t] \in CpuTask
        /\ task'[t].at = at /\ task'[t].key = task[t].key /\ task'[t].pair = task[t].pair
        /\ \A u \in (Threads \cup {Uploader}) \ {t} : task'[u] = task[u]
        /\ task' \in [Threads \cup {Uploader} -> {Idle} \cup CpuTask \cup UploadTask]
    BY <1>10, CpuGoto
  <2>2. task[t].key \in Keys
    BY <2>1, TaskFields
  <2>. QED BY <1>10, <2>1, <2>2, <1>0 DEF CpuFrame
<1>2. CASE LoadCheck(t)
  <2> DEFINE at == IF task[t].key \in rawCache THEN "read" ELSE "parse"
  <2>1. /\ task[t].at = "check" /\ Goto(t, at)
        /\ UNCHANGED <<gpuState, jobs, main, results>> /\ UNCHANGED <<rawCache, rustCache>>
    BY <1>2 DEF LoadCheck
  <2>2. /\ CpuFrame(t) /\ task[t] \in CpuTask /\ task'[t] \in CpuTask
        /\ task'[t].at = at /\ task'[t].key = task[t].key /\ task'[t].pair = task[t].pair
    BY <2>1, <1>10
  <2>. QED BY <2>1, <2>2 DEF Continues
<1>3. CASE LoadRead(t)
  <2> DEFINE at == IF task[t].key \in rawCache THEN "build" ELSE "raise"
  <2>1. /\ task[t].at = "read" /\ Goto(t, at)
        /\ UNCHANGED <<gpuState, jobs, main, results>> /\ UNCHANGED <<rawCache, rustCache>>
    BY <1>3 DEF LoadRead
  <2>2. /\ CpuFrame(t) /\ task[t] \in CpuTask /\ task'[t] \in CpuTask
        /\ task'[t].at = at /\ task'[t].key = task[t].key /\ task'[t].pair = task[t].pair
    BY <2>1, <1>10
  <2>. QED BY <2>1, <2>2 DEF Continues
<1>4. CASE LoadParse(t)
  <2> DEFINE at == "build"
  <2>1. /\ task[t].at = "parse" /\ Goto(t, at)
        /\ UNCHANGED <<gpuState, jobs, main, results>> /\ UNCHANGED rustCache
        /\ rawCache' = rawCache \cup {task[t].key}
    BY <1>4 DEF LoadParse
  <2>2. /\ CpuFrame(t) /\ task[t] \in CpuTask /\ task'[t] \in CpuTask
        /\ task'[t].at = at /\ task'[t].key = task[t].key /\ task'[t].pair = task[t].pair
    BY <2>1, <1>10
  <2>. QED BY <2>1, <2>2 DEF Continues
<1>5. CASE Build(t)
  <2> DEFINE at == "free"
  <2>1. /\ task[t].at = "build" /\ Goto(t, at)
        /\ UNCHANGED <<gpuState, jobs, main, results>> /\ UNCHANGED rawCache
        /\ rustCache' = rustCache \cup {task[t].key}
    BY <1>5 DEF Build
  <2>2. /\ CpuFrame(t) /\ task[t] \in CpuTask /\ task'[t] \in CpuTask
        /\ task'[t].at = at /\ task'[t].key = task[t].key /\ task'[t].pair = task[t].pair
    BY <2>1, <1>10
  <2>. QED BY <2>1, <2>2 DEF Continues
<1>6. CASE FreeCheck(t)
  <2> DEFINE at == IF task[t].key \in rawCache THEN "delete" ELSE "ffn"
  <2>1. /\ task[t].at = "free" /\ Goto(t, at)
        /\ UNCHANGED <<gpuState, jobs, main, results>> /\ UNCHANGED <<rawCache, rustCache>>
    BY <1>6 DEF FreeCheck
  <2>2. /\ CpuFrame(t) /\ task[t] \in CpuTask /\ task'[t] \in CpuTask
        /\ task'[t].at = at /\ task'[t].key = task[t].key /\ task'[t].pair = task[t].pair
    BY <2>1, <1>10
  <2>. QED BY <2>1, <2>2 DEF Continues
<1>7. CASE Delete(t)
  <2> DEFINE at == IF task[t].key \in rawCache THEN "ffn" ELSE "raise"
  <2>1. /\ task[t].at = "delete" /\ Goto(t, at)
        /\ UNCHANGED <<gpuState, jobs, main, results>> /\ UNCHANGED rustCache
        /\ rawCache' = rawCache \ {task[t].key}
    BY <1>7 DEF Delete
  <2>2. /\ CpuFrame(t) /\ task[t] \in CpuTask /\ task'[t] \in CpuTask
        /\ task'[t].at = at /\ task'[t].key = task[t].key /\ task'[t].pair = task[t].pair
    BY <2>1, <1>10
  <2>. QED BY <2>1, <2>2 DEF Continues
<1>8. CASE Finish(t)
  <2>1. /\ task[t] \in CpuTask
        /\ task' = [task EXCEPT ![t] = Idle]
        /\ UNCHANGED <<gpuState, hostState, jobs, main, failed>>
        /\ computed' = computed \cup {task[t].pair}
    BY <1>8, <1>0, TaskFields DEF Finish
  <2>2. CpuFrame(t) /\ task'[t] = Idle
    BY <2>1, <1>0, TaskSet DEF CpuFrame
  <2>. QED BY <2>1, <2>2 DEF Ends
<1>9. CASE Raise(t)
  <2>1. /\ task[t] \in CpuTask /\ task[t].at = "raise"
        /\ task' = [task EXCEPT ![t] = Idle]
        /\ UNCHANGED <<gpuState, hostState, jobs, main, computed>>
        /\ failed' = failed \cup {task[t].pair}
    BY <1>9, <1>0, TaskFields DEF Raise
  <2>2. CpuFrame(t) /\ task'[t] = Idle
    BY <2>1, <1>0, TaskSet DEF CpuFrame
  <2>. QED BY <2>1, <2>2 DEF Ends
<1>. QED
  BY <1>1, <1>2, <1>3, <1>4, <1>5, <1>6, <1>7, <1>8, <1>9 DEF CpuThread, LoadRaw

UploadFrame ==
    /\ UNCHANGED <<hits, rustCache, jobs, main, results>>
    /\ rawCache \subseteq rawCache' /\ rawCache' \subseteq Keys
    /\ gpuCache' \subseteq Keys
    /\ \A u \in Threads : task'[u] = task[u]
    /\ task' \in [Threads \cup {Uploader} -> {Idle} \cup CpuTask \cup UploadTask]

\* The next key is taken from the queue; if it has to be uploaded, the
\* eviction loop makes room first.
Takes ==
    /\ task[Uploader] = Idle /\ uploads # <<>> /\ uploads' = Tail(uploads)
    /\ UNCHANGED announced
    /\ task'[Uploader] \in UploadTask /\ task'[Uploader].key = Head(uploads)
    /\ \/ task'[Uploader].at = "leave" /\ UNCHANGED gpuCache
       \/ gpuCache' \in Evicted(gpuCache)

Proceeds ==
    /\ task[Uploader] \in UploadTask /\ task'[Uploader] \in UploadTask
    /\ task'[Uploader].key = task[Uploader].key
    /\ UNCHANGED <<announced, uploads>>
    /\ \/ /\ task[Uploader].at \in {"check", "read", "parse", "build"}
          /\ gpuCache' \subseteq gpuCache
       \/ task'[Uploader].at = "leave" /\ gpuCache' \subseteq gpuCache
       \/ /\ task[Uploader].at = "build" /\ task'[Uploader].at = "leave"
          /\ gpuCache' = gpuCache \cup {task[Uploader].key}

Withdraws ==
    /\ task[Uploader] \in UploadTask /\ task'[Uploader] = Idle
    /\ announced' = announced \ {task[Uploader].key}
    /\ UNCHANGED <<gpuCache, uploads>>

LEMMA EvictedSubset ==
    ASSUME NEW c, NEW d \in Evicted(c)
    PROVE  d \subseteq c
  BY DEF Evicted

LEMMA UploadThreadStep ==
    ASSUME Typed, UploadThread
    PROVE  UploadFrame /\ (Takes \/ Proceeds \/ Withdraws)
<1>. USE DEF main, results
<1>0. /\ task[Uploader] \in {Idle} \cup UploadTask /\ rawCache \subseteq Keys /\ gpuCache \subseteq Keys
      /\ uploads \in Seq(Keys) /\ Uploader \notin Threads
  BY PoolAssumption DEF Typed
<1>1. CASE TakeUpload
  <2> DEFINE k == Head(uploads)
             r == IF k \in gpuCache THEN [at |-> "leave", key |-> k]
                                    ELSE [at |-> "check", key |-> k, retry |-> FALSE]
  <2>1. /\ task[Uploader] = Idle /\ uploads # <<>> /\ uploads' = Tail(uploads)
        /\ UNCHANGED <<hits, announced, hostState, jobs, main, results>>
    BY <1>1 DEF TakeUpload
  <2>2. /\ task' = [task EXCEPT ![Uploader] = r]
        /\ IF k \in gpuCache THEN UNCHANGED gpuCache ELSE gpuCache' \in Evicted(gpuCache)
    BY <1>1 DEF TakeUpload
  <2>3. k \in Keys
    BY <2>1, <1>0
  <2>. HIDE DEF k
  <2>4. r \in UploadTask /\ r.key = k /\ (k \in gpuCache => r.at = "leave")
    BY <2>3 DEF UploadTask
  <2>. HIDE DEF r
  <2>5. /\ task'[Uploader] = r
        /\ \A u \in Threads : task'[u] = task[u]
        /\ task' \in [Threads \cup {Uploader} -> {Idle} \cup CpuTask \cup UploadTask]
    BY <2>2, <2>4, <1>0, TaskSet
  <2>6. gpuCache' \subseteq Keys
    BY <2>2, <1>0, EvictedSubset
  <2>7. UploadFrame
    BY <2>1, <2>5, <2>6, <1>0 DEF UploadFrame, hostState
  <2>8. Takes
    BY <2>1, <2>2, <2>4, <2>5 DEF Takes, k
  <2>. QED BY <2>7, <2>8
<1>2. ASSUME LoadRaw(Uploader) PROVE UploadFrame /\ Proceeds
  <2>. USE DEF gpuState, hostState
  <2> DEFINE at == IF LoadCheck(Uploader)
                   THEN IF task[Uploader].key \in rawCache THEN "read" ELSE "parse"
                   ELSE IF LoadRead(Uploader)
                   THEN IF task[Uploader].key \in rawCache THEN "build" ELSE "raise"
                   ELSE "build"
  <2>1. /\ task[Uploader].at \in {"check", "read", "parse"} /\ Goto(Uploader, at)
        /\ UNCHANGED <<gpuState, rustCache, jobs, main, results>>
        /\ rawCache' = rawCache \/ rawCache' = rawCache \cup {task[Uploader].key}
    BY <1>2 DEF LoadRaw, LoadCheck, LoadRead, LoadParse
  <2>2. at \in {"read", "parse", "build", "raise"}
    OBVIOUS
  <2>. HIDE DEF at
  <2>3. /\ task[Uploader] \in UploadTask /\ task'[Uploader] \in UploadTask
        /\ task'[Uploader].at = at /\ task'[Uploader].key = task[Uploader].key
        /\ \A u \in Threads : task'[u] = task[u]
        /\ task' \in [Threads \cup {Uploader} -> {Idle} \cup CpuTask \cup UploadTask]
    BY <2>1, <2>2, UploadGoto
  <2>4. task[Uploader].key \in Keys
    BY <2>3, TaskFields
  <2>5. UploadFrame
    BY <2>1, <2>3, <2>4, <1>0 DEF UploadFrame
  <2>6. Proceeds
    BY <2>1, <2>3 DEF Proceeds
  <2>. QED BY <2>5, <2>6
<1>3. CASE Insert \/ GiveUp
  <2>. USE DEF gpuState, hostState
  <2>1. /\ task[Uploader].at \in {"build", "raise"} /\ Goto(Uploader, "leave")
        /\ UNCHANGED <<hits, announced, uploads, hostState, jobs, main, results>>
        /\ \/ UNCHANGED gpuCache
           \/ task[Uploader].at = "build" /\ gpuCache' = gpuCache \cup {task[Uploader].key}
    BY <1>3 DEF Insert, GiveUp
  <2>3. /\ task[Uploader] \in UploadTask /\ task'[Uploader] \in UploadTask
        /\ task'[Uploader].at = "leave" /\ task'[Uploader].key = task[Uploader].key
        /\ \A u \in Threads : task'[u] = task[u]
        /\ task' \in [Threads \cup {Uploader} -> {Idle} \cup CpuTask \cup UploadTask]
    BY <2>1, UploadGoto
  <2>4. task[Uploader].key \in Keys
    BY <2>3, TaskFields
  <2>5. UploadFrame
    BY <2>1, <2>3, <2>4, <1>0 DEF UploadFrame
  <2>6. Proceeds
    BY <2>1, <2>3 DEF Proceeds
  <2>. QED BY <2>5, <2>6
<1>4. CASE OutOfMemory
  <2>. USE DEF gpuState, hostState
  <2>1. /\ task[Uploader].at = "build"
        /\ UNCHANGED <<hits, announced, uploads, hostState, jobs, main, results>>
    BY <1>4 DEF OutOfMemory
  <2>2. task[Uploader] \in UploadTask
    BY <2>1, <1>0, TaskFields
  <2>3. /\ task'[Uploader] \in UploadTask /\ task'[Uploader].key = task[Uploader].key
        /\ \A u \in Threads : task'[u] = task[u]
        /\ task' \in [Threads \cup {Uploader} -> {Idle} \cup CpuTask \cup UploadTask]
        /\ gpuCache' \subseteq gpuCache
    <3>1. CASE task[Uploader].retry
      <4>1. Goto(Uploader, "leave") /\ UNCHANGED gpuCache
        BY <1>4, <3>1 DEF OutOfMemory
      <4>. QED BY <4>1, <2>1, UploadGoto
    <3>2. CASE ~ task[Uploader].retry
      <4> DEFINE r == [task[Uploader] EXCEPT !.at = "check", !.retry = TRUE]
      <4>1. task' = [task EXCEPT ![Uploader].at = "check", ![Uploader].retry = TRUE]
        BY <1>4, <3>2 DEF OutOfMemory
      <4>2. task' = [task EXCEPT ![Uploader] = r]
        BY <4>1 DEF Typed
      <4>3. gpuCache' \subseteq gpuCache
        BY <1>4, <3>2 DEF OutOfMemory, kSubset
      <4>4. task[Uploader] \in [at : {"check", "read", "parse", "build", "raise", "leave"},
                                key : Keys, retry : BOOLEAN]
        BY <2>1, <2>2 DEF UploadTask
      <4>5. r \in UploadTask /\ r.key = task[Uploader].key
        BY <4>4 DEF UploadTask
      <4>. HIDE DEF r
      <4>. QED BY <4>2, <4>3, <4>5, <1>0, TaskSet
    <3>. QED BY <3>1, <3>2
  <2>. QED BY <2>1, <2>2, <2>3, <1>0 DEF UploadFrame, Proceeds
<1>5. CASE Withdraw
  <2>1. /\ task[Uploader] \in UploadTask
        /\ task' = [task EXCEPT ![Uploader] = Idle]
        /\ announced' = announced \ {task[Uploader].key}
        /\ UNCHANGED <<gpuCache, hits, uploads, hostState, jobs, main, results>>
    BY <1>5, <1>0, TaskFields DEF Withdraw
  <2>2. /\ task'[Uploader] = Idle /\ \A u \in Threads : task'[u] = task[u]
        /\ task' \in [Threads \cup {Uploader} -> {Idle} \cup CpuTask \cup UploadTask]
    BY <2>1, <1>0, TaskSet
  <2>. QED BY <2>1, <2>2, <1>0 DEF UploadFrame, Withdraws, hostState
<1>. QED BY <1>1, <1>2, <1>3, <1>4, <1>5 DEF UploadThread

(***************************************************************************)
(* Each part is preserved by every step.                                   *)
(***************************************************************************)

LEMMA RoomStep ==
    ASSUME Typed, Room, [Next]_vars
    PROVE  Room'
<1>1. IsFiniteSet(gpuCache) /\ Cardinality(gpuCache) \in Nat /\ Capacity \in Nat \ {0}
  BY FiniteKeys, FS_Subset, FS_CardinalityType, PoolAssumption DEF Typed
<1>2. ASSUME UNCHANGED <<gpuCache, task[Uploader]>> PROVE Room'
  BY <1>2 DEF Room
<1>3. ASSUME NEW c, c \subseteq gpuCache PROVE Cardinality(c) <= Cardinality(gpuCache)
                                             /\ Cardinality(c) \in Nat
  BY <1>1, <1>3, FS_Subset, FS_CardinalityType
<1>4. ASSUME UploadThread PROVE Room'
  <2>1. CASE Takes
    <3>1. ASSUME gpuCache' \in Evicted(gpuCache) PROVE Cardinality(gpuCache') < Capacity
      <4>1. CASE Cardinality(gpuCache) < Capacity
        BY <3>1, <4>1 DEF Evicted
      <4>2. CASE ~ (Cardinality(gpuCache) < Capacity)
        <5>1. PICK v \in gpuCache : gpuCache' = gpuCache \ {v}
          BY <3>1, <4>2 DEF Evicted
        <5>2. Cardinality(gpuCache') = Cardinality(gpuCache) - 1
          BY <5>1, <1>1, FS_RemoveElement
        <5>. QED BY <5>2, <1>1 DEF Room
      <4>. QED BY <4>1, <4>2
    <3>2. CASE gpuCache' \in Evicted(gpuCache)
      <4>1. Cardinality(gpuCache') < Capacity /\ Cardinality(gpuCache') \in Nat
        BY <3>1, <3>2, <1>3, EvictedSubset
      <4>. QED BY <4>1, <1>1 DEF Room
    <3>3. CASE task'[Uploader].at = "leave" /\ UNCHANGED gpuCache
      BY <3>3 DEF Room
    <3>. QED BY <2>1, <3>2, <3>3 DEF Takes
  <2>2. CASE Proceeds
    <3>1. CASE /\ task[Uploader].at \in {"check", "read", "parse", "build"}
               /\ gpuCache' \subseteq gpuCache
      <4>1. Cardinality(gpuCache') < Capacity /\ Cardinality(gpuCache') \in Nat
        BY <3>1, <1>1, <1>3 DEF Room
      <4>. QED BY <4>1, <1>1 DEF Room
    <3>2. CASE task'[Uploader].at = "leave" /\ gpuCache' \subseteq gpuCache
      <4>1. Cardinality(gpuCache') <= Capacity
        BY <3>2, <1>1, <1>3 DEF Room
      <4>. QED BY <4>1, <3>2 DEF Room
    <3>3. CASE /\ task[Uploader].at = "build" /\ task'[Uploader].at = "leave"
               /\ gpuCache' = gpuCache \cup {task[Uploader].key}
      <4>1. Cardinality(gpuCache) < Capacity
        BY <3>3 DEF Room
      <4>2. Cardinality(gpuCache') <= Cardinality(gpuCache) + 1 /\ Cardinality(gpuCache') \in Nat
        <5> DEFINE c == gpuCache \cup {task[Uploader].key}
        <5>1. /\ IsFiniteSet(c)
              /\ \/ Cardinality(c) = Cardinality(gpuCache)
                 \/ Cardinality(c) = Cardinality(gpuCache) + 1
          BY <1>1, FS_AddElement
        <5>. QED BY <3>3, <5>1, <1>1
      <4>3. Cardinality(gpuCache') <= Capacity
        BY <4>1, <4>2, <1>1
      <4>. QED BY <4>3, <3>3 DEF Room
    <3>. QED BY <2>2, <3>1, <3>2, <3>3 DEF Proceeds
  <2>3. CASE Withdraws
    BY <2>3, TaskFields DEF Withdraws, Room
  <2>. QED BY <2>1, <2>2, <2>3, <1>4, UploadThreadStep
<1>5. ASSUME NEW t \in Threads, CpuThread(t) PROVE Room'
  BY <1>2, <1>5, CpuThreadStep, PoolAssumption DEF CpuFrame, gpuState
<1>6. CASE (\E r \in Routings : Load(r)) \/ Dispatch \/ Compute \/ LayerDone
  BY <1>2, <1>6 DEF Load, Dispatch, Compute, LayerDone, gpuState
<1>7. CASE Loading
  BY <1>2, <1>7, LoadingStep DEF LoadingFrame
<1>8. CASE UNCHANGED vars
  BY <1>2, <1>8 DEF vars, gpuState
<1>. QED BY <1>4, <1>5, <1>6, <1>7, <1>8 DEF Next, InLayer

LEMMA AnnouncementStep ==
    ASSUME Typed, Announcement, [Next]_vars
    PROVE  Announcement'
<1>1. ASSUME UNCHANGED <<announced, uploads, task[Uploader]>> PROVE Announcement'
  BY <1>1, InHandIs, InHandNext DEF Announcement
<1>2. /\ IsInjective(uploads) /\ announced = ToSet(uploads) \cup InHand
      /\ ToSet(uploads) \cap InHand = {} /\ uploads \in Seq(Keys)
  BY DEF Announcement, Typed
<1>3. ASSUME UploadThread PROVE Announcement'
  <2>1. CASE Takes
    <3>1. /\ IsInjective(Tail(uploads)) /\ Head(uploads) \notin ToSet(Tail(uploads))
          /\ ToSet(uploads) = ToSet(Tail(uploads)) \cup {Head(uploads)}
      BY <2>1, <1>2, TakeHead DEF Takes
    <3>2. InHand = {} /\ InHand' = {Head(uploads)}
      BY <2>1, InHandIs, InHandNext, TaskFields DEF Takes
    <3>. QED BY <2>1, <3>1, <3>2, <1>2 DEF Takes, Announcement
  <2>2. CASE Proceeds
    <3>1. InHand' = InHand
      BY <2>2, InHandIs, InHandNext, TaskFields DEF Proceeds
    <3>. QED BY <2>2, <3>1 DEF Proceeds, Announcement
  <2>3. CASE Withdraws
    <3>1. InHand = {task[Uploader].key} /\ InHand' = {}
      BY <2>3, InHandIs, InHandNext, TaskFields DEF Withdraws
    <3>. QED BY <2>3, <3>1, <1>2 DEF Withdraws, Announcement
  <2>. QED BY <2>1, <2>2, <2>3, <1>3, UploadThreadStep
<1>4. ASSUME NEW t \in Threads, CpuThread(t) PROVE Announcement'
  BY <1>1, <1>4, CpuThreadStep, PoolAssumption DEF CpuFrame, gpuState
<1>5. CASE Loading
  <2>1. LoadingFrame
    BY <1>5, LoadingStep
  <2>2. CASE \E k \in Keys : Announce(k)
    BY <2>1, <2>2, Announces DEF LoadingFrame
  <2>3. CASE UNCHANGED <<announced, uploads>>
    BY <1>1, <2>1, <2>3 DEF LoadingFrame
  <2>. QED BY <2>1, <2>2, <2>3 DEF LoadingFrame
<1>6. CASE (\E r \in Routings : Load(r)) \/ Dispatch \/ Compute \/ LayerDone
  BY <1>1, <1>6 DEF Load, Dispatch, Compute, LayerDone, gpuState
<1>7. CASE UNCHANGED vars
  BY <1>1, <1>7 DEF vars, gpuState
<1>. QED BY <1>3, <1>4, <1>5, <1>6, <1>7 DEF Next, InLayer

LEMMA WorkingIs ==
    ASSUME Typed
    PROVE  /\ Working = {t \in Threads : task[t] \in CpuTask}
           /\ InFlight = {task[t].pair : t \in Working} /\ InFlight \subseteq Pairs
  BY TaskFields DEF Typed, Working, InFlight, Busy

\* A CPU thread starts, continues or ends a task: where the pairs are.
LEMMA PairsMove ==
    ASSUME Typed, Accounted, NEW t \in Threads, CpuFrame(t),
           Starts(t) \/ Continues(t) \/ Ends(t)
    PROVE  Accounted'
<1>. USE DEF main, results
<1>1. /\ IsInjective(todo) /\ IsInjective(jobs)
      /\ \A u, v \in Working : task[u].pair = task[v].pair => u = v
      /\ ToSet(todo) \cap ToSet(jobs) = {}
      /\ (ToSet(todo) \cup ToSet(jobs)) \cap InFlight = {}
      /\ (ToSet(todo) \cup ToSet(jobs) \cup InFlight) \cap (computed \cup failed) = {}
      /\ routed = ToSet(todo) \cup ToSet(jobs) \cup InFlight \cup computed \cup failed
      /\ \A u \in Working : task[u].key = <<layer, task[u].pair[2]>>
  BY DEF Accounted
<1>2. /\ UNCHANGED <<todo, routed, pc, layer>>
      /\ \A u \in Threads \ {t} : task'[u] = task[u]
  BY DEF CpuFrame
<1>3. jobs \in Seq(Pairs)
  BY DEF Typed
<1>4. /\ Working = {u \in Threads : task[u] # Idle}
      /\ Working' = {u \in Threads : task'[u] # Idle}
      /\ InFlight = {task[u].pair : u \in Working}
      /\ InFlight' = {task'[u].pair : u \in Working'}
  BY DEF Working, InFlight, Busy
<1>5. CASE Starts(t)
  <2> DEFINE p == Head(jobs)
  <2>1. /\ IsInjective(jobs') /\ p \notin ToSet(jobs') /\ ToSet(jobs) = ToSet(jobs') \cup {p}
    BY <1>1, <1>3, <1>5, TakeHead DEF Starts
  <2>2. /\ Working' = Working \cup {t} /\ t \notin Working
        /\ task'[t].pair = p /\ task'[t].key = <<layer, p[2]>>
    BY <1>2, <1>4, <1>5, TaskFields DEF Starts
  <2>3. UNCHANGED <<computed, failed>>
    BY <1>5 DEF Starts
  <2>. HIDE DEF p
  <2>4. InFlight' = InFlight \cup {p}
    BY <1>2, <1>4, <2>2
  <2>5. \A u, v \in Working' : task'[u].pair = task'[v].pair => u = v
    <3>1. \A u \in Working : task'[u] = task[u] /\ task[u].pair # p
      BY <1>1, <1>2, <1>4, <2>1, <2>2
    <3>. QED BY <3>1, <2>2, <1>1
  <2>6. \A u \in Working' : task'[u].key = <<layer', task'[u].pair[2]>>
    BY <1>1, <1>2, <1>4, <2>2
  <2>7. /\ ToSet(todo') \cap ToSet(jobs') = {}
        /\ (ToSet(todo') \cup ToSet(jobs')) \cap InFlight' = {}
        /\ (ToSet(todo') \cup ToSet(jobs') \cup InFlight') \cap (computed' \cup failed') = {}
        /\ routed' = ToSet(todo') \cup ToSet(jobs') \cup InFlight' \cup computed' \cup failed'
    BY <1>1, <1>2, <2>1, <2>3, <2>4
  <2>. QED BY <1>1, <1>2, <2>1, <2>5, <2>6, <2>7 DEF Accounted
<1>6. CASE Continues(t)
  <2>1. Working' = Working /\ UNCHANGED <<jobs, computed, failed>>
    BY <1>2, <1>4, <1>6, TaskFields DEF Continues
  <2>2. \A u \in Working : task'[u].pair = task[u].pair /\ task'[u].key = task[u].key
    BY <1>2, <1>4, <1>6 DEF Continues
  <2>3. InFlight' = InFlight
    BY <1>4, <2>1, <2>2
  <2>. QED BY <1>1, <1>2, <2>1, <2>2, <2>3 DEF Accounted
<1>7. CASE Ends(t)
  <2> DEFINE p == task[t].pair
  <2>1. /\ Working' = Working \ {t} /\ t \in Working
        /\ UNCHANGED jobs /\ computed' \cup failed' = computed \cup failed \cup {p}
    BY <1>2, <1>4, <1>7, TaskFields DEF Ends
  <2>. HIDE DEF p
  <2>2. \A u \in Working' : task'[u] = task[u]
    BY <1>2, <2>1, <1>4
  <2>3. InFlight' = InFlight \ {p} /\ p \in InFlight
    BY <1>1, <1>4, <2>1, <2>2 DEF p
  <2>4. /\ \A u, v \in Working' : task'[u].pair = task'[v].pair => u = v
        /\ \A u \in Working' : task'[u].key = <<layer', task'[u].pair[2]>>
    BY <1>1, <1>2, <2>1, <2>2
  <2>5. /\ (ToSet(todo') \cup ToSet(jobs')) \cap InFlight' = {}
        /\ (ToSet(todo') \cup ToSet(jobs') \cup InFlight') \cap (computed' \cup failed') = {}
        /\ routed' = ToSet(todo') \cup ToSet(jobs') \cup InFlight' \cup computed' \cup failed'
    BY <1>1, <1>2, <2>1, <2>3
  <2>. QED BY <1>1, <1>2, <2>1, <2>4, <2>5 DEF Accounted
<1>. QED BY <1>5, <1>6, <1>7

LEMMA AccountedStep ==
    ASSUME Typed, Accounted, [Next]_vars
    PROVE  Accounted'
<1>. USE DEF main, results
<1>1. /\ IsInjective(todo) /\ IsInjective(jobs)
      /\ \A u, v \in Working : task[u].pair = task[v].pair => u = v
      /\ ToSet(todo) \cap ToSet(jobs) = {}
      /\ (ToSet(todo) \cup ToSet(jobs)) \cap InFlight = {}
      /\ (ToSet(todo) \cup ToSet(jobs) \cup InFlight) \cap (computed \cup failed) = {}
      /\ routed = ToSet(todo) \cup ToSet(jobs) \cup InFlight \cup computed \cup failed
      /\ pc \in {"load", "stop"} => routed = {}
      /\ pc = "compute" => todo # <<>>
      /\ \A u \in Working : task[u].key = <<layer, task[u].pair[2]>>
  BY DEF Accounted
<1>2. todo \in Seq(Pairs) /\ jobs \in Seq(Pairs)
  BY DEF Typed
<1>3. ASSUME \A u \in Threads : task'[u] = task[u]
      PROVE  /\ Working' = Working /\ InFlight' = InFlight
             /\ \A u \in Working : task'[u] = task[u]
  BY <1>3 DEF Working, InFlight, Busy
<1>4. ASSUME UNCHANGED <<main, results, jobs>>, \A u \in Threads : task'[u] = task[u]
      PROVE  Accounted'
  BY <1>1, <1>3, <1>4 DEF Accounted
<1>5. ASSUME UNCHANGED task
      PROVE  /\ UNCHANGED <<Working, InFlight>>
             /\ \A u, v \in Working' : task'[u].pair = task'[v].pair => u = v
             /\ (layer' = layer \/ Working = {})
                   => \A u \in Working' : task'[u].key = <<layer', task'[u].pair[2]>>
  BY <1>1, <1>3, <1>5
<1>6. ASSUME NEW r \in Routings, Load(r) PROVE Accounted'
  <2>1. /\ pc = "load" /\ routed' = r /\ pc' = "admit"
        /\ UNCHANGED <<task, jobs, layer, computed, failed>>
    BY <1>6 DEF Load
  <2>2. r \in SUBSET Pairs /\ IsFiniteSet(r)
    BY FiniteKeys, FS_Subset DEF Routings
  <2>3. IsInjective(todo') /\ ToSet(todo') = r
    BY <1>6, <2>2, LoadQueues, OrdersOfSet
  <2>4. ToSet(jobs) = {} /\ InFlight = {} /\ computed \cup failed = {}
    BY <1>1, <2>1
  <2>5. /\ ToSet(todo') \cap ToSet(jobs') = {}
        /\ (ToSet(todo') \cup ToSet(jobs')) \cap InFlight' = {}
        /\ (ToSet(todo') \cup ToSet(jobs') \cup InFlight') \cap (computed' \cup failed') = {}
        /\ routed' = ToSet(todo') \cup ToSet(jobs') \cup InFlight' \cup computed' \cup failed'
    BY <1>5, <2>1, <2>3, <2>4
  <2>. QED BY <1>1, <1>5, <2>1, <2>3, <2>5 DEF Accounted
<1>7. ASSUME todo # <<>>, todo' = Tail(todo), pc' = "dispatch",
             UNCHANGED <<task, layer, routed, failed>>,
             \/ jobs' = Append(jobs, Head(todo)) /\ UNCHANGED computed
             \/ computed' = computed \cup {Head(todo)} /\ UNCHANGED jobs
      PROVE  Accounted'
  <2> DEFINE p == Head(todo)
  <2>1. /\ p \in Pairs /\ IsInjective(todo') /\ p \notin ToSet(todo')
        /\ ToSet(todo) = ToSet(todo') \cup {p}
    BY <1>1, <1>2, <1>7, TakeHead
  <2>2. CASE jobs' = Append(jobs, p) /\ UNCHANGED computed
    <3>1. p \notin ToSet(jobs)
      BY <1>1, <2>1
    <3>2. IsInjective(jobs') /\ ToSet(jobs') = ToSet(jobs) \cup {p}
      BY <1>1, <1>2, <2>1, <2>2, <3>1, Enqueue
    <3>. HIDE DEF p
    <3>3. /\ ToSet(todo') \cap ToSet(jobs') = {}
          /\ (ToSet(todo') \cup ToSet(jobs')) \cap InFlight' = {}
          /\ (ToSet(todo') \cup ToSet(jobs') \cup InFlight') \cap (computed' \cup failed') = {}
          /\ routed' = ToSet(todo') \cup ToSet(jobs') \cup InFlight' \cup computed' \cup failed'
      BY <1>1, <1>5, <1>7, <2>1, <2>2, <3>2
    <3>. QED BY <1>5, <1>7, <2>1, <3>2, <3>3 DEF Accounted
  <2>3. CASE computed' = computed \cup {p} /\ UNCHANGED jobs
    <3>. HIDE DEF p
    <3>3. /\ ToSet(todo') \cap ToSet(jobs') = {}
          /\ (ToSet(todo') \cup ToSet(jobs')) \cap InFlight' = {}
          /\ (ToSet(todo') \cup ToSet(jobs') \cup InFlight') \cap (computed' \cup failed') = {}
          /\ routed' = ToSet(todo') \cup ToSet(jobs') \cup InFlight' \cup computed' \cup failed'
      BY <1>1, <1>5, <1>7, <2>1, <2>3
    <3>. QED BY <1>1, <1>5, <1>7, <2>1, <2>3, <3>3 DEF Accounted
  <2>. QED BY <1>7, <2>2, <2>3
<1>8. CASE Dispatch
  <2>1. CASE pc' = "compute" /\ UNCHANGED <<todo, jobs>>
    BY <1>1, <1>5, <1>8, <2>1 DEF Dispatch, Accounted
  <2>2. CASE pc' = pc /\ todo' = Tail(todo) /\ jobs' = Append(jobs, Head(todo))
    BY <1>7, <1>8, <2>2 DEF Dispatch
  <2>. QED BY <1>8, <2>1, <2>2 DEF Dispatch
<1>9. CASE Compute
  BY <1>1, <1>7, <1>9 DEF Compute
<1>10. CASE LayerDone
  <2>1. /\ todo = <<>> /\ jobs = <<>> /\ \A t \in Threads : task[t] = Idle
        /\ routed' = {} /\ computed' = {} /\ failed' = {}
        /\ UNCHANGED <<task, jobs, todo>> /\ pc' \in {"load", "stop"}
    BY <1>10 DEF LayerDone, AllResolved
  <2>2. ToSet(todo) = {} /\ ToSet(jobs) = {}
    BY <2>1 DEF ToSet
  <2>3. Working = {} /\ InFlight = {}
    BY <2>1 DEF Working, InFlight, Busy
  <2>4. /\ ToSet(todo') \cap ToSet(jobs') = {}
        /\ (ToSet(todo') \cup ToSet(jobs')) \cap InFlight' = {}
        /\ (ToSet(todo') \cup ToSet(jobs') \cup InFlight') \cap (computed' \cup failed') = {}
        /\ routed' = ToSet(todo') \cup ToSet(jobs') \cup InFlight' \cup computed' \cup failed'
    BY <1>5, <2>1, <2>2, <2>3
  <2>. QED BY <1>1, <1>5, <2>1, <2>3, <2>4 DEF Accounted
<1>11. ASSUME NEW t \in Threads, CpuThread(t) PROVE Accounted'
  BY <1>11, CpuThreadStep, PairsMove
<1>12. CASE UploadThread
  BY <1>4, <1>12, UploadThreadStep DEF UploadFrame
<1>13. CASE UNCHANGED vars
  BY <1>4, <1>13 DEF vars
<1>14. CASE Loading
  <2>1. LoadingFrame
    BY <1>14, LoadingStep
  <2>. QED BY <1>1, <1>5, <2>1 DEF LoadingFrame, Accounted
<1>. QED BY <1>6, <1>8, <1>9, <1>10, <1>11, <1>12, <1>13, <1>14 DEF Next, InLayer

LEMMA TypedStep ==
    ASSUME Typed, Announcement, Accounted, [Next]_vars
    PROVE  Typed'
<1>. USE DEF main, asking, results, gpuState, hostState
<1>1. /\ gpuCache \subseteq Keys /\ rawCache \subseteq Keys /\ rustCache \subseteq Keys
      /\ hits \in [Keys -> 0 .. 2]
      /\ announced \subseteq Keys /\ uploads \in Seq(Keys)
      /\ jobs \in Seq(Pairs) /\ todo \in Seq(Pairs)
      /\ asks \in Seq(Keys) /\ budget \in Nat
      /\ pc \in {"upload", "prefetch"} => asks # <<>>
      /\ pc = "prefetch" => budget > 0
      /\ routed \subseteq Pairs /\ computed \subseteq Pairs /\ failed \subseteq Pairs
      /\ pc \in {"load", "admit", "upload", "predict", "prefetch", "dispatch", "compute", "stop"}
      /\ layer \in Layers /\ forwards \in 1 .. MaxForwards + 1
      /\ pc # "stop" => forwards <= MaxForwards
      /\ task \in [Threads \cup {Uploader} -> {Idle} \cup CpuTask \cup UploadTask]
      /\ \A t \in Threads : task[t] \in {Idle} \cup CpuTask
      /\ task[Uploader] \in {Idle} \cup UploadTask
  BY DEF Typed
<1>2. ASSUME NEW r \in Routings, Load(r) PROVE Typed'
  <2>1. r \in SUBSET Pairs /\ IsFiniteSet(r)
    BY FiniteKeys, FS_Subset DEF Routings
  <2>2. todo' \in Seq(r)
    BY <1>2, <2>1, LoadQueues, OrdersOfSet
  <2>3. todo' \in Seq(Pairs)
    BY <2>1, <2>2
  <2>4. asks' \in Seq(Keys)
    BY <1>2, <2>1, LoadQueues
  <2>5. /\ routed' = r /\ pc' = "admit" /\ pc = "load"
        /\ UNCHANGED <<gpuState, hostState, task, jobs, layer, forwards, budget, results>>
    BY <1>2 DEF Load
  <2>. QED BY <1>1, <2>1, <2>3, <2>4, <2>5 DEF Typed
<1>3. ASSUME todo # <<>>, todo' = Tail(todo), pc' = "dispatch", pc # "stop",
             UNCHANGED <<gpuState, hostState, task, layer, forwards, asking, routed, failed>>,
             \/ jobs' = Append(jobs, Head(todo)) /\ UNCHANGED computed
             \/ computed' = computed \cup {Head(todo)} /\ UNCHANGED jobs
      PROVE  Typed'
  <2>1. Head(todo) \in Pairs /\ todo' \in Seq(Pairs)
    BY <1>1, <1>3
  <2>2. Append(jobs, Head(todo)) \in Seq(Pairs)
    BY <1>1, <2>1
  <2>3. jobs' \in Seq(Pairs) /\ computed' \subseteq Pairs
    BY <1>1, <1>3, <2>1, <2>2
  <2>. QED BY <1>1, <1>3, <2>1, <2>3 DEF Typed
<1>4. CASE Dispatch
  <2>1. CASE pc' = "compute" /\ UNCHANGED <<todo, jobs>>
    BY <1>1, <1>4, <2>1 DEF Dispatch, Typed
  <2>2. CASE pc' = pc /\ todo' = Tail(todo) /\ jobs' = Append(jobs, Head(todo))
    BY <1>3, <1>4, <2>2 DEF Dispatch
  <2>. QED BY <1>4, <2>1, <2>2 DEF Dispatch
<1>5. CASE Compute
  BY <1>3, <1>5 DEF Compute, Accounted
<1>6. CASE LayerDone
  <2>1. /\ pc = "dispatch"
        /\ IF layer + 1 < NLayers THEN layer' = layer + 1 /\ UNCHANGED forwards
           ELSE layer' = 0 /\ forwards' = forwards + 1
        /\ pc' = IF forwards' <= MaxForwards THEN "load" ELSE "stop"
        /\ routed' = {} /\ computed' = {} /\ failed' = {}
        /\ UNCHANGED <<gpuState, hostState, task, jobs, asking, todo>>
    BY <1>6 DEF LayerDone, AllResolved
  <2>2. /\ layer' \in Layers /\ forwards' \in 1 .. MaxForwards + 1
        /\ pc' \in {"load", "stop"} /\ (pc' # "stop" => forwards' <= MaxForwards)
    BY <1>1, <2>1, PoolAssumption DEF Layers
  <2>. QED BY <1>1, <2>1, <2>2 DEF Typed
<1>7. ASSUME NEW t \in Threads, CpuThread(t) PROVE Typed'
  <2>1. CpuFrame(t) /\ (Starts(t) \/ Continues(t) \/ Ends(t))
    BY <1>7, CpuThreadStep
  <2>2. /\ task'[t] \in {Idle} \cup CpuTask
        /\ jobs' \in Seq(Pairs) /\ computed' \subseteq Pairs /\ failed' \subseteq Pairs
    <3>1. CASE Starts(t)
      BY <1>1, <3>1 DEF Starts
    <3>2. CASE Continues(t)
      BY <1>1, <3>2 DEF Continues
    <3>3. CASE Ends(t)
      <4>1. task[t].pair \in Pairs
        BY <3>3, TaskFields DEF Ends
      <4>. QED BY <1>1, <3>3, <4>1 DEF Ends
    <3>. QED BY <2>1, <3>1, <3>2, <3>3
  <2>3. \A u \in Threads : task'[u] \in {Idle} \cup CpuTask
    BY <1>1, <2>1, <2>2 DEF CpuFrame
  <2>4. task'[Uploader] = task[Uploader]
    BY <2>1, PoolAssumption DEF CpuFrame
  <2>. QED BY <1>1, <2>1, <2>2, <2>3, <2>4 DEF CpuFrame, Typed
<1>8. CASE UploadThread
  <2>1. UploadFrame /\ (Takes \/ Proceeds \/ Withdraws)
    BY <1>8, UploadThreadStep
  <2>2. /\ uploads' \in Seq(Keys) /\ announced' \subseteq Keys
        /\ task'[Uploader] \in {Idle} \cup UploadTask
    <3>1. CASE Takes
      <4>1. Tail(uploads) \in Seq(Keys)
        BY <1>1, <3>1 DEF Takes
      <4>. QED BY <1>1, <3>1, <4>1 DEF Takes
    <3>2. CASE Proceeds
      BY <1>1, <3>2 DEF Proceeds
    <3>3. CASE Withdraws
      BY <1>1, <3>3 DEF Withdraws
    <3>. QED BY <2>1, <3>1, <3>2, <3>3
  <2>. QED BY <1>1, <2>1, <2>2 DEF UploadFrame, Typed
<1>9. CASE UNCHANGED vars
  BY <1>1, <1>9 DEF vars, Typed
<1>10. CASE Loading
  <2>1. LoadingFrame
    BY <1>10, LoadingStep
  <2>2. uploads' \in Seq(Keys) /\ announced' \subseteq Keys
    BY <1>1, <2>1, Announces DEF LoadingFrame
  <2>. QED BY <1>1, <2>1, <2>2 DEF LoadingFrame, Typed
<1>. QED BY <1>2, <1>4, <1>5, <1>6, <1>7, <1>8, <1>9, <1>10 DEF Next, InLayer

\* Two CPU threads of a decode step never hold the same expert.
LEMMA ApartKeys ==
    ASSUME Cardinality(Tokens) = 1, Typed, Accounted,
           NEW t \in Working, NEW u \in Working, t # u
    PROVE  task[t].key # task[u].key
<1>1. \A a, b \in Tokens : a = b
  BY PoolAssumption, FS_Singleton
<1>2. task[t].pair \in Pairs /\ task[u].pair \in Pairs
  BY WorkingIs, TaskFields
<1>3. /\ task[t].pair # task[u].pair
      /\ task[t].key = <<layer, task[t].pair[2]>>
      /\ task[u].key = <<layer, task[u].pair[2]>>
  BY DEF Accounted
<1>. QED BY <1>1, <1>2, <1>3 DEF Pairs

LEMMA ShieldedStep ==
    ASSUME Cardinality(Tokens) = 1, Typed, Accounted, Shielded, [Next]_vars
    PROVE  Shielded'
<1>1. ASSUME rawCache \subseteq rawCache', \A u \in Threads : task'[u] = task[u],
             failed' = failed \/ failed' = {}
      PROVE  Shielded'
  BY <1>1 DEF Shielded, Working, Busy
<1>2. ASSUME NEW t \in Threads, CpuThread(t) PROVE Shielded'
  <2>1. CpuFrame(t) /\ (Starts(t) \/ Continues(t) \/ Ends(t))
    BY <1>2, CpuThreadStep
  <2>2. /\ \A u \in Threads \ {t} : task'[u] = task[u]
        /\ Working = {u \in Threads : task[u] # Idle}
        /\ Working' = {u \in Threads : task'[u] # Idle}
    BY <2>1 DEF CpuFrame, Working, Busy
  <2>3. /\ failed = {}
        /\ \A u \in Working : /\ task[u].at # "raise"
                              /\ task[u].at \in {"read", "delete"} => task[u].key \in rawCache
    BY DEF Shielded
  <2>4. CASE Starts(t)
    <3>1. failed' = {} /\ rawCache' = rawCache
      BY <2>3, <2>4 DEF Starts, results
    <3>2. task'[t].at \notin {"raise", "read", "delete"}
      BY <2>4 DEF Starts
    <3>. QED BY <2>2, <2>3, <3>1, <3>2 DEF Shielded
  <2>5. CASE Continues(t)
    <3>1. t \in Working /\ Working' = Working /\ failed' = {}
      BY <2>2, <2>3, <2>5, TaskFields DEF Continues, results
    <3>2. \A u \in Working \ {t} : task[u].key # task[t].key
      BY <3>1, ApartKeys
    <3>3. rawCache \ {task[t].key} \subseteq rawCache'
      BY <2>5 DEF Continues
    <3>4. \A u \in Working \ {t} : /\ task'[u] = task[u]
                                   /\ task[u].key \in rawCache => task[u].key \in rawCache'
      BY <2>2, <3>2, <3>3
    <3>5. /\ task'[t].at # "raise"
          /\ task'[t].at \in {"read", "delete"} => task'[t].key \in rawCache'
      BY <2>3, <2>5, <3>1 DEF Continues
    <3>. QED BY <2>3, <3>1, <3>4, <3>5 DEF Shielded
  <2>6. CASE Ends(t)
    <3>1. t \in Working /\ Working' = Working \ {t} /\ rawCache' = rawCache
      BY <2>2, <2>6, TaskFields DEF Ends
    <3>2. failed' = {}
      BY <2>3, <2>6, <3>1 DEF Ends
    <3>. QED BY <2>2, <2>3, <3>1, <3>2 DEF Shielded
  <2>. QED BY <2>1, <2>4, <2>5, <2>6
<1>3. CASE UploadThread
  BY <1>1, <1>3, UploadThreadStep DEF UploadFrame, results
<1>4. CASE \E r \in Routings : Load(r)
  BY <1>1, <1>4 DEF Load, hostState, results
<1>5. CASE Dispatch \/ Compute \/ LayerDone
  BY <1>1, <1>5 DEF Dispatch, Compute, LayerDone, hostState, results
<1>6. CASE Loading
  BY <1>1, <1>6, LoadingStep DEF LoadingFrame, hostState, results
<1>7. CASE UNCHANGED vars
  BY <1>1, <1>7 DEF vars, hostState, results
<1>. QED BY <1>2, <1>3, <1>4, <1>5, <1>6, <1>7 DEF Next, InLayer

(***************************************************************************)
(* The theorems.                                                           *)
(***************************************************************************)

LEMMA InitSound == Init => IInv /\ Shielded
<1>. SUFFICES ASSUME Init PROVE IInv /\ Shielded
  OBVIOUS
<1>1. /\ gpuCache \subseteq Keys /\ Cardinality(gpuCache) <= Capacity
      /\ rawCache \subseteq Keys /\ rustCache = {}
      /\ asks = <<>> /\ budget = 0
      /\ announced = {} /\ uploads = <<>> /\ jobs = <<>> /\ todo = <<>>
      /\ pc = "load" /\ layer = 0 /\ forwards = 1
      /\ routed = {} /\ computed = {} /\ failed = {}
      /\ task = [t \in Threads \cup {Uploader} |-> Idle]
  BY DEF Init
<1>2. /\ \A t \in Threads \cup {Uploader} : task[t] = Idle
      /\ task \in [Threads \cup {Uploader} -> {Idle} \cup CpuTask \cup UploadTask]
      /\ task[Uploader].at = "idle"
  BY <1>1, TaskFields
<1>3. hits \in [Keys -> 0 .. 2]
  BY FrequenciesAssumption DEF Init
<1>4. layer \in Layers /\ forwards \in 1 .. MaxForwards + 1 /\ forwards <= MaxForwards
  BY <1>1, PoolAssumption DEF Layers
<1>5. Typed
  BY <1>1, <1>2, <1>3, <1>4 DEF Typed
<1>6. Room
  BY <1>1, <1>2 DEF Room
<1>7. Working = {} /\ InFlight = {} /\ InHand = {}
  BY <1>2 DEF Working, InFlight, InHand, Busy
<1>8. ToSet(<<>>) = {} /\ IsInjective(<<>>)
  BY DEF ToSet, IsInjective
<1>9. Announcement
  BY <1>1, <1>7, <1>8 DEF Announcement
<1>10. Accounted
  BY <1>1, <1>7, <1>8 DEF Accounted
<1>11. Shielded
  BY <1>1, <1>7 DEF Shielded
<1>. QED BY <1>5, <1>6, <1>9, <1>10, <1>11 DEF IInv

LEMMA Inductive == IInv /\ [Next]_vars => IInv'
  BY TypedStep, AnnouncementStep, RoomStep, AccountedStep DEF IInv

LEMMA Invariance == Spec => []IInv
  BY InitSound, Inductive, PTL DEF Spec

\* The queues, caches and tasks stay well typed; no prediction goes past the
\* last layer.
THEOREM TypeCorrect == Spec => []TypeOK
<1>1. IInv => TypeOK
  <2>. SUFFICES ASSUME Typed PROVE TypeOK
    BY DEF IInv
  <2>1. ASSUME NEW t \in Threads \cup {Uploader}, Busy(t)
        PROVE  /\ task[t].at \in {"check", "read", "parse", "build", "free", "delete", "ffn",
                                  "raise", "leave"}
               /\ task[t].key \in Keys
    <3>1. task[t] \in CpuTask \cup UploadTask
      BY <2>1 DEF Typed, Busy
    <3>. QED BY <3>1, TaskFields DEF CpuTask, UploadTask
  <2>. QED BY <2>1 DEF TypeOK, Typed
<1>. QED BY <1>1, Invariance, PTL

\* Uploads never push the cache over its capacity, although the room is made
\* before a transfer that may be retried: the one uploader keeps it.
THEOREM CapacityRespected == Spec => []WithinCapacity
<1>1. IInv => WithinCapacity
  BY DEF IInv, Room, WithinCapacity
<1>. QED BY <1>1, Invariance, PTL

\* _prefetch_pending holds exactly the experts queued or being uploaded, each
\* of them once.
THEOREM AnnouncementsExact == Spec => []AnnouncedExactly
<1>1. IInv => AnnouncedExactly
  <2>. SUFFICES ASSUME Typed, Announcement PROVE AnnouncedExactly
    BY DEF IInv
  <2>1. announced = ToSet(uploads) \cup InHand /\ ToSet(uploads) \cap InHand = {}
    BY DEF Announcement
  <2>2. /\ IsFiniteSet(ToSet(uploads)) /\ Cardinality(ToSet(uploads)) = Len(uploads)
        /\ Len(uploads) \in Nat
    BY LengthOfQueue DEF Typed, Announcement
  <2>3. Cardinality(announced) = Len(uploads) + (IF Busy(Uploader) THEN 1 ELSE 0)
    <3>1. CASE task[Uploader] = Idle
      BY <2>1, <2>2, <3>1, InHandIs DEF Busy
    <3>2. CASE task[Uploader] # Idle
      <4>1. announced = ToSet(uploads) \cup {task[Uploader].key}
            /\ task[Uploader].key \notin ToSet(uploads)
        BY <2>1, <3>2, InHandIs
      <4>2. Cardinality(announced) = Len(uploads) + 1
        BY <4>1, <2>2, FS_AddElement
      <4>. QED BY <3>2, <4>2 DEF Busy
    <3>. QED BY <3>1, <3>2
  <2>. QED BY <2>1, <2>3 DEF AnnouncedExactly, InHand
<1>. QED BY <1>1, Invariance, PTL

\* No routed pair is ever lost between the queues, the threads and the
\* results, whatever the cache holds when it is looked up: what LayerDone
\* waits for is bound to come.
THEOREM NothingLost == Spec => []Accounted
<1>1. IInv => Accounted
  BY DEF IInv
<1>. QED BY <1>1, Invariance, PTL

\* A decode step never leaves an expert out of the sum: only a prefill can
\* bring two threads to one entry of _raw_cache.
THEOREM DecodeComplete ==
    ASSUME Cardinality(Tokens) = 1
    PROVE  Spec => []OutputComplete
<1>1. Init => IInv /\ Shielded
  BY InitSound
<1>2. IInv /\ Shielded /\ [Next]_vars => (IInv /\ Shielded)'
  BY Inductive, ShieldedStep DEF IInv
<1>3. IInv /\ Shielded => OutputComplete
  <2>. SUFFICES ASSUME Accounted, Shielded PROVE OutputComplete
    BY DEF IInv
  <2>1. failed = {}
    BY DEF Shielded
  <2>2. ASSUME AllResolved PROVE computed = routed
    <3>1. ToSet(todo) = {} /\ ToSet(jobs) = {}
      BY <2>2 DEF AllResolved, ToSet
    <3>2. InFlight = {}
      BY <2>2 DEF AllResolved, InFlight, Working, Busy
    <3>. QED BY <2>1, <3>1, <3>2 DEF Accounted
  <2>. QED BY <2>1, <2>2 DEF OutputComplete
<1>. QED BY <1>1, <1>2, <1>3, PTL DEF Spec
=============================================================================
