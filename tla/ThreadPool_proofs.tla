-------------------------- MODULE ThreadPool_proofs ---------------------------
(***************************************************************************)
(* Proofs about ThreadPool for any number of threads and rows: the split   *)
(* of the rows is a partition, no worker outlives the call it works for,   *)
(* and the pool implements ParallelFor.                                    *)
(***************************************************************************)
EXTENDS ThreadPool, FiniteSetTheorems, TLAPS

Thread == 0..NThreads - 1

(***************************************************************************)
(* Arithmetic of the split.                                                *)
(***************************************************************************)
LEMMA DivisionFacts ==
  ASSUME NEW a \in Nat, NEW b \in Nat \ {0}
  PROVE  /\ a \div b \in Nat
         /\ b * (a \div b) <= a
         /\ a < b * (a \div b) + b
BY SMTT(20)

LEMMA ProductMonotone ==
  ASSUME NEW a \in Nat, NEW b \in Nat, NEW c \in Nat, a <= b
  PROVE  a * c <= b * c
BY SMTT(20)

\* The shares of NThreads threads together hold n rows.
LEMMA SharesSuffice ==
  ASSUME NEW n \in Nat
  PROVE  RowsPerThread(n) \in Nat /\ n <= NThreads * RowsPerThread(n)
<1>. DEFINE a == n + NThreads - 1
<1>1. NThreads \in Nat \ {0} /\ a \in Nat
  BY ConstantsAssumption
<1>2. /\ a \div NThreads \in Nat
      /\ NThreads * (a \div NThreads) <= a
      /\ a < NThreads * (a \div NThreads) + NThreads
  BY <1>1, DivisionFacts
<1>3. RowsPerThread(n) = a \div NThreads
  BY DEF RowsPerThread
<1>. DEFINE p == NThreads * (a \div NThreads)
<1>4. p \in Nat
  BY <1>1, <1>2
<1>5. n + NThreads - 1 < p + NThreads
  BY <1>2
<1>6. n <= p
  BY <1>1, <1>4, <1>5
<1>. QED
  BY <1>2, <1>3, <1>6

\* Every row below n has an owner.
LEMMA ShareCovers ==
  ASSUME NEW n \in 0..MaxRows, NEW r \in Row, r < n
  PROVE  \E t \in Thread : r \in Share(t, n)
<1>. DEFINE R == RowsPerThread(n)
            t == r \div R
<1>1. n \in Nat /\ r \in Nat /\ NThreads \in Nat \ {0}
  BY ConstantsAssumption DEF Row
<1>2. R \in Nat /\ n <= NThreads * R
  BY <1>1, SharesSuffice
<1>3. R # 0
  BY <1>1, <1>2
<1>4. t \in Nat /\ R * t <= r /\ r < R * t + R
  BY <1>1, <1>2, <1>3, DivisionFacts
<1>5. t * R = R * t
  BY <1>2, <1>4
<1>6. t < NThreads
  <2>1. SUFFICES ASSUME NThreads <= t PROVE FALSE
    BY <1>1, <1>4
  <2>2. NThreads * R <= t * R
    BY <2>1, <1>1, <1>2, <1>4, ProductMonotone
  <2>. HIDE DEF R, t
  <2>3. n <= r
    <3>. DEFINE p == NThreads * R
                q == t * R
    <3>1. p \in Nat /\ q \in Nat
      BY <1>1, <1>2, <1>4
    <3>2. n <= p /\ p <= q /\ q <= r
      BY <1>2, <2>2, <1>4, <1>5
    <3>. QED BY <3>1, <3>2, <1>1
  <2>. QED BY <2>3, <1>1
<1>7. t \in Thread
  BY <1>1, <1>4, <1>6 DEF Thread
<1>8. r \in Share(t, n)
  <2>. HIDE DEF t
  <2>1. t * R <= r /\ r < t * R + R
    BY <1>4, <1>5
  <2>. QED BY <2>1 DEF Share
<1>. QED BY <1>7, <1>8

\* No row has two owners.
LEMMA SharesDisjoint ==
  ASSUME NEW n \in 0..MaxRows, NEW t \in Thread, NEW u \in Thread,
         NEW r \in Row, r \in Share(t, n), r \in Share(u, n)
  PROVE  t = u
<1>. DEFINE R == RowsPerThread(n)
<1>1. n \in Nat /\ r \in Nat /\ t \in Nat /\ u \in Nat
  BY ConstantsAssumption DEF Row, Thread
<1>2. R \in Nat
  BY <1>1, SharesSuffice
<1>3. ASSUME NEW x \in Nat, NEW y \in Nat, x < y,
             r < x * R + R, y * R <= r
      PROVE  FALSE
  <2>. HIDE DEF R
  <2>1. (x + 1) * R <= y * R
    BY <1>2, <1>3, ProductMonotone
  <2>2. (x + 1) * R = x * R + R
    BY <1>2, <1>3
  <2>. DEFINE p == x * R
              q == y * R
  <2>3. p \in Nat /\ q \in Nat
    BY <1>2, <1>3
  <2>4. p + R <= q /\ q <= r /\ r < p + R
    BY <2>1, <2>2, <1>3
  <2>. QED BY <2>3, <2>4, <1>1, <1>2
<1>4. /\ t * R <= r /\ r < t * R + R
      /\ u * R <= r /\ r < u * R + R
  BY DEF Share
<1>. QED
  BY <1>1, <1>3, <1>4

(***************************************************************************)
(* The inductive invariant.  TypeOK and NoStragglers are not inductive:    *)
(* that nobody is at work when a call returns follows from done counting   *)
(* the workers that have finished this generation, and that a row is not   *)
(* computed twice from the generation each worker has seen.                *)
(***************************************************************************)
Calling == main \in {"rows", "collect", "asleep"}
AtWork(w) == worker[w] \in {"running", "finishing"}
Counted == {w \in Worker : seen[w] = generation /\ ~AtWork(w)}

\* Thread t has computed its share of the present call.
HasRun(t) ==
    IF t = 0 THEN main # "rows" ELSE seen[t] = generation /\ worker[t] # "running"

Lifecycle ==
    /\ ~initialized => main = "idle" /\ \A w \in Worker : worker[w] = "none"
    /\ initialized => \A w \in Worker : worker[w] # "none"
    /\ shutdown <=> main = "joining"
    /\ ~shutdown => \A w \in Worker : worker[w] # "exited"

\* Outside a call every worker has taken the last job and finished with it.
Quiet ==
    main \in {"idle", "serial", "joining"} =>
        \A w \in Worker : ~AtWork(w) /\ (initialized /\ main # "joining" => seen[w] = generation)

InCall ==
    Calling =>
        /\ nRows = asked
        /\ \A w \in Worker : AtWork(w) => seen[w] = generation /\ copied[w] = asked
        /\ done = Cardinality(Counted)

Coverage ==
    /\ main = "serial" => covered = [r \in Row |-> 0]
    /\ Calling =>
         \A r \in Row :
            /\ r >= asked => covered[r] = 0
            /\ \A t \in Thread :
                 r \in Share(t, asked) => covered[r] = IF HasRun(t) THEN 1 ELSE 0

IInv == TypeOK /\ Lifecycle /\ Quiet /\ InCall /\ Coverage

(***************************************************************************)
(* Facts the steps rest on.                                                *)
(***************************************************************************)
LEMMA WorkersFinite == IsFiniteSet(Worker) /\ Cardinality(Worker) \in Nat
<1>1. NThreads - 1 \in Int
  BY ConstantsAssumption
<1>2. IsFiniteSet(Worker)
  BY <1>1, FS_Interval DEF Worker
<1>. QED BY <1>2, FS_CardinalityType

LEMMA CountedFacts ==
  ASSUME NEW S \in SUBSET Worker
  PROVE  /\ IsFiniteSet(S) /\ Cardinality(S) \in 0..Cardinality(Worker)
         /\ Cardinality(S) = Cardinality(Worker) => S = Worker
<1>1. IsFiniteSet(S) /\ Cardinality(S) <= Cardinality(Worker)
      /\ (Cardinality(S) = Cardinality(Worker) => S = Worker)
  BY WorkersFinite, FS_Subset
<1>2. Cardinality(S) \in Nat
  BY <1>1, FS_CardinalityType
<1>. QED BY <1>1, <1>2, WorkersFinite

\* A new generation is one that no idle worker has seen.
LEMMA GenerationMoves ==
  ASSUME generation \in 0..Generations - 1
  PROVE  NextGeneration \in 0..Generations - 1 /\ NextGeneration # generation
<1>1. CASE generation = Generations - 1
  <2>1. (generation + 1) % Generations = 0
    BY <1>1, ConstantsAssumption
  <2>. QED BY <1>1, <2>1, ConstantsAssumption DEF NextGeneration
<1>2. CASE generation < Generations - 1
  <2>1. (generation + 1) % Generations = generation + 1
    BY <1>2, ConstantsAssumption
  <2>. QED BY <1>2, <2>1, ConstantsAssumption DEF NextGeneration
<1>. QED BY <1>1, <1>2, ConstantsAssumption

LEMMA ThreadSplit == Thread = {0} \cup Worker /\ 0 \notin Worker
BY ConstantsAssumption DEF Thread, Worker

LEMMA Initially == Init => IInv
<1>. SUFFICES ASSUME Init PROVE IInv
  OBVIOUS
<1>1. TypeOK
  <2>1. 0 \in 0..Cardinality(Worker) /\ 0 \in 0..MaxRows /\ 0 \in 0..Generations - 1
    BY ConstantsAssumption, WorkersFinite
  <2>. QED BY <2>1 DEF Init, TypeOK, MainState, WorkerState
<1>2. Lifecycle /\ Quiet
  BY DEF Init, Lifecycle, Quiet, AtWork
<1>3. InCall /\ Coverage
  BY DEF Init, InCall, Coverage, Calling
<1>. QED BY <1>1, <1>2, <1>3 DEF IInv

(***************************************************************************)
(* The steps of the calling thread.                                        *)
(***************************************************************************)
LEMMA StepThreadsInit == IInv /\ ThreadsInit => IInv'
<1>. SUFFICES ASSUME IInv, ThreadsInit PROVE IInv'
  OBVIOUS
<1>. USE DEF IInv, ThreadsInit
<1>1. 0 \in 0..Cardinality(Worker) /\ 0 \in 0..Generations - 1
  BY ConstantsAssumption, WorkersFinite
<1>2. TypeOK'
  BY <1>1 DEF TypeOK, WorkerState
<1>3. Lifecycle' /\ Quiet'
  BY DEF TypeOK, Lifecycle, Quiet, AtWork
<1>4. InCall' /\ Coverage'
  BY DEF InCall, Coverage, Calling
<1>. QED BY <1>2, <1>3, <1>4

LEMMA StepBeginSerial == ASSUME NEW n \in 0..MaxRows PROVE IInv /\ BeginSerial(n) => IInv'
<1>. SUFFICES ASSUME IInv, BeginSerial(n) PROVE IInv'
  OBVIOUS
<1>. USE DEF IInv, BeginSerial, poolVars
<1>2. TypeOK'
  BY DEF TypeOK, MainState
<1>3. Lifecycle' /\ Quiet'
  BY DEF TypeOK, Lifecycle, Quiet, AtWork
<1>4. InCall' /\ Coverage'
  BY DEF InCall, Coverage, Calling
<1>. QED BY <1>2, <1>3, <1>4

LEMMA StepRunSerial == IInv /\ RunSerial => IInv'
<1>. SUFFICES ASSUME IInv, RunSerial PROVE IInv'
  OBVIOUS
<1>. USE DEF IInv, RunSerial, poolVars
<1>1. covered' = [r \in Row |-> IF r < asked THEN 1 ELSE 0]
  BY DEF Coverage, Compute
<1>2. TypeOK'
  BY <1>1 DEF TypeOK, MainState
<1>3. Lifecycle' /\ Quiet'
  BY DEF TypeOK, Lifecycle, Quiet, AtWork
<1>4. InCall' /\ Coverage'
  BY DEF InCall, Coverage, Calling
<1>. QED BY <1>2, <1>3, <1>4

LEMMA StepPost == ASSUME NEW n \in 0..MaxRows PROVE IInv /\ Post(n) => IInv'
<1>. SUFFICES ASSUME IInv, Post(n) PROVE IInv'
  OBVIOUS
<1>. USE DEF IInv, Post
<1>0. generation' \in 0..Generations - 1 /\ generation' # generation
  BY GenerationMoves DEF TypeOK
<1>1. 0 \in 0..Cardinality(Worker)
  BY WorkersFinite
<1>2. worker' \in [Worker -> WorkerState]
      /\ \A w \in Worker : worker'[w] \in {"ready", worker[w]}
  BY DEF Broadcast, TypeOK, WorkerState
<1>3. TypeOK'
  BY <1>0, <1>1, <1>2 DEF TypeOK, MainState
<1>4. Lifecycle'
  BY <1>2 DEF TypeOK, Lifecycle
<1>5. Quiet'
  BY DEF Quiet
<1>6. \A w \in Worker : ~AtWork(w)' /\ seen'[w] # generation'
  BY <1>0, <1>2, main = "idle" DEF Quiet, AtWork, Lifecycle
<1>7. InCall'
  <2>1. Counted' = {}
    BY <1>6 DEF Counted
  <2>2. Cardinality(Counted') = 0
    BY <2>1, FS_EmptySet
  <2>. QED BY <1>6, <2>2 DEF InCall, Counted
<1>8. Coverage'
  <2>1. \A t \in Thread : ~HasRun(t)'
    BY <1>6, ThreadSplit DEF HasRun
  <2>. QED BY <2>1 DEF Coverage
<1>. QED BY <1>3, <1>4, <1>5, <1>7, <1>8

LEMMA StepRunMainRows == IInv /\ RunMainRows => IInv'
<1>. SUFFICES ASSUME IInv, RunMainRows PROVE IInv'
  OBVIOUS
<1>. USE DEF IInv, RunMainRows, poolVars
<1>0. asked \in 0..MaxRows
  BY DEF TypeOK
<1>1. \A r \in Row : covered'[r] = IF r \in Share(0, asked) THEN 1 ELSE covered[r]
  BY ThreadSplit DEF Coverage, Calling, HasRun, Compute
<1>2. covered' \in [Row -> {0, 1}]
  BY <1>1 DEF Compute, TypeOK
<1>3. TypeOK'
  BY <1>2 DEF TypeOK, MainState
<1>4. Lifecycle' /\ Quiet'
  BY DEF TypeOK, Lifecycle, Quiet, AtWork
<1>5. InCall'
  BY DEF InCall, Calling, Counted, AtWork
<1>6. Coverage'
  <2>1. \A r \in Row : r >= asked => r \notin Share(0, asked)
    BY <1>0 DEF Share, Row
  <2>2. \A r \in Row, t \in Thread :
            r \in Share(t, asked) => covered'[r] = IF HasRun(t)' THEN 1 ELSE 0
    <3>. SUFFICES ASSUME NEW r \in Row, NEW t \in Thread, r \in Share(t, asked)
                  PROVE  covered'[r] = IF HasRun(t)' THEN 1 ELSE 0
      OBVIOUS
    <3>1. CASE t = 0
      BY <3>1, <1>1 DEF HasRun
    <3>2. CASE t # 0
      <4>1. r \notin Share(0, asked)
        BY <3>2, <1>0, SharesDisjoint, ThreadSplit
      <4>. QED BY <3>2, <4>1, <1>1 DEF Coverage, Calling, HasRun
    <3>. QED BY <3>1, <3>2
  <2>3. \A r \in Row : r >= asked => covered'[r] = 0
    BY <1>1, <2>1 DEF Coverage, Calling
  <2>. QED BY <2>2, <2>3 DEF Coverage
<1>. QED BY <1>3, <1>4, <1>5, <1>6

\* done tells that every worker has finished.
LEMMA AllCounted ==
  ASSUME IInv, Calling, ~(done < Cardinality(Worker))
  PROVE  \A w \in Worker : seen[w] = generation /\ ~AtWork(w)
<1>1. done = Cardinality(Counted) /\ Counted \in SUBSET Worker
  BY DEF IInv, InCall, Counted
<1>2. Cardinality(Counted) = Cardinality(Worker)
  BY <1>1, CountedFacts, WorkersFinite
<1>3. Counted = Worker
  BY <1>1, <1>2, CountedFacts
<1>. QED BY <1>3 DEF Counted

LEMMA StepCollect == IInv /\ Collect => IInv'
<1>. SUFFICES ASSUME IInv, Collect PROVE IInv'
  OBVIOUS
<1>. USE DEF IInv, Collect, poolVars
<1>1. main' \in {"asleep", "idle"}
  OBVIOUS
<1>2. TypeOK'
  BY <1>1 DEF TypeOK, MainState
<1>3. Lifecycle'
  BY <1>1 DEF Lifecycle
<1>4. Quiet'
  <2>1. CASE main' = "asleep"
    BY <2>1 DEF Quiet
  <2>2. CASE main' = "idle"
    BY <2>2, AllCounted DEF Quiet, AtWork, Calling
  <2>. QED BY <1>1, <2>1, <2>2
<1>5. InCall'
  BY <1>1 DEF InCall, Calling, Counted, AtWork
<1>6. Coverage'
  BY <1>1 DEF Coverage, Calling, HasRun
<1>. QED BY <1>2, <1>3, <1>4, <1>5, <1>6

LEMMA StepBeginShutdown == IInv /\ BeginShutdown => IInv'
<1>. SUFFICES ASSUME IInv, BeginShutdown PROVE IInv'
  OBVIOUS
<1>. USE DEF IInv, BeginShutdown
<1>0. generation' \in 0..Generations - 1
  BY GenerationMoves DEF TypeOK
<1>1. worker' \in [Worker -> WorkerState]
      /\ \A w \in Worker : worker'[w] \in {"ready", worker[w]}
  BY DEF Broadcast, TypeOK, WorkerState
<1>2. TypeOK'
  BY <1>0, <1>1 DEF TypeOK, MainState
<1>3. Lifecycle' /\ Quiet'
  BY <1>1 DEF Lifecycle, Quiet, AtWork
<1>4. InCall' /\ Coverage'
  BY DEF InCall, Coverage, Calling
<1>. QED BY <1>2, <1>3, <1>4

LEMMA StepDestroy == IInv /\ Destroy => IInv'
<1>. SUFFICES ASSUME IInv, Destroy PROVE IInv'
  OBVIOUS
<1>. USE DEF IInv, Destroy
<1>1. 0 \in 0..Cardinality(Worker) /\ 0 \in 0..MaxRows /\ 0 \in 0..Generations - 1
  BY ConstantsAssumption, WorkersFinite
<1>2. TypeOK'
  BY <1>1 DEF TypeOK, MainState, WorkerState
<1>3. Lifecycle' /\ Quiet'
  BY DEF Lifecycle, Quiet, AtWork
<1>4. InCall' /\ Coverage'
  BY DEF InCall, Coverage, Calling
<1>. QED BY <1>2, <1>3, <1>4

(***************************************************************************)
(* The steps of a worker.                                                  *)
(***************************************************************************)
\* A step that moves w between "ready", "asleep" and "exited".
LEMMA StepIdleWorker ==
  ASSUME NEW w \in Worker, WorkerExit(w) \/ WorkerSleep(w) \/ WorkerSpurious(w), IInv
  PROVE  IInv'
<1>. USE DEF IInv, WorkerExit, WorkerSleep, WorkerSpurious, poolVars
<1>1. /\ UNCHANGED <<poolVars, main, asked, seen, copied, covered>>
      /\ ~AtWork(w)
      /\ \E s \in WorkerState \ {"running", "finishing", "none"} :
            worker' = [worker EXCEPT ![w] = s] /\ (s = "exited" => shutdown)
  BY DEF AtWork, WorkerState
<1>2. PICK s \in WorkerState \ {"running", "finishing", "none"} :
            worker' = [worker EXCEPT ![w] = s] /\ (s = "exited" => shutdown)
  BY <1>1
<1>3. worker[w] # "none"
  OBVIOUS
<1>. HIDE DEF WorkerExit, WorkerSleep, WorkerSpurious
<1>4. TypeOK'
  BY <1>1, <1>2 DEF TypeOK
<1>5. \A v \in Worker : AtWork(v)' <=> AtWork(v)
  BY <1>1, <1>2 DEF TypeOK, AtWork
<1>6. Lifecycle'
  BY <1>1, <1>2, <1>3 DEF TypeOK, Lifecycle
<1>7. Quiet'
  BY <1>1, <1>5 DEF Quiet
<1>8. InCall'
  <2>1. Counted' = Counted
    BY <1>1, <1>5 DEF Counted
  <2>. QED BY <1>1, <1>5, <2>1 DEF InCall, Calling
<1>9. Coverage'
  <2>1. \A t \in Thread : HasRun(t)' <=> HasRun(t)
    <3>1. \A v \in Worker : worker'[v] = "running" <=> worker[v] = "running"
      BY <1>1, <1>2 DEF TypeOK, AtWork
    <3>. QED BY <1>1, <3>1, ThreadSplit DEF HasRun
  <2>. QED BY <1>1, <2>1 DEF Coverage, Calling
<1>. QED BY <1>4, <1>6, <1>7, <1>8, <1>9

LEMMA StepWorkerTake == ASSUME NEW w \in Worker PROVE IInv /\ WorkerTake(w) => IInv'
<1>. SUFFICES ASSUME IInv, WorkerTake(w) PROVE IInv'
  OBVIOUS
<1>. USE DEF IInv, WorkerTake, Proceeds, poolVars
<1>1. initialized /\ Calling /\ main \in MainState
  BY DEF Lifecycle, Quiet, Calling, TypeOK, MainState
<1>2. TypeOK'
  BY DEF TypeOK, WorkerState
<1>3. Lifecycle' /\ Quiet'
  BY <1>1 DEF TypeOK, Lifecycle, Quiet, Calling
<1>4. InCall'
  <2>1. Counted' = Counted
    BY DEF Counted, AtWork, TypeOK
  <2>. QED BY <2>1, <1>1 DEF InCall, AtWork, TypeOK, Calling
<1>5. Coverage'
  <2>1. \A t \in Thread : HasRun(t)' <=> HasRun(t)
    BY ThreadSplit DEF HasRun, TypeOK
  <2>. QED BY <2>1 DEF Coverage, Calling
<1>. QED BY <1>2, <1>3, <1>4, <1>5

LEMMA StepWorkerRun == ASSUME NEW w \in Worker PROVE IInv /\ WorkerRun(w) => IInv'
<1>. SUFFICES ASSUME IInv, WorkerRun(w) PROVE IInv'
  OBVIOUS
<1>. USE DEF IInv, WorkerRun, poolVars
<1>0. asked \in 0..MaxRows /\ w \in Thread /\ w # 0
  BY ThreadSplit DEF TypeOK
<1>1. Calling /\ seen[w] = generation /\ copied[w] = asked
  <2>1. Calling
    BY DEF Quiet, AtWork, Calling, TypeOK, MainState
  <2>. QED BY <2>1 DEF InCall, AtWork
<1>2. \A r \in Row : covered'[r] = IF r \in Share(w, asked) THEN 1 ELSE covered[r]
  BY <1>0, <1>1 DEF Coverage, HasRun, Compute
<1>3. covered' \in [Row -> {0, 1}]
  BY <1>2 DEF Compute, TypeOK
<1>4. TypeOK'
  BY <1>3 DEF TypeOK, WorkerState
<1>5. Lifecycle' /\ Quiet'
  BY <1>1 DEF TypeOK, Lifecycle, Quiet, Calling
<1>6. InCall'
  <2>1. Counted' = Counted
    BY DEF Counted, AtWork, TypeOK
  <2>. QED BY <2>1, <1>1 DEF InCall, AtWork, TypeOK, Calling
<1>7. Coverage'
  <2>1. \A r \in Row : r >= asked => r \notin Share(w, asked)
    BY <1>0 DEF Share, Row
  <2>2. \A r \in Row, t \in Thread :
            r \in Share(t, asked) => covered'[r] = IF HasRun(t)' THEN 1 ELSE 0
    <3>. SUFFICES ASSUME NEW r \in Row, NEW t \in Thread, r \in Share(t, asked)
                  PROVE  covered'[r] = IF HasRun(t)' THEN 1 ELSE 0
      OBVIOUS
    <3>1. CASE t = w
      BY <3>1, <1>0, <1>1, <1>2 DEF HasRun, TypeOK
    <3>2. CASE t # w
      <4>1. r \notin Share(w, asked)
        BY <3>2, <1>0, SharesDisjoint
      <4>2. HasRun(t)' <=> HasRun(t)
        BY <3>2, ThreadSplit DEF HasRun, TypeOK
      <4>. QED BY <4>1, <4>2, <1>1, <1>2 DEF Coverage
    <3>. QED BY <3>1, <3>2
  <2>3. \A r \in Row : r >= asked => covered'[r] = 0
    BY <1>1, <1>2, <2>1 DEF Coverage
  <2>. QED BY <2>2, <2>3, <1>1 DEF Coverage, Calling
<1>. QED BY <1>4, <1>5, <1>6, <1>7

LEMMA StepWorkerFinish == ASSUME NEW w \in Worker PROVE IInv /\ WorkerFinish(w) => IInv'
<1>. SUFFICES ASSUME IInv, WorkerFinish(w) PROVE IInv'
  OBVIOUS
<1>. USE DEF IInv, WorkerFinish
<1>1. Calling /\ seen[w] = generation /\ initialized
  <2>1. Calling
    BY DEF Quiet, AtWork, Calling, TypeOK, MainState
  <2>. QED BY <2>1 DEF InCall, AtWork, Lifecycle
<1>2. main' \in {"rows", "collect", "asleep"} /\ (main' = "rows" <=> main = "rows")
  BY <1>1 DEF Calling
<1>3. \A v \in Worker : worker'[v] = IF v = w THEN "ready" ELSE worker[v]
  BY DEF TypeOK
<1>4. done' = Cardinality(Counted') /\ done' \in 0..Cardinality(Worker)
  <2>1. w \notin Counted /\ Counted' = Counted \cup {w}
    BY <1>1, <1>3 DEF Counted, AtWork
  <2>2. Counted \in SUBSET Worker /\ Counted' \in SUBSET Worker
    BY <2>1 DEF Counted
  <2>3. Cardinality(Counted') = Cardinality(Counted) + 1
    BY <2>1, <2>2, CountedFacts, FS_AddElement
  <2>4. done = Cardinality(Counted)
    BY <1>1 DEF InCall
  <2>. QED BY <2>2, <2>3, <2>4, CountedFacts
<1>5. TypeOK'
  BY <1>2, <1>4 DEF TypeOK, WorkerState, MainState
<1>6. Lifecycle' /\ Quiet'
  BY <1>1, <1>2, <1>3 DEF TypeOK, Lifecycle, Quiet, Calling
<1>7. InCall'
  BY <1>1, <1>3, <1>4 DEF InCall, AtWork
<1>8. Coverage'
  <2>1. \A t \in Thread : HasRun(t)' <=> HasRun(t)
    BY <1>2, <1>3, ThreadSplit DEF HasRun, TypeOK
  <2>. QED BY <1>1, <1>2, <2>1 DEF Coverage, Calling
<1>. QED BY <1>5, <1>6, <1>7, <1>8

LEMMA StepMainSpurious == IInv /\ MainSpurious => IInv'
<1>. SUFFICES ASSUME IInv, MainSpurious PROVE IInv'
  OBVIOUS
<1>. USE DEF IInv, MainSpurious, poolVars
<1>1. TypeOK' /\ Lifecycle' /\ Quiet'
  BY DEF TypeOK, MainState, Lifecycle, Quiet, AtWork
<1>2. InCall' /\ Coverage'
  BY DEF InCall, Coverage, Calling, Counted, AtWork, HasRun
<1>. QED BY <1>1, <1>2

LEMMA StepUnchanged == IInv /\ UNCHANGED vars => IInv'
BY DEF IInv, vars, TypeOK, Lifecycle, Quiet, InCall, Coverage, Calling, Counted, AtWork, HasRun

LEMMA Step == IInv /\ [Next]_vars => IInv'
<1>. SUFFICES ASSUME IInv, [Next]_vars PROVE IInv'
  OBVIOUS
<1>1. CASE ThreadsInit
  BY <1>1, StepThreadsInit
<1>2. ASSUME NEW n \in 0..MaxRows, BeginSerial(n) \/ Post(n) PROVE IInv'
  BY <1>2, StepBeginSerial, StepPost
<1>3. CASE BeginShutdown
  BY <1>3, StepBeginShutdown
<1>4. CASE MainStep
  BY <1>4, StepRunSerial, StepRunMainRows, StepCollect, StepDestroy DEF MainStep
<1>5. ASSUME NEW w \in Worker, WorkerStep(w) \/ WorkerSpurious(w) PROVE IInv'
  BY <1>5, StepIdleWorker, StepWorkerTake, StepWorkerRun, StepWorkerFinish DEF WorkerStep
<1>6. CASE MainSpurious
  BY <1>6, StepMainSpurious
<1>7. CASE UNCHANGED vars
  BY <1>7, StepUnchanged
<1>. QED BY <1>1, <1>2, <1>3, <1>4, <1>5, <1>6, <1>7 DEF Next

LEMMA Inductive == Spec => []IInv
<1>. QED BY Initially, Step, PTL DEF Spec

(***************************************************************************)
(* The results.                                                            *)
(***************************************************************************)
\* g_pool and its threads keep their types; done never exceeds n_workers and
\* no row is ever computed twice.
THEOREM TypeCorrect == Spec => []TypeOK
<1>1. IInv => TypeOK
  BY DEF IInv
<1>. QED BY <1>1, Inductive, PTL

\* ds4_parallel_for does not return while a worker can still touch its job.
THEOREM NobodyStraggles == Spec => []NoStragglers
<1>1. IInv => NoStragglers
  BY DEF IInv, Quiet, NoStragglers, AtWork
<1>. QED BY <1>1, Inductive, PTL

LEMMA ReturnsExactly ==
  ASSUME IInv, Collect, main' = "idle"
  PROVE  covered = [r \in Row |-> IF r < asked THEN 1 ELSE 0]
<1>. USE DEF IInv
<1>1. Calling /\ main = "collect" /\ asked \in 0..MaxRows
  BY DEF Collect, Calling, TypeOK
<1>2. ~(done < Cardinality(Worker))
  BY DEF Collect
<1>3. \A w \in Worker : seen[w] = generation /\ ~AtWork(w)
  BY <1>1, <1>2, AllCounted
<1>4. \A t \in Thread : HasRun(t)
  BY <1>1, <1>3, ThreadSplit DEF HasRun, AtWork
<1>5. \A r \in Row : covered[r] = IF r < asked THEN 1 ELSE 0
  <2>1. ASSUME NEW r \in Row, r < asked PROVE covered[r] = 1
    <3>1. PICK t \in Thread : r \in Share(t, asked)
      BY <1>1, <2>1, ShareCovers
    <3>. QED BY <3>1, <1>1, <1>4 DEF Coverage
  <2>2. ASSUME NEW r \in Row, ~(r < asked) PROVE covered[r] = 0
    BY <1>1, <2>2 DEF Coverage, Row
  <2>. QED BY <2>1, <2>2
<1>. QED BY <1>5 DEF TypeOK

LEMMA AbstractStep == IInv /\ IInv' /\ [Next]_vars => [Abstract!Next]_(Abstract!vars)
<1>. SUFFICES ASSUME IInv, IInv', [Next]_vars PROVE [Abstract!Next]_(Abstract!vars)
  OBVIOUS
<1>. DEFINE busy == main \in {"serial", "rows", "collect", "asleep"}
<1>. USE DEF Abstract!vars, Abstract!Next, Abstract!Row, Abstract!Exactly, Row
<1>1. ASSUME UNCHANGED <<asked, covered>>, busy' <=> busy PROVE UNCHANGED Abstract!vars
  BY <1>1
<1>2. CASE ThreadsInit \/ BeginShutdown \/ Destroy \/ MainSpurious \/ UNCHANGED vars
  BY <1>1, <1>2 DEF ThreadsInit, BeginShutdown, Destroy, MainSpurious, vars
<1>3. ASSUME NEW n \in 0..MaxRows, BeginSerial(n) \/ Post(n) PROVE Abstract!Call
  BY <1>3 DEF BeginSerial, Post, Abstract!Call
<1>4. CASE RunSerial
  <2>1. covered' = [r \in Row |-> IF r < asked THEN 1 ELSE 0]
    BY <1>4 DEF RunSerial, Compute, IInv, Coverage
  <2>. QED BY <1>4, <2>1 DEF RunSerial, Abstract!Return
<1>5. ASSUME NEW t \in Thread, Calling, Calling', UNCHANGED asked,
             Compute(Share(t, asked))
      PROVE  Abstract!Compute
  <2>1. covered' \in [Row -> {0, 1}] /\ covered \in [Row -> {0, 1}]
    BY DEF IInv, TypeOK
  <2>2. ASSUME NEW r \in Row, covered'[r] # covered[r]
        PROVE  covered[r] = 0 /\ r < asked
    BY <2>1, <2>2, <1>5 DEF Compute, Share
  <2>. QED BY <2>1, <2>2, <1>5 DEF Abstract!Compute, Calling
<1>6. CASE RunMainRows
  BY <1>6, <1>5, ThreadSplit DEF RunMainRows, Calling
<1>7. CASE Collect
  <2>1. CASE main' = "idle"
    BY <1>7, <2>1, ReturnsExactly DEF Collect, Abstract!Return
  <2>2. CASE main' = "asleep"
    BY <1>1, <1>7, <2>2 DEF Collect
  <2>. QED BY <1>7, <2>1, <2>2 DEF Collect
<1>8. ASSUME NEW w \in Worker, WorkerStep(w) \/ WorkerSpurious(w)
      PROVE  [Abstract!Next]_(Abstract!vars)
  <2>1. CASE WorkerRun(w)
    <3>1. Calling /\ Calling' /\ copied[w] = asked /\ UNCHANGED asked
      <4>1. AtWork(w)
        BY <2>1 DEF WorkerRun, AtWork
      <4>2. main \in MainState /\ UNCHANGED <<main, asked>>
        BY <2>1 DEF WorkerRun, IInv, TypeOK
      <4>. QED BY <4>1, <4>2 DEF IInv, Quiet, InCall, Calling, MainState
    <3>. QED BY <2>1, <3>1, <1>5, ThreadSplit DEF WorkerRun
  <2>2. CASE WorkerFinish(w)
    BY <1>1, <2>2 DEF WorkerFinish
  <2>3. CASE WorkerExit(w) \/ WorkerSleep(w) \/ WorkerTake(w) \/ WorkerSpurious(w)
    BY <1>1, <2>3 DEF WorkerExit, WorkerSleep, WorkerTake, WorkerSpurious
  <2>. QED BY <1>8, <2>1, <2>2, <2>3 DEF WorkerStep
<1>. QED
  BY <1>2, <1>3, <1>4, <1>6, <1>7, <1>8 DEF Next, MainStep

\* However many threads and rows there are, the pool computes every row of a
\* call exactly once and returns after the last.
THEOREM PoolImplementsParallelFor == Spec => ImplementsParallelFor
<1>1. Init => Abstract!Init
  BY DEF Init, Abstract!Init, Abstract!Row, Abstract!Exactly, Row
<1>. QED
  BY <1>1, AbstractStep, Inductive, PTL DEF Spec, ImplementsParallelFor, Abstract!Spec
=============================================================================
