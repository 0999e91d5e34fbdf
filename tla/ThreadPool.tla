----------------------------- MODULE ThreadPool -------------------------------
(***************************************************************************)
(* The persistent CPU worker pool of third/ds4/ds4.c: ds4_threads_init,    *)
(* ds4_worker_main, ds4_parallel_for_min_rows and ds4_threads_shutdown.    *)
(*                                                                         *)
(* What happens between a lock and an unlock of g_pool.mutex is one step.  *)
(* A thread in pthread_cond_wait is "asleep" until it is signalled, or     *)
(* wakes spuriously; it then has to take the mutex and test its condition  *)
(* again.  Only the thread that owns the engine calls into the pool, and   *)
(* a row function that calls ds4_parallel_for itself is served serially    *)
(* (g_parallel_depth > 0), without touching the pool.                      *)
(***************************************************************************)
EXTENDS Naturals, FiniteSets

CONSTANTS
    NThreads,           \* g_pool.n_threads, the calling thread included
    MinParallelRows,    \* min_parallel_rows: smaller jobs run serially
    MaxRows,            \* bound on n_rows
    Generations         \* generation counts modulo this (2^32 in the code)

ASSUME ConstantsAssumption ==
    /\ NThreads \in Nat \ {0}
    /\ MinParallelRows \in Nat
    /\ MaxRows \in Nat
    /\ Generations \in Nat \ {0, 1}

VARIABLES
    initialized, shutdown, generation, nRows, done,     \* g_pool
    main,       \* where the calling thread is
    asked,      \* n_rows of its last call
    worker,     \* where each worker is
    seen,       \* each worker's seen_generation
    copied,     \* each worker's copy of n_rows
    covered     \* how often each row has been computed for the last call

poolVars == <<initialized, shutdown, generation, nRows, done>>
vars == <<initialized, shutdown, generation, nRows, done,
          main, asked, worker, seen, copied, covered>>

Worker == 1..NThreads - 1
Row == 0..MaxRows - 1
WorkerState == {"none", "ready", "asleep", "running", "finishing", "exited"}
MainState == {"idle", "serial", "rows", "collect", "asleep", "joining"}

\* Variant: the share is rounded down.
RowsPerThread_Floor(n) == n \div NThreads

RowsPerThread(n) == (n + NThreads - 1) \div NThreads

\* The rows of thread t, [row0, row1); the calling thread is thread 0.
Share(t, n) ==
    LET row0 == t * RowsPerThread(n)
        row1 == row0 + RowsPerThread(n)
    IN  {r \in Row : row0 <= r /\ r < row1 /\ r < n}

Compute(rows) ==
    covered' = [r \in Row |-> IF r \in rows THEN covered[r] + 1 ELSE covered[r]]

NextGeneration == (generation + 1) % Generations

\* pthread_cond_broadcast(&g_pool.work_cond)
Broadcast == worker' = [w \in Worker |-> IF worker[w] = "asleep" THEN "ready" ELSE worker[w]]

Init ==
    /\ initialized = FALSE /\ shutdown = FALSE
    /\ generation = 0 /\ nRows = 0 /\ done = 0
    /\ main = "idle" /\ asked = 0
    /\ worker = [w \in Worker |-> "none"]
    /\ seen = [w \in Worker |-> 0]
    /\ copied = [w \in Worker |-> 0]
    /\ covered = [r \in Row |-> 0]

------------------------------------------------------------------------------
(* The calling thread.                                                      *)

ThreadsInit ==
    /\ main = "idle" /\ ~initialized
    /\ initialized' = TRUE /\ shutdown' = FALSE
    /\ generation' = 0 /\ done' = 0
    /\ worker' = [w \in Worker |-> "ready"]
    /\ seen' = [w \in Worker |-> 0]
    /\ UNCHANGED <<nRows, main, asked, copied, covered>>

Serially(n) == NThreads <= 1 \/ n < MinParallelRows

BeginSerial(n) ==
    /\ main = "idle" /\ initialized /\ Serially(n)
    /\ main' = "serial" /\ asked' = n
    /\ covered' = [r \in Row |-> 0]
    /\ UNCHANGED <<poolVars, worker, seen, copied>>

RunSerial ==
    /\ main = "serial"
    /\ Compute({r \in Row : r < asked})
    /\ main' = "idle"
    /\ UNCHANGED <<poolVars, asked, worker, seen, copied>>

\* Variant: the counter of the previous job is kept.
Post_KeepsDone(n) ==
    /\ main = "idle" /\ initialized /\ ~Serially(n)
    /\ nRows' = n /\ UNCHANGED done
    /\ generation' = NextGeneration
    /\ Broadcast
    /\ main' = "rows" /\ asked' = n
    /\ covered' = [r \in Row |-> 0]
    /\ UNCHANGED <<initialized, shutdown, seen, copied>>

Post(n) ==
    /\ main = "idle" /\ initialized /\ ~Serially(n)
    /\ nRows' = n /\ done' = 0
    /\ generation' = NextGeneration
    /\ Broadcast
    /\ main' = "rows" /\ asked' = n
    /\ covered' = [r \in Row |-> 0]
    /\ UNCHANGED <<initialized, shutdown, seen, copied>>

RunMainRows ==
    /\ main = "rows"
    /\ Compute(Share(0, asked))
    /\ main' = "collect"
    /\ UNCHANGED <<poolVars, asked, worker, seen, copied>>

\* while (g_pool.done < g_pool.n_workers) pthread_cond_wait(...)
Collect ==
    /\ main = "collect"
    /\ main' = IF done < Cardinality(Worker) THEN "asleep" ELSE "idle"
    /\ UNCHANGED <<poolVars, asked, worker, seen, copied, covered>>

BeginShutdown ==
    /\ main = "idle" /\ initialized
    /\ shutdown' = TRUE /\ generation' = NextGeneration
    /\ Broadcast
    /\ main' = "joining"
    /\ UNCHANGED <<initialized, nRows, done, asked, seen, copied, covered>>

\* The last pthread_join has returned: the pool is destroyed and cleared.
Destroy ==
    /\ main = "joining"
    /\ \A w \in Worker : worker[w] = "exited"
    /\ initialized' = FALSE /\ shutdown' = FALSE
    /\ generation' = 0 /\ nRows' = 0 /\ done' = 0
    /\ worker' = [w \in Worker |-> "none"]
    /\ main' = "idle"
    /\ UNCHANGED <<asked, seen, copied, covered>>

------------------------------------------------------------------------------
(* The workers.                                                             *)

\* Variant: a thread woken for a job it has already done does it again.
Proceeds_Unchecked(w) == TRUE

Proceeds(w) == seen[w] # generation

\* The worker holds the mutex and tests its condition: it leaves on shutdown,
\* sleeps while there is nothing new, or takes a copy of the job.
WorkerExit(w) ==
    /\ worker[w] = "ready" /\ shutdown
    /\ worker' = [worker EXCEPT ![w] = "exited"]
    /\ UNCHANGED <<poolVars, main, asked, seen, copied, covered>>

WorkerSleep(w) ==
    /\ worker[w] = "ready" /\ ~shutdown /\ ~Proceeds(w)
    /\ worker' = [worker EXCEPT ![w] = "asleep"]
    /\ UNCHANGED <<poolVars, main, asked, seen, copied, covered>>

WorkerTake(w) ==
    /\ worker[w] = "ready" /\ ~shutdown /\ Proceeds(w)
    /\ seen' = [seen EXCEPT ![w] = generation]
    /\ copied' = [copied EXCEPT ![w] = nRows]
    /\ worker' = [worker EXCEPT ![w] = "running"]
    /\ UNCHANGED <<poolVars, main, asked, covered>>

WorkerRun(w) ==
    /\ worker[w] = "running"
    /\ Compute(Share(w, copied[w]))
    /\ worker' = [worker EXCEPT ![w] = "finishing"]
    /\ UNCHANGED <<poolVars, main, asked, seen, copied>>

\* Variant: the counter is compared before it is incremented.
LastOne_BeforeCounting == done = Cardinality(Worker)

LastOne == done' = Cardinality(Worker)

\* done++; the worker that completes the count signals done_cond.
WorkerFinish(w) ==
    /\ worker[w] = "finishing"
    /\ done' = done + 1
    /\ main' = IF LastOne /\ main = "asleep" THEN "collect" ELSE main
    /\ worker' = [worker EXCEPT ![w] = "ready"]
    /\ UNCHANGED <<initialized, shutdown, generation, nRows, asked, seen, copied, covered>>

WorkerSpurious(w) ==
    /\ worker[w] = "asleep"
    /\ worker' = [worker EXCEPT ![w] = "ready"]
    /\ UNCHANGED <<poolVars, main, asked, seen, copied, covered>>

MainSpurious ==
    /\ main = "asleep"
    /\ main' = "collect"
    /\ UNCHANGED <<poolVars, asked, worker, seen, copied, covered>>

------------------------------------------------------------------------------
MainStep == RunSerial \/ RunMainRows \/ Collect \/ Destroy
WorkerStep(w) == WorkerExit(w) \/ WorkerSleep(w) \/ WorkerTake(w) \/ WorkerRun(w) \/ WorkerFinish(w)

Next ==
    \/ ThreadsInit
    \/ \E n \in 0..MaxRows : BeginSerial(n) \/ Post(n)
    \/ BeginShutdown
    \/ MainStep
    \/ \E w \in Worker : WorkerStep(w) \/ WorkerSpurious(w)
    \/ MainSpurious

\* The operating system runs every thread that can run.  Nobody is obliged to
\* begin a call or a shutdown, and nobody may count on a spurious wakeup.
Fairness == WF_vars(MainStep) /\ \A w \in Worker : WF_vars(WorkerStep(w))

Spec == Init /\ [][Next]_vars /\ Fairness

------------------------------------------------------------------------------
\* Type invariant.
TypeOK ==
    /\ initialized \in BOOLEAN /\ shutdown \in BOOLEAN
    /\ generation \in 0..Generations - 1
    /\ nRows \in 0..MaxRows /\ asked \in 0..MaxRows
    /\ done \in 0..Cardinality(Worker)
    /\ main \in MainState
    /\ worker \in [Worker -> WorkerState]
    /\ seen \in [Worker -> 0..Generations - 1]
    /\ copied \in [Worker -> 0..MaxRows]
    /\ covered \in [Row -> {0, 1}]

\* When ds4_parallel_for has returned, and its caller's stack frame with the
\* job's context may be gone, no worker is still inside the row function or
\* has yet to count itself for that job.
NoStragglers ==
    main = "idle" => \A w \in Worker : worker[w] \notin {"running", "finishing"}

\* The pool keeps what ds4_parallel_for promises: every row exactly once, and
\* no return before the last of them, whatever the number of threads and rows.
Abstract == INSTANCE ParallelFor WITH busy <- main \in {"serial", "rows", "collect", "asleep"}
ImplementsParallelFor == Abstract!Spec

\* Every call returns and every shutdown joins all workers: no wakeup is lost.
CallReturns == main # "idle" ~> main = "idle"
=============================================================================
