----------------------------- MODULE WorkerPool -----------------------------
(***************************************************************************)
(* The pool of GC worker threads of src/hx/gc/Immix.cpp: the running bits, *)
(* the condition variables, and how the collector starts a job and waits   *)
(* for it.  What is done under sThreadPoolLock is one action; a thread     *)
(* that waits on a condition is asleep until it is signalled, and then     *)
(* looks at its predicate again.  The modules that extend this one say     *)
(* what the jobs are.                                                      *)
(***************************************************************************)
EXTENDS Integers, FiniteSets

CONSTANT Workers    \* 0 .. MAX_GC_THREADS - 1

ASSUME WorkersAssumption == Workers \subseteq Nat /\ IsFiniteSet(Workers)

VARIABLES
  sRunningThreads, sAllThreads,   \* bit masks, as sets of workers
  sLazyThreads,
  sgThreadPoolJob, sgThreadPoolAbort,
  sThreadSleeping,                \* workers inside waitForThreadWake
  signalled,                      \* workers whose sThreadWake has been notified
  sThreadJobDoneSleeping,
  doneSignalled,                  \* sThreadJobDone has been notified
  wpc,                            \* where a worker is
  cpc                             \* where the collector is

poolVars == <<sRunningThreads, sAllThreads, sLazyThreads, sgThreadPoolJob, sgThreadPoolAbort>>
sleepVars == <<sThreadSleeping, signalled, sThreadJobDoneSleeping, doneSignalled>>

Jobs == {"none", "mark", "reclaim", "zero"}

PoolTypeOK(WorkerPCs, CollectorPCs) ==
  /\ sRunningThreads \subseteq Workers
  /\ sAllThreads \subseteq Workers
  /\ sLazyThreads \in BOOLEAN
  /\ sgThreadPoolJob \in Jobs
  /\ sgThreadPoolAbort \in BOOLEAN
  /\ sThreadSleeping \subseteq Workers
  /\ signalled \subseteq Workers
  /\ sThreadJobDoneSleeping \in BOOLEAN
  /\ doneSignalled \in BOOLEAN
  /\ wpc \in [Workers -> WorkerPCs]
  /\ cpc \in CollectorPCs

PoolInit ==
  /\ sRunningThreads = {} /\ sAllThreads = {}
  /\ sLazyThreads = FALSE
  /\ sgThreadPoolJob = "none" /\ sgThreadPoolAbort = FALSE
  /\ sThreadSleeping = {} /\ signalled = {}
  /\ sThreadJobDoneSleeping = FALSE /\ doneSignalled = FALSE
  /\ wpc = [w \in Workers |-> "loop"]

WorkerGoto(w, from, to) == wpc[w] = from /\ wpc' = [wpc EXCEPT ![w] = to]
CollectorGoto(from, to) == cpc = from /\ cpc' = to

-----------------------------------------------------------------------------
(* The workers.                                                            *)

\* Variant: it goes to sleep without a look at its bit.
WaitForThreadWakeBlind(w) ==
  /\ WorkerGoto(w, "loop", "asleep")
  /\ sThreadSleeping' = sThreadSleeping \cup {w}
  /\ UNCHANGED <<poolVars, signalled, sThreadJobDoneSleeping, doneSignalled, cpc>>

\* waitForThreadWake: a worker whose bit is set already does not sleep.
WaitForThreadWake(w) ==
  /\ IF w \in sRunningThreads
       THEN WorkerGoto(w, "loop", "job") /\ UNCHANGED sThreadSleeping
       ELSE /\ WorkerGoto(w, "loop", "asleep")
            /\ sThreadSleeping' = sThreadSleeping \cup {w}
  /\ UNCHANGED <<poolVars, signalled, sThreadJobDoneSleeping, doneSignalled, cpc>>

\* A signal arrives: the predicate again.
ThreadWake(w) ==
  /\ wpc[w] = "asleep" /\ w \in signalled
  /\ signalled' = signalled \ {w}
  /\ IF w \in sRunningThreads
       THEN /\ wpc' = [wpc EXCEPT ![w] = "job"]
            /\ sThreadSleeping' = sThreadSleeping \ {w}
       ELSE UNCHANGED <<wpc, sThreadSleeping>>
  /\ UNCHANGED <<poolVars, sThreadJobDoneSleeping, doneSignalled, cpc>>

\* wakeThreadLocked for the workers of a set (one, or those of a new job),
\* with the new masks.
SetRunning(ws, all) ==
  /\ sRunningThreads' = ws
  /\ sAllThreads' = all
  /\ sLazyThreads' = (ws # all)

Signal(ws) == signalled' = signalled \cup (ws \cap sThreadSleeping)

WakeThreadLocked(w) ==
  /\ SetRunning(sRunningThreads \cup {w}, sAllThreads)
  /\ Signal({w})

\* Variant: all the bits are cleared.
FinishThreadJobForAll(w, from) ==
  /\ WorkerGoto(w, from, "loop")
  /\ SetRunning({}, sAllThreads)
  /\ doneSignalled' = sThreadJobDoneSleeping
  /\ UNCHANGED <<sgThreadPoolJob, sgThreadPoolAbort, sThreadSleeping, signalled,
                 sThreadJobDoneSleeping, cpc>>

\* finishThreadJob and completeThreadLocked: the worker goes back to sleep,
\* the last one wakes the collector.
FinishThreadJob(w, from) ==
  /\ WorkerGoto(w, from, "loop")
  /\ SetRunning(sRunningThreads \ {w}, sAllThreads)
  /\ doneSignalled' = (doneSignalled \/ (sRunningThreads' = {} /\ sThreadJobDoneSleeping))
  /\ UNCHANGED <<sgThreadPoolJob, sgThreadPoolAbort, sThreadSleeping, signalled,
                 sThreadJobDoneSleeping, cpc>>

-----------------------------------------------------------------------------
(* The collector.                                                          *)

\* StartThreadJobs: `start` workers of `all` get their bit.  With `wait` the
\* collector goes to sleep without letting go of the lock first.
StartThreadJobs(job, start, all, from, to, wait) ==
  /\ CollectorGoto(from, to)
  /\ sgThreadPoolJob' = job
  /\ SetRunning(start, all)
  /\ Signal(start)
  /\ sThreadJobDoneSleeping' = (wait /\ start # {})
  /\ doneSignalled' = FALSE
  /\ UNCHANGED <<sgThreadPoolAbort, sThreadSleeping, wpc>>

\* The wait for sThreadJobDone is over, in StartThreadJobs and in
\* StopThreadJobs.
JobDone(from, to) ==
  /\ CollectorGoto(from, to)
  /\ doneSignalled \/ ~sThreadJobDoneSleeping
  /\ sRunningThreads = {}
  /\ sThreadJobDoneSleeping' = FALSE
  /\ doneSignalled' = FALSE
  /\ sgThreadPoolJob' = "none"
  /\ sAllThreads' = {}
  /\ sLazyThreads' = FALSE
  /\ UNCHANGED <<sRunningThreads, sThreadSleeping, signalled, wpc>>

-----------------------------------------------------------------------------
\* The bits, the sleepers and the signals agree.  A worker at work has its bit
\* set, so neither finishThreadJob ("Finishe non-runnning thread?") nor
\* completeThreadLocked ("Complete non-running thread?") traps, and the
\* collector does not go on while a worker still touches the heap.  A worker
\* that sleeps with its bit set has a signal coming, and so has a collector
\* that waits with no bit left: the sleeping flags that save signals
\* (SignalThreadPool) never save one that is needed.
NoLostWake ==
  /\ \A w \in Workers : wpc[w] \notin {"loop", "asleep"} => w \in sRunningThreads
  /\ \A w \in Workers : wpc[w] = "asleep" /\ w \in sRunningThreads => w \in signalled
  /\ sThreadJobDoneSleeping => (doneSignalled <=> sRunningThreads = {})
=============================================================================
