----------------------------- MODULE FreeBlocks -----------------------------
(***************************************************************************)
(* How the free blocks of src/hx/gc/Immix.cpp are handed out without a     *)
(* lock while a worker zeroes them in the background, and how a collection *)
(* stops that worker: GetNextFree and GetFreeBlock, zeroAndUnlock, the     *)
(* loop of ZeroAsyncJit, the queue counter that throttles it, and          *)
(* StopThreadJobs.                                                         *)
(*                                                                         *)
(* All requests are of one size class: mMaxHoleSize only matters in that a *)
(* block fits or not.  mFreeBlocks is sorted by hole size when it is made, *)
(* so the blocks that fit are a suffix of it, until a block that is        *)
(* reclaimed late turns out smaller.                                       *)
(***************************************************************************)
EXTENDS WorkerPool

CONSTANTS Threads,
          BlockCount,     \* mFreeBlocks.size(), and mZeroList.size()
          NoBlock,
          MinQueue,       \* sMinZeroQueueSize
          MaxQueue,       \* sMaxZeroQueueSize
          LazyReclaim     \* the last collection only counted rows (generational)

ASSUME BlocksAssumption ==
  /\ IsFiniteSet(Threads) /\ 0 \in Workers
  /\ BlockCount \in Nat \ {0} /\ NoBlock \notin Nat
  /\ MinQueue \in Nat /\ MaxQueue \in Nat /\ MinQueue <= MaxQueue
  /\ LazyReclaim \in BOOLEAN

Blocks == 0..(BlockCount - 1)

VARIABLES
  mOwned, mZeroLock,   \* per block
  zeroed,              \* per block: mZeroed # ZEROED_NOT
  mReclaimed,          \* per block
  fits,                \* per block: mMaxHoleSize is enough
  rows,                \* per block, what its free rows hold: "garbage", "zeros" or "objects"
  mNextFreeBlockOfSize,
  mZeroListQueue,
  mThreadJobId,
  tpc,                 \* where a mutator is
  block,               \* the block it has got
  queued,              \* what it has read of mZeroListQueue
  nextFree, i, failedLock   \* its variables in GetNextFree

blockVars == <<mOwned, mZeroLock, zeroed, mReclaimed, fits, rows>>
scanVars  == <<nextFree, i, failedLock>>
threadVars == <<tpc, block, scanVars>>
zeroVars  == <<mZeroListQueue, mThreadJobId, queued>>
vars == <<poolVars, sleepVars, wpc, cpc, blockVars, threadVars, zeroVars, mNextFreeBlockOfSize>>

ThreadPCs == {"run", "retry", "scan", "cas", "missed", "locked", "advance", "dequeue", "poke",
              "queue", "left", "wake", "zero", "unlock", "got", "none"}
WorkerPCs == {"loop", "asleep", "job", "top", "claim", "try", "cas", "zero", "reclaim",
              "unlock", "unlockzeroed", "count", "finish"}
CollectorPCs == {"mutate", "stop", "kill", "killed", "waiting", "collect", "start"}

TypeOK ==
  /\ PoolTypeOK(WorkerPCs, CollectorPCs)
  /\ \A f \in {mOwned, mZeroLock, zeroed, mReclaimed, fits} : f \in [Blocks -> BOOLEAN]
  /\ rows \in [Blocks -> {"garbage", "zeros", "objects"}]
  /\ mNextFreeBlockOfSize \in 0..BlockCount
  /\ mZeroListQueue \in Int
  /\ mThreadJobId \in Nat
  /\ tpc \in [Threads -> ThreadPCs]
  /\ block \in [Threads -> Blocks \cup {NoBlock}]
  /\ queued \in [Threads -> Nat \cup {-1}]
  /\ nextFree \in [Threads -> 0..BlockCount]
  /\ i \in [Threads -> 0..BlockCount]
  /\ failedLock \in [Threads -> BOOLEAN]

\* The state in which the first collection begins.
Init ==
  /\ PoolInit
  /\ cpc = "stop"
  /\ mOwned = [b \in Blocks |-> FALSE]
  /\ mZeroLock = [b \in Blocks |-> FALSE]
  /\ zeroed = [b \in Blocks |-> FALSE]
  /\ mReclaimed = [b \in Blocks |-> TRUE]
  /\ fits = [b \in Blocks |-> TRUE]
  /\ rows = [b \in Blocks |-> "garbage"]
  /\ mNextFreeBlockOfSize = 0
  /\ mZeroListQueue = 0 /\ mThreadJobId = 0
  /\ tpc = [t \in Threads |-> "run"]
  /\ block = [t \in Threads |-> NoBlock]
  /\ queued = [t \in Threads |-> 0]
  /\ nextFree = [t \in Threads |-> 0]
  /\ i = [t \in Threads |-> 0]
  /\ failedLock = [t \in Threads |-> FALSE]

\* A mutator moves, which it does between collections only.
At(t, pc) == cpc = "mutate" /\ tpc[t] = pc
Move(t, to) == tpc' = [tpc EXCEPT ![t] = to]
Goto(t, from, to) == At(t, from) /\ Move(t, to)

-----------------------------------------------------------------------------
(* The mutators: GetNextFree.                                              *)

\* CallAlloc has used up its block, or GetFreeBlock tries again: start at
\* the first block that may be free.
GetNextFree(t) ==
  /\ Goto(t, "run", "scan") \/ Goto(t, "retry", "scan")
  /\ block' = [block EXCEPT ![t] = NoBlock]
  /\ nextFree' = [nextFree EXCEPT ![t] = mNextFreeBlockOfSize]
  /\ i' = [i EXCEPT ![t] = mNextFreeBlockOfSize]
  /\ failedLock' = [failedLock EXCEPT ![t] = FALSE]
  /\ UNCHANGED <<poolVars, sleepVars, wpc, cpc, blockVars, zeroVars, mNextFreeBlockOfSize>>

Advance(t) == i' = [i EXCEPT ![t] = @ + 1]

\* A look at the next block of the list.
LookAt(t) ==
  /\ At(t, "scan") /\ i[t] < BlockCount
  /\ IF ~mOwned[i[t]] /\ fits[i[t]]
       THEN Move(t, "cas") /\ UNCHANGED i
       ELSE Advance(t) /\ UNCHANGED tpc
  /\ UNCHANGED <<poolVars, sleepVars, wpc, cpc, blockVars, block, nextFree, failedLock, zeroVars,
                 mNextFreeBlockOfSize>>

\* The compare-and-exchange on mZeroLock.
AcquireZeroLock(t) ==
  /\ At(t, "cas")
  /\ Move(t, IF mZeroLock[i[t]] THEN "missed" ELSE "locked")
  /\ mZeroLock' = [mZeroLock EXCEPT ![i[t]] = TRUE]
  /\ UNCHANGED <<poolVars, sleepVars, wpc, cpc, mOwned, zeroed, mReclaimed, fits, rows, block,
                 scanVars, zeroVars, mNextFreeBlockOfSize>>

\* Variant: a block whose lock is taken counts as taken.
GoOnWithout(t) ==
  /\ Goto(t, "missed", "scan")
  /\ Advance(t)
  /\ UNCHANGED <<poolVars, sleepVars, wpc, cpc, blockVars, block, nextFree, failedLock, zeroVars,
                 mNextFreeBlockOfSize>>

\* It failed: unless another mutator has the block, the worker is busy with
\* it, and the list is to be gone through once more.
SpinAround(t) ==
  /\ Goto(t, "missed", "scan")
  /\ failedLock' = [failedLock EXCEPT ![t] = @ \/ ~mOwned[i[t]]]
  /\ Advance(t)
  /\ UNCHANGED <<poolVars, sleepVars, wpc, cpc, blockVars, block, nextFree, zeroVars,
                 mNextFreeBlockOfSize>>

\* "Someone else got it": it was handed out between the look and the lock.
SomeoneElseGotIt(t) ==
  /\ Goto(t, "locked", "scan")
  /\ mOwned[i[t]]
  /\ mZeroLock' = [mZeroLock EXCEPT ![i[t]] = FALSE]
  /\ Advance(t)
  /\ UNCHANGED <<poolVars, sleepVars, wpc, cpc, mOwned, zeroed, mReclaimed, fits, rows, block,
                 nextFree, failedLock, zeroVars, mNextFreeBlockOfSize>>

\* Variant: ownership is not looked at again under the lock.
OwnUnchecked(t) ==
  /\ Goto(t, "locked", "advance")
  /\ mOwned' = [mOwned EXCEPT ![i[t]] = TRUE]
  /\ block' = [block EXCEPT ![t] = i[t]]
  /\ i' = [i EXCEPT ![t] = nextFree[t]]
  /\ UNCHANGED <<poolVars, sleepVars, wpc, cpc, mZeroLock, zeroed, mReclaimed, fits, rows,
                 nextFree, failedLock, zeroVars, mNextFreeBlockOfSize>>

Own(t) ==
  /\ Goto(t, "locked", "advance")
  /\ ~mOwned[i[t]]
  /\ mOwned' = [mOwned EXCEPT ![i[t]] = TRUE]
  /\ block' = [block EXCEPT ![t] = i[t]]
  /\ i' = [i EXCEPT ![t] = nextFree[t]]
  /\ UNCHANGED <<poolVars, sleepVars, wpc, cpc, mZeroLock, zeroed, mReclaimed, fits, rows,
                 nextFree, failedLock, zeroVars, mNextFreeBlockOfSize>>

\* GetNextFree returns, and its variables are gone.
Return(t) ==
  /\ nextFree' = [nextFree EXCEPT ![t] = 0]
  /\ i' = [i EXCEPT ![t] = 0]
  /\ failedLock' = [failedLock EXCEPT ![t] = FALSE]

\* "Increase the mNextFreeBlockOfSize", past the owned blocks, unless
\* another thread has moved it meanwhile ...
IncreaseNextFree(t) ==
  /\ Goto(t, "advance", "advance")
  /\ i[t] < BlockCount /\ mOwned[i[t]]
  /\ mNextFreeBlockOfSize' = IF mNextFreeBlockOfSize = i[t] THEN i[t] + 1 ELSE mNextFreeBlockOfSize
  /\ Advance(t)
  /\ UNCHANGED <<poolVars, sleepVars, wpc, cpc, blockVars, block, nextFree, failedLock, zeroVars>>

\* ... up to the first that is not.
IncreasedNextFree(t) ==
  /\ Goto(t, "advance", "dequeue")
  /\ i[t] < BlockCount => ~mOwned[i[t]]
  /\ Return(t)
  /\ UNCHANGED <<poolVars, sleepVars, wpc, cpc, blockVars, block, zeroVars, mNextFreeBlockOfSize>>

\* Variant: every block is counted.
OnBlockDequeued(t) ==
  /\ At(t, "dequeue")
  /\ Move(t, IF mZeroListQueue < MinQueue THEN "poke" ELSE "zero")
  /\ mZeroListQueue' = mZeroListQueue - 1
  /\ UNCHANGED <<poolVars, sleepVars, wpc, cpc, blockVars, block, scanVars, mThreadJobId,
                 queued, mNextFreeBlockOfSize>>

\* onZeroedBlockDequeued, for a block that the worker has zeroed: one less
\* in the queue.
OnZeroedBlockDequeued(t) ==
  /\ At(t, "dequeue")
  /\ IF sgThreadPoolJob = "zero" /\ zeroed[block[t]]
       THEN /\ Move(t, IF mZeroListQueue < MinQueue THEN "poke" ELSE "zero")
            /\ mZeroListQueue' = mZeroListQueue - 1
       ELSE Move(t, "zero") /\ UNCHANGED mZeroListQueue
  /\ UNCHANGED <<poolVars, sleepVars, wpc, cpc, blockVars, block, scanVars, mThreadJobId,
                 queued, mNextFreeBlockOfSize>>

\* Does the worker sleep?
WakeTheThread(t) ==
  /\ Goto(t, "poke", IF sRunningThreads = {} THEN "queue" ELSE "zero")
  /\ UNCHANGED <<poolVars, sleepVars, wpc, cpc, blockVars, block, scanVars, zeroVars, mNextFreeBlockOfSize>>

\* Is there work for it?  The length of the queue is read, ...
ReadQueue(t) ==
  /\ Goto(t, "queue", "left")
  /\ queued' = [queued EXCEPT ![t] = mZeroListQueue]
  /\ UNCHANGED <<poolVars, sleepVars, wpc, cpc, blockVars, block, scanVars, mZeroListQueue,
                 mThreadJobId, mNextFreeBlockOfSize>>

\* Variant: it is woken whether or not there is any work.
LookForWorkNot(t) ==
  /\ Goto(t, "left", "wake")
  /\ queued' = [queued EXCEPT ![t] = 0]
  /\ UNCHANGED <<poolVars, sleepVars, wpc, cpc, blockVars, block, scanVars, mZeroListQueue,
                 mThreadJobId, mNextFreeBlockOfSize>>

\* ... and then the last claim, without the lock: the worker, or another
\* mutator, may have moved either on.
LookForWork(t) ==
  /\ Goto(t, "left", IF queued[t] + mThreadJobId < BlockCount THEN "wake" ELSE "zero")
  /\ queued' = [queued EXCEPT ![t] = 0]
  /\ UNCHANGED <<poolVars, sleepVars, wpc, cpc, blockVars, block, scanVars, mZeroListQueue,
                 mThreadJobId, mNextFreeBlockOfSize>>

\* Then wake it, unless another mutator has.
WakeZeroingThread(t) ==
  /\ Goto(t, "wake", "zero")
  /\ IF 0 \in sRunningThreads
       THEN UNCHANGED <<sRunningThreads, sAllThreads, sLazyThreads, signalled>>
       ELSE WakeThreadLocked(0)
  /\ UNCHANGED <<sgThreadPoolJob, sgThreadPoolAbort, sThreadSleeping, sThreadJobDoneSleeping,
                 doneSignalled, wpc, cpc, blockVars, block, scanVars, zeroVars, mNextFreeBlockOfSize>>

\* The list has been gone through: once more, or the result is null.
EndOfList(t) ==
  /\ At(t, "scan") /\ i[t] = BlockCount
  /\ IF failedLock[t]
       THEN /\ i' = [i EXCEPT ![t] = nextFree[t]]
            /\ failedLock' = [failedLock EXCEPT ![t] = FALSE]
            /\ UNCHANGED <<tpc, nextFree>>
       ELSE Move(t, "none") /\ Return(t)
  /\ UNCHANGED <<poolVars, sleepVars, wpc, cpc, blockVars, block, zeroVars, mNextFreeBlockOfSize>>

-----------------------------------------------------------------------------
(* zeroAndUnlock in GetFreeBlock, and then CallAlloc.                      *)

\* Variant: what has been zeroed is not looked at.
ZeroBlockAgain(b) ==
  /\ rows' = [rows EXCEPT ![b] = "zeros"]
  /\ zeroed' = [zeroed EXCEPT ![b] = TRUE]
  /\ mReclaimed' = [mReclaimed EXCEPT ![b] = TRUE]

\* Zeroes the free rows of a block that is not zeroed, reclaimed first if
\* that is still to be done.
ZeroBlock(b) ==
  IF zeroed[b]
    THEN UNCHANGED <<rows, zeroed, mReclaimed>>
    ELSE /\ rows' = [rows EXCEPT ![b] = "zeros"]
         /\ zeroed' = [zeroed EXCEPT ![b] = TRUE]
         /\ mReclaimed' = [mReclaimed EXCEPT ![b] = TRUE]

\* A late reclaim may find the largest hole smaller than it was thought.
MayShrink(b) ==
  \E f \in BOOLEAN :
    /\ f => fits[b]
    /\ ~f => ~fits[b] \/ ~mReclaimed[b]
    /\ fits' = [fits EXCEPT ![b] = f]

ZeroOwnBlock(t) ==
  /\ Goto(t, "zero", "unlock")
  /\ ZeroBlock(block[t])
  /\ MayShrink(block[t])
  /\ UNCHANGED <<poolVars, sleepVars, wpc, cpc, mOwned, mZeroLock, block, scanVars, zeroVars,
                 mNextFreeBlockOfSize>>

\* The lock is released; a block that has turned out too small is left.
UnlockOwnBlock(t) ==
  /\ At(t, "unlock")
  /\ Move(t, IF fits[block[t]] THEN "got" ELSE "retry")
  /\ mZeroLock' = [mZeroLock EXCEPT ![block[t]] = FALSE]
  /\ UNCHANGED <<poolVars, sleepVars, wpc, cpc, mOwned, zeroed, mReclaimed, fits, rows, block,
                 scanVars, zeroVars, mNextFreeBlockOfSize>>

\* Objects are made in its rows.
Allocate(t) ==
  /\ Goto(t, "got", "run")
  /\ rows' = [rows EXCEPT ![block[t]] = "objects"]
  /\ UNCHANGED <<poolVars, sleepVars, wpc, cpc, mOwned, mZeroLock, zeroed, mReclaimed, fits, block,
                 scanVars, zeroVars, mNextFreeBlockOfSize>>

-----------------------------------------------------------------------------
(* The worker: ZeroAsyncJit.                                               *)

TakeJob(w) ==
  /\ WorkerGoto(w, "job", IF sgThreadPoolJob = "zero" THEN "top" ELSE "finish")
  /\ UNCHANGED <<poolVars, sleepVars, cpc, blockVars, threadVars, zeroVars, mNextFreeBlockOfSize>>

\* Variant: the loop does not look at sgThreadPoolAbort.
TopUntilDone(w) ==
  /\ WorkerGoto(w, "top", "claim")
  /\ mZeroListQueue < MaxQueue
  /\ UNCHANGED <<poolVars, sleepVars, cpc, blockVars, threadVars, zeroVars, mNextFreeBlockOfSize>>

\* The top of the loop: the job has been killed, or the queue is full and the
\* worker has spun long enough, or it goes on.
Top(w) ==
  /\ \/ sgThreadPoolAbort /\ WorkerGoto(w, "top", "finish")
     \/ ~sgThreadPoolAbort /\ mZeroListQueue >= MaxQueue /\ WorkerGoto(w, "top", "finish")
     \/ ~sgThreadPoolAbort /\ mZeroListQueue < MaxQueue /\ WorkerGoto(w, "top", "claim")
  /\ UNCHANGED <<poolVars, sleepVars, cpc, blockVars, threadVars, zeroVars, mNextFreeBlockOfSize>>

\* The block that the worker, the only one in this job, has claimed last.
Claimed == mThreadJobId - 1

\* The next block of mZeroList, if there is one.
Claim(w) ==
  /\ mThreadJobId' = mThreadJobId + 1
  /\ IF mThreadJobId < BlockCount
       THEN WorkerGoto(w, "claim", "try")
       ELSE WorkerGoto(w, "claim", "finish")
  /\ UNCHANGED <<poolVars, sleepVars, cpc, blockVars, threadVars, mZeroListQueue, queued, mNextFreeBlockOfSize>>

\* tryZero: without the lock first, ...
TryZero(w) ==
  /\ \/ WorkerGoto(w, "try", "top") /\ zeroed[Claimed]
     \/ WorkerGoto(w, "try", "cas") /\ ~zeroed[Claimed]
  /\ UNCHANGED <<poolVars, sleepVars, cpc, blockVars, threadVars, zeroVars, mNextFreeBlockOfSize>>

\* ... then the lock, if no mutator has it.
TryLock(w) ==
  /\ \/ WorkerGoto(w, "cas", "top") /\ mZeroLock[Claimed]
     \/ WorkerGoto(w, "cas", "zero") /\ ~mZeroLock[Claimed]
  /\ mZeroLock' = [mZeroLock EXCEPT ![Claimed] = TRUE]
  /\ UNCHANGED <<poolVars, sleepVars, cpc, mOwned, zeroed, mReclaimed, fits, rows, threadVars, zeroVars,
                 mNextFreeBlockOfSize>>

\* zeroAndUnlock.  A late reclaim starts with `mMaxHoleSize = 0`, which a
\* mutator may see.
LateReclaim(w) ==
  /\ WorkerGoto(w, "zero", "reclaim")
  /\ ~zeroed[Claimed] /\ ~mReclaimed[Claimed] /\ fits[Claimed]
  /\ fits' = [fits EXCEPT ![Claimed] = FALSE]
  /\ UNCHANGED <<poolVars, sleepVars, cpc, mOwned, mZeroLock, zeroed, mReclaimed, rows, threadVars,
                 zeroVars, mNextFreeBlockOfSize>>

LateReclaimed(w) ==
  /\ WorkerGoto(w, "reclaim", "unlock")
  /\ \E f \in BOOLEAN : fits' = [fits EXCEPT ![Claimed] = f]
  /\ ZeroBlock(Claimed)
  /\ UNCHANGED <<poolVars, sleepVars, cpc, mOwned, mZeroLock, threadVars, zeroVars, mNextFreeBlockOfSize>>

ZeroAndUnlock(w) ==
  /\ \/ WorkerGoto(w, "zero", "unlockzeroed") /\ zeroed[Claimed]
     \/ WorkerGoto(w, "zero", "unlock") /\ ~zeroed[Claimed] /\ (mReclaimed[Claimed] \/ ~fits[Claimed])
  /\ ZeroBlock(Claimed)
  /\ UNCHANGED <<poolVars, sleepVars, cpc, mOwned, mZeroLock, fits, threadVars, zeroVars, mNextFreeBlockOfSize>>

Unlock(w) ==
  /\ WorkerGoto(w, "unlock", "count") \/ WorkerGoto(w, "unlockzeroed", "top")
  /\ mZeroLock' = [mZeroLock EXCEPT ![Claimed] = FALSE]
  /\ UNCHANGED <<poolVars, sleepVars, cpc, mOwned, zeroed, mReclaimed, fits, rows, threadVars, zeroVars,
                 mNextFreeBlockOfSize>>

\* "We zeroed it, so increase queue count".
Count(w) ==
  /\ WorkerGoto(w, "count", "top")
  /\ mZeroListQueue' = mZeroListQueue + 1
  /\ UNCHANGED <<poolVars, sleepVars, cpc, blockVars, threadVars, mThreadJobId, queued, mNextFreeBlockOfSize>>

Finish(w) ==
  /\ FinishThreadJob(w, "finish")
  /\ UNCHANGED <<blockVars, threadVars, zeroVars, mNextFreeBlockOfSize>>

-----------------------------------------------------------------------------
(* A collection.                                                           *)

\* StopTheWorld's part: every mutator is at a safe point.
StopMutators ==
  /\ CollectorGoto("mutate", "stop")
  /\ \A t \in Threads : tpc[t] \in {"run", "none"}
  /\ UNCHANGED <<poolVars, sleepVars, wpc, blockVars, threadVars, zeroVars, mNextFreeBlockOfSize>>

\* StopThreadJobs(true): nothing to do without a job ...
NoJobs ==
  /\ CollectorGoto("stop", "collect")
  /\ sAllThreads = {}
  /\ UNCHANGED <<poolVars, sleepVars, wpc, blockVars, threadVars, zeroVars, mNextFreeBlockOfSize>>

\* ... else tell the worker, without the lock; ...
AbortJobs ==
  /\ CollectorGoto("stop", "kill")
  /\ sAllThreads # {}
  /\ sgThreadPoolAbort' = TRUE
  /\ UNCHANGED <<sRunningThreads, sAllThreads, sLazyThreads, sgThreadPoolJob, sleepVars, wpc,
                 blockVars, threadVars, zeroVars, mNextFreeBlockOfSize>>

\* ... with it, if the worker has its bit, cancel the job; ...
CancelZeroing ==
  /\ CollectorGoto("kill", "killed")
  /\ IF 0 \in sRunningThreads
       THEN sgThreadPoolJob' = "none" /\ WakeThreadLocked(0)
       ELSE UNCHANGED <<sRunningThreads, sAllThreads, sLazyThreads, sgThreadPoolJob, signalled>>
  /\ UNCHANGED <<sgThreadPoolAbort, sThreadSleeping, sThreadJobDoneSleeping, doneSignalled, wpc,
                 blockVars, threadVars, zeroVars, mNextFreeBlockOfSize>>

\* Variant: the collector goes on without waiting.
SleepForJobsNot ==
  /\ CollectorGoto("killed", "collect")
  /\ UNCHANGED <<poolVars, sleepVars, wpc, blockVars, threadVars, zeroVars, mNextFreeBlockOfSize>>

\* ... and wait until no bit is set.
SleepForJobs ==
  /\ CollectorGoto("killed", "waiting")
  /\ sThreadJobDoneSleeping' = (sRunningThreads # {})
  /\ doneSignalled' = FALSE
  /\ UNCHANGED <<poolVars, sThreadSleeping, signalled, wpc, blockVars, threadVars, zeroVars,
                 mNextFreeBlockOfSize>>

JobsStopped ==
  /\ JobDone("waiting", "collect")
  /\ sgThreadPoolAbort' = FALSE
  /\ UNCHANGED <<blockVars, threadVars, zeroVars, mNextFreeBlockOfSize>>

\* Mark, reclaim (or only count the rows) and createFreeList.
Collect ==
  /\ CollectorGoto("collect", "start")
  /\ mOwned' = [b \in Blocks |-> FALSE]
  /\ zeroed' = [b \in Blocks |-> FALSE]
  /\ mReclaimed' = [b \in Blocks |-> ~LazyReclaim]
  /\ rows' = [b \in Blocks |-> "garbage"]
  /\ \E first \in Blocks :
       /\ fits' = [b \in Blocks |-> b >= first]
       /\ mNextFreeBlockOfSize' = first
  /\ tpc' = [t \in Threads |-> IF tpc[t] = "none" THEN "retry" ELSE tpc[t]]
  /\ block' = [t \in Threads |-> NoBlock]
  /\ UNCHANGED <<poolVars, sleepVars, wpc, mZeroLock, scanVars, zeroVars>>

\* backgroundProcessFreeList, and the mutators go on.
BackgroundProcessFreeList ==
  /\ StartThreadJobs("zero", {0}, {0}, "start", "mutate", FALSE)
  /\ mZeroListQueue' = 0
  /\ mThreadJobId' = 0
  /\ UNCHANGED <<queued, blockVars, threadVars, mNextFreeBlockOfSize>>

-----------------------------------------------------------------------------
Scan(t) == \/ GetNextFree(t) \/ LookAt(t) \/ AcquireZeroLock(t) \/ SpinAround(t)
           \/ SomeoneElseGotIt(t) \/ Own(t) \/ IncreaseNextFree(t) \/ IncreasedNextFree(t)
           \/ OnZeroedBlockDequeued(t) \/ WakeTheThread(t) \/ ReadQueue(t) \/ LookForWork(t)
           \/ WakeZeroingThread(t) \/ EndOfList(t)
           \/ ZeroOwnBlock(t) \/ UnlockOwnBlock(t) \/ Allocate(t)

ZeroAsyncJit(w) == \/ TakeJob(w) \/ Top(w) \/ Claim(w) \/ TryZero(w) \/ TryLock(w)
                   \/ LateReclaim(w) \/ LateReclaimed(w) \/ ZeroAndUnlock(w)
                   \/ Unlock(w) \/ Count(w) \/ Finish(w)

Sleep(w) ==
  /\ WaitForThreadWake(w) \/ ThreadWake(w)
  /\ UNCHANGED <<blockVars, threadVars, zeroVars, mNextFreeBlockOfSize>>

Collection == NoJobs \/ AbortJobs \/ CancelZeroing \/ SleepForJobs \/ JobsStopped
              \/ Collect \/ BackgroundProcessFreeList

WorkerStep(w) == Sleep(w) \/ ZeroAsyncJit(w)

Next == \/ \E t \in Threads : Scan(t)
        \/ \E w \in Workers : WorkerStep(w)
        \/ StopMutators \/ Collection

Spec == Init /\ [][Next]_vars

\* Every thread is scheduled; nobody has to allocate.
FairSpec == Spec /\ WF_vars(Collection) /\ \A w \in Workers : WF_vars(WorkerStep(w))

-----------------------------------------------------------------------------
(* Properties.                                                             *)

\* No block is handed to two threads, whatever they saw of mOwned before
\* they took mZeroLock (the second look in GetNextFree).
OneOwner == \A s, t \in Threads : s # t /\ block[s] = block[t] => block[t] = NoBlock

\* A thread gets rows that are zeroed, and the objects it then makes there
\* are not zeroed away by a worker that claimed the block before it (the
\* checks of tryZero and zeroAndUnlock).
ObjectsSurvive ==
  \A t \in Threads : block[t] # NoBlock =>
    /\ tpc[t] = "got" => rows[block[t]] = "zeros"
    /\ tpc[t] = "run" => rows[block[t]] = "objects"

Zeroed == {b \in Blocks : zeroed[b] /\ ~mOwned[b]}
OnWayOut == {t \in Threads : tpc[t] \in {"advance", "dequeue"} /\ zeroed[block[t]]}
OnWayIn == {w \in Workers : wpc[w] \in {"unlock", "count"}}

\* mZeroListQueue counts the blocks that the worker has zeroed and nobody has
\* taken, although it is neither set nor read under a lock: it is off by
\* exactly those that are on their way in or out.
QueueCounts ==
  cpc \notin {"collect", "start"} =>
    mZeroListQueue = Cardinality(Zeroed) + Cardinality(OnWayOut) - Cardinality(OnWayIn)

\* GetNextFree returns null only if every block that would do is taken: a
\* block whose lock was held by the worker has been looked at again, and
\* mNextFreeBlockOfSize has skipped none.  ("Zeroing thread is currently
\* working on this block.  Go to next one or spin around again")
NullMeansNone ==
  cpc = "mutate" => \A t \in Threads : tpc[t] = "none" => \A b \in Blocks : fits[b] => mOwned[b]

\* While the collector marks and reclaims, the worker touches no block, and
\* none is left locked: StopThreadJobs has waited for it.
QuietDuringCollect ==
  cpc \in {"collect", "start"} =>
    /\ \A w \in Workers : wpc[w] \in {"loop", "asleep"}
    /\ \A b \in Blocks : ~mZeroLock[b]

\* A collection is not held up by the worker, whether it sleeps, is about
\* to, has just been woken or is in the middle of a block.
CollectorGetsOn == cpc = "stop" ~> cpc = "collect"

\* The worker keeps ahead of the mutators: it does not sleep with its queue
\* dry while there are free blocks left to zero.  ("Try to maintain between
\* sMinZeroQueueSize and sMaxZeroQueueSize pre-zeroed blocks")
KeepsAhead ==
  /\ cpc = "mutate" /\ 0 \notin sRunningThreads
  /\ \A t \in Threads : tpc[t] \notin {"advance", "dequeue", "poke", "queue", "left", "wake"}
  /\ \E b \in Blocks : b >= mThreadJobId /\ ~zeroed[b] /\ ~mOwned[b]
  => mZeroListQueue > 0
-----------------------------------------------------------------------------
(* The inductive invariant.                                                *)

Scanning == {"scan", "cas", "missed", "locked"}

\* A thread has its block and has not yet made sure that it is zeroed.
Taking == {"advance", "dequeue", "poke", "queue", "left", "wake", "zero"}

\* Who has mZeroLock of block b.
ThreadHolds(t, b) ==
  \/ tpc[t] = "locked" /\ i[t] = b
  \/ tpc[t] \in Taking \cup {"unlock"} /\ block[t] = b

WorkerHolds(b) == wpc[0] \in {"zero", "reclaim", "unlock", "unlockzeroed"} /\ Claimed = b

\* The job: only worker 0 is ever in it, and none is while the collector
\* marks and reclaims; then the mutators stand still.
JobInv ==
  /\ sRunningThreads \subseteq sAllThreads /\ sAllThreads \subseteq {0}
  /\ cpc = "mutate" => sAllThreads = {0} /\ sgThreadPoolJob = "zero"
  /\ cpc \in {"collect", "start"} => sRunningThreads = {}
  /\ sThreadJobDoneSleeping => cpc = "waiting"
  /\ sThreadSleeping = {w \in Workers : wpc[w] = "asleep"}
  /\ cpc # "mutate" => \A t \in Threads : tpc[t] \in {"run", "none", "retry"}
  /\ cpc = "start" => \A b \in Blocks : ~zeroed[b]

\* A lock has one holder.
LockInv ==
  /\ \A b \in Blocks : mZeroLock[b] <=> WorkerHolds(b) \/ \E t \in Threads : ThreadHolds(t, b)
  /\ \A b \in Blocks, t \in Threads : ThreadHolds(t, b) =>
       ~WorkerHolds(b) /\ \A s \in Threads : ThreadHolds(s, b) => s = t

\* What a mutator has where.
ThreadInv ==
  \A t \in Threads :
    /\ tpc[t] \in Scanning \cup {"none"} => block[t] = NoBlock
    /\ tpc[t] \in Taking \cup {"unlock", "got"} => block[t] # NoBlock
    /\ tpc[t] \in {"cas", "missed", "locked"} => i[t] < BlockCount
    /\ block[t] # NoBlock => mOwned[block[t]]

\* What the worker has claimed exists; it reclaims what needs it.
WorkerInv ==
  /\ wpc[0] \in {"try", "cas", "zero", "reclaim", "unlock", "unlockzeroed", "count"} =>
       mThreadJobId \in 1..BlockCount
  /\ wpc[0] = "reclaim" => ~zeroed[Claimed] /\ ~mReclaimed[Claimed]

\* What `zeroed` says of the rows: of a free block for sure, and of a taken
\* one too until its owner has made objects there.
RowsInv ==
  /\ \A b \in Blocks : zeroed[b] /\ ~mOwned[b] => rows[b] = "zeros"
  /\ \A b \in Blocks : mOwned[b] /\ ~zeroed[b] => \E t \in Threads : tpc[t] \in Taking /\ block[t] = b
  /\ \A t \in Threads : block[t] # NoBlock =>
       /\ tpc[t] \in Taking \cup {"unlock", "got"} /\ zeroed[block[t]] => rows[block[t]] = "zeros"
       /\ tpc[t] \in {"unlock", "got", "run"} => zeroed[block[t]]
       /\ tpc[t] = "run" => rows[block[t]] = "objects"

\* The blocks below mNextFreeBlockOfSize, and those a scan has passed, are
\* taken, unless the scan is going to be repeated.
AllTaken(n) == \A b \in Blocks : b < n /\ fits[b] => mOwned[b]

SkipInv ==
  /\ \A b \in Blocks : mReclaimed[b]
  /\ AllTaken(mNextFreeBlockOfSize)
  /\ \A t \in Threads :
       /\ tpc[t] \in Scanning => AllTaken(nextFree[t]) /\ (failedLock[t] \/ AllTaken(i[t]))
       /\ tpc[t] = "none" => AllTaken(BlockCount)

\* The worker is not woken for ever when there is nothing left to claim: once
\* by each mutator that had seen some work.
Waking == {t \in Threads : tpc[t] = "wake"}
MayClaim == IF 0 \in sRunningThreads /\ wpc[0] # "finish" THEN 1 ELSE 0

ClaimInv ==
  mThreadJobId > BlockCount =>
    mThreadJobId + Cardinality(Waking) + MayClaim <= BlockCount + 1 + Cardinality(Threads)

FreeInv ==
  /\ TypeOK /\ NoLostWake /\ JobInv /\ LockInv /\ ThreadInv /\ WorkerInv /\ OneOwner /\ RowsInv
  /\ QueueCounts /\ ClaimInv
  /\ ~LazyReclaim => SkipInv
=============================================================================
