---------------------------- MODULE StopTheWorld ----------------------------
(***************************************************************************)
(* The stop-the-world protocol of src/hx/gc/Immix.cpp: how threads attach  *)
(* to the collector, run, allocate, block in a "GC free zone", pause for a *)
(* collection and detach, and how one of them becomes the collector, waits *)
(* until every other thread is safe, collects and lets them go on.         *)
(*                                                                         *)
(* A thread is cut where another thread can observe it: at each access to  *)
(* gPauseForCollect, to gThreadStateChangeLock, to the two semaphores and  *)
(* to mGCFreeZone of a LocalAllocator.  What it does between two of those  *)
(* is one action.  The heap is abstracted to what the protocol must keep   *)
(* right: whether an allocator still holds a range of rows, and whether a  *)
(* collection has happened since it got that range.                        *)
(***************************************************************************)
EXTENDS Naturals, FiniteSets

CONSTANTS Threads,      \* native threads
          Allocs,       \* LocalAllocator objects
          NoThread, NoAlloc,
          PoolSize,     \* LOCAL_POOL_SIZE
          MaxFree,      \* most blocks a collection may leave free
          MaxHoles,     \* most further holes in a block
          GroupSize     \* blocks that AllocMoreBlocks adds

ASSUME NamesAssumption == NoThread \notin Threads /\ NoAlloc \notin Allocs
ASSUME SizesAssumption == /\ PoolSize \in Nat
                          /\ MaxFree \in Nat
                          /\ MaxHoles \in Nat
                          /\ GroupSize \in Nat \ {0}

VARIABLES
  pc,                       \* where a thread is
  ret,                      \* where it goes on after a pause, an entered zone or a Collect
  tls,                      \* tlsStackContext: the allocator of a thread
  mLocalPool,               \* allocators kept for the next thread that attaches
  mLocalAllocs,             \* registered allocators: those a collection waits for
  mGCFreeZone,              \* per allocator
  mReadyForCollect,         \* per allocator: an auto-reset semaphore
  mCollectDone,             \* per allocator: an auto-reset semaphore
  space,                    \* per allocator: spaceStart < spaceEnd
  holes,                    \* per allocator: mCurrentHoles - mCurrentHole, zero when ~mMoreHoles
  stale,                    \* per allocator: it kept a range through a collection
  gThreadStateChangeLock,   \* the thread that holds it
  gPauseForCollect, sgIsCollecting,
  pending,                  \* allocators the collector's loop has still to visit
  waitingFor,               \* the allocator whose mReadyForCollect the collector waits on
  collects,                 \* per thread: collections this GetFreeBlock has asked for
  freeBlocks                \* blocks that GetNextFree can hand out, all of a fitting size

allocVars  == <<mGCFreeZone, mReadyForCollect, mCollectDone>>
rangeVars  == <<space, holes, stale>>
globalVars == <<gThreadStateChangeLock, gPauseForCollect, sgIsCollecting>>
listVars   == <<tls, mLocalPool, mLocalAllocs>>
loopVars   == <<pending, waitingFor>>
blockVars  == <<collects, freeBlocks>>
vars == <<pc, ret, listVars, allocVars, rangeVars, globalVars, loopVars, blockVars>>

PCs == {"detached", "attach", "entering", "zone", "release", "run",
        "loop", "hole", "recheck", "getfree", "nofree", "enterlock", "freelock", "locked",
        "pause", "paused",
        "collect", "acquire", "waitsafe", "awaitready",
        "gc", "gczone", "reclaimed", "resume", "releasing"}

\* Where PauseForCollect, EnterGCFreeZone and Collect may return to.
Returns == {"run", "loop", "getfree", "enterlock", "zone", "freelock", "release", "locked"}

TypeOK ==
  /\ pc \in [Threads -> PCs]
  /\ ret \in [Threads -> Returns]
  /\ tls \in [Threads -> Allocs \cup {NoAlloc}]
  /\ mLocalPool \subseteq Allocs
  /\ mLocalAllocs \subseteq Allocs
  /\ mGCFreeZone \in [Allocs -> BOOLEAN]
  /\ mReadyForCollect \in [Allocs -> BOOLEAN]
  /\ mCollectDone \in [Allocs -> BOOLEAN]
  /\ space \in [Allocs -> BOOLEAN]
  /\ holes \in [Allocs -> 0..MaxHoles]
  /\ stale \in [Allocs -> BOOLEAN]
  /\ gThreadStateChangeLock \in Threads \cup {NoThread}
  /\ gPauseForCollect \in BOOLEAN
  /\ sgIsCollecting \in BOOLEAN
  /\ pending \subseteq Allocs
  /\ waitingFor \in Allocs \cup {NoAlloc}
  /\ collects \in [Threads -> 0..2]
  /\ freeBlocks \in Nat

Init ==
  /\ pc = [t \in Threads |-> "detached"]
  /\ ret = [t \in Threads |-> "run"]
  /\ tls = [t \in Threads |-> NoAlloc]
  /\ mLocalPool = {} /\ mLocalAllocs = {}
  /\ mGCFreeZone = [a \in Allocs |-> FALSE]
  /\ mReadyForCollect = [a \in Allocs |-> FALSE]
  /\ mCollectDone = [a \in Allocs |-> FALSE]
  /\ space = [a \in Allocs |-> FALSE]
  /\ holes = [a \in Allocs |-> 0]
  /\ stale = [a \in Allocs |-> FALSE]
  /\ gThreadStateChangeLock = NoThread
  /\ gPauseForCollect = FALSE /\ sgIsCollecting = FALSE
  /\ pending = {} /\ waitingFor = NoAlloc
  /\ collects = [t \in Threads |-> 0]
  /\ freeBlocks = 0

\* The thread goes from one label to another.
Goto(t, from, to) == pc[t] = from /\ pc' = [pc EXCEPT ![t] = to]

LockFree == gThreadStateChangeLock = NoThread

-----------------------------------------------------------------------------
(* Attaching and detaching.                                                *)

\* Variant: an allocator goes to the pool as it is.
ClearPooledAllocForgotten(a) == UNCHANGED <<space, holes>>

\* Reset, as ReturnToPoolLocked calls it.
ClearPooledAlloc(a) ==
  /\ space' = [space EXCEPT ![a] = FALSE]
  /\ holes' = [holes EXCEPT ![a] = 0]

\* `delete this`.
Delete(a) ==
  /\ space' = [space EXCEPT ![a] = FALSE]
  /\ holes' = [holes EXCEPT ![a] = 0]
  /\ stale' = [stale EXCEPT ![a] = FALSE]
  /\ mGCFreeZone' = [mGCFreeZone EXCEPT ![a] = FALSE]
  /\ mReadyForCollect' = [mReadyForCollect EXCEPT ![a] = FALSE]
  /\ mCollectDone' = [mCollectDone EXCEPT ![a] = FALSE]

\* GetPooledAllocator, or `new LocalAllocator` when the pool is empty.  The
\* collector does not know the allocator yet.  (An allocator that is neither
\* pooled nor held by a thread is kept as the constructor would make it.)
GetPooledAllocator(t) ==
  /\ Goto(t, "detached", "attach")
  /\ LockFree
  /\ \/ \E a \in mLocalPool :
          /\ tls' = [tls EXCEPT ![t] = a]
          /\ mLocalPool' = mLocalPool \ {a}
     \/ /\ mLocalPool = {}
        /\ \E a \in Allocs \ {tls[s] : s \in Threads} : tls' = [tls EXCEPT ![t] = a]
        /\ UNCHANGED mLocalPool
  /\ UNCHANGED <<ret, mLocalAllocs, allocVars, rangeVars, globalVars, loopVars, blockVars>>

\* AttachThread: the allocator starts in the free zone, then AddLocal
\* registers it under the lock.
AttachThread(t) ==
  /\ Goto(t, "attach", "zone")
  /\ LockFree
  /\ mGCFreeZone' = [mGCFreeZone EXCEPT ![tls[t]] = TRUE]
  /\ mReadyForCollect' = [mReadyForCollect EXCEPT ![tls[t]] = TRUE]
  /\ mLocalAllocs' = mLocalAllocs \cup {tls[t]}
  /\ UNCHANGED <<ret, tls, mLocalPool, mCollectDone, rangeVars, globalVars, loopVars, blockVars>>

\* Release, called when the last stack lock goes: a thread that is not in
\* the free zone enters it before it asks for the lock.
Release(t) ==
  /\ \/ /\ Goto(t, "run", "entering")
        /\ ret' = [ret EXCEPT ![t] = "release"]
        /\ mGCFreeZone' = [mGCFreeZone EXCEPT ![tls[t]] = TRUE]
     \/ /\ Goto(t, "zone", "release")
        /\ UNCHANGED <<ret, mGCFreeZone>>
  /\ UNCHANGED <<listVars, mReadyForCollect, mCollectDone, rangeVars, globalVars, loopVars, blockVars>>

\* ... RemoveLocalLocked and ReturnToPoolLocked, under the lock.  A pooled
\* allocator is cleared; one that does not fit in the pool is deleted.
ReleaseLocked(t) ==
  LET a == tls[t] IN
  /\ Goto(t, "release", "detached")
  /\ LockFree
  /\ mLocalAllocs' = mLocalAllocs \ {a}
  /\ tls' = [tls EXCEPT ![t] = NoAlloc]
  /\ IF Cardinality(mLocalPool) < PoolSize
       THEN /\ mLocalPool' = mLocalPool \cup {a}
            /\ ClearPooledAlloc(a)
            /\ UNCHANGED <<stale, allocVars>>
       ELSE /\ Delete(a)
            /\ UNCHANGED mLocalPool
  /\ UNCHANGED <<ret, globalVars, loopVars, blockVars>>

-----------------------------------------------------------------------------
(* The free zone.                                                          *)

\* EnterGCFreeZone: the flag is set without the lock ...
EnterGCFreeZone(t) ==
  /\ Goto(t, "run", "entering")
  /\ ret' = [ret EXCEPT ![t] = "zone"]
  /\ mGCFreeZone' = [mGCFreeZone EXCEPT ![tls[t]] = TRUE]
  /\ UNCHANGED <<listVars, mReadyForCollect, mCollectDone, rangeVars, globalVars, loopVars, blockVars>>

\* ... and then the semaphore.
EnteredGCFreeZone(t) ==
  /\ Goto(t, "entering", ret[t])
  /\ ret' = [ret EXCEPT ![t] = "run"]
  /\ mReadyForCollect' = [mReadyForCollect EXCEPT ![tls[t]] = TRUE]
  /\ UNCHANGED <<listVars, mGCFreeZone, mCollectDone, rangeVars, globalVars, loopVars, blockVars>>

\* Variant: the zone is left without gThreadStateChangeLock.
ExitGCFreeZoneUnlocked(t) ==
  /\ Goto(t, "zone", "run")
  /\ mReadyForCollect' = [mReadyForCollect EXCEPT ![tls[t]] = FALSE]
  /\ mGCFreeZone' = [mGCFreeZone EXCEPT ![tls[t]] = FALSE]
  /\ UNCHANGED <<ret, listVars, mCollectDone, rangeVars, globalVars, loopVars, blockVars>>

\* ExitGCFreeZone, also the end of SetTopOfStack and PushTopOfStack for a
\* thread that has just attached.
ExitGCFreeZone(t) ==
  /\ Goto(t, "zone", "run")
  /\ LockFree
  /\ mReadyForCollect' = [mReadyForCollect EXCEPT ![tls[t]] = FALSE]
  /\ mGCFreeZone' = [mGCFreeZone EXCEPT ![tls[t]] = FALSE]
  /\ UNCHANGED <<ret, listVars, mCollectDone, rangeVars, globalVars, loopVars, blockVars>>

-----------------------------------------------------------------------------
(* Pausing.                                                                *)

\* PauseForCollect, from where its caller saw gPauseForCollect set.
PauseForCollect(t) ==
  /\ Goto(t, "pause", "paused")
  /\ mReadyForCollect' = [mReadyForCollect EXCEPT ![tls[t]] = TRUE]
  /\ UNCHANGED <<ret, listVars, mGCFreeZone, mCollectDone, rangeVars, globalVars, loopVars, blockVars>>

\* mCollectDone.Wait() returns.
Resumed(t) ==
  /\ Goto(t, "paused", ret[t])
  /\ mCollectDone[tls[t]]
  /\ mCollectDone' = [mCollectDone EXCEPT ![tls[t]] = FALSE]
  /\ ret' = [ret EXCEPT ![t] = "run"]
  /\ UNCHANGED <<listVars, mGCFreeZone, mReadyForCollect, rangeVars, globalVars, loopVars, blockVars>>

\* __hxcpp_gc_safe_point.
SafePoint(t) ==
  /\ gPauseForCollect
  /\ Goto(t, "run", "pause")
  /\ ret' = [ret EXCEPT ![t] = "run"]
  /\ UNCHANGED <<listVars, allocVars, rangeVars, globalVars, loopVars, blockVars>>

-----------------------------------------------------------------------------
(* Allocating.                                                             *)

\* Compiled code bumps spaceStart itself while an object fits; the action is
\* the object that uses up the range.
BumpAlloc(t) ==
  /\ pc[t] = "run" /\ space[tls[t]]
  /\ space' = [space EXCEPT ![tls[t]] = FALSE]
  /\ UNCHANGED <<pc, ret, listVars, allocVars, holes, stale, globalVars, loopVars, blockVars>>

\* CallAlloc: its first lines are a safe point.
CallAlloc(t) ==
  /\ IF gPauseForCollect
       THEN Goto(t, "run", "pause") /\ ret' = [ret EXCEPT ![t] = "loop"]
       ELSE Goto(t, "run", "loop") /\ UNCHANGED ret
  /\ UNCHANGED <<listVars, allocVars, rangeVars, globalVars, loopVars, blockVars>>

\* The object fits: CallAlloc returns.
AllocFits(t) ==
  /\ Goto(t, "loop", "run")
  /\ space[tls[t]]
  /\ UNCHANGED <<ret, listVars, allocVars, rangeVars, globalVars, loopVars, blockVars>>

\* It does not fit, and mMoreHoles is set: ...
MoreHoles(t) ==
  /\ Goto(t, "loop", "hole")
  /\ holes[tls[t]] > 0
  /\ UNCHANGED <<ret, listVars, allocVars, rangeVars, globalVars, loopVars, blockVars>>

\* ... on to the next hole of the block.  If the collector has cleared
\* mMoreHoles meanwhile, mCurrentHole still says how many are left.
NextHole(t) ==
  LET a == tls[t] IN
  /\ Goto(t, "hole", "recheck")
  /\ space' = [space EXCEPT ![a] = TRUE]
  /\ \E n \in 0..MaxHoles : /\ IF holes[a] > 0 THEN n = holes[a] - 1 ELSE n < MaxHoles
                           /\ holes' = [holes EXCEPT ![a] = n]
  /\ UNCHANGED <<ret, listVars, allocVars, stale, globalVars, loopVars, blockVars>>

\* Without a hole, to GetFreeBlock.
NoMoreHoles(t) ==
  /\ Goto(t, "loop", "getfree")
  /\ holes[tls[t]] = 0
  /\ UNCHANGED <<ret, listVars, allocVars, rangeVars, globalVars, loopVars, blockVars>>

\* CallAlloc takes over the ranges of the block GetFreeBlock returns.
Install(a) ==
  /\ space' = [space EXCEPT ![a] = TRUE]
  /\ \E n \in 0..MaxHoles : holes' = [holes EXCEPT ![a] = n]
  /\ stale' = [stale EXCEPT ![a] = FALSE]

\* GetFreeBlock without the lock: GetNextFree finds a block.
GetFreeBlock(t) ==
  /\ Goto(t, "getfree", "recheck")
  /\ freeBlocks > 0
  /\ freeBlocks' = freeBlocks - 1
  /\ Install(tls[t])
  /\ UNCHANGED <<ret, listVars, allocVars, globalVars, loopVars, collects>>

\* It finds none ...
NoFreeBlock(t) ==
  /\ Goto(t, "getfree", "nofree")
  /\ freeBlocks = 0
  /\ UNCHANGED <<ret, listVars, allocVars, rangeVars, globalVars, loopVars, blockVars>>

\* Variant: it tries again without the pause.
RetryOrLock(t) ==
  /\ Goto(t, "nofree", IF gPauseForCollect THEN "getfree" ELSE "enterlock")
  /\ UNCHANGED <<ret, listVars, allocVars, rangeVars, globalVars, loopVars, blockVars>>

\* ... so it pauses if a collection is wanted, or else goes for the lock.
PauseOrLock(t) ==
  /\ IF gPauseForCollect
       THEN Goto(t, "nofree", "pause") /\ ret' = [ret EXCEPT ![t] = "getfree"]
       ELSE Goto(t, "nofree", "enterlock") /\ UNCHANGED ret
  /\ UNCHANGED <<listVars, allocVars, rangeVars, globalVars, loopVars, blockVars>>

\* It waits for the lock in the free zone, in GetFreeBlock and at the end of
\* a Collect that lost with the lock held.
EnterForLock(t) ==
  /\ Goto(t, "enterlock", "entering")
  /\ ret' = [ret EXCEPT ![t] = "freelock"]
  /\ mGCFreeZone' = [mGCFreeZone EXCEPT ![tls[t]] = TRUE]
  /\ UNCHANGED <<listVars, mReadyForCollect, mCollectDone, rangeVars, globalVars, loopVars, blockVars>>

\* gThreadStateChangeLock->lock() and ExitGCFreeZoneLocked.
ExitGCFreeZoneLocked(t) ==
  /\ Goto(t, "freelock", "locked")
  /\ LockFree
  /\ gThreadStateChangeLock' = t
  /\ mReadyForCollect' = [mReadyForCollect EXCEPT ![tls[t]] = FALSE]
  /\ mGCFreeZone' = [mGCFreeZone EXCEPT ![tls[t]] = FALSE]
  /\ UNCHANGED <<ret, listVars, mCollectDone, rangeVars, gPauseForCollect, sgIsCollecting, loopVars, blockVars>>

\* With the lock: GetNextFree finds a block.
LockedBlock(t) ==
  /\ Goto(t, "locked", "recheck")
  /\ freeBlocks > 0
  /\ freeBlocks' = freeBlocks - 1
  /\ Install(tls[t])
  /\ collects' = [collects EXCEPT ![t] = 0]
  /\ gThreadStateChangeLock' = NoThread
  /\ UNCHANGED <<ret, listVars, allocVars, gPauseForCollect, sgIsCollecting, loopVars>>

\* AllocMoreBlocks and the GetNextFree after it: before any collection (when
\* the working memory allows), after the first (when it was a compacting
\* one), or after the second.
MoreBlocks(t) ==
  /\ Goto(t, "locked", "recheck")
  /\ freeBlocks = 0
  /\ freeBlocks' = GroupSize - 1
  /\ Install(tls[t])
  /\ collects' = [collects EXCEPT ![t] = 0]
  /\ gThreadStateChangeLock' = NoThread
  /\ UNCHANGED <<ret, listVars, allocVars, gPauseForCollect, sgIsCollecting, loopVars>>

\* SetupStackAndCollect, at most twice, with the lock held.
LockedCollect(t) ==
  /\ Goto(t, "locked", "collect")
  /\ freeBlocks = 0
  /\ collects[t] < 2
  /\ collects' = [collects EXCEPT ![t] = collects[t] + 1]
  /\ ret' = [ret EXCEPT ![t] = "locked"]
  /\ UNCHANGED <<listVars, allocVars, rangeVars, globalVars, loopVars, freeBlocks>>

\* Variant: the new range is not taken back.
RecheckForgotten(t) ==
  /\ Goto(t, "recheck", "loop")
  /\ UNCHANGED <<ret, listVars, allocVars, rangeVars, globalVars, loopVars, blockVars>>

\* The end of the loop of CallAlloc: the thread may just have overwritten
\* the collector's attempt to stop it.
Recheck(t) ==
  LET a == tls[t] IN
  /\ Goto(t, "recheck", "loop")
  /\ IF gPauseForCollect
       THEN /\ space' = [space EXCEPT ![a] = FALSE]
            /\ holes' = [holes EXCEPT ![a] = 0]
       ELSE UNCHANGED <<space, holes>>
  /\ UNCHANGED <<ret, listVars, allocVars, stale, globalVars, loopVars, blockVars>>

-----------------------------------------------------------------------------
(* Collecting.                                                             *)

\* CollectFromThisThread: a large object, a memory change or an explicit
\* request, without the lock.
CollectFromThisThread(t) ==
  /\ Goto(t, "run", "collect")
  /\ ret' = [ret EXCEPT ![t] = "run"]
  /\ UNCHANGED <<listVars, allocVars, rangeVars, globalVars, loopVars, blockVars>>

\* The compare-and-exchange on gPauseForCollect: this thread collects.
CollectWins(t) ==
  /\ ~gPauseForCollect
  /\ gPauseForCollect' = TRUE
  /\ IF ret[t] = "locked"
       THEN Goto(t, "collect", "waitsafe") /\ pending' = mLocalAllocs \ {tls[t]}
       ELSE Goto(t, "collect", "acquire") /\ UNCHANGED pending
  /\ UNCHANGED <<ret, listVars, allocVars, rangeVars, gThreadStateChangeLock, sgIsCollecting,
                 waitingFor, blockVars>>

\* Variant: the loser pauses with the lock held.
CollectLosesWithLock(t) ==
  /\ gPauseForCollect
  /\ Goto(t, "collect", "pause")
  /\ IF ret[t] = "locked"
       THEN ret' = [ret EXCEPT ![t] = "enterlock"]
       ELSE UNCHANGED ret
  /\ UNCHANGED <<listVars, allocVars, rangeVars, globalVars, loopVars, blockVars>>

\* Another thread does: pause for it.  With the lock held, give it up first,
\* and go for it again afterwards.
CollectLoses(t) ==
  /\ gPauseForCollect
  /\ Goto(t, "collect", "pause")
  /\ IF ret[t] = "locked"
       THEN /\ gThreadStateChangeLock' = NoThread
            /\ ret' = [ret EXCEPT ![t] = "enterlock"]
       ELSE UNCHANGED <<gThreadStateChangeLock, ret>>
  /\ UNCHANGED <<listVars, allocVars, rangeVars, gPauseForCollect, sgIsCollecting, loopVars, blockVars>>

\* The winner that has not got the lock waits for it, outside the free zone.
CollectLock(t) ==
  /\ Goto(t, "acquire", "waitsafe")
  /\ LockFree
  /\ gThreadStateChangeLock' = t
  /\ pending' = mLocalAllocs \ {tls[t]}
  /\ UNCHANGED <<ret, listVars, allocVars, rangeVars, gPauseForCollect, sgIsCollecting,
                 waitingFor, blockVars>>

\* WaitForSafe for the next registered allocator: one in the free zone is
\* safe already.  Of another the range is taken away, without a lock, so
\* that it soon comes to CallAlloc ...
WaitForSafe(t) ==
  /\ pc[t] = "waitsafe"
  /\ \E a \in pending :
       IF mGCFreeZone[a]
         THEN /\ pending' = pending \ {a}
              /\ UNCHANGED <<pc, space, holes, waitingFor>>
         ELSE /\ space' = [space EXCEPT ![a] = FALSE]
              /\ holes' = [holes EXCEPT ![a] = 0]
              /\ waitingFor' = a
              /\ pc' = [pc EXCEPT ![t] = "awaitready"]
              /\ UNCHANGED pending
  /\ UNCHANGED <<ret, listVars, allocVars, stale, globalVars, blockVars>>

\* ... and mReadyForCollect.Wait() returns.
IsReady(t) ==
  /\ Goto(t, "awaitready", "waitsafe")
  /\ mReadyForCollect[waitingFor]
  /\ mReadyForCollect' = [mReadyForCollect EXCEPT ![waitingFor] = FALSE]
  /\ pending' = pending \ {waitingFor}
  /\ waitingFor' = NoAlloc
  /\ UNCHANGED <<ret, listVars, mGCFreeZone, mCollectDone, rangeVars, globalVars, blockVars>>

\* Variant: the loop is left before the last allocator is safe.
StartCollectingEarly(t) ==
  /\ Goto(t, "waitsafe", "gc")
  /\ sgIsCollecting' = TRUE
  /\ pending' = {}
  /\ UNCHANGED <<ret, listVars, allocVars, rangeVars, gThreadStateChangeLock, gPauseForCollect,
                 waitingFor, blockVars>>

\* All are safe.
StartCollecting(t) ==
  /\ Goto(t, "waitsafe", "gc")
  /\ pending = {}
  /\ sgIsCollecting' = TRUE
  /\ UNCHANGED <<ret, listVars, allocVars, rangeVars, gThreadStateChangeLock, gPauseForCollect,
                 loopVars, blockVars>>

\* A finalizer that blocks: the collector's own thread passes through the
\* free zone while it holds the (recursive) lock.
FinalizerEnters(t) ==
  /\ Goto(t, "gc", "gczone")
  /\ mGCFreeZone' = [mGCFreeZone EXCEPT ![tls[t]] = TRUE]
  /\ mReadyForCollect' = [mReadyForCollect EXCEPT ![tls[t]] = TRUE]
  /\ UNCHANGED <<ret, listVars, mCollectDone, rangeVars, globalVars, loopVars, blockVars>>

\* Variant: the semaphore that EnterGCFreeZone set is not reset.
FinalizerExitsReady(t) ==
  /\ Goto(t, "gczone", "gc")
  /\ gThreadStateChangeLock \in {NoThread, t}
  /\ mGCFreeZone' = [mGCFreeZone EXCEPT ![tls[t]] = FALSE]
  /\ UNCHANGED <<ret, listVars, mReadyForCollect, mCollectDone, rangeVars, globalVars, loopVars, blockVars>>

FinalizerExits(t) ==
  /\ Goto(t, "gczone", "gc")
  /\ gThreadStateChangeLock \in {NoThread, t}
  /\ mGCFreeZone' = [mGCFreeZone EXCEPT ![tls[t]] = FALSE]
  /\ mReadyForCollect' = [mReadyForCollect EXCEPT ![tls[t]] = FALSE]
  /\ UNCHANGED <<ret, listVars, mCollectDone, rangeVars, globalVars, loopVars, blockVars>>

\* The allocators that a collection resets: LocalAllocator::Mark those that
\* are registered, ClearPooledAlloc those in the pool.
ResetByCollect == mLocalAllocs \cup mLocalPool

\* MarkAll, the reclaim of all blocks and createFreeList: from now on every
\* range handed out before is out of date.
Reclaim(t) ==
  /\ Goto(t, "gc", "reclaimed")
  /\ space' = [a \in Allocs |-> space[a] /\ a \notin ResetByCollect]
  /\ holes' = [a \in Allocs |-> IF a \in ResetByCollect THEN 0 ELSE holes[a]]
  /\ stale' = [a \in Allocs |-> space'[a] \/ holes'[a] > 0]
  /\ freeBlocks' \in 0..MaxFree
  /\ UNCHANGED <<ret, listVars, allocVars, globalVars, loopVars, collects>>

StopCollecting(t) ==
  /\ Goto(t, "reclaimed", "resume")
  /\ sgIsCollecting' = FALSE
  /\ UNCHANGED <<ret, listVars, allocVars, rangeVars, gThreadStateChangeLock, gPauseForCollect,
                 loopVars, blockVars>>

ClearPause(t) ==
  /\ Goto(t, "resume", "releasing")
  /\ gPauseForCollect' = FALSE
  /\ pending' = mLocalAllocs \ {tls[t]}
  /\ UNCHANGED <<ret, listVars, allocVars, rangeVars, gThreadStateChangeLock, sgIsCollecting,
                 waitingFor, blockVars>>

\* Variant: threads in the free zone are woken as well.
ReleaseFromSafeAll(t) ==
  /\ pc[t] = "releasing"
  /\ \E a \in pending :
       /\ pending' = pending \ {a}
       /\ mCollectDone' = [mCollectDone EXCEPT ![a] = TRUE]
  /\ UNCHANGED <<pc, ret, listVars, mGCFreeZone, mReadyForCollect, rangeVars, globalVars,
                 waitingFor, blockVars>>

\* Variant: nobody is woken.
ReleaseFromSafeNone(t) ==
  /\ pc[t] = "releasing"
  /\ \E a \in pending : pending' = pending \ {a}
  /\ UNCHANGED <<pc, ret, listVars, allocVars, rangeVars, globalVars, waitingFor, blockVars>>

\* ReleaseFromSafe for the next registered allocator.
ReleaseFromSafe(t) ==
  /\ pc[t] = "releasing"
  /\ \E a \in pending :
       /\ pending' = pending \ {a}
       /\ mCollectDone' = [mCollectDone EXCEPT ![a] = mCollectDone[a] \/ ~mGCFreeZone[a]]
  /\ UNCHANGED <<pc, ret, listVars, mGCFreeZone, mReadyForCollect, rangeVars, globalVars,
                 waitingFor, blockVars>>

\* The end of Collect: GetFreeBlock goes on with the lock, anyone else
\* without.
CollectReturns(t) ==
  /\ Goto(t, "releasing", ret[t])
  /\ pending = {}
  /\ gThreadStateChangeLock' = IF ret[t] = "locked" THEN t ELSE NoThread
  /\ ret' = [ret EXCEPT ![t] = "run"]
  /\ UNCHANGED <<listVars, allocVars, rangeVars, gPauseForCollect, sgIsCollecting,
                 loopVars, blockVars>>

-----------------------------------------------------------------------------
Attachment(t) == GetPooledAllocator(t) \/ AttachThread(t) \/ Release(t) \/ ReleaseLocked(t)

FreeZone(t) == EnterGCFreeZone(t) \/ EnteredGCFreeZone(t) \/ ExitGCFreeZone(t)

Pausing(t) == PauseForCollect(t) \/ Resumed(t) \/ SafePoint(t)

Allocation(t) ==
  \/ BumpAlloc(t) \/ CallAlloc(t) \/ AllocFits(t) \/ MoreHoles(t) \/ NextHole(t) \/ NoMoreHoles(t)
  \/ GetFreeBlock(t) \/ NoFreeBlock(t) \/ PauseOrLock(t) \/ EnterForLock(t)
  \/ ExitGCFreeZoneLocked(t) \/ LockedBlock(t)
  \/ MoreBlocks(t) \/ LockedCollect(t) \/ Recheck(t)

Collection(t) ==
  \/ CollectFromThisThread(t) \/ CollectWins(t) \/ CollectLoses(t)
  \/ CollectLock(t) \/ WaitForSafe(t) \/ IsReady(t) \/ StartCollecting(t)
  \/ FinalizerEnters(t) \/ FinalizerExits(t) \/ Reclaim(t) \/ StopCollecting(t)
  \/ ClearPause(t) \/ ReleaseFromSafe(t) \/ CollectReturns(t)

Next == \E t \in Threads :
          Attachment(t) \/ FreeZone(t) \/ Pausing(t) \/ Allocation(t) \/ Collection(t)

Spec == Init /\ [][Next]_vars

-----------------------------------------------------------------------------
(* Fairness.                                                               *)

\* Steps the code goes on to by itself.  A running thread calls CallAlloc
\* again at some time: the collector depends on it (docs/ThreadsAndStacks.md
\* forbids blocking without a free zone).  A thread in the zone may stay.
OwnSteps(t) ==
  \/ EnteredGCFreeZone(t) \/ PauseForCollect(t) \/ Resumed(t)
  \/ CallAlloc(t) \/ AllocFits(t) \/ MoreHoles(t) \/ NextHole(t) \/ NoMoreHoles(t)
  \/ GetFreeBlock(t) \/ NoFreeBlock(t) \/ PauseOrLock(t) \/ EnterForLock(t) \/ LockedBlock(t) \/ MoreBlocks(t) \/ LockedCollect(t)
  \/ Recheck(t) \/ CollectWins(t) \/ CollectLoses(t)
  \/ WaitForSafe(t) \/ IsReady(t) \/ StartCollecting(t) \/ FinalizerExits(t)
  \/ StopCollecting(t) \/ ClearPause(t) \/ ReleaseFromSafe(t) \/ CollectReturns(t)

\* A thread that waits for the lock while it is released again and again
\* gets it in the end; a collection has finitely many finalizers to run.
\* (A thread is at one of these at a time.)
Waits(t) ==
  CollectLock(t) \/ ExitGCFreeZoneLocked(t) \/ AttachThread(t) \/ ReleaseLocked(t) \/ Reclaim(t)

Fairness == \A t \in Threads : WF_vars(OwnSteps(t)) /\ SF_vars(Waits(t))

FairSpec == Spec /\ Fairness

-----------------------------------------------------------------------------
(* Properties.                                                             *)

\* Code that uses GC pointers.  The collector itself counts.
InHeap(t) == pc[t] \notin {"detached", "attach", "entering", "zone", "release", "freelock", "paused"}

\* While sgIsCollecting is set, the only thread outside a free zone and not
\* blocked in PauseForCollect is the collector, which holds the lock.  (The
\* handshake of WaitForSafe, PauseForCollect and the two free-zone exits;
\* also why PauseForCollect may treat sgIsCollecting as a fatal error.)
WorldStopped ==
  sgIsCollecting => \A t \in Threads : InHeap(t) => gThreadStateChangeLock = t

\* No allocator goes on with rows it was given before a collection, be it
\* registered, pooled, or taken from the pool and not yet registered when
\* the collection runs (the window ReturnToPoolLocked clears it for).
NoStaleRange == \A a \in Allocs : ~stale[a]

\* A thread the collector waits for cannot go on allocating from its range:
\* CallAlloc may overwrite the zeroed spaceEnd and mMoreHoles, and undoes it
\* before the next object is allocated.
StopSticks ==
  \A t \in Threads :
    pc[t] \in {"run", "loop"} /\ waitingFor = tls[t] => ~space[tls[t]]

\* mCollectDone is only ever set for a thread that waits for it: a Set left
\* over would let the thread's next pause end while the collection runs.
WakeupReaches ==
  \A a \in Allocs : mCollectDone[a] => \E t \in Threads : tls[t] = a /\ pc[t] = "paused"

\* A paused thread that has not been woken is paused for a collection that
\* is still to end, or is on the list that its collector now goes through.
PausedHasReleaser ==
  \A t \in Threads :
    pc[t] = "paused" /\ ~mCollectDone[tls[t]] =>
      \/ gPauseForCollect
      \/ tls[t] \in pending /\ \E c \in Threads : pc[c] = "releasing"

\* The protocol implements the abstract promise.
Collecting(t) == pc[t] \in {"gc", "gczone", "reclaimed"}
HoldsRange(t) == /\ tls[t] # NoAlloc
                 /\ space[tls[t]] \/ holes[tls[t]] > 0

AbsInHeap == {t \in Threads : InHeap(t)}
AbsCollector == IF sgIsCollecting THEN gThreadStateChangeLock ELSE NoThread
AbsCached == {t \in Threads : HoldsRange(t)}

World == INSTANCE WorldStop WITH inHeap <- AbsInHeap, collector <- AbsCollector,
                                 cached <- AbsCached

\* Every step of the protocol is one of WorldStop, or none of its business.
ImplementsWorldStop == World!Spec

\* Once a thread has won the race to collect, the world does stop: every
\* running thread comes to a safe point, even one that keeps finding free
\* blocks, and the collector gets the lock and hears of each.
EachWinnerCollects ==
  \A t \in Threads : pc[t] \in {"acquire", "waitsafe"} ~> pc[t] = "gc"

\* A thread that pauses goes on again.
EachPauseEnds == \A t \in Threads : pc[t] = "paused" ~> pc[t] # "paused"

\* A thread that needs a block gets one, or gets to pause, whoever else
\* wants the lock or collects.
GetsBlock == \A t \in Threads : pc[t] = "getfree" ~> pc[t] \in {"recheck", "paused"}

-----------------------------------------------------------------------------
(* The inductive invariant behind the safety properties.                   *)

Registered(t) == pc[t] \notin {"detached", "attach"}
ZonePcs  == {"entering", "zone", "release", "freelock", "gczone"}
LockPcs  == {"locked", "waitsafe", "awaitready", "gc", "gczone", "reclaimed", "resume", "releasing"}
WinnerPcs == {"acquire", "waitsafe", "awaitready", "gc", "gczone", "reclaimed", "resume"}
GcPcs    == {"gc", "gczone", "reclaimed"}

\* An allocator belongs to one thread, or to the pool, or to nobody.
OwnersInv ==
  /\ \A t \in Threads : tls[t] = NoAlloc <=> pc[t] = "detached"
  /\ \A s, t \in Threads : s # t /\ tls[s] = tls[t] => tls[t] = NoAlloc
  /\ \A t \in Threads : tls[t] \notin mLocalPool
  /\ \A t \in Threads : Registered(t) <=> tls[t] \in mLocalAllocs
  /\ \A a \in mLocalAllocs : \E t \in Threads : tls[t] = a

RetInv ==
  \A t \in Threads :
    /\ pc[t] = "entering" => ret[t] \in {"zone", "release", "freelock"}
    /\ pc[t] \in {"pause", "paused"} => ret[t] \in {"run", "loop", "getfree", "enterlock"}
    /\ pc[t] \in {"collect", "releasing"} \cup WinnerPcs => ret[t] \in {"run", "locked"}
    /\ pc[t] = "acquire" => ret[t] = "run"

\* Who holds the lock, who collects, and who is in the free zone.
LockInv ==
  \A t \in Threads :
    gThreadStateChangeLock = t <=> pc[t] \in LockPcs \/ (pc[t] = "collect" /\ ret[t] = "locked")

WinnerInv ==
  /\ \A t \in Threads : pc[t] \in WinnerPcs => gPauseForCollect
  /\ gPauseForCollect => \E t \in Threads : pc[t] \in WinnerPcs
  /\ \A s, t \in Threads : pc[s] \in WinnerPcs /\ pc[t] \in WinnerPcs => s = t
  /\ \A t \in Threads : pc[t] \in GcPcs => sgIsCollecting
  /\ sgIsCollecting => \E t \in Threads : pc[t] \in GcPcs

ZoneInv ==
  \A t \in Threads : Registered(t) => (mGCFreeZone[tls[t]] <=> pc[t] \in ZonePcs)

\* The semaphores are clean: set only for somebody to consume.
ReadyInv ==
  \A t \in Threads :
    Registered(t) /\ pc[t] \notin ZonePcs /\ mReadyForCollect[tls[t]] => pc[t] = "paused"

DoneInv ==
  \A a \in Allocs :
    mCollectDone[a] => /\ \E t \in Threads : tls[t] = a /\ pc[t] = "paused"
                       /\ ~mReadyForCollect[a]

\* A thread that the collector need not wait for, and that cannot go on.
Safe(t) ==
  \/ pc[t] \in ZonePcs
  \/ pc[t] = "paused" /\ ~mReadyForCollect[tls[t]] /\ ~mCollectDone[tls[t]]

SafeInv ==
  \A c, t \in Threads :
    c # t /\ Registered(t) =>
      /\ pc[c] \in {"waitsafe", "awaitready"} /\ tls[t] \notin pending => Safe(t)
      /\ pc[c] \in GcPcs \cup {"resume"} => Safe(t)
      /\ pc[c] = "releasing" /\ tls[t] \in pending => Safe(t)

PendingInv ==
  \A c \in Threads :
    /\ pc[c] \in {"waitsafe", "awaitready", "releasing"} => pending \subseteq mLocalAllocs \ {tls[c]}
    /\ pc[c] \in GcPcs \cup {"resume"} => pending = {}
    /\ pc[c] = "awaitready" => waitingFor \in pending

WaitingInv == waitingFor # NoAlloc => \E c \in Threads : pc[c] = "awaitready"

PauseInv ==
  /\ \A t \in Threads : pc[t] = "pause" => gPauseForCollect
  /\ PausedHasReleaser

\* Only the action that takes a hole leaves a range with a thread that the
\* collector waits for, and Recheck follows it; a collection leaves none.
RangeInv ==
  /\ \A c \in Threads : pc[c] = "reclaimed" => \A a \in Allocs : ~space[a] /\ holes[a] = 0
  /\ \A a \in Allocs : a \notin mLocalAllocs => ~space[a] /\ holes[a] = 0
  /\ \A t \in Threads : waitingFor # NoAlloc /\ tls[t] = waitingFor /\ space[tls[t]] => pc[t] = "recheck"

IInv == /\ TypeOK /\ OwnersInv /\ RetInv /\ LockInv /\ WinnerInv /\ ZoneInv /\ ReadyInv
        /\ DoneInv /\ SafeInv /\ PendingInv /\ WaitingInv /\ PauseInv /\ RangeInv /\ NoStaleRange
=============================================================================
