# Verification of the hxcpp runtime

This directory holds TLA+ specifications of the concurrent core of hxcpp, the
C++ runtime of Haxe: the garbage collector of `src/hx/gc/Immix.cpp` with the
threads it stops, the workers it starts, the blocks it hands out without a
lock, its large objects, and the objects it knows by name (finalizers, zombies,
weak references); and the blocking deque and the lock of `src/hx/Thread.cpp`.
Each module comes with TLC configurations that check it on small instances, and
its safety is also proved with TLAPS, for any number of threads, blocks and objects.
Paths below are relative to the root of the repository.

## 1. The system

hxcpp is a runtime library. Compiled Haxe code runs on native threads that
share one garbage-collected heap. Nearly all concurrency of the runtime is
between three kinds of actors:

- *mutators*, threads that run Haxe code and allocate;
- the *collector*, which is whichever mutator decides that it is time to collect;
- the *GC workers*, up to `MAX_GC_THREADS` threads that mark and reclaim while
  the world is stopped, and zero free blocks while it runs.

| Component | State | Operations | Hard behaviour |
|---|---|---|---|
| Stop-the-world protocol (`Immix.cpp`, `docs/ThreadsAndStacks.md`) | `gPauseForCollect`, `sgIsCollecting`, `gThreadStateChangeLock`, `mLocalAllocs`, `mLocalPool`; per `LocalAllocator` `mGCFreeZone`, two semaphores, its range of rows | attach, release, enter and leave a GC free zone, pause, `CallAlloc`, `Collect` | flags read and written without the lock, several would-be collectors, threads that come and go during a collection |
| Free blocks and zeroing (`GetNextFree`, `GetFreeBlock`, `ZeroAsyncJit`) | `mOwned`, `mZeroLock`, `mZeroed`, `mReclaimed` per block, `mNextFreeBlockOfSize`, `mZeroListQueue` | take a block, zero it, throttle the worker, stop it | lock-free hand-out, checks before and after a lock, a counter that lags |
| Mark phase and worker pool (`MarkAll`, `processMarkStack`, `StartThreadJobs`) | chunk list, running and sleeping bits, two condition variables | push, pop and split chunks, wake and finish workers | termination of the marking, signals that are saved |
| Deque (`Thread.cpp`, `Thread.h`) | the array, a mutex, a semaphore or an event | push, pop with or without waiting | lost wake-ups, a pause for a collection with the mutex held |
| Lock (`hxLock`) and `HxSemaphore` time limits | `mAvailable`, a semaphore that holds one signal | wait, wait with a limit, release | a limit that runs out as a permit arrives, a chain of signals through waiters |
| Finalizers, weak references, zombies, object ids (`RunFinalizers`, `FindZombies`, `Hash.h`) | four registries of finalizers, zombies wanted and found, two tables of ids, weak references, weak hashes | register, look up, and the phases of a collection that walk them | one phase brings back what another is about to drop; a collection that is repeated |
| Large objects (`AllocLarge`, `FreeLarge`, `onMemoryChange`) | `mLargeList`, `largeObjectRecycle`, `mLargeAllocated` and its target | allocate, free, recycle, report, sweep | a list read before its lock is taken, a count kept in four places |
| Hole computation, moving, generations | row marks, holes, remembered set | reclaim, move | boundaries; reclaim put off until a block is used |
| Threads, thread locals | one record per thread, recycled slots | create, current, get, set | a new thread sees a half-built record |
| Debugger | breakpoint tables, stopped threads | add, remove, stop, continue | tables shared without a lock |
| Hash maps, strings, arrays, CFFI, Cppia, libraries, telemetry | sequential data | | none between threads |

How they meet: a mutator calls the allocator, which may call the collector,
which waits for the other mutators and starts the workers. A thread that blocks
(in a deque, a lock, a system call) does so in a GC free zone, which it enters
without asking anybody and leaves only under `gThreadStateChangeLock`, the lock
that the collector holds while it collects. So each blocking primitive is a
client of the stop-the-world protocol, and `Deque` checks what a client must
do: enter the zone before it asks for its own mutex.

`PROJECT.json` lists every component with its status, every definition with the
lines it stands for, and, under `hazards`, what is hard to test in this code,
at its line, with the properties that would notice it.

## 2. The modules

| Module | What it is | Code |
|---|---|---|
| `WorldStop` | abstract promise: one collector alone in the heap, no allocation from rows given out before the last collection | |
| `StopTheWorld` | the protocol | `LocalAllocator`, `GlobalAllocator::Collect`, `GetFreeBlock` |
| `StopTheWorldProofs` | its safety, by an inductive invariant | |
| `StopTheWorldRefinement` | it implements `WorldStop` | |
| `Deque` | deque, semaphore, event and a collector | `Thread.cpp`, `Thread.h` |
| `DequeProofs` | its safety | |
| `Lock` | `hxLock` over `HxSemaphore`, with time limits | `Thread.cpp`, `Thread.h` |
| `LockProofs` | its safety | |
| `WorkerPool` | running and sleeping bits, wake and finish; extended by the next two | `StartThreadJobs`, `waitForThreadWake`, `finishThreadJob` |
| `Marking` | abstract promise of a mark phase: it marks what the roots reach | |
| `MarkPool` | the parallel mark and reclaim phases | `GlobalChunks`, `MarkContext`, `ReclaimAsync` |
| `MarkPoolProofs` | its safety, and that it implements `Marking` | |
| `FreeBlocks` | hand-out of free blocks, background zeroing, and its stop | `GetNextFree`, `zeroAndUnlock`, `ZeroAsyncJit`, `StopThreadJobs` |
| `FreeBlocksProofs` | its safety | |
| `LargeObjects` | the large-object allocator and its sweep | `AllocLarge`, `FreeLarge`, `onMemoryChange`, `Collect` |
| `LargeObjectsProofs` | its safety | |
| `Specials` | registries of special objects, and the end of a collection | `FindZombies`, `RunFinalizers`, `GetObjectID`, `Hash.h` |
| `SpecialsProofs` | its safety | |
| `MC*` | instances for TLC | |

An operator whose comment begins with "Variant:" is not part of a
specification. It is the definition after it with a mistake in it, and is kept
to show that each property notices such a mistake (`PROJECT.json`, `mutants`).

### StopTheWorld

A thread is a label (`pc`), the place it returns to from a pause, a free zone
or a `Collect` (`ret`), and the allocator in its `tlsStackContext` (`tls`). The
steps are cut at every access to state that another thread can see without the
lock: `gPauseForCollect`, `mGCFreeZone`, the two semaphores, `mMoreHoles` and
`spaceEnd`, and at every place where a lock is taken. What a thread does
in between is one action. So `EnterGCFreeZone` is two (the flag, then the
semaphore), `WaitForSafe` is two, taking a hole is two (`MoreHoles`, the look
at the flag, and `NextHole`, its use), and a free zone is left in one, as
everybody who could see the middle needs the lock that is held.

The heap is abstracted to what the protocol must keep right. `space` says
whether an allocator has rows left to bump through, `holes` how many further
holes `mMoreHoles` still lets it take, and `stale` whether it kept either
through a collection. `freeBlocks` is the number of blocks that `GetNextFree`
would hand out; what a collection frees is any number up to `MaxFree`.

`Attachment` covers `RegisterCurrentThread`, `AddLocal`, `Release` and the pool
(an allocator is taken from the pool in one step and registered in another:
between the two no collection knows of it). `Allocation` is `CallAlloc` with
`GetFreeBlock` from its lock-free look to the collections it asks for under the
lock. `Collection` is `Collect`: the compare-and-exchange on
`gPauseForCollect`, won or lost, with or without the lock; the wait for each
registered allocator, in any order; the collection itself, in which a finalizer
may pass through the free zone; and the release of the paused threads.

Left out: requests too large for a free block (all requests fit any block), the
memory-exhausted trap, nesting of stack locks (only the last one releases), and
spurious returns of a condition wait, after which the code's loops look again.
A finalizer does not allocate while the world is stopped: the code reports that
as a critical error (`Immix.cpp`:6050). An allocator that does not fit in the
pool is deleted and may come back as a new one.

### Deque

Both builds: pthreads (`lockable`), where the deque's mutex is that of the
semaphore, and Windows, where the semaphore is an auto-reset event and the
mutex is given up and taken again around the wait. `lockable` is chosen by the
initial state and never changes. A critical section in which the
thread neither waits nor stops for a collection is one action. A pusher may
stop for a collection in the middle (`push` allocates), with the mutex held.
The collector is an abstraction of `StopTheWorld`: a collection is wanted,
begins when every thread is in the free zone or paused, and ends.

### Lock

`Release` counts a permit and sets the semaphore, in one critical section of
`mAvailableLock`. `Wait` looks under that mutex (`Take`, which passes the signal
on while there are more permits, or `NothingThere`), then looks at the time
(`GiveUp` or `Sleep`), then waits in `HxSemaphore`, and looks again. Time is
what a thread's limit makes of it: `late` has the threads whose limit has
passed, and the clock may put a thread there at any moment. `WaitSeconds` may
end early, as its time is cut to whole units and `tv_nsec` may come out at
1000000000, which `pthread_cond_timedwait` refuses (`Thread.h`:267); with
pthreads the end of a wait takes the flag along, with events it does not. The
free zone around the wait only adds time to `Again`; what it means to the
collector is checked in `StopTheWorld` and `Deque`.

### LargeObjects

A blob of the C heap, its size word (`header`), and the lists it can be in. A
thread reads a slot of `largeObjectRecycle` (`Look`) and the blob's first word
(`Compare`) without `mLargeListLock`, in two steps: the blob may have been taken
meanwhile and filled with anything. On a match it takes the lock and looks
again (`LockList`); if the match has gone it goes on through the list with the
lock held. `FreeLarge` looks at the capacity without the lock and again with it,
so that no `realloc` pulls the list away from a reader. A collection (`StartSweep`
to `EndSweep`) frees what waits in the list, sweeps `mLargeList` one blob at a
time and recycles dead ones while it has space for them. `mLargeAllocSpace` is
any member of `Spaces`, smaller than a request too: `CallAlloc` raises it to
twice what it is asked for only after the collection that the request may have
forced (`Immix.cpp`:3231-3242, 3336-3345). A thread that has looked at the
target allocates whatever it finds by then, so what `GrowthBounded` promises is
one biggest request of every thread past the target. It promises this only while
the GC may collect: `__hxcpp_enable(false)` clears `sgInternalEnable`
(`InternalEnableGC`), and then neither `AllocLarge` nor `onMemoryChange` forces a
collection, however much is allocated. `skipped` is a history variable that
remembers such a request until a collection sets the next target, from which the
bound holds again. The rounding of sizes, the contents of memory and the width of
the counters are left out.
`InternalRealloc` is an allocation followed by a free.

### Specials

One registry stands for the four of finalizers, which are walked alike, and the
two tables of object ids are modelled as they are. An object refers to one other
at most, a closure to its `this` for good. A collection is a sequence of phases,
in the order of the code: mark, find zombies (each marked with all it keeps),
run finalizers, give up ids, clear keys of weak hashes, clear weak references,
sweep. A generational collection starts from what the last one kept. When it
has kept too much (`Collect`, line 4979), the whole mark phase comes again
(`MarkAgain`), after finalizers ran and references were cleared.

A finalizer does nothing here: `GC.h`:149 forbids it to call the GC. A look-up in a weak hash takes the key's
object id, whether the hash has buckets or not, as `set` does; only `remove`
returns before that when there are none. Strings as
weak keys, closures of closures, the root registries and the moving of special
objects are left out; `roots` is whatever the program holds. `GetIDObject` lets
an index one past the end through (line 4207: `>` where `>=` is meant); `Hold`
asks for ids that exist only.

### WorkerPool and MarkPool

What the workers do under `sThreadPoolLock` is one action. A wait on a
condition is a state (`asleep`) that ends when the thread has been signalled,
whereupon it looks at its predicate again; the two sleeping flags, which save
signals to threads that do not sleep, are modelled as they are. A worker marks
from a chunk of its own; `todo` are the children of the object it visits that
it has seen unmarked. Mark bits are read and set without a lock, so two workers
may push the same child. The list of chunks is a sequence, and a pop is one
step because `processListPopLock` keeps other poppers out and a push in between
makes the compare-and-exchange fail and be tried again.

Left out: array jobs, the free list of chunks, the count, stats and visit jobs
(which go through the same start, claim and finish), and the abort of a mark
phase, which never happens, as the abort flag is set and cleared before it.

### FreeBlocks

Mutators are cut at each access to a block's flags: the look at `mOwned`, the
compare-and-exchange on `mZeroLock`, the second look at `mOwned`, each step of
the walk that moves `mNextFreeBlockOfSize` on, the queue counter, the look at
`sRunningThreads`, the looks at `mZeroListQueue` and at `mThreadJobId` after it,
the zeroing, the unlock. So is the worker. `rows` says what
the free rows of a block hold. `StopMutators` stands for the whole of
`StopTheWorld`; from there `StopThreadJobs` is cut at each of its own accesses.
With `LazyReclaim` a collection only counts rows, and whoever zeroes a block
reclaims it first, which may find less room than was counted.

One size class, one zeroing worker (as in the code: `StartThreadJobs` is called
with a limit of 1), no `AllocMoreBlocks`. A free list that is too short for
background zeroing (`mFreeBlocks.size()>4`) is not exempted, so that the cases of
interest fit in a small instance. The mutators that found nothing go on after
the next collection.

### What all modules assume

Memory is sequentially consistent. The code's plain reads of shared flags are
data races in C++; an interleaving model gives each the value at some moment,
and does not say what a compiler might make of it.

## 3. The runs

| Run | Instance | States | What it shows |
|---|---|---|---|
| `stop_the_world` | 3 threads, 3 allocators, pool of 1 | 249,081 | all safety properties and the refinement of `WorldStop` |
| `stop_the_world_live` | 2 threads, 2 allocators | 13,557 | every winner collects, every pause ends, every request is served |
| `deque` | 3 threads, 2 values; all consume (pthreads), 1 consumes (Windows) | 35,329 | no value is slept through; collections and consumers get on |
| `deque_lost` | 3 threads, all consume | violation | Windows: a consumer waits beside a value (finding) |
| `lock` | 3 threads, 2 permits, both builds | 31,823 | no permit is slept through; waiters get on, limited waits return |
| `mark_pool` | 3 workers, 6 objects, chunks of 2, 2 blocks | 183,186 | marking is complete and ends; each block is reclaimed once |
| `free_blocks` | 2 mutators, 3 blocks | 374,396 | one owner, no object lost, the count is right, the worker can be stopped |
| `free_blocks_lazy` | 2 mutators, 2 blocks | 86,241 | no object is lost with late reclaim either |
| `free_blocks_ahead` | 2 mutators, 5 blocks, queue 2..3 | violation | the zeroing worker is not woken again (finding) |
| `large_objects` | 2 threads, 2 blobs, sizes 1 and 2, reports of 1 | 1,826,717 | a blob has one user and enough room; the count is right; growth is bounded unless the GC was disabled |
| `specials` | 3 objects, one a closure, full and generational collections | 3,085,188 | nothing reachable is freed, finalized or cleared; ids are unique; keys are found |
| `specials_closure` | the same, full collections | violation | a weak key that is a closure cannot be found (finding) |

The runs `stop_the_world`, `mark_pool`, `free_blocks` and `specials` also check
the inductive invariants that the proofs use (`IInv`, `MarkInv`, `FreeInv`,
`SpecialsInv`).

Bounds, and why they are enough:

- `StopTheWorld`: the roles in one collection are the winner, a loser that came
  with the lock or without, and a thread that attaches or detaches meanwhile;
  three threads play them all. With `PoolSize` 1 an allocator may come back
  from the pool, be deleted, or be made anew. `MaxFree` and `MaxHoles` let
  a request be served by a hole, by a block, or not at all; `GroupSize` 1 means
  that every request comes back to the lock.
- The liveness run has two threads, without symmetry (it is not sound
  for liveness) and without holes.
- `Deque`: `MaxLength` 2 is the least with which a consumer leaves a value
  behind. Three threads can be two waiters and a pusher, or a waiter and two
  that pass values by it.
- `Lock`: two permits are what it takes to pass a signal on; three threads are
  one that releases, one that times out and one that must not be left asleep.
- `LargeObjects`: the one that looks and the one that takes; two blobs make a
  list in which `qerase` moves the last into the gap, and one more to free than
  a list with one slot has room for. `Slack` 1 instead of 10 makes the list full.
  Deltas and targets are of the order of sizes, so each request may or may not
  pass the target, and the space (1) is less than the biggest request (2). A
  thread may disable or enable the GC between any two calls.
- `Specials`: a zombie that keeps another, or a closure; a weak key, a weak
  reference; an id given up and given out again. Two of three objects are of
  each kind where two are needed.
- `MarkPool`: an object with more children than a chunk holds, one with as many,
  shared children, a cycle and garbage; `SplitAbove` 1 and `SplitBy` 1 stand for
  32 and 16. Three workers give one that marks, one that spins and one that sleeps.
- `FreeBlocks`: two mutators and the worker race for each block; three blocks
  with a queue of two fill the queue and leave a block.

The proofs have no such bounds, but for finiteness where a set is counted.
Constants such as `MaxFree`, `MaxHoles`, `MaxLength`, `MaxAvailable`,
`MaxExternal` are bounds of the model where the code has none. Symmetry is used in safety runs only.

### Fairness

- `StopTheWorld`: a thread goes on with what it has begun (weak fairness of
  `OwnSteps`), and comes to `CallAlloc` again and again while it runs. The code depends on it:
  `docs/ThreadsAndStacks.md` asks that a thread that may block enter
  a free zone. A thread that waits for `gThreadStateChangeLock` while others
  take it again and again gets it in the end (strong fairness of `Waits`), as
  with any mutex that does not starve. No thread has to attach, detach, leave a
  zone or collect.
- `Deque`: the same, per thread; nobody has to push or pop, and no collection
  has to be wanted.
- `Lock`: a thread in `Wait` goes on unless it sleeps, time goes on, and a timed
  wait of the operating system ends (weak fairness of each, per thread). Nobody
  has to release or to wait. The mutexes are inside the steps.
- `MarkPool`, `FreeBlocks`: weak fairness per worker and for the collector. A
  worker that spins finishes in the end, as its count is bounded. Mutators need not move.

### Findings

1. *A consumer of a Windows deque may wait beside a value*
   (`src/hx/Thread.cpp`:69-90). Two pushes set the event before either of two
   consumers waits on it: the second is not woken, and the first does not pass
   the signal on. The pthread build does, and is proved not to have the problem.
2. *The zeroing worker may stay asleep with an empty queue*
   (`src/hx/gc/Immix.cpp`:4429), between giving up on a full queue and clearing
   its running bit. Only speed is lost.

3. *A weak hash keeps a closure it cannot find*
   (`src/hx/gc/Immix.cpp`:2552, 2700-2732). If a closure is kept as a key
   because its `this` is alive, its object id, which is its hash, has just been
   given up; once another object has that id, a look-up with the closure
   computes another hash than the one the key is stored under.

## 4. The proofs

`StopTheWorldProofs` proves `Spec => []IInv` and from it type correctness,
`WorldStopped`, `NoStaleRange`, `StopSticks`, `WakeupReaches` and
`PausedHasReleaser`, for any sets of threads and allocators and any sizes.
It assumes only that `NoThread` and `NoAlloc` are not among
them and that sizes are natural numbers (`NamesAssumption`, `SizesAssumption`).

None of the properties is inductive. That a stopped thread stays stopped
depends on whether it is in a zone it cannot leave without the lock (`ZoneInv`,
`LockInv`), or blocks on a semaphore that is clear and that nobody else sets
(`DoneInv`, `WakeupReaches`), and on the collector having heard from *this*
pause and not from an earlier one (`ReadyInv`). `SafeInv` puts it together: of
the registered allocators other than the collector's, those no longer pending
are safe while it waits, all are while it collects, and those still pending are
while it lets them go. `OwnersInv` says that an allocator has one thread,
`RetInv` which continuations a label may have, `WinnerInv` that there is one
collector, `RangeInv` where a range may be left when the collector has taken it
back. The run `stop_the_world` checks `IInv` as an invariant. Each action has a
lemma, with a step per part of `IInv`.

`StopTheWorldRefinement` proves `Spec => ImplementsWorldStop`, one lemma per
action: which of the three abstract variables it changes and by which abstract
action. `CollectorIsAlone` carries the promise of `WorldStop` back.

`DequeProofs` proves, for any number of threads and values, type correctness,
`QuietDuringCollect` (both builds) and, for the pthread build,
`WaitsOnlyForSomething`, which the Windows build does not have. The part that
matters is `WakeInv`: with a value in the deque and a thread inside `QWait`,
either the flag is set and a thread is up to see it, or a consumer is in its
critical section and will take the value, and pass the signal on if there are more.

`LockProofs` proves type correctness and `NoPermitSleptThrough`, for both
builds, any finite set of threads and any number of permits. `PermitInv` covers
not only those who sleep but whoever saw no permit and is on the way to sleep;
`FlagInv` says that a flag never stands among sleepers only, which is why a
`Set` that finds the flag set may leave it at that.

`LargeObjectsProofs` proves type correctness and `SafeToUse`, for any finite
sets of threads, blobs and sizes. `HeapInv` says that each list holds blobs with
memory of the size they say, and that no blob is in both; `HandInv` and
`ClaimInv` where a blob is that a thread has taken and not yet listed, or is
about to give back; `LockInv` that a slot read with the lock is still what it
was, so that `qerase` takes the blob that was looked at. A slot read without
the lock has no part in the invariant: that is the point of the second look.
`Accounted` rests on these (`CountInv`). Its sum is stated as the number of pairs
of a listed blob and one of its bytes (`Bytes`), since a sum over a set is
recursive and no induction over sets is at hand: a blob that is listed or
dropped adds or removes as many pairs as it has bytes. `GrowthBounded` is not
inductive; `GrowthInv` counts the threads that are past their look at the target
(`Past`) and allows each of them one biggest request; a request that went by
with the GC disabled is not counted, but ends the claim until a collection has
set the target anew. `Biggest` bounds the sizes
and deltas, and is not a constant of the code.

`MarkPoolProofs` proves, for any number of workers, any graph of objects and any
chunk size, type correctness, `NoLostWake`, `NothingForgotten`, `MarkingIsOver`
and `EachBlockOnce`. Why the collector may go on when the last worker stops takes
two parts of `MarkInv`: `ListInv`, that a chunk in the list has a running worker
that is still to look at it, and `HandInv`, that a worker which is not at work
has nothing in hand. With `ReachInv`, that every closed set with the roots in it holds what
is marked, they give `MarkingIsExact`: after the mark phase the marked objects
are the smallest such set. `MarkingRefinement` shows that each step is one of
`Marking` or a stutter. What a push or a split does to the objects of a
sequence of chunks is proved first, by lemmas that do not mention workers.

`FreeBlocksProofs` proves, for any finite set of mutators and any number of
blocks, with reclaim at once or late, type correctness, `NoLostWake`,
`OneOwner`, `ObjectsSurvive`, `QueueCounts` and `QuietDuringCollect`. `OneOwner`
rests on `LockInv`: `mOwned` is read before the lock and again with it, and
only the holder sets it. `RowsInv` ties `mZeroed` to the rows through each step
of a hand-out, also of a block that its owner has not yet written to. `QueueCounts` is
exact because it says which blocks are on their way in or out. `NullMeansNone`
holds only with reclaim at once, and then by `SkipInv`: what a scan has passed
is taken, unless it is going to be repeated. `ClaimInv` bounds `mThreadJobId`:
each of several mutators may wake the worker for work that another has since
taken, so a claim may go past the end of the list once for each of them
(`ClaimsEnd`), and no further.

`SpecialsProofs` proves type correctness, `TablesAgree`, `StillThere` and
`KeysAreFound`, for any finite set of objects, any uses and any closures.
`MarkedInv` says from which phase on each registry names only marked objects,
`HistoryInv` that no marked object has been finalized or cleared. Before all
zombies are found this has to hold of what they will keep as well, which is not
marked yet: there `HistoryInv` speaks of some closed set that holds both, which
in a mark phase that is repeated is the set that the first one marked. What is
reached is given as the smallest closed set, not as a recursion.

The assumptions are those the modules name: threads, workers and objects are
finite sets where they are counted, a name such as `NoBlock` or `None` is not one
of what it is told apart from, sizes are natural numbers, and the one zeroing
worker is number 0.

Model-checked only: all liveness (`EachWinnerCollects`, `EachPauseEnds`,
`GetsBlock`, `ConsumerGetsOn`, `CollectionsGoOn`, `WaiterGetsOn`,
`LimitedWaitReturns`, `MarkEnds`, `ReclaimEnds`, `CollectorGetsOn`), as TLAPS has
no support for fairness and `ENABLED`; the deque of Windows with one consumer,
of which the proved invariant says nothing; and the three findings, which are
violations.

## 5. What is not modelled, and the plan

In order of importance:

1. `StopTheWorld` with `AllocMoreBlocks` cut from the `GetNextFree` after it,
   to decide about the "Memory exhausted" trap.
2. `FreeBlocks` with `mMaxHoleSize` set to 0 and counted up again by a late
   reclaim, and a weaker `NullMeansNone` for that case.
3. `Holes`: `reclaim` as a function over row marks against a reference
   definition (maximal runs of unmarked rows).
4. `Threads`: hand-over of the thread record, generations of recycled slots;
   then `Debugger`: breakpoint tables and the stop and continue of threads.
5. The root registries, which threads in a free zone may change while a
   collection marks.
6. The deque of Windows with one consumer: an inductive invariant for
   `WaitsOnlyForSomething`.
7. `Hash`: insertion, removal and resizing against a map.

Out of reach or without state worth checking: moving of objects (needs object
layouts), the Cppia interpreter and its JIT, CFFI, strings, arrays and regular
expressions (sequential, covered by unit tests), wrappers of system calls and
third-party libraries, telemetry, and the build tool.

## 6. Running

    tlc -config MCStopTheWorld.cfg MCStopTheWorld
    tlapm StopTheWorldProofs.tla

and likewise for the other rows of section 3 and the other proof modules.
The longest run takes two to three minutes on two cores, the proofs of a module
between half a minute and five minutes (`FreeBlocksProofs`).
