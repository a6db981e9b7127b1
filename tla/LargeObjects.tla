---------------------------- MODULE LargeObjects ----------------------------
(***************************************************************************)
(* Large objects: src/hx/gc/Immix.cpp, GlobalAllocator::FreeLarge,         *)
(* AllocLarge and onMemoryChange, their callers InternalReleaseMem and     *)
(* InternalNew, and the part of Collect that sweeps them.                  *)
(*                                                                         *)
(* A large object has a blob of its own from the C heap, with its size in  *)
(* the first word.  Blobs the program gives back, and some that a          *)
(* collection finds dead, wait in largeObjectRecycle for a request of the  *)
(* same size.  A thread looks through that list WITHOUT mLargeListLock,    *)
(* takes the lock when it sees a match, and looks again.                   *)
(*                                                                         *)
(* Sizes are small numbers.  mLargeAllocSpace is any member of Spaces: a   *)
(* request raises it to twice its size, but only after the collection that *)
(* the request may have forced has set its target.  While the program has  *)
(* disabled the GC (sgInternalEnable), requests force no collection.       *)
(* Marking is what it finds: the blobs that threads use are marked.        *)
(***************************************************************************)
EXTENDS Integers, FiniteSets, Sequences, SequencesExt, FiniteSetsExt

CONSTANTS
  Threads,   \* the mutators
  Blobs,     \* the blobs the C heap has memory for
  Sizes,     \* the sizes of large objects
  Deltas,    \* the memory, outside the heap, reported at a time
  Spaces,    \* the values of mLargeAllocSpace
  Biggest,   \* the biggest size or delta, at most what an int can hold
  Slack,     \* what QuickVec::push adds when it grows: 10 in the code
  NoThread, NoBlob,
  MaxExternal  \* bound: memory reported and not yet given back

ASSUME LargeAssumption ==
  /\ IsFiniteSet(Threads) /\ NoThread \notin Threads /\ NoBlob \notin Blobs
  /\ IsFiniteSet(Blobs) /\ IsFiniteSet(Sizes)
  /\ Biggest \in Nat /\ Sizes \subseteq 1..Biggest /\ Deltas \subseteq 1..Biggest
  /\ Spaces \subseteq Nat
  /\ Slack \in Nat \ {0} /\ MaxExternal \in Nat

VARIABLES
  pc,          \* where each thread is
  want,        \* inSize, or inDelta, of the call the thread is in
  index,       \* i of AllocLarge's loop
  blob,        \* the blob the thread looks at, was given, or gives back
  used,        \* the blobs each thread can reach
  room,        \* the bytes the C heap gave with each blob, 0 for none
  header,      \* the size in the blob's first word, 0 for none
  largeList,   \* mLargeList
  recycle,     \* largeObjectRecycle
  capacity,    \* the slots largeObjectRecycle has without a realloc
  lock,        \* the thread with mLargeListLock
  allocated,   \* mLargeAllocated
  refresh,     \* mLargeAllocForceRefresh
  external,    \* the deltas that onMemoryChange added, in total
  sgInternalEnable,
  skipped,     \* history: a request went past the target, the GC being
               \* disabled, since a collection has set it
  gc,          \* whether a collection sweeps the large objects
  unswept,     \* the rest of mLargeList in the sweep
  remaining    \* recycleRemaining

calls == <<pc, want, index, blob>>
heap == <<room, header, largeList, recycle, capacity>>
counts == <<allocated, refresh, external>>
enabling == <<sgInternalEnable, skipped>>
sweep == <<gc, unswept, remaining>>
vars == <<calls, used, heap, lock, counts, enabling, sweep>>

\* Where a collection finds the threads: at a safe point or in a free zone
\* outside of these functions, or where they ask for one.
Stopped == {"idle", "collect", "exhausted", "collectReport"}

PCs == Stopped \union
  {"look", "compare", "lock", "alloc", "retry", "trap", "push", "free", "report"}

Here(t, from) == pc[t] = from /\ gc = "no" /\ \A u \in Threads : pc[u] # "trap"

Goto(t, from, to) == Here(t, from) /\ pc' = [pc EXCEPT ![t] = to]

\* The call returns, and its locals are gone.
Return(t, from) ==
  /\ Goto(t, from, "idle")
  /\ want' = [want EXCEPT ![t] = 0]
  /\ index' = [index EXCEPT ![t] = 1]
  /\ blob' = [blob EXCEPT ![t] = NoBlob]

\* hasExtraCapacity(1)
HasExtraCapacity == Len(recycle) < capacity

\* QuickVec::qerase: the last element takes the place of the erased one.
QErase(s, i) == Front([s EXCEPT ![i] = Last(s)])

\* The memory outside the heap once the calls under way are done.
Reported ==
  external + MapThenSumSet(LAMBDA t : want[t],
                           {t \in Threads : pc[t] \in {"report", "collectReport"}})

TypeOK ==
  /\ pc \in [Threads -> PCs]
  /\ want \in [Threads -> Int]
  /\ index \in [Threads -> Nat \ {0}]
  /\ blob \in [Threads -> Blobs \union {NoBlob}]
  /\ used \in [Threads -> SUBSET Blobs]
  /\ room \in [Blobs -> Sizes \union {0}]
  /\ header \in [Blobs -> Sizes \union {0}]
  /\ largeList \subseteq Blobs /\ unswept \subseteq largeList
  /\ recycle \in Seq(Blobs) /\ capacity \in Nat /\ Len(recycle) <= capacity
  /\ lock \in Threads \union {NoThread}
  /\ allocated \in Int /\ refresh \in Int /\ external \in Int
  /\ sgInternalEnable \in BOOLEAN /\ skipped \in BOOLEAN
  /\ gc \in {"no", "running"} /\ remaining \in Int

Init ==
  /\ pc = [t \in Threads |-> "idle"]
  /\ want = [t \in Threads |-> 0]
  /\ index = [t \in Threads |-> 1]
  /\ blob = [t \in Threads |-> NoBlob]
  /\ used = [t \in Threads |-> {}]
  /\ room = [b \in Blobs |-> 0]
  /\ header = [b \in Blobs |-> 0]
  /\ largeList = {} /\ recycle = << >> /\ capacity = 0
  /\ lock = NoThread
  /\ allocated = 0 /\ refresh \in Spaces /\ external = 0
  /\ sgInternalEnable = TRUE /\ skipped = FALSE
  /\ gc = "no" /\ unswept = {} /\ remaining = 0

-----------------------------------------------------------------------------
(* AllocLarge.                                                             *)

\* __hxcpp_enable.
InternalEnableGC(t) ==
  /\ Here(t, "idle")
  /\ sgInternalEnable' = ~sgInternalEnable
  /\ UNCHANGED <<calls, used, heap, lock, counts, skipped, sweep>>

\* n more bytes are beyond the target.
Beyond(n) == n + allocated > refresh

\* A request of n bytes has looked at the target.
Pass(n) ==
  /\ skipped' = (skipped \/ (Beyond(n) /\ ~sgInternalEnable))
  /\ UNCHANGED sgInternalEnable

\* Variant: the request does not force a collection.
AllocLargeUnchecked(t) ==
  \E s \in Sizes :
    /\ Goto(t, "idle", "look")
    /\ want' = [want EXCEPT ![t] = s]
    /\ Pass(s)
    /\ UNCHANGED <<index, blob, used, heap, lock, counts, sweep>>

\* "Should we force a collect ? - the 'large' data are not considered when
\* allocating objects from the blocks, and can 'pile up'".
AllocLarge(t) ==
  \E s \in Sizes :
    /\ Goto(t, "idle", IF Beyond(s) /\ sgInternalEnable THEN "collect" ELSE "look")
    /\ want' = [want EXCEPT ![t] = s]
    /\ Pass(s)
    /\ UNCHANGED <<index, blob, used, heap, lock, counts, sweep>>

\* The loop reads a slot of the list, with or without the lock.
Look(t) ==
  /\ Goto(t, "look", IF index[t] <= Len(recycle) THEN "compare" ELSE "alloc")
  /\ IF index[t] <= Len(recycle)
       THEN blob' = [blob EXCEPT ![t] = recycle[index[t]]] /\ UNCHANGED index
       ELSE blob' = [blob EXCEPT ![t] = NoBlob] /\ index' = [index EXCEPT ![t] = 1]
  /\ UNCHANGED <<want, used, heap, lock, counts, enabling, sweep>>

\* result = largeObjectRecycle[i]; largeObjectRecycle.qerase(i), with the lock.
TakeRecycled(t) ==
  /\ pc' = [pc EXCEPT ![t] = "push"]
  /\ blob' = [blob EXCEPT ![t] = recycle[index[t]]]
  /\ recycle' = QErase(recycle, index[t])
  /\ index' = [index EXCEPT ![t] = 1]
  /\ lock' = t

\* This slot does not match; on to the next one.
NextSlot(t) ==
  /\ pc' = [pc EXCEPT ![t] = "look"]
  /\ blob' = [blob EXCEPT ![t] = NoBlob]
  /\ index' = [index EXCEPT ![t] = @ + 1]
  /\ recycle' = recycle

\* ... and the first word of the blob.  Another thread may have taken the blob
\* since, and cleared, filled or freed it: then the word is anything.
Compare(t) ==
  /\ Here(t, "compare")
  /\ \E word \in IF blob[t] \in ToSet(recycle) THEN {header[blob[t]]} ELSE Sizes :
       IF word # want[t] THEN NextSlot(t) /\ lock' = lock
       ELSE IF lock = t THEN TakeRecycled(t)
       ELSE Goto(t, "compare", "lock") /\ UNCHANGED <<index, blob, recycle, lock>>
  /\ UNCHANGED <<want, used, room, header, largeList, capacity, counts, enabling, sweep>>

\* Variant: once it has the lock, the thread looks at the length only.
LockListTrusting(t) ==
  /\ Here(t, "lock")
  /\ lock = NoThread
  /\ IF index[t] <= Len(recycle) THEN TakeRecycled(t) ELSE NextSlot(t) /\ lock' = t
  /\ UNCHANGED <<want, used, room, header, largeList, capacity, counts, enabling, sweep>>

\* With the lock it looks at the slot again; if that is no match any more it
\* goes on with the loop and keeps the lock.
LockList(t) ==
  /\ Here(t, "lock")
  /\ lock = NoThread
  /\ IF index[t] <= Len(recycle) /\ header[recycle[index[t]]] = want[t]
       THEN TakeRecycled(t) ELSE NextSlot(t) /\ lock' = t
  /\ UNCHANGED <<want, used, room, header, largeList, capacity, counts, enabling, sweep>>

\* HxAlloc, of a blob the C heap has memory for.
HxAlloc(t, from) ==
  \E b \in Blobs :
    /\ Goto(t, from, "push")
    /\ room[b] = 0
    /\ room' = [room EXCEPT ![b] = want[t]]
    /\ blob' = [blob EXCEPT ![t] = b]
    /\ UNCHANGED <<want, index, used, header, largeList, recycle, capacity, lock, counts, enabling, sweep>>

\* "Large alloc failed - forcing collect": without the lock.
AllocFailed(t) ==
  /\ Goto(t, "alloc", "exhausted")
  /\ \A b \in Blobs : room[b] # 0
  /\ lock' = IF lock = t THEN NoThread ELSE lock
  /\ UNCHANGED <<want, index, blob, used, heap, counts, enabling, sweep>>

\* "Memory Exhausted!": DebuggerTrap ends the program.
MemoryExhausted(t) ==
  /\ Goto(t, "retry", "trap")
  /\ \A b \in Blobs : room[b] # 0
  /\ UNCHANGED <<want, index, blob, used, heap, lock, counts, enabling, sweep>>

Trapped(t) == pc[t] = "trap" /\ UNCHANGED vars

\* The size goes into the blob and the blob into mLargeList.
Push(t) ==
  /\ Return(t, "push")
  /\ lock \in {t, NoThread} /\ lock' = NoThread
  /\ header' = [header EXCEPT ![blob[t]] = want[t]]
  /\ largeList' = largeList \union {blob[t]}
  /\ used' = [used EXCEPT ![t] = @ \union {blob[t]}]
  /\ allocated' = allocated + want[t]
  /\ UNCHANGED <<room, recycle, capacity, refresh, external, enabling, sweep>>

-----------------------------------------------------------------------------
(* FreeLarge, and memory outside the heap.                                 *)

\* The thread lets go of a blob, and a collection will find it dead.
Drop(t) ==
  \E b \in used[t] :
    /\ Here(t, "idle")
    /\ used' = [used EXCEPT ![t] = @ \ {b}]
    /\ UNCHANGED <<calls, heap, lock, counts, enabling, sweep>>

\* Variant: the blob no longer counts, whether it can be recycled or not.
FreeLargeEarly(t) ==
  \E b \in used[t] :
    /\ Goto(t, "idle", IF HasExtraCapacity THEN "free" ELSE "idle")
    /\ blob' = IF HasExtraCapacity THEN [blob EXCEPT ![t] = b] ELSE blob
    /\ used' = [used EXCEPT ![t] = @ \ {b}]
    /\ allocated' = IF HasExtraCapacity THEN allocated ELSE allocated - header[b]
    /\ UNCHANGED <<want, index, heap, lock, refresh, external, enabling, sweep>>

\* "AllocLarge will not lock this list unless it decides there is a suitable
\* value, so we can't doa realloc": a full list leaves the blob to the sweep.
FreeLarge(t) ==
  \E b \in used[t] :
    /\ Goto(t, "idle", IF HasExtraCapacity THEN "free" ELSE "idle")
    /\ blob' = IF HasExtraCapacity THEN [blob EXCEPT ![t] = b] ELSE blob
    /\ used' = [used EXCEPT ![t] = @ \ {b}]
    /\ UNCHANGED <<want, index, heap, lock, counts, enabling, sweep>>

\* The list may have filled up since: then the blob goes to the C heap.
FreeLocked(t) ==
  /\ Return(t, "free")
  /\ lock = NoThread
  /\ allocated' = allocated - header[blob[t]]
  /\ largeList' = largeList \ {blob[t]}
  /\ recycle' = IF HasExtraCapacity THEN Append(recycle, blob[t]) ELSE recycle
  /\ room' = IF HasExtraCapacity THEN room ELSE [room EXCEPT ![blob[t]] = 0]
  /\ header' = IF HasExtraCapacity THEN header ELSE [header EXCEPT ![blob[t]] = 0]
  /\ UNCHANGED <<used, capacity, lock, refresh, external, enabling, sweep>>

\* onMemoryChange: memory the program has outside the heap counts as large.
OnMemoryChange(t) ==
  \E d \in Deltas : \E sign \in {1, -1} :
    /\ Reported + sign * d \in 0..MaxExternal
    /\ Goto(t, "idle", IF sign = 1 /\ Beyond(d) /\ sgInternalEnable
                         THEN "collectReport" ELSE "report")
    /\ want' = [want EXCEPT ![t] = sign * d]
    /\ IF sign = 1 THEN Pass(d) ELSE UNCHANGED enabling
    /\ UNCHANGED <<index, blob, used, heap, lock, counts, sweep>>

ReportLocked(t) ==
  /\ Return(t, "report")
  /\ lock = NoThread
  /\ allocated' = allocated + want[t]
  /\ external' = external + want[t]
  /\ UNCHANGED <<used, heap, lock, refresh, enabling, sweep>>

-----------------------------------------------------------------------------
(* The sweep of a collection, while all threads are stopped.               *)

\* "clear old frames recycle objects"
StartSweep ==
  /\ gc = "no" /\ gc' = "running"
  /\ \A t \in Threads : pc[t] \in Stopped
  /\ room' = [b \in Blobs |-> IF b \in ToSet(recycle) THEN 0 ELSE room[b]]
  /\ header' = [b \in Blobs |-> IF b \in ToSet(recycle) THEN 0 ELSE header[b]]
  /\ recycle' = << >>
  /\ unswept' = largeList
  /\ remaining' \in {0, refresh}   \* inForceCompact or not
  /\ UNCHANGED <<calls, used, largeList, capacity, lock, counts, enabling>>

\* A marked blob stays.  A generational collection may keep a dead one too.
Keep(b) ==
  /\ gc = "running" /\ b \in unswept
  /\ unswept' = unswept \ {b}
  /\ UNCHANGED <<calls, used, heap, lock, counts, enabling, gc, remaining>>

\* A dead one is recycled while there is space for it, else freed.
SweepDead(b) ==
  /\ gc = "running" /\ b \in unswept
  /\ \A t \in Threads : b \notin used[t]
  /\ unswept' = unswept \ {b}
  /\ largeList' = largeList \ {b}
  /\ allocated' = allocated - header[b]
  /\ IF header[b] < remaining
       THEN /\ recycle' = Append(recycle, b)
            /\ capacity' = IF HasExtraCapacity THEN capacity
                           ELSE Slack + (Len(recycle) * 3) \div 2
            /\ remaining' = remaining - header[b]
            /\ UNCHANGED <<room, header>>
       ELSE /\ room' = [room EXCEPT ![b] = 0] /\ header' = [header EXCEPT ![b] = 0]
            /\ UNCHANGED <<recycle, capacity, remaining>>
  /\ UNCHANGED <<calls, used, lock, refresh, external, enabling, gc>>

\* The next target, and the threads that asked for the collection go on.
EndSweep ==
  /\ gc = "running" /\ gc' = "no"
  /\ unswept = {} /\ remaining' = 0
  /\ refresh' \in {allocated + space : space \in Spaces}
  /\ skipped' = FALSE
  /\ pc' = [t \in Threads |-> CASE pc[t] = "collect" -> "look"
                                [] pc[t] = "exhausted" -> "retry"
                                [] pc[t] = "collectReport" -> "report"
                                [] OTHER -> pc[t]]
  /\ UNCHANGED <<want, index, blob, used, heap, lock, allocated, external, sgInternalEnable, unswept>>

Alloc(t) ==
  \/ AllocLarge(t) \/ Look(t) \/ Compare(t) \/ LockList(t)
  \/ HxAlloc(t, "alloc") \/ AllocFailed(t) \/ HxAlloc(t, "retry")
  \/ MemoryExhausted(t) \/ Trapped(t) \/ Push(t)

Free(t) ==
  Drop(t) \/ FreeLarge(t) \/ FreeLocked(t) \/ OnMemoryChange(t) \/ ReportLocked(t)

Next ==
  \/ \E t \in Threads : Alloc(t) \/ Free(t) \/ InternalEnableGC(t)
  \/ StartSweep \/ EndSweep
  \/ \E b \in Blobs : Keep(b) \/ SweepDead(b)

Spec == Init /\ [][Next]_vars

-----------------------------------------------------------------------------
(* What must hold.                                                         *)

InHand(t) == IF pc[t] = "push" THEN {blob[t]} ELSE {}

\* A blob that a thread uses, or is about to, is its own: no other thread has
\* it, it does not wait to be recycled and the C heap does not have it back;
\* and it has the room that was asked for.  AllocLarge looks for it unlocked.
SafeToUse ==
  /\ IsInjective(recycle)
  /\ \A t \in Threads :
       LET own == used[t] \union InHand(t) IN
       /\ \A b \in own : room[b] # 0 /\ b \notin ToSet(recycle)
       /\ \A u \in Threads \ {t} : own \intersect (used[u] \union InHand(u)) = {}
       /\ pc[t] = "push" => room[blob[t]] = want[t]

\* The bytes of a set of blobs.
Bytes(size, S) == UNION {{b} \X (1..size[b]) : b \in S}

\* mLargeAllocated is what is in mLargeList and what onMemoryChange reported:
\* AllocLarge, FreeLarge and the sweep each count a blob once.
Accounted == allocated = Cardinality(Bytes(header, largeList)) + external

\* Large memory does not pile up, unless the program has disabled the GC when
\* there was need of it: the threads that pass the look at the target together,
\* or collect and go on, are beyond it by one request each.  Once the GC is
\* enabled again, one collection is enough to bring this about.
GrowthBounded == skipped \/ allocated <= refresh + Cardinality(Threads) * Biggest
=============================================================================
