----------------------- MODULE StopTheWorldRefinement -----------------------
(***************************************************************************)
(* StopTheWorld implements WorldStop: every step of the protocol is a step *)
(* of the abstract specification under the mapping AbsInHeap, AbsCollector *)
(* and AbsCached, or leaves the three unchanged.  One lemma per action     *)
(* says what it does to each of them.                                      *)
(***************************************************************************)
EXTENDS StopTheWorldProofs

USE NamesAssumption, SizesAssumption
USE DEF Goto, LockFree, allocVars, rangeVars, globalVars, listVars, loopVars, blockVars,
        Registered, ZonePcs, LockPcs, WinnerPcs, GcPcs

-----------------------------------------------------------------------------
(* Actions: attach and detach.                                            *)

\* GetPooledAllocator is not visible in WorldStop.
LEMMA GetPooledAllocatorRefines ==
  ASSUME IInv, NEW t \in Threads, GetPooledAllocator(t)
  PROVE  [World!Next]_(World!vars)
  <1> USE DEF IInv, TypeOK, OwnersInv, LockInv, RetInv, WinnerInv, GetPooledAllocator, InHeap, HoldsRange
  <1>1. AbsInHeap' = AbsInHeap
    BY DEF AbsInHeap, RangeInv
  <1>2. AbsCollector' = AbsCollector
    BY DEF AbsCollector, RangeInv
  <1>3. AbsCached' = AbsCached
    BY DEF AbsCached, RangeInv
  <1> QED BY <1>1, <1>2, <1>3 DEF World!vars

\* AttachThread is not visible in WorldStop.
LEMMA AttachThreadRefines ==
  ASSUME IInv, NEW t \in Threads, AttachThread(t)
  PROVE  [World!Next]_(World!vars)
  <1> USE DEF IInv, TypeOK, OwnersInv, LockInv, RetInv, WinnerInv, AttachThread, InHeap, HoldsRange
  <1>1. AbsInHeap' = AbsInHeap
    BY DEF AbsInHeap
  <1>2. AbsCollector' = AbsCollector
    BY DEF AbsCollector
  <1>3. AbsCached' = AbsCached
    BY DEF AbsCached
  <1> QED BY <1>1, <1>2, <1>3 DEF World!vars

\* Release makes its thread leave the heap.
LEMMA ReleaseRefines ==
  ASSUME IInv, NEW t \in Threads, Release(t)
  PROVE  [World!Next]_(World!vars)
  <1> USE DEF IInv, TypeOK, OwnersInv, LockInv, RetInv, WinnerInv, Release, InHeap, HoldsRange
  <1>1. AbsInHeap' = AbsInHeap \ {t}
    BY DEF AbsInHeap
  <1>2. AbsCollector' = AbsCollector
    BY DEF AbsCollector
  <1>3. AbsCached' = AbsCached
    BY DEF AbsCached
  <1>4. t # AbsCollector
    BY DEF AbsCollector, AbsInHeap, AbsCached
  <1> QED BY <1>1, <1>2, <1>3, <1>4 DEF World!Next, World!Leave

\* ReleaseLocked may take a range back.
LEMMA ReleaseLockedRefines ==
  ASSUME IInv, NEW t \in Threads, ReleaseLocked(t)
  PROVE  [World!Next]_(World!vars)
  <1> USE DEF IInv, TypeOK, OwnersInv, LockInv, RetInv, WinnerInv, ReleaseLocked, ClearPooledAlloc, Delete, InHeap, HoldsRange
  <1>1. AbsInHeap' = AbsInHeap
    BY DEF AbsInHeap, RangeInv
  <1>2. AbsCollector' = AbsCollector
    BY DEF AbsCollector, RangeInv
  <1>3. AbsCached' = AbsCached \ {t}
    BY DEF AbsCached, RangeInv
  <1> QED BY <1>1, <1>2, <1>3 DEF World!Next, World!Drop

-----------------------------------------------------------------------------
(* Actions: the free zone.                                                *)

\* EnterGCFreeZone makes its thread leave the heap.
LEMMA EnterGCFreeZoneRefines ==
  ASSUME IInv, NEW t \in Threads, EnterGCFreeZone(t)
  PROVE  [World!Next]_(World!vars)
  <1> USE DEF IInv, TypeOK, OwnersInv, LockInv, RetInv, WinnerInv, EnterGCFreeZone, InHeap, HoldsRange
  <1>1. AbsInHeap' = AbsInHeap \ {t}
    BY DEF AbsInHeap
  <1>2. AbsCollector' = AbsCollector
    BY DEF AbsCollector
  <1>3. AbsCached' = AbsCached
    BY DEF AbsCached
  <1>4. t # AbsCollector
    BY DEF AbsCollector, AbsInHeap, AbsCached
  <1> QED BY <1>1, <1>2, <1>3, <1>4 DEF World!Next, World!Leave

\* EnteredGCFreeZone is not visible in WorldStop.
LEMMA EnteredGCFreeZoneRefines ==
  ASSUME IInv, NEW t \in Threads, EnteredGCFreeZone(t)
  PROVE  [World!Next]_(World!vars)
  <1> USE DEF IInv, TypeOK, OwnersInv, LockInv, RetInv, WinnerInv, EnteredGCFreeZone, InHeap, HoldsRange
  <1>1. AbsInHeap' = AbsInHeap
    BY DEF AbsInHeap
  <1>2. AbsCollector' = AbsCollector
    BY DEF AbsCollector
  <1>3. AbsCached' = AbsCached
    BY DEF AbsCached
  <1> QED BY <1>1, <1>2, <1>3 DEF World!vars

\* ExitGCFreeZone lets its thread into the heap, which no collector uses.
LEMMA ExitGCFreeZoneRefines ==
  ASSUME IInv, NEW t \in Threads, ExitGCFreeZone(t)
  PROVE  [World!Next]_(World!vars)
  <1> USE DEF IInv, TypeOK, OwnersInv, LockInv, RetInv, WinnerInv, ExitGCFreeZone, InHeap, HoldsRange
  <1>1. AbsInHeap' = AbsInHeap \cup {t}
    BY DEF AbsInHeap
  <1>2. AbsCollector' = AbsCollector
    BY DEF AbsCollector
  <1>3. AbsCached' = AbsCached
    BY DEF AbsCached
  <1>4. AbsCollector = NoThread
    BY DEF AbsCollector, AbsInHeap, AbsCached
  <1> QED BY <1>1, <1>2, <1>3, <1>4 DEF World!Next, World!Enter

-----------------------------------------------------------------------------
(* Actions: pausing.                                                      *)

\* PauseForCollect makes its thread leave the heap.
LEMMA PauseForCollectRefines ==
  ASSUME IInv, NEW t \in Threads, PauseForCollect(t)
  PROVE  [World!Next]_(World!vars)
  <1> USE DEF IInv, TypeOK, OwnersInv, LockInv, RetInv, WinnerInv, PauseForCollect, InHeap, HoldsRange
  <1>1. AbsInHeap' = AbsInHeap \ {t}
    BY DEF AbsInHeap
  <1>2. AbsCollector' = AbsCollector
    BY DEF AbsCollector
  <1>3. AbsCached' = AbsCached
    BY DEF AbsCached
  <1>4. t # AbsCollector
    BY DEF AbsCollector, AbsInHeap, AbsCached
  <1> QED BY <1>1, <1>2, <1>3, <1>4 DEF World!Next, World!Leave

\* Resumed lets its thread into the heap, which no collector uses.
LEMMA ResumedRefines ==
  ASSUME IInv, NEW t \in Threads, Resumed(t)
  PROVE  [World!Next]_(World!vars)
  <1> USE DEF IInv, TypeOK, OwnersInv, LockInv, RetInv, WinnerInv, Resumed, InHeap, HoldsRange
  <1>1. AbsInHeap' = AbsInHeap \cup {t}
    BY DEF AbsInHeap, SafeInv, Safe
  <1>2. AbsCollector' = AbsCollector
    BY DEF AbsCollector, SafeInv, Safe
  <1>3. AbsCached' = AbsCached
    BY DEF AbsCached, SafeInv, Safe
  <1>4. AbsCollector = NoThread
    BY DEF AbsCollector, AbsInHeap, AbsCached, SafeInv, Safe
  <1> QED BY <1>1, <1>2, <1>3, <1>4 DEF World!Next, World!Enter

\* SafePoint is not visible in WorldStop.
LEMMA SafePointRefines ==
  ASSUME IInv, NEW t \in Threads, SafePoint(t)
  PROVE  [World!Next]_(World!vars)
  <1> USE DEF IInv, TypeOK, OwnersInv, LockInv, RetInv, WinnerInv, SafePoint, InHeap, HoldsRange
  <1>1. AbsInHeap' = AbsInHeap
    BY DEF AbsInHeap
  <1>2. AbsCollector' = AbsCollector
    BY DEF AbsCollector
  <1>3. AbsCached' = AbsCached
    BY DEF AbsCached
  <1> QED BY <1>1, <1>2, <1>3 DEF World!vars

-----------------------------------------------------------------------------
(* Actions: allocating.                                                   *)

\* BumpAlloc may take a range back.
LEMMA BumpAllocRefines ==
  ASSUME IInv, NEW t \in Threads, BumpAlloc(t)
  PROVE  [World!Next]_(World!vars)
  <1> USE DEF IInv, TypeOK, OwnersInv, LockInv, RetInv, WinnerInv, BumpAlloc, InHeap, HoldsRange
  <1>1. AbsInHeap' = AbsInHeap
    BY DEF AbsInHeap
  <1>2. AbsCollector' = AbsCollector
    BY DEF AbsCollector
  <1>3. AbsCached' \in {AbsCached, AbsCached \ {t}}
    <2>1. \A s \in Threads : s # t => (HoldsRange(s)' <=> HoldsRange(s))
      OBVIOUS
    <2>2. HoldsRange(t)
      OBVIOUS
    <2> QED BY <2>1, <2>2 DEF AbsCached
  <1> QED BY <1>1, <1>2, <1>3 DEF World!Next, World!Drop, World!vars

\* CallAlloc is not visible in WorldStop.
LEMMA CallAllocRefines ==
  ASSUME IInv, NEW t \in Threads, CallAlloc(t)
  PROVE  [World!Next]_(World!vars)
  <1> USE DEF IInv, TypeOK, OwnersInv, LockInv, RetInv, WinnerInv, CallAlloc, InHeap, HoldsRange
  <1>1. AbsInHeap' = AbsInHeap
    BY DEF AbsInHeap
  <1>2. AbsCollector' = AbsCollector
    BY DEF AbsCollector
  <1>3. AbsCached' = AbsCached
    BY DEF AbsCached
  <1> QED BY <1>1, <1>2, <1>3 DEF World!vars

\* AllocFits is not visible in WorldStop.
LEMMA AllocFitsRefines ==
  ASSUME IInv, NEW t \in Threads, AllocFits(t)
  PROVE  [World!Next]_(World!vars)
  <1> USE DEF IInv, TypeOK, OwnersInv, LockInv, RetInv, WinnerInv, AllocFits, InHeap, HoldsRange
  <1>1. AbsInHeap' = AbsInHeap
    BY DEF AbsInHeap
  <1>2. AbsCollector' = AbsCollector
    BY DEF AbsCollector
  <1>3. AbsCached' = AbsCached
    BY DEF AbsCached
  <1> QED BY <1>1, <1>2, <1>3 DEF World!vars

\* MoreHoles is not visible in WorldStop.
LEMMA MoreHolesRefines ==
  ASSUME IInv, NEW t \in Threads, MoreHoles(t)
  PROVE  [World!Next]_(World!vars)
  <1> USE DEF IInv, TypeOK, OwnersInv, LockInv, RetInv, WinnerInv, MoreHoles, InHeap, HoldsRange
  <1>1. AbsInHeap' = AbsInHeap
    BY DEF AbsInHeap
  <1>2. AbsCollector' = AbsCollector
    BY DEF AbsCollector
  <1>3. AbsCached' = AbsCached
    BY DEF AbsCached
  <1> QED BY <1>1, <1>2, <1>3 DEF World!vars

\* NextHole gives its thread a range, while nobody collects.
LEMMA NextHoleRefines ==
  ASSUME IInv, NEW t \in Threads, NextHole(t)
  PROVE  [World!Next]_(World!vars)
  <1> USE DEF IInv, TypeOK, OwnersInv, LockInv, RetInv, WinnerInv, NextHole, InHeap, HoldsRange
  <1>1. AbsInHeap' = AbsInHeap
    BY DEF AbsInHeap, SafeInv, Safe
  <1>2. AbsCollector' = AbsCollector
    BY DEF AbsCollector, SafeInv, Safe
  <1>3. AbsCached' = AbsCached \cup {t}
    BY DEF AbsCached, SafeInv, Safe
  <1>4. AbsCollector = NoThread /\ t \in AbsInHeap
    BY DEF AbsCollector, AbsInHeap, AbsCached, SafeInv, Safe
  <1> QED BY <1>1, <1>2, <1>3, <1>4 DEF World!Next, World!Refill

\* NoMoreHoles is not visible in WorldStop.
LEMMA NoMoreHolesRefines ==
  ASSUME IInv, NEW t \in Threads, NoMoreHoles(t)
  PROVE  [World!Next]_(World!vars)
  <1> USE DEF IInv, TypeOK, OwnersInv, LockInv, RetInv, WinnerInv, NoMoreHoles, InHeap, HoldsRange
  <1>1. AbsInHeap' = AbsInHeap
    BY DEF AbsInHeap
  <1>2. AbsCollector' = AbsCollector
    BY DEF AbsCollector
  <1>3. AbsCached' = AbsCached
    BY DEF AbsCached
  <1> QED BY <1>1, <1>2, <1>3 DEF World!vars

\* GetFreeBlock gives its thread a range, while nobody collects.
LEMMA GetFreeBlockRefines ==
  ASSUME IInv, NEW t \in Threads, GetFreeBlock(t)
  PROVE  [World!Next]_(World!vars)
  <1> USE DEF IInv, TypeOK, OwnersInv, LockInv, RetInv, WinnerInv, GetFreeBlock, Install, InHeap, HoldsRange
  <1>1. AbsInHeap' = AbsInHeap
    BY DEF AbsInHeap, SafeInv, Safe
  <1>2. AbsCollector' = AbsCollector
    BY DEF AbsCollector, SafeInv, Safe
  <1>3. AbsCached' = AbsCached \cup {t}
    BY DEF AbsCached, SafeInv, Safe
  <1>4. AbsCollector = NoThread /\ t \in AbsInHeap
    BY DEF AbsCollector, AbsInHeap, AbsCached, SafeInv, Safe
  <1> QED BY <1>1, <1>2, <1>3, <1>4 DEF World!Next, World!Refill

\* NoFreeBlock is not visible in WorldStop.
LEMMA NoFreeBlockRefines ==
  ASSUME IInv, NEW t \in Threads, NoFreeBlock(t)
  PROVE  [World!Next]_(World!vars)
  <1> USE DEF IInv, TypeOK, OwnersInv, LockInv, RetInv, WinnerInv, NoFreeBlock, InHeap, HoldsRange
  <1>1. AbsInHeap' = AbsInHeap
    BY DEF AbsInHeap
  <1>2. AbsCollector' = AbsCollector
    BY DEF AbsCollector
  <1>3. AbsCached' = AbsCached
    BY DEF AbsCached
  <1> QED BY <1>1, <1>2, <1>3 DEF World!vars

\* PauseOrLock is not visible in WorldStop.
LEMMA PauseOrLockRefines ==
  ASSUME IInv, NEW t \in Threads, PauseOrLock(t)
  PROVE  [World!Next]_(World!vars)
  <1> USE DEF IInv, TypeOK, OwnersInv, LockInv, RetInv, WinnerInv, PauseOrLock, InHeap, HoldsRange
  <1>1. AbsInHeap' = AbsInHeap
    BY DEF AbsInHeap
  <1>2. AbsCollector' = AbsCollector
    BY DEF AbsCollector
  <1>3. AbsCached' = AbsCached
    BY DEF AbsCached
  <1> QED BY <1>1, <1>2, <1>3 DEF World!vars

\* EnterForLock makes its thread leave the heap.
LEMMA EnterForLockRefines ==
  ASSUME IInv, NEW t \in Threads, EnterForLock(t)
  PROVE  [World!Next]_(World!vars)
  <1> USE DEF IInv, TypeOK, OwnersInv, LockInv, RetInv, WinnerInv, EnterForLock, InHeap, HoldsRange
  <1>1. AbsInHeap' = AbsInHeap \ {t}
    BY DEF AbsInHeap
  <1>2. AbsCollector' = AbsCollector
    BY DEF AbsCollector
  <1>3. AbsCached' = AbsCached
    BY DEF AbsCached
  <1>4. t # AbsCollector
    BY DEF AbsCollector, AbsInHeap, AbsCached
  <1> QED BY <1>1, <1>2, <1>3, <1>4 DEF World!Next, World!Leave

\* ExitGCFreeZoneLocked lets its thread into the heap, which no collector uses.
LEMMA ExitGCFreeZoneLockedRefines ==
  ASSUME IInv, NEW t \in Threads, ExitGCFreeZoneLocked(t)
  PROVE  [World!Next]_(World!vars)
  <1> USE DEF IInv, TypeOK, OwnersInv, LockInv, RetInv, WinnerInv, ExitGCFreeZoneLocked, InHeap, HoldsRange
  <1>1. AbsInHeap' = AbsInHeap \cup {t}
    BY DEF AbsInHeap
  <1>2. AbsCollector' = AbsCollector
    BY DEF AbsCollector
  <1>3. AbsCached' = AbsCached
    BY DEF AbsCached
  <1>4. AbsCollector = NoThread
    BY DEF AbsCollector, AbsInHeap, AbsCached
  <1> QED BY <1>1, <1>2, <1>3, <1>4 DEF World!Next, World!Enter

\* LockedBlock gives its thread a range, while nobody collects.
LEMMA LockedBlockRefines ==
  ASSUME IInv, NEW t \in Threads, LockedBlock(t)
  PROVE  [World!Next]_(World!vars)
  <1> USE DEF IInv, TypeOK, OwnersInv, LockInv, RetInv, WinnerInv, LockedBlock, Install, InHeap, HoldsRange
  <1>1. AbsInHeap' = AbsInHeap
    BY DEF AbsInHeap
  <1>2. AbsCollector' = AbsCollector
    BY DEF AbsCollector
  <1>3. AbsCached' = AbsCached \cup {t}
    BY DEF AbsCached
  <1>4. AbsCollector = NoThread /\ t \in AbsInHeap
    BY DEF AbsCollector, AbsInHeap, AbsCached
  <1> QED BY <1>1, <1>2, <1>3, <1>4 DEF World!Next, World!Refill

\* MoreBlocks gives its thread a range, while nobody collects.
LEMMA MoreBlocksRefines ==
  ASSUME IInv, NEW t \in Threads, MoreBlocks(t)
  PROVE  [World!Next]_(World!vars)
  <1> USE DEF IInv, TypeOK, OwnersInv, LockInv, RetInv, WinnerInv, MoreBlocks, Install, InHeap, HoldsRange
  <1>1. AbsInHeap' = AbsInHeap
    BY DEF AbsInHeap
  <1>2. AbsCollector' = AbsCollector
    BY DEF AbsCollector
  <1>3. AbsCached' = AbsCached \cup {t}
    BY DEF AbsCached
  <1>4. AbsCollector = NoThread /\ t \in AbsInHeap
    BY DEF AbsCollector, AbsInHeap, AbsCached
  <1> QED BY <1>1, <1>2, <1>3, <1>4 DEF World!Next, World!Refill

\* LockedCollect is not visible in WorldStop.
LEMMA LockedCollectRefines ==
  ASSUME IInv, NEW t \in Threads, LockedCollect(t)
  PROVE  [World!Next]_(World!vars)
  <1> USE DEF IInv, TypeOK, OwnersInv, LockInv, RetInv, WinnerInv, LockedCollect, InHeap, HoldsRange
  <1>1. AbsInHeap' = AbsInHeap
    BY DEF AbsInHeap
  <1>2. AbsCollector' = AbsCollector
    BY DEF AbsCollector
  <1>3. AbsCached' = AbsCached
    BY DEF AbsCached
  <1> QED BY <1>1, <1>2, <1>3 DEF World!vars

\* Recheck may take a range back.
LEMMA RecheckRefines ==
  ASSUME IInv, NEW t \in Threads, Recheck(t)
  PROVE  [World!Next]_(World!vars)
  <1> USE DEF IInv, TypeOK, OwnersInv, LockInv, RetInv, WinnerInv, Recheck, InHeap, HoldsRange
  <1>1. AbsInHeap' = AbsInHeap
    BY DEF AbsInHeap
  <1>2. AbsCollector' = AbsCollector
    BY DEF AbsCollector
  <1>3. AbsCached' \in {AbsCached, AbsCached \ {t}}
    <2>1. \A s \in Threads : s # t => (HoldsRange(s)' <=> HoldsRange(s))
      OBVIOUS
    <2>2. CASE gPauseForCollect
      <3>1. ~HoldsRange(t)'
        BY <2>2
      <3> QED BY <2>1, <3>1 DEF AbsCached
    <2>3. CASE ~gPauseForCollect
      <3>1. HoldsRange(t)' <=> HoldsRange(t)
        BY <2>3
      <3> QED BY <2>1, <3>1 DEF AbsCached
    <2> QED BY <2>2, <2>3
  <1> QED BY <1>1, <1>2, <1>3 DEF World!Next, World!Drop, World!vars

-----------------------------------------------------------------------------
(* Actions: collecting.                                                   *)

\* CollectFromThisThread is not visible in WorldStop.
LEMMA CollectFromThisThreadRefines ==
  ASSUME IInv, NEW t \in Threads, CollectFromThisThread(t)
  PROVE  [World!Next]_(World!vars)
  <1> USE DEF IInv, TypeOK, OwnersInv, LockInv, RetInv, WinnerInv, CollectFromThisThread, InHeap, HoldsRange
  <1>1. AbsInHeap' = AbsInHeap
    BY DEF AbsInHeap
  <1>2. AbsCollector' = AbsCollector
    BY DEF AbsCollector
  <1>3. AbsCached' = AbsCached
    BY DEF AbsCached
  <1> QED BY <1>1, <1>2, <1>3 DEF World!vars

\* CollectWins is not visible in WorldStop.
LEMMA CollectWinsRefines ==
  ASSUME IInv, NEW t \in Threads, CollectWins(t)
  PROVE  [World!Next]_(World!vars)
  <1> USE DEF IInv, TypeOK, OwnersInv, LockInv, RetInv, WinnerInv, CollectWins, InHeap, HoldsRange
  <1>1. AbsInHeap' = AbsInHeap
    BY DEF AbsInHeap
  <1>2. AbsCollector' = AbsCollector
    BY DEF AbsCollector
  <1>3. AbsCached' = AbsCached
    BY DEF AbsCached
  <1> QED BY <1>1, <1>2, <1>3 DEF World!vars

\* CollectLoses is not visible in WorldStop.
LEMMA CollectLosesRefines ==
  ASSUME IInv, NEW t \in Threads, CollectLoses(t)
  PROVE  [World!Next]_(World!vars)
  <1> USE DEF IInv, TypeOK, OwnersInv, LockInv, RetInv, WinnerInv, CollectLoses, InHeap, HoldsRange
  <1>1. AbsInHeap' = AbsInHeap
    BY DEF AbsInHeap
  <1>2. AbsCollector' = AbsCollector
    BY DEF AbsCollector
  <1>3. AbsCached' = AbsCached
    BY DEF AbsCached
  <1> QED BY <1>1, <1>2, <1>3 DEF World!vars

\* CollectLock is not visible in WorldStop.
LEMMA CollectLockRefines ==
  ASSUME IInv, NEW t \in Threads, CollectLock(t)
  PROVE  [World!Next]_(World!vars)
  <1> USE DEF IInv, TypeOK, OwnersInv, LockInv, RetInv, WinnerInv, CollectLock, InHeap, HoldsRange
  <1>1. AbsInHeap' = AbsInHeap
    BY DEF AbsInHeap
  <1>2. AbsCollector' = AbsCollector
    BY DEF AbsCollector
  <1>3. AbsCached' = AbsCached
    BY DEF AbsCached
  <1> QED BY <1>1, <1>2, <1>3 DEF World!vars

\* WaitForSafe may take a range back.
LEMMA WaitForSafeRefines ==
  ASSUME IInv, NEW t \in Threads, WaitForSafe(t)
  PROVE  [World!Next]_(World!vars)
  <1> USE DEF IInv, TypeOK, OwnersInv, LockInv, RetInv, WinnerInv, WaitForSafe, InHeap, HoldsRange
  <1>1. AbsInHeap' = AbsInHeap
    BY DEF AbsInHeap
  <1>2. AbsCollector' = AbsCollector
    BY DEF AbsCollector
  <1>3. AbsCached' = AbsCached \/ \E s \in Threads : AbsCached' = AbsCached \ {s}
    <2>1. PICK a \in pending : WaitForSafe(t)!2!(a)
      OBVIOUS
    <2>2. CASE mGCFreeZone[a]
      BY <2>1, <2>2 DEF AbsCached
    <2>3. CASE ~mGCFreeZone[a]
      <3>1. PICK s \in Threads : tls[s] = a
        BY <2>1 DEF PendingInv
      <3>2. ~HoldsRange(s)'
        BY <2>1, <2>3, <3>1
      <3>3. \A r \in Threads : r # s => (HoldsRange(r)' <=> HoldsRange(r))
        BY <2>1, <2>3, <3>1
      <3> QED BY <3>2, <3>3 DEF AbsCached
    <2> QED BY <2>2, <2>3
  <1> QED BY <1>1, <1>2, <1>3 DEF World!Next, World!Drop, World!vars

\* IsReady is not visible in WorldStop.
LEMMA IsReadyRefines ==
  ASSUME IInv, NEW t \in Threads, IsReady(t)
  PROVE  [World!Next]_(World!vars)
  <1> USE DEF IInv, TypeOK, OwnersInv, LockInv, RetInv, WinnerInv, IsReady, InHeap, HoldsRange
  <1>1. AbsInHeap' = AbsInHeap
    BY DEF AbsInHeap
  <1>2. AbsCollector' = AbsCollector
    BY DEF AbsCollector
  <1>3. AbsCached' = AbsCached
    BY DEF AbsCached
  <1> QED BY <1>1, <1>2, <1>3 DEF World!vars

\* StartCollecting starts a collection with the collector alone in the heap.
LEMMA StartCollectingRefines ==
  ASSUME IInv, NEW t \in Threads, StartCollecting(t)
  PROVE  [World!Next]_(World!vars)
  <1> USE DEF IInv, TypeOK, OwnersInv, LockInv, RetInv, WinnerInv, StartCollecting, InHeap, HoldsRange
  <1>1. AbsInHeap' = AbsInHeap
    BY DEF AbsInHeap, SafeInv, Safe, PendingInv
  <1>2. AbsCollector' = t
    BY DEF AbsCollector, SafeInv, Safe, PendingInv
  <1>3. AbsCached' = AbsCached
    BY DEF AbsCached, SafeInv, Safe, PendingInv
  <1>4. AbsCollector = NoThread /\ AbsInHeap = {t}
    BY DEF AbsCollector, AbsInHeap, AbsCached, SafeInv, Safe, PendingInv
  <1> QED BY <1>1, <1>2, <1>3, <1>4 DEF World!Next, World!Begin

\* FinalizerEnters is not visible in WorldStop.
LEMMA FinalizerEntersRefines ==
  ASSUME IInv, NEW t \in Threads, FinalizerEnters(t)
  PROVE  [World!Next]_(World!vars)
  <1> USE DEF IInv, TypeOK, OwnersInv, LockInv, RetInv, WinnerInv, FinalizerEnters, InHeap, HoldsRange
  <1>1. AbsInHeap' = AbsInHeap
    BY DEF AbsInHeap
  <1>2. AbsCollector' = AbsCollector
    BY DEF AbsCollector
  <1>3. AbsCached' = AbsCached
    BY DEF AbsCached
  <1> QED BY <1>1, <1>2, <1>3 DEF World!vars

\* FinalizerExits is not visible in WorldStop.
LEMMA FinalizerExitsRefines ==
  ASSUME IInv, NEW t \in Threads, FinalizerExits(t)
  PROVE  [World!Next]_(World!vars)
  <1> USE DEF IInv, TypeOK, OwnersInv, LockInv, RetInv, WinnerInv, FinalizerExits, InHeap, HoldsRange
  <1>1. AbsInHeap' = AbsInHeap
    BY DEF AbsInHeap
  <1>2. AbsCollector' = AbsCollector
    BY DEF AbsCollector
  <1>3. AbsCached' = AbsCached
    BY DEF AbsCached
  <1> QED BY <1>1, <1>2, <1>3 DEF World!vars

\* Reclaim takes every range back.
LEMMA ReclaimRefines ==
  ASSUME IInv, NEW t \in Threads, Reclaim(t)
  PROVE  [World!Next]_(World!vars)
  <1> USE DEF IInv, TypeOK, OwnersInv, LockInv, RetInv, WinnerInv, Reclaim, ResetByCollect, InHeap, HoldsRange
  <1>1. AbsInHeap' = AbsInHeap
    BY DEF AbsInHeap, RangeInv
  <1>2. AbsCollector' = AbsCollector
    BY DEF AbsCollector, RangeInv
  <1>3. AbsCached' = {}
    <2>1. \A a \in Allocs : ~space'[a] /\ holes'[a] = 0
      BY DEF RangeInv
    <2> QED BY <2>1 DEF AbsCached
  <1> QED BY <1>1, <1>2, <1>3 DEF World!Next, World!DropAll

\* StopCollecting ends one when no range is left.
LEMMA StopCollectingRefines ==
  ASSUME IInv, NEW t \in Threads, StopCollecting(t)
  PROVE  [World!Next]_(World!vars)
  <1> USE DEF IInv, TypeOK, OwnersInv, LockInv, RetInv, WinnerInv, StopCollecting, InHeap, HoldsRange
  <1>1. AbsInHeap' = AbsInHeap
    BY DEF AbsInHeap, RangeInv
  <1>2. AbsCollector' = NoThread
    BY DEF AbsCollector, RangeInv
  <1>3. AbsCached' = AbsCached
    BY DEF AbsCached, RangeInv
  <1>4. AbsCollector # NoThread /\ AbsCached = {}
    BY DEF AbsCollector, AbsInHeap, AbsCached, RangeInv
  <1> QED BY <1>1, <1>2, <1>3, <1>4 DEF World!Next, World!End

\* ClearPause is not visible in WorldStop.
LEMMA ClearPauseRefines ==
  ASSUME IInv, NEW t \in Threads, ClearPause(t)
  PROVE  [World!Next]_(World!vars)
  <1> USE DEF IInv, TypeOK, OwnersInv, LockInv, RetInv, WinnerInv, ClearPause, InHeap, HoldsRange
  <1>1. AbsInHeap' = AbsInHeap
    BY DEF AbsInHeap
  <1>2. AbsCollector' = AbsCollector
    BY DEF AbsCollector
  <1>3. AbsCached' = AbsCached
    BY DEF AbsCached
  <1> QED BY <1>1, <1>2, <1>3 DEF World!vars

\* ReleaseFromSafe is not visible in WorldStop.
LEMMA ReleaseFromSafeRefines ==
  ASSUME IInv, NEW t \in Threads, ReleaseFromSafe(t)
  PROVE  [World!Next]_(World!vars)
  <1> USE DEF IInv, TypeOK, OwnersInv, LockInv, RetInv, WinnerInv, ReleaseFromSafe, InHeap, HoldsRange
  <1>1. AbsInHeap' = AbsInHeap
    BY DEF AbsInHeap
  <1>2. AbsCollector' = AbsCollector
    BY DEF AbsCollector
  <1>3. AbsCached' = AbsCached
    BY DEF AbsCached
  <1> QED BY <1>1, <1>2, <1>3 DEF World!vars

\* CollectReturns is not visible in WorldStop.
LEMMA CollectReturnsRefines ==
  ASSUME IInv, NEW t \in Threads, CollectReturns(t)
  PROVE  [World!Next]_(World!vars)
  <1> USE DEF IInv, TypeOK, OwnersInv, LockInv, RetInv, WinnerInv, CollectReturns, InHeap, HoldsRange
  <1>1. AbsInHeap' = AbsInHeap
    BY DEF AbsInHeap
  <1>2. AbsCollector' = AbsCollector
    BY DEF AbsCollector
  <1>3. AbsCached' = AbsCached
    BY DEF AbsCached
  <1> QED BY <1>1, <1>2, <1>3 DEF World!vars

-----------------------------------------------------------------------------
\* Before any thread has attached, nobody is in the heap.
LEMMA InitRefines == Init => World!Init
  BY DEF Init, World!Init, AbsInHeap, AbsCollector, AbsCached, InHeap, HoldsRange

\* A step that changes nothing.
LEMMA StutterRefines == UNCHANGED vars => UNCHANGED World!vars
  BY DEF vars, World!vars, AbsInHeap, AbsCollector, AbsCached, InHeap, HoldsRange

\* Every step of the protocol is a step of WorldStop or a stutter.
LEMMA NextRefines == IInv /\ [Next]_vars => [World!Next]_(World!vars)
  <1> SUFFICES ASSUME IInv, [Next]_vars PROVE [World!Next]_(World!vars)
    OBVIOUS
  <1>1. CASE UNCHANGED vars
    BY <1>1, StutterRefines
  <1>2. ASSUME NEW t \in Threads, Attachment(t) PROVE [World!Next]_(World!vars)
    BY <1>2,
       GetPooledAllocatorRefines, AttachThreadRefines, ReleaseRefines,
       ReleaseLockedRefines DEF Attachment
  <1>3. ASSUME NEW t \in Threads, FreeZone(t) PROVE [World!Next]_(World!vars)
    BY <1>3,
       EnterGCFreeZoneRefines, EnteredGCFreeZoneRefines, ExitGCFreeZoneRefines DEF FreeZone
  <1>4. ASSUME NEW t \in Threads, Pausing(t) PROVE [World!Next]_(World!vars)
    BY <1>4,
       PauseForCollectRefines, ResumedRefines, SafePointRefines DEF Pausing
  <1>5. ASSUME NEW t \in Threads, Allocation(t) PROVE [World!Next]_(World!vars)
    BY <1>5,
       BumpAllocRefines, CallAllocRefines, AllocFitsRefines, MoreHolesRefines,
       NextHoleRefines,
       NoMoreHolesRefines, GetFreeBlockRefines, NoFreeBlockRefines,
       PauseOrLockRefines, EnterForLockRefines, ExitGCFreeZoneLockedRefines,
       LockedBlockRefines, MoreBlocksRefines, LockedCollectRefines, RecheckRefines DEF Allocation
  <1>6. ASSUME NEW t \in Threads, Collection(t) PROVE [World!Next]_(World!vars)
    BY <1>6,
       CollectFromThisThreadRefines, CollectWinsRefines, CollectLosesRefines,
       CollectLockRefines, WaitForSafeRefines, IsReadyRefines,
       StartCollectingRefines, FinalizerEntersRefines, FinalizerExitsRefines,
       ReclaimRefines, StopCollectingRefines, ClearPauseRefines,
       ReleaseFromSafeRefines, CollectReturnsRefines DEF Collection
  <1> QED BY <1>1, <1>2, <1>3, <1>4, <1>5, <1>6 DEF Next

\* The protocol implements the promise: no thread uses GC pointers, and none
\* is given rows, while another thread's collection is under way.
THEOREM Refinement == Spec => ImplementsWorldStop
  BY InitRefines, NextRefines, Invariance, PTL DEF Spec, ImplementsWorldStop, World!Spec

\* Whatever implements the promise has what it is for: types are kept, and
\* the collector is alone in the heap.
LEMMA PromiseStep ==
  ASSUME World!TypeOK, World!CollectAlone, [World!Next]_(World!vars)
  PROVE  World!TypeOK' /\ World!CollectAlone'
  <1> USE DEF World!TypeOK, World!CollectAlone
  <1>1. ASSUME NEW t \in Threads, World!Enter(t) PROVE World!TypeOK' /\ World!CollectAlone'
    BY <1>1 DEF World!Enter
  <1>2. ASSUME NEW t \in Threads, World!Leave(t) PROVE World!TypeOK' /\ World!CollectAlone'
    BY <1>2 DEF World!Leave
  <1>3. ASSUME NEW t \in Threads, World!Refill(t) \/ World!Drop(t)
        PROVE  World!TypeOK' /\ World!CollectAlone'
    BY <1>3 DEF World!Refill, World!Drop
  <1>4. ASSUME NEW t \in Threads, World!Begin(t) PROVE World!TypeOK' /\ World!CollectAlone'
    BY <1>4 DEF World!Begin
  <1>5. CASE World!DropAll
    BY <1>5 DEF World!DropAll
  <1>6. CASE World!End
    BY <1>6 DEF World!End
  <1>7. CASE UNCHANGED World!vars
    BY <1>7 DEF World!vars
  <1> QED BY <1>1, <1>2, <1>3, <1>4, <1>5, <1>6, <1>7 DEF World!Next

\* In the protocol, as in WorldStop, the heap of a collection under way is
\* used by its collector and by nobody else (Collect and WaitForSafe).
THEOREM CollectorIsAlone == Spec => [](World!TypeOK /\ World!CollectAlone)
  <1>1. World!Init => World!TypeOK /\ World!CollectAlone
    BY DEF World!Init, World!TypeOK, World!CollectAlone
  <1> QED BY <1>1, PromiseStep, Refinement, PTL DEF ImplementsWorldStop, World!Spec
=============================================================================
