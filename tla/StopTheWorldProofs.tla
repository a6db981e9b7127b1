------------------------- MODULE StopTheWorldProofs -------------------------
(***************************************************************************)
(* The safety properties of StopTheWorld, for any number of threads and    *)
(* allocators and any size of the pool.                                    *)
(*                                                                         *)
(* The inductive invariant is IInv.  Its heart is SafeInv: a thread that   *)
(* the collector no longer waits for is in the free zone, which it cannot  *)
(* leave without the lock, or blocked on a mCollectDone that is clear; the *)
(* other parts say who owns an allocator (OwnersInv), who holds the lock   *)
(* (LockInv), that one thread at most collects (WinnerInv), that the flags *)
(* and semaphores mean what they should (ZoneInv, ReadyInv, DoneInv), and  *)
(* which ranges can be left (RangeInv).  One lemma per action follows,     *)
(* with one step per part.                                                 *)
(***************************************************************************)
EXTENDS StopTheWorld, TLAPS

USE NamesAssumption, SizesAssumption
USE DEF Goto, LockFree, allocVars, rangeVars, globalVars, listVars, loopVars, blockVars,
        Registered, ZonePcs, LockPcs, WinnerPcs, GcPcs

\* The invariant holds before any thread has attached.
LEMMA InitInv == Init => IInv
  <1> SUFFICES ASSUME Init PROVE IInv
    OBVIOUS
  <1> USE DEF Init
  <1>1. TypeOK /\ NoStaleRange
    <2>1. 0 \in 0..MaxHoles /\ 0 \in 0..2
      OBVIOUS
    <2> QED BY <2>1 DEF TypeOK, PCs, Returns, NoStaleRange
  <1>2. OwnersInv /\ RetInv /\ RangeInv
    BY DEF OwnersInv, RetInv, RangeInv
  <1>3. LockInv /\ WinnerInv /\ ZoneInv /\ ReadyInv
    BY DEF LockInv, WinnerInv, ZoneInv, ReadyInv
  <1>4. DoneInv /\ SafeInv /\ PendingInv /\ WaitingInv /\ PauseInv
    BY DEF DoneInv, SafeInv, PendingInv, WaitingInv, PauseInv, PausedHasReleaser
  <1> QED BY <1>1, <1>2, <1>3, <1>4 DEF IInv

-----------------------------------------------------------------------------
(* Actions: attach and detach.                                            *)

\* GetPooledAllocator keeps the invariant.
LEMMA GetPooledAllocatorInv ==
  ASSUME IInv, NEW t \in Threads, GetPooledAllocator(t)
  PROVE  IInv'
  <1> USE DEF IInv, TypeOK, GetPooledAllocator
  <1>1. TypeOK' BY DEF PCs, Returns
  <1>2. OwnersInv' BY DEF OwnersInv
  <1>3. RetInv' /\ LockInv' BY DEF RetInv, LockInv
  <1>4. WinnerInv' BY DEF WinnerInv, LockInv
  <1>5. ZoneInv' /\ ReadyInv' BY DEF ZoneInv, OwnersInv, ReadyInv
  <1>6. DoneInv' BY DEF DoneInv, OwnersInv
  <1>7. SafeInv' BY DEF SafeInv, Safe, OwnersInv, LockInv, WinnerInv
  <1>8. PendingInv' /\ WaitingInv' BY DEF PendingInv, OwnersInv, LockInv, WinnerInv, WaitingInv
  <1>9. PauseInv' BY DEF PauseInv, PausedHasReleaser, OwnersInv
  <1>10. RangeInv' /\ NoStaleRange' BY DEF RangeInv, OwnersInv, NoStaleRange
  <1> QED BY <1>1, <1>2, <1>3, <1>4, <1>5, <1>6, <1>7, <1>8, <1>9, <1>10

\* AttachThread keeps the invariant.
LEMMA AttachThreadInv ==
  ASSUME IInv, NEW t \in Threads, AttachThread(t)
  PROVE  IInv'
  <1> USE DEF IInv, TypeOK, AttachThread
  <1>1. TypeOK' BY DEF PCs, Returns, OwnersInv
  <1>2. OwnersInv' BY DEF OwnersInv
  <1>3. RetInv' /\ LockInv' BY DEF RetInv, LockInv
  <1>4. WinnerInv' BY DEF WinnerInv, LockInv
  <1>5. ZoneInv' /\ ReadyInv' BY DEF ZoneInv, OwnersInv, ReadyInv
  <1>6. DoneInv' BY DEF DoneInv, OwnersInv
  <1>7. SafeInv' BY DEF SafeInv, Safe, OwnersInv, LockInv, WinnerInv
  <1>8. PendingInv' /\ WaitingInv' BY DEF PendingInv, OwnersInv, LockInv, WinnerInv, WaitingInv
  <1>9. PauseInv' BY DEF PauseInv, PausedHasReleaser, OwnersInv
  <1>10. RangeInv' /\ NoStaleRange' BY DEF RangeInv, OwnersInv, NoStaleRange
  <1> QED BY <1>1, <1>2, <1>3, <1>4, <1>5, <1>6, <1>7, <1>8, <1>9, <1>10

\* Release keeps the invariant.
LEMMA ReleaseInv ==
  ASSUME IInv, NEW t \in Threads, Release(t)
  PROVE  IInv'
  <1> USE DEF IInv, TypeOK, Release
  <1>1. TypeOK' BY DEF PCs, Returns
  <1>2. OwnersInv' BY DEF OwnersInv
  <1>3. RetInv' /\ LockInv' BY DEF RetInv, LockInv
  <1>4. WinnerInv' BY DEF WinnerInv, LockInv
  <1>5. ZoneInv' /\ ReadyInv' BY DEF ZoneInv, OwnersInv, ReadyInv
  <1>6. DoneInv' BY DEF DoneInv, OwnersInv
  <1>7. SafeInv' BY DEF SafeInv, Safe, OwnersInv, LockInv, WinnerInv
  <1>8. PendingInv' /\ WaitingInv' BY DEF PendingInv, OwnersInv, LockInv, WinnerInv, WaitingInv
  <1>9. PauseInv' BY DEF PauseInv, PausedHasReleaser, OwnersInv
  <1>10. RangeInv' /\ NoStaleRange' BY DEF RangeInv, OwnersInv, NoStaleRange
  <1> QED BY <1>1, <1>2, <1>3, <1>4, <1>5, <1>6, <1>7, <1>8, <1>9, <1>10

\* ReleaseLocked keeps the invariant.
LEMMA ReleaseLockedInv ==
  ASSUME IInv, NEW t \in Threads, ReleaseLocked(t)
  PROVE  IInv'
  <1> USE DEF IInv, TypeOK, ReleaseLocked, ClearPooledAlloc, Delete
  <1>1. TypeOK'
    <2>1. tls[t] \in Allocs /\ holes \in [Allocs -> 0..MaxHoles] /\ 0 \in 0..MaxHoles
      BY DEF OwnersInv
    <2>2. holes' \in [Allocs -> 0..MaxHoles]
      BY <2>1, SMT
    <2>3. mLocalPool' \subseteq Allocs /\ mLocalAllocs' \subseteq Allocs /\ tls' \in [Threads -> Allocs \cup {NoAlloc}]
      BY <2>1
    <2>4. /\ mGCFreeZone' \in [Allocs -> BOOLEAN] /\ mReadyForCollect' \in [Allocs -> BOOLEAN]
          /\ mCollectDone' \in [Allocs -> BOOLEAN] /\ space' \in [Allocs -> BOOLEAN]
          /\ stale' \in [Allocs -> BOOLEAN]
      BY <2>1
    <2>5. pc' \in [Threads -> PCs] 
      BY <2>1 DEF PCs
    <2> QED BY <2>2, <2>3, <2>4, <2>5 DEF TypeOK
  <1>2. OwnersInv' BY DEF OwnersInv
  <1>3. RetInv' /\ LockInv' BY DEF RetInv, LockInv
  <1>4. WinnerInv' BY DEF WinnerInv, LockInv
  <1>5. ZoneInv' /\ ReadyInv' BY DEF ZoneInv, OwnersInv, ReadyInv
  <1>6. DoneInv' BY DEF DoneInv, OwnersInv
  <1>7. SafeInv' BY DEF SafeInv, Safe, OwnersInv, LockInv, WinnerInv
  <1>8. PendingInv' /\ WaitingInv' BY DEF PendingInv, OwnersInv, LockInv, WinnerInv, WaitingInv
  <1>9. PauseInv' BY DEF PauseInv, PausedHasReleaser, OwnersInv
  <1>10. RangeInv' /\ NoStaleRange' BY DEF RangeInv, OwnersInv, NoStaleRange
  <1> QED BY <1>1, <1>2, <1>3, <1>4, <1>5, <1>6, <1>7, <1>8, <1>9, <1>10

-----------------------------------------------------------------------------
(* Actions: the free zone.                                                *)

\* EnterGCFreeZone keeps the invariant.
LEMMA EnterGCFreeZoneInv ==
  ASSUME IInv, NEW t \in Threads, EnterGCFreeZone(t)
  PROVE  IInv'
  <1> USE DEF IInv, TypeOK, EnterGCFreeZone
  <1>1. TypeOK' BY DEF PCs, Returns
  <1>2. OwnersInv' BY DEF OwnersInv
  <1>3. RetInv' /\ LockInv' BY DEF RetInv, LockInv
  <1>4. WinnerInv' BY DEF WinnerInv, LockInv
  <1>5. ZoneInv' /\ ReadyInv' BY DEF ZoneInv, OwnersInv, ReadyInv
  <1>6. DoneInv' BY DEF DoneInv, OwnersInv
  <1>7. SafeInv' BY DEF SafeInv, Safe, OwnersInv, LockInv, WinnerInv
  <1>8. PendingInv' /\ WaitingInv' BY DEF PendingInv, OwnersInv, LockInv, WinnerInv, WaitingInv
  <1>9. PauseInv' BY DEF PauseInv, PausedHasReleaser, OwnersInv
  <1>10. RangeInv' /\ NoStaleRange' BY DEF RangeInv, OwnersInv, NoStaleRange
  <1> QED BY <1>1, <1>2, <1>3, <1>4, <1>5, <1>6, <1>7, <1>8, <1>9, <1>10

\* EnteredGCFreeZone keeps the invariant.
LEMMA EnteredGCFreeZoneInv ==
  ASSUME IInv, NEW t \in Threads, EnteredGCFreeZone(t)
  PROVE  IInv'
  <1> USE DEF IInv, TypeOK, EnteredGCFreeZone
  <1>1. TypeOK' BY DEF PCs, Returns
  <1>2. OwnersInv' BY DEF OwnersInv, RetInv
  <1>3. RetInv' /\ LockInv' BY DEF RetInv, LockInv
  <1>4. WinnerInv' BY DEF WinnerInv, LockInv, RetInv
  <1>5. ZoneInv' /\ ReadyInv' BY DEF ZoneInv, OwnersInv, RetInv, ReadyInv
  <1>6. DoneInv' BY DEF DoneInv, OwnersInv
  <1>7. SafeInv' BY DEF SafeInv, Safe, OwnersInv, LockInv, WinnerInv, RetInv
  <1>8. PendingInv' /\ WaitingInv' BY DEF PendingInv, OwnersInv, LockInv, WinnerInv, RetInv, WaitingInv
  <1>9. PauseInv' BY DEF PauseInv, PausedHasReleaser, OwnersInv, RetInv
  <1>10. RangeInv' /\ NoStaleRange' BY DEF RangeInv, OwnersInv, RetInv, NoStaleRange
  <1> QED BY <1>1, <1>2, <1>3, <1>4, <1>5, <1>6, <1>7, <1>8, <1>9, <1>10

\* ExitGCFreeZone keeps the invariant.
LEMMA ExitGCFreeZoneInv ==
  ASSUME IInv, NEW t \in Threads, ExitGCFreeZone(t)
  PROVE  IInv'
  <1> USE DEF IInv, TypeOK, ExitGCFreeZone
  <1>1. TypeOK' BY DEF PCs, Returns
  <1>2. OwnersInv' BY DEF OwnersInv
  <1>3. RetInv' /\ LockInv' BY DEF RetInv, LockInv
  <1>4. WinnerInv' BY DEF WinnerInv, LockInv
  <1>5. ZoneInv' /\ ReadyInv' BY DEF ZoneInv, OwnersInv, ReadyInv
  <1>6. DoneInv' BY DEF DoneInv, OwnersInv
  <1>7. SafeInv' BY DEF SafeInv, Safe, OwnersInv, LockInv, WinnerInv
  <1>8. PendingInv' /\ WaitingInv' BY DEF PendingInv, OwnersInv, LockInv, WinnerInv, WaitingInv
  <1>9. PauseInv' BY DEF PauseInv, PausedHasReleaser, OwnersInv
  <1>10. RangeInv' /\ NoStaleRange' BY DEF RangeInv, OwnersInv, NoStaleRange
  <1> QED BY <1>1, <1>2, <1>3, <1>4, <1>5, <1>6, <1>7, <1>8, <1>9, <1>10

-----------------------------------------------------------------------------
(* Actions: pausing.                                                      *)

\* PauseForCollect keeps the invariant.
LEMMA PauseForCollectInv ==
  ASSUME IInv, NEW t \in Threads, PauseForCollect(t)
  PROVE  IInv'
  <1> USE DEF IInv, TypeOK, PauseForCollect
  <1>1. TypeOK' BY DEF PCs, Returns
  <1>2. OwnersInv' BY DEF OwnersInv
  <1>3. RetInv' /\ LockInv' BY DEF RetInv, LockInv
  <1>4. WinnerInv' BY DEF WinnerInv, LockInv
  <1>5. ZoneInv' /\ ReadyInv' BY DEF ZoneInv, OwnersInv, ReadyInv
  <1>6. DoneInv' BY DEF DoneInv, OwnersInv
  <1>7. SafeInv' BY DEF SafeInv, Safe, OwnersInv, LockInv, WinnerInv
  <1>8. PendingInv' /\ WaitingInv' BY DEF PendingInv, OwnersInv, LockInv, WinnerInv, WaitingInv
  <1>9. PauseInv' BY DEF PauseInv, PausedHasReleaser, OwnersInv
  <1>10. RangeInv' /\ NoStaleRange' BY DEF RangeInv, OwnersInv, NoStaleRange
  <1> QED BY <1>1, <1>2, <1>3, <1>4, <1>5, <1>6, <1>7, <1>8, <1>9, <1>10

\* Resumed keeps the invariant.
LEMMA ResumedInv ==
  ASSUME IInv, NEW t \in Threads, Resumed(t)
  PROVE  IInv'
  <1> USE DEF IInv, TypeOK, Resumed
  <1>1. TypeOK' BY DEF PCs, Returns
  <1>2. OwnersInv' BY DEF OwnersInv, RetInv
  <1>3. RetInv' /\ LockInv' BY DEF RetInv, LockInv
  <1>4. WinnerInv' BY DEF WinnerInv, LockInv, RetInv
  <1>5. ZoneInv' /\ ReadyInv' BY DEF ZoneInv, OwnersInv, RetInv, ReadyInv, DoneInv
  <1>6. DoneInv' BY DEF DoneInv, OwnersInv
  <1>7. SafeInv' BY DEF SafeInv, Safe, OwnersInv, LockInv, WinnerInv, RetInv
  <1>8. PendingInv' /\ WaitingInv' BY DEF PendingInv, OwnersInv, LockInv, WinnerInv, RetInv, WaitingInv
  <1>9. PauseInv' BY DEF PauseInv, PausedHasReleaser, OwnersInv, RetInv, DoneInv
  <1>10. RangeInv' /\ NoStaleRange' BY DEF RangeInv, OwnersInv, RetInv, NoStaleRange
  <1> QED BY <1>1, <1>2, <1>3, <1>4, <1>5, <1>6, <1>7, <1>8, <1>9, <1>10

\* SafePoint keeps the invariant.
LEMMA SafePointInv ==
  ASSUME IInv, NEW t \in Threads, SafePoint(t)
  PROVE  IInv'
  <1> USE DEF IInv, TypeOK, SafePoint
  <1>1. TypeOK' BY DEF PCs, Returns
  <1>2. OwnersInv' BY DEF OwnersInv
  <1>3. RetInv' /\ LockInv' BY DEF RetInv, LockInv
  <1>4. WinnerInv' BY DEF WinnerInv, LockInv
  <1>5. ZoneInv' /\ ReadyInv' BY DEF ZoneInv, OwnersInv, ReadyInv
  <1>6. DoneInv' BY DEF DoneInv, OwnersInv
  <1>7. SafeInv' BY DEF SafeInv, Safe, OwnersInv, LockInv, WinnerInv
  <1>8. PendingInv' /\ WaitingInv' BY DEF PendingInv, OwnersInv, LockInv, WinnerInv, WaitingInv
  <1>9. PauseInv' BY DEF PauseInv, PausedHasReleaser, OwnersInv
  <1>10. RangeInv' /\ NoStaleRange' BY DEF RangeInv, OwnersInv, NoStaleRange
  <1> QED BY <1>1, <1>2, <1>3, <1>4, <1>5, <1>6, <1>7, <1>8, <1>9, <1>10

-----------------------------------------------------------------------------
(* Actions: allocating.                                                   *)

\* BumpAlloc keeps the invariant.
LEMMA BumpAllocInv ==
  ASSUME IInv, NEW t \in Threads, BumpAlloc(t)
  PROVE  IInv'
  <1> USE DEF IInv, TypeOK, BumpAlloc
  <1>1. TypeOK' BY DEF PCs, Returns
  <1>2. OwnersInv' BY DEF OwnersInv
  <1>3. RetInv' /\ LockInv' BY DEF RetInv, LockInv
  <1>4. WinnerInv' BY DEF WinnerInv, LockInv
  <1>5. ZoneInv' /\ ReadyInv' BY DEF ZoneInv, OwnersInv, ReadyInv
  <1>6. DoneInv' BY DEF DoneInv, OwnersInv
  <1>7. SafeInv' BY DEF SafeInv, Safe, OwnersInv, LockInv, WinnerInv
  <1>8. PendingInv' /\ WaitingInv' BY DEF PendingInv, OwnersInv, LockInv, WinnerInv, WaitingInv
  <1>9. PauseInv' BY DEF PauseInv, PausedHasReleaser, OwnersInv
  <1>10. RangeInv' /\ NoStaleRange' BY DEF RangeInv, OwnersInv, NoStaleRange
  <1> QED BY <1>1, <1>2, <1>3, <1>4, <1>5, <1>6, <1>7, <1>8, <1>9, <1>10

\* CallAlloc keeps the invariant.
LEMMA CallAllocInv ==
  ASSUME IInv, NEW t \in Threads, CallAlloc(t)
  PROVE  IInv'
  <1> USE DEF IInv, TypeOK, CallAlloc
  <1>1. TypeOK' BY DEF PCs, Returns
  <1>2. OwnersInv' BY DEF OwnersInv
  <1>3. RetInv' /\ LockInv' BY DEF RetInv, LockInv
  <1>4. WinnerInv' BY DEF WinnerInv, LockInv
  <1>5. ZoneInv' /\ ReadyInv' BY DEF ZoneInv, OwnersInv, ReadyInv
  <1>6. DoneInv' BY DEF DoneInv, OwnersInv
  <1>7. SafeInv' BY DEF SafeInv, Safe, OwnersInv, LockInv, WinnerInv
  <1>8. PendingInv' /\ WaitingInv' BY DEF PendingInv, OwnersInv, LockInv, WinnerInv, WaitingInv
  <1>9. PauseInv' BY DEF PauseInv, PausedHasReleaser, OwnersInv
  <1>10. RangeInv' /\ NoStaleRange' BY DEF RangeInv, OwnersInv, NoStaleRange
  <1> QED BY <1>1, <1>2, <1>3, <1>4, <1>5, <1>6, <1>7, <1>8, <1>9, <1>10

\* AllocFits keeps the invariant.
LEMMA AllocFitsInv ==
  ASSUME IInv, NEW t \in Threads, AllocFits(t)
  PROVE  IInv'
  <1> USE DEF IInv, TypeOK, AllocFits
  <1>1. TypeOK' BY DEF PCs, Returns
  <1>2. OwnersInv' BY DEF OwnersInv
  <1>3. RetInv' /\ LockInv' BY DEF RetInv, LockInv
  <1>4. WinnerInv' BY DEF WinnerInv, LockInv
  <1>5. ZoneInv' /\ ReadyInv' BY DEF ZoneInv, OwnersInv, ReadyInv
  <1>6. DoneInv' BY DEF DoneInv, OwnersInv
  <1>7. SafeInv' BY DEF SafeInv, Safe, OwnersInv, LockInv, WinnerInv
  <1>8. PendingInv' /\ WaitingInv' BY DEF PendingInv, OwnersInv, LockInv, WinnerInv, WaitingInv
  <1>9. PauseInv' BY DEF PauseInv, PausedHasReleaser, OwnersInv
  <1>10. RangeInv' /\ NoStaleRange' BY DEF RangeInv, OwnersInv, NoStaleRange
  <1> QED BY <1>1, <1>2, <1>3, <1>4, <1>5, <1>6, <1>7, <1>8, <1>9, <1>10

\* MoreHoles keeps the invariant.
LEMMA MoreHolesInv ==
  ASSUME IInv, NEW t \in Threads, MoreHoles(t)
  PROVE  IInv'
  <1> USE DEF IInv, TypeOK, MoreHoles
  <1>1. TypeOK' BY DEF PCs, Returns
  <1>2. OwnersInv' BY DEF OwnersInv
  <1>3. RetInv' /\ LockInv' BY DEF RetInv, LockInv
  <1>4. WinnerInv' BY DEF WinnerInv, LockInv
  <1>5. ZoneInv' /\ ReadyInv' BY DEF ZoneInv, OwnersInv, ReadyInv
  <1>6. DoneInv' BY DEF DoneInv, OwnersInv
  <1>7. SafeInv' BY DEF SafeInv, Safe, OwnersInv, LockInv, WinnerInv
  <1>8. PendingInv' /\ WaitingInv' BY DEF PendingInv, OwnersInv, LockInv, WinnerInv, WaitingInv
  <1>9. PauseInv' BY DEF PauseInv, PausedHasReleaser, OwnersInv
  <1>10. RangeInv' /\ NoStaleRange' BY DEF RangeInv, OwnersInv, NoStaleRange
  <1> QED BY <1>1, <1>2, <1>3, <1>4, <1>5, <1>6, <1>7, <1>8, <1>9, <1>10

\* NextHole keeps the invariant.
LEMMA NextHoleInv ==
  ASSUME IInv, NEW t \in Threads, NextHole(t)
  PROVE  IInv'
  <1> USE DEF IInv, TypeOK, NextHole
  <1>1. TypeOK' BY DEF PCs, Returns, OwnersInv
  <1>2. OwnersInv' BY DEF OwnersInv
  <1>3. RetInv' /\ LockInv' BY DEF RetInv, LockInv
  <1>4. WinnerInv' BY DEF WinnerInv, LockInv
  <1>5. ZoneInv' /\ ReadyInv' BY DEF ZoneInv, OwnersInv, ReadyInv
  <1>6. DoneInv' BY DEF DoneInv, OwnersInv
  <1>7. SafeInv' BY DEF SafeInv, Safe, OwnersInv, LockInv, WinnerInv
  <1>8. PendingInv' /\ WaitingInv' BY DEF PendingInv, OwnersInv, LockInv, WinnerInv, WaitingInv
  <1>9. PauseInv' BY DEF PauseInv, PausedHasReleaser, OwnersInv
  <1>10. RangeInv' /\ NoStaleRange'
    <2>1. \A c \in Threads : pc[c] # "reclaimed" BY DEF SafeInv, Safe
    <2> QED BY <2>1 DEF RangeInv, OwnersInv, NoStaleRange
  <1> QED BY <1>1, <1>2, <1>3, <1>4, <1>5, <1>6, <1>7, <1>8, <1>9, <1>10

\* NoMoreHoles keeps the invariant.
LEMMA NoMoreHolesInv ==
  ASSUME IInv, NEW t \in Threads, NoMoreHoles(t)
  PROVE  IInv'
  <1> USE DEF IInv, TypeOK, NoMoreHoles
  <1>1. TypeOK' BY DEF PCs, Returns
  <1>2. OwnersInv' BY DEF OwnersInv
  <1>3. RetInv' /\ LockInv' BY DEF RetInv, LockInv
  <1>4. WinnerInv' BY DEF WinnerInv, LockInv
  <1>5. ZoneInv' /\ ReadyInv' BY DEF ZoneInv, OwnersInv, ReadyInv
  <1>6. DoneInv' BY DEF DoneInv, OwnersInv
  <1>7. SafeInv' BY DEF SafeInv, Safe, OwnersInv, LockInv, WinnerInv
  <1>8. PendingInv' /\ WaitingInv' BY DEF PendingInv, OwnersInv, LockInv, WinnerInv, WaitingInv
  <1>9. PauseInv' BY DEF PauseInv, PausedHasReleaser, OwnersInv
  <1>10. RangeInv' /\ NoStaleRange' BY DEF RangeInv, OwnersInv, NoStaleRange
  <1> QED BY <1>1, <1>2, <1>3, <1>4, <1>5, <1>6, <1>7, <1>8, <1>9, <1>10

\* GetFreeBlock keeps the invariant.
LEMMA GetFreeBlockInv ==
  ASSUME IInv, NEW t \in Threads, GetFreeBlock(t)
  PROVE  IInv'
  <1> USE DEF IInv, TypeOK, GetFreeBlock, Install
  <1>1. TypeOK' BY DEF PCs, Returns, OwnersInv
  <1>2. OwnersInv' BY DEF OwnersInv
  <1>3. RetInv' /\ LockInv' BY DEF RetInv, LockInv
  <1>4. WinnerInv' BY DEF WinnerInv, LockInv
  <1>5. ZoneInv' /\ ReadyInv' BY DEF ZoneInv, OwnersInv, ReadyInv
  <1>6. DoneInv' BY DEF DoneInv, OwnersInv
  <1>7. SafeInv' BY DEF SafeInv, Safe, OwnersInv, LockInv, WinnerInv
  <1>8. PendingInv' /\ WaitingInv' BY DEF PendingInv, OwnersInv, LockInv, WinnerInv, WaitingInv
  <1>9. PauseInv' BY DEF PauseInv, PausedHasReleaser, OwnersInv
  <1>10. RangeInv' /\ NoStaleRange' BY DEF RangeInv, OwnersInv, SafeInv, Safe, LockInv, WinnerInv, NoStaleRange
  <1> QED BY <1>1, <1>2, <1>3, <1>4, <1>5, <1>6, <1>7, <1>8, <1>9, <1>10

\* NoFreeBlock keeps the invariant.
LEMMA NoFreeBlockInv ==
  ASSUME IInv, NEW t \in Threads, NoFreeBlock(t)
  PROVE  IInv'
  <1> USE DEF IInv, TypeOK, NoFreeBlock
  <1>1. TypeOK' BY DEF PCs, Returns
  <1>2. OwnersInv' BY DEF OwnersInv
  <1>3. RetInv' /\ LockInv' BY DEF RetInv, LockInv
  <1>4. WinnerInv' BY DEF WinnerInv, LockInv
  <1>5. ZoneInv' /\ ReadyInv' BY DEF ZoneInv, OwnersInv, ReadyInv
  <1>6. DoneInv' BY DEF DoneInv, OwnersInv
  <1>7. SafeInv' BY DEF SafeInv, Safe, OwnersInv, LockInv, WinnerInv
  <1>8. PendingInv' /\ WaitingInv' BY DEF PendingInv, OwnersInv, LockInv, WinnerInv, WaitingInv
  <1>9. PauseInv' BY DEF PauseInv, PausedHasReleaser, OwnersInv
  <1>10. RangeInv' /\ NoStaleRange' BY DEF RangeInv, OwnersInv, NoStaleRange
  <1> QED BY <1>1, <1>2, <1>3, <1>4, <1>5, <1>6, <1>7, <1>8, <1>9, <1>10

\* PauseOrLock keeps the invariant.
LEMMA PauseOrLockInv ==
  ASSUME IInv, NEW t \in Threads, PauseOrLock(t)
  PROVE  IInv'
  <1> USE DEF IInv, TypeOK, PauseOrLock
  <1>1. TypeOK' BY DEF PCs, Returns
  <1>2. OwnersInv' BY DEF OwnersInv
  <1>3. RetInv' /\ LockInv' BY DEF RetInv, LockInv
  <1>4. WinnerInv' BY DEF WinnerInv, LockInv
  <1>5. ZoneInv' /\ ReadyInv' BY DEF ZoneInv, OwnersInv, ReadyInv
  <1>6. DoneInv' BY DEF DoneInv, OwnersInv
  <1>7. SafeInv' BY DEF SafeInv, Safe, OwnersInv, LockInv, WinnerInv
  <1>8. PendingInv' /\ WaitingInv' BY DEF PendingInv, OwnersInv, LockInv, WinnerInv, WaitingInv
  <1>9. PauseInv' BY DEF PauseInv, PausedHasReleaser, OwnersInv
  <1>10. RangeInv' /\ NoStaleRange' BY DEF RangeInv, OwnersInv, NoStaleRange
  <1> QED BY <1>1, <1>2, <1>3, <1>4, <1>5, <1>6, <1>7, <1>8, <1>9, <1>10

\* EnterForLock keeps the invariant.
LEMMA EnterForLockInv ==
  ASSUME IInv, NEW t \in Threads, EnterForLock(t)
  PROVE  IInv'
  <1> USE DEF IInv, TypeOK, EnterForLock
  <1>1. TypeOK' BY DEF PCs, Returns
  <1>2. OwnersInv' BY DEF OwnersInv
  <1>3. RetInv' /\ LockInv' BY DEF RetInv, LockInv
  <1>4. WinnerInv' BY DEF WinnerInv, LockInv
  <1>5. ZoneInv' /\ ReadyInv' BY DEF ZoneInv, OwnersInv, ReadyInv
  <1>6. DoneInv' BY DEF DoneInv, OwnersInv
  <1>7. SafeInv' BY DEF SafeInv, Safe, OwnersInv, LockInv, WinnerInv
  <1>8. PendingInv' /\ WaitingInv' BY DEF PendingInv, OwnersInv, LockInv, WinnerInv, WaitingInv
  <1>9. PauseInv' BY DEF PauseInv, PausedHasReleaser, OwnersInv
  <1>10. RangeInv' /\ NoStaleRange' BY DEF RangeInv, OwnersInv, NoStaleRange
  <1> QED BY <1>1, <1>2, <1>3, <1>4, <1>5, <1>6, <1>7, <1>8, <1>9, <1>10

\* ExitGCFreeZoneLocked keeps the invariant.
LEMMA ExitGCFreeZoneLockedInv ==
  ASSUME IInv, NEW t \in Threads, ExitGCFreeZoneLocked(t)
  PROVE  IInv'
  <1> USE DEF IInv, TypeOK, ExitGCFreeZoneLocked
  <1>1. TypeOK' BY DEF PCs, Returns
  <1>2. OwnersInv' BY DEF OwnersInv
  <1>3. RetInv' /\ LockInv' BY DEF RetInv, LockInv
  <1>4. WinnerInv' BY DEF WinnerInv, LockInv
  <1>5. ZoneInv' /\ ReadyInv' BY DEF ZoneInv, OwnersInv, ReadyInv
  <1>6. DoneInv' BY DEF DoneInv, OwnersInv
  <1>7. SafeInv' BY DEF SafeInv, Safe, OwnersInv, LockInv, WinnerInv
  <1>8. PendingInv' /\ WaitingInv' BY DEF PendingInv, OwnersInv, LockInv, WinnerInv, WaitingInv
  <1>9. PauseInv' BY DEF PauseInv, PausedHasReleaser, OwnersInv
  <1>10. RangeInv' /\ NoStaleRange' BY DEF RangeInv, OwnersInv, NoStaleRange
  <1> QED BY <1>1, <1>2, <1>3, <1>4, <1>5, <1>6, <1>7, <1>8, <1>9, <1>10

\* LockedBlock keeps the invariant.
LEMMA LockedBlockInv ==
  ASSUME IInv, NEW t \in Threads, LockedBlock(t)
  PROVE  IInv'
  <1> USE DEF IInv, TypeOK, LockedBlock, Install
  <1>1. TypeOK' BY DEF PCs, Returns, OwnersInv
  <1>2. OwnersInv' BY DEF OwnersInv
  <1>3. RetInv' /\ LockInv' BY DEF RetInv, LockInv
  <1>4. WinnerInv' BY DEF WinnerInv, LockInv
  <1>5. ZoneInv' /\ ReadyInv' BY DEF ZoneInv, OwnersInv, ReadyInv
  <1>6. DoneInv' BY DEF DoneInv, OwnersInv
  <1>7. SafeInv' BY DEF SafeInv, Safe, OwnersInv, LockInv, WinnerInv
  <1>8. PendingInv' /\ WaitingInv' BY DEF PendingInv, OwnersInv, LockInv, WinnerInv, WaitingInv
  <1>9. PauseInv' BY DEF PauseInv, PausedHasReleaser, OwnersInv
  <1>10. RangeInv' /\ NoStaleRange' BY DEF RangeInv, OwnersInv, SafeInv, Safe, LockInv, WinnerInv, NoStaleRange
  <1> QED BY <1>1, <1>2, <1>3, <1>4, <1>5, <1>6, <1>7, <1>8, <1>9, <1>10

\* MoreBlocks keeps the invariant.
LEMMA MoreBlocksInv ==
  ASSUME IInv, NEW t \in Threads, MoreBlocks(t)
  PROVE  IInv'
  <1> USE DEF IInv, TypeOK, MoreBlocks, Install
  <1>1. TypeOK' BY DEF PCs, Returns, OwnersInv
  <1>2. OwnersInv' BY DEF OwnersInv
  <1>3. RetInv' /\ LockInv' BY DEF RetInv, LockInv
  <1>4. WinnerInv' BY DEF WinnerInv, LockInv
  <1>5. ZoneInv' /\ ReadyInv' BY DEF ZoneInv, OwnersInv, ReadyInv
  <1>6. DoneInv' BY DEF DoneInv, OwnersInv
  <1>7. SafeInv' BY DEF SafeInv, Safe, OwnersInv, LockInv, WinnerInv
  <1>8. PendingInv' /\ WaitingInv' BY DEF PendingInv, OwnersInv, LockInv, WinnerInv, WaitingInv
  <1>9. PauseInv' BY DEF PauseInv, PausedHasReleaser, OwnersInv
  <1>10. RangeInv' /\ NoStaleRange' BY DEF RangeInv, OwnersInv, SafeInv, Safe, LockInv, WinnerInv, NoStaleRange
  <1> QED BY <1>1, <1>2, <1>3, <1>4, <1>5, <1>6, <1>7, <1>8, <1>9, <1>10

\* LockedCollect keeps the invariant.
LEMMA LockedCollectInv ==
  ASSUME IInv, NEW t \in Threads, LockedCollect(t)
  PROVE  IInv'
  <1> USE DEF IInv, TypeOK, LockedCollect
  <1>1. TypeOK' BY DEF PCs, Returns
  <1>2. OwnersInv' BY DEF OwnersInv
  <1>3. RetInv' /\ LockInv' BY DEF RetInv, LockInv
  <1>4. WinnerInv' BY DEF WinnerInv, LockInv
  <1>5. ZoneInv' /\ ReadyInv' BY DEF ZoneInv, OwnersInv, ReadyInv
  <1>6. DoneInv' BY DEF DoneInv, OwnersInv
  <1>7. SafeInv' BY DEF SafeInv, Safe, OwnersInv, LockInv, WinnerInv
  <1>8. PendingInv' /\ WaitingInv' BY DEF PendingInv, OwnersInv, LockInv, WinnerInv, WaitingInv
  <1>9. PauseInv' BY DEF PauseInv, PausedHasReleaser, OwnersInv
  <1>10. RangeInv' /\ NoStaleRange' BY DEF RangeInv, OwnersInv, NoStaleRange
  <1> QED BY <1>1, <1>2, <1>3, <1>4, <1>5, <1>6, <1>7, <1>8, <1>9, <1>10

\* Recheck keeps the invariant.
LEMMA RecheckInv ==
  ASSUME IInv, NEW t \in Threads, Recheck(t)
  PROVE  IInv'
  <1> USE DEF IInv, TypeOK, Recheck
  <1>1. TypeOK'
    <2>1. tls[t] \in Allocs /\ holes \in [Allocs -> 0..MaxHoles] /\ 0 \in 0..MaxHoles
      BY DEF OwnersInv
    <2>2. holes' \in [Allocs -> 0..MaxHoles]
      BY <2>1
    <2> QED BY <2>1, <2>2 DEF PCs, Returns
  <1>2. OwnersInv' BY DEF OwnersInv
  <1>3. RetInv' /\ LockInv' BY DEF RetInv, LockInv
  <1>4. WinnerInv' BY DEF WinnerInv, LockInv
  <1>5. ZoneInv' /\ ReadyInv' BY DEF ZoneInv, OwnersInv, ReadyInv
  <1>6. DoneInv' BY DEF DoneInv, OwnersInv
  <1>7. SafeInv' BY DEF SafeInv, Safe, OwnersInv, LockInv, WinnerInv
  <1>8. PendingInv' /\ WaitingInv' BY DEF PendingInv, OwnersInv, LockInv, WinnerInv, WaitingInv
  <1>9. PauseInv' BY DEF PauseInv, PausedHasReleaser, OwnersInv
  <1>10. RangeInv' /\ NoStaleRange' BY DEF RangeInv, OwnersInv, WinnerInv, WaitingInv, NoStaleRange
  <1> QED BY <1>1, <1>2, <1>3, <1>4, <1>5, <1>6, <1>7, <1>8, <1>9, <1>10

-----------------------------------------------------------------------------
(* Actions: collecting.                                                   *)

\* CollectFromThisThread keeps the invariant.
LEMMA CollectFromThisThreadInv ==
  ASSUME IInv, NEW t \in Threads, CollectFromThisThread(t)
  PROVE  IInv'
  <1> USE DEF IInv, TypeOK, CollectFromThisThread
  <1>1. TypeOK' BY DEF PCs, Returns
  <1>2. OwnersInv' BY DEF OwnersInv
  <1>3. RetInv' /\ LockInv' BY DEF RetInv, LockInv
  <1>4. WinnerInv' BY DEF WinnerInv, LockInv
  <1>5. ZoneInv' /\ ReadyInv' BY DEF ZoneInv, OwnersInv, ReadyInv
  <1>6. DoneInv' BY DEF DoneInv, OwnersInv
  <1>7. SafeInv' BY DEF SafeInv, Safe, OwnersInv, LockInv, WinnerInv
  <1>8. PendingInv' /\ WaitingInv' BY DEF PendingInv, OwnersInv, LockInv, WinnerInv, WaitingInv
  <1>9. PauseInv' BY DEF PauseInv, PausedHasReleaser, OwnersInv
  <1>10. RangeInv' /\ NoStaleRange' BY DEF RangeInv, OwnersInv, NoStaleRange
  <1> QED BY <1>1, <1>2, <1>3, <1>4, <1>5, <1>6, <1>7, <1>8, <1>9, <1>10

\* CollectWins keeps the invariant.
LEMMA CollectWinsInv ==
  ASSUME IInv, NEW t \in Threads, CollectWins(t)
  PROVE  IInv'
  <1> USE DEF IInv, TypeOK, CollectWins
  <1>1. TypeOK' BY DEF PCs, Returns
  <1>2. OwnersInv' BY DEF OwnersInv
  <1>3. RetInv' /\ LockInv' BY DEF RetInv, LockInv
  <1>4. WinnerInv' BY DEF WinnerInv, LockInv
  <1>5. ZoneInv' /\ ReadyInv' BY DEF ZoneInv, OwnersInv, ReadyInv
  <1>6. DoneInv' BY DEF DoneInv, OwnersInv
  <1>7. SafeInv' BY DEF SafeInv, Safe, OwnersInv, LockInv, WinnerInv
  <1>8. PendingInv' /\ WaitingInv' BY DEF PendingInv, OwnersInv, LockInv, WinnerInv, WaitingInv
  <1>9. PauseInv' BY DEF PauseInv, PausedHasReleaser, OwnersInv
  <1>10. RangeInv' /\ NoStaleRange' BY DEF RangeInv, OwnersInv, NoStaleRange
  <1> QED BY <1>1, <1>2, <1>3, <1>4, <1>5, <1>6, <1>7, <1>8, <1>9, <1>10

\* CollectLoses keeps the invariant.
LEMMA CollectLosesInv ==
  ASSUME IInv, NEW t \in Threads, CollectLoses(t)
  PROVE  IInv'
  <1> USE DEF IInv, TypeOK, CollectLoses
  <1>1. TypeOK' BY DEF PCs, Returns
  <1>2. OwnersInv' BY DEF OwnersInv
  <1>3. RetInv' /\ LockInv' BY DEF RetInv, LockInv
  <1>4. WinnerInv' BY DEF WinnerInv, LockInv
  <1>5. ZoneInv' /\ ReadyInv' BY DEF ZoneInv, OwnersInv, ReadyInv
  <1>6. DoneInv' BY DEF DoneInv, OwnersInv
  <1>7. SafeInv' BY DEF SafeInv, Safe, OwnersInv, LockInv, WinnerInv
  <1>8. PendingInv' /\ WaitingInv' BY DEF PendingInv, OwnersInv, LockInv, WinnerInv, WaitingInv
  <1>9. PauseInv' BY DEF PauseInv, PausedHasReleaser, OwnersInv
  <1>10. RangeInv' /\ NoStaleRange' BY DEF RangeInv, OwnersInv, NoStaleRange
  <1> QED BY <1>1, <1>2, <1>3, <1>4, <1>5, <1>6, <1>7, <1>8, <1>9, <1>10

\* CollectLock keeps the invariant.
LEMMA CollectLockInv ==
  ASSUME IInv, NEW t \in Threads, CollectLock(t)
  PROVE  IInv'
  <1> USE DEF IInv, TypeOK, CollectLock
  <1>1. TypeOK' BY DEF PCs, Returns
  <1>2. OwnersInv' BY DEF OwnersInv
  <1>3. RetInv' /\ LockInv' BY DEF RetInv, LockInv
  <1>4. WinnerInv' BY DEF WinnerInv, LockInv
  <1>5. ZoneInv' /\ ReadyInv' BY DEF ZoneInv, OwnersInv, ReadyInv
  <1>6. DoneInv' BY DEF DoneInv, OwnersInv
  <1>7. SafeInv' BY DEF SafeInv, Safe, OwnersInv, LockInv, WinnerInv
  <1>8. PendingInv' /\ WaitingInv' BY DEF PendingInv, OwnersInv, LockInv, WinnerInv, WaitingInv
  <1>9. PauseInv' BY DEF PauseInv, PausedHasReleaser, OwnersInv
  <1>10. RangeInv' /\ NoStaleRange' BY DEF RangeInv, OwnersInv, NoStaleRange
  <1> QED BY <1>1, <1>2, <1>3, <1>4, <1>5, <1>6, <1>7, <1>8, <1>9, <1>10

\* WaitForSafe keeps the invariant.
LEMMA WaitForSafeInv ==
  ASSUME IInv, NEW t \in Threads, WaitForSafe(t)
  PROVE  IInv'
  <1> USE DEF IInv, TypeOK, WaitForSafe
  <1>1. TypeOK'
    <2>1. holes \in [Allocs -> 0..MaxHoles] /\ 0 \in 0..MaxHoles /\ pending \subseteq Allocs
      OBVIOUS
    <2>2. holes' \in [Allocs -> 0..MaxHoles] /\ pending' \subseteq Allocs /\ waitingFor' \in Allocs \cup {NoAlloc}
      BY <2>1
    <2>3. pc' \in [Threads -> PCs]
      <3>1. pc' = pc \/ pc' = [pc EXCEPT ![t] = "awaitready"]
        OBVIOUS
      <3>2. pc \in [Threads -> PCs] /\ "awaitready" \in PCs
        BY DEF PCs
      <3> HIDE DEF IInv, TypeOK, WaitForSafe
      <3> QED BY <3>1, <3>2
    <2> QED BY <2>2, <2>3 DEF Returns
  <1>2. OwnersInv' BY DEF OwnersInv
  <1>3. RetInv' /\ LockInv' BY DEF RetInv, LockInv
  <1>4. WinnerInv' BY DEF WinnerInv, LockInv
  <1>5. ZoneInv' /\ ReadyInv' BY DEF ZoneInv, OwnersInv, ReadyInv
  <1>6. DoneInv' BY DEF DoneInv, OwnersInv
  <1>7. SafeInv' BY DEF SafeInv, Safe, OwnersInv, LockInv, WinnerInv, ZoneInv, PendingInv
  <1>8. PendingInv' /\ WaitingInv' BY DEF PendingInv, OwnersInv, LockInv, WinnerInv, WaitingInv
  <1>9. PauseInv' BY DEF PauseInv, PausedHasReleaser, OwnersInv, WinnerInv
  <1>10. RangeInv' /\ NoStaleRange' BY DEF RangeInv, OwnersInv, NoStaleRange
  <1> QED BY <1>1, <1>2, <1>3, <1>4, <1>5, <1>6, <1>7, <1>8, <1>9, <1>10

\* IsReady keeps the invariant.
LEMMA IsReadyInv ==
  ASSUME IInv, NEW t \in Threads, IsReady(t)
  PROVE  IInv'
  <1> USE DEF IInv, TypeOK, IsReady
  <1>1. TypeOK' BY DEF PCs, Returns
  <1>2. OwnersInv' BY DEF OwnersInv
  <1>3. RetInv' /\ LockInv' BY DEF RetInv, LockInv
  <1>4. WinnerInv' BY DEF WinnerInv, LockInv
  <1>5. ZoneInv' /\ ReadyInv' BY DEF ZoneInv, OwnersInv, ReadyInv
  <1>6. DoneInv' BY DEF DoneInv, OwnersInv
  <1>7. SafeInv' BY DEF SafeInv, Safe, OwnersInv, LockInv, WinnerInv, ReadyInv, DoneInv, PendingInv, ZoneInv
  <1>8. PendingInv' /\ WaitingInv' BY DEF PendingInv, OwnersInv, LockInv, WinnerInv, WaitingInv
  <1>9. PauseInv' BY DEF PauseInv, PausedHasReleaser, OwnersInv, WinnerInv
  <1>10. RangeInv' /\ NoStaleRange' BY DEF RangeInv, OwnersInv, NoStaleRange
  <1> QED BY <1>1, <1>2, <1>3, <1>4, <1>5, <1>6, <1>7, <1>8, <1>9, <1>10

\* StartCollecting keeps the invariant.
LEMMA StartCollectingInv ==
  ASSUME IInv, NEW t \in Threads, StartCollecting(t)
  PROVE  IInv'
  <1> USE DEF IInv, TypeOK, StartCollecting
  <1>1. TypeOK' BY DEF PCs, Returns
  <1>2. OwnersInv' BY DEF OwnersInv
  <1>3. RetInv' /\ LockInv' BY DEF RetInv, LockInv
  <1>4. WinnerInv' BY DEF WinnerInv, LockInv
  <1>5. ZoneInv' /\ ReadyInv' BY DEF ZoneInv, OwnersInv, ReadyInv
  <1>6. DoneInv' BY DEF DoneInv, OwnersInv
  <1>7. SafeInv' BY DEF SafeInv, Safe, OwnersInv, LockInv, WinnerInv
  <1>8. PendingInv' /\ WaitingInv' BY DEF PendingInv, OwnersInv, LockInv, WinnerInv, WaitingInv
  <1>9. PauseInv' BY DEF PauseInv, PausedHasReleaser, OwnersInv
  <1>10. RangeInv' /\ NoStaleRange' BY DEF RangeInv, OwnersInv, NoStaleRange
  <1> QED BY <1>1, <1>2, <1>3, <1>4, <1>5, <1>6, <1>7, <1>8, <1>9, <1>10

\* FinalizerEnters keeps the invariant.
LEMMA FinalizerEntersInv ==
  ASSUME IInv, NEW t \in Threads, FinalizerEnters(t)
  PROVE  IInv'
  <1> USE DEF IInv, TypeOK, FinalizerEnters
  <1>1. TypeOK' BY DEF PCs, Returns
  <1>2. OwnersInv' BY DEF OwnersInv
  <1>3. RetInv' /\ LockInv' BY DEF RetInv, LockInv
  <1>4. WinnerInv' BY DEF WinnerInv, LockInv
  <1>5. ZoneInv' /\ ReadyInv' BY DEF ZoneInv, OwnersInv, ReadyInv
  <1>6. DoneInv' BY DEF DoneInv, OwnersInv
  <1>7. SafeInv' BY DEF SafeInv, Safe, OwnersInv, LockInv, WinnerInv
  <1>8. PendingInv' /\ WaitingInv' BY DEF PendingInv, OwnersInv, LockInv, WinnerInv, WaitingInv
  <1>9. PauseInv' BY DEF PauseInv, PausedHasReleaser, OwnersInv
  <1>10. RangeInv' /\ NoStaleRange' BY DEF RangeInv, OwnersInv, NoStaleRange
  <1> QED BY <1>1, <1>2, <1>3, <1>4, <1>5, <1>6, <1>7, <1>8, <1>9, <1>10

\* FinalizerExits keeps the invariant.
LEMMA FinalizerExitsInv ==
  ASSUME IInv, NEW t \in Threads, FinalizerExits(t)
  PROVE  IInv'
  <1> USE DEF IInv, TypeOK, FinalizerExits
  <1>1. TypeOK' BY DEF PCs, Returns
  <1>2. OwnersInv' BY DEF OwnersInv
  <1>3. RetInv' /\ LockInv' BY DEF RetInv, LockInv
  <1>4. WinnerInv' BY DEF WinnerInv, LockInv
  <1>5. ZoneInv' /\ ReadyInv' BY DEF ZoneInv, OwnersInv, ReadyInv
  <1>6. DoneInv' BY DEF DoneInv, OwnersInv
  <1>7. SafeInv' BY DEF SafeInv, Safe, OwnersInv, LockInv, WinnerInv
  <1>8. PendingInv' /\ WaitingInv' BY DEF PendingInv, OwnersInv, LockInv, WinnerInv, WaitingInv
  <1>9. PauseInv' BY DEF PauseInv, PausedHasReleaser, OwnersInv
  <1>10. RangeInv' /\ NoStaleRange' BY DEF RangeInv, OwnersInv, NoStaleRange
  <1> QED BY <1>1, <1>2, <1>3, <1>4, <1>5, <1>6, <1>7, <1>8, <1>9, <1>10

\* Reclaim keeps the invariant.
LEMMA ReclaimInv ==
  ASSUME IInv, NEW t \in Threads, Reclaim(t)
  PROVE  IInv'
  <1> USE DEF IInv, TypeOK, Reclaim, ResetByCollect
  <1>1. TypeOK' BY DEF PCs, Returns
  <1>2. OwnersInv' BY DEF OwnersInv
  <1>3. RetInv' /\ LockInv' BY DEF RetInv, LockInv
  <1>4. WinnerInv' BY DEF WinnerInv, LockInv
  <1>5. ZoneInv' /\ ReadyInv' BY DEF ZoneInv, OwnersInv, ReadyInv
  <1>6. DoneInv' BY DEF DoneInv, OwnersInv
  <1>7. SafeInv' BY DEF SafeInv, Safe, OwnersInv, LockInv, WinnerInv
  <1>8. PendingInv' /\ WaitingInv' BY DEF PendingInv, OwnersInv, LockInv, WinnerInv, WaitingInv
  <1>9. PauseInv' BY DEF PauseInv, PausedHasReleaser, OwnersInv
  <1>10. RangeInv' /\ NoStaleRange' BY DEF RangeInv, OwnersInv, NoStaleRange
  <1> QED BY <1>1, <1>2, <1>3, <1>4, <1>5, <1>6, <1>7, <1>8, <1>9, <1>10

\* StopCollecting keeps the invariant.
LEMMA StopCollectingInv ==
  ASSUME IInv, NEW t \in Threads, StopCollecting(t)
  PROVE  IInv'
  <1> USE DEF IInv, TypeOK, StopCollecting
  <1>1. TypeOK' BY DEF PCs, Returns
  <1>2. OwnersInv' BY DEF OwnersInv
  <1>3. RetInv' /\ LockInv' BY DEF RetInv, LockInv
  <1>4. WinnerInv' BY DEF WinnerInv, LockInv
  <1>5. ZoneInv' /\ ReadyInv' BY DEF ZoneInv, OwnersInv, ReadyInv
  <1>6. DoneInv' BY DEF DoneInv, OwnersInv
  <1>7. SafeInv' BY DEF SafeInv, Safe, OwnersInv, LockInv, WinnerInv
  <1>8. PendingInv' /\ WaitingInv' BY DEF PendingInv, OwnersInv, LockInv, WinnerInv, WaitingInv
  <1>9. PauseInv' BY DEF PauseInv, PausedHasReleaser, OwnersInv
  <1>10. RangeInv' /\ NoStaleRange' BY DEF RangeInv, OwnersInv, NoStaleRange
  <1> QED BY <1>1, <1>2, <1>3, <1>4, <1>5, <1>6, <1>7, <1>8, <1>9, <1>10

\* ClearPause keeps the invariant.
LEMMA ClearPauseInv ==
  ASSUME IInv, NEW t \in Threads, ClearPause(t)
  PROVE  IInv'
  <1> USE DEF IInv, TypeOK, ClearPause
  <1>1. TypeOK' BY DEF PCs, Returns
  <1>2. OwnersInv' BY DEF OwnersInv
  <1>3. RetInv' /\ LockInv' BY DEF RetInv, LockInv
  <1>4. WinnerInv' BY DEF WinnerInv, LockInv
  <1>5. ZoneInv' /\ ReadyInv' BY DEF ZoneInv, OwnersInv, ReadyInv
  <1>6. DoneInv' BY DEF DoneInv, OwnersInv
  <1>7. SafeInv' BY DEF SafeInv, Safe, OwnersInv, LockInv, WinnerInv
  <1>8. PendingInv' /\ WaitingInv' BY DEF PendingInv, OwnersInv, LockInv, WinnerInv, WaitingInv
  <1>9. PauseInv' BY DEF PauseInv, PausedHasReleaser, OwnersInv, SafeInv, Safe, WinnerInv
  <1>10. RangeInv' /\ NoStaleRange' BY DEF RangeInv, OwnersInv, NoStaleRange
  <1> QED BY <1>1, <1>2, <1>3, <1>4, <1>5, <1>6, <1>7, <1>8, <1>9, <1>10

\* ReleaseFromSafe keeps the invariant.
LEMMA ReleaseFromSafeInv ==
  ASSUME IInv, NEW t \in Threads, ReleaseFromSafe(t)
  PROVE  IInv'
  <1> USE DEF IInv, TypeOK, ReleaseFromSafe
  <1>1. TypeOK' BY DEF PCs, Returns
  <1>2. OwnersInv' BY DEF OwnersInv
  <1>3. RetInv' /\ LockInv' BY DEF RetInv, LockInv
  <1>4. WinnerInv' BY DEF WinnerInv, LockInv
  <1>5. ZoneInv' /\ ReadyInv' BY DEF ZoneInv, OwnersInv, ReadyInv
  <1>6. DoneInv' BY DEF DoneInv, OwnersInv, SafeInv, Safe, ZoneInv, PendingInv
  <1>7. SafeInv' BY DEF SafeInv, Safe, OwnersInv, LockInv, WinnerInv
  <1>8. PendingInv' /\ WaitingInv' BY DEF PendingInv, OwnersInv, LockInv, WinnerInv, WaitingInv
  <1>9. PauseInv'
    <2>1. \A s \in Threads : pc'[s] = "pause" => gPauseForCollect'
      BY DEF PauseInv
    <2>2. ASSUME NEW s \in Threads, pc'[s] = "paused", ~mCollectDone'[tls'[s]]
          PROVE  gPauseForCollect' \/ (tls'[s] \in pending' /\ \E c \in Threads : pc'[c] = "releasing")
      <3>1. PICK a \in pending : /\ pending' = pending \ {a}
                                /\ mCollectDone' = [mCollectDone EXCEPT ![a] = mCollectDone[a] \/ ~mGCFreeZone[a]]
        OBVIOUS
      <3>2. ~mGCFreeZone[tls[s]] /\ tls[s] \in Allocs
        BY <2>2 DEF ZoneInv, OwnersInv
      <3>3. CASE tls[s] = a
        BY <2>2, <3>1, <3>2, <3>3
      <3>4. CASE tls[s] # a
        BY <2>2, <3>1, <3>2, <3>4 DEF PauseInv, PausedHasReleaser
      <3> QED BY <3>3, <3>4
    <2> QED BY <2>1, <2>2 DEF PauseInv, PausedHasReleaser
  <1>10. RangeInv' /\ NoStaleRange' BY DEF RangeInv, OwnersInv, NoStaleRange
  <1> QED BY <1>1, <1>2, <1>3, <1>4, <1>5, <1>6, <1>7, <1>8, <1>9, <1>10

\* CollectReturns keeps the invariant.
LEMMA CollectReturnsInv ==
  ASSUME IInv, NEW t \in Threads, CollectReturns(t)
  PROVE  IInv'
  <1> USE DEF IInv, TypeOK, CollectReturns
  <1>1. TypeOK' BY DEF PCs, Returns
  <1>2. OwnersInv' BY DEF OwnersInv, RetInv
  <1>3. RetInv' /\ LockInv' BY DEF RetInv, LockInv
  <1>4. WinnerInv' BY DEF WinnerInv, LockInv, RetInv
  <1>5. ZoneInv' /\ ReadyInv' BY DEF ZoneInv, OwnersInv, RetInv, ReadyInv
  <1>6. DoneInv' BY DEF DoneInv, OwnersInv
  <1>7. SafeInv' BY DEF SafeInv, Safe, OwnersInv, LockInv, WinnerInv, RetInv
  <1>8. PendingInv' /\ WaitingInv' BY DEF PendingInv, OwnersInv, LockInv, WinnerInv, RetInv, WaitingInv
  <1>9. PauseInv' BY DEF PauseInv, PausedHasReleaser, OwnersInv, RetInv
  <1>10. RangeInv' /\ NoStaleRange' BY DEF RangeInv, OwnersInv, RetInv, NoStaleRange
  <1> QED BY <1>1, <1>2, <1>3, <1>4, <1>5, <1>6, <1>7, <1>8, <1>9, <1>10

-----------------------------------------------------------------------------
\* A step that changes nothing.
LEMMA StutterInv == IInv /\ UNCHANGED vars => IInv'
  BY DEF vars, IInv, TypeOK, OwnersInv, RetInv, LockInv, WinnerInv, ZoneInv, ReadyInv, DoneInv, SafeInv,
         Safe, PendingInv, WaitingInv, PauseInv, PausedHasReleaser, RangeInv, NoStaleRange

\* Every step of the protocol keeps the invariant.
LEMMA NextInv == IInv /\ [Next]_vars => IInv'
  <1> SUFFICES ASSUME IInv, [Next]_vars PROVE IInv'
    OBVIOUS
  <1>1. CASE UNCHANGED vars
    BY <1>1, StutterInv
  <1>2. ASSUME NEW t \in Threads, Attachment(t) PROVE IInv'
    BY <1>2, GetPooledAllocatorInv, AttachThreadInv, ReleaseInv, ReleaseLockedInv DEF Attachment
  <1>3. ASSUME NEW t \in Threads, FreeZone(t) PROVE IInv'
    BY <1>3, EnterGCFreeZoneInv, EnteredGCFreeZoneInv, ExitGCFreeZoneInv DEF FreeZone
  <1>4. ASSUME NEW t \in Threads, Pausing(t) PROVE IInv'
    BY <1>4, PauseForCollectInv, ResumedInv, SafePointInv DEF Pausing
  <1>5. ASSUME NEW t \in Threads, Allocation(t) PROVE IInv'
    BY <1>5,
       BumpAllocInv, CallAllocInv, AllocFitsInv, MoreHolesInv, NextHoleInv,
       NoMoreHolesInv, GetFreeBlockInv, NoFreeBlockInv, PauseOrLockInv, EnterForLockInv,
       ExitGCFreeZoneLockedInv, LockedBlockInv, MoreBlocksInv, LockedCollectInv,
       RecheckInv DEF Allocation
  <1>6. ASSUME NEW t \in Threads, Collection(t) PROVE IInv'
    BY <1>6,
       CollectFromThisThreadInv, CollectWinsInv, CollectLosesInv, CollectLockInv,
       WaitForSafeInv, IsReadyInv, StartCollectingInv, FinalizerEntersInv,
       FinalizerExitsInv, ReclaimInv, StopCollectingInv, ClearPauseInv,
       ReleaseFromSafeInv, CollectReturnsInv DEF Collection
  <1> QED BY <1>1, <1>2, <1>3, <1>4, <1>5, <1>6 DEF Next

\* IInv holds in every reachable state.
THEOREM Invariance == Spec => []IInv
  BY InitInv, NextInv, PTL DEF Spec

-----------------------------------------------------------------------------
\* Every variable keeps its type; above all no allocator has less than no
\* holes left, and no GetFreeBlock collects more than twice.
THEOREM TypeCorrect == Spec => []TypeOK
  <1>1. IInv => TypeOK
    BY DEF IInv
  <1> QED BY <1>1, Invariance, PTL

\* While a collection runs, only the collector is outside the free zone and
\* awake: the collector has exclusive use of the heap.
THEOREM StopsTheWorld == Spec => []WorldStopped
  <1>1. IInv => WorldStopped
    <2> SUFFICES ASSUME IInv, sgIsCollecting, NEW t \in Threads, InHeap(t)
                 PROVE  gThreadStateChangeLock = t
      BY DEF WorldStopped
    <2>1. PICK c \in Threads : pc[c] \in GcPcs
      BY DEF IInv, WinnerInv
    <2>2. gThreadStateChangeLock = c
      BY <2>1 DEF IInv, LockInv
    <2>3. CASE pc[t] = "gczone"
      BY <2>1, <2>2, <2>3 DEF IInv, WinnerInv
    <2>4. CASE pc[t] # "gczone"
      <3>1. ~Safe(t) /\ Registered(t)
        BY <2>4 DEF Safe, InHeap
      <3> QED BY <2>1, <2>2, <3>1 DEF IInv, SafeInv
    <2> QED BY <2>3, <2>4
  <1> QED BY <1>1, Invariance, PTL

\* No allocator keeps a range of rows through a collection.
THEOREM RangesAreFresh == Spec => []NoStaleRange
  <1>1. IInv => NoStaleRange
    BY DEF IInv
  <1> QED BY <1>1, Invariance, PTL

\* A thread the collector waits for cannot go on bumping spaceStart.
THEOREM StoppingSticks == Spec => []StopSticks
  <1>1. IInv => StopSticks
    BY DEF IInv, RangeInv, OwnersInv, StopSticks
  <1> QED BY <1>1, Invariance, PTL

\* mCollectDone is set only for a thread that waits for it.
THEOREM WakeupsReach == Spec => []WakeupReaches
  <1>1. IInv => WakeupReaches
    BY DEF IInv, DoneInv, WakeupReaches
  <1> QED BY <1>1, Invariance, PTL

\* A paused thread has somebody who will wake it.
THEOREM NobodyIsForgotten == Spec => []PausedHasReleaser
  <1>1. IInv => PausedHasReleaser
    BY DEF IInv, PauseInv
  <1> QED BY <1>1, Invariance, PTL

=============================================================================
