---------------------------- MODULE DequeProofs ----------------------------
(***************************************************************************)
(* The safety properties of Deque, for any number of threads and any       *)
(* length.                                                                 *)
(*                                                                         *)
(* The mutex is held exactly inside the critical sections (MutexInv), a    *)
(* thread is in the free zone exactly around them (ZoneInv), and while the *)
(* collector runs every thread is there or paused (CollectInv): that much  *)
(* holds in both builds.  That no value is slept through needs more, and   *)
(* holds with pthreads only (WakeInv): with a value in the deque and a     *)
(* thread inside QWait, either the flag is set and a thread is up to see   *)
(* it, or a consumer is in its critical section and about to take the      *)
(* value, and to pass the signal on if there are more.                     *)
(***************************************************************************)
EXTENDS Deque, FiniteSetTheorems, TLAPS

USE DequeAssumption
USE DEF Goto

\* The values in the deque and those on their way fit.
LengthInv == length + Cardinality(Pushes) <= MaxLength

\* The pcs inside the mutex.
Inside == {"test", "wait", "exit", "shift", "pushexit", "pushing", "pushpause"}

MutexInv == \A t \in Threads : pc[t] \in Inside <=> mMutex = t

\* The pcs outside the free zone.
Outside == {"idle", "idlepause", "shift", "pushing", "pushpause"}

ZoneInv == \A t \in Threads : t \in zone <=> pc[t] \notin Outside

CollectInv == gc = "running" => \A t \in Threads : pc[t] \notin {"idle", "shift", "pushing"}

WakeInv ==
  lockable /\ length > 0 /\ (\E t \in Threads : pc[t] \in {"waiting", "awake", "wait"}) =>
    \/ mSet /\ \E t \in Threads : pc[t] \in {"awake", "wait"}
    \/ \E t \in Threads : pc[t] \in {"test", "exit", "shift"}

\* The inductive invariant.
DequeInv == TypeOK /\ LengthInv /\ MutexInv /\ ZoneInv /\ CollectInv /\ WakeInv

-----------------------------------------------------------------------------
(* Lengths.                                                                *)

\* Pushes is finite.
LEMMA PushesFinite == IsFiniteSet(Pushes) /\ Cardinality(Pushes) \in Nat
  <1>1. IsFiniteSet(Pushes)
    BY FS_Subset DEF Pushes
  <1> QED BY <1>1, FS_CardinalityType

\* A step that leaves the length and the pushers alone keeps the bound.
LEMMA LengthKept ==
  ASSUME LengthInv, length' = length, Pushes' = Pushes
  PROVE  LengthInv'
  BY DEF LengthInv

\* One thread enters a push: there is room for one more.
LEMMA LengthPush ==
  ASSUME TypeOK, NEW t \in Threads, Push(t)
  PROVE  LengthInv'
  <1>1. t \notin Pushes /\ Pushes' = Pushes \cup {t}
    BY DEF TypeOK, Push, Pushes
  <1>2. Cardinality(Pushes') = Cardinality(Pushes) + 1
    BY <1>1, PushesFinite, FS_AddElement
  <1> QED BY <1>2, PushesFinite DEF TypeOK, Push, LengthInv

\* A push done: one value more, one pusher less.
LEMMA LengthPushing ==
  ASSUME TypeOK, LengthInv, NEW t \in Threads, Pushing(t)
  PROVE  LengthInv' /\ length' \in 0..MaxLength
  <1>1. t \in Pushes /\ Pushes' = Pushes \ {t}
    BY DEF TypeOK, Pushing, SignalAndReturn, Pushes, Waiters
  <1>2. Cardinality(Pushes') = Cardinality(Pushes) - 1
    BY <1>1, PushesFinite, FS_RemoveElement
  <1>3. Cardinality(Pushes') \in Nat
    BY <1>1, PushesFinite, FS_Subset, FS_CardinalityType
  <1> QED BY <1>2, <1>3, PushesFinite DEF TypeOK, Pushing, LengthInv

-----------------------------------------------------------------------------
(* The actions: push.                                                      *)

\* Entering the free zone to push keeps the invariant.
LEMMA PushInv ==
  ASSUME DequeInv, NEW t \in Threads, Push(t)
  PROVE  DequeInv'
  <1> USE DEF DequeInv, TypeOK, Push
  <1>1. TypeOK' BY DEF PCs
  <1>2. LengthInv' BY LengthPush
  <1>3. MutexInv' BY DEF MutexInv, Inside
  <1>4. ZoneInv' BY DEF ZoneInv, Outside
  <1>5. CollectInv' BY DEF CollectInv, ZoneInv, MutexInv, Inside, Outside
  <1>6. WakeInv' BY DEF WakeInv, MutexInv, Inside
  <1> QED BY <1>1, <1>2, <1>3, <1>4, <1>5, <1>6

\* Taking the mutex to push keeps it.
LEMMA PushLockInv ==
  ASSUME DequeInv, NEW t \in Threads, PushLock(t)
  PROVE  DequeInv'
  <1> USE DEF DequeInv, TypeOK, PushLock, Lock
  <1>1. TypeOK' BY DEF PCs
  <1>2. LengthInv'
    <2>1. length' = length /\ Pushes' = Pushes BY DEF Pushes
    <2> QED BY <2>1, LengthKept
  <1>3. MutexInv' BY DEF MutexInv, Inside
  <1>4. ZoneInv' BY DEF ZoneInv, Outside
  <1>5. CollectInv' BY DEF CollectInv, ZoneInv, MutexInv, Inside, Outside
  <1>6. WakeInv' BY DEF WakeInv, MutexInv, Inside
  <1> QED BY <1>1, <1>2, <1>3, <1>4, <1>5, <1>6

\* Leaving the free zone keeps it: the collector does not run.
LEMMA PushExitInv ==
  ASSUME DequeInv, NEW t \in Threads, PushExit(t)
  PROVE  DequeInv'
  <1> USE DEF DequeInv, TypeOK, PushExit, ExitGCFreeZone
  <1>1. TypeOK' BY DEF PCs
  <1>2. LengthInv'
    <2>1. length' = length /\ Pushes' = Pushes BY DEF Pushes
    <2> QED BY <2>1, LengthKept
  <1>3. MutexInv' BY DEF MutexInv, Inside
  <1>4. ZoneInv' BY DEF ZoneInv, Outside
  <1>5. CollectInv' BY DEF CollectInv, ZoneInv, MutexInv, Inside, Outside
  <1>6. WakeInv' BY DEF WakeInv, MutexInv, Inside
  <1> QED BY <1>1, <1>2, <1>3, <1>4, <1>5, <1>6

\* The value and the signal keep it: a consumer that waits is woken, and
\* finds the flag set.
LEMMA PushingInv ==
  ASSUME DequeInv, NEW t \in Threads, Pushing(t)
  PROVE  DequeInv'
  <1> USE DEF DequeInv, TypeOK, Pushing, SignalAndReturn
  <1>1. TypeOK' BY LengthPushing DEF PCs, Waiters
  <1>2. LengthInv' BY LengthPushing
  <1>3. MutexInv'
    <2>1. mMutex = t /\ mMutex' = NoThread
      BY DEF MutexInv, Inside
    <2>2. \A u \in Threads : pc'[u] \in Inside => u # t /\ pc[u] \in Inside
      BY DEF Inside, Waiters
    <2>3. MutexInv /\ NoThread \notin Threads
      BY DequeAssumption
    <2> HIDE DEF DequeInv, TypeOK, Pushing, SignalAndReturn
    <2> QED BY <2>1, <2>2, <2>3 DEF MutexInv
  <1>4. ZoneInv' BY DEF ZoneInv, Outside, Waiters
  <1>5. CollectInv' BY DEF CollectInv, Waiters
  <1>6. WakeInv' BY DEF WakeInv, Waiters
  <1> QED BY <1>1, <1>2, <1>3, <1>4, <1>5, <1>6

-----------------------------------------------------------------------------
(* The actions: pop.                                                       *)

\* Entering the free zone to pop keeps it.
LEMMA PopInv ==
  ASSUME DequeInv, NEW t \in Threads, Pop(t)
  PROVE  DequeInv'
  <1> USE DEF DequeInv, TypeOK, Pop
  <1>1. TypeOK' BY DEF PCs
  <1>2. LengthInv'
    <2>1. length' = length /\ Pushes' = Pushes BY DEF Pushes
    <2> QED BY <2>1, LengthKept
  <1>3. MutexInv' BY DEF MutexInv, Inside
  <1>4. ZoneInv' BY DEF ZoneInv, Outside
  <1>5. CollectInv' BY DEF CollectInv, ZoneInv, MutexInv, Inside, Outside
  <1>6. WakeInv' BY DEF WakeInv, MutexInv, Inside
  <1> QED BY <1>1, <1>2, <1>3, <1>4, <1>5, <1>6

\* Taking the mutex to pop keeps it.
LEMMA PopLockInv ==
  ASSUME DequeInv, NEW t \in Threads, PopLock(t)
  PROVE  DequeInv'
  <1> USE DEF DequeInv, TypeOK, PopLock, Lock
  <1>1. TypeOK' BY DEF PCs
  <1>2. LengthInv'
    <2>1. length' = length /\ Pushes' = Pushes BY DEF Pushes
    <2> QED BY <2>1, LengthKept
  <1>3. MutexInv' BY DEF MutexInv, Inside
  <1>4. ZoneInv' BY DEF ZoneInv, Outside
  <1>5. CollectInv' BY DEF CollectInv, ZoneInv, MutexInv, Inside, Outside
  <1>6. WakeInv' BY DEF WakeInv, MutexInv, Inside
  <1> QED BY <1>1, <1>2, <1>3, <1>4, <1>5, <1>6

\* An empty deque is waited for.
LEMMA NothingYetInv ==
  ASSUME DequeInv, NEW t \in Threads, NothingYet(t)
  PROVE  DequeInv'
  <1> USE DEF DequeInv, TypeOK, NothingYet
  <1>1. TypeOK' BY DEF PCs
  <1>2. LengthInv'
    <2>1. length' = length /\ Pushes' = Pushes BY DEF Pushes
    <2> QED BY <2>1, LengthKept
  <1>3. MutexInv' BY DEF MutexInv, Inside
  <1>4. ZoneInv' BY DEF ZoneInv, Outside
  <1>5. CollectInv' BY DEF CollectInv, ZoneInv, MutexInv, Inside, Outside
  <1>6. WakeInv' BY DEF WakeInv, MutexInv, Inside
  <1> QED BY <1>1, <1>2, <1>3, <1>4, <1>5, <1>6

\* A deque that is not empty is not.
LEMMA SomethingInv ==
  ASSUME DequeInv, NEW t \in Threads, Something(t)
  PROVE  DequeInv'
  <1> USE DEF DequeInv, TypeOK, Something
  <1>1. TypeOK' BY DEF PCs
  <1>2. LengthInv'
    <2>1. length' = length /\ Pushes' = Pushes BY DEF Pushes
    <2> QED BY <2>1, LengthKept
  <1>3. MutexInv' BY DEF MutexInv, Inside
  <1>4. ZoneInv' BY DEF ZoneInv, Outside
  <1>5. CollectInv' BY DEF CollectInv, ZoneInv, MutexInv, Inside, Outside
  <1>6. WakeInv' BY DEF WakeInv, MutexInv, Inside
  <1> QED BY <1>1, <1>2, <1>3, <1>4, <1>5, <1>6

\* The flag is consumed by a thread that then looks at the deque.
LEMMA QWaitSetInv ==
  ASSUME DequeInv, NEW t \in Threads, QWaitSet(t)
  PROVE  DequeInv'
  <1> USE DEF DequeInv, TypeOK, QWaitSet
  <1>1. TypeOK' BY DEF PCs
  <1>2. LengthInv'
    <2>1. length' = length /\ Pushes' = Pushes BY DEF Pushes
    <2> QED BY <2>1, LengthKept
  <1>3. MutexInv' BY DEF MutexInv, Inside
  <1>4. ZoneInv' BY DEF ZoneInv, Outside
  <1>5. CollectInv' BY DEF CollectInv, ZoneInv, MutexInv, Inside, Outside
  <1>6. WakeInv' BY DEF WakeInv, MutexInv, Inside
  <1> QED BY <1>1, <1>2, <1>3, <1>4, <1>5, <1>6

\* Without the flag there is nothing in the deque: the other reason why it may
\* be clear is a consumer in its critical section, and the mutex is here.
LEMMA QWaitInv ==
  ASSUME DequeInv, NEW t \in Threads, QWait(t)
  PROVE  DequeInv'
  <1> USE DEF DequeInv, TypeOK, QWait
  <1>1. TypeOK' BY DEF PCs
  <1>2. LengthInv'
    <2>1. length' = length /\ Pushes' = Pushes BY DEF Pushes
    <2> QED BY <2>1, LengthKept
  <1>3. MutexInv' BY DEF MutexInv, Inside
  <1>4. ZoneInv' BY DEF ZoneInv, Outside
  <1>5. CollectInv' BY DEF CollectInv, ZoneInv, MutexInv, Inside, Outside
  <1>6. WakeInv' BY DEF WakeInv, MutexInv, Inside
  <1> QED BY <1>1, <1>2, <1>3, <1>4, <1>5, <1>6

\* A thread that has been woken still counts for WakeInv inside QWait.
LEMMA QWaitReturnsInv ==
  ASSUME DequeInv, NEW t \in Threads, QWaitReturns(t)
  PROVE  DequeInv'
  <1> USE DEF DequeInv, TypeOK, QWaitReturns, Lock
  <1>1. TypeOK' BY DEF PCs
  <1>2. LengthInv'
    <2>1. length' = length /\ Pushes' = Pushes BY DEF Pushes
    <2> QED BY <2>1, LengthKept
  <1>3. MutexInv' BY DEF MutexInv, Inside
  <1>4. ZoneInv' BY DEF ZoneInv, Outside
  <1>5. CollectInv' BY DEF CollectInv, ZoneInv, MutexInv, Inside, Outside
  <1>6. WakeInv' BY DEF WakeInv, MutexInv, Inside
  <1> QED BY <1>1, <1>2, <1>3, <1>4, <1>5, <1>6

\* WakeInv says nothing of the Windows steps: the wait before Wait, ...
LEMMA ResetAndUnlockInv ==
  ASSUME DequeInv, NEW t \in Threads, ResetAndUnlock(t)
  PROVE  DequeInv'
  <1> USE DEF DequeInv, TypeOK, ResetAndUnlock
  <1>1. TypeOK' BY DEF PCs
  <1>2. LengthInv'
    <2>1. length' = length /\ Pushes' = Pushes BY DEF Pushes
    <2> QED BY <2>1, LengthKept
  <1>3. MutexInv' BY DEF MutexInv, Inside
  <1>4. ZoneInv' BY DEF ZoneInv, Outside
  <1>5. CollectInv' BY DEF CollectInv, ZoneInv, MutexInv, Inside, Outside
  <1>6. WakeInv' BY DEF WakeInv, MutexInv, Inside
  <1> QED BY <1>1, <1>2, <1>3, <1>4, <1>5, <1>6

\* ... Wait itself ...
LEMMA WaitForEventInv ==
  ASSUME DequeInv, NEW t \in Threads, WaitForEvent(t)
  PROVE  DequeInv'
  <1> USE DEF DequeInv, TypeOK, WaitForEvent
  <1>1. TypeOK' BY DEF PCs
  <1>2. LengthInv'
    <2>1. length' = length /\ Pushes' = Pushes BY DEF Pushes
    <2> QED BY <2>1, LengthKept
  <1>3. MutexInv' BY DEF MutexInv, Inside
  <1>4. ZoneInv' BY DEF ZoneInv, Outside
  <1>5. CollectInv' BY DEF CollectInv, ZoneInv, MutexInv, Inside, Outside
  <1>6. WakeInv' BY DEF WakeInv, MutexInv, Inside
  <1> QED BY <1>1, <1>2, <1>3, <1>4, <1>5, <1>6

\* ... and the mutex after it.
LEMMA LockAgainInv ==
  ASSUME DequeInv, NEW t \in Threads, LockAgain(t)
  PROVE  DequeInv'
  <1> USE DEF DequeInv, TypeOK, LockAgain, Lock
  <1>1. TypeOK' BY DEF PCs
  <1>2. LengthInv'
    <2>1. length' = length /\ Pushes' = Pushes BY DEF Pushes
    <2> QED BY <2>1, LengthKept
  <1>3. MutexInv' BY DEF MutexInv, Inside
  <1>4. ZoneInv' BY DEF ZoneInv, Outside
  <1>5. CollectInv' BY DEF CollectInv, ZoneInv, MutexInv, Inside, Outside
  <1>6. WakeInv' BY DEF WakeInv, MutexInv, Inside
  <1> QED BY <1>1, <1>2, <1>3, <1>4, <1>5, <1>6

\* Leaving the free zone keeps it: the collector does not run.
LEMMA PopExitInv ==
  ASSUME DequeInv, NEW t \in Threads, PopExit(t)
  PROVE  DequeInv'
  <1> USE DEF DequeInv, TypeOK, PopExit, ExitGCFreeZone
  <1>1. TypeOK' BY DEF PCs
  <1>2. LengthInv'
    <2>1. length' = length /\ Pushes' = Pushes BY DEF Pushes
    <2> QED BY <2>1, LengthKept
  <1>3. MutexInv' BY DEF MutexInv, Inside
  <1>4. ZoneInv' BY DEF ZoneInv, Outside
  <1>5. CollectInv' BY DEF CollectInv, ZoneInv, MutexInv, Inside, Outside
  <1>6. WakeInv' BY DEF WakeInv, MutexInv, Inside
  <1> QED BY <1>1, <1>2, <1>3, <1>4, <1>5, <1>6

\* A consumer that leaves values behind passes the signal on.
LEMMA ShiftInv ==
  ASSUME DequeInv, NEW t \in Threads, Shift(t)
  PROVE  DequeInv'
  <1> DEFINE back == [pc EXCEPT ![t] = "idle"]
  <1> USE DEF DequeInv, TypeOK
  <1>1. /\ pc[t] = "shift" /\ mMutex' = NoThread
        /\ UNCHANGED <<lockable, inBlock, zone, gc>>
    BY DEF Shift
  <1>2. length' \in 0..length /\ (length' > 0 => length > 1)
    BY DEF Shift
  <1>3. \/ pc' = back
        \/ \E w \in Waiters : pc' = [back EXCEPT ![w] = "awake"]
    BY DEF Shift, SignalAndReturn
  <1>4. mSet' \in BOOLEAN
    BY DEF Shift, SignalAndReturn
  <1>5. lockable /\ length > 1 =>
          /\ mSet'
          /\ Waiters # {} => \E w \in Waiters : pc' = [back EXCEPT ![w] = "awake"]
    BY DEF Shift, SignalAndReturn
  <1>6. TypeOK'
    BY <1>1, <1>2, <1>3, <1>4 DEF PCs, Waiters
  <1>7. LengthInv'
    <2>1. Pushes' = Pushes BY <1>1, <1>3 DEF Pushes, Waiters
    <2> QED BY <1>2, <2>1, PushesFinite DEF LengthInv
  <1>8. MutexInv' BY <1>1, <1>3 DEF MutexInv, Inside, Waiters
  <1>9. ZoneInv' BY <1>1, <1>3 DEF ZoneInv, Outside, Waiters
  <1>10. CollectInv' BY <1>1, <1>3 DEF CollectInv, Waiters
  <1>11. WakeInv' BY <1>1, <1>2, <1>3, <1>5 DEF WakeInv, Waiters
  <1> QED BY <1>6, <1>7, <1>8, <1>9, <1>10, <1>11

-----------------------------------------------------------------------------
(* The actions: the collector.                                             *)

\* A safe point keeps it.
LEMMA PauseInv ==
  ASSUME DequeInv, NEW t \in Threads, Pause(t)
  PROVE  DequeInv'
  <1> USE DEF DequeInv, TypeOK, Pause
  <1>1. TypeOK' BY DEF PCs
  <1>2. LengthInv'
    <2>1. length' = length /\ Pushes' = Pushes BY DEF Pushes
    <2> QED BY <2>1, LengthKept
  <1>3. MutexInv' BY DEF MutexInv, Inside
  <1>4. ZoneInv' BY DEF ZoneInv, Outside
  <1>5. CollectInv' BY DEF CollectInv, ZoneInv, MutexInv, Inside, Outside
  <1>6. WakeInv' BY DEF WakeInv, MutexInv, Inside
  <1> QED BY <1>1, <1>2, <1>3, <1>4, <1>5, <1>6

\* The end of the pause keeps it: the collector does not run.
LEMMA ResumeInv ==
  ASSUME DequeInv, NEW t \in Threads, Resume(t)
  PROVE  DequeInv'
  <1> USE DEF DequeInv, TypeOK, Resume
  <1>1. TypeOK' BY DEF PCs
  <1>2. LengthInv'
    <2>1. length' = length /\ Pushes' = Pushes BY DEF Pushes
    <2> QED BY <2>1, LengthKept
  <1>3. MutexInv' BY DEF MutexInv, Inside
  <1>4. ZoneInv' BY DEF ZoneInv, Outside
  <1>5. CollectInv' BY DEF CollectInv, ZoneInv, MutexInv, Inside, Outside
  <1>6. WakeInv' BY DEF WakeInv, MutexInv, Inside
  <1> QED BY <1>1, <1>2, <1>3, <1>4, <1>5, <1>6

\* So does the wish for a collection, ...
LEMMA WantCollectInv ==
  ASSUME DequeInv, WantCollect
  PROVE  DequeInv'
  <1> USE DEF DequeInv, TypeOK, WantCollect
  <1>1. TypeOK' BY DEF PCs
  <1>2. LengthInv'
    <2>1. length' = length /\ Pushes' = Pushes BY DEF Pushes
    <2> QED BY <2>1, LengthKept
  <1>3. MutexInv' BY DEF MutexInv, Inside
  <1>4. ZoneInv' BY DEF ZoneInv, Outside
  <1>5. CollectInv' BY DEF CollectInv, ZoneInv, MutexInv, Inside, Outside
  <1>6. WakeInv' BY DEF WakeInv, MutexInv, Inside
  <1> QED BY <1>1, <1>2, <1>3, <1>4, <1>5, <1>6

\* ... the end of one, ...
LEMMA EndCollectInv ==
  ASSUME DequeInv, EndCollect
  PROVE  DequeInv'
  <1> USE DEF DequeInv, TypeOK, EndCollect
  <1>1. TypeOK' BY DEF PCs
  <1>2. LengthInv'
    <2>1. length' = length /\ Pushes' = Pushes BY DEF Pushes
    <2> QED BY <2>1, LengthKept
  <1>3. MutexInv' BY DEF MutexInv, Inside
  <1>4. ZoneInv' BY DEF ZoneInv, Outside
  <1>5. CollectInv' BY DEF CollectInv, ZoneInv, MutexInv, Inside, Outside
  <1>6. WakeInv' BY DEF WakeInv, MutexInv, Inside
  <1> QED BY <1>1, <1>2, <1>3, <1>4, <1>5, <1>6

\* ... and its start, which waits until every thread is safe.
LEMMA StartCollectInv ==
  ASSUME DequeInv, StartCollect
  PROVE  DequeInv'
  <1> USE DEF DequeInv, TypeOK, StartCollect
  <1>1. TypeOK' BY DEF PCs
  <1>2. LengthInv'
    <2>1. length' = length /\ Pushes' = Pushes BY DEF Pushes
    <2> QED BY <2>1, LengthKept
  <1>3. MutexInv' BY DEF MutexInv, Inside
  <1>4. ZoneInv' BY DEF ZoneInv, Outside
  <1>5. CollectInv' BY DEF CollectInv, ZoneInv, Outside, Paused
  <1>6. WakeInv' BY DEF WakeInv, MutexInv, Inside
  <1> QED BY <1>1, <1>2, <1>3, <1>4, <1>5, <1>6

-----------------------------------------------------------------------------
(* The theorems.                                                           *)

\* The invariant holds of an empty deque nobody uses.
LEMMA InitDequeInv == Init => DequeInv
  <1> SUFFICES ASSUME Init PROVE DequeInv
    OBVIOUS
  <1> USE DEF Init
  <1>1. Pushes = {} BY DEF Pushes
  <1>2. LengthInv BY <1>1, FS_EmptySet DEF LengthInv
  <1>3. TypeOK
    <2>1. 0 \in 0..MaxLength OBVIOUS
    <2> QED BY <2>1 DEF TypeOK, PCs
  <1>4. MutexInv /\ ZoneInv BY DEF MutexInv, Inside, ZoneInv, Outside
  <1>5. CollectInv /\ WakeInv BY DEF CollectInv, WakeInv
  <1> QED BY <1>2, <1>3, <1>4, <1>5 DEF DequeInv

\* Every step keeps it.
LEMMA NextDequeInv == DequeInv /\ [Next]_vars => DequeInv'
  <1> SUFFICES ASSUME DequeInv, [Next]_vars PROVE DequeInv'
    OBVIOUS
  <1>1. ASSUME NEW t \in Threads, Push(t) \/ PushBack(t) PROVE DequeInv'
    BY <1>1, PushInv, PushLockInv, PushExitInv, PushingInv DEF PushBack
  <1>2. ASSUME NEW t \in Threads, Pop(t) PROVE DequeInv'
    BY <1>2, PopInv
  <1>3. ASSUME NEW t \in Threads, PopFront(t) PROVE DequeInv'
    BY <1>3, PopLockInv, NothingYetInv, SomethingInv, QWaitSetInv, QWaitInv, QWaitReturnsInv,
       ResetAndUnlockInv, WaitForEventInv, LockAgainInv, PopExitInv, ShiftInv DEF PopFront
  <1>4. ASSUME NEW t \in Threads, Pause(t) \/ Resume(t) PROVE DequeInv'
    BY <1>4, PauseInv, ResumeInv
  <1>5. CASE Collector
    BY <1>5, WantCollectInv, StartCollectInv, EndCollectInv DEF Collector
  <1>6. CASE UNCHANGED vars
    <2> USE <1>6 DEF vars, DequeInv
    <2>1. TypeOK' BY DEF TypeOK
    <2>2. LengthInv' BY LengthKept DEF Pushes
    <2>3. MutexInv' /\ ZoneInv' BY DEF MutexInv, ZoneInv
    <2>4. CollectInv' /\ WakeInv' BY DEF CollectInv, WakeInv
    <2> QED BY <2>1, <2>2, <2>3, <2>4
  <1> QED BY <1>1, <1>2, <1>3, <1>4, <1>5, <1>6 DEF Next

\* The invariant holds in every reachable state.
THEOREM DequeInvariance == Spec => []DequeInv
  <1>1. Init => DequeInv BY InitDequeInv
  <1>2. DequeInv /\ [Next]_vars => DequeInv' BY NextDequeInv
  <1> QED BY <1>1, <1>2, PTL DEF Spec

\* Every variable keeps its type; the deque never holds more than the
\* producers were let put in.
THEOREM DequeTypeCorrect == Spec => []TypeOK
  <1>1. DequeInv => TypeOK BY DEF DequeInv
  <1> QED BY <1>1, DequeInvariance, PTL

\* No step changes the build.
LEMMA SameBuild == [Next]_vars => lockable' = lockable
  <1> SUFFICES ASSUME [Next]_vars PROVE lockable' = lockable
    OBVIOUS
  <1>1. ASSUME NEW t \in Threads, Push(t) \/ PushBack(t) PROVE lockable' = lockable
    BY <1>1 DEF Push, PushBack, PushLock, PushExit, Pushing, Lock, ExitGCFreeZone
  <1>2. ASSUME NEW t \in Threads, Pop(t) \/ PopFront(t) PROVE lockable' = lockable
    BY <1>2 DEF Pop, PopFront, PopLock, NothingYet, Something, QWaitSet, QWait, QWaitReturns,
       ResetAndUnlock, WaitForEvent, LockAgain, PopExit, Shift, Lock, ExitGCFreeZone
  <1>3. ASSUME NEW t \in Threads, Pause(t) \/ Resume(t) PROVE lockable' = lockable
    BY <1>3 DEF Pause, Resume
  <1>4. CASE Collector
    BY <1>4 DEF Collector, WantCollect, StartCollect, EndCollect
  <1>5. CASE UNCHANGED vars
    BY <1>5 DEF vars
  <1> QED BY <1>1, <1>2, <1>3, <1>4, <1>5 DEF Next

\* With pthreads no consumer waits beside a value that nobody is about to
\* take or to tell it of (PopFront and the signals of the pushes).
THEOREM NoValueSleptThrough == lockable /\ Spec => []WaitsOnlyForSomething
  <1>1. lockable /\ [Next]_vars => lockable'
    BY SameBuild
  <1>2. DequeInv /\ lockable => WaitsOnlyForSomething
    BY DEF DequeInv, WakeInv, WaitsOnlyForSomething, Waiters
  <1> QED BY <1>1, <1>2, DequeInvariance, PTL DEF Spec

\* In either build nobody is in the middle of a push or a shift while the
\* collector runs.
THEOREM DequeQuiet == Spec => []QuietDuringCollect
  <1>1. DequeInv => QuietDuringCollect BY DEF DequeInv, CollectInv, QuietDuringCollect
  <1> QED BY <1>1, DequeInvariance, PTL
=============================================================================
