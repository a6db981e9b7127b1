----------------------------- MODULE LockProofs -----------------------------
(***************************************************************************)
(* The safety of Lock, for any finite set of threads, any number of        *)
(* permits and both builds.                                                *)
(*                                                                         *)
(* That nobody sleeps beside a permit is not inductive: a thread that saw  *)
(* no permit and has not yet gone to sleep, or that was woken and is about *)
(* to wait again, must find the flag set or somebody on the way (PermitInv *)
(* looks at all of them); and a flag that is set while somebody waits is   *)
(* never stale: a thread that is awake will see it (FlagInv), so that the  *)
(* next Set may leave it at that.                                          *)
(***************************************************************************)
EXTENDS Lock, TLAPS

USE LockAssumption
USE DEF Goto

\* A flag is not left standing with only sleepers around.
FlagInv == mSet /\ Waiters # {} => \E t \in Threads : pc[t] \in {"awake", "wait"}

\* Whoever saw no permit is covered once there is one.
PermitInv ==
  mAvailable > 0 /\ (\E t \in Threads : pc[t] \in {"none", "wait", "waiting", "awake"}) =>
    mSet \/ \E t \in Threads : pc[t] \in {"look", "exit"}

\* The inductive invariant.
LockInv == TypeOK /\ FlagInv /\ PermitInv

-----------------------------------------------------------------------------
(* HxSemaphore::Set.                                                       *)

\* Set keeps the types, and moves waiters only.
LEMMA SetTypes ==
  ASSUME TypeOK, NEW at \in [Threads -> PCs], Set(at)
  PROVE  /\ mSet' \in BOOLEAN
         /\ pc' \in [Threads -> PCs]
         /\ \A t \in Threads : pc'[t] # at[t] => t \in Waiters /\ pc'[t] \in {"exit", "awake"}
  BY DEF Set, TypeOK, PCs, Waiters

\* After Set the flag stands, or a waiter has been let go; and a flag that
\* stands while somebody waits will be seen.  `at` is where the threads are
\* but for the one that calls Set, which did not wait, and does not go to
\* wait.
LEMMA SetHeard ==
  ASSUME TypeOK, FlagInv,
         NEW at \in [Threads -> PCs], Set(at),
         \A t \in Threads : at[t] # pc[t] => at[t] = "idle" /\ pc[t] \notin {"waiting", "awake", "wait"}
  PROVE  /\ FlagInv'
         /\ mSet' \/ \E t \in Threads : pc'[t] = "exit"
  <1>1. CASE mSet
    BY <1>1 DEF Set, FlagInv, Waiters, TypeOK
  <1>2. CASE Waiters = {}
    BY <1>2 DEF Set, FlagInv, Waiters, TypeOK
  <1>3. CASE ~mSet /\ Waiters # {}
    <2>1. PICK w \in Waiters : pc' = [at EXCEPT ![w] = IF event THEN "exit" ELSE "awake"]
      BY <1>3 DEF Set
    <2>2. w \in Threads /\ mSet' = ~event
      BY <1>3 DEF Set, Waiters
    <2>3. CASE event
      BY <2>1, <2>2, <2>3 DEF FlagInv
    <2>4. CASE ~event
      BY <2>1, <2>2, <2>4 DEF FlagInv, TypeOK
    <2> QED BY <2>3, <2>4
  <1> QED BY <1>1, <1>2, <1>3

-----------------------------------------------------------------------------
(* The invariant.                                                          *)

LEMMA LockInit == Init => LockInv
  <1> SUFFICES ASSUME Init PROVE LockInv
    OBVIOUS
  <1>1. TypeOK
    <2>1. pc \in [Threads -> PCs]
      BY DEF Init, PCs
    <2>2. event \in BOOLEAN /\ mSet \in BOOLEAN
      BY Zenon DEF Init
    <2> QED BY <2>1, <2>2 DEF Init, TypeOK
  <1>2. FlagInv /\ PermitInv
    BY DEF Init, FlagInv, PermitInv
  <1> QED BY <1>1, <1>2 DEF LockInv

\* Release: the semaphore is told of every permit.
LEMMA ReleaseKeeps ==
  ASSUME LockInv, NEW t \in Threads, Release(t)
  PROVE  LockInv'
  <1>1. pc \in [Threads -> PCs]
    BY DEF LockInv, TypeOK
  <1>2. TypeOK'
    BY <1>1, SetTypes DEF LockInv, Release, TypeOK
  <1>3. FlagInv' /\ (mSet' \/ \E u \in Threads : pc'[u] = "exit")
    BY <1>1, SetHeard DEF LockInv, Release
  <1>4. PermitInv'
    BY <1>3 DEF PermitInv
  <1> QED BY <1>2, <1>3, <1>4 DEF LockInv

\* Take: the signal goes on with the last permit but one.
LEMMA TakeKeeps ==
  ASSUME LockInv, NEW t \in Threads, Take(t)
  PROVE  LockInv'
  <1> DEFINE back == [pc EXCEPT ![t] = "idle"]
  <1>1. pc \in [Threads -> PCs] /\ back \in [Threads -> PCs]
    BY DEF LockInv, TypeOK, PCs
  <1>2. pc[t] = "look" /\ mAvailable \in Nat /\ mAvailable' = mAvailable - 1
    BY DEF LockInv, TypeOK, Take
  <1>3. event' \in BOOLEAN /\ timed' \subseteq Threads /\ late' \subseteq timed'
        /\ mAvailable' \in 0..MaxAvailable
    BY DEF LockInv, TypeOK, Take
  <1>4. CASE mAvailable > 1
    <2>1. Set(back)
      BY <1>4 DEF Take
    <2>2. TypeOK'
      BY <1>1, <1>3, <2>1, SetTypes DEF LockInv, TypeOK
    <2>3. \A u \in Threads : back[u] # pc[u] =>
            back[u] = "idle" /\ pc[u] \notin {"waiting", "awake", "wait"}
      BY <1>1, <1>2
    <2>4. FlagInv' /\ (mSet' \/ \E u \in Threads : pc'[u] = "exit")
      <3> HIDE DEF back
      <3> QED BY <1>1, <2>1, <2>3, SetHeard DEF LockInv
    <2>5. PermitInv'
      BY <2>4 DEF PermitInv
    <2> QED BY <2>2, <2>4, <2>5 DEF LockInv
  <1>5. CASE ~(mAvailable > 1)
    <2>1. pc' = back /\ mSet' = mSet /\ mAvailable' = 0
      BY <1>2, <1>5 DEF Take
    <2>2. TypeOK'
      BY <1>1, <1>3, <2>1 DEF LockInv, TypeOK
    <2>3. FlagInv'
      BY <1>1, <1>2, <2>1 DEF LockInv, FlagInv, Waiters
    <2>4. PermitInv'
      BY <2>1 DEF PermitInv
    <2> QED BY <2>2, <2>3, <2>4 DEF LockInv
  <1> QED BY <1>4, <1>5

\* The steps that move one thread and set no flag.
LEMMA OthersKeep ==
  ASSUME LockInv, NEW t \in Threads,
         \/ Wait(t) \/ NothingThere(t) \/ GiveUp(t) \/ Sleep(t) \/ Again(t)
         \/ Woken(t) \/ Block(t) \/ TimePasses(t) \/ Spurious(t) \/ TimedOut(t)
  PROVE  LockInv'
  <1> USE DEF LockInv
  <1>1. CASE Wait(t)
    BY <1>1 DEF Wait, TypeOK, PCs, FlagInv, PermitInv, Waiters
  <1>2. CASE NothingThere(t)
    BY <1>2 DEF NothingThere, TypeOK, PCs, FlagInv, PermitInv, Waiters
  <1>3. CASE GiveUp(t)
    BY <1>3 DEF GiveUp, TypeOK, PCs, FlagInv, PermitInv, Waiters
  <1>4. CASE Sleep(t)
    BY <1>4 DEF Sleep, TypeOK, PCs, FlagInv, PermitInv, Waiters
  <1>5. CASE Again(t)
    BY <1>5 DEF Again, TypeOK, PCs, FlagInv, PermitInv, Waiters
  <1>6. CASE Woken(t)
    BY <1>6 DEF Woken, TypeOK, PCs, FlagInv, PermitInv, Waiters
  <1>7. CASE Block(t)
    BY <1>7 DEF Block, TypeOK, PCs, FlagInv, PermitInv, Waiters
  <1>8. CASE TimePasses(t)
    BY <1>8 DEF TimePasses, TypeOK, PCs, FlagInv, PermitInv, Waiters
  <1>9. CASE Spurious(t)
    BY <1>9 DEF Spurious, TypeOK, PCs, FlagInv, PermitInv, Waiters
  <1>10. CASE TimedOut(t)
    <2>1. TypeOK'
      BY <1>10 DEF TimedOut, TypeOK, PCs
    <2>2. FlagInv'
      BY <1>10 DEF TimedOut, TypeOK, FlagInv, Waiters
    <2>3. PermitInv'
      BY <1>10 DEF TimedOut, TypeOK, PCs, PermitInv
    <2> QED BY <2>1, <2>2, <2>3
  <1> QED BY <1>1, <1>2, <1>3, <1>4, <1>5, <1>6, <1>7, <1>8, <1>9, <1>10

LEMMA LockNext == LockInv /\ [Next]_vars => LockInv'
  <1> SUFFICES ASSUME LockInv, [Next]_vars PROVE LockInv'
    OBVIOUS
  <1>1. CASE UNCHANGED vars
    BY <1>1 DEF vars, LockInv, TypeOK, FlagInv, PermitInv, Waiters
  <1>2. CASE Next
    BY <1>2, ReleaseKeeps, TakeKeeps, OthersKeep DEF Next, Step
  <1> QED BY <1>1, <1>2

\* The invariant holds throughout.
THEOREM LockInvariant == Spec => []LockInv
  BY LockInit, LockNext, PTL DEF Spec

\* Permits and time limits stay within their ranges, whatever is released,
\* waited for and given up (hxLock::Wait and Release).
THEOREM LockTypeCorrect == Spec => []TypeOK
  BY LockInvariant, PTL DEF LockInv

\* Nobody sleeps beside a permit that nobody is about to take or to signal,
\* for any number of threads (hxLock::Wait over HxSemaphore::WaitSeconds).
THEOREM LockWakesUp == Spec => []NoPermitSleptThrough
  <1>1. LockInv => NoPermitSleptThrough
    BY DEF LockInv, TypeOK, FlagInv, PermitInv, Waiters, NoPermitSleptThrough
  <1> QED BY <1>1, LockInvariant, PTL
=============================================================================
