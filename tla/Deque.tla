------------------------------- MODULE Deque -------------------------------
(***************************************************************************)
(* The blocking deque of src/hx/Thread.cpp over the semaphore and mutex of *)
(* include/hx/Thread.h, in its two builds, and the collector it must not   *)
(* hold up.  A critical section of the deque's mutex in which the thread   *)
(* neither waits nor pauses is one action.  The values in the deque play   *)
(* no part in who waits and who is woken: only their number is kept.       *)
(***************************************************************************)
EXTENDS Integers, FiniteSets

CONSTANTS Threads, NoThread,
          Consumers,   \* per build: the threads that may pop
          MaxLength    \* producers stop there (a bound of the model)

ASSUME DequeAssumption == /\ NoThread \notin Threads
                          /\ Consumers \in [BOOLEAN -> SUBSET Threads]
                          /\ IsFiniteSet(Threads)
                          /\ MaxLength \in Nat \ {0}

VARIABLES
  lockable,  \* the build, HX_THREAD_SEMAPHORE_LOCKABLE: pthreads, else Windows events
  pc,        \* where a thread is
  inBlock,   \* the argument of its PopFront
  mMutex,    \* who holds the deque's mutex
  mSet,      \* the semaphore's flag, or the state of the auto-reset event
  length,
  zone,      \* threads in a GC free zone
  gc         \* "no", "wanted" (gPauseForCollect) or "running" (sgIsCollecting)

vars == <<lockable, pc, inBlock, mMutex, mSet, length, zone, gc>>

PCs == {"idle",
        "pop", "lock", "test", "wait", "waiting", "awake", "exit", "shift",
        "push", "pushexit", "pushing",
        "idlepause", "pushpause"}

TypeOK ==
  /\ lockable \in BOOLEAN
  /\ pc \in [Threads -> PCs]
  /\ inBlock \in [Threads -> BOOLEAN]
  /\ mMutex \in Threads \cup {NoThread}
  /\ mSet \in BOOLEAN
  /\ length \in 0..MaxLength
  /\ zone \subseteq Threads
  /\ gc \in {"no", "wanted", "running"}

Init ==
  /\ lockable \in BOOLEAN
  /\ pc = [t \in Threads |-> "idle"]
  /\ inBlock = [t \in Threads |-> FALSE]
  /\ mMutex = NoThread
  /\ mSet = FALSE
  /\ length = 0
  /\ zone = {}
  /\ gc = "no"

Goto(t, from, to) == pc[t] = from /\ pc' = [pc EXCEPT ![t] = to]

Waiters == {t \in Threads : pc[t] = "waiting"}

\* AutoLock.
Lock(t, from, to) ==
  /\ Goto(t, from, to)
  /\ mMutex = NoThread
  /\ mMutex' = t
  /\ UNCHANGED <<lockable, inBlock, mSet, length, zone, gc>>

\* ExitGCFreeZone, with the deque's mutex held: it needs the collector's lock.
ExitGCFreeZone(t, from, to) ==
  /\ Goto(t, from, to)
  /\ gc # "running"
  /\ zone' = zone \ {t}
  /\ UNCHANGED <<lockable, inBlock, mMutex, mSet, length, gc>>

\* Variant: the condition is signalled, the flag not set.
SignalWithoutFlag(t) ==
  LET back == [pc EXCEPT ![t] = "idle"] IN
  /\ UNCHANGED mSet
  /\ IF Waiters = {} THEN pc' = back ELSE \E w \in Waiters : pc' = [back EXCEPT ![w] = "awake"]

\* QSet signals the condition, and the flag stays set until a waiter sees
\* it.  SetEvent releases a waiter, and the event is set only without one.
\* The thread that signals goes from its last label to "idle".
SignalAndReturn(t) ==
  LET back == [pc EXCEPT ![t] = "idle"] IN
  IF Waiters = {}
    THEN pc' = back /\ mSet' = TRUE
    ELSE /\ \E w \in Waiters : pc' = [back EXCEPT ![w] = "awake"]
         /\ mSet' = IF lockable THEN TRUE ELSE mSet

-----------------------------------------------------------------------------
(* PushBack and PushFront.                                                 *)

Pushes == {t \in Threads : pc[t] \in {"push", "pushexit", "pushing", "pushpause"}}

Push(t) ==
  /\ Goto(t, "idle", "push")
  /\ length + Cardinality(Pushes) < MaxLength
  /\ zone' = zone \cup {t}
  /\ UNCHANGED <<lockable, inBlock, mMutex, mSet, length, gc>>

PushLock(t) == Lock(t, "push", "pushexit")

PushExit(t) == ExitGCFreeZone(t, "pushexit", "pushing")

\* push or unshift, and the signal.
Pushing(t) ==
  /\ pc[t] = "pushing"
  /\ length' = length + 1
  /\ mMutex' = NoThread
  /\ SignalAndReturn(t)
  /\ UNCHANGED <<lockable, inBlock, zone, gc>>

-----------------------------------------------------------------------------
(* PopFront.                                                               *)

\* Variant: the consumer waits without telling the collector.
PopOutsideZone(t) ==
  /\ t \in Consumers[lockable]
  /\ Goto(t, "idle", "pop")
  /\ inBlock' \in {[inBlock EXCEPT ![t] = b] : b \in BOOLEAN}
  /\ UNCHANGED <<lockable, mMutex, mSet, length, zone, gc>>

Pop(t) ==
  /\ t \in Consumers[lockable]
  /\ Goto(t, "idle", "pop")
  /\ inBlock' \in {[inBlock EXCEPT ![t] = b] : b \in BOOLEAN}
  /\ zone' = zone \cup {t}
  /\ UNCHANGED <<lockable, mMutex, mSet, length, gc>>

PopLock(t) == Lock(t, "pop", "test")

\* The loop's condition.
NothingYet(t) ==
  /\ Goto(t, "test", "wait")
  /\ inBlock[t] /\ length = 0
  /\ UNCHANGED <<lockable, inBlock, mMutex, mSet, length, zone, gc>>

Something(t) ==
  /\ Goto(t, "test", "exit")
  /\ ~inBlock[t] \/ length > 0
  /\ UNCHANGED <<lockable, inBlock, mMutex, mSet, length, zone, gc>>

\* QWait sees the flag: consume it, look again.
QWaitSet(t) ==
  /\ lockable
  /\ Goto(t, "wait", "test")
  /\ mSet
  /\ mSet' = FALSE
  /\ UNCHANGED <<lockable, inBlock, mMutex, length, zone, gc>>

\* pthread_cond_wait gives up the mutex and waits, in one.
QWait(t) ==
  /\ lockable
  /\ Goto(t, "wait", "waiting")
  /\ ~mSet
  /\ mMutex' = NoThread
  /\ UNCHANGED <<lockable, inBlock, mSet, length, zone, gc>>

\* It takes the mutex again before it returns.
QWaitReturns(t) == lockable /\ Lock(t, "awake", "wait")

\* Windows: Reset and Unlock ...
ResetAndUnlock(t) ==
  /\ ~lockable
  /\ Goto(t, "wait", "lock")
  /\ mSet' = FALSE
  /\ mMutex' = NoThread
  /\ UNCHANGED <<lockable, inBlock, length, zone, gc>>

\* Variant: Reset comes after Unlock.
WaitForEventReset(t) ==
  /\ ~lockable
  /\ Goto(t, "lock", "waiting")
  /\ mSet' = FALSE
  /\ UNCHANGED <<lockable, inBlock, mMutex, length, zone, gc>>

\* ... and Wait, which consumes the event if it is set, then Lock.
WaitForEvent(t) ==
  /\ ~lockable
  /\ Goto(t, "lock", IF mSet THEN "awake" ELSE "waiting")
  /\ mSet' = FALSE
  /\ UNCHANGED <<lockable, inBlock, mMutex, length, zone, gc>>

LockAgain(t) == ~lockable /\ Lock(t, "awake", "test")

\* Variant: the value is taken first, and the zone left afterwards.
PopBeforeExit(t) ==
  Goto(t, "exit", "shift") /\ UNCHANGED <<lockable, inBlock, mMutex, mSet, length, zone, gc>>

\* Variant: the signal is not passed on.
ShiftOnly(t) ==
  /\ pc[t] = "shift"
  /\ length' = IF length > 0 THEN length - 1 ELSE 0
  /\ mMutex' = NoThread
  /\ pc' = [pc EXCEPT ![t] = "idle"]
  /\ UNCHANGED <<lockable, inBlock, mSet, zone, gc>>

PopExit(t) == ExitGCFreeZone(t, "exit", "shift")

\* shift.  With pthreads the consumer passes the signal on if there is more.
\* On Windows it resets the event if it takes the last one.
Shift(t) ==
  /\ pc[t] = "shift"
  /\ length' = IF length > 0 THEN length - 1 ELSE 0
  /\ mMutex' = NoThread
  /\ IF lockable /\ length > 1
       THEN SignalAndReturn(t)
       ELSE /\ pc' = [pc EXCEPT ![t] = "idle"]
            /\ mSet' = IF ~lockable /\ inBlock[t] /\ length = 1 THEN FALSE ELSE mSet
  /\ UNCHANGED <<lockable, inBlock, zone, gc>>

-----------------------------------------------------------------------------
(* The collector: any other part of the program may want a collection.     *)

\* A thread that runs, or that makes room for the value it pushes, pauses.
Pause(t) ==
  /\ gc = "wanted"
  /\ Goto(t, "idle", "idlepause") \/ Goto(t, "pushing", "pushpause")
  /\ UNCHANGED <<lockable, inBlock, mMutex, mSet, length, zone, gc>>

Resume(t) ==
  /\ gc = "no"
  /\ Goto(t, "idlepause", "idle") \/ Goto(t, "pushpause", "pushing")
  /\ UNCHANGED <<lockable, inBlock, mMutex, mSet, length, zone, gc>>

Paused == {t \in Threads : pc[t] \in {"idlepause", "pushpause"}}

WantCollect ==
  gc = "no" /\ gc' = "wanted" /\ UNCHANGED <<lockable, pc, inBlock, mMutex, mSet, length, zone>>

StartCollect ==
  /\ gc = "wanted"
  /\ Threads \subseteq zone \cup Paused
  /\ gc' = "running"
  /\ UNCHANGED <<lockable, pc, inBlock, mMutex, mSet, length, zone>>

EndCollect ==
  gc = "running" /\ gc' = "no" /\ UNCHANGED <<lockable, pc, inBlock, mMutex, mSet, length, zone>>

-----------------------------------------------------------------------------
PushBack(t) == PushLock(t) \/ PushExit(t) \/ Pushing(t)

PopFront(t) ==
  \/ PopLock(t) \/ NothingYet(t) \/ Something(t)
  \/ QWaitSet(t) \/ QWait(t) \/ QWaitReturns(t)
  \/ ResetAndUnlock(t) \/ WaitForEvent(t) \/ LockAgain(t)
  \/ PopExit(t) \/ Shift(t)

Collector == WantCollect \/ StartCollect \/ EndCollect

Next == \/ \E t \in Threads : Push(t) \/ PushBack(t) \/ Pop(t) \/ PopFront(t) \/ Pause(t) \/ Resume(t)
        \/ Collector

Spec == Init /\ [][Next]_vars

\* A thread goes on with what it has begun, mutexes are fair, and a running
\* thread comes to a safe point again and again; nobody has to push or pop.
Fairness ==
  /\ \A t \in Threads : SF_vars(PushBack(t) \/ PopFront(t)) /\ SF_vars(Pause(t) \/ Resume(t))
  /\ WF_vars(StartCollect) /\ WF_vars(EndCollect)

FairSpec == Spec /\ Fairness

-----------------------------------------------------------------------------
(* Properties.                                                             *)

\* A consumer waits only while there is nothing in the deque: with a value
\* there, somebody is on the way to it, or to a signal (the loop of PopFront
\* and the signals of PushBack, PushFront and PopFront).
WaitsOnlyForSomething ==
  Waiters # {} /\ length > 0 => \E t \in Threads : pc[t] \notin {"idle", "idlepause", "waiting"}

\* Nobody is in the middle of push or shift while the collector runs: the
\* zone is left before the array is used, and entered before the mutex, which
\* a paused pusher may hold, is asked for.
QuietDuringCollect ==
  gc = "running" => \A t \in Threads : pc[t] \notin {"shift", "pushing"}

\* A consumer that waits gets on once there is a value, if nobody else takes
\* it, whatever the order of the signals and of the collections.
ConsumerGetsOn ==
  \A t \in Threads : pc[t] = "waiting" /\ length > 0 ~> pc[t] # "waiting" \/ length = 0

\* Consumers that wait, and threads that queue for the mutex of a paused
\* pusher, do not hold up a collection.
CollectionsGoOn == gc = "wanted" ~> gc = "running"
=============================================================================
