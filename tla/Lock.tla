-------------------------------- MODULE Lock --------------------------------
(***************************************************************************)
(* The lock of src/hx/Thread.cpp (a counter of permits over a semaphore    *)
(* that holds one signal only) with the timed and untimed waits of the     *)
(* semaphore of include/hx/Thread.h, in its two builds.  A critical        *)
(* section in which the thread does not wait is one action.  Time is kept  *)
(* only as far as a thread's limit: it has passed or not.                  *)
(***************************************************************************)
EXTENDS Integers, FiniteSets

CONSTANTS Threads,
          MaxAvailable   \* nobody releases beyond that (a bound of the model)

ASSUME LockAssumption == IsFiniteSet(Threads) /\ MaxAvailable \in Nat \ {0}

VARIABLES
  event,       \* the build: Windows' auto-reset events, else pthreads
  pc,          \* where a thread is in Wait
  timed,       \* the threads whose inTimeout is not negative
  late,        \* those among them for which stop has come
  mAvailable,  \* the permits
  mSet         \* mNotEmpty: the semaphore's flag, or the state of the event

vars == <<event, pc, timed, late, mAvailable, mSet>>

PCs == {"idle", "look", "none", "wait", "waiting", "awake", "exit"}

TypeOK ==
  /\ event \in BOOLEAN
  /\ pc \in [Threads -> PCs]
  /\ timed \subseteq Threads
  /\ late \subseteq timed
  /\ mAvailable \in 0..MaxAvailable
  /\ mSet \in BOOLEAN

Init ==
  /\ event \in BOOLEAN
  /\ pc = [t \in Threads |-> "idle"]
  /\ timed = {} /\ late = {}
  /\ mAvailable = 0
  /\ mSet = FALSE

Goto(t, from, to) == pc[t] = from /\ pc' = [pc EXCEPT ![t] = to]

Waiters == {t \in Threads : pc[t] = "waiting"}

\* HxSemaphore::Set, by a thread after whose step the threads are at `at`.
\* SetEvent lets one waiter go, and the event stays set only without one;
\* the condition is signalled once, and the flag stays until somebody sees it.
Set(at) ==
  IF mSet \/ Waiters = {}
    THEN mSet' = TRUE /\ pc' = at
    ELSE /\ \E w \in Waiters : pc' = [at EXCEPT ![w] = IF event THEN "exit" ELSE "awake"]
         /\ mSet' = ~event

-----------------------------------------------------------------------------
(* hxLock.                                                                 *)

Release(t) ==
  /\ pc[t] = "idle"
  /\ mAvailable < MaxAvailable
  /\ mAvailable' = mAvailable + 1
  /\ Set(pc)
  /\ UNCHANGED <<event, timed, late>>

\* A call of Wait, with or without a limit.  A limit of 0 has passed already.
Wait(t) ==
  /\ Goto(t, "idle", "look")
  /\ \/ UNCHANGED <<timed, late>>
     \/ timed' = timed \cup {t} /\ late' \in {late, late \cup {t}}
  /\ UNCHANGED <<event, mAvailable, mSet>>

\* Variant: the one who takes a permit leaves the others to themselves.
TakeAlone(t) ==
  /\ Goto(t, "look", "idle")
  /\ mAvailable > 0
  /\ mAvailable' = mAvailable - 1
  /\ timed' = timed \ {t} /\ late' = late \ {t}
  /\ UNCHANGED <<event, mSet>>

\* There is a permit: take it, and pass the signal on if there are more.
Take(t) ==
  /\ pc[t] = "look"
  /\ mAvailable > 0
  /\ mAvailable' = mAvailable - 1
  /\ LET back == [pc EXCEPT ![t] = "idle"]
     IN  IF mAvailable > 1 THEN Set(back) ELSE pc' = back /\ UNCHANGED mSet
  /\ timed' = timed \ {t} /\ late' = late \ {t}
  /\ UNCHANGED event

\* Variant: the limit counts from the last look, not from the call.
NothingThereAgain(t) ==
  /\ Goto(t, "look", "none")
  /\ mAvailable = 0
  /\ late' = late \ {t}
  /\ UNCHANGED <<event, timed, mAvailable, mSet>>

NothingThere(t) ==
  /\ Goto(t, "look", "none")
  /\ mAvailable = 0
  /\ UNCHANGED <<event, timed, late, mAvailable, mSet>>

\* The mutex is given up; only now the time is looked at: `return false`.
GiveUp(t) ==
  /\ t \in late
  /\ Goto(t, "none", "idle")
  /\ timed' = timed \ {t} /\ late' = late \ {t}
  /\ UNCHANGED <<event, mAvailable, mSet>>

\* EnterGCFreeZone, and into the semaphore.
Sleep(t) ==
  /\ t \notin late
  /\ Goto(t, "none", "wait")
  /\ UNCHANGED <<event, timed, late, mAvailable, mSet>>

\* ExitGCFreeZone, which takes as long as a collection does, and once more
\* round the loop.
Again(t) == Goto(t, "exit", "look") /\ UNCHANGED <<event, timed, late, mAvailable, mSet>>

\* The clock.
TimePasses(t) ==
  /\ late' = late \cup ({t} \cap timed)
  /\ UNCHANGED <<event, pc, timed, mAvailable, mSet>>

-----------------------------------------------------------------------------
(* HxSemaphore::Wait and WaitSeconds.                                      *)

\* The flag is set: consume it.
Woken(t) ==
  /\ mSet
  /\ Goto(t, "wait", "exit") \/ Goto(t, "awake", "exit")
  /\ mSet' = FALSE
  /\ UNCHANGED <<event, timed, late, mAvailable>>

\* It is not, or somebody else was faster.
Block(t) ==
  /\ ~mSet
  /\ Goto(t, "wait", "waiting") \/ Goto(t, "awake", "waiting")
  /\ UNCHANGED <<event, timed, late, mAvailable, mSet>>

\* A condition may let a thread go for no reason.
Spurious(t) ==
  /\ ~event
  /\ Goto(t, "waiting", "awake")
  /\ UNCHANGED <<event, timed, late, mAvailable, mSet>>

\* Variant: who ran out of time does not look again.
TimedOutForGood(t) ==
  /\ t \in timed
  /\ Goto(t, "waiting", "idle") \/ Goto(t, "awake", "idle")
  /\ mSet' = IF event THEN mSet ELSE FALSE
  /\ timed' = timed \ {t} /\ late' = late \ {t}
  /\ UNCHANGED <<event, mAvailable>>

\* WaitSeconds ends: the time is up, or the time it was given is cut to
\* whole microseconds or milliseconds, or refused (tv_nsec = 1000000000).
\* With pthreads it takes the flag along; an event's wait leaves it alone.
TimedOut(t) ==
  /\ t \in timed
  /\ \/ Goto(t, "waiting", "exit")
     \/ Goto(t, "awake", "exit") /\ ~event
     \/ Goto(t, "wait", "exit") /\ ~mSet
  /\ mSet' = IF event THEN mSet ELSE FALSE
  /\ UNCHANGED <<event, timed, late, mAvailable>>

-----------------------------------------------------------------------------
\* What a thread does by itself once it is in Wait.
Step(t) ==
  \/ Take(t) \/ NothingThere(t) \/ GiveUp(t) \/ Sleep(t) \/ Again(t)
  \/ Woken(t) \/ Block(t)

Next == \E t \in Threads :
          Release(t) \/ Wait(t) \/ Step(t) \/ TimePasses(t) \/ Spurious(t) \/ TimedOut(t)

Spec == Init /\ [][Next]_vars

\* A thread goes on unless it waits, time goes on, and a wait with a limit
\* comes to its end; nobody has to release anything.
Fairness ==
  \A t \in Threads : WF_vars(Step(t)) /\ WF_vars(TimePasses(t)) /\ WF_vars(TimedOut(t))

FairSpec == Spec /\ Fairness

-----------------------------------------------------------------------------
(* Properties.                                                             *)

\* Nobody sleeps beside a permit unless somebody is on the way: a thread that
\* is about to look, or a flag and a thread that is awake and will see it.
\* So no signal is lost between several releases (the semaphore holds one
\* only), between a release and a time limit that runs out (WaitSeconds takes
\* the flag along), or with a waiter that is overtaken.
NoPermitSleptThrough ==
  mAvailable > 0 /\ Waiters # {} =>
    \/ \E t \in Threads : pc[t] \in {"look", "exit"}
    \/ mSet /\ \E t \in Threads : pc[t] \in {"awake", "wait"}

\* A thread that waits gets on while there are permits, whoever else releases
\* and waits, and whatever limits run out.
WaiterGetsOn ==
  \A t \in Threads : pc[t] = "waiting" /\ mAvailable > 0 ~> pc[t] # "waiting" \/ mAvailable = 0

\* A wait with a limit comes back, however often it is woken for a permit
\* that others take, and however early the semaphore's wait ends.
LimitedWaitReturns == \A t \in Threads : t \in timed ~> t \notin timed
=============================================================================
