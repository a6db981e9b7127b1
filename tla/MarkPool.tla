------------------------------ MODULE MarkPool ------------------------------
(***************************************************************************)
(* The parallel mark phase of src/hx/gc/Immix.cpp, and the parallel        *)
(* reclaim that follows it: MarkAll queues the roots and starts the        *)
(* workers, each of which marks from a chunk of object pointers of its     *)
(* own, takes chunks from processList when it has none, and puts chunks    *)
(* there when its own is full or when another worker is idle.              *)
(*                                                                         *)
(* A chunk is a sequence of objects, no chunk and an empty chunk are the   *)
(* same, and the free list of chunks is left out.  popJobLocked is one     *)
(* action: its spin lock keeps other poppers out, and a push that comes    *)
(* between its load and its compare-and-exchange makes it try again.       *)
(***************************************************************************)
EXTENDS WorkerPool, Sequences, SequencesExt

CONSTANTS Objects,      \* objects and allocations of the heap
          Refs,         \* what an object's __Mark visits
          RootChunks,   \* the chunks MarkAll has pushed when it starts the workers
          ChunkSize,    \* MarkChunk::SIZE
          SplitAbove,   \* a chunk longer than this is split for an idle worker (32) ...
          SplitBy,      \* ... and this many objects go (16)
          BlockCount    \* mAllBlocks.size()

ASSUME MarkAssumption ==
  /\ 0 \in Workers
  /\ Refs \in [Objects -> SUBSET Objects]
  /\ ChunkSize \in Nat \ {0}
  /\ RootChunks \in Seq({c \in Seq(Objects) : Len(c) \in 1..ChunkSize}) /\ SplitAbove \in Nat
  /\ SplitBy \in 1..(SplitAbove + 1)
  /\ BlockCount \in Nat \ {0}

VARIABLES
  marked,        \* objects with the current gMarkID
  processList,   \* sGlobalChunks.processList
  marking,       \* per worker: its chunk
  todo,          \* per worker: what the object it visits refers to and it saw unmarked
  after,         \* per worker: where it goes on after a pushJob
  mThreadJobId,
  reclaims       \* how often each block has been reclaimed in this collection

markVars == <<marked, processList, marking, todo, after>>
vars == <<poolVars, sleepVars, wpc, cpc, markVars, mThreadJobId, reclaims>>

Blocks == 0..(BlockCount - 1)

Roots == UNION {ToSet(RootChunks[i]) : i \in DOMAIN RootChunks}

WorkerPCs == {"loop", "asleep", "job",
              "need", "spin", "scan", "visit", "balance", "pushed", "wake",
              "claim"}
CollectorPCs == {"mutate", "marking", "marked", "reclaiming", "reclaimed"}

\* What fits in a MarkChunk.
Chunk == {c \in Seq(Objects) : Len(c) <= ChunkSize}
ChunkLists == Seq(Chunk)

TypeOK ==
  /\ PoolTypeOK(WorkerPCs, CollectorPCs)
  /\ marked \subseteq Objects
  /\ processList \in ChunkLists
  /\ marking \in [Workers -> Chunk]
  /\ todo \in [Workers -> SUBSET Objects]
  /\ after \in [Workers -> {"visit", "scan"}]
  /\ mThreadJobId \in Nat
  /\ reclaims \in [Blocks -> Nat]

Init ==
  /\ PoolInit
  /\ cpc = "mutate"
  /\ marked = {}
  /\ processList = <<>>
  /\ marking = [w \in Workers |-> <<>>]
  /\ todo = [w \in Workers |-> {}]
  /\ after = [w \in Workers |-> "visit"]
  /\ mThreadJobId = 0
  /\ reclaims = [b \in Blocks |-> 0]

-----------------------------------------------------------------------------
(* The collector.                                                          *)

\* MarkAll: the roots are marked and queued by the collector itself, then
\* "Unleash the workers...".
StartMark ==
  /\ StartThreadJobs("mark", Workers, Workers, "mutate", "marking", TRUE)
  /\ marked' = Roots
  /\ processList' = RootChunks
  /\ mThreadJobId' = 0
  /\ UNCHANGED <<marking, todo, after, reclaims>>

MarkDone ==
  /\ JobDone("marking", "marked")
  /\ UNCHANGED <<sgThreadPoolAbort, markVars, mThreadJobId, reclaims>>

\* reclaimBlocks: as many workers as there are blocks, if there are enough.
StartReclaim ==
  /\ StartThreadJobs("reclaim", {w \in Workers : w < BlockCount}, Workers, "marked", "reclaiming", TRUE)
  /\ mThreadJobId' = 0
  /\ UNCHANGED <<markVars, reclaims>>

ReclaimDone ==
  /\ JobDone("reclaiming", "reclaimed")
  /\ UNCHANGED <<sgThreadPoolAbort, markVars, mThreadJobId, reclaims>>

\* The mutators run again until the next collection.
CollectDone ==
  /\ CollectorGoto("reclaimed", "mutate")
  /\ marked' = {}
  /\ reclaims' = [b \in Blocks |-> 0]
  /\ UNCHANGED <<poolVars, sleepVars, wpc, processList, marking, todo, after, mThreadJobId>>

-----------------------------------------------------------------------------
(* A marking worker.                                                       *)

\* ThreadLoop: what is the job?
TakeJob(w) ==
  /\ WorkerGoto(w, "job", IF sgThreadPoolJob = "mark" THEN "need" ELSE "claim")
  /\ UNCHANGED <<poolVars, sleepVars, cpc, markVars, mThreadJobId, reclaims>>

\* popJobOrFinish finds a chunk, at once or after a spin ...
PopJob(w) ==
  /\ WorkerGoto(w, "need", "scan") \/ WorkerGoto(w, "spin", "scan")
  /\ processList # <<>>
  /\ marking' = [marking EXCEPT ![w] = Head(processList)]
  /\ processList' = Tail(processList)
  /\ UNCHANGED <<poolVars, sleepVars, cpc, marked, todo, after, mThreadJobId, reclaims>>

NoJob(w) ==
  /\ WorkerGoto(w, "need", "spin")
  /\ processList = <<>>
  /\ UNCHANGED <<poolVars, sleepVars, cpc, markVars, mThreadJobId, reclaims>>

\* ... or it has spun long enough, and does not look again when it has got
\* the lock.
CompleteThread(w) ==
  /\ FinishThreadJob(w, "spin")
  /\ UNCHANGED <<markVars, mThreadJobId, reclaims>>

\* processMarkStack takes an object of its chunk, and its __Mark visits the
\* children.  Mark bits are tested and set without a lock: two workers may
\* both see a child unmarked, and both push it.
VisitObject(w) ==
  LET chunk == marking[w] IN
  /\ WorkerGoto(w, "scan", "visit")
  /\ chunk # <<>>
  /\ marking' = [marking EXCEPT ![w] = Front(chunk)]
  /\ todo' = [todo EXCEPT ![w] = Refs[Last(chunk)] \ marked]
  /\ UNCHANGED <<poolVars, sleepVars, cpc, marked, processList, after, mThreadJobId, reclaims>>

ChunkEmpty(w) ==
  /\ WorkerGoto(w, "scan", "need")
  /\ marking[w] = <<>>
  /\ UNCHANGED <<poolVars, sleepVars, cpc, markVars, mThreadJobId, reclaims>>

\* Variant: off by one.
PushObjOver(w) ==
  /\ wpc[w] = "visit"
  /\ Len(marking[w]) <= ChunkSize
  /\ \E o \in todo[w] :
       /\ marked' = marked \cup {o}
       /\ todo' = [todo EXCEPT ![w] = @ \ {o}]
       /\ marking' = [marking EXCEPT ![w] = Append(@, o)]
  /\ UNCHANGED <<poolVars, sleepVars, wpc, cpc, processList, after, mThreadJobId, reclaims>>

\* pushObj.
PushObj(w) ==
  /\ wpc[w] = "visit"
  /\ Len(marking[w]) < ChunkSize
  /\ \E o \in todo[w] :
       /\ marked' = marked \cup {o}
       /\ todo' = [todo EXCEPT ![w] = @ \ {o}]
       /\ marking' = [marking EXCEPT ![w] = Append(@, o)]
  /\ UNCHANGED <<poolVars, sleepVars, wpc, cpc, processList, after, mThreadJobId, reclaims>>

\* Variant: the full chunk is dropped.
PushObjFullDropped(w) ==
  /\ WorkerGoto(w, "visit", "pushed")
  /\ after' = [after EXCEPT ![w] = "visit"]
  /\ Len(marking[w]) >= ChunkSize
  /\ \E o \in todo[w] :
       /\ marked' = marked \cup {o}
       /\ todo' = [todo EXCEPT ![w] = @ \ {o}]
       /\ marking' = [marking EXCEPT ![w] = <<o>>]
  /\ UNCHANGED <<poolVars, sleepVars, cpc, processList, mThreadJobId, reclaims>>

\* pushObj with a full chunk: pushJob puts it on processList.
PushObjFull(w) ==
  /\ WorkerGoto(w, "visit", "pushed")
  /\ after' = [after EXCEPT ![w] = "visit"]
  /\ Len(marking[w]) >= ChunkSize
  /\ \E o \in todo[w] :
       /\ marked' = marked \cup {o}
       /\ todo' = [todo EXCEPT ![w] = @ \ {o}]
       /\ processList' = <<marking[w]>> \o processList
       /\ marking' = [marking EXCEPT ![w] = <<o>>]
  /\ UNCHANGED <<poolVars, sleepVars, cpc, mThreadJobId, reclaims>>

\* A child that another worker has marked meanwhile is left alone.
AlreadyMarked(w) ==
  /\ wpc[w] = "visit"
  /\ \E o \in todo[w] \cap marked : todo' = [todo EXCEPT ![w] = @ \ {o}]
  /\ UNCHANGED <<poolVars, sleepVars, wpc, cpc, marked, processList, marking, after, mThreadJobId, reclaims>>

ObjectDone(w) ==
  /\ WorkerGoto(w, "visit", "balance")
  /\ todo[w] = {}
  /\ UNCHANGED <<poolVars, sleepVars, cpc, markVars, mThreadJobId, reclaims>>

\* "Load balance": part of a long chunk goes to an idle worker.
Balance(w) ==
  LET chunk == marking[w]
      kept == Len(chunk) - SplitBy IN
  /\ sLazyThreads /\ Len(chunk) > SplitAbove
  /\ WorkerGoto(w, "balance", "pushed")
  /\ after' = [after EXCEPT ![w] = "scan"]
  /\ marking' = [marking EXCEPT ![w] = SubSeq(chunk, 1, kept)]
  /\ processList' = <<SubSeq(chunk, kept + 1, Len(chunk))>> \o processList
  /\ UNCHANGED <<poolVars, sleepVars, cpc, marked, todo, mThreadJobId, reclaims>>

NoBalance(w) ==
  /\ ~(sLazyThreads /\ Len(marking[w]) > SplitAbove)
  /\ WorkerGoto(w, "balance", "scan")
  /\ UNCHANGED <<poolVars, sleepVars, cpc, markVars, mThreadJobId, reclaims>>

\* The rest of pushJob: is any worker idle?  Read without the lock ...
AnyLazy(w) ==
  /\ WorkerGoto(w, "pushed", IF sLazyThreads THEN "wake" ELSE after[w])
  /\ UNCHANGED <<poolVars, sleepVars, cpc, markVars, mThreadJobId, reclaims>>

\* Variant: the bit is set, and nobody is signalled.
WakeThreadSilent(w) ==
  LET idle == {v \in Workers : v \notin sRunningThreads} IN
  /\ WorkerGoto(w, "wake", after[w])
  /\ SetRunning(IF idle = {} THEN sRunningThreads ELSE sRunningThreads \cup {CHOOSE v \in idle : TRUE},
                sAllThreads)
  /\ UNCHANGED <<sgThreadPoolJob, sgThreadPoolAbort, sleepVars, cpc, markVars, mThreadJobId, reclaims>>

\* ... and with it: the first idle one is woken.
WakeThread(w) ==
  LET idle == {v \in Workers : v \notin sRunningThreads} IN
  /\ WorkerGoto(w, "wake", after[w])
  /\ IF idle = {}
       THEN UNCHANGED <<sRunningThreads, sAllThreads, sLazyThreads, signalled>>
       ELSE WakeThreadLocked(CHOOSE v \in idle : \A u \in idle : v <= u)
  /\ UNCHANGED <<sgThreadPoolJob, sgThreadPoolAbort, sThreadSleeping, sThreadJobDoneSleeping,
                 doneSignalled, cpc, markVars, mThreadJobId, reclaims>>

-----------------------------------------------------------------------------
(* A reclaiming worker.                                                    *)

\* Variant: two workers may claim the same block.
ReclaimAsyncAgain(w) ==
  /\ wpc[w] = "claim"
  /\ mThreadJobId < BlockCount
  /\ mThreadJobId' \in {mThreadJobId, mThreadJobId + 1}
  /\ reclaims' = [reclaims EXCEPT ![mThreadJobId] = @ + 1]
  /\ UNCHANGED <<poolVars, sleepVars, wpc, cpc, markVars>>

\* ReclaimAsync: an atomic add claims a block, and the worker reclaims it.
ReclaimAsync(w) ==
  /\ wpc[w] = "claim"
  /\ mThreadJobId < BlockCount
  /\ mThreadJobId' = mThreadJobId + 1
  /\ reclaims' = [reclaims EXCEPT ![mThreadJobId] = @ + 1]
  /\ UNCHANGED <<poolVars, sleepVars, wpc, cpc, markVars>>

\* It claims one too many, and finishes.
ReclaimAsyncEnds(w) ==
  /\ mThreadJobId >= BlockCount
  /\ mThreadJobId' = mThreadJobId + 1
  /\ FinishThreadJob(w, "claim")
  /\ UNCHANGED <<markVars, reclaims>>

-----------------------------------------------------------------------------
Collector == StartMark \/ MarkDone \/ StartReclaim \/ ReclaimDone \/ CollectDone

Sleep(w) ==
  /\ WaitForThreadWake(w) \/ ThreadWake(w)
  /\ UNCHANGED <<markVars, mThreadJobId, reclaims>>

Mark(w) ==
  \/ PopJob(w) \/ NoJob(w) \/ CompleteThread(w) \/ VisitObject(w) \/ ChunkEmpty(w)
  \/ PushObj(w) \/ PushObjFull(w) \/ AlreadyMarked(w) \/ ObjectDone(w) \/ Balance(w) \/ NoBalance(w)
  \/ AnyLazy(w) \/ WakeThread(w)

Reclaim(w) == ReclaimAsync(w) \/ ReclaimAsyncEnds(w)

WorkerStep(w) == Sleep(w) \/ TakeJob(w) \/ Mark(w) \/ Reclaim(w)

Next == Collector \/ \E w \in Workers : WorkerStep(w)

Spec == Init /\ [][Next]_vars

\* Every thread is scheduled.
FairSpec == Spec /\ WF_vars(Collector) /\ \A w \in Workers : WF_vars(WorkerStep(w))

-----------------------------------------------------------------------------
(* Properties.                                                             *)

\* Where an object is that has been pushed and not yet visited.
Queued(o) ==
  \/ \E i \in DOMAIN processList : o \in ToSet(processList[i])
  \/ \E w \in Workers : o \in ToSet(marking[w])

\* A marked object refers only to objects that are marked, or that the
\* worker visiting it is about to mark, unless it is still queued: no chunk
\* gets lost between the lists, the workers and the splits.
NothingForgotten ==
  cpc # "mutate" =>
    \A o \in marked : Queued(o) \/ \A c \in Refs[o] : c \in marked \/ \E w \in Workers : c \in todo[w]

\* When the collector goes on, all workers have stopped and no chunk is left:
\* a worker that stopped with an empty list in sight cannot have missed the
\* chunk that another one pushed afterwards.
MarkingIsOver ==
  cpc # "marking" =>
    /\ processList = <<>>
    /\ \A w \in Workers : marking[w] = <<>> /\ todo[w] = {}

\* Each block is reclaimed by exactly one worker.
EachBlockOnce ==
  /\ \A b \in Blocks : reclaims[b] <= 1
  /\ cpc = "reclaimed" => \A b \in Blocks : reclaims[b] = 1

Phase == INSTANCE Marking WITH marking <- (cpc = "marking")

\* The workers together do what one mark phase promises.
ImplementsMarking == Phase!Spec

\* A collection comes to its end: no worker keeps its bit for ever, and no
\* worker or collector misses its signal.
MarkEnds == cpc = "marking" ~> cpc = "marked"
ReclaimEnds == cpc = "reclaiming" ~> cpc = "reclaimed"
-----------------------------------------------------------------------------
(* The inductive invariant.                                                *)

\* Where a worker may have objects to mark.
Busy == {"scan", "visit", "balance", "pushed", "wake"}

\* The job, and who can be in it when.
JobInv ==
  /\ sThreadSleeping = {w \in Workers : wpc[w] = "asleep"}
  /\ sThreadJobDoneSleeping => cpc \in {"marking", "reclaiming"}
  /\ cpc \notin {"marking", "reclaiming"} => sRunningThreads = {}
  /\ cpc = "marking" => sgThreadPoolJob = "mark"
  /\ cpc = "reclaiming" => sgThreadPoolJob = "reclaim"
  /\ \A w \in Workers : wpc[w] \in Busy \cup {"need", "spin"} => cpc = "marking"
  /\ \A w \in Workers : wpc[w] = "claim" => cpc = "reclaiming"

\* What a worker has in hand.
Visiting(w) == wpc[w] = "visit" \/ (wpc[w] \in {"pushed", "wake"} /\ after[w] = "visit")

HandInv ==
  \A w \in Workers : /\ wpc[w] \notin Busy => marking[w] = <<>>
                     /\ ~Visiting(w) => todo[w] = {}

\* Only a spinning worker stops, and it has seen the list empty: as long as
\* there is a chunk, there is a running worker that has yet to look.
ListInv ==
  processList # <<>> => cpc = "marking" /\ \E w \in sRunningThreads : wpc[w] # "spin"

\* What is marked, queued or about to be marked is reached from the roots.
Closed(T) == \A o \in T : Refs[o] \subseteq T

ReachInv ==
  /\ cpc # "mutate" => Roots \subseteq marked
  /\ \A o \in Objects : Queued(o) => o \in marked
  /\ \A w \in Workers : \A c \in todo[w] : \E o \in marked : c \in Refs[o]
  /\ \A T \in SUBSET Objects : Roots \subseteq T /\ Closed(T) => marked \subseteq T

\* The blocks below mThreadJobId have been reclaimed, and as long as there are
\* others somebody is there to do it.
ReclaimInv ==
  /\ cpc \in {"mutate", "marking", "marked"} => \A b \in Blocks : reclaims[b] = 0
  /\ cpc = "reclaiming" =>
       /\ \A b \in Blocks : reclaims[b] = IF b < mThreadJobId THEN 1 ELSE 0
       /\ mThreadJobId < BlockCount => sRunningThreads # {}
  /\ cpc = "reclaimed" => \A b \in Blocks : reclaims[b] = 1

MarkInv ==
  /\ TypeOK /\ NoLostWake /\ JobInv /\ HandInv /\ ListInv /\ ReachInv /\ ReclaimInv
  /\ NothingForgotten
=============================================================================
