---------------------------- MODULE MarkPoolProofs ----------------------------
(***************************************************************************)
(* The safety properties of MarkPool and its refinement of Marking, for    *)
(* any number of workers, any heap and any sizes of the chunks.            *)
(*                                                                         *)
(* The inductive invariant is MarkInv.  Its heart is ListInv (as long as   *)
(* there is a chunk on the list, some running worker has yet to look at    *)
(* it) with NothingForgotten (what a marked object refers to is marked, or *)
(* in the hands of a worker, unless the object is queued): when all have   *)
(* stopped, nothing is queued and the marks are closed.  ReachInv is the   *)
(* other direction: nothing is marked that the roots do not reach.         *)
(*                                                                         *)
(* The facts about chunks and lists are proved first, and the proofs about *)
(* steps use these lemmas and not Len and SubSeq: a leaf about functions   *)
(* over Workers, a domain with a 0 in it, stays clear of sequences.        *)
(***************************************************************************)
EXTENDS MarkPool, SequenceTheorems, FiniteSetTheorems, TLAPS

USE DEF WorkerGoto, CollectorGoto, PoolTypeOK, poolVars, sleepVars, markVars

\* What the proofs need of the constants everywhere.
LEMMA Sizes ==
  /\ Workers \subseteq Nat /\ IsFiniteSet(Workers) /\ 0 \in Workers
  /\ Refs \in [Objects -> SUBSET Objects]
  /\ ChunkSize \in Nat \ {0} /\ SplitAbove \in Nat /\ SplitBy \in 1..(SplitAbove + 1)
  /\ BlockCount \in Nat \ {0}
  BY WorkersAssumption, MarkAssumption

USE Sizes

-----------------------------------------------------------------------------
(* Chunks and lists of chunks.                                             *)

\* The last object is taken from a chunk.
LEMMA FrontOfChunk ==
  ASSUME NEW c \in Chunk, c # <<>>
  PROVE  Front(c) \in Chunk /\ Last(c) \in Objects /\ ToSet(c) = ToSet(Front(c)) \cup {Last(c)}
  <1> DEFINE n == Len(c)
  <1>1. c \in Seq(Objects) /\ n \in Nat /\ n > 0 /\ n <= ChunkSize /\ DOMAIN c = 1..n
        /\ \A i \in 1..n : c[i] \in Objects
    BY EmptySeq, LenProperties, ElementOfSeq DEF Chunk
  <1>2. /\ Front(c) \in Seq(Objects) /\ Len(Front(c)) = n - 1 /\ DOMAIN Front(c) = 1..(n - 1)
        /\ \A i \in 1..(n - 1) : Front(c)[i] = c[i]
    <2>1. \A i \in 1..(n - 1) : c[i] \in Objects
      BY <1>1
    <2> HIDE DEF n
    <2>2. /\ SubSeq(c, 1, n - 1) \in Seq(Objects)
          /\ Len(SubSeq(c, 1, n - 1)) = IF 1 <= n - 1 THEN (n - 1) - 1 + 1 ELSE 0
          /\ \A i \in 1..((n - 1) - 1 + 1) : SubSeq(c, 1, n - 1)[i] = c[1 + i - 1]
      BY <1>1, <2>1, SubSeqProperties
    <2>3. Len(SubSeq(c, 1, n - 1)) = n - 1 /\ \A i \in 1..(n - 1) : SubSeq(c, 1, n - 1)[i] = c[i]
      BY <1>1, <2>2
    <2>4. DOMAIN SubSeq(c, 1, n - 1) = 1..(n - 1)
      BY <2>2, <2>3, LenProperties
    <2> QED BY <2>2, <2>3, <2>4 DEF Front, n
  <1>3. Last(c) = c[n]
    BY DEF Last
  <1> HIDE DEF n
  <1>4. Front(c) \in Chunk /\ Last(c) \in Objects
    BY <1>1, <1>2, <1>3 DEF Chunk
  <1>5. \A i \in 1..n : c[i] \in ToSet(Front(c)) \cup {Last(c)}
    <2> SUFFICES ASSUME NEW i \in 1..n PROVE c[i] \in ToSet(Front(c)) \cup {Last(c)}
      OBVIOUS
    <2>1. CASE i = n
      BY <1>3, <2>1
    <2>2. CASE i # n
      <3>1. i \in 1..(n - 1)
        BY <1>1, <2>2
      <3> QED BY <1>2, <3>1 DEF ToSet
    <2> QED BY <2>1, <2>2
  <1>6. \A i \in 1..(n - 1) : Front(c)[i] \in ToSet(c)
    <2>1. \A i \in 1..(n - 1) : i \in DOMAIN c
      BY <1>1
    <2> QED BY <1>2, <2>1 DEF ToSet
  <1>7. Last(c) \in ToSet(c)
    <2>1. n \in DOMAIN c
      BY <1>1
    <2> HIDE DEF Last
    <2> QED BY <1>3, <2>1 DEF ToSet
  <1>8. ToSet(c) = {c[i] : i \in 1..n} /\ ToSet(Front(c)) = {Front(c)[i] : i \in 1..(n - 1)}
    BY <1>1, <1>2 DEF ToSet
  <1> QED BY <1>4, <1>5, <1>6, <1>7, <1>8

\* An object is put on a chunk with room for it.
LEMMA AppendToChunk ==
  ASSUME NEW c \in Chunk, Len(c) < ChunkSize, NEW o \in Objects
  PROVE  Append(c, o) \in Chunk /\ ToSet(Append(c, o)) = ToSet(c) \cup {o}
  <1>1. /\ Append(c, o) \in Seq(Objects) /\ Len(Append(c, o)) = Len(c) + 1 /\ Len(c) \in Nat
        /\ \A i \in 1..Len(c) : Append(c, o)[i] = c[i]
        /\ Append(c, o)[Len(c) + 1] = o
    BY AppendProperties, LenProperties DEF Chunk
  <1>2. DOMAIN c = 1..Len(c) /\ DOMAIN Append(c, o) = 1..(Len(c) + 1)
    BY <1>1, LenProperties DEF Chunk
  <1>3. 1..(Len(c) + 1) = 1..Len(c) \cup {Len(c) + 1}
    BY <1>1
  <1>4. ToSet(Append(c, o)) = ToSet(c) \cup {o}
    BY <1>1, <1>2, <1>3 DEF ToSet
  <1> QED BY <1>1, <1>4 DEF Chunk

\* The smallest chunks.
LEMMA SmallChunks ==
  /\ <<>> \in Chunk /\ ToSet(<<>>) = {}
  /\ \A o \in Objects : <<o>> \in Chunk /\ ToSet(<<o>>) = {o}
  BY DEF Chunk, ToSet

\* A chunk is split.
LEMMA SplitChunk ==
  ASSUME NEW c \in Chunk, NEW k \in 0..Len(c)
  PROVE  /\ SubSeq(c, 1, k) \in Chunk /\ SubSeq(c, k + 1, Len(c)) \in Chunk
         /\ ToSet(c) = ToSet(SubSeq(c, 1, k)) \cup ToSet(SubSeq(c, k + 1, Len(c)))
  <1> DEFINE n == Len(c)
             a == SubSeq(c, 1, k)
             b == SubSeq(c, k + 1, n)
  <1>1. /\ c \in Seq(Objects) /\ n \in Nat /\ n <= ChunkSize /\ DOMAIN c = 1..n
        /\ \A i \in 1..n : c[i] \in Objects
    BY LenProperties, ElementOfSeq DEF Chunk
  <1> HIDE DEF n
  <1>2. a \in Seq(Objects) /\ Len(a) = k /\ \A i \in 1..k : a[i] = c[i]
    <2>1. \A i \in 1..k : c[i] \in Objects
      BY <1>1 DEF n
    <2> QED BY <1>1, <2>1, SubSeqProperties DEF n
  <1>3. b \in Seq(Objects) /\ Len(b) = n - k /\ \A i \in 1..(n - k) : b[i] = c[k + i]
    <2>1. k \in Nat /\ k <= n /\ \A i \in (k + 1)..n : c[i] \in Objects
      BY <1>1 DEF n
    <2>2. /\ b \in Seq(Objects)
          /\ Len(b) = IF k + 1 <= n THEN n - (k + 1) + 1 ELSE 0
          /\ \A i \in 1..(n - (k + 1) + 1) : b[i] = c[(k + 1) + i - 1]
      BY <1>1, <2>1, SubSeqProperties
    <2> HIDE DEF b
    <2>3. Len(b) = n - k /\ n - (k + 1) + 1 = n - k /\ \A i \in 1..(n - k) : (k + 1) + i - 1 = k + i
      BY <1>1, <2>1, <2>2
    <2> QED BY <2>2, <2>3
  <1> HIDE DEF a, b
  <1>4. k \in Nat /\ k <= n
    BY <1>1 DEF n
  <1>5. a \in Chunk /\ b \in Chunk
    BY <1>1, <1>2, <1>3, <1>4 DEF Chunk
  <1>6. DOMAIN a = 1..k /\ DOMAIN b = 1..(n - k)
    BY <1>2, <1>3, LenProperties
  <1>7. ASSUME NEW i \in 1..n
        PROVE  c[i] \in ToSet(a) \cup ToSet(b)
    <2>1. CASE i <= k
      <3>1. i \in DOMAIN a /\ a[i] = c[i]
        BY <1>2, <1>4, <1>6, <2>1
      <3> QED BY <3>1 DEF ToSet
    <2>2. CASE i > k
      <3>1. i - k \in 1..(n - k) /\ k + (i - k) = i
        BY <1>1, <1>4, <2>2
      <3> QED BY <1>3, <1>6, <3>1 DEF ToSet
    <2> QED BY <1>1, <1>4, <2>1, <2>2
  <1>8. \A i \in 1..k : a[i] \in ToSet(c)
    <2>1. \A i \in 1..k : i \in DOMAIN c
      BY <1>1, <1>4
    <2> QED BY <1>2, <2>1 DEF ToSet
  <1>9. \A i \in 1..(n - k) : b[i] \in ToSet(c)
    <2>1. \A i \in 1..(n - k) : k + i \in DOMAIN c
      BY <1>1, <1>4
    <2> QED BY <1>3, <2>1 DEF ToSet
  <1>10. ToSet(c) = {c[i] : i \in 1..n} /\ ToSet(a) = {a[i] : i \in 1..k}
         /\ ToSet(b) = {b[i] : i \in 1..(n - k)}
    BY <1>1, <1>6 DEF ToSet
  <1>11. ToSet(c) = ToSet(a) \cup ToSet(b)
    BY <1>7, <1>8, <1>9, <1>10
  <1> QED BY <1>5, <1>11 DEF a, b, n

\* Object o is in a chunk of list l.
Listed(l, o) == \E i \in DOMAIN l : o \in ToSet(l[i])

\* The first chunk is taken from a list.
LEMMA HeadOfList ==
  ASSUME NEW l \in ChunkLists, l # <<>>
  PROVE  /\ Head(l) \in Chunk /\ Tail(l) \in ChunkLists
         /\ \A o : Listed(l, o) <=> o \in ToSet(Head(l)) \/ Listed(Tail(l), o)
  <1> USE DEF ChunkLists
  <1> DEFINE n == Len(l)
  <1>1. n \in Nat /\ n > 0 /\ DOMAIN l = 1..n
    BY EmptySeq, LenProperties
  <1>2. /\ Head(l) \in Chunk /\ Tail(l) \in Seq(Chunk) /\ DOMAIN Tail(l) = 1..(n - 1)
        /\ \A i \in 1..(n - 1) : Tail(l)[i] = l[i + 1]
    BY <1>1, HeadTailProperties, LenProperties
  <1>3. Head(l) = l[1]
    BY <1>1
  <1> HIDE DEF n
  <1>4. ASSUME NEW o, Listed(l, o)
        PROVE  o \in ToSet(Head(l)) \/ Listed(Tail(l), o)
    <2>1. PICK i \in 1..n : o \in ToSet(l[i])
      BY <1>1, <1>4 DEF Listed
    <2>2. CASE i = 1
      BY <1>3, <2>1, <2>2
    <2>3. CASE i # 1
      <3>1. i - 1 \in 1..(n - 1) /\ (i - 1) + 1 = i
        BY <1>1, <2>3
      <3> QED BY <1>2, <2>1, <3>1 DEF Listed
    <2> QED BY <2>2, <2>3
  <1>5. ASSUME NEW o, o \in ToSet(Head(l)) \/ Listed(Tail(l), o)
        PROVE  Listed(l, o)
    <2>1. CASE o \in ToSet(Head(l))
      BY <1>1, <1>3, <2>1 DEF Listed
    <2>2. CASE Listed(Tail(l), o)
      <3>1. PICK i \in 1..(n - 1) : o \in ToSet(l[i + 1])
        BY <1>2, <2>2 DEF Listed
      <3>2. i + 1 \in 1..n
        BY <1>1
      <3> QED BY <1>1, <3>1, <3>2 DEF Listed
    <2> QED BY <1>5, <2>1, <2>2
  <1> QED BY <1>2, <1>4, <1>5

\* A chunk is put before a list.
LEMMA PushOnList ==
  ASSUME NEW l \in ChunkLists, NEW c \in Chunk
  PROVE  /\ <<c>> \o l \in ChunkLists /\ <<c>> \o l # <<>>
         /\ \A o : Listed(<<c>> \o l, o) <=> o \in ToSet(c) \/ Listed(l, o)
  <1> USE DEF ChunkLists
  <1> DEFINE m == <<c>> \o l
  <1>1. /\ m \in Seq(Chunk) /\ Len(m) = 1 + Len(l)
        /\ \A i \in 1..(1 + Len(l)) : m[i] = IF i <= 1 THEN <<c>>[i] ELSE l[i - 1]
    BY ConcatProperties, Len(<<c>>) = 1, <<c>> \in Seq(Chunk)
  <1>2. Len(l) \in Nat /\ DOMAIN l = 1..Len(l)
    BY LenProperties
  <1>3. m # <<>>
    BY <1>1, <1>2, EmptySeq
  <1> HIDE DEF m
  <1>4. Head(m) = c
    BY <1>1, <1>2
  <1>5. Tail(m) = l
    <2>1. Tail(m) \in Seq(Chunk) /\ Len(Tail(m)) = Len(l)
          /\ \A i \in 1..Len(l) : Tail(m)[i] = m[i + 1]
      BY <1>1, <1>2, <1>3, HeadTailProperties
    <2>2. \A i \in 1..Len(l) : Tail(m)[i] = l[i]
      BY <1>1, <1>2, <2>1
    <2> QED BY <2>1, <2>2, SeqEqual
  <1>6. m \in Seq(Chunk) /\ m # <<>> /\ \A o : Listed(m, o) <=> o \in ToSet(c) \/ Listed(l, o)
    BY <1>1, <1>3, <1>4, <1>5, HeadOfList
  <1> QED BY <1>6 DEF m

\* The list that MarkAll makes.
LEMMA RootsAreListed ==
  RootChunks \in ChunkLists /\ Roots \subseteq Objects /\ \A o : Listed(RootChunks, o) <=> o \in Roots
  <1>1. RootChunks \in Seq({c \in Seq(Objects) : Len(c) \in 1..ChunkSize})
    BY MarkAssumption
  <1>2. {c \in Seq(Objects) : Len(c) \in 1..ChunkSize} \subseteq Chunk
    BY DEF Chunk
  <1>3. RootChunks \in Seq(Chunk)
    BY <1>1, <1>2, SeqMonotonic
  <1>4. \A i \in DOMAIN RootChunks : RootChunks[i] \in Chunk
    BY <1>3, LenProperties, ElementOfSeq
  <1>5. \A c \in Chunk : ToSet(c) \subseteq Objects
    <2> SUFFICES ASSUME NEW c \in Chunk, NEW i \in DOMAIN c PROVE c[i] \in Objects
      BY DEF ToSet
    <2> QED BY LenProperties, ElementOfSeq DEF Chunk
  <1>6. Roots \subseteq Objects
    BY <1>4, <1>5 DEF Roots
  <1>7. \A o : Listed(RootChunks, o) <=> o \in Roots
    BY DEF Listed, Roots
  <1> QED BY <1>3, <1>6, <1>7 DEF ChunkLists

\* A non-empty set of workers has a least one.
LEMMA LeastOfSome ==
  ASSUME NEW S \in SUBSET Workers, S # {}
  PROVE  \E v \in S : \A u \in S : v <= u
  <1> DEFINE Below(v) == {u \in S : u <= v}
             T == {Below(v) : v \in S}
  <1>1. IsFiniteSet(S)
    BY FS_Subset
  <1>2. IsWellFoundedOn(StrictSubsetOrdering(S), SUBSET S)
    BY <1>1, FS_StrictSubsetOrderingWellFounded, FS_FiniteSubsetsOfFinite
  <1>3. T \subseteq SUBSET S /\ T # {}
    <2>1. \A C \in T : C \subseteq S
      OBVIOUS
    <2>2. PICK x \in S : TRUE
      OBVIOUS
    <2>3. Below(x) \in T
      BY <2>2
    <2> QED BY <2>1, <2>3
  <1>4. PICK B \in T : \A C \in T : ~(<<C, B>> \in StrictSubsetOrdering(S))
    BY <1>2, <1>3, WFMin
  <1>5. PICK v \in S : B = Below(v)
    OBVIOUS
  <1>6. ASSUME NEW u \in S, ~(v <= u)
        PROVE  FALSE
    <2>1. u \in Nat /\ v \in Nat /\ u < v
      BY <1>6
    <2>2. \A x \in Below(u) : x \in Below(v)
      <3> SUFFICES ASSUME NEW x \in S, x <= u PROVE x <= v
        OBVIOUS
      <3>1. x \in Nat
        OBVIOUS
      <3> QED BY <2>1, <3>1
    <2>3. v \in Below(v) /\ v \notin Below(u)
      BY <2>1
    <2>4. <<Below(u), B>> \in StrictSubsetOrdering(S)
      BY <1>3, <1>5, <2>2, <2>3 DEF StrictSubsetOrdering
    <2> QED BY <1>4, <2>4
  <1> QED BY <1>6

-----------------------------------------------------------------------------
(* Parts of the invariant that a step leaves alone.                        *)

\* Where an object may be queued.
LEMMA QueuedIsListed ==
  \A o : Queued(o) <=> Listed(processList, o) \/ \E w \in Workers : o \in ToSet(marking[w])
  BY DEF Queued, Listed

\* What is reached, if nothing is marked or moved, ...
LEMMA SameReach ==
  ASSUME ReachInv, UNCHANGED <<marked, processList, marking, todo>>,
         cpc' # "mutate" => cpc # "mutate"
  PROVE  ReachInv'
  BY DEF ReachInv, Queued

\* ... or if objects only move between the list and the chunks, ...
LEMMA MovedReach ==
  ASSUME ReachInv, UNCHANGED <<marked, todo>>, cpc' = cpc,
         \A o \in Objects : Queued(o)' => Queued(o)
  PROVE  ReachInv'
  BY DEF ReachInv

\* ... or if a child of an object that is visited is marked and queued.
LEMMA MarkedReach ==
  ASSUME ReachInv, TypeOK, NEW w \in Workers, NEW c \in todo[w], cpc' = cpc,
         marked' = marked \cup {c}, todo' = [todo EXCEPT ![w] = @ \ {c}],
         \A o \in Objects : Queued(o)' => Queued(o) \/ o = c
  PROVE  ReachInv'
  <1>1. PICK parent \in marked : c \in Refs[parent]
    BY DEF ReachInv
  <1>2. \A T \in SUBSET Objects : Roots \subseteq T /\ Closed(T) => marked' \subseteq T
    BY <1>1 DEF ReachInv, Closed
  <1>3. \A v \in Workers : \A d \in todo'[v] : \E o \in marked' : d \in Refs[o]
    <2>1. \A v \in Workers : todo'[v] \subseteq todo[v]
      BY DEF TypeOK
    <2> QED BY <2>1 DEF ReachInv
  <1>4. \A o \in Objects : Queued(o)' => o \in marked'
    BY DEF ReachInv
  <1>5. cpc' # "mutate" => Roots \subseteq marked'
    BY DEF ReachInv
  <1> QED BY <1>2, <1>3, <1>4, <1>5 DEF ReachInv

\* Nothing is forgotten, if nothing is marked or moved, ...
LEMMA SameForgotten ==
  ASSUME NothingForgotten, UNCHANGED <<marked, processList, marking, todo>>,
         cpc' # "mutate" => cpc # "mutate"
  PROVE  NothingForgotten'
  BY DEF NothingForgotten, Queued

\* ... or if objects only move between the list and the chunks, ...
LEMMA MovedForgotten ==
  ASSUME NothingForgotten, TypeOK, UNCHANGED <<marked, todo>>, cpc' = cpc,
         \A o \in Objects : Queued(o) => Queued(o)'
  PROVE  NothingForgotten'
  BY DEF NothingForgotten, TypeOK

\* ... or if a child is marked and queued.
LEMMA MarkedForgotten ==
  ASSUME NothingForgotten, TypeOK, NEW w \in Workers, NEW c \in todo[w], cpc' = cpc,
         marked' = marked \cup {c}, todo' = [todo EXCEPT ![w] = @ \ {c}],
         \A o \in Objects : Queued(o) \/ o = c => Queued(o)'
  PROVE  NothingForgotten'
  <1> SUFFICES ASSUME cpc # "mutate", NEW o \in marked', ~Queued(o)', NEW d \in Refs[o]
               PROVE  d \in marked' \/ \E v \in Workers : d \in todo'[v]
    BY DEF NothingForgotten
  <1>1. o \in marked /\ ~Queued(o)
    BY DEF TypeOK
  <1>2. d \in marked \/ \E v \in Workers : d \in todo[v]
    BY <1>1 DEF NothingForgotten
  <1>3. ASSUME NEW v \in Workers, d \in todo[v]
        PROVE  d = c \/ d \in todo'[v]
    BY <1>3 DEF TypeOK
  <1> QED BY <1>2, <1>3

-----------------------------------------------------------------------------
(* The collector's steps.                                                  *)

\* The workers start with nothing in hand, and find the roots on the list.
LEMMA StartMarkInv ==
  ASSUME MarkInv, StartMark
  PROVE  MarkInv'
  <1> USE DEF MarkInv, TypeOK, StartMark, StartThreadJobs, SetRunning, Signal
  <1>a. /\ \A w \in Workers : wpc[w] \notin Busy \cup {"need", "spin"}
        /\ \A w \in Workers : marking[w] = <<>> /\ todo[w] = {}
    BY DEF JobInv, HandInv, Visiting, Busy
  <1>b. /\ marked' = Roots /\ processList' = RootChunks /\ UNCHANGED <<wpc, marking, todo>>
        /\ sRunningThreads' = Workers /\ cpc' = "marking"
    BY DEF StartThreadJobs, SetRunning
  <1>c. \A o : Queued(o)' <=> o \in Roots
    <2>1. \A o : Queued(o)' <=> Listed(RootChunks, o) \/ \E w \in Workers : o \in ToSet(marking[w])
      BY <1>b DEF Queued, Listed
    <2>2. \A w \in Workers : ToSet(marking[w]) = {}
      BY <1>a, SmallChunks
    <2> QED BY <2>1, <2>2, RootsAreListed
  <1>1. TypeOK'
    <2>1. /\ sRunningThreads' \subseteq Workers /\ sAllThreads' \subseteq Workers /\ sLazyThreads' \in BOOLEAN
          /\ sgThreadPoolJob' \in Jobs /\ signalled' \subseteq Workers
          /\ sThreadJobDoneSleeping' \in BOOLEAN /\ doneSignalled' \in BOOLEAN /\ cpc' \in CollectorPCs
      BY DEF StartThreadJobs, SetRunning, Signal, Jobs, CollectorPCs
    <2>2. marked' \subseteq Objects /\ processList' \in ChunkLists
      BY <1>b, RootsAreListed
    <2> QED BY <1>b, <2>1, <2>2 DEF StartThreadJobs
  <1>2. NoLostWake' BY DEF NoLostWake, JobInv
  <1>3. JobInv' BY DEF JobInv, Busy
  <1>4. HandInv' BY DEF HandInv, Busy, Visiting
  <1>5. ListInv' BY <1>a, <1>b DEF ListInv
  <1>6. ReachInv' BY <1>a, <1>b, <1>c, RootsAreListed DEF ReachInv, Closed
  <1>7. ReclaimInv' BY DEF ReclaimInv
  <1>8. NothingForgotten' BY <1>b, <1>c DEF NothingForgotten
  <1> QED BY <1>1, <1>2, <1>3, <1>4, <1>5, <1>6, <1>7, <1>8

\* When the collector goes on, every worker has stopped.
LEMMA MarkDoneInv ==
  ASSUME MarkInv, MarkDone
  PROVE  MarkInv'
  <1> USE DEF MarkInv, TypeOK, MarkDone, JobDone
  <1>a. \A w \in Workers : wpc[w] \in {"loop", "asleep"}
    BY DEF NoLostWake, JobDone
  <1>1. TypeOK' BY DEF CollectorPCs, Jobs, JobDone
  <1>2. NoLostWake' BY DEF NoLostWake, JobInv
  <1>3. JobInv' BY <1>a DEF JobInv, Busy, JobDone
  <1>4. HandInv' BY DEF HandInv, Busy, Visiting
  <1>5. ListInv' BY DEF ListInv
  <1>6. ReachInv' BY SameReach
  <1>7. ReclaimInv' BY DEF ReclaimInv
  <1>8. NothingForgotten' BY SameForgotten
  <1> QED BY <1>1, <1>2, <1>3, <1>4, <1>5, <1>6, <1>7, <1>8

\* No block has been claimed when the reclaim starts.
LEMMA StartReclaimInv ==
  ASSUME MarkInv, StartReclaim
  PROVE  MarkInv'
  <1> USE DEF MarkInv, TypeOK, StartReclaim, StartThreadJobs, SetRunning, Signal
  <1>1. TypeOK' BY DEF WorkerPCs, CollectorPCs, Jobs
  <1>2. NoLostWake' BY DEF NoLostWake, JobInv
  <1>3. JobInv' BY DEF JobInv, Busy
  <1>4. HandInv' BY DEF HandInv, Busy, Visiting
  <1>5. ListInv' BY DEF ListInv
  <1>6. ReachInv' BY SameReach
  <1>7. ReclaimInv' BY DEF ReclaimInv, Blocks
  <1>8. NothingForgotten' BY SameForgotten
  <1> QED BY <1>1, <1>2, <1>3, <1>4, <1>5, <1>6, <1>7, <1>8

\* When every worker has stopped, no block is left.
LEMMA ReclaimDoneInv ==
  ASSUME MarkInv, ReclaimDone
  PROVE  MarkInv'
  <1> USE DEF MarkInv, TypeOK, ReclaimDone, JobDone
  <1>a. \A w \in Workers : wpc[w] \in {"loop", "asleep"}
    BY DEF NoLostWake, JobDone
  <1>1. TypeOK' BY DEF CollectorPCs, Jobs, JobDone
  <1>2. NoLostWake' BY DEF NoLostWake, JobInv
  <1>3. JobInv' BY <1>a DEF JobInv, Busy, JobDone
  <1>4. HandInv' BY DEF HandInv, Busy, Visiting
  <1>5. ListInv' BY DEF ListInv
  <1>6. ReachInv' BY SameReach
  <1>7. ReclaimInv'
    <2>1. mThreadJobId >= BlockCount
      BY DEF ReclaimInv, JobDone
    <2> QED BY <2>1 DEF ReclaimInv, Blocks, JobDone
  <1>8. NothingForgotten' BY SameForgotten
  <1> QED BY <1>1, <1>2, <1>3, <1>4, <1>5, <1>6, <1>7, <1>8

\* The marks are forgotten, and nothing is queued that would be marked.
LEMMA CollectDoneInv ==
  ASSUME MarkInv, CollectDone
  PROVE  MarkInv'
  <1> USE DEF MarkInv, TypeOK, CollectDone
  <1>1. TypeOK' BY DEF WorkerPCs, CollectorPCs
  <1>2. NoLostWake' BY DEF NoLostWake, JobInv
  <1>3. JobInv' BY DEF JobInv, Busy
  <1>4. HandInv' BY DEF HandInv, Busy, Visiting
  <1>5. ListInv' BY DEF ListInv
  <1>6. ReachInv'
    <2>1. \A w \in Workers : marking[w] = <<>> /\ todo[w] = {}
      BY DEF JobInv, HandInv, Visiting, Busy
    <2>2. processList = <<>>
      BY DEF ListInv
    <2>3. \A o : ~Queued(o)'
      <3>1. \A w \in Workers : ToSet(marking[w]) = {}
        BY <2>1, SmallChunks
      <3> QED BY <2>2, <3>1 DEF Queued
    <2> QED BY <2>1, <2>3 DEF ReachInv, Closed
  <1>7. ReclaimInv' BY DEF ReclaimInv
  <1>8. NothingForgotten' BY DEF NothingForgotten
  <1> QED BY <1>1, <1>2, <1>3, <1>4, <1>5, <1>6, <1>7, <1>8

-----------------------------------------------------------------------------
(* The workers' steps.                                                     *)

\* A worker that looks at its bit and sleeps or starts.
LEMMA SleepInv ==
  ASSUME MarkInv, NEW w \in Workers, Sleep(w)
  PROVE  MarkInv'
  <1> USE DEF MarkInv, TypeOK, Sleep, WaitForThreadWake, ThreadWake
  <1>a. /\ \A v \in Workers : v # w => wpc'[v] = wpc[v]
        /\ wpc[w] \in {"loop", "asleep"} /\ wpc'[w] \in {"loop", "asleep", "job"}
        /\ wpc' \in [Workers -> WorkerPCs]
    BY DEF WorkerPCs
  <1>b. UNCHANGED <<poolVars, sThreadJobDoneSleeping, doneSignalled, cpc, markVars, mThreadJobId, reclaims>>
    OBVIOUS
  <1>1. TypeOK' BY DEF WorkerPCs
  <1>2. NoLostWake'
    <2>1. \A v \in Workers : wpc'[v] \notin {"loop", "asleep"} => v \in sRunningThreads
      BY <1>a DEF NoLostWake
    <2>2. \A v \in Workers : wpc'[v] = "asleep" /\ v \in sRunningThreads => v \in signalled'
      BY <1>a DEF NoLostWake
    <2> QED BY <1>b, <2>1, <2>2 DEF NoLostWake
  <1>3. JobInv'
    <2>1. sThreadSleeping = {v \in Workers : wpc[v] = "asleep"}
      BY DEF JobInv
    <2>2. sThreadSleeping' = {v \in Workers : wpc'[v] = "asleep"}
      <3>1. CASE w \in sRunningThreads
        <4>1. sThreadSleeping' = sThreadSleeping \ {w} /\ wpc'[w] = "job"
          BY <2>1, <3>1
        <4> QED BY <1>a, <2>1, <4>1
      <3>2. CASE w \notin sRunningThreads
        <4>1. sThreadSleeping' = sThreadSleeping \cup {w} /\ wpc'[w] = "asleep"
          BY <2>1, <3>2
        <4> QED BY <1>a, <2>1, <4>1
      <3> QED BY <3>1, <3>2
    <2> QED BY <1>a, <1>b, <2>2 DEF JobInv, Busy
  <1>4. HandInv' BY DEF HandInv, Busy, Visiting
  <1>5. ListInv' BY DEF ListInv
  <1>6. ReachInv' BY SameReach
  <1>7. ReclaimInv' BY DEF ReclaimInv
  <1>8. NothingForgotten' BY SameForgotten
  <1> QED BY <1>1, <1>2, <1>3, <1>4, <1>5, <1>6, <1>7, <1>8

\* A worker that takes the job it was woken for.
LEMMA TakeJobInv ==
  ASSUME MarkInv, NEW w \in Workers, TakeJob(w)
  PROVE  MarkInv'
  <1> USE DEF MarkInv, TypeOK, TakeJob
  <1>a. w \in sRunningThreads /\ wpc[w] = "job" /\ cpc \in {"marking", "reclaiming"}
    BY DEF NoLostWake, JobInv
  <1>1. TypeOK' BY <1>a DEF WorkerPCs
  <1>2. NoLostWake' BY <1>a DEF NoLostWake
  <1>3. JobInv' BY <1>a DEF JobInv, Busy
  <1>4. HandInv' BY <1>a DEF HandInv, Busy, Visiting
  <1>5. ListInv' BY <1>a DEF ListInv
  <1>6. ReachInv' BY <1>a, SameReach
  <1>7. ReclaimInv' BY <1>a DEF ReclaimInv
  <1>8. NothingForgotten' BY <1>a, SameForgotten
  <1> QED BY <1>1, <1>2, <1>3, <1>4, <1>5, <1>6, <1>7, <1>8

\* A chunk goes from the list to a worker.
LEMMA PopJobInv ==
  ASSUME MarkInv, NEW w \in Workers, PopJob(w)
  PROVE  MarkInv'
  <1> USE DEF MarkInv, TypeOK, PopJob
  <1>a. w \in sRunningThreads /\ wpc[w] \in {"need", "spin"} /\ cpc = "marking"
    BY DEF NoLostWake, JobInv
  <1>b. marking[w] = <<>>
    BY <1>a DEF HandInv, Busy
  <1>c. /\ Head(processList) \in Chunk /\ Tail(processList) \in ChunkLists
        /\ \A o : Listed(processList, o) <=> o \in ToSet(Head(processList)) \/ Listed(Tail(processList), o)
    BY HeadOfList
  <1>d. \A o : Queued(o)' <=> Queued(o)
    <2>1. \A o : Queued(o) <=> Listed(processList, o) \/ \E v \in Workers : o \in ToSet(marking[v])
      BY QueuedIsListed
    <2>2. \A o : Queued(o)' <=> Listed(Tail(processList), o) \/ \E v \in Workers : o \in ToSet(marking'[v])
      BY DEF Queued, Listed
    <2>3. ToSet(marking[w]) = {} /\ ToSet(marking'[w]) = ToSet(Head(processList))
      BY <1>b, SmallChunks
    <2>4. \A v \in Workers : v # w => marking'[v] = marking[v]
      OBVIOUS
    <2> HIDE DEF PopJob, MarkInv
    <2> QED BY <1>c, <2>1, <2>2, <2>3, <2>4
  <1>1. TypeOK'
    <2>1. wpc' \in [Workers -> WorkerPCs]
      BY <1>a DEF WorkerPCs
    <2>2. marking' \in [Workers -> Chunk] /\ processList' \in ChunkLists
      BY <1>c
    <2> QED BY <2>1, <2>2
  <1>2. NoLostWake' BY <1>a DEF NoLostWake
  <1>3. JobInv'
    <2>1. wpc' = [wpc EXCEPT ![w] = "scan"]
      OBVIOUS
    <2>2. UNCHANGED <<poolVars, sleepVars, cpc>>
      OBVIOUS
    <2> HIDE DEF PopJob
    <2> QED BY <1>a, <2>1, <2>2 DEF JobInv, Busy
  <1>4. HandInv' BY <1>a DEF HandInv, Busy, Visiting
  <1>5. ListInv' BY <1>a DEF ListInv
  <1>6. ReachInv' BY <1>d, MovedReach
  <1>7. ReclaimInv' BY <1>a DEF ReclaimInv
  <1>8. NothingForgotten' BY <1>d, MovedForgotten
  <1> QED BY <1>1, <1>2, <1>3, <1>4, <1>5, <1>6, <1>7, <1>8

\* A worker spins if the list is empty.
LEMMA NoJobInv ==
  ASSUME MarkInv, NEW w \in Workers, NoJob(w)
  PROVE  MarkInv'
  <1> USE DEF MarkInv, TypeOK, NoJob
  <1>a. w \in sRunningThreads /\ wpc[w] = "need" /\ cpc = "marking"
    BY DEF NoLostWake, JobInv, Busy
  <1>1. TypeOK' BY <1>a DEF WorkerPCs
  <1>2. NoLostWake' BY <1>a DEF NoLostWake
  <1>3. JobInv' BY <1>a DEF JobInv, Busy
  <1>4. HandInv' BY <1>a DEF HandInv, Busy, Visiting
  <1>5. ListInv' BY <1>a DEF ListInv
  <1>6. ReachInv' BY <1>a, SameReach
  <1>7. ReclaimInv' BY <1>a DEF ReclaimInv
  <1>8. NothingForgotten' BY <1>a, SameForgotten
  <1> QED BY <1>1, <1>2, <1>3, <1>4, <1>5, <1>6, <1>7, <1>8

\* A worker stops with nothing in hand; if the list is not empty, another is yet to look.
LEMMA CompleteThreadInv ==
  ASSUME MarkInv, NEW w \in Workers, CompleteThread(w)
  PROVE  MarkInv'
  <1> USE DEF MarkInv, TypeOK, CompleteThread, FinishThreadJob, SetRunning
  <1>a. w \in sRunningThreads /\ wpc[w] = "spin" /\ cpc = "marking"
    BY DEF NoLostWake, JobInv, Busy
  <1>1. TypeOK' BY <1>a DEF WorkerPCs
  <1>2. NoLostWake' BY <1>a DEF NoLostWake
  <1>3. JobInv' BY <1>a DEF JobInv, Busy
  <1>4. HandInv' BY <1>a DEF HandInv, Busy, Visiting
  <1>5. ListInv' BY <1>a DEF ListInv
  <1>6. ReachInv' BY <1>a, SameReach
  <1>7. ReclaimInv' BY <1>a DEF ReclaimInv
  <1>8. NothingForgotten' BY <1>a, SameForgotten
  <1> QED BY <1>1, <1>2, <1>3, <1>4, <1>5, <1>6, <1>7, <1>8

\* The object a worker takes is covered by what the worker is about to mark.
LEMMA VisitObjectInv ==
  ASSUME MarkInv, NEW w \in Workers, VisitObject(w)
  PROVE  MarkInv'
  <1> USE DEF MarkInv, TypeOK, VisitObject
  <1>a. w \in sRunningThreads /\ wpc[w] = "scan" /\ cpc = "marking"
    BY DEF NoLostWake, JobInv, Busy
  <1>b. /\ Front(marking[w]) \in Chunk /\ Last(marking[w]) \in Objects
        /\ ToSet(marking[w]) = ToSet(Front(marking[w])) \cup {Last(marking[w])}
    BY FrontOfChunk
  <1>c. /\ marking' = [marking EXCEPT ![w] = Front(marking[w])]
        /\ todo' = [todo EXCEPT ![w] = Refs[Last(marking[w])] \ marked]
        /\ UNCHANGED <<marked, processList, cpc>>
    OBVIOUS
  <1>d. todo[w] = {}
    BY <1>a DEF HandInv, Visiting
  <1>e. \A o : Queued(o) <=> Queued(o)' \/ o = Last(marking[w])
    <2>1. \A o : Queued(o) <=> Listed(processList, o) \/ \E v \in Workers : o \in ToSet(marking[v])
      BY QueuedIsListed
    <2>2. \A o : Queued(o)' <=> Listed(processList, o) \/ \E v \in Workers : o \in ToSet(marking'[v])
      BY <1>c DEF Queued, Listed
    <2>3. ToSet(marking'[w]) = ToSet(Front(marking[w]))
      BY <1>c
    <2>4. \A v \in Workers : v # w => marking'[v] = marking[v]
      BY <1>c
    <2> HIDE DEF VisitObject, MarkInv
    <2> QED BY <1>b, <2>1, <2>2, <2>3, <2>4
  <1>1. TypeOK'
    <2>1. wpc' \in [Workers -> WorkerPCs]
      BY <1>b DEF WorkerPCs
    <2>2. marking' \in [Workers -> Chunk]
      BY <1>b, <1>c
    <2>3. todo' \in [Workers -> SUBSET Objects]
      BY <1>b, <1>c
    <2> QED BY <2>1, <2>2, <2>3
  <1>2. NoLostWake' BY <1>a DEF NoLostWake
  <1>3. JobInv' BY <1>a DEF JobInv, Busy
  <1>4. HandInv' BY <1>a DEF HandInv, Busy, Visiting
  <1>5. ListInv' BY <1>a DEF ListInv
  <1>6. ReachInv'
    <2>1. Last(marking[w]) \in marked /\ \A o \in Objects : Queued(o)' => o \in marked
      BY <1>b, <1>e DEF ReachInv
    <2>2. \A v \in Workers : \A c \in todo'[v] : \E o \in marked : c \in Refs[o]
      BY <1>c, <2>1 DEF ReachInv
    <2> QED BY <1>c, <2>1, <2>2 DEF ReachInv
  <1>7. ReclaimInv' BY <1>a DEF ReclaimInv
  <1>8. NothingForgotten'
    <2> SUFFICES ASSUME NEW o \in marked, ~Queued(o)', NEW d \in Refs[o]
                 PROVE  d \in marked \/ \E v \in Workers : d \in todo'[v]
      BY <1>c DEF NothingForgotten
    <2>1. CASE o = Last(marking[w])
      BY <1>c, <2>1
    <2>2. CASE o # Last(marking[w])
      <3>1. d \in marked \/ \E v \in Workers : d \in todo[v]
        BY <1>a, <1>e, <2>2 DEF NothingForgotten
      <3> QED BY <1>c, <1>d, <3>1
    <2> QED BY <2>1, <2>2
  <1> QED BY <1>1, <1>2, <1>3, <1>4, <1>5, <1>6, <1>7, <1>8

\* A worker that has emptied its chunk looks for another.
LEMMA ChunkEmptyInv ==
  ASSUME MarkInv, NEW w \in Workers, ChunkEmpty(w)
  PROVE  MarkInv'
  <1> USE DEF MarkInv, TypeOK, ChunkEmpty
  <1>a. w \in sRunningThreads /\ wpc[w] = "scan" /\ cpc = "marking"
    BY DEF NoLostWake, JobInv, Busy
  <1>1. TypeOK' BY <1>a DEF WorkerPCs
  <1>2. NoLostWake' BY <1>a DEF NoLostWake
  <1>3. JobInv' BY <1>a DEF JobInv, Busy
  <1>4. HandInv' BY <1>a DEF HandInv, Busy, Visiting
  <1>5. ListInv' BY <1>a DEF ListInv
  <1>6. ReachInv' BY <1>a, SameReach
  <1>7. ReclaimInv' BY <1>a DEF ReclaimInv
  <1>8. NothingForgotten' BY <1>a, SameForgotten
  <1> QED BY <1>1, <1>2, <1>3, <1>4, <1>5, <1>6, <1>7, <1>8

\* A child goes on the worker's chunk.
LEMMA PushObjInv ==
  ASSUME MarkInv, NEW w \in Workers, PushObj(w)
  PROVE  MarkInv'
  <1> USE DEF MarkInv, TypeOK, PushObj
  <1>a. w \in sRunningThreads /\ wpc[w] = "visit" /\ cpc = "marking"
    BY DEF NoLostWake, JobInv, Busy
  <1>b. PICK o \in todo[w] :
          /\ marked' = marked \cup {o} /\ todo' = [todo EXCEPT ![w] = @ \ {o}]
          /\ marking' = [marking EXCEPT ![w] = Append(@, o)] /\ processList' = processList
    OBVIOUS
  <1>c. o \in Objects /\ Append(marking[w], o) \in Chunk
        /\ ToSet(Append(marking[w], o)) = ToSet(marking[w]) \cup {o}
    BY AppendToChunk
  <1>d. \A x : Queued(x)' <=> Queued(x) \/ x = o
    <2>1. \A x : Queued(x) <=> Listed(processList, x) \/ \E v \in Workers : x \in ToSet(marking[v])
      BY QueuedIsListed
    <2>2. \A x : Queued(x)' <=> Listed(processList, x) \/ \E v \in Workers : x \in ToSet(marking'[v])
      BY <1>b DEF Queued, Listed
    <2>3. ToSet(marking'[w]) = ToSet(Append(marking[w], o))
      BY <1>b
    <2>4. \A v \in Workers : v # w => marking'[v] = marking[v]
      BY <1>b
    <2> HIDE DEF PushObj, MarkInv
    <2> QED BY <1>c, <2>1, <2>2, <2>3, <2>4
  <1>1. TypeOK'
    <2>1. wpc' \in [Workers -> WorkerPCs]
      BY <1>b DEF WorkerPCs
    <2>2. marking' \in [Workers -> Chunk]
      BY <1>b, <1>c
    <2>3. marked' \subseteq Objects /\ todo' \in [Workers -> SUBSET Objects]
      BY <1>b, <1>c
    <2>4. processList' \in ChunkLists
      BY <1>b, <1>c
    <2> QED BY <2>1, <2>2, <2>3, <2>4
  <1>2. NoLostWake' BY <1>a DEF NoLostWake
  <1>3. JobInv' BY <1>a DEF JobInv, Busy
  <1>4. HandInv' BY <1>a DEF HandInv, Busy, Visiting
  <1>5. ListInv' BY <1>a DEF ListInv
  <1>6. ReachInv' BY <1>b, <1>d, MarkedReach
  <1>7. ReclaimInv' BY <1>a DEF ReclaimInv
  <1>8. NothingForgotten' BY <1>b, <1>d, MarkedForgotten
  <1> QED BY <1>1, <1>2, <1>3, <1>4, <1>5, <1>6, <1>7, <1>8

\* A full chunk goes on the list, and its worker, which has yet to look, runs.
LEMMA PushObjFullInv ==
  ASSUME MarkInv, NEW w \in Workers, PushObjFull(w)
  PROVE  MarkInv'
  <1> USE DEF MarkInv, TypeOK, PushObjFull
  <1>a. w \in sRunningThreads /\ wpc[w] = "visit" /\ cpc = "marking"
    BY DEF NoLostWake, JobInv, Busy
  <1>b. PICK o \in todo[w] :
          /\ marked' = marked \cup {o} /\ todo' = [todo EXCEPT ![w] = @ \ {o}]
          /\ marking' = [marking EXCEPT ![w] = <<o>>]
          /\ processList' = <<marking[w]>> \o processList
    OBVIOUS
  <1>c. /\ o \in Objects /\ <<o>> \in Chunk /\ ToSet(<<o>>) = {o}
        /\ <<marking[w]>> \o processList \in ChunkLists
        /\ \A x : Listed(<<marking[w]>> \o processList, x) <=> x \in ToSet(marking[w]) \/ Listed(processList, x)
    BY SmallChunks, PushOnList
  <1>d. \A x : Queued(x)' <=> Queued(x) \/ x = o
    <2>1. \A x : Queued(x) <=> Listed(processList, x) \/ \E v \in Workers : x \in ToSet(marking[v])
      BY QueuedIsListed
    <2>2. \A x : Queued(x)' <=> Listed(<<marking[w]>> \o processList, x)
                                \/ \E v \in Workers : x \in ToSet(marking'[v])
      BY <1>b DEF Queued, Listed
    <2>3. ToSet(marking'[w]) = {o}
      BY <1>b, <1>c
    <2>4. \A v \in Workers : v # w => marking'[v] = marking[v]
      BY <1>b
    <2> HIDE DEF PushObjFull, MarkInv
    <2> QED BY <1>c, <2>1, <2>2, <2>3, <2>4
  <1>1. TypeOK'
    <2>1. wpc' \in [Workers -> WorkerPCs]
      BY <1>b DEF WorkerPCs
    <2>2. marking' \in [Workers -> Chunk]
      BY <1>b, <1>c
    <2>3. marked' \subseteq Objects /\ todo' \in [Workers -> SUBSET Objects]
      BY <1>b, <1>c
    <2>4. processList' \in ChunkLists
      BY <1>b, <1>c
    <2> QED BY <2>1, <2>2, <2>3, <2>4
  <1>2. NoLostWake' BY <1>a DEF NoLostWake
  <1>3. JobInv' BY <1>a DEF JobInv, Busy
  <1>4. HandInv' BY <1>a DEF HandInv, Busy, Visiting
  <1>5. ListInv' BY <1>a DEF ListInv
  <1>6. ReachInv' BY <1>b, <1>d, MarkedReach
  <1>7. ReclaimInv' BY <1>a DEF ReclaimInv
  <1>8. NothingForgotten' BY <1>b, <1>d, MarkedForgotten
  <1> QED BY <1>1, <1>2, <1>3, <1>4, <1>5, <1>6, <1>7, <1>8

\* A child that has been marked meanwhile needs no mark.
LEMMA AlreadyMarkedInv ==
  ASSUME MarkInv, NEW w \in Workers, AlreadyMarked(w)
  PROVE  MarkInv'
  <1> USE DEF MarkInv, TypeOK, AlreadyMarked
  <1>a. w \in sRunningThreads /\ wpc[w] = "visit" /\ cpc = "marking"
    BY DEF NoLostWake, JobInv, Busy
  <1>b. PICK o \in todo[w] \cap marked : todo' = [todo EXCEPT ![w] = @ \ {o}]
    OBVIOUS
  <1>c. \A x : Queued(x)' <=> Queued(x)
    BY DEF Queued
  <1>1. TypeOK'
    <2>1. todo' \in [Workers -> SUBSET Objects]
      BY <1>b
    <2> QED BY <2>1
  <1>2. NoLostWake' BY <1>a DEF NoLostWake
  <1>3. JobInv' BY <1>a DEF JobInv, Busy
  <1>4. HandInv' BY <1>a DEF HandInv, Busy, Visiting
  <1>5. ListInv' BY <1>a DEF ListInv
  <1>6. ReachInv'
    <2>1. \A v \in Workers : todo'[v] \subseteq todo[v]
      BY <1>b
    <2> HIDE DEF TypeOK
    <2> QED BY <1>c, <2>1 DEF ReachInv
  <1>7. ReclaimInv' BY <1>a DEF ReclaimInv
  <1>8. NothingForgotten'
    <2> SUFFICES ASSUME NEW p \in marked, ~Queued(p), NEW d \in Refs[p]
                 PROVE  d \in marked \/ \E v \in Workers : d \in todo'[v]
      BY <1>c DEF NothingForgotten
    <2>1. d \in marked \/ \E v \in Workers : d \in todo[v]
      BY <1>a DEF NothingForgotten
    <2>2. ASSUME NEW v \in Workers, d \in todo[v]
          PROVE  d = o \/ d \in todo'[v]
      BY <1>b, <2>2
    <2> QED BY <2>1, <2>2
  <1> QED BY <1>1, <1>2, <1>3, <1>4, <1>5, <1>6, <1>7, <1>8

\* All children are marked.
LEMMA ObjectDoneInv ==
  ASSUME MarkInv, NEW w \in Workers, ObjectDone(w)
  PROVE  MarkInv'
  <1> USE DEF MarkInv, TypeOK, ObjectDone
  <1>a. w \in sRunningThreads /\ wpc[w] = "visit" /\ cpc = "marking"
    BY DEF NoLostWake, JobInv, Busy
  <1>1. TypeOK' BY <1>a DEF WorkerPCs
  <1>2. NoLostWake' BY <1>a DEF NoLostWake
  <1>3. JobInv' BY <1>a DEF JobInv, Busy
  <1>4. HandInv' BY <1>a DEF HandInv, Busy, Visiting
  <1>5. ListInv' BY <1>a DEF ListInv
  <1>6. ReachInv' BY <1>a, SameReach
  <1>7. ReclaimInv' BY <1>a DEF ReclaimInv
  <1>8. NothingForgotten' BY <1>a, SameForgotten
  <1> QED BY <1>1, <1>2, <1>3, <1>4, <1>5, <1>6, <1>7, <1>8

\* Both parts of a chunk stay queued, and its worker has yet to look.
LEMMA BalanceInv ==
  ASSUME MarkInv, NEW w \in Workers, Balance(w)
  PROVE  MarkInv'
  <1> USE DEF MarkInv, TypeOK, Balance
  <1>a. w \in sRunningThreads /\ wpc[w] = "balance" /\ cpc = "marking"
    BY DEF NoLostWake, JobInv, Busy
  <1> DEFINE kept == Len(marking[w]) - SplitBy
             first == SubSeq(marking[w], 1, kept)
             rest == SubSeq(marking[w], kept + 1, Len(marking[w]))
  <1>b. kept \in 0..Len(marking[w])
    <2>1. Len(marking[w]) \in Nat
      BY LenProperties DEF Chunk
    <2> QED BY <2>1
  <1>c. marking' = [marking EXCEPT ![w] = first] /\ processList' = <<rest>> \o processList
    OBVIOUS
  <1>d. first \in Chunk /\ rest \in Chunk /\ ToSet(marking[w]) = ToSet(first) \cup ToSet(rest)
    BY <1>b, SplitChunk
  <1> HIDE DEF kept, first, rest
  <1>e. /\ <<rest>> \o processList \in ChunkLists
        /\ \A x : Listed(<<rest>> \o processList, x) <=> x \in ToSet(rest) \/ Listed(processList, x)
    BY <1>d, PushOnList
  <1>f. \A x : Queued(x)' <=> Queued(x)
    <2>1. \A x : Queued(x) <=> Listed(processList, x) \/ \E v \in Workers : x \in ToSet(marking[v])
      BY QueuedIsListed
    <2>2. \A x : Queued(x)' <=> Listed(<<rest>> \o processList, x)
                                \/ \E v \in Workers : x \in ToSet(marking'[v])
      BY <1>c DEF Queued, Listed
    <2>3. ToSet(marking'[w]) = ToSet(first)
      BY <1>c
    <2>4. \A v \in Workers : v # w => marking'[v] = marking[v]
      BY <1>c
    <2> HIDE DEF Balance, MarkInv
    <2> QED BY <1>d, <1>e, <2>1, <2>2, <2>3, <2>4
  <1>1. TypeOK'
    <2>1. marking' \in [Workers -> Chunk] /\ processList' \in ChunkLists
      <3>1. marking \in [Workers -> Chunk]
        OBVIOUS
      <3> HIDE DEF MarkInv, TypeOK, Balance
      <3> QED BY <1>c, <1>d, <1>e, <3>1
    <2>2. wpc' \in [Workers -> WorkerPCs] /\ after' \in [Workers -> {"visit", "scan"}]
      BY DEF WorkerPCs
    <2> QED BY <2>1, <2>2
  <1>2. NoLostWake' BY <1>a DEF NoLostWake
  <1>3. JobInv' BY <1>a DEF JobInv, Busy
  <1>4. HandInv' BY <1>a DEF HandInv, Busy, Visiting
  <1>5. ListInv' BY <1>a DEF ListInv
  <1>6. ReachInv' BY <1>f, MovedReach
  <1>7. ReclaimInv' BY <1>a DEF ReclaimInv
  <1>8. NothingForgotten' BY <1>f, MovedForgotten
  <1> QED BY <1>1, <1>2, <1>3, <1>4, <1>5, <1>6, <1>7, <1>8

\* A chunk is not split.
LEMMA NoBalanceInv ==
  ASSUME MarkInv, NEW w \in Workers, NoBalance(w)
  PROVE  MarkInv'
  <1> USE DEF MarkInv, TypeOK, NoBalance
  <1>a. w \in sRunningThreads /\ wpc[w] = "balance" /\ cpc = "marking"
    BY DEF NoLostWake, JobInv, Busy
  <1>1. TypeOK' BY <1>a DEF WorkerPCs
  <1>2. NoLostWake' BY <1>a DEF NoLostWake
  <1>3. JobInv' BY <1>a DEF JobInv, Busy
  <1>4. HandInv' BY <1>a DEF HandInv, Busy, Visiting
  <1>5. ListInv' BY <1>a DEF ListInv
  <1>6. ReachInv' BY <1>a, SameReach
  <1>7. ReclaimInv' BY <1>a DEF ReclaimInv
  <1>8. NothingForgotten' BY <1>a, SameForgotten
  <1> QED BY <1>1, <1>2, <1>3, <1>4, <1>5, <1>6, <1>7, <1>8

\* A worker sees whether any is idle.
LEMMA AnyLazyInv ==
  ASSUME MarkInv, NEW w \in Workers, AnyLazy(w)
  PROVE  MarkInv'
  <1> USE DEF MarkInv, TypeOK, AnyLazy
  <1>a. w \in sRunningThreads /\ wpc[w] = "pushed" /\ cpc = "marking"
    BY DEF NoLostWake, JobInv, Busy
  <1>1. TypeOK' BY <1>a DEF WorkerPCs
  <1>2. NoLostWake' BY <1>a DEF NoLostWake
  <1>3. JobInv' BY <1>a DEF JobInv, Busy
  <1>4. HandInv' BY <1>a DEF HandInv, Busy, Visiting
  <1>5. ListInv' BY <1>a DEF ListInv
  <1>6. ReachInv' BY <1>a, SameReach
  <1>7. ReclaimInv' BY <1>a DEF ReclaimInv
  <1>8. NothingForgotten' BY <1>a, SameForgotten
  <1> QED BY <1>1, <1>2, <1>3, <1>4, <1>5, <1>6, <1>7, <1>8

\* The idle worker that is woken sleeps and is signalled, or has yet to look at its bit.
LEMMA WakeThreadInv ==
  ASSUME MarkInv, NEW w \in Workers, WakeThread(w)
  PROVE  MarkInv'
  <1> USE DEF MarkInv, TypeOK, WakeThread, WakeThreadLocked, SetRunning, Signal
  <1>a. w \in sRunningThreads /\ wpc[w] = "wake" /\ cpc = "marking"
    BY DEF NoLostWake, JobInv, Busy
  <1>b. /\ sRunningThreads \subseteq sRunningThreads' /\ sRunningThreads' \subseteq Workers
        /\ signalled' \subseteq Workers /\ sLazyThreads' \in BOOLEAN /\ sAllThreads' = sAllThreads
        /\ \A v \in sRunningThreads' : v \notin sRunningThreads /\ v \in sThreadSleeping => v \in signalled'
        /\ signalled \subseteq signalled'
    <2> DEFINE idle == {v \in Workers : v \notin sRunningThreads}
               next == CHOOSE v \in idle : \A u \in idle : v <= u
    <2>1. CASE idle = {}
      BY <2>1
    <2>2. CASE idle # {}
      <3>1. next \in idle
        <4>1. \E v \in idle : \A u \in idle : v <= u
          BY <2>2, LeastOfSome
        <4> QED BY <4>1
      <3>2. WakeThreadLocked(next)
        BY <2>2
      <3> HIDE DEF next, WakeThread
      <3> QED BY <3>1, <3>2
    <2> QED BY <2>1, <2>2
  <1>c. wpc' = [wpc EXCEPT ![w] = after[w]] /\ wpc'[w] \in {"visit", "scan"}
    OBVIOUS
  <1>d. UNCHANGED <<sgThreadPoolJob, sgThreadPoolAbort, sThreadSleeping, sThreadJobDoneSleeping,
                    doneSignalled, cpc, markVars, mThreadJobId, reclaims>>
    OBVIOUS
  <1> HIDE DEF WakeThread
  <1>1. TypeOK' BY <1>b, <1>c, <1>d DEF WorkerPCs
  <1>2. NoLostWake'
    <2>1. \A v \in Workers : wpc'[v] \notin {"loop", "asleep"} => v \in sRunningThreads'
      BY <1>a, <1>b, <1>c DEF NoLostWake
    <2>2. \A v \in Workers : wpc'[v] = "asleep" /\ v \in sRunningThreads' => v \in signalled'
      BY <1>b, <1>c DEF NoLostWake, JobInv
    <2>3. sThreadJobDoneSleeping => ~doneSignalled
      BY <1>a DEF NoLostWake
    <2> QED BY <1>a, <1>b, <1>d, <2>1, <2>2, <2>3 DEF NoLostWake
  <1>3. JobInv' BY <1>a, <1>b, <1>c, <1>d DEF JobInv, Busy
  <1>4. HandInv'
    <2>1. wpc'[w] = after[w] /\ \A v \in Workers : v # w => wpc'[v] = wpc[v]
      BY <1>c
    <2> QED BY <1>a, <1>c, <1>d, <2>1 DEF HandInv, Busy, Visiting
  <1>5. ListInv' BY <1>a, <1>b, <1>c, <1>d DEF ListInv
  <1>6. ReachInv' BY <1>d, SameReach
  <1>7. ReclaimInv' BY <1>a, <1>d DEF ReclaimInv
  <1>8. NothingForgotten' BY <1>d, SameForgotten
  <1> QED BY <1>1, <1>2, <1>3, <1>4, <1>5, <1>6, <1>7, <1>8

\* The block at mThreadJobId is reclaimed.
LEMMA ReclaimAsyncInv ==
  ASSUME MarkInv, NEW w \in Workers, ReclaimAsync(w)
  PROVE  MarkInv'
  <1> USE DEF MarkInv, TypeOK, ReclaimAsync
  <1>a. w \in sRunningThreads /\ wpc[w] = "claim" /\ cpc = "reclaiming"
    BY DEF NoLostWake, JobInv, Busy
  <1>b. mThreadJobId \in Blocks
    BY DEF Blocks
  <1>1. TypeOK'
    <2>1. reclaims' \in [Blocks -> Nat]
      BY <1>b
    <2> QED BY <2>1
  <1>2. NoLostWake' BY <1>a DEF NoLostWake
  <1>3. JobInv' BY <1>a DEF JobInv, Busy
  <1>4. HandInv' BY <1>a DEF HandInv, Busy, Visiting
  <1>5. ListInv' BY <1>a DEF ListInv
  <1>6. ReachInv' BY <1>a, SameReach
  <1>7. ReclaimInv'
    <2>1. \A b \in Blocks : reclaims[b] = IF b < mThreadJobId THEN 1 ELSE 0
      BY <1>a DEF ReclaimInv
    <2>2. reclaims' = [reclaims EXCEPT ![mThreadJobId] = 1]
      <3>1. reclaims[mThreadJobId] = 0
        BY <1>b, <2>1
      <3> QED BY <3>1
    <2>3. \A b \in Blocks : reclaims'[b] = IF b < mThreadJobId + 1 THEN 1 ELSE 0
      <3> SUFFICES ASSUME NEW b \in Blocks PROVE reclaims'[b] = IF b < mThreadJobId + 1 THEN 1 ELSE 0
        OBVIOUS
      <3>1. CASE b = mThreadJobId
        BY <1>b, <2>2, <3>1
      <3>2. CASE b # mThreadJobId
        <4>1. reclaims'[b] = reclaims[b] /\ (b < mThreadJobId <=> b < mThreadJobId + 1)
          BY <2>2, <3>2 DEF Blocks
        <4> QED BY <2>1, <4>1
      <3> QED BY <3>1, <3>2
    <2> QED BY <1>a, <2>3 DEF ReclaimInv
  <1>8. NothingForgotten' BY <1>a, SameForgotten
  <1> QED BY <1>1, <1>2, <1>3, <1>4, <1>5, <1>6, <1>7, <1>8

\* A worker only stops when there is no block left.
LEMMA ReclaimAsyncEndsInv ==
  ASSUME MarkInv, NEW w \in Workers, ReclaimAsyncEnds(w)
  PROVE  MarkInv'
  <1> USE DEF MarkInv, TypeOK, ReclaimAsyncEnds, FinishThreadJob, SetRunning
  <1>a. w \in sRunningThreads /\ wpc[w] = "claim" /\ cpc = "reclaiming"
    BY DEF NoLostWake, JobInv, Busy
  <1>1. TypeOK' BY <1>a DEF WorkerPCs
  <1>2. NoLostWake' BY <1>a DEF NoLostWake
  <1>3. JobInv' BY <1>a DEF JobInv, Busy
  <1>4. HandInv' BY <1>a DEF HandInv, Busy, Visiting
  <1>5. ListInv' BY <1>a DEF ListInv
  <1>6. ReachInv' BY <1>a, SameReach
  <1>7. ReclaimInv'
    <2>1. \A b \in Blocks : b < mThreadJobId /\ b < mThreadJobId'
      BY DEF Blocks
    <2> QED BY <1>a, <2>1 DEF ReclaimInv
  <1>8. NothingForgotten' BY <1>a, SameForgotten
  <1> QED BY <1>1, <1>2, <1>3, <1>4, <1>5, <1>6, <1>7, <1>8

-----------------------------------------------------------------------------
(* The invariant.                                                          *)

\* It holds at first: no worker has a chunk, and the list is empty.
LEMMA InitMarkInv == Init => MarkInv
  <1> SUFFICES ASSUME Init PROVE MarkInv
    OBVIOUS
  <1> USE DEF Init, PoolInit
  <1>1. TypeOK
    <2>1. processList \in ChunkLists
      BY EmptySeq DEF ChunkLists
    <2>2. <<>> \in Chunk
      BY SmallChunks
    <2> QED BY <2>1, <2>2 DEF TypeOK, Jobs, WorkerPCs, CollectorPCs
  <1>2. NoLostWake /\ JobInv
    BY DEF NoLostWake, JobInv, Busy
  <1>3. HandInv /\ ListInv /\ ReclaimInv
    BY DEF HandInv, ListInv, ReclaimInv
  <1>4. \A o : ~Queued(o)
    <2>1. \A w \in Workers : ToSet(marking[w]) = {}
      BY SmallChunks
    <2> QED BY <2>1 DEF Queued
  <1>5. ReachInv /\ NothingForgotten
    BY <1>4 DEF ReachInv, NothingForgotten
  <1> QED BY <1>1, <1>2, <1>3, <1>5 DEF MarkInv

\* A step that changes nothing.
LEMMA StutterMarkInv == MarkInv /\ UNCHANGED vars => MarkInv'
  <1> SUFFICES ASSUME MarkInv, UNCHANGED vars PROVE MarkInv'
    OBVIOUS
  <1> USE DEF MarkInv, vars
  <1>1. TypeOK'
    BY DEF TypeOK
  <1>2. NoLostWake' /\ JobInv'
    BY DEF NoLostWake, JobInv
  <1>3. HandInv' /\ ListInv' /\ ReclaimInv'
    BY DEF HandInv, Visiting, ListInv, ReclaimInv
  <1>4. ReachInv' /\ NothingForgotten'
    BY SameReach, SameForgotten
  <1> QED BY <1>1, <1>2, <1>3, <1>4

\* Every step keeps it.
LEMMA NextMarkInv == MarkInv /\ [Next]_vars => MarkInv'
  <1> SUFFICES ASSUME MarkInv, [Next]_vars PROVE MarkInv'
    OBVIOUS
  <1>1. CASE UNCHANGED vars
    BY <1>1, StutterMarkInv
  <1>2. CASE Collector
    BY <1>2, StartMarkInv, MarkDoneInv, StartReclaimInv, ReclaimDoneInv, CollectDoneInv DEF
       Collector
  <1>3. ASSUME NEW w \in Workers, Sleep(w) \/ TakeJob(w) \/ Reclaim(w) PROVE MarkInv'
    BY <1>3, SleepInv, TakeJobInv, ReclaimAsyncInv, ReclaimAsyncEndsInv DEF Reclaim
  <1>4. ASSUME NEW w \in Workers, Mark(w) PROVE MarkInv'
    BY <1>4, PopJobInv, NoJobInv, CompleteThreadInv, VisitObjectInv, ChunkEmptyInv, PushObjInv,
       PushObjFullInv, AlreadyMarkedInv, ObjectDoneInv, BalanceInv, NoBalanceInv, AnyLazyInv,
       WakeThreadInv DEF Mark
  <1> QED BY <1>1, <1>2, <1>3, <1>4 DEF Next, WorkerStep

\* So it is an invariant.
THEOREM MarkInvariant == Spec => []MarkInv
  BY InitMarkInv, NextMarkInv, PTL DEF Spec

-----------------------------------------------------------------------------
(* What follows from it.                                                   *)

\* Every variable keeps to its values: no chunk grows beyond MarkChunk::SIZE,
\* and none is split into more than it holds.
THEOREM TypeCorrect == Spec => []TypeOK
  <1>1. MarkInv => TypeOK
    BY DEF MarkInv
  <1> QED BY <1>1, MarkInvariant, PTL

\* However many workers mark, stop and wake one another: one that works has
\* its bit, one that sleeps with its bit has a signal, and so has the collector
\* when all have stopped.
THEOREM NoWakeLost == Spec => []NoLostWake
  <1>1. MarkInv => NoLostWake
    BY DEF MarkInv
  <1> QED BY <1>1, MarkInvariant, PTL

\* No chunk is lost between the list, the workers and the splits.
THEOREM NoneForgotten == Spec => []NothingForgotten
  <1>1. MarkInv => NothingForgotten
    BY DEF MarkInv
  <1> QED BY <1>1, MarkInvariant, PTL

\* When no job runs, nothing is queued.
LEMMA NothingQueued ==
  ASSUME MarkInv, cpc # "marking" \/ sRunningThreads = {}
  PROVE  /\ processList = <<>>
         /\ \A w \in Workers : marking[w] = <<>> /\ todo[w] = {}
         /\ \A o : ~Queued(o)
  <1> USE DEF MarkInv
  <1>1. \A w \in Workers : wpc[w] \notin Busy \cup {"need", "spin"}
    BY DEF JobInv, NoLostWake, Busy
  <1>2. \A w \in Workers : marking[w] = <<>> /\ todo[w] = {}
    BY <1>1 DEF HandInv, Visiting, Busy
  <1>3. processList = <<>>
    BY DEF ListInv
  <1> HIDE DEF MarkInv
  <1>4. \A w \in Workers : ToSet(marking[w]) = {}
    BY <1>2, SmallChunks
  <1>5. \A o : ~Queued(o)
    <2>1. DOMAIN processList = {}
      BY <1>3
    <2> QED BY <1>4, <2>1 DEF Queued
  <1> QED BY <1>2, <1>3, <1>5

\* When the collector goes on after a mark phase, no worker has anything in
\* hand and the list is empty.
THEOREM MarkingHasEnded == Spec => []MarkingIsOver
  <1>1. MarkInv => MarkingIsOver
    BY NothingQueued DEF MarkingIsOver
  <1> QED BY <1>1, MarkInvariant, PTL

\* No block is reclaimed by two workers, and none is left out.
THEOREM BlocksOnce == Spec => []EachBlockOnce
  <1>1. MarkInv => EachBlockOnce
    <2> SUFFICES ASSUME MarkInv PROVE EachBlockOnce
      OBVIOUS
    <2>1. ASSUME NEW b \in Blocks PROVE reclaims[b] \in {0, 1} /\ (cpc = "reclaimed" => reclaims[b] = 1)
      <3>1. cpc \in CollectorPCs
        BY DEF MarkInv, TypeOK
      <3> QED BY <3>1 DEF MarkInv, ReclaimInv, CollectorPCs
    <2> QED BY <2>1 DEF EachBlockOnce
  <1> QED BY <1>1, MarkInvariant, PTL

-----------------------------------------------------------------------------
(* The mark phase keeps the promise of Marking.                            *)

\* From the end of the mark phase until the mutators run again, what is marked
\* is what the roots reach: it contains them, refers to nothing outside itself,
\* and is no larger than any set of which that is true.
MarksAreExact ==
  cpc \in {"marked", "reclaiming", "reclaimed"} =>
    /\ Roots \subseteq marked /\ Closed(marked)
    /\ \A T \in SUBSET Objects : Roots \subseteq T /\ Closed(T) => marked \subseteq T

\* When nothing is queued any more, the marked objects refer to marked ones.
LEMMA MarkedIsClosed ==
  ASSUME MarkInv, cpc # "mutate", cpc # "marking" \/ sRunningThreads = {}
  PROVE  Closed(marked)
  <1> SUFFICES ASSUME NEW o \in marked, NEW c \in Refs[o] PROVE c \in marked
    BY DEF Closed
  <1>1. ~Queued(o) /\ \A w \in Workers : c \notin todo[w]
    BY NothingQueued
  <1> QED BY <1>1 DEF MarkInv, NothingForgotten

\* Several markers mark exactly what one would: the mark bits the reclaim goes
\* by tell the live rows from the dead ones.
THEOREM MarkingIsExact == Spec => []MarksAreExact
  <1>1. MarkInv => MarksAreExact
    BY MarkedIsClosed DEF MarksAreExact, MarkInv, ReachInv
  <1> QED BY <1>1, MarkInvariant, PTL

\* At first nothing is marked.
LEMMA InitMarks == Init => Phase!Init
  BY DEF Init, Phase!Init

\* A child that a worker marks is the child of a marked object.
LEMMA PushMarks ==
  ASSUME MarkInv, NEW w \in Workers, PushObj(w) \/ PushObjFull(w)
  PROVE  Phase!Mark
  <1>1. cpc = "marking" /\ cpc' = cpc
    <2>1. wpc[w] = "visit"
      BY DEF PushObj, PushObjFull
    <2> QED BY <2>1 DEF MarkInv, JobInv, Busy, PushObj, PushObjFull
  <1>2. PICK c \in todo[w] : marked' = marked \cup {c}
    BY DEF PushObj, PushObjFull
  <1>3. \E o \in marked : c \in Refs[o]
    BY DEF MarkInv, ReachInv
  <1> QED BY <1>1, <1>2, <1>3 DEF Phase!Mark

\* Every step is a step of Marking or a stutter.
LEMMA NextMarks == MarkInv /\ [Next]_vars => [Phase!Next]_(Phase!vars)
  <1> SUFFICES ASSUME MarkInv, [Next]_vars PROVE [Phase!Next]_(Phase!vars)
    OBVIOUS
  <1> USE DEF Phase!Next, Phase!vars
  <1>1. CASE UNCHANGED vars
    BY <1>1 DEF vars
  <1>2. CASE StartMark
    BY <1>2 DEF StartMark, StartThreadJobs, Phase!Begin
  <1>3. CASE MarkDone
    <2>1. sRunningThreads = {}
      BY <1>3 DEF MarkDone, JobDone, MarkInv, NoLostWake
    <2>2. cpc = "marking" /\ cpc' = "marked" /\ marked' = marked
      BY <1>3 DEF MarkDone, JobDone
    <2>3. Closed(marked)
      BY <2>1, <2>2, MarkedIsClosed
    <2> QED BY <2>2, <2>3 DEF Closed, Phase!End
  <1>4. CASE StartReclaim \/ ReclaimDone
    BY <1>4 DEF StartReclaim, ReclaimDone, StartThreadJobs, JobDone
  <1>5. CASE CollectDone
    BY <1>5 DEF CollectDone, Phase!Forget
  <1>6. ASSUME NEW w \in Workers, Sleep(w) \/ TakeJob(w) \/ Reclaim(w)
        PROVE  UNCHANGED <<cpc, marked>>
    BY <1>6 DEF Sleep, WaitForThreadWake, ThreadWake, TakeJob, Reclaim, ReclaimAsync,
       ReclaimAsyncEnds, FinishThreadJob
  <1>7. ASSUME NEW w \in Workers, Mark(w), ~PushObj(w), ~PushObjFull(w)
        PROVE  UNCHANGED <<cpc, marked>>
    <2>1. CASE PopJob(w) \/ NoJob(w) \/ CompleteThread(w) \/ VisitObject(w) \/ ChunkEmpty(w)
      BY <2>1 DEF PopJob, NoJob, CompleteThread, FinishThreadJob, VisitObject, ChunkEmpty
    <2>2. CASE AlreadyMarked(w) \/ ObjectDone(w) \/ Balance(w) \/ NoBalance(w)
      BY <2>2 DEF AlreadyMarked, ObjectDone, Balance, NoBalance
    <2>3. CASE AnyLazy(w) \/ WakeThread(w)
      BY <2>3 DEF AnyLazy, WakeThread
    <2> QED BY <1>7, <2>1, <2>2, <2>3 DEF Mark
  <1>8. ASSUME NEW w \in Workers, WorkerStep(w)
        PROVE  [Phase!Next]_(Phase!vars)
    <2>1. CASE PushObj(w) \/ PushObjFull(w)
      BY <2>1, PushMarks
    <2>2. CASE ~PushObj(w) /\ ~PushObjFull(w)
      BY <1>6, <1>7, <1>8, <2>2 DEF WorkerStep
    <2> QED BY <2>1, <2>2
  <1> QED BY <1>1, <1>2, <1>3, <1>4, <1>5, <1>8 DEF Next, Collector

\* The workers together do what Marking promises of a mark phase: what is
\* marked grows by what marked objects refer to, and it ends when that is all.
THEOREM MarkingRefinement == Spec => ImplementsMarking
  BY InitMarks, NextMarks, MarkInvariant, PTL DEF Spec, ImplementsMarking, Phase!Spec

=============================================================================
