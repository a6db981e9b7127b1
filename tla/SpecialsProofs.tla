---------------------------- MODULE SpecialsProofs ----------------------------
(***************************************************************************)
(* The safety properties of Specials, for any finite set of objects.       *)
(*                                                                         *)
(* The inductive invariant is SpecialsInv.  MarkedInv says which registry  *)
(* names only marked objects from which phase on, HistoryInv that what is  *)
(* marked has been neither disposed of nor cleared.  The difficulty is the *)
(* mark phase that comes again: before all zombies are found, what they    *)
(* will bring back is not marked, so there HistoryInv speaks of a closed   *)
(* set that holds it.  At the first mark phase of a collection nothing has *)
(* been disposed of, and any set will do; at the second it is what the     *)
(* first had marked.                                                       *)
(***************************************************************************)
EXTENDS Specials, SequenceTheorems, FiniteSetTheorems, TLAPS

USE SpecialsAssumption
USE DEF idVars, zombieVars, weakVars, heapVars, history, Runs, Then

-----------------------------------------------------------------------------
(* The lists and the tables.                                               *)

\* A zombie is put at the end of the list.
LEMMA AppendZombie ==
  ASSUME NEW l \in Seq(Objects), IsInjective(l), NEW o \in Objects, o \notin Range(l)
  PROVE  /\ Append(l, o) \in Seq(Objects) /\ IsInjective(Append(l, o))
         /\ Range(Append(l, o)) = Range(l) \cup {o}
  <1> DEFINE n == Len(l)
             m == Append(l, o)
  <1>1. /\ m \in Seq(Objects) /\ n \in Nat /\ DOMAIN m = 1..(n + 1) /\ DOMAIN l = 1..n
        /\ \A i \in 1..n : m[i] = l[i]
        /\ m[n + 1] = o
    BY AppendProperties, LenProperties
  <1> HIDE DEF m, n
  <1>2. 1..(n + 1) = 1..n \cup {n + 1}
    BY <1>1
  <1>3. Range(m) = Range(l) \cup {o}
    BY <1>1, <1>2 DEF Range
  <1>4. \A i \in 1..n : m[i] # o
    BY <1>1 DEF Range
  <1>5. IsInjective(m)
    <2> SUFFICES ASSUME NEW i \in 1..(n + 1), NEW j \in 1..(n + 1), m[i] = m[j] PROVE i = j
      BY <1>1 DEF IsInjective
    <2>1. CASE i \in 1..n /\ j \in 1..n
      BY <1>1, <2>1 DEF IsInjective
    <2>2. CASE i = n + 1 \/ j = n + 1
      BY <1>1, <1>2, <1>4, <2>2
    <2> QED BY <1>2, <2>1, <2>2
  <1> QED BY <1>1, <1>3, <1>5 DEF m

\* The last zombie is taken.
LEMMA FrontZombie ==
  ASSUME NEW l \in Seq(Objects), IsInjective(l), l # <<>>
  PROVE  /\ Front(l) \in Seq(Objects) /\ IsInjective(Front(l))
         /\ Range(Front(l)) \subseteq Range(l) /\ Last(l) \in Range(l)
  <1> DEFINE n == Len(l)
             m == SubSeq(l, 1, n - 1)
  <1>1. n \in Nat /\ n > 0 /\ DOMAIN l = 1..n /\ \A i \in 1..n : l[i] \in Objects
    BY EmptySeq, LenProperties, ElementOfSeq
  <1> HIDE DEF n
  <1>2. \A i \in 1..(n - 1) : l[i] \in Objects
    BY <1>1
  <1>3. /\ m \in Seq(Objects)
        /\ Len(m) = IF 1 <= n - 1 THEN (n - 1) - 1 + 1 ELSE 0
        /\ \A i \in 1..((n - 1) - 1 + 1) : m[i] = l[1 + i - 1]
    BY <1>1, <1>2, SubSeqProperties
  <1> HIDE DEF m
  <1>4. Len(m) = n - 1 /\ \A i \in 1..(n - 1) : m[i] = l[i]
    BY <1>1, <1>3
  <1>5. DOMAIN m = 1..(n - 1)
    BY <1>3, <1>4, LenProperties
  <1>6. \A i \in 1..(n - 1) : i \in 1..n
    BY <1>1
  <1>7. IsInjective(m) /\ Range(m) \subseteq Range(l)
    BY <1>1, <1>4, <1>5, <1>6 DEF IsInjective, Range
  <1>8. Last(l) \in Range(l)
    BY <1>1 DEF Last, Range, n
  <1> QED BY <1>3, <1>7, <1>8 DEF Front, m, n

\* What both tables of ids are, and how they agree.
TablesInv ==
  /\ sObjectIdMap \in [Objects -> Ids \cup {NoId}]
  /\ sIdObjectMap \in Seq(Objects \cup {None}) /\ Len(sIdObjectMap) <= Cardinality(Objects)
  /\ sFreeObjectIds \subseteq Ids
  /\ \A o \in Objects, i \in Ids :
       sObjectIdMap[o] = i <=> i < Len(sIdObjectMap) /\ sIdObjectMap[i + 1] = o
  /\ sFreeObjectIds = {i \in Ids : i < Len(sIdObjectMap) /\ sIdObjectMap[i + 1] = None}

\* The ids are numbers from 0 on.
LEMMA IdsAreNumbers ==
  /\ Cardinality(Objects) \in Nat /\ NoId \notin Ids
  /\ Ids = {i \in Nat : i < Cardinality(Objects)}
  BY FS_CardinalityType DEF Ids, NoId

\* An object in the second table has an id.
LEMMA HasId ==
  ASSUME TablesInv, NEW j \in 1..Len(sIdObjectMap)
  PROVE  /\ j - 1 \in Ids /\ sIdObjectMap[j] \in Objects \cup {None}
         /\ sIdObjectMap[j] # None => sObjectIdMap[sIdObjectMap[j]] = j - 1
  <1>1. Len(sIdObjectMap) \in Nat /\ sIdObjectMap[j] \in Objects \cup {None}
    BY LenProperties, ElementOfSeq DEF TablesInv
  <1>2. j - 1 \in Ids /\ (j - 1) + 1 = j /\ j - 1 < Len(sIdObjectMap)
    BY <1>1, IdsAreNumbers DEF TablesInv
  <1>3. ASSUME sIdObjectMap[j] # None
        PROVE  sObjectIdMap[sIdObjectMap[j]] = j - 1
    BY <1>1, <1>2, <1>3 DEF TablesInv
  <1> QED BY <1>1, <1>2, <1>3

\* Objects that are found by an id have one.
LEMMA IdsAreNamed ==
  ASSUME TablesInv
  PROVE  Range(sIdObjectMap) \ {None} \subseteq WithId
  <1> SUFFICES ASSUME NEW j \in DOMAIN sIdObjectMap, sIdObjectMap[j] # None
               PROVE  sIdObjectMap[j] \in WithId
    BY DEF Range
  <1>1. j \in 1..Len(sIdObjectMap)
    BY LenProperties DEF TablesInv
  <1> QED BY <1>1, HasId, IdsAreNumbers DEF WithId

\* With no free ids, there are as many ids as objects that have one: the next
\* id is not in use.
LEMMA NextId ==
  ASSUME TablesInv, sFreeObjectIds = {}
  PROVE  Cardinality(WithId) = Len(sIdObjectMap)
  <1> DEFINE n == Len(sIdObjectMap)
  <1>1. n \in Nat /\ DOMAIN sIdObjectMap = 1..n /\ sIdObjectMap \in [1..n -> Objects \cup {None}]
    BY LenProperties DEF TablesInv
  <1>2. ASSUME NEW j \in 1..n
        PROVE  sIdObjectMap[j] \in WithId /\ sObjectIdMap[sIdObjectMap[j]] = j - 1
    <2>1. sIdObjectMap[j] # None
      <3>1. j - 1 \in Ids /\ j - 1 < n /\ (j - 1) + 1 = j
        BY <1>1, HasId
      <3> QED BY <3>1 DEF TablesInv
    <2> QED BY <2>1, HasId, IdsAreNumbers DEF WithId
  <1>3. \A o \in WithId : \E j \in 1..n : sIdObjectMap[j] = o
    <2> SUFFICES ASSUME NEW o \in WithId PROVE \E j \in 1..n : sIdObjectMap[j] = o
      OBVIOUS
    <2>1. o \in Objects /\ sObjectIdMap[o] \in Ids
      BY DEF WithId, TablesInv
    <2>2. sObjectIdMap[o] < n /\ sIdObjectMap[sObjectIdMap[o] + 1] = o
      BY <2>1 DEF TablesInv
    <2>3. sObjectIdMap[o] + 1 \in 1..n
      BY <1>1, <2>1, <2>2, IdsAreNumbers
    <2> QED BY <2>2, <2>3
  <1> HIDE DEF n
  <1>4. sIdObjectMap \in [1..n -> WithId]
    BY <1>1, <1>2
  <1>5. sIdObjectMap \in Surjection(1..n, WithId)
    BY <1>3, <1>4 DEF Surjection
  <1>6. sIdObjectMap \in Injection(1..n, WithId)
    <2>1. \A j, k \in 1..n : sIdObjectMap[j] = sIdObjectMap[k] => j = k
      <3> SUFFICES ASSUME NEW j \in 1..n, NEW k \in 1..n, sIdObjectMap[j] = sIdObjectMap[k] PROVE j = k
        OBVIOUS
      <3>1. j - 1 = k - 1
        BY <1>2
      <3> QED BY <1>1, <3>1
    <2> QED BY <1>1, <1>4, <2>1 DEF Injection, IsInjective
  <1>7. IsFiniteSet(1..n) /\ Cardinality(1..n) = n
    BY <1>1, FS_Interval
  <1>8. Cardinality(WithId) = n
    BY <1>5, <1>6, <1>7, FS_Surjection
  <1> QED BY <1>8 DEF n

\* An object gets an id and keeps it, others keep theirs.
LEMMA GetObjectIDTables ==
  ASSUME TablesInv, NEW o \in Objects, NEW id \in Ids, GetObjectID(o, id)
  PROVE  /\ TablesInv'
         /\ sObjectIdMap' = [sObjectIdMap EXCEPT ![o] = id] /\ sObjectIdMap[o] \in {NoId, id}
  <1> DEFINE n == Len(sIdObjectMap)
  <1>a. n \in Nat /\ id \in Nat /\ \A i \in Ids : i \in Nat
    BY LenProperties, IdsAreNumbers DEF TablesInv
  <1>1. CASE sObjectIdMap[o] # NoId
    BY <1>1 DEF GetObjectID, TablesInv
  <1>2. CASE sObjectIdMap[o] = NoId /\ sFreeObjectIds # {}
    <2>1. /\ id \in sFreeObjectIds /\ sFreeObjectIds' = sFreeObjectIds \ {id}
          /\ sObjectIdMap' = [sObjectIdMap EXCEPT ![o] = id]
          /\ sIdObjectMap' = [sIdObjectMap EXCEPT ![id + 1] = o]
      BY <1>2 DEF GetObjectID
    <2>2. id < n /\ sIdObjectMap[id + 1] = None /\ id + 1 \in 1..n
      BY <1>a, <2>1 DEF TablesInv
    <2>3. /\ sIdObjectMap' \in Seq(Objects \cup {None}) /\ Len(sIdObjectMap') = n
          /\ \A j \in 1..n : sIdObjectMap'[j] = IF j = id + 1 THEN o ELSE sIdObjectMap[j]
      BY <2>1, <2>2, ExceptSeq DEF TablesInv
    <2>4. \A i \in Ids : i < n => sIdObjectMap'[i + 1] = IF i = id THEN o ELSE sIdObjectMap[i + 1]
      <3> SUFFICES ASSUME NEW i \in Ids, i < n
                   PROVE  sIdObjectMap'[i + 1] = IF i = id THEN o ELSE sIdObjectMap[i + 1]
        OBVIOUS
      <3>1. i + 1 \in 1..n /\ (i + 1 = id + 1 <=> i = id)
        BY <1>a
      <3> QED BY <2>3, <3>1
    <2> HIDE DEF n
    <2>5. ASSUME NEW x \in Objects, NEW i \in Ids
          PROVE  sObjectIdMap'[x] = i <=> i < n /\ sIdObjectMap'[i + 1] = x
      <3>1. sObjectIdMap[x] = i <=> i < n /\ sIdObjectMap[i + 1] = x
        BY DEF TablesInv, n
      <3>2. CASE x = o
        <4>1. sObjectIdMap'[x] = id
          BY <2>1, <3>2 DEF TablesInv
        <4>2. sObjectIdMap[x] # i
          BY <1>2, <3>2, IdsAreNumbers
        <4> QED BY <2>2, <2>4, <3>1, <3>2, <4>1, <4>2
      <3>3. CASE x # o
        <4>1. sObjectIdMap'[x] = sObjectIdMap[x]
          BY <2>1, <3>3 DEF TablesInv
        <4>2. i = id => sIdObjectMap[i + 1] # x /\ sIdObjectMap'[i + 1] # x
          BY <2>2, <2>4, <3>3
        <4> QED BY <2>4, <3>1, <4>1, <4>2
      <3> QED BY <3>2, <3>3
    <2>6. ASSUME NEW i \in Ids
          PROVE  i \in sFreeObjectIds' <=> i < n /\ sIdObjectMap'[i + 1] = None
      <3>1. i \in sFreeObjectIds <=> i < n /\ sIdObjectMap[i + 1] = None
        BY DEF TablesInv, n
      <3> QED BY <2>1, <2>4, <3>1
    <2>7. sFreeObjectIds' \subseteq Ids /\ sObjectIdMap' \in [Objects -> Ids \cup {NoId}]
      BY <2>1 DEF TablesInv
    <2>8. TablesInv'
      <3>1. n <= Cardinality(Objects) /\ Ids' = Ids /\ NoId' = NoId
        BY DEF TablesInv, n, Ids
      <3>2. sFreeObjectIds' = {i \in Ids : i < n /\ sIdObjectMap'[i + 1] = None}
        BY <2>6, <2>7
      <3> QED BY <2>3, <2>5, <2>7, <3>1, <3>2 DEF TablesInv
    <2> QED BY <1>2, <2>1, <2>8
  <1>3. CASE sObjectIdMap[o] = NoId /\ sFreeObjectIds = {}
    <2>1. /\ id = Cardinality(WithId)
          /\ sObjectIdMap' = [sObjectIdMap EXCEPT ![o] = id]
          /\ sIdObjectMap' = Append(sIdObjectMap, o) /\ sFreeObjectIds' = {}
      BY <1>3 DEF GetObjectID, WithId
    <2>2. id = n
      BY <1>3, <2>1, NextId
    <2>3. /\ sIdObjectMap' \in Seq(Objects \cup {None}) /\ Len(sIdObjectMap') = n + 1
          /\ \A j \in 1..n : sIdObjectMap'[j] = sIdObjectMap[j]
          /\ sIdObjectMap'[n + 1] = o
      BY <2>1, AppendProperties DEF TablesInv
    <2>4. \A i \in Ids : i < n => sIdObjectMap'[i + 1] = sIdObjectMap[i + 1]
      <3>1. \A i \in Ids : i < n => i + 1 \in 1..n
        BY <1>a
      <3> QED BY <2>3, <3>1
    <2>5. \A i \in Ids : i < n + 1 <=> i < n \/ i = id
      BY <1>a, <2>2
    <2> HIDE DEF n
    <2>6. ASSUME NEW x \in Objects, NEW i \in Ids
          PROVE  sObjectIdMap'[x] = i <=> i < n + 1 /\ sIdObjectMap'[i + 1] = x
      <3>1. sObjectIdMap[x] = i <=> i < n /\ sIdObjectMap[i + 1] = x
        BY DEF TablesInv, n
      <3>2. ~(id < n)
        BY <1>a, <2>2
      <3>3. CASE x = o
        <4>1. sObjectIdMap'[x] = id
          BY <2>1, <3>3 DEF TablesInv
        <4>2. sObjectIdMap[x] # i
          BY <1>3, <3>3, IdsAreNumbers
        <4> QED BY <2>2, <2>3, <2>4, <2>5, <3>1, <3>2, <3>3, <4>1, <4>2
      <3>4. CASE x # o
        <4>1. sObjectIdMap'[x] = sObjectIdMap[x]
          BY <2>1, <3>4 DEF TablesInv
        <4> QED BY <2>2, <2>3, <2>4, <2>5, <3>1, <3>2, <3>4, <4>1
      <3> QED BY <3>3, <3>4
    <2>7. ASSUME NEW i \in Ids, i < n + 1
          PROVE  sIdObjectMap'[i + 1] # None
      <3>1. CASE i = id
        BY <2>2, <2>3, <3>1
      <3>2. CASE i < n
        BY <1>3, <2>4, <3>2 DEF TablesInv, n
      <3> QED BY <2>5, <2>7, <3>1, <3>2
    <2>8. TablesInv'
      <3>1. n + 1 <= Cardinality(Objects) /\ Ids' = Ids /\ NoId' = NoId
        BY <2>2, <1>a, IdsAreNumbers DEF Ids
      <3>2. sFreeObjectIds' = {i \in Ids : i < n + 1 /\ sIdObjectMap'[i + 1] = None}
        BY <2>1, <2>7
      <3>3. sFreeObjectIds' \subseteq Ids /\ sObjectIdMap' \in [Objects -> Ids \cup {NoId}]
        BY <2>1 DEF TablesInv
      <3> QED BY <2>3, <2>6, <3>1, <3>2, <3>3 DEF TablesInv
    <2> QED BY <1>3, <2>1, <2>8
  <1> QED BY <1>1, <1>2, <1>3

\* Ids are given up.
LEMMA ForgetIdsTables ==
  ASSUME TablesInv, ForgetIds
  PROVE  /\ TablesInv'
         /\ \A o \in Objects : sObjectIdMap'[o] = IF o \in marked THEN sObjectIdMap[o] ELSE NoId
  <1> DEFINE n == Len(sIdObjectMap)
             gone == {o \in Objects \ marked : sObjectIdMap[o] # NoId}
  <1>1. /\ sFreeObjectIds' = sFreeObjectIds \cup {sObjectIdMap[o] : o \in gone}
        /\ sIdObjectMap' = [i \in DOMAIN sIdObjectMap |->
                              IF sIdObjectMap[i] \in gone THEN None ELSE sIdObjectMap[i]]
        /\ sObjectIdMap' = [o \in Objects |-> IF o \in gone THEN NoId ELSE sObjectIdMap[o]]
    BY DEF ForgetIds
  <1>2. n \in Nat /\ DOMAIN sIdObjectMap = 1..n /\ \A j \in 1..n : sIdObjectMap[j] \in Objects \cup {None}
    BY LenProperties, ElementOfSeq DEF TablesInv
  <1>3. None \notin gone
    OBVIOUS
  <1>4. sIdObjectMap' \in Seq(Objects \cup {None}) /\ Len(sIdObjectMap') = n
    <2>1. sIdObjectMap' \in [1..n -> Objects \cup {None}]
      BY <1>1, <1>2
    <2>2. sIdObjectMap' \in Seq(Objects \cup {None})
      BY <1>2, <2>1, SeqDef
    <2>3. DOMAIN sIdObjectMap' = 1..n /\ DOMAIN sIdObjectMap' = 1..Len(sIdObjectMap') /\ Len(sIdObjectMap') \in Nat
      BY <2>1, <2>2, LenProperties
    <2> QED BY <1>2, <2>2, <2>3
  <1>5. ASSUME NEW i \in Ids, i < n
        PROVE  sIdObjectMap'[i + 1] = IF sIdObjectMap[i + 1] \in gone THEN None ELSE sIdObjectMap[i + 1]
    <2>1. i + 1 \in 1..n
      BY <1>2, <1>5, IdsAreNumbers
    <2> QED BY <1>1, <1>2, <2>1
  <1>6. sObjectIdMap' \in [Objects -> Ids \cup {NoId}]
    BY <1>1 DEF TablesInv
  <1>7. \A o \in Objects : sObjectIdMap'[o] = IF o \in gone THEN NoId ELSE sObjectIdMap[o]
    BY <1>1
  <1>8. \A o \in gone : o \in Objects /\ sObjectIdMap[o] \in Ids
    BY DEF TablesInv
  <1>9. \A o \in Objects : sObjectIdMap'[o] = IF o \in marked THEN sObjectIdMap[o] ELSE NoId
    BY <1>7
  <1> HIDE DEF n, gone
  <1>10. ASSUME NEW o \in Objects, NEW i \in Ids
         PROVE  sObjectIdMap'[o] = i <=> i < n /\ sIdObjectMap'[i + 1] = o
    <2>1. sObjectIdMap[o] = i <=> i < n /\ sIdObjectMap[i + 1] = o
      BY DEF TablesInv, n
    <2>2. NoId # i /\ o # None
      BY IdsAreNumbers
    <2> QED BY <1>5, <1>7, <2>1, <2>2
  <1>11. ASSUME NEW i \in Ids
         PROVE  i \in sFreeObjectIds' <=> i < n /\ sIdObjectMap'[i + 1] = None
    <2>1. i \in sFreeObjectIds <=> i < n /\ sIdObjectMap[i + 1] = None
      BY DEF TablesInv, n
    <2>2. (\E o \in gone : sObjectIdMap[o] = i) <=> i < n /\ sIdObjectMap[i + 1] \in gone
      <3>1. \A o \in gone : sObjectIdMap[o] = i <=> i < n /\ sIdObjectMap[i + 1] = o
        BY <1>8 DEF TablesInv, n
      <3> QED BY <3>1
    <2> QED BY <1>1, <1>5, <2>1, <2>2
  <1>12. sFreeObjectIds' \subseteq Ids
    BY <1>1, <1>8 DEF TablesInv
  <1>13. TablesInv'
    <2>1. n <= Cardinality(Objects) /\ Ids' = Ids /\ NoId' = NoId
      BY DEF TablesInv, n, Ids
    <2>2. sFreeObjectIds' = {i \in Ids : i < n /\ sIdObjectMap'[i + 1] = None}
      BY <1>11, <1>12
    <2> QED BY <1>4, <1>6, <1>10, <1>12, <2>1, <2>2 DEF TablesInv
  <1> QED BY <1>9, <1>13

-----------------------------------------------------------------------------
(* What can be reached.                                                    *)

\* Reach(S) is the smallest closed set that contains S.
LEMMA ReachIsLeast ==
  ASSUME NEW S \in SUBSET Objects, ref \in [Objects -> Objects \cup {None}]
  PROVE  /\ S \subseteq Reach(S) /\ Reach(S) \subseteq Objects /\ Closed(Reach(S))
         /\ \A T \in SUBSET Objects : S \subseteq T /\ Closed(T) => Reach(S) \subseteq T
  <1>1. S \subseteq Reach(S) /\ Reach(S) \subseteq Objects
    BY DEF Reach
  <1>2. \A T \in SUBSET Objects : S \subseteq T /\ Closed(T) => Reach(S) \subseteq T
    BY DEF Reach
  <1>3. ASSUME NEW o \in Reach(S), ref[o] # None
        PROVE  ref[o] \in Reach(S)
    <2>1. o \in Objects /\ ref[o] \in Objects
      BY <1>1, <1>3
    <2>2. ASSUME NEW T \in SUBSET Objects, S \subseteq T, Closed(T)
          PROVE  ref[o] \in T
      <3>1. o \in T
        BY <1>2, <2>2
      <3> QED BY <1>3, <2>2, <3>1 DEF Closed
    <2> QED BY <2>1, <2>2 DEF Reach
  <1> QED BY <1>1, <1>2, <1>3 DEF Closed

-----------------------------------------------------------------------------
(* The invariant, with lists and tables apart.                             *)

PlainType ==
  /\ phase \in Phases /\ generational \in BOOLEAN
  /\ alive \subseteq Objects /\ roots \subseteq alive /\ marked \subseteq alive
  /\ ref \in [Objects -> Objects \cup {None}]
  /\ sFinalizers \subseteq Objects /\ sMakeZombieSet \subseteq Objects
  /\ sWeakHash \subseteq Objects \X Ids /\ sWeakRefs \subseteq Objects
  /\ disposed \subseteq Objects /\ cleared \subseteq Objects

ZombiesInv == sZombieList \in Seq(Objects) /\ IsInjective(sZombieList)

Inv == PlainType /\ ZombiesInv /\ TablesInv /\ HeapInv /\ MarkedInv /\ HistoryInv /\ KeysInv

\* It is the same invariant.
LEMMA SameInv == SpecialsInv <=> Inv
  BY DEF SpecialsInv, Inv, TypeOK, TablesAgree, PlainType, ZombiesInv, TablesInv

\* The zombies are objects.
LEMMA ZombiesAreObjects == ZombiesInv => Range(sZombieList) \subseteq Objects
  <1> SUFFICES ASSUME ZombiesInv, NEW i \in DOMAIN sZombieList PROVE sZombieList[i] \in Objects
    BY DEF Range
  <1> QED BY LenProperties, ElementOfSeq DEF ZombiesInv

\* The keys are objects, and their hashes are ids.
LEMMA KeysAreObjects == PlainType => Keys \subseteq Objects /\ \A e \in sWeakHash : e[1] \in Keys /\ e[2] \in Ids
  BY DEF PlainType, Keys

\* A list that a step leaves alone.
LEMMA SameZombies == ZombiesInv /\ UNCHANGED sZombieList => ZombiesInv'
  BY DEF ZombiesInv

\* Tables that a step leaves alone.
LEMMA SameTables == TablesInv /\ UNCHANGED idVars => TablesInv'
  BY DEF TablesInv, Ids

\* A heap in which objects are named that are there.
LEMMA SameHeap ==
  ASSUME HeapInv, UNCHANGED <<alive, ref>>, Named' \subseteq alive
  PROVE  HeapInv'
  BY DEF HeapInv, Closed

\* While no collection runs, nothing has been disposed of in it.
LEMMA RunKeeps ==
  ASSUME HistoryInv, phase = "run", phase' = "run", UNCHANGED history
  PROVE  MarkedInv' /\ HistoryInv'
  BY DEF MarkedInv, HistoryInv

\* Keys that a step leaves alone.
LEMMA SameKeys ==
  ASSUME KeysInv, UNCHANGED <<sWeakHash, sObjectIdMap>>,
         phase' = phase \/ phase # "hashes", marked' = marked \/ phase # "hashes"
  PROVE  KeysInv'
  BY DEF KeysInv

-----------------------------------------------------------------------------
(* The program's steps.                                                    *)

\* A new object is a root, and a closure has a `this` that is no closure.
LEMMA NewInv ==
  ASSUME Inv, NEW o \in Objects, New(o)
  PROVE  Inv'
  <1> USE DEF Inv, New
  <1>1. PICK to \in Objects \cup {None} :
          /\ ref' = [ref EXCEPT ![o] = to] /\ to # None => to \in roots
          /\ o \in Closures => to \notin Closures
    BY DEF PlainType
  <1>2. PlainType'
    BY <1>1 DEF PlainType
  <1>3. ZombiesInv' /\ TablesInv'
    BY SameZombies, SameTables
  <1>4. HeapInv'
    <2>1. Named' = Named \cup {o}
      BY DEF Named, WithId, Keys
    <2>2. Closed(alive)'
      BY <1>1 DEF HeapInv, Closed, PlainType
    <2>3. \A c \in Closures : ref'[c] \notin Closures
      BY <1>1 DEF HeapInv, PlainType
    <2> QED BY <2>1, <2>2, <2>3 DEF HeapInv
  <1>5. MarkedInv' /\ HistoryInv'
    BY RunKeeps
  <1>6. KeysInv'
    BY SameKeys
  <1> QED BY <1>2, <1>3, <1>4, <1>5, <1>6

\* An object is dropped.
LEMMA DropInv ==
  ASSUME Inv, NEW o \in Objects, Drop(o)
  PROVE  Inv'
  <1> USE DEF Inv, Drop
  <1>1. PlainType'
    BY DEF PlainType
  <1>2. ZombiesInv' /\ TablesInv'
    BY SameZombies, SameTables
  <1>3. HeapInv'
    <2>1. Named' \subseteq Named
      BY DEF Named, WithId, Keys
    <2> QED BY <2>1, SameHeap DEF HeapInv
  <1>4. MarkedInv' /\ HistoryInv'
    BY RunKeeps
  <1>5. KeysInv'
    BY SameKeys
  <1> QED BY <1>1, <1>2, <1>3, <1>4, <1>5

\* A member is set, to an object the program holds.
LEMMA StoreInv ==
  ASSUME Inv, NEW o \in Objects, Store(o)
  PROVE  Inv'
  <1> USE DEF Inv, Store
  <1>1. PICK to \in Objects \cup {None} : ref' = [ref EXCEPT ![o] = to] /\ to # None => to \in roots
    BY DEF PlainType
  <1>2. PlainType'
    BY <1>1 DEF PlainType
  <1>3. ZombiesInv' /\ TablesInv'
    BY SameZombies, SameTables
  <1>4. HeapInv'
    <2>1. Named' = Named
      BY DEF Named, WithId, Keys
    <2>2. Closed(alive)'
      BY <1>1 DEF HeapInv, Closed, PlainType
    <2>3. \A c \in Closures : ref'[c] \notin Closures
      BY <1>1 DEF HeapInv, PlainType
    <2> QED BY <2>1, <2>2, <2>3 DEF HeapInv
  <1>5. MarkedInv' /\ HistoryInv'
    BY RunKeeps
  <1>6. KeysInv'
    BY SameKeys
  <1> QED BY <1>2, <1>3, <1>4, <1>5, <1>6

\* The program only gets hold of what is there.
LEMMA HoldInv ==
  ASSUME Inv, NEW o \in Objects, Hold(o)
  PROVE  Inv'
  <1> USE DEF Inv, Hold
  <1>1. o \in alive
    <2>1. CASE o \in {ref[r] : r \in roots}
      BY <2>1 DEF HeapInv, Closed, PlainType
    <2>2. CASE o \in sWeakRefs \cup Keys
      BY <2>2 DEF HeapInv, Named
    <2>3. CASE o \in Range(sIdObjectMap)
      BY <2>3, IdsAreNamed DEF HeapInv, Named
    <2> QED BY <2>1, <2>2, <2>3
  <1>2. PlainType'
    BY <1>1 DEF PlainType
  <1>3. ZombiesInv' /\ TablesInv'
    BY SameZombies, SameTables
  <1>4. HeapInv'
    <2>1. Named' = Named \cup {o}
      BY DEF Named, WithId, Keys
    <2> QED BY <1>1, <2>1, SameHeap DEF HeapInv
  <1>5. MarkedInv' /\ HistoryInv'
    BY RunKeeps
  <1>6. KeysInv'
    BY SameKeys
  <1> QED BY <1>2, <1>3, <1>4, <1>5, <1>6

\* A finalizer is set for an object the program holds, or taken back.
LEMMA SetFinalizerInv ==
  ASSUME Inv, NEW o \in Objects, SetFinalizer(o)
  PROVE  Inv'
  <1> USE DEF Inv, SetFinalizer
  <1>1. PlainType'
    BY DEF PlainType
  <1>2. ZombiesInv' /\ TablesInv'
    BY SameZombies, SameTables
  <1>3. HeapInv'
    <2>1. Named' \subseteq Named
      BY DEF Named, WithId, Keys
    <2> QED BY <2>1, SameHeap DEF HeapInv
  <1>4. MarkedInv' /\ HistoryInv'
    BY RunKeeps
  <1>5. KeysInv'
    BY SameKeys
  <1> QED BY <1>1, <1>2, <1>3, <1>4, <1>5

\* An object the program holds is to become a zombie.
LEMMA GCDoNotKillInv ==
  ASSUME Inv, NEW o \in Objects, GCDoNotKill(o)
  PROVE  Inv'
  <1> USE DEF Inv, GCDoNotKill
  <1>1. PlainType'
    BY DEF PlainType
  <1>2. ZombiesInv' /\ TablesInv'
    BY SameZombies, SameTables
  <1>3. HeapInv'
    <2>1. Named' \subseteq Named
      BY DEF Named, WithId, Keys
    <2> QED BY <2>1, SameHeap DEF HeapInv
  <1>4. MarkedInv' /\ HistoryInv'
    BY RunKeeps
  <1>5. KeysInv'
    BY SameKeys
  <1> QED BY <1>1, <1>2, <1>3, <1>4, <1>5

\* The program gets a zombie.
LEMMA GCGetNextZombieInv ==
  ASSUME Inv, GCGetNextZombie
  PROVE  Inv'
  <1> USE DEF Inv
  <1> DEFINE o == Last(sZombieList)
  <1>1. /\ phase = "run" /\ roots' = roots \cup {o} /\ sZombieList' = Front(sZombieList) /\ sZombieList # <<>>
        /\ UNCHANGED <<phase, generational, marked, history, alive, ref, sFinalizers, sMakeZombieSet>>
        /\ UNCHANGED <<idVars, weakVars>>
    BY DEF GCGetNextZombie
  <1>2. ZombiesInv' /\ Range(sZombieList') \subseteq Range(sZombieList) /\ o \in Range(sZombieList)
    BY <1>1, FrontZombie DEF ZombiesInv
  <1> HIDE DEF o
  <1>3. o \in alive
    BY <1>2 DEF HeapInv, Named
  <1>4. PlainType'
    BY <1>1, <1>3 DEF PlainType
  <1>5. TablesInv'
    BY <1>1, SameTables
  <1>6. HeapInv'
    <2>1. Named' \subseteq Named
      BY <1>1, <1>2 DEF Named, WithId, Keys
    <2> QED BY <1>1, <2>1, SameHeap DEF HeapInv
  <1>7. MarkedInv' /\ HistoryInv'
    BY <1>1, RunKeeps
  <1>8. KeysInv'
    BY <1>1, SameKeys
  <1> QED BY <1>2, <1>4, <1>5, <1>6, <1>7, <1>8

\* An id is asked for: no key loses its hash by it.
LEMMA IdsOfKeysStay ==
  ASSUME Inv, phase = "run", NEW o \in Objects, NEW id \in Ids, GetObjectID(o, id)
  PROVE  /\ TablesInv' /\ WithId' \subseteq WithId \cup {o} /\ sObjectIdMap'[o] = id
         /\ \A e \in sWeakHash : e[1] \notin Closures => sObjectIdMap'[e[1]] = e[2]
  <1>1. /\ TablesInv' /\ sObjectIdMap' = [sObjectIdMap EXCEPT ![o] = id]
        /\ sObjectIdMap[o] \in {NoId, id} /\ sObjectIdMap \in [Objects -> Ids \cup {NoId}]
    BY GetObjectIDTables DEF Inv, TablesInv
  <1>2. WithId' \subseteq WithId \cup {o} /\ sObjectIdMap'[o] = id
    BY <1>1 DEF WithId, NoId
  <1>3. ASSUME NEW e \in sWeakHash, e[1] \notin Closures
        PROVE  sObjectIdMap'[e[1]] = e[2]
    <2>1. e[1] \in Objects /\ e[2] \in Ids /\ sObjectIdMap[e[1]] = e[2]
      BY <1>3, KeysAreObjects DEF Inv, KeysInv
    <2> QED BY <1>1, <2>1, IdsAreNumbers
  <1> QED BY <1>1, <1>2, <1>3

\* A key is stored under its id.
LEMMA WeakHashSetInv ==
  ASSUME Inv, NEW o \in Objects, WeakHashSet(o)
  PROVE  Inv'
  <1> USE DEF Inv
  <1>1. PICK id \in Ids : GetObjectID(o, id) /\ sWeakHash' = sWeakHash \cup {<<o, id>>}
    BY DEF WeakHashSet
  <1>2. /\ phase = "run" /\ o \in roots
        /\ UNCHANGED <<phase, generational, marked, history, heapVars, sFinalizers, zombieVars, sWeakRefs>>
    BY DEF WeakHashSet
  <1>3. /\ TablesInv' /\ WithId' \subseteq WithId \cup {o} /\ sObjectIdMap'[o] = id
        /\ \A e \in sWeakHash : e[1] \notin Closures => sObjectIdMap'[e[1]] = e[2]
    BY <1>1, <1>2, IdsOfKeysStay
  <1>4. PlainType'
    BY <1>1, <1>2 DEF PlainType, Ids
  <1>5. ZombiesInv'
    BY <1>2, SameZombies
  <1>6. HeapInv'
    <2>1. Keys' \subseteq Keys \cup {o}
      BY <1>1 DEF Keys
    <2>2. Named' \subseteq Named
      BY <1>2, <1>3, <2>1 DEF Named
    <2> QED BY <1>2, <2>2, SameHeap DEF HeapInv
  <1>7. MarkedInv' /\ HistoryInv'
    BY <1>2, RunKeeps
  <1>8. KeysInv'
    BY <1>1, <1>3 DEF KeysInv
  <1> QED BY <1>3, <1>4, <1>5, <1>6, <1>7, <1>8

\* A key is looked for: it gets its id.
LEMMA WeakHashGetInv ==
  ASSUME Inv, NEW o \in Objects, WeakHashGet(o)
  PROVE  Inv'
  <1> USE DEF Inv
  <1>1. PICK id \in Ids : GetObjectID(o, id)
    BY DEF WeakHashGet
  <1>2. /\ phase = "run" /\ o \in roots
        /\ UNCHANGED <<phase, generational, marked, history, heapVars, sFinalizers, zombieVars, weakVars>>
    BY DEF WeakHashGet
  <1>3. /\ TablesInv' /\ WithId' \subseteq WithId \cup {o} /\ sObjectIdMap'[o] = id
        /\ \A e \in sWeakHash : e[1] \notin Closures => sObjectIdMap'[e[1]] = e[2]
    BY <1>1, <1>2, IdsOfKeysStay
  <1>4. PlainType'
    BY <1>1, <1>2 DEF PlainType, Ids, weakVars
  <1>5. ZombiesInv'
    BY <1>2, SameZombies DEF weakVars
  <1>6. HeapInv'
    <2>1. Keys' = Keys
      BY <1>2 DEF Keys, weakVars
    <2>2. Named' \subseteq Named
      BY <1>2, <1>3, <2>1 DEF Named, weakVars
    <2> QED BY <1>2, <2>2, SameHeap DEF HeapInv
  <1>7. MarkedInv' /\ HistoryInv'
    BY <1>2, RunKeeps
  <1>8. KeysInv'
    BY <1>2, <1>3 DEF KeysInv, weakVars
  <1> QED BY <1>3, <1>4, <1>5, <1>6, <1>7, <1>8

\* A key is removed, or would be if it were there.
LEMMA WeakHashRemoveInv ==
  ASSUME Inv, NEW o \in Objects, WeakHashRemove(o)
  PROVE  Inv'
  <1> USE DEF Inv
  <1>1. PICK id \in Ids : GetObjectID(o, id) /\ sWeakHash' = sWeakHash \ {<<o, id>>}
    BY DEF WeakHashRemove
  <1>2. /\ phase = "run" /\ o \in roots
        /\ UNCHANGED <<phase, generational, marked, history, heapVars, sFinalizers, zombieVars, sWeakRefs>>
    BY DEF WeakHashRemove
  <1>3. /\ TablesInv' /\ WithId' \subseteq WithId \cup {o} /\ sObjectIdMap'[o] = id
        /\ \A e \in sWeakHash : e[1] \notin Closures => sObjectIdMap'[e[1]] = e[2]
    BY <1>1, <1>2, IdsOfKeysStay
  <1>4. PlainType'
    BY <1>1, <1>2 DEF PlainType, Ids
  <1>5. ZombiesInv'
    BY <1>2, SameZombies
  <1>6. HeapInv'
    <2>1. Keys' \subseteq Keys
      BY <1>1 DEF Keys
    <2>2. Named' \subseteq Named
      BY <1>2, <1>3, <2>1 DEF Named
    <2> QED BY <1>2, <2>2, SameHeap DEF HeapInv
  <1>7. MarkedInv' /\ HistoryInv'
    BY <1>2, RunKeeps
  <1>8. KeysInv'
    BY <1>1, <1>3 DEF KeysInv
  <1> QED BY <1>3, <1>4, <1>5, <1>6, <1>7, <1>8

\* A weak reference to an object the program holds.
LEMMA MakeWeakRefInv ==
  ASSUME Inv, NEW o \in Objects, MakeWeakRef(o)
  PROVE  Inv'
  <1> USE DEF Inv, MakeWeakRef
  <1>1. PlainType'
    BY DEF PlainType
  <1>2. ZombiesInv' /\ TablesInv'
    BY SameZombies, SameTables
  <1>3. HeapInv'
    <2>1. Named' \subseteq Named
      BY DEF Named, WithId, Keys
    <2> QED BY <2>1, SameHeap DEF HeapInv
  <1>4. MarkedInv' /\ HistoryInv'
    BY RunKeeps
  <1>5. KeysInv'
    BY SameKeys
  <1> QED BY <1>1, <1>2, <1>3, <1>4, <1>5

-----------------------------------------------------------------------------
(* The collection's steps.                                                 *)

\* Fewer names for a heap that stays.
LEMMA NamesGo ==
  ASSUME HeapInv, UNCHANGED heapVars, WithId' \subseteq WithId, Keys' \subseteq Keys,
         sWeakRefs' \subseteq sWeakRefs, sFinalizers' \subseteq sFinalizers,
         (sMakeZombieSet \cup Range(sZombieList))' \subseteq sMakeZombieSet \cup Range(sZombieList)
  PROVE  HeapInv'
  <1>1. Named' \subseteq Named
    BY DEF Named
  <1> QED BY <1>1, SameHeap DEF HeapInv

\* The first mark phase marks objects that are there; nothing has been
\* disposed of.
LEMMA MarkAllInv ==
  ASSUME Inv, MarkAll
  PROVE  Inv'
  <1> USE DEF Inv
  <1> DEFINE S == roots \cup Range(sZombieList) \cup IF generational' THEN marked ELSE {}
  <1>1. /\ phase = "run" /\ phase' = "zombies" /\ generational' \in BOOLEAN
        /\ marked' = Reach(S) /\ disposed' = {} /\ cleared' = {}
        /\ UNCHANGED <<sFinalizers, heapVars, zombieVars, idVars, weakVars>>
    BY DEF MarkAll
  <1>2. S \subseteq alive /\ alive \subseteq Objects
    BY DEF HeapInv, Named, PlainType
  <1>3. /\ roots \cup Range(sZombieList) \subseteq marked'
        /\ Closed(marked') /\ marked' \subseteq alive
    <2>1. S \subseteq Reach(S) /\ Closed(Reach(S)) /\ Reach(S) \subseteq alive
      BY <1>2, ReachIsLeast DEF HeapInv, PlainType
    <2> QED BY <1>1, <2>1
  <1> HIDE DEF S
  <1>4. PlainType'
    BY <1>1, <1>3 DEF PlainType, Phases, Ids
  <1>5. ZombiesInv' /\ TablesInv'
    BY <1>1, SameZombies, SameTables
  <1>6. HeapInv'
    <2>1. WithId' = WithId /\ Keys' = Keys
      BY <1>1 DEF WithId, Keys, NoId
    <2> QED BY <1>1, <2>1, NamesGo
  <1>7. MarkedInv'
    BY <1>1, <1>3 DEF MarkedInv, Closed
  <1>8. HistoryInv'
    <2>1. Closed(Objects)' /\ marked' \cup sMakeZombieSet' \subseteq Objects
      BY <1>1, <1>2, <1>3 DEF PlainType, Closed
    <2> QED BY <1>1, <2>1 DEF HistoryInv
  <1>9. KeysInv'
    BY <1>1, SameKeys
  <1> QED BY <1>4, <1>5, <1>6, <1>7, <1>8, <1>9

\* The second marks no more than the first has: of that nothing has been
\* disposed of or cleared, closures excepted.
LEMMA MarkAgainInv ==
  ASSUME Inv, MarkAgain
  PROVE  Inv'
  <1> USE DEF Inv
  <1> DEFINE S == roots \cup Range(sZombieList)
  <1>1. /\ phase = "sweep" /\ phase' = "zombies" /\ generational' = FALSE /\ marked' = Reach(S)
        /\ UNCHANGED <<sFinalizers, heapVars, zombieVars, idVars, weakVars, history>>
    BY DEF MarkAgain
  <1>2. S \subseteq marked /\ Closed(marked) /\ marked \subseteq alive /\ alive \subseteq Objects
    BY <1>1 DEF MarkedInv, PlainType
  <1>3. S \subseteq marked' /\ Closed(marked') /\ marked' \subseteq marked
    <2>1. S \subseteq Reach(S) /\ Closed(Reach(S)) /\ Reach(S) \subseteq marked
      BY <1>2, ReachIsLeast DEF PlainType
    <2> QED BY <1>1, <2>1
  <1>4. PlainType'
    BY <1>1, <1>2, <1>3 DEF PlainType, Phases, Ids
  <1>5. ZombiesInv' /\ TablesInv'
    BY <1>1, SameZombies, SameTables
  <1>6. HeapInv'
    <2>1. WithId' = WithId /\ Keys' = Keys
      BY <1>1 DEF WithId, Keys, NoId
    <2> QED BY <1>1, <2>1, NamesGo
  <1>7. MarkedInv'
    BY <1>1, <1>3 DEF MarkedInv, Closed
  <1>8. HistoryInv'
    <2>1. sMakeZombieSet \subseteq marked /\ Keys \subseteq marked /\ sWeakRefs \subseteq marked
      BY <1>1 DEF MarkedInv
    <2>2. marked \cap disposed \subseteq Closures /\ marked \cap cleared = {}
      BY <1>1 DEF HistoryInv
    <2>3. \E T \in SUBSET Objects :
            /\ Closed(T)' /\ marked' \cup sMakeZombieSet' \subseteq T
            /\ T \cap disposed' \subseteq Closures /\ T \cap cleared' = {}
      <3>1. marked \in SUBSET Objects /\ \A o \in marked : ref'[o] # None => ref'[o] \in marked
        BY <1>1, <1>2 DEF Closed
      <3>2. sMakeZombieSet' = sMakeZombieSet /\ disposed' = disposed /\ cleared' = cleared
        BY <1>1
      <3>3. marked' \cup sMakeZombieSet' \subseteq marked
        BY <1>3, <2>1, <3>2
      <3>4. marked \cap disposed' \subseteq Closures /\ marked \cap cleared' = {}
        BY <2>2, <3>2
      <3> DEFINE T == marked
      <3>5. /\ T \in SUBSET Objects /\ \A o \in T : ref'[o] # None => ref'[o] \in T
            /\ marked' \cup sMakeZombieSet' \subseteq T
            /\ T \cap disposed' \subseteq Closures /\ T \cap cleared' = {}
        BY <3>1, <3>3, <3>4
      <3> HIDE DEF T
      <3> QED BY <3>5 DEF Closed
    <2>4. (Keys' \cup sWeakRefs') \cap cleared' = {}
      BY <1>1, <2>1, <2>2 DEF Keys
    <2> QED BY <1>1, <2>3, <2>4 DEF HistoryInv
  <1>9. KeysInv'
    BY <1>1, SameKeys
  <1> QED BY <1>4, <1>5, <1>6, <1>7, <1>8, <1>9

\* A zombie is found: what it reaches belongs to the closed set too.
LEMMA FindZombieInv ==
  ASSUME Inv, NEW o \in Objects, FindZombie(o)
  PROVE  Inv'
  <1> USE DEF Inv
  <1> DEFINE S == marked \cup {o}
  <1>1. /\ phase = "zombies" /\ o \in sMakeZombieSet /\ o \notin marked
        /\ sZombieList' = Append(sZombieList, o) /\ sMakeZombieSet' = sMakeZombieSet \ {o}
        /\ marked' = Reach(S)
        /\ UNCHANGED <<phase, generational, sFinalizers, heapVars, idVars, weakVars, history>>
    BY DEF FindZombie
  <1>2. o \notin Range(sZombieList) /\ roots \cup Range(sZombieList) \subseteq marked
    BY <1>1 DEF MarkedInv
  <1>3. ZombiesInv' /\ Range(sZombieList') = Range(sZombieList) \cup {o}
    BY <1>1, <1>2, AppendZombie DEF ZombiesInv
  <1>4. S \subseteq alive /\ alive \subseteq Objects
    BY <1>1 DEF HeapInv, Named, PlainType
  <1>5. /\ S \subseteq marked' /\ Closed(marked') /\ marked' \subseteq alive
        /\ \A T \in SUBSET Objects : S \subseteq T /\ Closed(T) => marked' \subseteq T
    <2>1. /\ S \subseteq Reach(S) /\ Closed(Reach(S)) /\ Reach(S) \subseteq alive
          /\ \A T \in SUBSET Objects : S \subseteq T /\ Closed(T) => Reach(S) \subseteq T
      BY <1>4, ReachIsLeast DEF HeapInv, PlainType
    <2> QED BY <1>1, <2>1
  <1>6. PlainType'
    BY <1>1, <1>5 DEF PlainType, Ids
  <1>7. TablesInv'
    BY <1>1, SameTables
  <1>8. HeapInv'
    <2>1. WithId' = WithId /\ Keys' = Keys
      BY <1>1 DEF WithId, Keys, NoId
    <2> QED BY <1>1, <1>3, <2>1, NamesGo
  <1>9. MarkedInv'
    <2>1. phase' = "zombies" /\ Closed(marked)' /\ roots' \cup Range(sZombieList)' \subseteq marked'
      BY <1>1, <1>2, <1>3, <1>5 DEF Closed
    <2> QED BY <2>1 DEF MarkedInv
  <1>10. HistoryInv'
    <2>1. PICK T \in SUBSET Objects : /\ Closed(T) /\ marked \cup sMakeZombieSet \subseteq T
                                      /\ T \cap disposed \subseteq Closures /\ T \cap cleared = {}
      BY <1>1 DEF HistoryInv
    <2>2. marked' \subseteq T
      BY <1>1, <1>5, <2>1
    <2>3. /\ Closed(T)' /\ marked' \cup sMakeZombieSet' \subseteq T
          /\ T \cap disposed' \subseteq Closures /\ T \cap cleared' = {}
      BY <1>1, <2>1, <2>2 DEF Closed
    <2>4. (Keys' \cup sWeakRefs') \cap cleared' = {}
      BY <1>1 DEF HistoryInv, Keys
    <2> QED BY <1>1, <2>3, <2>4 DEF HistoryInv
  <1>11. KeysInv'
    BY <1>1, SameKeys
  <1> QED BY <1>3, <1>6, <1>7, <1>8, <1>9, <1>10, <1>11

\* All zombies have been found: the closed set holds what is marked.
LEMMA FoundZombiesInv ==
  ASSUME Inv, FoundZombies
  PROVE  Inv'
  <1> USE DEF Inv
  <1>1. /\ phase = "zombies" /\ phase' = "finalizers" /\ sMakeZombieSet \subseteq marked
        /\ UNCHANGED <<generational, marked, sFinalizers, heapVars, zombieVars, idVars, weakVars, history>>
    BY DEF FoundZombies
  <1>2. PlainType'
    BY <1>1 DEF PlainType, Phases, Ids
  <1>3. ZombiesInv' /\ TablesInv'
    BY <1>1, SameZombies, SameTables
  <1>4. HeapInv'
    <2>1. WithId' = WithId /\ Keys' = Keys
      BY <1>1 DEF WithId, Keys, NoId
    <2> QED BY <1>1, <2>1, NamesGo
  <1>5. MarkedInv'
    BY <1>1 DEF MarkedInv, Closed
  <1>6. HistoryInv'
    <2>1. marked \cap disposed \subseteq Closures /\ marked \cap cleared = {}
      BY <1>1 DEF HistoryInv
    <2>2. (Keys' \cup sWeakRefs') \cap cleared' = {}
      BY <1>1 DEF HistoryInv, Keys
    <2> QED BY <1>1, <2>1, <2>2 DEF HistoryInv
  <1>7. KeysInv'
    BY <1>1, SameKeys
  <1> QED BY <1>2, <1>3, <1>4, <1>5, <1>6, <1>7

\* Only unmarked objects are finalized.
LEMMA FinalizersInv ==
  ASSUME Inv, Finalizers
  PROVE  Inv'
  <1> USE DEF Inv
  <1>1. /\ phase = "finalizers" /\ phase' = "ids"
        /\ sFinalizers' = sFinalizers \cap marked /\ disposed' = disposed \cup (sFinalizers \ marked)
        /\ UNCHANGED <<generational, marked, heapVars, zombieVars, idVars, weakVars, cleared>>
    BY DEF Finalizers
  <1>2. PlainType'
    BY <1>1 DEF PlainType, Phases, Ids
  <1>3. ZombiesInv' /\ TablesInv'
    BY <1>1, SameZombies, SameTables
  <1>4. HeapInv'
    <2>1. WithId' = WithId /\ Keys' = Keys
      BY <1>1 DEF WithId, Keys, NoId
    <2> QED BY <1>1, <2>1, NamesGo
  <1>5. MarkedInv'
    BY <1>1 DEF MarkedInv, Closed
  <1>6. HistoryInv'
    <2>1. marked \cap disposed' \subseteq Closures /\ marked \cap cleared = {}
      BY <1>1 DEF HistoryInv
    <2>2. (Keys' \cup sWeakRefs') \cap cleared' = {}
      BY <1>1 DEF HistoryInv, Keys
    <2> QED BY <1>1, <2>1, <2>2 DEF HistoryInv
  <1>7. KeysInv'
    BY <1>1, SameKeys
  <1> QED BY <1>2, <1>3, <1>4, <1>5, <1>6, <1>7

\* Only unmarked objects lose their ids: the keys among them are not marked.
LEMMA ForgetIdsInv ==
  ASSUME Inv, ForgetIds
  PROVE  Inv'
  <1> USE DEF Inv
  <1>1. /\ phase = "ids" /\ phase' = "hashes"
        /\ disposed' = disposed \cup {o \in Objects \ marked : sObjectIdMap[o] # NoId}
        /\ UNCHANGED <<generational, marked, sFinalizers, heapVars, zombieVars, weakVars, cleared>>
    BY DEF ForgetIds
  <1>2. /\ TablesInv'
        /\ \A o \in Objects : sObjectIdMap'[o] = IF o \in marked THEN sObjectIdMap[o] ELSE NoId
    BY ForgetIdsTables
  <1>3. WithId' \subseteq WithId \cap marked /\ Keys' = Keys
    BY <1>1, <1>2 DEF WithId, Keys, NoId
  <1>4. PlainType'
    BY <1>1 DEF PlainType, Phases, Ids
  <1>5. ZombiesInv'
    BY <1>1, SameZombies
  <1>6. HeapInv'
    BY <1>1, <1>3, NamesGo
  <1>7. MarkedInv'
    BY <1>1, <1>3 DEF MarkedInv, Closed
  <1>8. HistoryInv'
    <2>1. marked \cap disposed' \subseteq Closures /\ marked \cap cleared = {}
      BY <1>1 DEF HistoryInv
    <2>2. (Keys' \cup sWeakRefs') \cap cleared' = {}
      BY <1>1, <1>3 DEF HistoryInv
    <2> QED BY <1>1, <2>1, <2>2 DEF HistoryInv
  <1>9. KeysInv'
    <2> SUFFICES ASSUME NEW e \in sWeakHash, e[1] \notin Closures, e[1] \in marked
                 PROVE  sObjectIdMap'[e[1]] = e[2]
      BY <1>1 DEF KeysInv
    <2>1. sObjectIdMap[e[1]] = e[2] /\ e[1] \in Objects
      BY <1>1, KeysAreObjects DEF KeysInv
    <2> QED BY <1>2, <2>1
  <1> QED BY <1>2, <1>4, <1>5, <1>6, <1>7, <1>8, <1>9

\* Marking what refers to marked objects only: the closures that are kept.
LEMMA KeepsClosed ==
  ASSUME Closed(marked), UNCHANGED ref, NEW kept, marked' = marked \cup kept,
         \A k \in kept : k \in marked \/ KeptByThis(k)
  PROVE  Closed(marked)' /\ kept \ marked \subseteq Closures
  BY DEF Closed, KeptByThis

\* The keys that are kept have been marked or are closures; a key that is
\* cleared is not kept by a weak reference later, as the `this` of a closure
\* is no closure.
LEMMA UpdateAfterGcInv ==
  ASSUME Inv, UpdateAfterGc
  PROVE  Inv'
  <1> USE DEF Inv
  <1> DEFINE kept == {k \in Keys : k \in marked \/ KeptByThis(k)}
  <1>1. /\ phase = "hashes" /\ phase' = "weakrefs"
        /\ sWeakHash' = {e \in sWeakHash : e[1] \in kept}
        /\ marked' = marked \cup kept /\ cleared' = cleared \cup (Keys \ kept)
        /\ UNCHANGED <<generational, sFinalizers, heapVars, zombieVars, idVars, sWeakRefs, disposed>>
    BY DEF UpdateAfterGc
  <1>2. Keys' \subseteq kept
    BY <1>1 DEF Keys
  <1>3. kept \subseteq Keys /\ \A k \in Keys : k \in kept <=> k \in marked \/ KeptByThis(k)
    OBVIOUS
  <1> HIDE DEF kept
  <1>4. Closed(marked)' /\ kept \ marked \subseteq Closures
    BY <1>1, <1>3, KeepsClosed DEF MarkedInv
  <1>5. Keys \subseteq alive /\ Keys \subseteq Objects
    BY KeysAreObjects DEF HeapInv, Named
  <1>6. PlainType'
    <2>1. marked' \subseteq alive' /\ cleared' \subseteq Objects /\ sWeakHash' \subseteq sWeakHash
      BY <1>1, <1>3, <1>5 DEF PlainType
    <2> QED BY <1>1, <2>1 DEF PlainType, Phases, Ids
  <1>7. ZombiesInv' /\ TablesInv'
    BY <1>1, SameZombies, SameTables
  <1>8. WithId' = WithId
    BY <1>1 DEF WithId, NoId
  <1>9. HeapInv'
    BY <1>1, <1>2, <1>3, <1>8, NamesGo
  <1>10. MarkedInv'
    BY <1>1, <1>2, <1>4, <1>8 DEF MarkedInv
  <1>11. HistoryInv'
    <2>1. marked' \cap disposed' \subseteq Closures
      BY <1>1, <1>4 DEF HistoryInv
    <2>2. (Keys \cup sWeakRefs) \cap cleared = {} /\ marked \cap cleared = {}
      BY <1>1 DEF HistoryInv
    <2>3. marked' \cap cleared' = {}
      BY <1>1, <1>3, <2>2
    <2>4. ASSUME NEW o \in sWeakRefs' \cap cleared', KeptByThis(o)'
          PROVE  FALSE
      <3>1. o \in Keys /\ ~KeptByThis(o)
        BY <1>1, <1>3, <2>2
      <3>2. o \in Closures /\ ref[o] \in marked \cup kept
        BY <1>1, <2>4 DEF KeptByThis
      <3>3. ref[o] \in kept \ marked
        BY <3>1, <3>2 DEF KeptByThis
      <3> QED BY <1>4, <3>2, <3>3 DEF HeapInv
    <2> QED BY <1>1, <2>1, <2>3, <2>4 DEF HistoryInv
  <1>12. KeysInv'
    <2> SUFFICES ASSUME NEW e \in sWeakHash', e[1] \notin Closures
                 PROVE  sObjectIdMap'[e[1]] = e[2]
      BY DEF KeysInv
    <2>1. e \in sWeakHash /\ e[1] \in marked
      BY <1>1, <1>4
    <2> QED BY <1>1, <2>1 DEF KeysInv
  <1> QED BY <1>6, <1>7, <1>9, <1>10, <1>11, <1>12

\* The same of weak references.
LEMMA UpdateWeakRefsInv ==
  ASSUME Inv, UpdateWeakRefs
  PROVE  Inv'
  <1> USE DEF Inv
  <1> DEFINE kept == {o \in sWeakRefs : o \in marked \/ KeptByThis(o)}
  <1>1. /\ phase = "weakrefs" /\ phase' = "sweep" /\ sWeakRefs' = kept
        /\ marked' = marked \cup kept /\ cleared' = cleared \cup (sWeakRefs \ kept)
        /\ UNCHANGED <<generational, sFinalizers, heapVars, zombieVars, idVars, sWeakHash, disposed>>
    BY DEF UpdateWeakRefs
  <1>2. kept \subseteq sWeakRefs /\ \A o \in sWeakRefs : o \in kept <=> o \in marked \/ KeptByThis(o)
    OBVIOUS
  <1> HIDE DEF kept
  <1>3. Closed(marked)' /\ kept \ marked \subseteq Closures
    BY <1>1, <1>2, KeepsClosed DEF MarkedInv
  <1>4. sWeakRefs \subseteq alive /\ sWeakRefs \subseteq Objects
    BY DEF HeapInv, Named, PlainType
  <1>5. PlainType'
    <2>1. marked' \subseteq alive' /\ cleared' \subseteq Objects /\ sWeakRefs' \subseteq Objects
      BY <1>1, <1>2, <1>4 DEF PlainType
    <2> QED BY <1>1, <2>1 DEF PlainType, Phases, Ids
  <1>6. ZombiesInv' /\ TablesInv'
    BY <1>1, SameZombies, SameTables
  <1>7. WithId' = WithId /\ Keys' = Keys
    BY <1>1 DEF WithId, Keys, NoId
  <1>8. HeapInv'
    BY <1>1, <1>2, <1>7, NamesGo
  <1>9. MarkedInv'
    BY <1>1, <1>3, <1>7 DEF MarkedInv
  <1>10. HistoryInv'
    <2>1. marked' \cap disposed' \subseteq Closures
      BY <1>1, <1>3 DEF HistoryInv
    <2>2. marked \cap cleared = {} /\ \A o \in sWeakRefs \cap cleared : ~KeptByThis(o)
      BY <1>1 DEF HistoryInv
    <2>3. marked' \cap cleared' = {}
      BY <1>1, <1>2, <2>2
    <2> QED BY <1>1, <2>1, <2>3 DEF HistoryInv
  <1>11. KeysInv'
    BY <1>1, SameKeys
  <1> QED BY <1>5, <1>6, <1>8, <1>9, <1>10, <1>11

\* What is named has been marked: it stays.
LEMMA SweepInv ==
  ASSUME Inv, Sweep
  PROVE  Inv'
  <1> USE DEF Inv
  <1>1. /\ phase = "sweep" /\ phase' = "run" /\ generational' = FALSE /\ alive' = marked
        /\ ref' = [o \in Objects |-> IF o \in marked THEN ref[o] ELSE None]
        /\ disposed' = {} /\ cleared' = {}
        /\ UNCHANGED <<marked, roots, sFinalizers, zombieVars, idVars, weakVars>>
    BY DEF Sweep
  <1>2. Named \subseteq marked /\ Closed(marked)
    BY <1>1 DEF MarkedInv, Named
  <1>3. PlainType'
    <2>1. roots \subseteq marked /\ marked \subseteq Objects
      BY <1>2 DEF Named, PlainType
    <2>2. ref' \in [Objects -> Objects \cup {None}]
      BY <1>1 DEF PlainType
    <2> QED BY <1>1, <2>1, <2>2 DEF PlainType, Phases, Ids
  <1>4. ZombiesInv' /\ TablesInv'
    BY <1>1, SameZombies, SameTables
  <1>5. HeapInv'
    <2>1. Named' = Named
      BY <1>1 DEF Named, WithId, Keys, NoId
    <2>2. \A o \in marked : o \in Objects /\ ref'[o] = ref[o]
      BY <1>1 DEF PlainType
    <2>3. Closed(alive)'
      BY <1>1, <1>2, <2>2 DEF Closed
    <2>4. \A c \in Closures : ref'[c] \in {ref[c], None}
      BY <1>1
    <2> QED BY <1>1, <1>2, <2>1, <2>3, <2>4 DEF HeapInv
  <1>6. MarkedInv' /\ HistoryInv'
    BY <1>1 DEF MarkedInv, HistoryInv
  <1>7. KeysInv'
    BY <1>1, SameKeys
  <1> QED BY <1>3, <1>4, <1>5, <1>6, <1>7

-----------------------------------------------------------------------------
(* The theorems.                                                           *)

\* At first there are no objects.
LEMMA InitInv == Init => Inv
  <1> SUFFICES ASSUME Init PROVE Inv
    OBVIOUS
  <1> USE DEF Init
  <1>1. sObjectIdMap = [o \in Objects |-> NoId] /\ sIdObjectMap = <<>> /\ sFreeObjectIds = {}
    OBVIOUS
  <1>2. Len(sIdObjectMap) = 0 /\ sIdObjectMap \in Seq(Objects \cup {None}) /\ sZombieList \in Seq(Objects)
    BY EmptySeq
  <1>3. Range(sZombieList) = {} /\ IsInjective(sZombieList)
    <2>1. DOMAIN sZombieList = {}
      <3>1. DOMAIN sZombieList = 1..Len(sZombieList) /\ Len(sZombieList) = 0
        BY <1>2, EmptySeq, LenProperties
      <3> QED BY <3>1
    <2> QED BY <2>1 DEF Range, IsInjective
  <1>4. TablesInv
    <2>1. \A i \in Ids : i \in Nat /\ ~(i < 0) /\ i # NoId
      BY IdsAreNumbers
    <2>2. 0 <= Cardinality(Objects)
      BY IdsAreNumbers
    <2> QED BY <1>1, <1>2, <2>1, <2>2 DEF TablesInv
  <1>5. WithId = {} /\ Keys = {}
    BY DEF WithId, Keys
  <1>6. PlainType
    BY DEF PlainType, Phases
  <1>7. HeapInv
    <2>1. Named = {} /\ \A o \in Objects : ref[o] = None
      BY <1>3, <1>5 DEF Named
    <2> QED BY <2>1 DEF HeapInv, Closed
  <1>8. MarkedInv /\ HistoryInv /\ KeysInv
    BY DEF MarkedInv, HistoryInv, KeysInv
  <1> QED BY <1>2, <1>3, <1>4, <1>6, <1>7, <1>8 DEF Inv, ZombiesInv

\* Nothing happens.
LEMMA StutterInv == Inv /\ UNCHANGED vars => Inv'
  <1> SUFFICES ASSUME Inv, UNCHANGED vars PROVE Inv'
    OBVIOUS
  <1> USE DEF Inv, vars
  <1>1. PlainType'
    BY DEF PlainType, Ids
  <1>2. ZombiesInv' /\ TablesInv'
    BY SameZombies, SameTables
  <1>3. WithId' = WithId /\ Keys' = Keys
    BY DEF WithId, Keys, NoId
  <1>4. HeapInv'
    BY <1>3, NamesGo
  <1>5. MarkedInv'
    BY <1>3 DEF MarkedInv, Closed
  <1>6. HistoryInv'
    <2>1. \A T : Closed(T)' <=> Closed(T)
      BY DEF Closed
    <2> QED BY <1>3, <2>1 DEF HistoryInv, KeptByThis
  <1>7. KeysInv'
    BY SameKeys
  <1> QED BY <1>1, <1>2, <1>4, <1>5, <1>6, <1>7

\* Each step keeps the invariant.
LEMMA NextInv == Inv /\ [Next]_vars => Inv'
  <1> SUFFICES ASSUME Inv, [Next]_vars PROVE Inv'
    OBVIOUS
  <1>1. CASE Program
    BY <1>1, NewInv, DropInv, StoreInv, HoldInv, SetFinalizerInv, GCDoNotKillInv, WeakHashGetInv, WeakHashSetInv,
       WeakHashRemoveInv, MakeWeakRefInv, GCGetNextZombieInv DEF Program
  <1>2. CASE Collection
    BY <1>2, MarkAllInv, MarkAgainInv, FindZombieInv, FoundZombiesInv, FinalizersInv, ForgetIdsInv,
       UpdateAfterGcInv, UpdateWeakRefsInv, SweepInv DEF Collection
  <1>3. CASE UNCHANGED vars
    BY <1>3, StutterInv
  <1> QED BY <1>1, <1>2, <1>3 DEF Next

\* The inductive invariant holds in every reachable state.
THEOREM SpecialsInvariant == Spec => []SpecialsInv
  <1>1. Init => SpecialsInv
    BY InitInv, SameInv
  <1>2. SpecialsInv /\ [Next]_vars => SpecialsInv'
    <2>1. SpecialsInv' <=> Inv'
      BY SameInv, PTL
    <2> QED BY <2>1, SameInv, NextInv
  <1> QED BY <1>1, <1>2, PTL DEF Spec

\* The type invariant.
THEOREM TypeCorrect == Spec => []TypeOK
  <1>1. SpecialsInv => TypeOK
    BY DEF SpecialsInv
  <1> QED BY <1>1, SpecialsInvariant, PTL

\* The zombies are listed once, and the tables of ids agree.
THEOREM TablesStayTogether == Spec => []TablesAgree
  <1>1. SpecialsInv => TablesAgree
    BY DEF SpecialsInv
  <1> QED BY <1>1, SpecialsInvariant, PTL

\* What the program may still get hold of is not freed by a collection, is not
\* finalized and keeps its id, closures excepted, and is not cleared.
THEOREM ObtainableStays == Spec => []StillThere
  <1>1. ASSUME SpecialsInv, phase = "sweep"
        PROVE  /\ Obtainable \cup sFinalizers \subseteq marked
               /\ Obtainable \cap disposed \subseteq Closures
               /\ Obtainable \cap cleared = {}
    <2> USE <1>1
    <2>1. PlainType /\ TablesInv /\ MarkedInv /\ HistoryInv
      BY SameInv DEF Inv
    <2> DEFINE S == roots \cup sMakeZombieSet \cup Range(sZombieList) \cup sWeakRefs \cup Keys
                    \cup (Range(sIdObjectMap) \ {None})
    <2>2. Range(sIdObjectMap) \ {None} \subseteq WithId
      BY <2>1, IdsAreNamed
    <2>3. S \subseteq marked /\ sFinalizers \subseteq marked /\ Closed(marked)
      BY <2>1, <2>2 DEF MarkedInv
    <2>4. marked \subseteq Objects
      BY <2>1 DEF PlainType
    <2>5. Reach(S) \subseteq marked
      <3>1. S \in SUBSET Objects /\ marked \in SUBSET Objects /\ ref \in [Objects -> Objects \cup {None}]
        BY <2>1, <2>3, <2>4 DEF PlainType
      <3> HIDE DEF S
      <3> QED BY <2>3, <3>1, ReachIsLeast
    <2>6. Obtainable \subseteq marked
      BY <2>5 DEF Obtainable
    <2>7. marked \cap disposed \subseteq Closures /\ marked \cap cleared = {}
      BY <2>1 DEF HistoryInv
    <2> QED BY <2>3, <2>6, <2>7
  <1>2. SpecialsInv => StillThere
    BY <1>1 DEF StillThere
  <1> QED BY <1>2, SpecialsInvariant, PTL

\* A weak hash finds the keys it has kept, closures excepted.
THEOREM KeysFound == Spec => []KeysAreFound
  <1>1. SpecialsInv => KeysAreFound
    BY DEF SpecialsInv, KeysInv, KeysAreFound
  <1> QED BY <1>1, SpecialsInvariant, PTL
===============================================================================
