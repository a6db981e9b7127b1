------------------------------ MODULE Specials ------------------------------
(***************************************************************************)
(* The objects of src/hx/gc/Immix.cpp that the collector knows by name:    *)
(* those with a finalizer, those that are not to be killed (zombies),      *)
(* those with an object id, those a weak reference or the key of a weak    *)
(* hash of src/hx/Hash.h looks at; and the end of a collection, which      *)
(* treats one registry after the other while the world is stopped.         *)
(*                                                                         *)
(* An object refers to one other at most.  The references that are weak    *)
(* are held by objects the program never drops.                            *)
(***************************************************************************)
EXTENDS Integers, FiniteSets, Sequences, SequencesExt

CONSTANTS Objects,
          Closures,    \* member closures (vtFunction): they refer to their `this` for good
          None,
          Uses,        \* what the program does with an object, and ...
          Refs,        \* ... what it may let it refer to (bounds of the model)
          Generational \* HXCPP_GC_GENERATIONAL

ASSUME SpecialsAssumption ==
  /\ IsFiniteSet(Objects) /\ None \notin Objects
  /\ Closures \subseteq Objects
  /\ Uses \in [Objects -> SUBSET {"finalizer", "zombie", "weak", "key"}]
  /\ Refs \in [Objects -> SUBSET Objects]
  /\ Generational \in BOOLEAN

VARIABLES
  phase,          \* "run", or how far a collection is
  generational,   \* whether the collection keeps what the last one kept
  alive,          \* what is allocated
  ref,            \* what an object refers to
  roots,          \* what the program holds: class statics, roots, stacks
  marked,         \* objects with the current gByteMarkID
  sFinalizers,    \* sgFinalizers, sFinalizableList, sFinalizerMap, sHaxeFinalizerMap
  sMakeZombieSet,
  sZombieList,
  sObjectIdMap, sIdObjectMap, sFreeObjectIds,
  sWeakHash,      \* <<key, the hash it is stored under>> of the weak hashes
  sWeakRefs,      \* what the weak references refer to
  disposed,       \* whose finalizer ran, or whose id was given up, in this collection
  cleared         \* what weak references and keys were cleared of in it

idVars == <<sObjectIdMap, sIdObjectMap, sFreeObjectIds>>
zombieVars == <<sMakeZombieSet, sZombieList>>
weakVars == <<sWeakHash, sWeakRefs>>
heapVars == <<alive, ref, roots>>
history == <<disposed, cleared>>
vars == <<phase, generational, marked, sFinalizers, heapVars, zombieVars, idVars, weakVars, history>>

NoId == -1
Ids == 0..(Cardinality(Objects) - 1)
Phases == {"run", "zombies", "finalizers", "ids", "hashes", "weakrefs", "sweep"}

TypeOK ==
  /\ phase \in Phases /\ generational \in BOOLEAN
  /\ alive \subseteq Objects /\ roots \subseteq alive /\ marked \subseteq alive
  /\ ref \in [Objects -> Objects \cup {None}]
  /\ sFinalizers \subseteq Objects
  /\ sMakeZombieSet \subseteq Objects /\ sZombieList \in Seq(Objects)
  /\ sObjectIdMap \in [Objects -> Ids \cup {NoId}]
  /\ sIdObjectMap \in Seq(Objects \cup {None}) /\ Len(sIdObjectMap) <= Cardinality(Objects)
  /\ sFreeObjectIds \subseteq Ids
  /\ sWeakHash \subseteq Objects \X Ids /\ sWeakRefs \subseteq Objects
  /\ disposed \subseteq Objects /\ cleared \subseteq Objects

Init ==
  /\ phase = "run" /\ generational = FALSE
  /\ alive = {} /\ roots = {} /\ marked = {}
  /\ ref = [o \in Objects |-> None]
  /\ sFinalizers = {}
  /\ sMakeZombieSet = {} /\ sZombieList = <<>>
  /\ sObjectIdMap = [o \in Objects |-> NoId] /\ sIdObjectMap = <<>> /\ sFreeObjectIds = {}
  /\ sWeakHash = {} /\ sWeakRefs = {}
  /\ disposed = {} /\ cleared = {}

\* What can be reached from the objects in S: the smallest closed set that
\* contains them.
Closed(T) == \A o \in T : ref[o] # None => ref[o] \in T
Reach(S) == {o \in Objects : \A T \in SUBSET Objects : S \subseteq T /\ Closed(T) => o \in T}

Keys == {e[1] : e \in sWeakHash}

-----------------------------------------------------------------------------
(* The program, while no collection runs.                                  *)

Runs == phase = "run" /\ UNCHANGED <<phase, generational, marked, history>>

\* An object is born with the current mark, in the nursery unmarked; a
\* closure with its `this`.
New(o) ==
  /\ phase = "run"
  /\ o \notin alive
  /\ marked' = IF Generational THEN marked ELSE marked \cup {o}
  /\ alive' = alive \cup {o} /\ roots' = roots \cup {o}
  /\ \E to \in IF o \in Closures THEN (roots \cap Refs[o]) \ Closures ELSE {None} : ref' = [ref EXCEPT ![o] = to]
  /\ UNCHANGED <<phase, generational, sFinalizers, zombieVars, idVars, weakVars, history>>

Drop(o) ==
  /\ Runs
  /\ o \in roots
  /\ roots' = roots \ {o}
  /\ UNCHANGED <<alive, ref, sFinalizers, zombieVars, idVars, weakVars>>

\* A member of o is set, or read.
Store(o) ==
  /\ Runs
  /\ o \in roots \ Closures
  /\ \E to \in (roots \cap Refs[o]) \cup {None} : ref' = [ref EXCEPT ![o] = to]
  /\ UNCHANGED <<alive, roots, sFinalizers, zombieVars, idVars, weakVars>>

\* The program gets hold of an object again: through a member, a weak
\* reference, the keys of a weak hash, or an id (GetIDObject).
Hold(o) ==
  /\ Runs
  /\ \/ o \in {ref[r] : r \in roots}
     \/ o \in sWeakRefs \cup Keys
     \/ o \in Range(sIdObjectMap)
  /\ roots' = roots \cup {o}
  /\ UNCHANGED <<alive, ref, sFinalizers, zombieVars, idVars, weakVars>>

\* GCSetFinalizer, GCSetHaxeFinalizer, InternalFinalizer and the lists of
\* __hxcpp_add_member_finalizer and __hxcpp_add_alloc_finalizer; and taking
\* it back (no function, Detach).
SetFinalizer(o) ==
  /\ Runs
  /\ o \in roots /\ "finalizer" \in Uses[o]
  /\ sFinalizers' \in {sFinalizers \cup {o}, sFinalizers \ {o}}
  /\ UNCHANGED <<heapVars, zombieVars, idVars, weakVars>>

GCDoNotKill(o) ==
  /\ Runs
  /\ o \in roots /\ "zombie" \in Uses[o]
  /\ sMakeZombieSet' = sMakeZombieSet \cup {o}
  /\ UNCHANGED <<heapVars, sFinalizers, sZombieList, idVars, weakVars>>

GCGetNextZombie ==
  /\ Runs
  /\ sZombieList # <<>>
  /\ roots' = roots \cup {Last(sZombieList)}
  /\ sZombieList' = Front(sZombieList)
  /\ UNCHANGED <<alive, ref, sFinalizers, sMakeZombieSet, idVars, weakVars>>

\* Variant: a new id is taken although there are free ones.
GetObjectIDFresh(o, id) ==
  IF sObjectIdMap[o] # NoId
    THEN id = sObjectIdMap[o] /\ UNCHANGED idVars
    ELSE /\ id = Cardinality({x \in Objects : sObjectIdMap[x] # NoId})
         /\ sIdObjectMap' = IF id < Len(sIdObjectMap) THEN [sIdObjectMap EXCEPT ![id + 1] = o]
                                                    ELSE Append(sIdObjectMap, o)
         /\ sObjectIdMap' = [sObjectIdMap EXCEPT ![o] = id]
         /\ UNCHANGED sFreeObjectIds

\* The id of o: the one it has, one given up before, or the next.
GetObjectID(o, id) ==
  IF sObjectIdMap[o] # NoId
    THEN id = sObjectIdMap[o] /\ UNCHANGED idVars
    ELSE /\ sObjectIdMap' = [sObjectIdMap EXCEPT ![o] = id]
         /\ IF sFreeObjectIds # {}
              THEN /\ id \in sFreeObjectIds
                   /\ sFreeObjectIds' = sFreeObjectIds \ {id}
                   /\ sIdObjectMap' = [sIdObjectMap EXCEPT ![id + 1] = o]
              ELSE /\ id = Cardinality({x \in Objects : sObjectIdMap[x] # NoId})
                   /\ sIdObjectMap' = Append(sIdObjectMap, o)
                   /\ UNCHANGED sFreeObjectIds

\* A weak hash finds a key by the object's id: set, remove, and exists, query and
\* get, which compute the hash before they look whether there are buckets.
\* Taking the id is all there is to __hxcpp_obj_id.
WeakHashSet(o) ==
  /\ Runs
  /\ o \in roots /\ "key" \in Uses[o]
  /\ \E id \in Ids : GetObjectID(o, id) /\ sWeakHash' = sWeakHash \cup {<<o, id>>}
  /\ UNCHANGED <<heapVars, sFinalizers, zombieVars, sWeakRefs>>

WeakHashGet(o) ==
  /\ Runs
  /\ o \in roots /\ "key" \in Uses[o]
  /\ \E id \in Ids : GetObjectID(o, id)
  /\ UNCHANGED <<heapVars, sFinalizers, zombieVars, weakVars>>

\* A hash without buckets has no keys, and its remove takes no id.  Of a hash that
\* has buckets and no key left, remove does no more than get.
WeakHashRemove(o) ==
  /\ Runs
  /\ o \in roots /\ "key" \in Uses[o] /\ sWeakHash # {}
  /\ \E id \in Ids : GetObjectID(o, id) /\ sWeakHash' = sWeakHash \ {<<o, id>>}
  /\ UNCHANGED <<heapVars, sFinalizers, zombieVars, sWeakRefs>>

MakeWeakRef(o) ==
  /\ Runs
  /\ o \in roots /\ "weak" \in Uses[o]
  /\ sWeakRefs' = sWeakRefs \cup {o}
  /\ UNCHANGED <<heapVars, sFinalizers, zombieVars, idVars, sWeakHash>>

-----------------------------------------------------------------------------
(* The end of a collection.                                                *)

Then(from, to) == phase = from /\ phase' = to

\* Variant: the zombies the program has not asked for yet are no roots.
MarkAllButZombies ==
  /\ Then("run", "zombies")
  /\ generational' \in {FALSE, Generational}
  /\ marked' = Reach(roots \cup IF generational' THEN marked ELSE {})
  /\ disposed' = {} /\ cleared' = {}
  /\ UNCHANGED <<sFinalizers, heapVars, zombieVars, idVars, weakVars>>

\* MarkAll: from the roots and the zombies.  A generational collection keeps
\* what the last one kept.
MarkAll ==
  /\ Then("run", "zombies")
  /\ generational' \in {FALSE, Generational}
  /\ marked' = Reach(roots \cup Range(sZombieList) \cup IF generational' THEN marked ELSE {})
  /\ disposed' = {} /\ cleared' = {}
  /\ UNCHANGED <<sFinalizers, heapVars, zombieVars, idVars, weakVars>>

\* "Generational retention/fragmentation too high, do normal collect": from
\* the roots again, after finalizers ran and references were cleared.
MarkAgain ==
  /\ Then("sweep", "zombies")
  /\ generational /\ generational' = FALSE
  /\ marked' = Reach(roots \cup Range(sZombieList))
  /\ UNCHANGED <<sFinalizers, heapVars, zombieVars, idVars, weakVars, history>>

\* Variant: a zombie is not marked at once.
FindZombieLater(o) ==
  /\ phase = "zombies"
  /\ o \in sMakeZombieSet \ marked
  /\ sZombieList' = Append(sZombieList, o)
  /\ sMakeZombieSet' = sMakeZombieSet \ {o}
  /\ marked' = marked \cup {o}
  /\ UNCHANGED <<phase, generational, sFinalizers, heapVars, idVars, weakVars, history>>

\* FindZombies walks the set in any order; what a zombie keeps is marked
\* with it, "to prevent secondary zombies".
FindZombie(o) ==
  /\ phase = "zombies"
  /\ o \in sMakeZombieSet \ marked
  /\ sZombieList' = Append(sZombieList, o)
  /\ sMakeZombieSet' = sMakeZombieSet \ {o}
  /\ marked' = Reach(marked \cup {o})
  /\ UNCHANGED <<phase, generational, sFinalizers, heapVars, idVars, weakVars, history>>

FoundZombies ==
  /\ Then("zombies", "finalizers")
  /\ sMakeZombieSet \subseteq marked
  /\ UNCHANGED <<generational, marked, sFinalizers, heapVars, zombieVars, idVars, weakVars, history>>

\* RunFinalizers: the four registries of finalizers, ...
Finalizers ==
  /\ Then("finalizers", "ids")
  /\ sFinalizers' = sFinalizers \cap marked
  /\ disposed' = disposed \cup (sFinalizers \ marked)
  /\ UNCHANGED <<generational, marked, heapVars, zombieVars, idVars, weakVars, cleared>>

\* ... the ids, ...
ForgetIds ==
  /\ Then("ids", "hashes")
  /\ LET gone == {o \in Objects \ marked : sObjectIdMap[o] # NoId}
     IN  /\ sFreeObjectIds' = sFreeObjectIds \cup {sObjectIdMap[o] : o \in gone}
         /\ sIdObjectMap' = [i \in DOMAIN sIdObjectMap |->
                               IF sIdObjectMap[i] \in gone THEN None ELSE sIdObjectMap[i]]
         /\ sObjectIdMap' = [o \in Objects |-> IF o \in gone THEN NoId ELSE sObjectIdMap[o]]
         /\ disposed' = disposed \cup gone
  /\ UNCHANGED <<generational, marked, sFinalizers, heapVars, zombieVars, weakVars, cleared>>

\* IsWeakRefValid: a member closure lives as long as its `this`, and is then
\* marked, but nothing else is.
KeptByThis(o) == o \in Closures /\ ref[o] \in marked

\* Variant: the hash has not been registered.
UpdateNoHash ==
  /\ Then("hashes", "weakrefs")
  /\ UNCHANGED <<generational, marked, sFinalizers, heapVars, zombieVars, idVars, weakVars, history>>

\* ... the keys of the weak hashes (updateAfterGc) ...
UpdateAfterGc ==
  /\ Then("hashes", "weakrefs")
  /\ LET kept == {k \in Keys : k \in marked \/ KeptByThis(k)}
     IN  /\ sWeakHash' = {e \in sWeakHash : e[1] \in kept}
         /\ marked' = marked \cup kept
         /\ cleared' = cleared \cup (Keys \ kept)
  /\ UNCHANGED <<generational, sFinalizers, heapVars, zombieVars, idVars, sWeakRefs, disposed>>

\* ... and the weak references.
UpdateWeakRefs ==
  /\ Then("weakrefs", "sweep")
  /\ LET kept == {o \in sWeakRefs : o \in marked \/ KeptByThis(o)}
     IN  /\ sWeakRefs' = kept
         /\ marked' = marked \cup kept
         /\ cleared' = cleared \cup (sWeakRefs \ kept)
  /\ UNCHANGED <<generational, sFinalizers, heapVars, zombieVars, idVars, sWeakHash, disposed>>

\* What has not been marked is free, and may be allocated again.
Sweep ==
  /\ Then("sweep", "run")
  /\ alive' = marked /\ generational' = FALSE
  /\ ref' = [o \in Objects |-> IF o \in marked THEN ref[o] ELSE None]
  /\ disposed' = {} /\ cleared' = {}
  /\ UNCHANGED <<marked, roots, sFinalizers, zombieVars, idVars, weakVars>>

-----------------------------------------------------------------------------
Program ==
  \/ \E o \in Objects :
       \/ New(o) \/ Drop(o) \/ Store(o) \/ Hold(o)
       \/ SetFinalizer(o) \/ GCDoNotKill(o)
       \/ WeakHashGet(o) \/ WeakHashSet(o) \/ WeakHashRemove(o) \/ MakeWeakRef(o)
  \/ GCGetNextZombie

Collection ==
  \/ MarkAll \/ MarkAgain
  \/ \E o \in Objects : FindZombie(o)
  \/ FoundZombies \/ Finalizers \/ ForgetIds \/ UpdateAfterGc \/ UpdateWeakRefs \/ Sweep

Next == Program \/ Collection

Spec == Init /\ [][Next]_vars

-----------------------------------------------------------------------------
(* Properties.                                                             *)

\* What the program may still get hold of, now or after the next zombie.
Obtainable ==
  Reach(roots \cup sMakeZombieSet \cup Range(sZombieList) \cup sWeakRefs \cup Keys
        \cup (Range(sIdObjectMap) \ {None}))

\* A collection frees nothing that the program can still get hold of, by a
\* zombie, a weak reference, a weak key or an id, or that a registry names;
\* it neither ran the finalizer nor gave up the id of any of it, closures that
\* a weak reference keeps excepted, nor cleared any other reference to it (the
\* order of FindZombies and the parts of RunFinalizers).
StillThere ==
  phase = "sweep" =>
    /\ Obtainable \cup sFinalizers \subseteq marked
    /\ Obtainable \cap disposed \subseteq Closures
    /\ Obtainable \cap cleared = {}

\* No object is listed as a zombie twice, both tables of ids agree, and an id
\* is free or belongs to one object (FindZombies, GetObjectID, RunFinalizers).
TablesAgree ==
  /\ IsInjective(sZombieList)
  /\ \A o \in Objects, i \in Ids :
       sObjectIdMap[o] = i <=> i < Len(sIdObjectMap) /\ sIdObjectMap[i + 1] = o
  /\ sFreeObjectIds = {i \in Ids : i < Len(sIdObjectMap) /\ sIdObjectMap[i + 1] = None}

\* A key that a weak hash has kept is stored under the hash that a look-up
\* with that key computes.
KeysAreFound ==
  phase = "run" => \A e \in sWeakHash : e[1] \notin Closures => sObjectIdMap[e[1]] = e[2]

\* The same of every key, of closures too, unless the key has no id and may
\* still get the old one back: "Weak references to closures keep object alive"
\* (Changes.md), and a kept key is of use only if it can be found.
ClosureKeysAreFound ==
  phase = "run" => \A e \in sWeakHash :
    \/ sObjectIdMap[e[1]] = e[2]
    \/ sObjectIdMap[e[1]] = NoId /\ e[2] \in sFreeObjectIds

-----------------------------------------------------------------------------
(* The inductive invariant.                                                *)

\* What the collector knows by name.
WithId == {o \in Objects : sObjectIdMap[o] # NoId}
Named == roots \cup sMakeZombieSet \cup Range(sZombieList) \cup sFinalizers \cup WithId \cup Keys \cup sWeakRefs

\* Nothing that is freed is named or referred to; there are no closures of closures.
HeapInv ==
  /\ Named \subseteq alive /\ Closed(alive)
  /\ \A c \in Closures : ref[c] \notin Closures

\* A collection marks what the roots and the zombies reach, and each phase
\* leaves in its registry only what is marked.
MarkedInv ==
  /\ phase # "run" => Closed(marked) /\ roots \cup Range(sZombieList) \subseteq marked
  /\ phase \notin {"run", "zombies"} => sMakeZombieSet \subseteq marked
  /\ phase \in {"ids", "hashes", "weakrefs", "sweep"} => sFinalizers \subseteq marked
  /\ phase \in {"hashes", "weakrefs", "sweep"} => WithId \subseteq marked
  /\ phase \in {"weakrefs", "sweep"} => Keys \subseteq marked
  /\ phase = "sweep" => sWeakRefs \subseteq marked

\* What is marked has not been disposed of or cleared, closures that come back
\* excepted.  Before all zombies are found the same is true of what will be
\* marked, a second time in the same collection too.
HistoryInv ==
  /\ phase = "run" => disposed = {} /\ cleared = {}
  /\ phase = "zombies" =>
       \E T \in SUBSET Objects : /\ Closed(T) /\ marked \cup sMakeZombieSet \subseteq T
                                /\ T \cap disposed \subseteq Closures /\ T \cap cleared = {}
  /\ phase \notin {"run", "zombies"} => marked \cap disposed \subseteq Closures /\ marked \cap cleared = {}
  /\ phase \in {"zombies", "finalizers", "ids", "hashes"} => (Keys \cup sWeakRefs) \cap cleared = {}
  /\ phase = "weakrefs" => \A o \in sWeakRefs \cap cleared : ~KeptByThis(o)

\* Only keys that are about to be cleared have lost their ids.
KeysInv ==
  \A e \in sWeakHash : e[1] \notin Closures =>
    sObjectIdMap[e[1]] = e[2] \/ (phase = "hashes" /\ e[1] \notin marked)

SpecialsInv == TypeOK /\ TablesAgree /\ HeapInv /\ MarkedInv /\ HistoryInv /\ KeysInv
=============================================================================
