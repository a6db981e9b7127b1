------------------------------ MODULE WorldStop ------------------------------
(***************************************************************************)
(* What the collector of hxcpp promises to the threads of a program: while *)
(* a collection looks at the heap, no thread but the collector touches it, *)
(* and no thread goes on allocating from memory that it was given before   *)
(* the last collection.  docs/ThreadsAndStacks.md states the first half    *)
(* as "Threads must not change GC pointers in the collection phase".       *)
(*                                                                         *)
(* StopTheWorld.tla is the protocol of Immix.cpp that implements it.       *)
(***************************************************************************)
EXTENDS FiniteSets

CONSTANTS Threads,      \* the native threads of the process
          NoThread      \* "no thread": what a mutex or the collector may be

VARIABLES inHeap,       \* threads that run code which uses GC pointers
          collector,    \* the thread whose collection is under way
          cached        \* threads that hold a range of rows to allocate from

vars == <<inHeap, collector, cached>>

TypeOK == /\ inHeap \subseteq Threads
          /\ collector \in Threads \cup {NoThread}
          /\ cached \subseteq Threads

Init == inHeap = {} /\ collector = NoThread /\ cached = {}

\* A thread starts to use GC pointers: never while the world is stopped.
Enter(t) == /\ collector = NoThread
            /\ inHeap' = inHeap \cup {t}
            /\ UNCHANGED <<collector, cached>>

\* A thread blocks, pauses or detaches.
Leave(t) == /\ t # collector
            /\ inHeap' = inHeap \ {t}
            /\ UNCHANGED <<collector, cached>>

\* A thread is given rows to allocate from.
Refill(t) == /\ collector = NoThread
             /\ t \in inHeap
             /\ cached' = cached \cup {t}
             /\ UNCHANGED <<inHeap, collector>>

\* The rows of a thread are used up or taken back.
Drop(t) == /\ cached' = cached \ {t}
           /\ UNCHANGED <<inHeap, collector>>

\* The rows of every thread are taken back at once.
DropAll == /\ cached' = {}
           /\ UNCHANGED <<inHeap, collector>>

Begin(t) == /\ collector = NoThread
            /\ inHeap = {t}
            /\ collector' = t
            /\ UNCHANGED <<inHeap, cached>>

End == /\ collector # NoThread
       /\ cached = {}
       /\ collector' = NoThread
       /\ UNCHANGED <<inHeap, cached>>

Next == \/ \E t \in Threads : Enter(t) \/ Leave(t) \/ Refill(t) \/ Drop(t) \/ Begin(t)
        \/ DropAll
        \/ End

Spec == Init /\ [][Next]_vars

-----------------------------------------------------------------------------
\* The collector is alone in the heap.
CollectAlone == collector # NoThread => inHeap = {collector}

=============================================================================
