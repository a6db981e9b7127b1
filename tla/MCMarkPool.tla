----------------------------- MODULE MCMarkPool -----------------------------
EXTENDS MarkPool, TLC
CONSTANTS o1, o2, o3, o4, o5, o6
MCObjects == {o1, o2, o3, o4, o5, o6}
\* One object with more children than a chunk holds, one with as many, shared
\* children, a cycle, and an object nobody reaches.
MCRefs == (o1 :> {o2, o3, o4}) @@ (o2 :> {o1}) @@ (o3 :> {o4, o5}) @@ (o4 :> {o5})
          @@ (o5 :> {}) @@ (o6 :> {o1})
MCRoots == <<<<o1>>>>
MCWorkers == 0..2
=============================================================================
