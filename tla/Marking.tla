------------------------------ MODULE Marking ------------------------------
(***************************************************************************)
(* What a mark phase promises, whoever does the work: it marks what the    *)
(* roots reach and nothing else, and ends when there is nothing left.      *)
(***************************************************************************)
CONSTANTS Objects, Refs, Roots
VARIABLES marked, marking
vars == <<marked, marking>>

Init == marked = {} /\ marking = FALSE

Begin == ~marking /\ marking' = TRUE /\ marked' = Roots

\* Another object that a marked one refers to.
Mark == /\ marking
        /\ \E o \in marked : \E c \in Refs[o] : marked' = marked \cup {c}
        /\ UNCHANGED marking

End == /\ marking
       /\ \A o \in marked : Refs[o] \subseteq marked
       /\ marking' = FALSE
       /\ UNCHANGED marked

\* Until the next collection the marks mean nothing.
Forget == ~marking /\ marked' = {} /\ UNCHANGED marking

Next == Forget \/ Begin \/ Mark \/ End

Spec == Init /\ [][Next]_vars
=============================================================================
