----------------------------- MODULE MCSpecials -----------------------------
EXTENDS Specials
CONSTANTS a, b, c
MCObjects == {a, b, c}
MCUses == [o \in MCObjects |->
  CASE o = a -> {"zombie", "finalizer"}
    [] o = b -> {"zombie", "key"}
    [] o = c -> {"weak", "key"}]
MCRefs == [o \in MCObjects |-> IF o = a THEN {b, c} ELSE {a}]
=============================================================================
