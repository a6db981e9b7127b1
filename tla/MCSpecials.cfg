SPECIFICATION Spec
CONSTANTS
  a = a  b = b  c = c
  Objects <- MCObjects
  Closures = {c}
  None = None
  Uses <- MCUses
  Refs <- MCRefs
  Generational = TRUE
INVARIANTS SpecialsInv StillThere TablesAgree KeysAreFound
