SPECIFICATION Spec
CONSTANTS
  Threads = {p1, p2}
  Contexts = {c1, c2}
  None = None
  MaxRevision = 2
SYMMETRY ThreadContextSymmetry
INVARIANTS ResultIsForSnapshot NoCorruptTree
PROPERTIES NewestKept
