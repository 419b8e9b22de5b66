SPECIFICATION Spec
CONSTANTS
  a = a
  b = b
  c = c
  Handle = {a, b, c}
  Fd = {0, 1, 2}
  MaxOpens = 4
SYMMETRY Symmetric
INVARIANTS TypeOK NoLeak OneOwner
PROPERTY FilesAreOwned
CHECK_DEADLOCK FALSE
