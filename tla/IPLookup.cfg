SPECIFICATION Spec
SYMMETRY Symmetry
CONSTANTS
  Width4 = 2
  PadLen = 1
  Metadata = {m1, m2}
  MaxStored = 3
  None = None
INVARIANTS
  NoDeadBranches
PROPERTY
  ImplementsTable
