SPECIFICATION Spec
SYMMETRY Symmetry
CONSTANTS
  Daemons = {p1, p2}
  Directories = {d1, d2}
  Inodes = {i1, i2}
  MaxNodes = 3
  None = None
INVARIANTS
  TypeOK
  ServingNodeStays
  NoResidue
PROPERTIES
  RemovesOnlyItsNode
CHECK_DEADLOCK FALSE
