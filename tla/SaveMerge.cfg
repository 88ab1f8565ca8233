SPECIFICATION Spec
CONSTANTS
  PhysicalSaves = 3
  LogicalSaves = 2
  Modulus = 8
  Magic = 6
  here = here
  there = there
  new = new
  newer = newer
  Paths <- MCPaths
  Initial <- MCInitial
  Missing = Missing
  Partial = Partial
SYMMETRY MCSymmetry
INVARIANTS
  MergeIsSafe
PROPERTY
  FilesKept
