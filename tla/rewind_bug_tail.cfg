\* A patch and its pointers take up to 8 cells: 15 hold one of them with the
\* pointer at the start, and not two.
SPECIFICATION Spec
CONSTANTS
  MaxRun = 2
  Blocks <- TinyBlocks
  Capacities = {15}
  Garbage = {0}
  None = None
INVARIANT PointersAgree
