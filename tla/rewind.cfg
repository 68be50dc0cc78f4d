\* Blocks of four words, the longest patch and its pointers 13 cells: 27 hold two of
\* them behind the pointer at the start, and not one more cell; in 10 nothing fits.
SPECIFICATION Spec
CONSTANTS
  MaxRun = 2
  Blocks <- FewBlocks
  Capacities = {10, 27}
  Garbage = {0}
  None = None
INVARIANTS TypeOK PointersAgree
PROPERTIES ImplementsStack KeepsWhatFits
