\* A size_t of 4 bits: capacities 1 and 4 (8 is refused), and cursors that wrap
\* around every few writes.
SPECIFICATION Spec
CONSTANTS
  Bits = 4
  Values = {x, y}
  Junk = junk
  Sizes = {0, 1, 3, 5, 9}
  MaxBytes = 3
INVARIANTS TypeOK RoundsUp CursorsInOrder NoRace PromisesKept
PROPERTY ImplementsByteFifo
