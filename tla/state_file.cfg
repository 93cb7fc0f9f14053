\* Two writers, kills and power losses between any two steps, lost keys and
\* every kind of file that a start can find.
CONSTANTS
  w1 = w1
  w2 = w2
  Writers <- TwoWriters
  Forms <- SealedOnly
  Sizes <- SizesAroundTheBound
  MaxBytes = 2
  Overhead = 1
  MaxEdits = 1
  MaxKeys = 1
  MaxStops = 1
SYMMETRY Symmetry
SPECIFICATION Spec
INVARIANTS TypeOK MemoryCoversDisk ReportDescribesFile
PROPERTY ImplementsAtomicFile
CHECK_DEADLOCK FALSE
