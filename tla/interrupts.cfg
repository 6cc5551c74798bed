CONSTANTS
  InterruptId = {i1, i2}
  INVALID_ID = INVALID_ID
  MaxDepth = 4
SYMMETRY Symmetry
\* A partition that has panicked waits for ever.
CHECK_DEADLOCK FALSE
SPECIFICATION Spec
INVARIANTS TypeOK CriticalSectionsExclude QuietAfterReturn MaskedMeansSafe
