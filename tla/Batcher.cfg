SPECIFICATION FairSpec
CONSTANTS
  r1 = r1  c1 = c1  c2 = c2
  None = None
  Call = {r1, c1, c2}
  KindOf <- RccKindOf
  Impatient = {c1}
  MaxBatch = 2
  FlakyLimiter = FALSE
INVARIANTS OwnAnswer OnceInOrder
PROPERTY CallsReturn
\* Calls end and the loop stops.
CHECK_DEADLOCK FALSE
