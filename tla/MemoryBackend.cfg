SPECIFICATION Spec
CONSTANTS
  tpm = tpm  par = par
  a = a  b = b
  None = None
  Key <- TwoKeys
  Lease = {a, b}
  Slot = {1, 2}
  Definition <- McDefinition
  Persisted <- McPersisted
  Request <- McRequest
  Actuals <- McActuals
  MaxLag = 1
  Word = 8
SYMMETRY Symmetry
INVARIANTS TypeOK NeverOverCommitted UsedIsExact LeaseBacked
PROPERTIES RetryChargesNothing ImplementsLimiter DecreaseDrains
