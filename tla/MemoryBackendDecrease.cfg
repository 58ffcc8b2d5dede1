SPECIFICATION ServerSpec
CONSTANTS
  tpm = tpm  par = par
  a = a  b = b
  None = None
  Key <- TwoKeys
  Lease = {a, b}
  Slot = {1, 2}
  Definition <- DecreaseDefinition
  Persisted <- DecreasePersisted
  Request <- DecreaseRequest
  Actuals <- DecreaseActuals
  MaxLag = 0
  Word = 8
PROPERTY DecreaseResolves
