SPECIFICATION Spec
CONSTANTS
  tpm = tpm  par = par
  a = a  b = b
  h1 = h1  h2 = h2
  None = None
  Key <- OneKey
  Lease = {a, b}
  Handler = {h1}
  Kind <- OneKind
  Span <- OneSpan
  Overage <- OneOverage
  Ask <- OneAsk
  Actuals <- OneActuals
  Start <- OneStart
  Targets <- OneTargets
  MaxPuts = 2
  MaxFaults = 0
  LateDuplicates = FALSE
INVARIANT NeverOverCommitted
CHECK_DEADLOCK FALSE
