SPECIFICATION Spec
CONSTANTS
  tpm = tpm  par = par
  a = a  b = b
  h1 = h1  h2 = h2
  None = None
  Key <- TwoKeys
  Lease = {a, b}
  Handler = {h1, h2}
  Kind <- McKind
  Span <- McSpan
  Overage <- McOverage
  Ask <- McAsk
  Actuals <- McActuals
  Start <- McStart
  Targets <- McTargets
  MaxPuts = 1
  MaxFaults = 1
  LateDuplicates = FALSE
INVARIANTS ChargedWhole GrantedIsHeld CapacityHonest
PROPERTIES ImplementsLimiter
CHECK_DEADLOCK FALSE
SYMMETRY Handlers
