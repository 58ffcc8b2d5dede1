SPECIFICATION Spec
CONSTANTS
  c1 = c1  c2 = c2  c3 = c3
  look = look
  k1 = k1  k2 = k2
  None = None
  Caller = {c1, c2, c3}
  Looker = {look}
  Impatient = {c3, look}
  Size <- McSize
  Refused <- McRefused
  MaxEvents = 3
  Client = {k1, k2}
INVARIANTS OwnResults ItemsConserved ClientsConserved
PROPERTIES CallsReturn
CHECK_DEADLOCK FALSE
