SPECIFICATION Spec
CONSTANTS
  rpm = rpm  tpm = tpm  h1 = h1  h2 = h2
  i1 = i1  i2 = i2  i3 = i3
  None = None  Empty = Empty  Torn = Torn
  Key = {rpm, tpm}
  Handler = {h1, h2}
  Capacity = {1, 2}
  MaxPuts = 3
  Inode = {i1, i2, i3}
  Crashes = TRUE
  DiskErrors = TRUE
SYMMETRY Symmetry
INVARIANTS FileLoadable AckedDurable InStep
CHECK_DEADLOCK FALSE
