\* A writer between the two looks of a reader.
SPECIFICATION Spec
CONSTANTS
  Proc = {p1, p2}
  KeyId = {id1, id2}
  Value = {v1}
  NoValue = NoValue
  k0 = k0
  k1 = k1
  noPem = noPem
  EntKey = {k0, k1}
  BadKey = noPem
  EntPair <- onlyDefault
  DefaultPair <- pairDefault
  Serial = TRUE
  OpenMayFail = FALSE
  WriteMayFail = FALSE
INVARIANTS NoUndefinedRead
