\* A failed open is taken for a missing file.
SPECIFICATION Spec
CONSTANTS
  Proc = {p1}
  KeyId = {id1}
  Value = {v1}
  NoValue = NoValue
  k0 = k0
  k1 = k1
  noPem = noPem
  EntKey = {k0, k1}
  BadKey = noPem
  EntPair <- onlyDefault
  DefaultPair <- pairDefault
  Serial = TRUE
  OpenMayFail = TRUE
  WriteMayFail = FALSE
INVARIANTS CreatesOnlyMissingFile
