\* Two processes, one writer at a time, readers at any time.
SPECIFICATION Spec
CONSTANTS
  Proc = {p1, p2}
  KeyId = {id1}
  Value = {v1, v2}
  NoValue = NoValue
  k0 = k0
  k1 = k1
  noPem = noPem
  EntKey = {k0, k1}
  BadKey = noPem
  EntPair <- onlyDefault
  DefaultPair <- pairDefault
  Serial = TRUE
  OpenMayFail = FALSE
  WriteMayFail = TRUE
INVARIANTS CreatesOnlyMissingFile
PROPERTIES DamageIsFinal ReadAgreesWithWrite ImplementsVault
