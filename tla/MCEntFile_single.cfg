\* One process, any ENT pair, opens that fail, crashes.
SPECIFICATION Spec
CONSTANTS
  Proc = {p1}
  KeyId = {id1, id2}
  Value = {v1}
  NoValue = NoValue
  k0 = k0
  k1 = k1
  noPem = noPem
  EntKey = {k0, k1}
  BadKey = noPem
  EntPair <- allPairs
  DefaultPair <- pairDefault
  Serial = TRUE
  OpenMayFail = TRUE
  WriteMayFail = TRUE
INVARIANTS AckedKeyStored DamageNeedsCutShort
PROPERTIES ForeignFileUntouched
