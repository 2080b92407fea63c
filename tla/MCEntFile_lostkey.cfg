\* Two writers at once lose a key whose write returned true.
SPECIFICATION Spec
CONSTANTS
  Proc = {p1, p2}
  KeyId = {id1}
  Value = {v1}
  NoValue = NoValue
  k0 = k0
  k1 = k1
  noPem = noPem
  EntKey = {k0, k1}
  BadKey = noPem
  EntPair <- onlyDefault
  DefaultPair <- pairDefault
  Serial = FALSE
  OpenMayFail = FALSE
  WriteMayFail = FALSE
INVARIANTS AckedKeyStored
