\* A public key that does not parse.
SPECIFICATION Spec
CONSTANTS
  Proc = {p1}
  KeyId = {id1}
  Value = {v1}
  NoValue = NoValue
  k0 = k0
  k1 = k1
  noPem = noPem
  EntKey = {k0, k1}
  BadKey = noPem
  EntPair <- pubFails
  DefaultPair <- pairDefault
  Serial = TRUE
  OpenMayFail = FALSE
  WriteMayFail = FALSE
PROPERTIES TrueMeansWritten
