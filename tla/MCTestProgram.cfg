\* Two programs from the start, any failure, one death; one caller of the files.
SPECIFICATION Spec
CONSTANTS
  Proc = {p1, p2}
  K0 = "k0"
  K1 = "k1"
  K2 = "k2"
  Value <- values
  NoValue = NoValue
  EntPair <- pairs
  EntKey = {"e"}
  BadKey = "badkey"
  DefaultPair <- pair
  OpenMayFail = FALSE
  WriteMayFail = TRUE
  Shipped <- shipped
  Task = {"task0", "task1", "library"}
  LibDir = {"origin", "encrypted"}
  UserText <- userText
  Leftover <- leftover
  LibName = {"a"}
  LibKeys <- libKeys
  MaxDeaths = 1
  Dir = {"origin", "encrypted", "decrypted"}
  Name = {"a", "b"}
  PlainText = {"nothing", "short", "long", "junk"}
  Size <- size
  Nothing = "nothing"
  Junk = "junk"
  AesKey <- oldAndNew
  r2 = r2
  r3 = r3
  r4 = r4
  RsaKey <- rsaKeys
  KeySize <- keySize
  BadPem = BadPem
  Chunk = 6
  Overhead = 1
  MayFail = TRUE
CHECK_DEADLOCK FALSE
SYMMETRY Symmetry
INVARIANTS TypeOK DataHasItsKey ShippedCanLogin CompleteStoreIsSafe TaskRoundTrip EncryptedIsRecoverable
PROPERTIES KeyFileIsVault
