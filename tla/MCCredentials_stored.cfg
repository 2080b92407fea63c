\* One program, statements may fail.
SPECIFICATION Spec
CONSTANTS
  p1 = p1
  p2 = p2
  admin = admin
  ann = ann
  ha = ha
  h1 = h1
  h2 = h2
  h3 = h3
  h4 = h4
  none = none
  pwA = pwA
  pwB = pwB
  Proc <- OneProc
  User <- TwoUsers
  Admin <- admin
  Hash <- FourHashes
  AdminHash <- ha
  NoHash <- none
  Password <- TwoPasswords
  PasswordOf <- MCPasswordOf
  MayFail = TRUE
PROPERTY TrueMeansStored
