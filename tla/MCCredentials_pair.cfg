\* Two programs, statements may fail at any time.
SPECIFICATION Spec
CONSTANTS
  p1 = p1
  p2 = p2
  admin = admin
  ann = ann
  ha = ha
  h1 = h1
  h2 = h2
  h3 = h3
  h4 = h4
  none = none
  pwA = pwA
  pwB = pwB
  Proc <- TwoProc
  User <- TwoUsers
  Admin <- admin
  Hash <- ThreeHashes
  AdminHash <- ha
  NoHash <- none
  Password <- OnePassword
  PasswordOf <- OnePasswordOf
  MayFail = TRUE
INVARIANTS TypeOK NobodyStranded
SYMMETRY Alike
