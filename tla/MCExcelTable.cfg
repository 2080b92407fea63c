\* Two programs, any failure, deaths anywhere.
SPECIFICATION Spec
CONSTANTS
  Program <- both
  p1 = p1
  p2 = p2
  Importer <- first
  Exporter <- both
  Table <- tables
  TableOrder <- order
  OtherName = {"marks"}
  Column = {"username", "password", "id", "name", "nick", "score"}
  Columns <- columns
  Numeric = {"id", "score"}
  n1 = n1
  n2 = n2
  w = w
  q = q
  o = o
  x = x
  big = big
  none = none
  Number = {n1, n2, big}
  Word = {w, q, o, x}
  Quoted = {q, o, x}
  Doubled = {q}
  Unquote <- unquote
  Spilling = {{x}}
  Aftermath <- aftermath
  Double <- double
  Null = none
  UserSheets <- userSheets
  Students = "students"
  Entry <- entries
  MayFail = TRUE
INVARIANTS TypeOK ImportIsPrefix ExportIsSnapshot OwnBookIsAccepted OwnBookRestores NumbersStayNumbers PointerOnlyAfterFault
