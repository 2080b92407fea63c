-------------------------- MODULE ExcelTableProofs --------------------------
(***************************************************************************)
(* Theorems about ExcelTable, for any tables, workbooks and programs.      *)
(***************************************************************************)
EXTENDS ExcelTable, FiniteSetTheorems, TLAPS

-----------------------------------------------------------------------------
(***************************************************************************)
(* Headers.                                                                *)
(***************************************************************************)

\* The place of a column that was kept is not to the right of its header
\* (DatabaseHandler.cpp:81-87).
LEMMA PlaceOfKept ==
  ASSUME NEW t \in Table, NEW header \in Seq(Column), NEW i \in 1..Len(header),
         header[i] \in ColumnSet(t)
  PROVE  Place(t, header, i) \in 1..i
<1> DEFINE K == {j \in 1..i : header[j] \in ColumnSet(t)}
<1>1. i \in Nat /\ i > 0
  OBVIOUS
<1>2. IsFiniteSet(1..i) /\ Cardinality(1..i) = i
  BY <1>1, FS_Interval
<1>3. K \in SUBSET (1..i) /\ i \in K
  BY <1>1
<1>4. IsFiniteSet(K) /\ Cardinality(K) <= i
  BY <1>2, <1>3, FS_Subset
<1>5. Cardinality(K) \in Nat
  BY <1>4, FS_CardinalityType
<1>6. Cardinality(K) # 0
  BY <1>3, <1>4, FS_EmptySet
<1> QED
  BY <1>1, <1>4, <1>5, <1>6 DEF Place

\* When the table has every header of the sheet, every cell keeps its place.
LEMMA PlaceOfKnown ==
  ASSUME NEW t \in Table, NEW header \in Seq(Column), NEW i \in 1..Len(header),
         \A j \in 1..Len(header) : header[j] \in ColumnSet(t)
  PROVE  Place(t, header, i) = i
<1>1. i \in Nat /\ i > 0 /\ Len(header) \in Nat
  OBVIOUS
<1>2. Cardinality(1..i) = i
  BY <1>1, FS_Interval
<1>3. {j \in 1..i : header[j] \in ColumnSet(t)} = 1..i
  BY <1>1
<1> QED
  BY <1>2, <1>3 DEF Place

\* The index of a header that is there.
LEMMA IndexOfHead ==
  ASSUME NEW header, NEW c, Heads(header, c)
  PROVE  IndexOf(header, c) \in 1..Len(header) /\ header[IndexOf(header, c)] = c
BY DEF Heads, IndexOf

-----------------------------------------------------------------------------
(***************************************************************************)
(* Sheets and rows.                                                        *)
(***************************************************************************)
SheetOK(s) ==
  /\ Len(s.header) > 0 /\ Injective(s.header)
  /\ \A n \in 1..Len(s.rows) : Len(s.rows[n]) = Len(s.header)

BookOK(b) ==
  /\ \A k \in 1..Len(b.sheets) : SheetOK(b.sheets[k])
  /\ \A j, k \in 1..Len(b.sheets) : b.sheets[j].name = b.sheets[k].name => j = k

\* The texts that are pasted for a row of a sheet are a row of the table
\* (DatabaseHandler.cpp:103-127).
LEMMA PastedRowType ==
  ASSUME NEW s \in Sheet, s.name \in Table, SheetOK(s), NEW n \in 1..Len(s.rows)
  PROVE  PastedRow(s, s.rows[n]) \in Row(s.name)
<1>1. SUFFICES ASSUME NEW c \in ColumnSet(s.name), Heads(s.header, c)
               PROVE  s.rows[n][Place(s.name, s.header, IndexOf(s.header, c))] \in Cell
  BY DEF PastedRow, Row, Cell
<1>2. s.rows[n] \in Seq(Cell) /\ Len(s.rows[n]) = Len(s.header) /\ s.header \in Seq(Column)
  BY DEF Sheet, SheetOK
<1>3. IndexOf(s.header, c) \in 1..Len(s.header) /\ s.header[IndexOf(s.header, c)] = c
  BY <1>1, IndexOfHead
<1>4. Place(s.name, s.header, IndexOf(s.header, c)) \in 1..IndexOf(s.header, c)
  BY <1>1, <1>2, <1>3, PlaceOfKept
<1>5. Place(s.name, s.header, IndexOf(s.header, c)) \in 1..Len(s.rows[n])
  BY <1>2, <1>3, <1>4
<1> QED
  BY <1>2, <1>5

\* So is what SQL reads in them.
LEMMA StoredRowType ==
  ASSUME NEW s \in Sheet, s.name \in Table, SheetOK(s), NEW n \in 1..Len(s.rows)
  PROVE  StoredRow(s, s.rows[n]) \in Row(s.name)
<1> DEFINE x == PastedRow(s, s.rows[n])
<1>1. x \in [ColumnSet(s.name) -> Cell]
  BY PastedRowType DEF Row
<1> HIDE DEF x
<1>2. AsRead(x) \in [ColumnSet(s.name) -> Cell]
  BY <1>1, CellAssumption DEF AsRead, Cell
<1> QED
  BY <1>2 DEF StoredRow, Row, x

\* When the table has every header, each cell goes to the column it stands
\* under (DatabaseHandler.cpp:84-85, 115).
LEMMA PastedRowKnown ==
  ASSUME NEW s \in Sheet, s.name \in Table, HeaderKnown(s), NEW n \in 1..Len(s.rows)
  PROVE  PastedRow(s, s.rows[n]) =
           [c \in ColumnSet(s.name) |->
              IF Heads(s.header, c) THEN s.rows[n][IndexOf(s.header, c)] ELSE Null]
<1>1. s.header \in Seq(Column) /\ \A j \in 1..Len(s.header) : s.header[j] \in ColumnSet(s.name)
  BY DEF Sheet, HeaderKnown
<1>2. ASSUME NEW c \in ColumnSet(s.name), Heads(s.header, c)
      PROVE  Place(s.name, s.header, IndexOf(s.header, c)) = IndexOf(s.header, c)
  BY <1>1, <1>2, IndexOfHead, PlaceOfKnown
<1> QED
  BY <1>2 DEF PastedRow

\* A number is read as it is.
LEMMA NumberAsRead ==
  ASSUME NEW x, NEW c \in DOMAIN x, x[c] \in Number
  PROVE  AsRead(x)[c] = x[c]
BY CellAssumption DEF AsRead

\* A sheet without odd columns and texts gives rows with numbers in the
\* numeric columns.
LEMMA StoredRowPlain ==
  ASSUME NEW s \in Sheet, s.name \in Table, HeaderKnown(s), NumbersInPlace(s),
         NEW n \in 1..Len(s.rows)
  PROVE  ~Alien(s.name, StoredRow(s, s.rows[n]))
<1> DEFINE x == PastedRow(s, s.rows[n])
<1>1. ASSUME NEW c \in ColumnSet(s.name) \cap Numeric
      PROVE  x[c] \in Number /\ c \in DOMAIN x
  <2>1. Heads(s.header, c)
    BY <1>1 DEF NumbersInPlace
  <2>2. IndexOf(s.header, c) \in 1..Len(s.header) /\ s.header[IndexOf(s.header, c)] = c
    BY <2>1, IndexOfHead
  <2>3. s.rows[n][IndexOf(s.header, c)] \in Number
    BY <1>1, <2>2 DEF NumbersInPlace
  <2> QED
    BY <2>1, <2>3, PastedRowKnown
<1> HIDE DEF x
<1>2. \A c \in ColumnSet(s.name) \cap Numeric : AsRead(x)[c] \in Number
  BY <1>1, NumberAsRead
<1> QED
  BY <1>2 DEF Alien, StoredRow, x

\* One row more of a sheet.
LEMMA SheetRowsStep ==
  ASSUME NEW s \in Sheet, s.name \in Table, HeaderKnown(s), NEW n \in 1..Len(s.rows)
  PROVE  SheetRows(s, n) = SheetRows(s, n - 1) \cup {PastedRow(s, s.rows[n])}
<1> DEFINE R(r) == [c \in ColumnSet(s.name) |->
                      IF Heads(s.header, c) THEN s.rows[r][IndexOf(s.header, c)] ELSE Null]
<1>1. PastedRow(s, s.rows[n]) = R(n)
  BY PastedRowKnown
<1>2. n \in Nat /\ 1..n = (1..(n - 1)) \cup {n}
  BY DEF Sheet
<1>3. SheetRows(s, n) = {R(r) : r \in 1..n} /\ SheetRows(s, n - 1) = {R(r) : r \in 1..(n - 1)}
  BY DEF SheetRows
<1> HIDE DEF R
<1> QED
  BY <1>1, <1>2, <1>3

\* The rows of a sheet as SQL reads them.
ReadRows(s, n) == {AsRead(row) : row \in SheetRows(s, n)}

LEMMA ReadRowsStep ==
  ASSUME NEW s \in Sheet, s.name \in Table, HeaderKnown(s), NEW n \in 1..Len(s.rows)
  PROVE  ReadRows(s, n) = ReadRows(s, n - 1) \cup {StoredRow(s, s.rows[n])}
<1> DEFINE A == SheetRows(s, n - 1)
           x == PastedRow(s, s.rows[n])
<1>1. SheetRows(s, n) = A \cup {x}
  BY SheetRowsStep
<1>2. StoredRow(s, s.rows[n]) = AsRead(x)
  BY DEF StoredRow
<1> HIDE DEF A, x
<1>3. {AsRead(row) : row \in A \cup {x}} = {AsRead(row) : row \in A} \cup {AsRead(x)}
  OBVIOUS
<1> QED
  BY <1>1, <1>2, <1>3 DEF ReadRows, A

\* Nothing of a sheet.
LEMMA ReadRowsNone ==
  ASSUME NEW s
  PROVE  ReadRows(s, 0) = {}
BY DEF ReadRows, SheetRows

\* A row with numbers where they belong is shown as a row.
LEMMA ShownType ==
  ASSUME NEW t \in Table, NEW row \in Row(t), ~Alien(t, row)
  PROVE  Shown(t, row) \in Row(t)
BY CellAssumption DEF Shown, Row, Cell, Alien

\* exportToExcel's sheet of a table is a sheet, and reading it back gives the
\* rows of the table as they are shown, whatever order they came in
\* (DatabaseHandler.cpp:212-262).
LEMMA SheetOfTable ==
  ASSUME NEW t \in Table, NEW S, S \subseteq Row(t), IsFiniteSet(S), NEW s \in Orders(S),
         \A row \in S : ~Alien(t, row)
  PROVE  /\ SheetOf(t, s) \in Sheet
         /\ SheetOK(SheetOf(t, s))
         /\ SheetOf(t, s).name = t
         /\ SheetRows(SheetOf(t, s), Len(SheetOf(t, s).rows)) = {Shown(t, row) : row \in S}
<1> DEFINE h == Columns[t]
           R(r) == [c \in ColumnSet(t) |->
                      IF Heads(h, c) THEN SheetOf(t, s).rows[r][IndexOf(h, c)] ELSE Null]
<1>1. h \in Seq(Column) /\ Len(h) > 0 /\ Injective(h)
  BY TableAssumption
<1>2. Cardinality(S) \in Nat
  BY FS_CardinalityType
<1>3. /\ s \in [1..Cardinality(S) -> S]
      /\ \A r \in S : \E i \in 1..Cardinality(S) : s[i] = r
  BY DEF Orders
<1>4. s \in Seq(S) /\ Len(s) = Cardinality(S)
  BY <1>2, <1>3
<1>5. \A i \in 1..Len(h) : h[i] \in ColumnSet(t)
  BY <1>1 DEF ColumnSet
<1>6. \A n \in 1..Len(s) : s[n] \in S /\ Shown(t, s[n]) \in Row(t)
  BY <1>4, ShownType
<1>7. /\ SheetOf(t, s).name = t
      /\ SheetOf(t, s).header = h
      /\ SheetOf(t, s).rows = [n \in 1..Len(s) |-> [i \in 1..Len(h) |-> Shown(t, s[n])[h[i]]]]
      /\ DOMAIN SheetOf(t, s) = {"name", "header", "rows"}
      /\ SheetOf(t, s) = [name |-> SheetOf(t, s).name, header |-> SheetOf(t, s).header,
                          rows |-> SheetOf(t, s).rows]
  BY DEF SheetOf
<1>8. \A n \in 1..Len(s) : [i \in 1..Len(h) |-> Shown(t, s[n])[h[i]]] \in Seq(Cell)
  <2>1. ASSUME NEW n \in 1..Len(s), NEW i \in 1..Len(h)
        PROVE  Shown(t, s[n])[h[i]] \in Cell
    BY <1>5, <1>6 DEF Row
  <2>2. Len(h) \in Nat
    BY <1>1
  <2> QED
    BY <2>1, <2>2
<1>9. SheetOf(t, s).rows \in Seq(Seq(Cell)) /\ Len(SheetOf(t, s).rows) = Len(s)
  <2> DEFINE L(n) == [i \in 1..Len(h) |-> Shown(t, s[n])[h[i]]]
  <2>1. Len(s) \in Nat /\ \A n \in 1..Len(s) : L(n) \in Seq(Cell)
    BY <1>2, <1>4, <1>8
  <2>2. SheetOf(t, s).rows = [n \in 1..Len(s) |-> L(n)]
    BY <1>7
  <2> HIDE DEF L
  <2>3. [n \in 1..Len(s) |-> L(n)] \in Seq(Seq(Cell)) /\ Len([n \in 1..Len(s) |-> L(n)]) = Len(s)
    BY <2>1
  <2> QED
    BY <2>2, <2>3
<1>10. SheetOf(t, s) \in Sheet
  BY <1>1, <1>7, <1>9 DEF Sheet
<1>11. \A n \in 1..Len(SheetOf(t, s).rows) : Len(SheetOf(t, s).rows[n]) = Len(SheetOf(t, s).header)
  <2> SUFFICES ASSUME NEW n \in 1..Len(s)
               PROVE  Len([i \in 1..Len(h) |-> Shown(t, s[n])[h[i]]]) = Len(h)
    BY <1>7, <1>9
  <2>1. Len(h) \in Nat
    BY <1>1
  <2> QED
    BY <2>1
<1>12. \A c \in ColumnSet(t) : Heads(h, c)
  BY DEF ColumnSet, Heads
<1>13. ASSUME NEW r \in 1..Len(s)
       PROVE  R(r) = Shown(t, s[r])
  <2>1. Shown(t, s[r]) \in Row(t)
    BY <1>6
  <2>2. \A c \in ColumnSet(t) : IndexOf(h, c) \in 1..Len(h) /\ h[IndexOf(h, c)] = c
    BY <1>12, IndexOfHead
  <2>3. \A i \in 1..Len(h) : SheetOf(t, s).rows[r][i] = Shown(t, s[r])[h[i]]
    BY <1>7, <1>13
  <2>4. \A c \in ColumnSet(t) : R(r)[c] = Shown(t, s[r])[c]
    BY <1>12, <2>2, <2>3
  <2> QED
    BY <2>1, <2>4 DEF Row
<1>14. SheetRows(SheetOf(t, s), Len(SheetOf(t, s).rows)) = {R(r) : r \in 1..Len(s)}
  <2> DEFINE X == SheetOf(t, s)
  <2>1. X.name = t /\ X.header = h /\ Len(X.rows) = Len(s)
    BY <1>7, <1>9
  <2> HIDE DEF X
  <2>2. SheetRows(X, Len(s)) =
          {[c \in ColumnSet(t) |-> IF Heads(h, c) THEN X.rows[r][IndexOf(h, c)] ELSE Null] : r \in 1..Len(s)}
    BY <2>1 DEF SheetRows
  <2> QED
    BY <2>1, <2>2 DEF X
<1>15. {R(r) : r \in 1..Len(s)} = {Shown(t, row) : row \in S}
  <2> HIDE DEF R
  <2> QED
    BY <1>3, <1>4, <1>6, <1>13
<1> QED
  BY <1>1, <1>7, <1>10, <1>11, <1>14, <1>15 DEF SheetOK

-----------------------------------------------------------------------------
(***************************************************************************)
(* The inductive invariant.                                                *)
(***************************************************************************)
Flat ==
  /\ db \in [Table -> SUBSET AnyRow]
  /\ pc \in [Program -> {"idle"} \cup Importing \cup Exporting]
  /\ conn \in [Program -> BOOLEAN]
  /\ book \in [Program -> BookType]
  /\ at \in [Program -> [sheet : Nat, row : Nat]]
  /\ before \in [Program -> [Table -> SUBSET AnyRow]]
  /\ disturbed \in [Program -> BOOLEAN]
  /\ tainted \in BOOLEAN
  /\ faulted \in [Program -> BOOLEAN]

\* A table holds finitely many rows of its own, with numbers where they
\* belong unless an odd workbook was imported.
TableOK(t) ==
  /\ db[t] \subseteq Row(t) /\ IsFiniteSet(db[t])
  /\ ~tainted => \A r \in db[t] : ~Alien(t, r)

ExcelOK(b) == b \in BookType /\ BookOK(b) /\ (b = NoBook \/ Len(b.sheets) > 0)

\* The sheets up to the present one had a table, which holds them.
ImportOK(p) ==
  pc[p] \in Importing =>
    /\ at[p].sheet \in 1..Len(book[p].sheets) + 1
    /\ ~tainted => Plain(book[p])
    /\ \A k \in 1..at[p].sheet - 1 : book[p].sheets[k].name \in Table
    /\ pc[p] \in {"clear", "rows"} => at[p].sheet <= Len(book[p].sheets)
    /\ pc[p] = "rows" => at[p].row \in 1..Len(CurrentSheet(p).rows) /\ CurrentSheet(p).name \in Table
    /\ pc[p] = "close" => at[p].sheet = Len(book[p].sheets) + 1

PrefixOK(p) ==
  pc[p] \in Importing /\ ~disturbed[p] =>
    /\ \A k \in 1..at[p].sheet - 1 : Holds(db, book[p].sheets[k], Len(book[p].sheets[k].rows))
    /\ pc[p] = "rows" => Holds(db, CurrentSheet(p), at[p].row - 1)
    /\ \A t \in Table :
         (\A k \in 1..Len(book[p].sheets) : book[p].sheets[k].name # t) => db[t] = before[p][t]

\* The sheets that are drawn are those of the first tables; while there are
\* tables left nobody has written since the export began.
ExportOK(p) ==
  pc[p] \in Exporting =>
    /\ pc[p] = "sheets" =>
         /\ at[p].sheet \in 1..Len(TableOrder) /\ Len(book[p].sheets) = at[p].sheet - 1
         /\ before[p] = db
    /\ pc[p] = "save" => Len(book[p].sheets) = Len(TableOrder)
    /\ \A k \in 1..Len(book[p].sheets) :
         /\ book[p].sheets[k].name = TableOrder[k]
         /\ SheetRows(book[p].sheets[k], Len(book[p].sheets[k].rows))
              = {Shown(TableOrder[k], row) : row \in before[p][TableOrder[k]]}

CallOK(p) == BookOK(book[p]) /\ ImportOK(p) /\ PrefixOK(p) /\ ExportOK(p)

Inv ==
  /\ Flat
  /\ \A t \in Table : TableOK(t)
  /\ ExcelOK(excel)
  /\ \A p \in Program : CallOK(p)

\* The invariant has the properties as parts.
LEMMA InvImplies ==
  ASSUME Inv
  PROVE  TypeOK /\ ImportIsPrefix /\ ExportIsSnapshot /\ NumbersStayNumbers
<1>1. Flat /\ (\A t \in Table : TableOK(t)) /\ ExcelOK(excel) /\ \A p \in Program : CallOK(p)
  BY DEF Inv
<1>2. \A p \in Program : book[p] \in BookType /\ Len(book[p].sheets) \in Nat /\ at[p].sheet \in Nat
  BY <1>1 DEF Flat, BookType
<1>3. TypeOK
  <2>1. \A p \in Program : pc[p] \in {"clear", "rows"} =>
          /\ at[p].sheet \in 1..Len(book[p].sheets)
          /\ pc[p] = "rows" => at[p].row \in 1..Len(CurrentSheet(p).rows)
    BY <1>1, <1>2 DEF CallOK, ImportOK, Importing
  <2>2. \A p \in Program : pc[p] = "sheets" => at[p].sheet \in 1..Len(TableOrder)
    BY <1>1 DEF CallOK, ExportOK, Exporting
  <2> QED
    BY <1>1, <2>1, <2>2 DEF TypeOK, Flat, TableOK, ExcelOK
<1>4. ImportIsPrefix
  <2>1. ASSUME NEW p \in Program, pc[p] = "close"
        PROVE  at[p].sheet > Len(book[p].sheets)
    BY <1>1, <1>2, <2>1 DEF CallOK, ImportOK, Importing
  <2>2. \A p \in Program : PrefixOK(p)
    BY <1>1 DEF CallOK
  <2> QED
    BY <2>1, <2>2 DEF ImportIsPrefix, PrefixOK
<1>5. ExportIsSnapshot
  BY <1>1 DEF ExportIsSnapshot, CallOK, ExportOK
<1>6. NumbersStayNumbers
  BY <1>1 DEF NumbersStayNumbers, TableOK
<1> QED
  BY <1>3, <1>4, <1>5, <1>6

\* A book without sheets.
LEMMA NoBookOK == NoBook \in BookType /\ BookOK(NoBook) /\ ExcelOK(NoBook)
<1>1. NoBook \in BookType /\ Len(NoBook.sheets) = 0
  BY DEF NoBook, BookType
<1> QED
  BY <1>1 DEF BookOK, ExcelOK

\* The invariant holds of the initial states.
LEMMA InitInv ==
  ASSUME Init
  PROVE  Inv
<1>1. Flat
  BY NoBookOK DEF Init, Flat, NoRows, NoPlace
<1>2. \A t \in Table : TableOK(t)
  BY FS_EmptySet DEF Init, TableOK, NoRows
<1>3. ExcelOK(excel)
  BY NoBookOK DEF Init
<1>4. ASSUME NEW p \in Program
      PROVE  CallOK(p)
  BY NoBookOK DEF Init, CallOK, ImportOK, PrefixOK, ExportOK, Importing, Exporting
<1> QED
  BY <1>1, <1>2, <1>3, <1>4 DEF Inv

\* Whoever is in a call keeps its part of the invariant while another program
\* takes a step: either the tables stay as they are, or it is noted that they
\* do not, and then it is in no export's query.
LEMMA OtherCall ==
  ASSUME Inv, NEW q \in Program,
         pc'[q] = pc[q], at'[q] = at[q], book'[q] = book[q], before'[q] = before[q],
         tainted => tainted',
         \/ db' = db /\ disturbed'[q] = disturbed[q]
         \/ pc[q] # "sheets" /\ (disturbed'[q] \/ pc[q] = "idle")
  PROVE  CallOK(q)'
<1>1. CallOK(q)
  BY DEF Inv
<1>2. BookOK(book[q])'
  BY <1>1 DEF CallOK
<1>3. ImportOK(q)'
  BY <1>1 DEF CallOK, ImportOK, CurrentSheet, Plain
<1>4. PrefixOK(q)'
  BY <1>1 DEF CallOK, PrefixOK, CurrentSheet, Importing
<1>5. ExportOK(q)'
  BY <1>1 DEF CallOK, ExportOK
<1> QED
  BY <1>2, <1>3, <1>4, <1>5 DEF CallOK

\* The end of a call, whichever way it ends, keeps the invariant: nothing is
\* said of a call that is over.
LEMMA EndKeepsInv ==
  ASSUME Inv, NEW p \in Program, End(p), db' = db, tainted' = tainted, ExcelOK(excel'),
         conn' \in [Program -> BOOLEAN], faulted' \in [Program -> BOOLEAN]
  PROVE  Inv'
<1>1. Flat'
  BY NoBookOK DEF Inv, Flat, End, Leave, NoPlace, NoRows
<1>2. \A t \in Table : TableOK(t)'
  BY DEF Inv, TableOK
<1>3. CallOK(p)'
  <2>1. pc'[p] = "idle" /\ book'[p] = NoBook
    BY DEF Inv, Flat, End, Leave
  <2> QED
    BY <2>1, NoBookOK DEF CallOK, ImportOK, PrefixOK, ExportOK, Importing, Exporting
<1>4. ASSUME NEW q \in Program, q # p
      PROVE  CallOK(q)'
  <2>1. /\ pc'[q] = pc[q] /\ at'[q] = at[q] /\ book'[q] = book[q] /\ before'[q] = before[q]
        /\ disturbed'[q] = disturbed[q]
    BY <1>4 DEF Inv, Flat, End, Leave
  <2> QED
    BY <2>1, OtherCall
<1> QED
  BY <1>1, <1>2, <1>3, <1>4 DEF Inv

\* A write by a program between two calls keeps the invariant when the table
\* written to does: no export's query is open, and imports take note.
LEMMA WriteKeepsInv ==
  ASSUME Inv, NEW p \in Program, pc[p] = "idle", NEW t \in Table, NEW S \in SUBSET Row(t),
         IsFiniteSet(S), ~tainted => \A r \in S : ~Alien(t, r),
         db' = [db EXCEPT ![t] = S], Writes(p), Disturb(p),
         UNCHANGED <<excel, pc, conn, book, at, before, tainted, faulted>>
  PROVE  Inv'
<1>1. Flat'
  BY DEF Inv, Flat, Disturb, AnyRow
<1>2. \A u \in Table : TableOK(u)'
  BY DEF Inv, Flat, TableOK
<1>3. ExcelOK(excel)'
  BY DEF Inv
<1>4. ASSUME NEW q \in Program
      PROVE  CallOK(q)'
  <2>1. pc[q] # "sheets" /\ (disturbed'[q] \/ pc[q] = "idle")
    BY DEF Inv, Flat, Writes, Locked, Disturb
  <2> QED
    BY <2>1, OtherCall
<1> QED
  BY <1>1, <1>2, <1>3, <1>4 DEF Inv

-----------------------------------------------------------------------------
(***************************************************************************)
(* The steps of an import.                                                 *)
(***************************************************************************)

\* The present sheet of an import, and where the import is.
LEMMA PresentSheet ==
  ASSUME Inv, NEW p \in Program, pc[p] \in {"clear", "rows"}
  PROVE  /\ at[p].sheet \in 1..Len(book[p].sheets)
         /\ Len(book[p].sheets) \in Nat
         /\ CurrentSheet(p) \in Sheet
         /\ SheetOK(CurrentSheet(p))
         /\ Len(CurrentSheet(p).rows) \in Nat
         /\ ~tainted => /\ HeaderKnown(CurrentSheet(p)) /\ NumbersInPlace(CurrentSheet(p))
                        /\ NoRowSpills(CurrentSheet(p))
<1>1. CallOK(p) /\ book[p] \in BookType /\ at[p] \in [sheet : Nat, row : Nat]
  BY DEF Inv, Flat
<1>2. book[p].sheets \in Seq(Sheet) /\ Len(book[p].sheets) \in Nat
  BY <1>1 DEF BookType
<1>3. at[p].sheet \in 1..Len(book[p].sheets)
  BY <1>1, <1>2 DEF CallOK, ImportOK, Importing
<1>4. CurrentSheet(p) \in Sheet
  BY <1>2, <1>3 DEF CurrentSheet
<1>5. SheetOK(CurrentSheet(p))
  BY <1>1, <1>3 DEF CallOK, BookOK, CurrentSheet
<1>6. Len(CurrentSheet(p).rows) \in Nat
  BY <1>4 DEF Sheet
<1>7. ~tainted => /\ HeaderKnown(CurrentSheet(p)) /\ NumbersInPlace(CurrentSheet(p))
                   /\ NoRowSpills(CurrentSheet(p))
  BY <1>1, <1>3 DEF CallOK, ImportOK, Importing, Plain, CurrentSheet
<1> QED
  BY <1>2, <1>3, <1>4, <1>5, <1>6, <1>7

\* An import goes on at the row `row` of its present sheet or, after the last
\* one, at the next sheet, and after that closes (DatabaseHandler.cpp:65-131).
LEMMA ContinueMoves ==
  ASSUME Inv, NEW p \in Program, pc[p] \in {"clear", "rows"}, CurrentSheet(p).name \in Table,
         NEW row \in 1..Len(CurrentSheet(p).rows) + 1, Continue(p, row), UNCHANGED tainted
  PROVE  /\ pc' \in [Program -> {"idle"} \cup Importing \cup Exporting]
         /\ at' \in [Program -> [sheet : Nat, row : Nat]]
         /\ UNCHANGED <<conn, book, before, faulted>>
         /\ \A q \in Program \ {p} : pc'[q] = pc[q] /\ at'[q] = at[q]
         /\ \/ /\ row <= Len(CurrentSheet(p).rows) /\ pc'[p] = "rows"
               /\ at'[p].sheet = at[p].sheet /\ at'[p].row = row
            \/ /\ row = Len(CurrentSheet(p).rows) + 1 /\ pc'[p] \in {"clear", "close"}
               /\ at'[p].sheet = at[p].sheet + 1
         /\ ImportOK(p)' /\ ExportOK(p)'
<1> DEFINE s == CurrentSheet(p)
           k == at[p].sheet
<1>1. /\ k \in 1..Len(book[p].sheets) /\ Len(book[p].sheets) \in Nat
      /\ s \in Sheet /\ Len(s.rows) \in Nat
  BY PresentSheet
<1>2. Flat /\ CallOK(p) /\ pc[p] \in Importing
  BY DEF Inv, Importing
<1>3. /\ UNCHANGED <<conn, book, before, faulted>>
      /\ \/ /\ row <= Len(s.rows) /\ pc' = [pc EXCEPT ![p] = "rows"]
            /\ at' = [at EXCEPT ![p] = [sheet |-> k, row |-> row]]
         \/ /\ row > Len(s.rows) /\ k < Len(book[p].sheets) /\ pc' = [pc EXCEPT ![p] = "clear"]
            /\ at' = [at EXCEPT ![p] = [sheet |-> k + 1, row |-> 1]]
         \/ /\ row > Len(s.rows) /\ k = Len(book[p].sheets) /\ pc' = [pc EXCEPT ![p] = "close"]
            /\ at' = [at EXCEPT ![p] = [sheet |-> k + 1, row |-> 1]]
  BY <1>1 DEF Continue, Goto
<1>4. row \in Nat /\ row > 0 /\ k \in Nat
  BY <1>1
<1>5. pc' \in [Program -> {"idle"} \cup Importing \cup Exporting]
  BY <1>2, <1>3 DEF Flat, Importing, Exporting
<1>6. at' \in [Program -> [sheet : Nat, row : Nat]]
  <2>1. [sheet |-> k, row |-> row] \in [sheet : Nat, row : Nat]
        /\ [sheet |-> k + 1, row |-> 1] \in [sheet : Nat, row : Nat]
    BY <1>4
  <2>2. \E v \in [sheet : Nat, row : Nat] : at' = [at EXCEPT ![p] = v]
    BY <1>3, <2>1
  <2> QED
    BY <1>2, <2>2 DEF Flat
<1>7. \A q \in Program \ {p} : pc'[q] = pc[q] /\ at'[q] = at[q]
  BY <1>2, <1>3 DEF Flat
<1>9. book'[p] = book[p] /\ tainted' = tainted
  BY <1>3
<1>10. \/ row <= Len(s.rows) /\ pc'[p] = "rows" /\ at'[p].sheet = k /\ at'[p].row = row
       \/ /\ row = Len(s.rows) + 1 /\ k < Len(book[p].sheets) /\ pc'[p] = "clear"
          /\ at'[p].sheet = k + 1
       \/ /\ row = Len(s.rows) + 1 /\ k = Len(book[p].sheets) /\ pc'[p] = "close"
          /\ at'[p].sheet = k + 1
  <2>1. p \in DOMAIN pc /\ p \in DOMAIN at
    BY <1>2 DEF Flat
  <2>2. CASE row <= Len(s.rows) /\ pc' = [pc EXCEPT ![p] = "rows"]
             /\ at' = [at EXCEPT ![p] = [sheet |-> k, row |-> row]]
    BY <2>1, <2>2
  <2>3. CASE /\ row > Len(s.rows) /\ k < Len(book[p].sheets) /\ pc' = [pc EXCEPT ![p] = "clear"]
             /\ at' = [at EXCEPT ![p] = [sheet |-> k + 1, row |-> 1]]
    BY <1>1, <2>1, <2>3
  <2>4. CASE /\ row > Len(s.rows) /\ k = Len(book[p].sheets) /\ pc' = [pc EXCEPT ![p] = "close"]
             /\ at' = [at EXCEPT ![p] = [sheet |-> k + 1, row |-> 1]]
    BY <1>1, <2>1, <2>4
  <2> QED
    BY <1>3, <2>2, <2>3, <2>4
<1>11. ImportOK(p)'
  <2>1. /\ ~tainted => Plain(book[p])
        /\ \A j \in 1..k - 1 : book[p].sheets[j].name \in Table
    BY <1>2 DEF CallOK, ImportOK
  <2>2. \A j \in 1..k : book[p].sheets[j].name \in Table
    BY <1>1, <2>1 DEF CurrentSheet
  <2>3. pc'[p] = "rows" => CurrentSheet(p)' = s
    BY <1>9, <1>10 DEF CurrentSheet
  <2>4. (~tainted => Plain(book[p]))'
    BY <1>9, <2>1 DEF Plain
  <2>5. at'[p].sheet \in 1..Len(book[p].sheets) + 1 /\ at'[p].sheet - 1 <= k
    <3> DEFINE n == Len(book[p].sheets)
    <3>1. n \in Nat /\ k \in 1..n
      BY <1>1
    <3>2. at'[p].sheet = k \/ at'[p].sheet = k + 1
      BY <1>10
    <3> HIDE DEF n, k
    <3>3. at'[p].sheet \in 1..n + 1 /\ at'[p].sheet - 1 <= k
      BY <3>1, <3>2
    <3> QED
      BY <3>3 DEF n, k
  <2>6. \A j \in 1..at'[p].sheet - 1 : book'[p].sheets[j].name \in Table
    BY <1>4, <1>9, <2>2, <2>5
  <2>7. (pc[p] \in {"clear", "rows"} => at[p].sheet <= Len(book[p].sheets))'
    BY <1>1, <1>9, <1>10
  <2>8. (pc[p] = "close" => at[p].sheet = Len(book[p].sheets) + 1)'
    BY <1>9, <1>10
  <2>9. (pc[p] = "rows" => at[p].row \in 1..Len(CurrentSheet(p).rows) /\ CurrentSheet(p).name \in Table)'
    <3>1. ASSUME pc'[p] = "rows"
          PROVE  row <= Len(s.rows) /\ at'[p].row = row
      BY <1>10, <3>1
    <3> QED
      BY <1>1, <1>4, <2>3, <3>1
  <2> QED
    BY <1>9, <2>4, <2>5, <2>6, <2>7, <2>8, <2>9 DEF ImportOK
<1>12. ExportOK(p)'
  BY <1>10 DEF ExportOK, Exporting
<1> HIDE DEF s, k
<1>13. \/ row <= Len(s.rows) /\ pc'[p] = "rows" /\ at'[p].sheet = k /\ at'[p].row = row
       \/ row = Len(s.rows) + 1 /\ pc'[p] \in {"clear", "close"} /\ at'[p].sheet = k + 1
  BY <1>10
<1> QED
  BY <1>3, <1>5, <1>6, <1>7, <1>11, <1>12, <1>13 DEF s, k

\* After a statement on the table of its present sheet an import goes on: the
\* table then holds the sheet up to the row before the next one
\* (DatabaseHandler.cpp:65-129).
LEMMA AdvanceKeepsInv ==
  ASSUME Inv, NEW p \in Program, pc[p] \in {"clear", "rows"},
         NEW t \in Table, t = CurrentSheet(p).name,
         NEW row \in 1..Len(CurrentSheet(p).rows) + 1,
         NEW S \in SUBSET Row(t), IsFiniteSet(S), ~tainted => \A r \in S : ~Alien(t, r),
         HeaderKnown(CurrentSheet(p)) /\ ~disturbed[p] => S = ReadRows(CurrentSheet(p), row - 1),
         db' = [db EXCEPT ![t] = S], Writes(p), Disturb(p), Continue(p, row),
         UNCHANGED <<excel, tainted>>
  PROVE  Inv'
<1> DEFINE s == CurrentSheet(p)
           k == at[p].sheet
<1>1. /\ k \in 1..Len(book[p].sheets) /\ Len(book[p].sheets) \in Nat
      /\ s \in Sheet /\ Len(s.rows) \in Nat
  BY PresentSheet
<1>2. /\ Flat /\ CallOK(p) /\ pc[p] \in Importing
      /\ \A u \in Table : TableOK(u)
  BY DEF Inv, Importing
<1>3. /\ pc' \in [Program -> {"idle"} \cup Importing \cup Exporting]
      /\ at' \in [Program -> [sheet : Nat, row : Nat]]
      /\ UNCHANGED <<conn, book, before, faulted>>
      /\ \A q \in Program \ {p} : pc'[q] = pc[q] /\ at'[q] = at[q]
  BY ContinueMoves
<1>4. row \in Nat /\ row > 0 /\ k \in Nat
  BY <1>1
<1>5. Flat'
  <2>1. db' \in [Table -> SUBSET AnyRow]
    BY <1>2 DEF Flat, AnyRow
  <2>2. disturbed' \in [Program -> BOOLEAN]
    BY <1>2 DEF Flat, Disturb
  <2> QED
    BY <1>2, <1>3, <2>1, <2>2 DEF Flat
<1>6. \A u \in Table : TableOK(u)'
  BY <1>2 DEF Flat, TableOK
<1>7. ExcelOK(excel)'
  BY DEF Inv
<1>8. ASSUME NEW q \in Program, q # p
      PROVE  CallOK(q)'
  <2>1. pc'[q] = pc[q] /\ at'[q] = at[q] /\ book'[q] = book[q] /\ before'[q] = before[q]
    BY <1>3, <1>8
  <2>2. pc[q] # "sheets" /\ (disturbed'[q] \/ pc[q] = "idle")
    BY <1>2, <1>8 DEF Flat, Writes, Locked, Disturb
  <2> QED
    BY <2>1, <2>2, OtherCall
<1>9. /\ book'[p] = book[p] /\ before'[p] = before[p] /\ disturbed'[p] = disturbed[p]
      /\ db'[t] = S /\ \A u \in Table : u # t => db'[u] = db[u]
      /\ tainted' = tainted
  BY <1>2, <1>3 DEF Flat, Disturb
<1>10. \/ row <= Len(s.rows) /\ pc'[p] = "rows" /\ at'[p].sheet = k /\ at'[p].row = row
       \/ row = Len(s.rows) + 1 /\ pc'[p] \in {"clear", "close"} /\ at'[p].sheet = k + 1
  BY ContinueMoves
<1>11. ImportOK(p)' /\ ExportOK(p)'
  BY ContinueMoves
<1>12. PrefixOK(p)'
  <2> SUFFICES ASSUME ~disturbed[p]
               PROVE  /\ (\A j \in 1..at[p].sheet - 1 :
                             Holds(db, book[p].sheets[j], Len(book[p].sheets[j].rows)))'
                      /\ (pc[p] = "rows" => Holds(db, CurrentSheet(p), at[p].row - 1))'
                      /\ (\A u \in Table :
                            (\A j \in 1..Len(book[p].sheets) : book[p].sheets[j].name # u)
                              => db[u] = before[p][u])'
    BY <1>9 DEF PrefixOK
  <2>1. /\ \A j \in 1..k - 1 : Holds(db, book[p].sheets[j], Len(book[p].sheets[j].rows))
        /\ \A j \in 1..k - 1 : book[p].sheets[j].name \in Table
        /\ \A u \in Table :
              (\A j \in 1..Len(book[p].sheets) : book[p].sheets[j].name # u) => db[u] = before[p][u]
    BY <1>2 DEF CallOK, PrefixOK, ImportOK
  <2>2. \A j \in 1..k - 1 : book[p].sheets[j].name # t
    <3>1. ASSUME NEW j \in 1..k - 1
          PROVE  j \in 1..Len(book[p].sheets) /\ j # k
      BY <1>1
    <3> QED
      BY <1>1, <1>2, <3>1 DEF CallOK, BookOK, CurrentSheet
  <2>3. \A j \in 1..k - 1 : Holds(db', book[p].sheets[j], Len(book[p].sheets[j].rows))
    BY <1>9, <2>1, <2>2 DEF Holds
  <2>4. Holds(db', s, row - 1)
    BY <1>9 DEF Holds, ReadRows
  <2>5. \A u \in Table : (\A j \in 1..Len(book[p].sheets) : book[p].sheets[j].name # u) => u # t
    BY <1>1 DEF CurrentSheet
  <2>6. ASSUME at'[p].sheet = k + 1
        PROVE  Holds(db', book[p].sheets[k], Len(book[p].sheets[k].rows))
    <3>1. row - 1 = Len(s.rows)
      BY <1>1, <1>4, <1>10, <2>6
    <3> QED
      BY <2>4, <3>1 DEF CurrentSheet
  <2>7. ASSUME NEW j \in 1..at'[p].sheet - 1
        PROVE  j \in 1..k - 1 \/ (j = k /\ at'[p].sheet = k + 1)
    BY <1>4, <1>10
  <2>8. \A j \in 1..at'[p].sheet - 1 : Holds(db', book[p].sheets[j], Len(book[p].sheets[j].rows))
    BY <2>3, <2>6, <2>7
  <2>9. (\A j \in 1..at[p].sheet - 1 :
           Holds(db, book[p].sheets[j], Len(book[p].sheets[j].rows)))'
    BY <1>9, <2>8 DEF Holds
  <2>10. (pc[p] = "rows" => Holds(db, CurrentSheet(p), at[p].row - 1))'
    <3>1. pc'[p] = "rows" => CurrentSheet(p)' = s /\ at'[p].row = row
      BY <1>9, <1>10 DEF CurrentSheet
    <3> HIDE DEF s
    <3> QED
      BY <2>4, <3>1
  <2>11. (\A u \in Table :
            (\A j \in 1..Len(book[p].sheets) : book[p].sheets[j].name # u) => db[u] = before[p][u])'
    BY <1>9, <2>1, <2>5
  <2> QED
    BY <2>9, <2>10, <2>11
<1>13. CallOK(p)'
  BY <1>2, <1>9, <1>11, <1>12 DEF CallOK
<1> QED
  BY <1>5, <1>6, <1>7, <1>8, <1>13 DEF Inv

\* A row that runs as SQL: an odd workbook is being imported, and the call is
\* noted as disturbed (DatabaseHandler.cpp:119-127).
LEMMA SpillKeepsInv ==
  ASSUME Inv, NEW p \in Program, pc[p] = "rows", Spill(p), UNCHANGED <<excel, tainted>>
  PROVE  Inv'
<1> DEFINE s == CurrentSheet(p)
           n == at[p].row
<1>1. Flat /\ CallOK(p) /\ at[p] \in [sheet : Nat, row : Nat]
  BY DEF Inv, Flat
<1>2. n \in 1..Len(s.rows) /\ s.name \in Table
  BY <1>1 DEF CallOK, ImportOK, Importing
<1>3. Len(s.rows) \in Nat /\ (~tainted => NoRowSpills(s))
  BY PresentSheet
<1>4. tainted /\ tainted'
  BY <1>2, <1>3 DEF Spill, NextTexts, NoRowSpills
<1>5. db' \in [Table -> SUBSET AnyRow] /\ \A t \in Table : TableOK(t)'
  BY <1>4, AftermathAssumption DEF Spill, TableOK, AnyRow
<1>6. ASSUME NEW q \in Program \ {p}
      PROVE  pc[q] # "sheets"
  BY <1>6 DEF Spill, Writes, Locked
<1>7. CASE Continue(p, n + 1) /\ disturbed' = [q \in Program |-> disturbed[q] \/ pc[q] # "idle"]
  <2>1. n + 1 \in 1..Len(s.rows) + 1
    BY <1>2, <1>3
  <2>2. /\ pc' \in [Program -> {"idle"} \cup Importing \cup Exporting]
        /\ at' \in [Program -> [sheet : Nat, row : Nat]]
        /\ UNCHANGED <<conn, book, before, faulted>>
        /\ \A q \in Program \ {p} : pc'[q] = pc[q] /\ at'[q] = at[q]
        /\ ImportOK(p)' /\ ExportOK(p)'
    BY <1>2, <1>7, <2>1, ContinueMoves
  <2>3. disturbed'[p] /\ \A q \in Program \ {p} : disturbed'[q] \/ pc[q] = "idle"
    BY <1>1, <1>7 DEF Flat
  <2>4. disturbed' \in [Program -> BOOLEAN]
    BY <1>1, <1>7 DEF Flat
  <2>5. CallOK(p)'
    BY <1>1, <2>2, <2>3 DEF CallOK, PrefixOK
  <2>6. \A q \in Program \ {p} : CallOK(q)'
    BY <1>6, <2>2, <2>3, OtherCall
  <2>7. Flat'
    BY <1>1, <1>5, <2>2, <2>4 DEF Flat
  <2> QED
    BY <1>5, <2>5, <2>6, <2>7 DEF Inv
<1>8. CASE /\ Leave(p) /\ Fault(p)
           /\ disturbed' = [q \in Program |-> q # p /\ (disturbed[q] \/ pc[q] # "idle")]
  <2>1. pc'[p] = "idle" /\ book'[p] = NoBook
    BY <1>1, <1>8 DEF Leave, Flat
  <2>2. CallOK(p)'
    BY <2>1, NoBookOK DEF CallOK, ImportOK, PrefixOK, ExportOK, Importing, Exporting
  <2>3. \A q \in Program \ {p} :
          /\ pc'[q] = pc[q] /\ at'[q] = at[q] /\ book'[q] = book[q] /\ before'[q] = before[q]
          /\ disturbed'[q] \/ pc[q] = "idle"
    BY <1>1, <1>8 DEF Leave, Flat
  <2>4. \A q \in Program \ {p} : CallOK(q)'
    BY <1>6, <2>3, OtherCall
  <2>5. disturbed' \in [Program -> BOOLEAN]
    BY <1>1, <1>8 DEF Flat
  <2>6. Flat'
    BY <1>1, <1>5, <1>8, <2>5, NoBookOK DEF Flat, Leave, Fault, NoPlace, NoRows
  <2> QED
    BY <1>5, <2>2, <2>4, <2>6 DEF Inv
<1> QED
  BY <1>7, <1>8 DEF Spill

\* A step that leaves the tables as they are and does not untaint the file.
LEMMA TablesKept ==
  ASSUME Inv, db' = db, tainted => tainted'
  PROVE  \A t \in Table : TableOK(t)'
BY DEF Inv, TableOK

\* The begin of a call, or the one of its steps that touches nothing but its
\* own workbook, keeps what is said of the others.
LEMMA OthersKept ==
  ASSUME Inv, NEW p \in Program, db' = db, tainted => tainted',
         \A q \in Program \ {p} :
           /\ pc'[q] = pc[q] /\ at'[q] = at[q] /\ book'[q] = book[q] /\ before'[q] = before[q]
           /\ disturbed'[q] = disturbed[q]
  PROVE  \A q \in Program \ {p} : CallOK(q)'
BY OtherCall

\* importFromExcel's start (DatabaseHandler.cpp:38-60).
LEMMA ImportFromExcelKeepsInv ==
  ASSUME Inv, NEW p \in Program, ImportFromExcel(p)
  PROVE  Inv'
<1>1. CASE (OpenFails(p) \/ LoadFails(p)) /\ UNCHANGED tainted
  <2>1. End(p) /\ conn' \in [Program -> BOOLEAN] /\ faulted' \in [Program -> BOOLEAN]
    BY <1>1 DEF OpenFails, LoadFails, Return, Inv, Flat
  <2> QED
    BY <1>1, <2>1, EndKeepsInv DEF Inv, ImportFromExcel
<1>2. CASE /\ excel # NoBook /\ Begin(p, "clear", excel)
           /\ before' = [before EXCEPT ![p] = Others(excel)]
           /\ tainted' = (tainted \/ ~Plain(excel))
  <2>1. Flat /\ ExcelOK(excel) /\ db' = db /\ excel' = excel
    BY DEF Inv, ImportFromExcel
  <2>2. Others(excel) \in [Table -> SUBSET AnyRow]
    BY <2>1 DEF Others, Flat
  <2>3. Flat'
    <3>1. pc' \in [Program -> {"idle"} \cup Importing \cup Exporting]
      BY <1>2, <2>1 DEF Begin, Flat, Importing
    <3>2. before' \in [Program -> [Table -> SUBSET AnyRow]]
      BY <1>2, <2>1, <2>2 DEF Flat
    <3>3. book' \in [Program -> BookType] /\ at' \in [Program -> [sheet : Nat, row : Nat]]
      BY <1>2, <2>1 DEF Begin, Flat, ExcelOK, NoPlace
    <3>4. conn' \in [Program -> BOOLEAN] /\ disturbed' \in [Program -> BOOLEAN] /\ tainted' \in BOOLEAN
      BY <1>2, <2>1 DEF Begin, Flat
    <3> QED
      BY <1>2, <2>1, <3>1, <3>2, <3>3, <3>4 DEF Begin, Flat
  <2>4. /\ pc'[p] = "clear" /\ at'[p].sheet = 1 /\ book'[p] = excel /\ before'[p] = Others(excel)
        /\ Len(excel.sheets) \in Nat /\ Len(excel.sheets) > 0
    BY <1>2, <2>1 DEF Begin, Flat, NoPlace, ExcelOK, BookType
  <2>5. ImportOK(p)'
    <3>1. (~tainted => Plain(book[p]))'
      BY <1>2, <2>4 DEF Plain
    <3>2. at'[p].sheet \in 1..Len(book'[p].sheets) + 1 /\ at'[p].sheet <= Len(book'[p].sheets)
      BY <2>4
    <3>3. 1..at'[p].sheet - 1 = {}
      BY <2>4
    <3> QED
      BY <2>4, <3>1, <3>2, <3>3 DEF ImportOK
  <2>6. PrefixOK(p)'
    BY <2>1, <2>4 DEF PrefixOK, Others
  <2>7. CallOK(p)'
    BY <2>1, <2>4, <2>5, <2>6 DEF CallOK, ExportOK, ExcelOK, Exporting
  <2>8. \A q \in Program \ {p} : CallOK(q)'
    BY <1>2, <2>1, OthersKept DEF Begin, Flat
  <2>9. (\A t \in Table : TableOK(t)') /\ ExcelOK(excel)'
    BY <1>2, <2>1, TablesKept
  <2> QED
    BY <2>3, <2>7, <2>8, <2>9 DEF Inv
<1> QED
  BY <1>1, <1>2 DEF ImportFromExcel

\* An exception ends the call.
LEMMA ThrowKeepsInv ==
  ASSUME Inv, NEW p \in Program, Throw(p), UNCHANGED <<db, excel, tainted>>
  PROVE  Inv'
<1>1. End(p) /\ conn' \in [Program -> BOOLEAN] /\ faulted' \in [Program -> BOOLEAN]
  BY DEF Throw, Fault, Inv, Flat
<1> QED
  BY <1>1, EndKeepsInv DEF Inv

\* A return, too.
LEMMA ReturnKeepsInv ==
  ASSUME Inv, NEW p \in Program, Return(p), UNCHANGED <<db, tainted>>, ExcelOK(excel')
  PROVE  Inv'
<1>1. End(p) /\ conn' \in [Program -> BOOLEAN] /\ faulted' \in [Program -> BOOLEAN]
  BY DEF Return, Inv, Flat
<1> QED
  BY <1>1, EndKeepsInv

\* DELETE (DatabaseHandler.cpp:72-74).
LEMMA ClearKeepsInv ==
  ASSUME Inv, NEW p \in Program, Clear(p)
  PROVE  Inv'
<1>1. CASE Throw(p) /\ UNCHANGED <<db, excel, tainted>>
  BY <1>1, ThrowKeepsInv
<1>2. CASE /\ CurrentSheet(p).name \in Table /\ Writes(p)
           /\ db' = [db EXCEPT ![CurrentSheet(p).name] = {}]
           /\ Disturb(p) /\ Continue(p, 1)
  <2>1. 1 \in 1..Len(CurrentSheet(p).rows) + 1
    BY PresentSheet DEF Clear
  <2>2. {} = ReadRows(CurrentSheet(p), 1 - 1)
    BY ReadRowsNone
  <2> QED
    BY <1>2, <2>1, <2>2, FS_EmptySet, AdvanceKeepsInv DEF Clear
<1> QED
  BY <1>1, <1>2 DEF Clear

\* INSERT (DatabaseHandler.cpp:103-127).
LEMMA InsertRowKeepsInv ==
  ASSUME Inv, NEW p \in Program, InsertRow(p)
  PROVE  Inv'
<1>1. CASE Throw(p) /\ UNCHANGED <<db, excel, tainted>>
  BY <1>1, ThrowKeepsInv
<1>2. CASE /\ Writes(p) /\ Disturb(p) /\ Continue(p, at[p].row + 1)
           /\ db' = [db EXCEPT ![CurrentSheet(p).name] = @ \cup {NextRow(p)}]
  <2> DEFINE s == CurrentSheet(p)
             n == at[p].row
             t == s.name
  <2>1. /\ s \in Sheet /\ SheetOK(s) /\ Len(s.rows) \in Nat
        /\ ~tainted => HeaderKnown(s) /\ NumbersInPlace(s)
    BY PresentSheet DEF InsertRow
  <2>2. /\ CallOK(p) /\ pc[p] = "rows" /\ at[p] \in [sheet : Nat, row : Nat]
        /\ Flat /\ \A u \in Table : TableOK(u)
    BY DEF Inv, InsertRow, Flat
  <2>3. n \in 1..Len(s.rows) /\ t \in Table
    BY <2>2 DEF CallOK, ImportOK, Importing
  <2>4. NextRow(p) = StoredRow(s, s.rows[n])
    BY DEF NextRow
  <2>5. db[t] \cup {NextRow(p)} \in SUBSET Row(t)
    BY <2>1, <2>2, <2>3, <2>4, StoredRowType DEF TableOK
  <2>6. IsFiniteSet(db[t] \cup {NextRow(p)})
    BY <2>2, <2>3, FS_AddElement DEF TableOK
  <2>7. ~tainted => \A r \in db[t] \cup {NextRow(p)} : ~Alien(t, r)
    BY <2>1, <2>2, <2>3, <2>4, StoredRowPlain DEF TableOK
  <2>8. HeaderKnown(s) /\ ~disturbed[p] => db[t] \cup {NextRow(p)} = ReadRows(s, (n + 1) - 1)
    <3>1. ASSUME HeaderKnown(s), ~disturbed[p]
          PROVE  db[t] = ReadRows(s, n - 1)
      BY <2>2, <3>1 DEF CallOK, PrefixOK, Holds, Importing, ReadRows
    <3>2. (n + 1) - 1 = n
      BY <2>1, <2>3
    <3> QED
      BY <2>1, <2>3, <2>4, <3>1, <3>2, ReadRowsStep
  <2>9. db' = [db EXCEPT ![t] = db[t] \cup {NextRow(p)}]
    BY <1>2
  <2>10. n + 1 \in 1..Len(s.rows) + 1
    BY <2>1, <2>3
  <2> HIDE DEF t
  <2> QED
    BY <1>2, <2>2, <2>3, <2>5, <2>6, <2>7, <2>8, <2>9, <2>10, AdvanceKeepsInv DEF InsertRow, t
<1>3. CASE Spill(p) /\ UNCHANGED <<excel, tainted>>
  BY <1>3, SpillKeepsInv DEF InsertRow
<1> QED
  BY <1>1, <1>2, <1>3 DEF InsertRow

\* The end of an import (DatabaseHandler.cpp:130-137).
LEMMA CloseKeepsInv ==
  ASSUME Inv, NEW p \in Program, Close(p)
  PROVE  Inv'
BY ReturnKeepsInv DEF Close, Inv

-----------------------------------------------------------------------------
(***************************************************************************)
(* The steps of an export.                                                 *)
(***************************************************************************)

\* exportToExcel's start (DatabaseHandler.cpp:140-211).
LEMMA ExportToExcelKeepsInv ==
  ASSUME Inv, NEW p \in Program, ExportToExcel(p)
  PROVE  Inv'
<1>1. CASE OpenFails(p)
  <2>1. End(p) /\ conn' \in [Program -> BOOLEAN] /\ faulted' \in [Program -> BOOLEAN]
    BY <1>1 DEF OpenFails, Inv, Flat
  <2> QED
    BY <2>1, EndKeepsInv DEF Inv, ExportToExcel
<1>2. CASE /\ Begin(p, "sheets", [own |-> TRUE, sheets |-> <<>>])
           /\ before' = [before EXCEPT ![p] = db]
  <2> DEFINE b == [own |-> TRUE, sheets |-> <<>>]
  <2>1. Flat /\ UNCHANGED <<db, excel, tainted>>
    BY DEF Inv, ExportToExcel
  <2>2. b \in BookType /\ b.sheets = <<>> /\ Len(b.sheets) = 0
    BY DEF BookType
  <2> HIDE DEF b
  <2>3. Flat'
    <3>1. pc' \in [Program -> {"idle"} \cup Importing \cup Exporting]
      BY <1>2, <2>1 DEF Begin, Flat, Exporting
    <3>2. before' \in [Program -> [Table -> SUBSET AnyRow]]
      BY <1>2, <2>1 DEF Flat
    <3>3. book' \in [Program -> BookType]
      BY <1>2, <2>1, <2>2 DEF Begin, Flat, b
    <3>4. at' \in [Program -> [sheet : Nat, row : Nat]]
      BY <1>2, <2>1 DEF Begin, Flat, NoPlace
    <3>5. conn' \in [Program -> BOOLEAN] /\ disturbed' \in [Program -> BOOLEAN]
      BY <1>2, <2>1 DEF Begin, Flat
    <3> QED
      BY <1>2, <2>1, <3>1, <3>2, <3>3, <3>4, <3>5 DEF Begin, Flat
  <2>4. pc'[p] = "sheets" /\ at'[p].sheet = 1 /\ before'[p] = db'
    BY <1>2, <2>1 DEF Begin, Flat, NoPlace
  <2>5. book'[p].sheets = <<>> /\ Len(book'[p].sheets) = 0
    BY <1>2, <2>1, <2>2 DEF Begin, Flat, b
  <2>6. CallOK(p)'
    <3>1. Len(TableOrder) \in Nat /\ Len(TableOrder) > 0
      BY TableAssumption
    <3>2. BookOK(book'[p])
      BY <2>5 DEF BookOK
    <3>3. ExportOK(p)'
      BY <2>4, <2>5, <3>1 DEF ExportOK
    <3> QED
      BY <2>4, <3>2, <3>3 DEF CallOK, ImportOK, PrefixOK, Importing
  <2>7. \A q \in Program \ {p} : CallOK(q)'
    BY <1>2, <2>1, OthersKept DEF Begin, Flat
  <2>8. (\A t \in Table : TableOK(t)') /\ ExcelOK(excel)'
    BY <2>1, TablesKept DEF Inv
  <2> QED
    BY <2>3, <2>6, <2>7, <2>8 DEF Inv
<1> QED
  BY <1>1, <1>2 DEF ExportToExcel

\* One table becomes one sheet (DatabaseHandler.cpp:212-262).
LEMMA WriteSheetKeepsInv ==
  ASSUME Inv, NEW p \in Program, WriteSheet(p)
  PROVE  Inv'
<1> DEFINE k == at[p].sheet
           t == TableOrder[k]
           old == book[p].sheets
<1>1. Flat /\ CallOK(p) /\ pc[p] = "sheets" /\ ExcelOK(excel) /\ UNCHANGED <<db, excel, tainted>>
  BY DEF Inv, WriteSheet
<1>2. CASE Return(p)
  BY <1>1, <1>2, ReturnKeepsInv
<1>3. CASE Throw(p)
  BY <1>1, <1>3, ThrowKeepsInv
<1>4. ASSUME NEW s \in Orders(db[t]), \A r \in db[t] : ~Alien(t, r),
             book' = [book EXCEPT ![p].sheets = Append(@, SheetOf(t, s))],
             pc' = [pc EXCEPT ![p] = IF k < Len(TableOrder) THEN "sheets" ELSE "save"],
             at' = [at EXCEPT ![p].sheet = @ + 1],
             UNCHANGED <<conn, before, disturbed, faulted>>
      PROVE  Inv'
  <2>1. /\ k \in 1..Len(TableOrder) /\ Len(old) = k - 1 /\ before[p] = db /\ BookOK(book[p])
        /\ \A j \in 1..Len(old) :
             /\ old[j].name = TableOrder[j]
             /\ SheetRows(old[j], Len(old[j].rows))
                  = {Shown(TableOrder[j], row) : row \in before[p][TableOrder[j]]}
    BY <1>1 DEF CallOK, ExportOK, Exporting
  <2>2. TableOrder \in Seq(Table) /\ Injective(TableOrder) /\ Len(TableOrder) \in Nat
    BY TableAssumption
  <2>3. t \in Table /\ TableOK(t) /\ k \in Nat
    BY <2>1, <2>2 DEF Inv
  <2>4. /\ SheetOf(t, s) \in Sheet /\ SheetOK(SheetOf(t, s)) /\ SheetOf(t, s).name = t
        /\ SheetRows(SheetOf(t, s), Len(SheetOf(t, s).rows)) = {Shown(t, row) : row \in db[t]}
    BY <1>4, <2>3, SheetOfTable DEF TableOK
  <2>5. book[p] \in BookType /\ old \in Seq(Sheet)
    BY <1>1 DEF Flat, BookType
  <2>6. /\ Append(old, SheetOf(t, s)) \in Seq(Sheet)
        /\ Len(Append(old, SheetOf(t, s))) = k
        /\ \A j \in 1..k - 1 : Append(old, SheetOf(t, s))[j] = old[j]
        /\ Append(old, SheetOf(t, s))[k] = SheetOf(t, s)
    BY <2>1, <2>3, <2>4, <2>5
  <2> DEFINE new == book'[p].sheets
  <2>7. book'[p] \in BookType /\ new = Append(old, SheetOf(t, s))
    <3>1. book'[p] = [book[p] EXCEPT !.sheets = Append(old, SheetOf(t, s))]
      BY <1>1, <1>4 DEF Flat
    <3> QED
      BY <2>5, <2>6, <3>1 DEF BookType
  <2>8. /\ Len(new) = k /\ new[k] = SheetOf(t, s)
        /\ \A j \in 1..k : j # k => j \in 1..Len(old) /\ new[j] = old[j]
    BY <2>1, <2>3, <2>6, <2>7
  <2> HIDE DEF new
  <2>9. \A j \in 1..k : /\ new[j].name = TableOrder[j] /\ SheetOK(new[j])
                         /\ SheetRows(new[j], Len(new[j].rows))
                              = {Shown(TableOrder[j], row) : row \in before[p][TableOrder[j]]}
    <3>1. before[p][t] = db[t]
      BY <2>1
    <3>2. /\ new[k].name = TableOrder[k] /\ SheetOK(new[k])
          /\ SheetRows(new[k], Len(new[k].rows))
               = {Shown(TableOrder[k], row) : row \in before[p][TableOrder[k]]}
      BY <2>4, <2>8, <3>1
    <3>3. ASSUME NEW j \in 1..k, j # k
          PROVE  /\ new[j].name = TableOrder[j] /\ SheetOK(new[j])
                 /\ SheetRows(new[j], Len(new[j].rows))
                      = {Shown(TableOrder[j], row) : row \in before[p][TableOrder[j]]}
      BY <2>1, <2>8, <3>3 DEF BookOK
    <3> QED
      BY <3>2, <3>3
  <2>10. BookOK(book'[p])
    <3>1. \A i, j \in 1..k : i \in 1..Len(TableOrder) /\ j \in 1..Len(TableOrder)
      BY <2>1, <2>2
    <3> QED
      BY <2>2, <2>8, <2>9, <3>1 DEF BookOK, Injective, new
  <2>11. /\ at'[p].sheet = k + 1 /\ pc'[p] = (IF k < Len(TableOrder) THEN "sheets" ELSE "save")
         /\ at'[p] \in [sheet : Nat, row : Nat]
    <3>1. at[p] \in [sheet : Nat, row : Nat] /\ at'[p] = [at[p] EXCEPT !.sheet = k + 1]
      BY <1>1, <1>4 DEF Flat
    <3>2. pc'[p] = IF k < Len(TableOrder) THEN "sheets" ELSE "save"
      BY <1>1, <1>4 DEF Flat
    <3> QED
      BY <2>3, <3>1, <3>2
  <2>12. ExportOK(p)'
    <3>1. pc'[p] = "sheets" => k + 1 \in 1..Len(TableOrder)
      BY <2>1, <2>2, <2>3, <2>11
    <3>2. pc'[p] = "save" => k = Len(TableOrder)
      BY <2>1, <2>2, <2>3, <2>11
    <3>3. Len(book'[p].sheets) = k /\ k = (k + 1) - 1
      BY <2>3, <2>8 DEF new
    <3>4. \A j \in 1..Len(book'[p].sheets) :
            /\ book'[p].sheets[j].name = TableOrder[j]
            /\ SheetRows(book'[p].sheets[j], Len(book'[p].sheets[j].rows))
                 = {Shown(TableOrder[j], row) : row \in before'[p][TableOrder[j]]}
      BY <1>4, <2>9, <3>3 DEF new
    <3>5. before'[p] = db'
      BY <1>1, <1>4, <2>1
    <3> QED
      BY <2>11, <3>1, <3>2, <3>3, <3>4, <3>5 DEF ExportOK
  <2>13. CallOK(p)'
    BY <2>10, <2>11, <2>12 DEF CallOK, ImportOK, PrefixOK, Importing
  <2>14. Flat'
    <3>1. pc' \in [Program -> {"idle"} \cup Importing \cup Exporting]
      BY <1>1, <1>4 DEF Flat, Exporting
    <3>2. book' \in [Program -> BookType]
      BY <1>1, <1>4, <2>7 DEF Flat
    <3>3. at' \in [Program -> [sheet : Nat, row : Nat]]
      BY <1>1, <1>4, <2>11 DEF Flat
    <3> QED
      BY <1>1, <1>4, <3>1, <3>2, <3>3 DEF Flat
  <2>15. \A q \in Program \ {p} : CallOK(q)'
    BY <1>1, <1>4, OthersKept DEF Flat
  <2>16. (\A u \in Table : TableOK(u)') /\ ExcelOK(excel)'
    BY <1>1, TablesKept
  <2> QED
    BY <2>13, <2>14, <2>15, <2>16 DEF Inv
<1> QED
  BY <1>2, <1>3, <1>4 DEF WriteSheet

\* The workbook in memory is one that can be loaded once it is saved.
LEMMA SavedIsExcelOK ==
  ASSUME Inv, NEW p \in Program, pc[p] = "save"
  PROVE  ExcelOK(book[p])
<1>1. book[p] \in BookType /\ CallOK(p)
  BY DEF Inv, Flat
<1>2. Len(book[p].sheets) = Len(TableOrder) /\ BookOK(book[p])
  BY <1>1 DEF CallOK, ExportOK, Exporting
<1> QED
  BY <1>1, <1>2, TableAssumption DEF ExcelOK

\* The save (DatabaseHandler.cpp:264-268).
LEMMA SaveBookKeepsInv ==
  ASSUME Inv, NEW p \in Program, SaveBook(p)
  PROVE  Inv'
<1>1. ExcelOK(excel')
  BY SavedIsExcelOK DEF SaveBook, Inv
<1> QED
  BY <1>1, ReturnKeepsInv DEF SaveBook

-----------------------------------------------------------------------------
(***************************************************************************)
(* What happens between calls, and deaths.                                 *)
(***************************************************************************)

\* clearTable (DatabaseHandler.cpp:31-36).
LEMMA ClearTableKeepsInv ==
  ASSUME Inv, NEW p \in Program, ClearTable(p)
  PROVE  Inv'
<1>1. CASE Exit(p) /\ UNCHANGED <<db, excel, tainted>>
  <2>1. End(p) /\ conn' \in [Program -> BOOLEAN] /\ faulted' \in [Program -> BOOLEAN]
    BY <1>1 DEF Exit, Inv, Flat
  <2> QED
    BY <1>1, <2>1, EndKeepsInv DEF Inv
<1>2. ASSUME NEW t \in Table, db' = [db EXCEPT ![t] = {}], pc[p] = "idle", Writes(p), Disturb(p),
             UNCHANGED <<excel, pc, conn, book, at, before, tainted, faulted>>
      PROVE  Inv'
  BY <1>2, FS_EmptySet, WriteKeepsInv
<1> QED
  BY <1>1, <1>2 DEF ClearTable

\* The entries of the form are rows with numbers where they belong.
LEMMA EntryIsRow ==
  ASSUME NEW r \in Entry
  PROVE  Students \in Table /\ r \in Row(Students) /\ ~Alien(Students, r)
BY EntryAssumption DEF Alien

\* insertStudent (main.cpp:277-288).
LEMMA InsertStudentKeepsInv ==
  ASSUME Inv, NEW p \in Program, InsertStudent(p)
  PROVE  Inv'
<1>1. PICK r \in Entry : db' = [db EXCEPT ![Students] = db[Students] \cup {r}]
  BY DEF InsertStudent
<1>2. Students \in Table /\ TableOK(Students) /\ r \in Row(Students) /\ ~Alien(Students, r)
  BY EntryIsRow DEF Inv
<1>3. /\ db[Students] \cup {r} \in SUBSET Row(Students) /\ IsFiniteSet(db[Students] \cup {r})
      /\ ~tainted => \A x \in db[Students] \cup {r} : ~Alien(Students, x)
  BY <1>2, FS_AddElement DEF TableOK
<1> QED
  BY <1>1, <1>2, <1>3, WriteKeepsInv DEF InsertStudent

\* deleteStudent (main.cpp:290-294).
LEMMA DeleteStudentKeepsInv ==
  ASSUME Inv, NEW p \in Program, DeleteStudent(p)
  PROVE  Inv'
<1>1. PICK r \in db[Students] : db' = [db EXCEPT ![Students] = db[Students] \ {r}]
  BY DEF DeleteStudent
<1>2. Students \in Table /\ TableOK(Students)
  BY EntryAssumption DEF Inv
<1>3. /\ db[Students] \ {r} \in SUBSET Row(Students) /\ IsFiniteSet(db[Students] \ {r})
      /\ ~tainted => \A x \in db[Students] \ {r} : ~Alien(Students, x)
  BY <1>2, FS_RemoveElement DEF TableOK
<1> QED
  BY <1>1, <1>2, <1>3, WriteKeepsInv DEF DeleteStudent

\* updateStudent (main.cpp:296-302).
LEMMA UpdateStudentKeepsInv ==
  ASSUME Inv, NEW p \in Program, UpdateStudent(p)
  PROVE  Inv'
<1>1. PICK r \in db[Students], e \in Entry : db' = [db EXCEPT ![Students] = (db[Students] \ {r}) \cup {e}]
  BY DEF UpdateStudent
<1>2. Students \in Table /\ TableOK(Students) /\ e \in Row(Students) /\ ~Alien(Students, e)
  BY EntryIsRow DEF Inv
<1>3. IsFiniteSet((db[Students] \ {r}) \cup {e})
  <2>1. IsFiniteSet(db[Students] \ {r})
    BY <1>2, FS_RemoveElement DEF TableOK
  <2> QED
    BY <2>1, FS_AddElement
<1>4. /\ (db[Students] \ {r}) \cup {e} \in SUBSET Row(Students)
      /\ ~tainted => \A x \in (db[Students] \ {r}) \cup {e} : ~Alien(Students, x)
  BY <1>2 DEF TableOK
<1> QED
  BY <1>1, <1>2, <1>3, <1>4, WriteKeepsInv DEF UpdateStudent

\* A death and a new start.
LEMMA RestartKeepsInv ==
  ASSUME Inv, NEW p \in Program, Restart(p)
  PROVE  Inv'
<1>1. End(p) /\ conn' \in [Program -> BOOLEAN] /\ faulted' \in [Program -> BOOLEAN]
  BY DEF Restart, Exit, Inv, Flat
<1>2. ExcelOK(excel')
  BY NoBookOK DEF Restart, Inv
<1> QED
  BY <1>1, <1>2, EndKeepsInv DEF Restart

\* A workbook of a user's is one that can be imported.
LEMMA UserBookOK ==
  ASSUME NEW b \in UserBook
  PROVE  ExcelOK(b)
<1>1. PICK s \in UserSheets : b = [own |-> FALSE, sheets |-> s]
  BY DEF UserBook
<1>2. /\ s \in Seq(Sheet) /\ Len(s) > 0 /\ Injective([k \in 1..Len(s) |-> s[k].name])
      /\ \A k \in 1..Len(s) :
           /\ Injective(s[k].header) /\ Len(s[k].header) > 0
           /\ \A n \in 1..Len(s[k].rows) : Len(s[k].rows[n]) = Len(s[k].header)
  BY UserAssumption
<1>3. b \in BookType /\ b.sheets = s
  BY <1>1, <1>2 DEF BookType
<1>4. \A j, k \in 1..Len(s) : s[j].name = s[k].name => j = k
  <2> DEFINE f == [k \in 1..Len(s) |-> s[k].name]
  <2>1. Len(s) \in Nat
    BY <1>2
  <2>2. Len(f) = Len(s)
    BY <2>1
  <2>3. \A j \in 1..Len(s) : f[j] = s[j].name
    OBVIOUS
  <2> QED
    BY <1>2, <2>2, <2>3 DEF Injective
<1> QED
  BY <1>2, <1>3, <1>4 DEF ExcelOK, BookOK, SheetOK

LEMMA PlaceBookKeepsInv ==
  ASSUME Inv, PlaceBook
  PROVE  Inv'
<1>1. ExcelOK(excel')
  BY UserBookOK DEF PlaceBook
<1>2. Flat'
  BY DEF Inv, Flat, PlaceBook
<1>3. \A t \in Table : TableOK(t)'
  BY TablesKept DEF PlaceBook
<1>4. \A q \in Program : CallOK(q)'
  BY OtherCall DEF PlaceBook
<1> QED
  BY <1>1, <1>2, <1>3, <1>4 DEF Inv

\* A step of nobody's.
LEMMA StutterKeepsInv ==
  ASSUME Inv, UNCHANGED vars
  PROVE  Inv'
<1>1. Flat' /\ ExcelOK(excel)'
  BY DEF Inv, Flat, vars
<1>2. \A t \in Table : TableOK(t)'
  BY TablesKept DEF vars
<1>3. \A q \in Program : CallOK(q)'
  BY OtherCall DEF vars
<1> QED
  BY <1>1, <1>2, <1>3 DEF Inv

-----------------------------------------------------------------------------
(***************************************************************************)
(* The theorems.                                                           *)
(***************************************************************************)
LEMMA NextKeepsInv == Inv /\ [Next]_vars => Inv'
<1> SUFFICES ASSUME Inv, [Next]_vars
             PROVE  Inv'
  OBVIOUS
<1>1. CASE UNCHANGED vars
  BY <1>1, StutterKeepsInv
<1>2. CASE PlaceBook
  BY <1>2, PlaceBookKeepsInv
<1>3. ASSUME NEW p \in Program,
             \/ ImportFromExcel(p) \/ Clear(p) \/ InsertRow(p) \/ Close(p)
             \/ ExportToExcel(p) \/ WriteSheet(p) \/ SaveBook(p)
      PROVE  Inv'
  BY <1>3, ImportFromExcelKeepsInv, ClearKeepsInv, InsertRowKeepsInv, CloseKeepsInv,
     ExportToExcelKeepsInv, WriteSheetKeepsInv, SaveBookKeepsInv
<1>4. ASSUME NEW p \in Program,
             \/ ClearTable(p) \/ InsertStudent(p) \/ DeleteStudent(p) \/ UpdateStudent(p)
             \/ Restart(p)
      PROVE  Inv'
  BY <1>4, ClearTableKeepsInv, InsertStudentKeepsInv, DeleteStudentKeepsInv,
     UpdateStudentKeepsInv, RestartKeepsInv
<1> QED
  BY <1>1, <1>2, <1>3, <1>4 DEF Next

THEOREM Invariance == Spec => []Inv
<1>1. Init => Inv
  BY InitInv
<1> QED
  BY <1>1, NextKeepsInv, PTL DEF Spec

\* Every variable keeps to its type and no call of importFromExcel or
\* exportToExcel goes past the end of a list.
THEOREM TypeCorrect == Spec => []TypeOK
<1>1. Inv => TypeOK
  BY InvImplies
<1> QED
  BY <1>1, Invariance, PTL

\* What is left of an import that fails (DatabaseHandler.cpp:62-135) is a
\* prefix of its workbook.
THEOREM ImportLeavesPrefix == Spec => []ImportIsPrefix
<1>1. Inv => ImportIsPrefix
  BY InvImplies
<1> QED
  BY <1>1, Invariance, PTL

\* An export (DatabaseHandler.cpp:211-265) is one state of the file.
THEOREM ExportTakesSnapshot == Spec => []ExportIsSnapshot
<1>1. Inv => ExportIsSnapshot
  BY InvImplies
<1> QED
  BY <1>1, Invariance, PTL

\* Without odd workbooks no export meets a text where it expects a number
\* (DatabaseHandler.cpp:238-243).
THEOREM NumbersStay == Spec => []NumbersStayNumbers
<1>1. Inv => NumbersStayNumbers
  BY InvImplies
<1> QED
  BY <1>1, Invariance, PTL

-----------------------------------------------------------------------------
(***************************************************************************)
(* The pointer to the connection.                                          *)
(***************************************************************************)
ConnInv ==
  /\ pc \in [Program -> {"idle"} \cup Importing \cup Exporting]
  /\ conn \in [Program -> BOOLEAN]
  /\ faulted \in [Program -> BOOLEAN]
  /\ PointerOnlyAfterFault

\* How a step may change what is known of the pointer: p's call goes on or
\* begins, ends with it cleared, ends with the fault noted, or nothing changes.
LEMMA ConnStep ==
  ASSUME ConnInv, NEW p \in Program, NEW c \in BOOLEAN, NEW f \in BOOLEAN,
         NEW l \in {"idle"} \cup Importing \cup Exporting,
         pc' = [pc EXCEPT ![p] = l], conn' = [conn EXCEPT ![p] = c],
         faulted' = [faulted EXCEPT ![p] = f],
         l # "idle" \/ ~c \/ f
  PROVE  ConnInv'
BY DEF ConnInv, PointerOnlyAfterFault

\* Between two calls database_ points to a connection only after one that threw
\* or could not open the file (DatabaseHandler.cpp:38-138, 140-288).
THEOREM PointerCleared == Spec => []PointerOnlyAfterFault
<1>1. Init => ConnInv
  BY DEF Init, ConnInv, PointerOnlyAfterFault
<1>2. ConnInv /\ [Next]_vars => ConnInv'
  <2> SUFFICES ASSUME ConnInv, [Next]_vars
               PROVE  ConnInv'
    OBVIOUS
  <2>1. ASSUME NEW p \in Program, Throw(p)
        PROVE  ConnInv'
    <3>1. /\ pc' = [pc EXCEPT ![p] = "idle"] /\ conn' = [conn EXCEPT ![p] = conn[p]]
          /\ faulted' = [faulted EXCEPT ![p] = TRUE] /\ conn[p] \in BOOLEAN
      BY <2>1 DEF Throw, Fault, End, Leave, ConnInv
    <3> QED
      BY <3>1, ConnStep
  <2>2. ASSUME NEW p \in Program, Return(p)
        PROVE  ConnInv'
    <3>1. /\ pc' = [pc EXCEPT ![p] = "idle"] /\ conn' = [conn EXCEPT ![p] = FALSE]
          /\ faulted' = [faulted EXCEPT ![p] = faulted[p]] /\ faulted[p] \in BOOLEAN
      BY <2>2 DEF Return, End, Leave, ConnInv
    <3> QED
      BY <3>1, ConnStep
  <2>3. ASSUME NEW p \in Program, OpenFails(p)
        PROVE  ConnInv'
    <3>1. PICK c \in {conn[p], TRUE} : conn' = [conn EXCEPT ![p] = c]
      BY <2>3 DEF OpenFails
    <3>2. /\ c \in BOOLEAN /\ pc' = [pc EXCEPT ![p] = "idle"]
          /\ faulted' = [faulted EXCEPT ![p] = TRUE]
      BY <2>3 DEF OpenFails, End, Leave, ConnInv
    <3> QED
      BY <3>1, <3>2, ConnStep
  <2>4. ASSUME NEW p \in Program, NEW l \in Importing \cup Exporting, NEW b, Begin(p, l, b)
        PROVE  ConnInv'
    <3>1. /\ pc' = [pc EXCEPT ![p] = l] /\ conn' = [conn EXCEPT ![p] = TRUE] /\ l # "idle"
          /\ faulted' = [faulted EXCEPT ![p] = faulted[p]] /\ faulted[p] \in BOOLEAN
      BY <2>4 DEF Begin, ConnInv, Importing, Exporting
    <3> QED
      BY <3>1, ConnStep
  <2>5. ASSUME NEW p \in Program, NEW l \in Importing \cup Exporting,
               pc' = [pc EXCEPT ![p] = l], UNCHANGED <<conn, faulted>>
        PROVE  ConnInv'
    <3>1. /\ conn' = [conn EXCEPT ![p] = conn[p]] /\ conn[p] \in BOOLEAN /\ l # "idle"
          /\ faulted' = [faulted EXCEPT ![p] = faulted[p]] /\ faulted[p] \in BOOLEAN
      BY <2>5 DEF ConnInv, Importing, Exporting
    <3> QED
      BY <2>5, <3>1, ConnStep
  <2>6. ASSUME NEW p \in Program, Exit(p)
        PROVE  ConnInv'
    BY <2>6, ConnStep DEF Exit, End, Leave
  <2>7. ASSUME UNCHANGED <<pc, conn, faulted>>
        PROVE  ConnInv'
    BY <2>7 DEF ConnInv, PointerOnlyAfterFault
  <2>8. ASSUME NEW p \in Program, NEW row, Continue(p, row)
        PROVE  ConnInv'
    BY <2>5, <2>8 DEF Continue, Goto, Importing
  <2>9. ASSUME NEW p \in Program, ImportFromExcel(p)
        PROVE  ConnInv'
    BY <2>2, <2>3, <2>4, <2>9 DEF ImportFromExcel, LoadFails, Importing
  <2>10. ASSUME NEW p \in Program, Clear(p) \/ InsertRow(p) \/ Close(p)
         PROVE  ConnInv'
    <3>1. ASSUME Leave(p), Fault(p) PROVE ConnInv'
      <4>1. /\ pc' = [pc EXCEPT ![p] = "idle"] /\ conn' = [conn EXCEPT ![p] = conn[p]]
            /\ faulted' = [faulted EXCEPT ![p] = TRUE] /\ conn[p] \in BOOLEAN
        BY <3>1 DEF Leave, Fault, ConnInv
      <4> QED
        BY <4>1, ConnStep
    <3> QED
      BY <2>1, <2>2, <2>8, <2>10, <3>1 DEF Clear, InsertRow, Close, Spill
  <2>11. ASSUME NEW p \in Program, ExportToExcel(p)
         PROVE  ConnInv'
    BY <2>3, <2>4, <2>11 DEF ExportToExcel, Exporting
  <2>12. ASSUME NEW p \in Program, WriteSheet(p)
         PROVE  ConnInv'
    BY <2>1, <2>2, <2>5, <2>12 DEF WriteSheet, Exporting
  <2>13. ASSUME NEW p \in Program, SaveBook(p)
         PROVE  ConnInv'
    BY <2>2, <2>13 DEF SaveBook
  <2>14. ASSUME NEW p \in Program, ClearTable(p) \/ Restart(p)
         PROVE  ConnInv'
    BY <2>6, <2>7, <2>14 DEF ClearTable, Restart
  <2>15. ASSUME NEW p \in Program, InsertStudent(p) \/ DeleteStudent(p) \/ UpdateStudent(p)
         PROVE  ConnInv'
    BY <2>7, <2>15 DEF InsertStudent, DeleteStudent, UpdateStudent
  <2>16. ASSUME PlaceBook \/ UNCHANGED vars
         PROVE  ConnInv'
    BY <2>7, <2>16 DEF PlaceBook, vars
  <2> QED
    BY <2>9, <2>10, <2>11, <2>12, <2>13, <2>14, <2>15, <2>16 DEF Next
<1>3. ConnInv => PointerOnlyAfterFault
  BY DEF ConnInv
<1> QED
  BY <1>1, <1>2, <1>3, PTL DEF Spec

-----------------------------------------------------------------------------
(***************************************************************************)
(* A workbook of the program's own.                                        *)
(***************************************************************************)

\* SQLite's PRIMARY KEY: no two rows of a table have one key.
KeyIsPrimary(t) == \A r, s \in db[t] : r[Key(t)] = s[Key(t)] => r = s

\* What exportToExcel makes of a table: its columns, a key per row unless one
\* was rounded to another, and a number for a key that has to be one.
OwnSheet(s) ==
  /\ s.name \in Table /\ s.header = Columns[s.name]
  /\ KeysExact(s) => \A m, n \in 1..Len(s.rows) : s.rows[m][1] = s.rows[n][1] => m = n
  /\ Key(s.name) \in Numeric => \A n \in 1..Len(s.rows) : s.rows[n][1] \in Number

OwnBook(b) == b.own => \A k \in 1..Len(b.sheets) : OwnSheet(b.sheets[k])

OwnInv ==
  /\ \A t \in Table : KeyIsPrimary(t)
  /\ OwnBook(excel)
  /\ \A p \in Program : OwnBook(book[p])

\* An order of finitely many rows has each of them once.
LEMMA OrderIsInjective ==
  ASSUME NEW S, IsFiniteSet(S), NEW s \in Orders(S)
  PROVE  \A m, n \in 1..Cardinality(S) : s[m] = s[n] => m = n
<1>1. Cardinality(S) \in Nat
  BY FS_CardinalityType
<1>2. s \in [1..Cardinality(S) -> S] /\ \A r \in S : \E n \in 1..Cardinality(S) : s[n] = r
  BY DEF Orders
<1>3. s \in Surjection(1..Cardinality(S), S)
  BY <1>2 DEF Surjection
<1>4. IsFiniteSet(1..Cardinality(S)) /\ Cardinality(1..Cardinality(S)) = Cardinality(S)
  BY <1>1, FS_Interval
<1>5. s \in Injection(1..Cardinality(S), S)
  BY <1>3, <1>4, FS_SurjSameCardinalityImpliesInj
<1> QED
  BY <1>5 DEF Injection, IsInjective

\* The sheet of a table with unique keys and numbers in place
\* (DatabaseHandler.cpp:212-262).
LEMMA OwnSheetMade ==
  ASSUME NEW t \in Table, db[t] \subseteq Row(t), IsFiniteSet(db[t]), KeyIsPrimary(t),
         \A r \in db[t] : ~Alien(t, r), NEW s \in Orders(db[t])
  PROVE  OwnSheet(SheetOf(t, s))
<1> DEFINE X == SheetOf(t, s)
<1>1. Columns[t] \in Seq(Column) /\ Len(Columns[t]) > 0 /\ Cardinality(db[t]) \in Nat
  BY TableAssumption, FS_CardinalityType
<1>2. s \in [1..Cardinality(db[t]) -> db[t]]
  BY DEF Orders
<1>3. Len(s) = Cardinality(db[t])
  BY <1>1, <1>2
<1>4. /\ X.name = t /\ X.header = Columns[t]
      /\ X.rows = [n \in 1..Len(s) |-> [i \in 1..Len(Columns[t]) |-> Shown(t, s[n])[Columns[t][i]]]]
  BY DEF SheetOf
<1>5. Len(X.rows) = Len(s)
  BY <1>1, <1>3, <1>4
<1>6. 1 \in 1..Len(Columns[t])
  BY <1>1
<1>7. \A n \in 1..Len(s) :
        X.rows[n][1] = (IF Key(t) \in Numeric THEN Double[Key(t)][s[n][Key(t)]] ELSE s[n][Key(t)])
  <2>1. Key(t) \in ColumnSet(t)
    BY <1>6 DEF Key, ColumnSet
  <2>2. \A n \in 1..Len(s) : X.rows[n][1] = Shown(t, s[n])[Key(t)]
    BY <1>4, <1>6 DEF Key
  <2> QED
    BY <2>1, <2>2 DEF Shown
<1>8. \A n \in 1..Len(s) : s[n] \in db[t] /\ (Key(t) \in Numeric => s[n][Key(t)] \in Number)
  <2>1. Key(t) \in ColumnSet(t)
    BY <1>6 DEF Key, ColumnSet
  <2> QED
    BY <1>2, <1>3, <2>1 DEF Alien
<1>9. ASSUME KeysExact(X), NEW m \in 1..Len(s), NEW n \in 1..Len(s), X.rows[m][1] = X.rows[n][1]
      PROVE  m = n
  <2>1. ASSUME Key(t) \in Numeric
        PROVE  s[m][Key(t)] = s[n][Key(t)]
    <3>1. \A i \in 1..Len(s) : \A y \in Number : Double[Key(t)][y] = X.rows[i][1] => y = X.rows[i][1]
      BY <1>4, <1>5, <1>9, <2>1 DEF KeysExact
    <3>2. \A i \in 1..Len(s) : Double[Key(t)][s[i][Key(t)]] = X.rows[i][1]
      BY <1>7, <2>1
    <3> HIDE DEF X
    <3>3. \A i \in 1..Len(s) : s[i][Key(t)] = X.rows[i][1]
      BY <1>8, <2>1, <3>1, <3>2
    <3> QED
      BY <1>9, <3>3 DEF X
  <2>2. ASSUME Key(t) \notin Numeric
        PROVE  s[m][Key(t)] = s[n][Key(t)]
    BY <1>7, <1>9, <2>2
  <2>3. s[m] = s[n]
    BY <1>8, <2>1, <2>2 DEF KeyIsPrimary
  <2> QED
    BY <1>3, <2>3, OrderIsInjective
<1>10. ASSUME Key(t) \in Numeric, NEW n \in 1..Len(s)
       PROVE  X.rows[n][1] \in Number
  BY <1>7, <1>8, <1>10, CellAssumption
<1> HIDE DEF X
<1>11. OwnSheet(X)
  BY <1>4, <1>5, <1>9, <1>10 DEF OwnSheet
<1> QED
  BY <1>11 DEF X

\* A book without sheets, or of a user, has nothing to show.
LEMMA NoBookIsOwn == OwnBook(NoBook) /\ OwnBook([own |-> TRUE, sheets |-> <<>>])
BY DEF OwnBook, NoBook

\* The texts that are pasted for a row of such a sheet.
LEMMA OwnKeyPasted ==
  ASSUME NEW s \in Sheet, OwnSheet(s), NEW n \in 1..Len(s.rows)
  PROVE  /\ HeaderKnown(s)
         /\ PastedRow(s, s.rows[n])[Key(s.name)] = s.rows[n][1]
         /\ \A c \in ColumnSet(s.name) :
              \E i \in 1..Len(s.header) : PastedRow(s, s.rows[n])[c] = s.rows[n][i]
<1> DEFINE t == s.name
<1>1. /\ t \in Table /\ s.header = Columns[t] /\ Columns[t] \in Seq(Column)
      /\ Len(Columns[t]) > 0 /\ Injective(Columns[t])
  BY TableAssumption DEF OwnSheet
<1>2. HeaderKnown(s)
  BY <1>1 DEF HeaderKnown, ColumnSet
<1>3. \A c \in ColumnSet(t) : Heads(s.header, c)
  BY <1>1 DEF ColumnSet, Heads
<1>4. PastedRow(s, s.rows[n]) =
        [c \in ColumnSet(t) |->
           IF Heads(s.header, c) THEN s.rows[n][IndexOf(s.header, c)] ELSE Null]
  BY <1>1, <1>2, PastedRowKnown
<1>5. \A c \in ColumnSet(t) : PastedRow(s, s.rows[n])[c] = s.rows[n][IndexOf(s.header, c)]
  BY <1>3, <1>4
<1>6. \A c \in ColumnSet(t) : /\ IndexOf(s.header, c) \in 1..Len(s.header)
                               /\ s.header[IndexOf(s.header, c)] = c
  BY <1>3, IndexOfHead
<1>7. Key(t) \in ColumnSet(t) /\ 1 \in 1..Len(s.header) /\ s.header[1] = Key(t)
  BY <1>1 DEF Key, ColumnSet
<1>8. IndexOf(s.header, Key(t)) = 1
  BY <1>1, <1>6, <1>7 DEF Injective
<1> QED
  BY <1>2, <1>5, <1>6, <1>7, <1>8

\* SQL reads a row without apostrophes as it is, and takes it for a row.
LEMMA OwnRowRead ==
  ASSUME NEW s \in Sheet, OwnSheet(s), SheetOK(s), NEW n \in 1..Len(s.rows),
         \A i \in 1..Len(s.rows[n]) : s.rows[n][i] \notin Quoted
  PROVE  /\ StoredRow(s, s.rows[n]) = PastedRow(s, s.rows[n])
         /\ OddTexts(PastedRow(s, s.rows[n])) = {}
<1> DEFINE x == PastedRow(s, s.rows[n])
<1>1. x \in [ColumnSet(s.name) -> Cell]
  BY PastedRowType DEF OwnSheet, Row
<1>2. \A c \in ColumnSet(s.name) : \E i \in 1..Len(s.header) : x[c] = s.rows[n][i]
  BY OwnKeyPasted
<1>3. Len(s.rows[n]) = Len(s.header)
  BY DEF SheetOK
<1> HIDE DEF x
<1>4. \A c \in ColumnSet(s.name) : x[c] \notin Quoted
  BY <1>2, <1>3
<1>5. AsRead(x) = x
  BY <1>1, <1>4, CellAssumption DEF AsRead
<1>6. OddTexts(x) = {}
  BY <1>1, <1>4 DEF OddTexts
<1> QED
  BY <1>5, <1>6 DEF StoredRow, x

\* So the rows of a sheet without apostrophes are read as they are.
LEMMA OwnRowsRead ==
  ASSUME NEW s \in Sheet, OwnSheet(s), SheetOK(s), NEW l \in 0..Len(s.rows),
         \A n \in 1..Len(s.rows) : \A i \in 1..Len(s.rows[n]) : s.rows[n][i] \notin Quoted
  PROVE  ReadRows(s, l) = SheetRows(s, l)
<1>1. ASSUME NEW x \in SheetRows(s, l)
      PROVE  AsRead(x) = x
  <2>1. Len(s.rows) \in Nat /\ s.name \in Table
    BY DEF Sheet, OwnSheet
  <2>2. PICK n \in 1..l :
          x = [c \in ColumnSet(s.name) |->
                 IF Heads(s.header, c) THEN s.rows[n][IndexOf(s.header, c)] ELSE Null]
    BY <1>1 DEF SheetRows
  <2>3. n \in 1..Len(s.rows)
    BY <2>1
  <2>4. x = PastedRow(s, s.rows[n])
    BY <2>1, <2>2, <2>3, OwnKeyPasted, PastedRowKnown
  <2> QED
    BY <2>3, <2>4, OwnRowRead DEF StoredRow
<1> DEFINE A == SheetRows(s, l)
<1> HIDE DEF A
<1>2. (\A x \in A : AsRead(x) = x) => {AsRead(x) : x \in A} = A
  OBVIOUS
<1> QED
  BY <1>1, <1>2 DEF ReadRows, A

\* No row of such a workbook is refused: the rows before it have other keys,
\* and they are all there is in the table.
LEMMA OwnIsAccepted ==
  ASSUME Inv, OwnInv, NEW p \in Program, pc[p] = "rows", book[p].own, ~disturbed[p],
         ~HasQuoted(book[p]), KeysExact(CurrentSheet(p))
  PROVE  Accepted(p)
<1> DEFINE k == at[p].sheet
           row == at[p].row
           s == CurrentSheet(p)
           t == s.name
<1>1. TypeOK /\ ImportIsPrefix
  BY InvImplies
<1>2. /\ k \in 1..Len(book[p].sheets) /\ row \in 1..Len(s.rows) /\ book[p] \in BookType
  BY <1>1 DEF TypeOK
<1>3. s \in Sheet /\ OwnSheet(s) /\ SheetOK(s)
  BY <1>2 DEF CurrentSheet, OwnInv, OwnBook, BookType, Inv, CallOK, BookOK
<1>4. \A n \in 1..Len(s.rows) : \A i \in 1..Len(s.rows[n]) : s.rows[n][i] \notin Quoted
  BY <1>2 DEF HasQuoted, CurrentSheet
<1>5. NextRow(p) = PastedRow(s, s.rows[row]) /\ NextTexts(p) = {}
  BY <1>2, <1>3, <1>4, OwnRowRead DEF NextRow, NextTexts
<1>6. Len(s.rows) \in Nat /\ row - 1 \in 0..Len(s.rows)
  BY <1>2, <1>3 DEF Sheet
<1>7. db[t] = SheetRows(s, row - 1)
  <2>1. db[t] = ReadRows(s, row - 1)
    BY <1>1, <1>2, <1>3, OwnKeyPasted DEF ImportIsPrefix, Importing, Holds, ReadRows
  <2> QED
    BY <1>3, <1>4, <1>6, <2>1, OwnRowsRead
<1>8. KeysExact(s)
  OBVIOUS
<1>9. NextRow(p) = PastedRow(s, s.rows[row]) /\ NextTexts(p) = {} /\ s = CurrentSheet(p)
  BY <1>5
<1> HIDE DEF s
<1>10. t \in Table /\ row \in Nat
  BY <1>2, <1>3, <1>6 DEF OwnSheet
<1>11. ASSUME NEW r \in db[t] PROVE r[Key(t)] # NextRow(p)[Key(t)]
  <2>1. PICK m \in 1..row - 1 :
          r = [c \in ColumnSet(t) |->
                 IF Heads(s.header, c) THEN s.rows[m][IndexOf(s.header, c)] ELSE Null]
    BY <1>7, <1>11 DEF SheetRows
  <2>2. m \in 1..Len(s.rows) /\ m # row
    BY <1>2, <1>6, <1>10, <2>1
  <2>3. r = PastedRow(s, s.rows[m])
    BY <1>3, <1>10, <2>1, <2>2, OwnKeyPasted, PastedRowKnown
  <2>4. r[Key(t)] = s.rows[m][1] /\ NextRow(p)[Key(t)] = s.rows[row][1]
    BY <1>2, <1>3, <1>9, <2>2, <2>3, OwnKeyPasted
  <2> QED
    BY <1>2, <1>3, <1>8, <2>2, <2>4 DEF OwnSheet
<1>12. Key(t) \in Numeric => NextRow(p)[Key(t)] \in Number
  BY <1>2, <1>3, <1>9, OwnKeyPasted DEF OwnSheet
<1>13. ~Refused(t, NextRow(p))
  BY <1>11, <1>12 DEF Refused
<1> QED
  BY <1>9, <1>13 DEF Accepted

\* One table is written to, and its keys stay unique.
LEMMA KeysStay ==
  ASSUME Inv, OwnInv, NEW t \in Table, NEW S, db' = [db EXCEPT ![t] = S],
         \A r, s \in S : r[Key(t)] = s[Key(t)] => r = s
  PROVE  \A u \in Table : KeyIsPrimary(u)'
<1>1. ASSUME NEW u \in Table, NEW D, D = db'[u]
      PROVE  \A r, s \in D : r[Key(u)] = s[Key(u)] => r = s
  BY <1>1 DEF Inv, Flat, OwnInv, KeyIsPrimary
<1> QED
  BY <1>1 DEF KeyIsPrimary

\* No table is written to.
LEMMA KeysUntouched ==
  ASSUME OwnInv, db' = db
  PROVE  \A u \in Table : KeyIsPrimary(u)'
BY DEF OwnInv, KeyIsPrimary

\* One call gets another workbook.
LEMMA BooksStay ==
  ASSUME OwnInv, NEW p, OwnBook(book'[p]), \A q \in Program \ {p} : book'[q] = book[q]
  PROVE  \A q \in Program : OwnBook(book'[q])
<1>1. ASSUME NEW q \in Program, q # p PROVE OwnBook(book'[q])
  BY <1>1 DEF OwnInv
<1> QED
  BY <1>1

\* A call ends.
LEMMA EndKeepsOwn ==
  ASSUME Inv, OwnInv, NEW p \in Program, Leave(p)
  PROVE  \A q \in Program : OwnBook(book'[q])
<1>1. book'[p] = NoBook /\ \A q \in Program \ {p} : book'[q] = book[q]
  BY DEF Leave, Inv, Flat
<1> QED
  BY <1>1, NoBookIsOwn, BooksStay

\* The parts of the invariant, each for itself.
LEMMA OwnParts ==
  ASSUME \A t \in Table : KeyIsPrimary(t)', OwnBook(excel'), \A q \in Program : OwnBook(book'[q])
  PROVE  OwnInv'
BY DEF OwnInv

\* A statement on one table by a call that goes on with its workbook.
LEMMA StatementKeepsOwn ==
  ASSUME Inv, OwnInv, NEW t \in Table, NEW S, db' = [db EXCEPT ![t] = S],
         \A r, s \in S : r[Key(t)] = s[Key(t)] => r = s, UNCHANGED <<excel, book>>
  PROVE  OwnInv'
<1>1. OwnBook(excel') /\ \A q \in Program : OwnBook(book'[q])
  BY DEF OwnInv
<1> QED
  BY <1>1, KeysStay, OwnParts

\* A table without rows has no key twice.
LEMMA EmptiedKeepsOwn ==
  ASSUME Inv, OwnInv, NEW t \in Table, db' = [db EXCEPT ![t] = {}], UNCHANGED <<excel, book>>
  PROVE  OwnInv'
<1> DEFINE S == {}
<1>1. db' = [db EXCEPT ![t] = S] /\ \A r, s \in S : r[Key(t)] = s[Key(t)] => r = s
  OBVIOUS
<1> HIDE DEF S
<1> QED
  BY <1>1, StatementKeepsOwn

\* A call that ends without a write to the tables.
LEMMA EndOfCallKeepsOwn ==
  ASSUME Inv, OwnInv, NEW p \in Program, End(p), db' = db, OwnBook(excel')
  PROVE  OwnInv'
BY EndKeepsOwn, KeysUntouched, OwnParts DEF End

\* importFromExcel takes the workbook into memory (DatabaseHandler.cpp:51-66),
\* exportToExcel begins an empty one (DatabaseHandler.cpp:180-199).
LEMMA BeginKeepsOwn ==
  ASSUME Inv, OwnInv, NEW p \in Program, NEW l, NEW b, OwnBook(b), Begin(p, l, b),
         UNCHANGED <<db, excel>>
  PROVE  OwnInv'
<1>1. book'[p] = b /\ \A q \in Program \ {p} : book'[q] = book[q]
  BY DEF Begin, Inv, Flat
<1> QED
  BY <1>1, BooksStay, KeysUntouched, OwnParts DEF OwnInv

\* A sheet more (DatabaseHandler.cpp:202-264).
LEMMA WriteSheetKeepsOwn ==
  ASSUME Inv, OwnInv, NEW p \in Program, WriteSheet(p)
  PROVE  OwnInv'
<1> DEFINE k == at[p].sheet
           t == TableOrder[k]
           old == book[p].sheets
<1>1. pc[p] = "sheets" /\ UNCHANGED <<db, excel>> /\ OwnBook(excel')
  BY DEF WriteSheet, OwnInv
<1>2. CASE Return(p) \/ Throw(p)
  BY <1>1, <1>2, EndOfCallKeepsOwn DEF Return, Throw
<1>3. ASSUME \A r \in db[t] : ~Alien(t, r), NEW s \in Orders(db[t]),
             book' = [book EXCEPT ![p].sheets = Append(@, SheetOf(t, s))]
      PROVE  OwnInv'
  <2>1. t \in Table
    BY <1>1, TableAssumption DEF Inv, CallOK, ExportOK, Exporting
  <2>2. OwnSheet(SheetOf(t, s))
    BY <1>3, <2>1, OwnSheetMade DEF Inv, TableOK, OwnInv
  <2> DEFINE X == SheetOf(t, s)
             b == [own |-> book[p].own, sheets |-> Append(old, X)]
  <2>3. book[p] \in BookType /\ book \in [Program -> BookType]
    BY DEF Inv, Flat
  <2> HIDE DEF X
  <2>4. book'[p] = b /\ \A q \in Program \ {p} : book'[q] = book[q]
    <3>1. /\ book'[p] = [book[p] EXCEPT !.sheets = Append(old, X)]
          /\ \A q \in Program \ {p} : book'[q] = book[q]
      BY <1>3, <2>3 DEF X
    <3> QED
      BY <2>3, <3>1 DEF BookType
  <2>5. ASSUME NEW j \in 1..Len(Append(old, X)), book[p].own
        PROVE  OwnSheet(Append(old, X)[j])
    <3>1. Len(old) \in Nat /\ old \in Seq(Sheet)
      BY <2>3 DEF BookType
    <3>2. CASE j \in 1..Len(old)
      BY <2>5, <3>1, <3>2 DEF OwnInv, OwnBook
    <3>3. CASE j = Len(old) + 1
      BY <2>2, <3>1, <3>3 DEF X
    <3> QED
      BY <3>1, <3>2, <3>3
  <2>6. OwnBook(b)
    BY <2>5 DEF OwnBook
  <2> HIDE DEF b
  <2>7. \A q \in Program : OwnBook(book'[q])
    BY <2>4, <2>6, BooksStay
  <2> QED
    BY <1>1, <2>7, KeysUntouched, OwnParts
<1> QED
  BY <1>2, <1>3 DEF WriteSheet

\* The importing steps that write (DatabaseHandler.cpp:74-75, 103-127).
LEMMA ImportStepKeepsOwn ==
  ASSUME Inv, OwnInv, NEW p \in Program, Clear(p) \/ InsertRow(p)
  PROVE  OwnInv'
<1> DEFINE t == CurrentSheet(p).name
<1>1. OwnBook(excel') /\ UNCHANGED excel
  BY DEF Clear, InsertRow, OwnInv
<1>2. CASE Throw(p) /\ db' = db
  BY <1>1, <1>2, EndOfCallKeepsOwn DEF Throw
<1>3. CASE Clear(p) /\ t \in Table /\ db' = [db EXCEPT ![t] = {}] /\ Continue(p, 1)
  <2>1. UNCHANGED <<excel, book>>
    BY <1>1, <1>3 DEF Continue, Goto
  <2>2. PICK u \in Table : db' = [db EXCEPT ![u] = {}]
    BY <1>3
  <2> QED
    BY <2>1, <2>2, EmptiedKeepsOwn
<1>4. CASE InsertRow(p) /\ Accepted(p) /\ db' = [db EXCEPT ![t] = @ \cup {NextRow(p)}]
           /\ Continue(p, at[p].row + 1)
  <2>1. t \in Table
    BY <1>4, PresentSheet DEF InsertRow, Inv, CallOK, ImportOK, Importing
  <2>2. \A r \in db[t] : r[Key(t)] # NextRow(p)[Key(t)]
    BY <1>4 DEF Accepted, Refused
  <2>3. \A r, s \in db[t] \cup {NextRow(p)} : r[Key(t)] = s[Key(t)] => r = s
    BY <2>1, <2>2 DEF OwnInv, KeyIsPrimary
  <2>4. UNCHANGED <<excel, book>>
    BY <1>1, <1>4 DEF Continue, Goto
  <2>5. db' = [db EXCEPT ![t] = db[t] \cup {NextRow(p)}]
    BY <1>4
  <2> HIDE DEF t
  <2> QED
    BY <2>1, <2>3, <2>4, <2>5, StatementKeepsOwn
<1>5. CASE Spill(p)
  <2>1. \A u \in Table : KeyIsPrimary(u)'
    BY <1>5, AftermathAssumption DEF Spill, KeyIsPrimary
  <2>2. CASE Leave(p)
    BY <1>1, <2>1, <2>2, EndKeepsOwn, OwnParts
  <2>3. CASE book' = book
    BY <1>1, <2>1, <2>3, OwnParts DEF OwnInv
  <2> QED
    BY <1>5, <2>2, <2>3 DEF Spill, Continue, Goto
<1> QED
  BY <1>2, <1>3, <1>4, <1>5 DEF Clear, InsertRow

\* Entries by hand: a new one has a new key, a changed one keeps its own
\* (main.cpp:277-302); and clearTable.
LEMMA EntryKeepsOwn ==
  ASSUME Inv, OwnInv, NEW p \in Program,
         ClearTable(p) \/ InsertStudent(p) \/ DeleteStudent(p) \/ UpdateStudent(p)
  PROVE  OwnInv'
<1>1. Students \in Table /\ KeyIsPrimary(Students)
  BY EntryAssumption DEF OwnInv
<1>2. CASE ClearTable(p)
  <2>1. CASE Exit(p) /\ UNCHANGED <<db, excel>>
    BY <2>1, EndOfCallKeepsOwn DEF Exit, OwnInv
  <2>2. CASE (\E t \in Table : db' = [db EXCEPT ![t] = {}]) /\ UNCHANGED <<excel, book>>
    BY <2>2, EmptiedKeepsOwn
  <2> QED
    BY <1>2, <2>1, <2>2 DEF ClearTable
<1>3. CASE InsertStudent(p)
  <2>1. PICK r \in Entry : /\ \A s \in db[Students] : s[Key(Students)] # r[Key(Students)]
                           /\ db' = [db EXCEPT ![Students] = db[Students] \cup {r}]
    BY <1>3 DEF InsertStudent
  <2>2. \A x, y \in db[Students] \cup {r} : x[Key(Students)] = y[Key(Students)] => x = y
    BY <1>1, <2>1 DEF KeyIsPrimary
  <2> QED
    BY <1>1, <1>3, <2>1, <2>2, StatementKeepsOwn DEF InsertStudent
<1>4. CASE DeleteStudent(p)
  <2>1. PICK r \in db[Students] : db' = [db EXCEPT ![Students] = db[Students] \ {r}]
    BY <1>4 DEF DeleteStudent
  <2>2. \A x, y \in db[Students] \ {r} : x[Key(Students)] = y[Key(Students)] => x = y
    BY <1>1 DEF KeyIsPrimary
  <2> QED
    BY <1>1, <1>4, <2>1, <2>2, StatementKeepsOwn DEF DeleteStudent
<1>5. CASE UpdateStudent(p)
  <2>1. PICK r \in db[Students], e \in Entry :
          /\ r[Key(Students)] = e[Key(Students)]
          /\ db' = [db EXCEPT ![Students] = (db[Students] \ {r}) \cup {e}]
    BY <1>5 DEF UpdateStudent
  <2>2. \A x, y \in (db[Students] \ {r}) \cup {e} : x[Key(Students)] = y[Key(Students)] => x = y
    BY <1>1, <2>1 DEF KeyIsPrimary
  <2> QED
    BY <1>1, <1>5, <2>1, <2>2, StatementKeepsOwn DEF UpdateStudent
<1> QED
  BY <1>2, <1>3, <1>4, <1>5

\* Every step keeps the keys unique and the program's own workbooks what
\* they are.
LEMMA NextKeepsOwn == Inv /\ OwnInv /\ [Next]_vars => OwnInv'
<1> SUFFICES ASSUME Inv, OwnInv, [Next]_vars PROVE OwnInv'
  OBVIOUS
<1>1. ASSUME NEW p \in Program, ImportFromExcel(p) PROVE OwnInv'
  <2>1. OwnBook(excel) /\ OwnBook(excel') /\ UNCHANGED <<db, excel>>
    BY <1>1 DEF ImportFromExcel, OwnInv
  <2>2. CASE OpenFails(p) \/ LoadFails(p)
    BY <2>1, <2>2, EndOfCallKeepsOwn DEF OpenFails, LoadFails, Return
  <2>3. CASE Begin(p, "clear", excel)
    BY <2>1, <2>3, BeginKeepsOwn
  <2> QED
    BY <1>1, <2>2, <2>3 DEF ImportFromExcel
<1>2. ASSUME NEW p \in Program, ExportToExcel(p) PROVE OwnInv'
  <2>1. OwnBook(excel') /\ UNCHANGED <<db, excel>>
    BY <1>2 DEF ExportToExcel, OwnInv
  <2>2. CASE OpenFails(p)
    BY <2>1, <2>2, EndOfCallKeepsOwn DEF OpenFails
  <2>3. CASE Begin(p, "sheets", [own |-> TRUE, sheets |-> <<>>])
    BY <2>1, <2>3, NoBookIsOwn, BeginKeepsOwn
  <2> QED
    BY <1>2, <2>2, <2>3 DEF ExportToExcel
<1>3. ASSUME NEW p \in Program, Close(p) \/ SaveBook(p) \/ Restart(p) PROVE OwnInv'
  <2>1. End(p) /\ db' = db
    BY <1>3 DEF Close, SaveBook, Restart, Return, Exit
  <2>2. excel' \in {excel, book[p], NoBook}
    BY <1>3 DEF Close, SaveBook, Restart
  <2>3. OwnBook(excel')
    BY <2>2, NoBookIsOwn DEF OwnInv
  <2> QED
    BY <2>1, <2>3, EndOfCallKeepsOwn
<1>4. ASSUME PlaceBook PROVE OwnInv'
  <2>1. OwnBook(excel') /\ UNCHANGED <<db, book>>
    BY <1>4 DEF PlaceBook, UserBook, OwnBook
  <2> QED
    BY <2>1, KeysUntouched, OwnParts DEF OwnInv
<1>5. ASSUME UNCHANGED vars PROVE OwnInv'
  BY <1>5, KeysUntouched, OwnParts DEF vars, OwnInv
<1> QED
  BY <1>1, <1>2, <1>3, <1>4, <1>5, WriteSheetKeepsOwn, ImportStepKeepsOwn, EntryKeepsOwn DEF Next

\* A workbook that exportToExcel wrote can be imported again: unless a text
\* in it has an apostrophe or a key is too large for a double, no row of it
\* is refused (DatabaseHandler.cpp:103-127, 212-262).
THEOREM OwnBooksAccepted == Spec => []OwnBookIsAccepted
<1>1. Init => OwnInv
  BY NoBookIsOwn DEF Init, OwnInv, KeyIsPrimary, NoRows
<1>2. Inv /\ OwnInv => OwnBookIsAccepted
  BY OwnIsAccepted DEF OwnBookIsAccepted
<1> QED
  BY <1>1, <1>2, NextKeepsOwn, Invariance, PTL DEF Spec

-----------------------------------------------------------------------------
(***************************************************************************)
(* An export and back.                                                     *)
(***************************************************************************)

\* A workbook of the program's own has a sheet for every table.
Whole(b) == b.own => \A t \in Table : \E k \in 1..Len(b.sheets) : b.sheets[k].name = t

WholeInv ==
  /\ Whole(excel)
  /\ \A p \in Program : pc[p] \in Importing => Whole(book[p])

\* Only p's call moves.
LEMMA WholeStep ==
  ASSUME WholeInv, NEW p, Whole(excel'), pc'[p] \in Importing => Whole(book'[p]),
         \A q \in Program \ {p} : pc'[q] = pc[q] /\ book'[q] = book[q]
  PROVE  WholeInv'
<1>1. ASSUME NEW q \in Program, pc'[q] \in Importing PROVE Whole(book'[q])
  <2>1. CASE q = p
    BY <1>1, <2>1
  <2>2. CASE q # p
    BY <1>1, <2>2 DEF WholeInv
  <2> QED
    BY <2>1, <2>2
<1> QED
  BY <1>1 DEF WholeInv

\* A call ends.
LEMMA EndKeepsWhole ==
  ASSUME Inv, WholeInv, NEW p \in Program, Leave(p), Whole(excel')
  PROVE  WholeInv'
<1>1. pc'[p] = "idle" /\ \A q \in Program \ {p} : pc'[q] = pc[q] /\ book'[q] = book[q]
  BY DEF Leave, Inv, Flat
<1> QED
  BY <1>1, WholeStep DEF Importing

\* A call begins.
LEMMA BeginKeepsWhole ==
  ASSUME Inv, WholeInv, NEW p \in Program, NEW l, NEW b, Begin(p, l, b),
         l \in Importing => Whole(b), UNCHANGED excel
  PROVE  WholeInv'
<1>1. /\ pc'[p] = l /\ book'[p] = b
      /\ \A q \in Program \ {p} : pc'[q] = pc[q] /\ book'[q] = book[q]
  BY DEF Begin, Inv, Flat
<1>2. Whole(excel')
  BY DEF WholeInv
<1> QED
  BY <1>1, <1>2, WholeStep

\* The workbook that is saved has all the sheets (DatabaseHandler.cpp:210-266).
LEMMA SavedIsWhole ==
  ASSUME Inv, NEW p \in Program, pc[p] = "save"
  PROVE  Whole(book[p])
<1>1. /\ Len(book[p].sheets) = Len(TableOrder)
      /\ \A k \in 1..Len(book[p].sheets) : book[p].sheets[k].name = TableOrder[k]
  BY DEF Inv, CallOK, ExportOK, Exporting
<1> QED
  BY <1>1, TableAssumption DEF Whole

\* The importing steps keep their workbook in memory.
LEMMA ImportStepKeepsWhole ==
  ASSUME Inv, WholeInv, NEW p \in Program, Clear(p) \/ InsertRow(p)
  PROVE  WholeInv'
<1>1. Whole(excel') /\ pc[p] \in Importing /\ Whole(book[p])
  BY DEF Clear, InsertRow, WholeInv, Importing
<1>2. CASE Leave(p)
  BY <1>1, <1>2, EndKeepsWhole
<1>3. ASSUME NEW l, pc' = [pc EXCEPT ![p] = l], book' = book
      PROVE  WholeInv'
  <2>1. Whole(book'[p]) /\ \A q \in Program \ {p} : pc'[q] = pc[q] /\ book'[q] = book[q]
    BY <1>1, <1>3 DEF Inv, Flat
  <2> QED
    BY <1>1, <2>1, WholeStep
<1>4. ASSUME NEW row, Continue(p, row)
      PROVE  WholeInv'
  BY <1>3, <1>4 DEF Continue, Goto
<1> QED
  BY <1>2, <1>4 DEF Clear, InsertRow, Spill, Throw, End

\* A sheet more, in a call that is no import.
LEMMA WriteSheetKeepsWhole ==
  ASSUME Inv, WholeInv, NEW p \in Program, WriteSheet(p)
  PROVE  WholeInv'
<1>1. Whole(excel')
  BY DEF WriteSheet, WholeInv
<1>2. CASE Return(p) \/ Throw(p)
  BY <1>1, <1>2, EndKeepsWhole DEF Return, Throw, End
<1>3. ASSUME NEW s, book' = [book EXCEPT ![p].sheets = Append(@, s)],
             NEW l \in Exporting, pc' = [pc EXCEPT ![p] = l]
      PROVE  WholeInv'
  <2>1. pc'[p] \notin Importing /\ \A q \in Program \ {p} : pc'[q] = pc[q] /\ book'[q] = book[q]
    BY <1>3 DEF Inv, Flat, Importing, Exporting
  <2> QED
    BY <1>1, <2>1, WholeStep
<1> QED
  BY <1>2, <1>3 DEF WriteSheet, Exporting

\* Every step keeps the workbooks whole.
LEMMA NextKeepsWhole == Inv /\ WholeInv /\ [Next]_vars => WholeInv'
<1> SUFFICES ASSUME Inv, WholeInv, [Next]_vars PROVE WholeInv'
  OBVIOUS
<1>1. ASSUME NEW p \in Program, ImportFromExcel(p) PROVE WholeInv'
  <2>1. Whole(excel) /\ Whole(excel') /\ UNCHANGED excel
    BY <1>1 DEF ImportFromExcel, WholeInv
  <2>2. CASE OpenFails(p) \/ LoadFails(p)
    BY <2>1, <2>2, EndKeepsWhole DEF OpenFails, LoadFails, Return, End
  <2>3. CASE Begin(p, "clear", excel)
    BY <2>1, <2>3, BeginKeepsWhole
  <2> QED
    BY <1>1, <2>2, <2>3 DEF ImportFromExcel
<1>2. ASSUME NEW p \in Program, ExportToExcel(p) PROVE WholeInv'
  <2>1. Whole(excel') /\ UNCHANGED excel
    BY <1>2 DEF ExportToExcel, WholeInv
  <2>2. CASE OpenFails(p)
    BY <2>1, <2>2, EndKeepsWhole DEF OpenFails, End
  <2>3. CASE Begin(p, "sheets", [own |-> TRUE, sheets |-> <<>>])
    BY <2>1, <2>3, BeginKeepsWhole DEF Importing
  <2> QED
    BY <1>2, <2>2, <2>3 DEF ExportToExcel
<1>3. ASSUME NEW p \in Program, Close(p) \/ SaveBook(p) \/ Restart(p) PROVE WholeInv'
  <2>1. Leave(p)
    BY <1>3 DEF Close, SaveBook, Restart, Return, Exit, End
  <2>2. excel' \in {excel, NoBook} \/ (pc[p] = "save" /\ excel' = book[p])
    BY <1>3 DEF Close, SaveBook, Restart
  <2>3. Whole(NoBook)
    BY DEF Whole, NoBook
  <2>4. Whole(excel')
    BY <2>2, <2>3, SavedIsWhole DEF WholeInv
  <2> QED
    BY <2>1, <2>4, EndKeepsWhole
<1>4. ASSUME NEW p \in Program,
             ClearTable(p) \/ InsertStudent(p) \/ DeleteStudent(p) \/ UpdateStudent(p)
      PROVE  WholeInv'
  <2>1. Whole(excel')
    BY <1>4 DEF ClearTable, InsertStudent, DeleteStudent, UpdateStudent, WholeInv
  <2>2. CASE Exit(p)
    BY <2>1, <2>2, EndKeepsWhole DEF Exit, End
  <2>3. CASE UNCHANGED <<pc, book>>
    BY <2>1, <2>3 DEF WholeInv
  <2> QED
    BY <1>4, <2>2, <2>3 DEF ClearTable, InsertStudent, DeleteStudent, UpdateStudent
<1>5. ASSUME PlaceBook PROVE WholeInv'
  BY <1>5 DEF PlaceBook, UserBook, Whole, WholeInv
<1>6. ASSUME UNCHANGED vars PROVE WholeInv'
  BY <1>6 DEF vars, WholeInv
<1> QED
  BY <1>1, <1>2, <1>3, <1>4, <1>5, <1>6, WriteSheetKeepsWhole, ImportStepKeepsWhole DEF Next

\* At the end of its import a workbook of the program's own is the file.
LEMMA OwnIsRestored ==
  ASSUME Inv, OwnInv, WholeInv
  PROVE  OwnBookRestores
<1> SUFFICES ASSUME NEW p \in Program, pc[p] = "close", book[p].own, ~disturbed[p],
                    ~HasQuoted(book[p]), NEW t \in Table
             PROVE  \E k \in 1..Len(book[p].sheets) :
                      /\ book[p].sheets[k].name = t
                      /\ db[t] = SheetRows(book[p].sheets[k], Len(book[p].sheets[k].rows))
  BY DEF OwnBookRestores
<1> DEFINE S == book[p].sheets
<1>1. PICK k \in 1..Len(S) : S[k].name = t
  BY DEF WholeInv, Whole, Importing
<1>2. at[p].sheet = Len(S) + 1 /\ \A j \in 1..at[p].sheet - 1 : Holds(db, S[j], Len(S[j].rows))
  BY DEF Inv, CallOK, ImportOK, PrefixOK, Importing
<1>3. S \in Seq(Sheet)
  BY DEF Inv, Flat, BookType
<1>4. Holds(db, S[k], Len(S[k].rows))
  BY <1>2, <1>3
<1>5. S[k] \in Sheet /\ OwnSheet(S[k]) /\ SheetOK(S[k])
  BY <1>3 DEF OwnInv, OwnBook, Inv, CallOK, BookOK
<1>6. HeaderKnown(S[k])
  BY <1>5 DEF OwnSheet, HeaderKnown, ColumnSet
<1>7. \A n \in 1..Len(S[k].rows) : \A i \in 1..Len(S[k].rows[n]) : S[k].rows[n][i] \notin Quoted
  BY DEF HasQuoted
<1>8. db[t] = ReadRows(S[k], Len(S[k].rows))
  BY <1>1, <1>4, <1>6 DEF Holds, ReadRows
<1>9. Len(S[k].rows) \in 0..Len(S[k].rows)
  BY <1>5 DEF Sheet
<1>10. ReadRows(S[k], Len(S[k].rows)) = SheetRows(S[k], Len(S[k].rows))
  BY <1>5, <1>7, <1>9, OwnRowsRead
<1> QED
  BY <1>1, <1>8, <1>10

\* Importing an export without apostrophes brings back the file that was
\* exported, for any tables and any number of programs (DatabaseHandler.cpp:62-130, 210-266).
THEOREM OwnBooksRestore == Spec => []OwnBookRestores
<1>1. Init => OwnInv
  BY NoBookIsOwn DEF Init, OwnInv, KeyIsPrimary, NoRows
<1>2. Init => WholeInv
  BY DEF Init, WholeInv, Whole, NoBook, Importing
<1> QED
  BY <1>1, <1>2, NextKeepsOwn, NextKeepsWhole, OwnIsRestored, Invariance, PTL DEF Spec
=============================================================================
