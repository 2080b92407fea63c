----------------------------- MODULE ExcelTable -----------------------------
(***************************************************************************)
(* Excel import and export of a SQLite file (DatabaseHandler.cpp) beside   *)
(* the student entries of the menu (main.cpp), which use a connection of   *)
(* their own.  Every SQL statement is a step and commits by itself: an     *)
(* import is one DELETE and one INSERT per row for each sheet in turn.  An *)
(* export is the exception: its query over sqlite_master stays open while  *)
(* it reads table after table, and as long as it is open no other          *)
(* connection can commit (no busy timeout is set: it fails at once).       *)
(*                                                                         *)
(* A cell is the text it has.  Null is the blank cell and SQL's NULL.  An  *)
(* import pastes the texts of a row between apostrophes into its INSERT,   *)
(* so SQL reads two apostrophes in a text as one and takes another one for *)
(* the end of the text: most often the statement cannot be parsed then,    *)
(* but a text can end its row and run as SQL of its own.                   *)
(***************************************************************************)
EXTENDS Naturals, Sequences, FiniteSets

CONSTANTS Program,     \* the programs that have the file open
          Importer,    \* ... those whose user imports
          Exporter,    \* ... those whose user exports
          Table,       \* the tables of the file
          TableOrder,  \* ... in the order of sqlite_master
          OtherName,   \* sheet names that are no table
          Column,      \* the names of columns and headers
          Columns,     \* Columns[t]: the columns of t, its primary key first
          Numeric,     \* the columns declared INTEGER or REAL
          Number,      \* texts of numbers
          Word,        \* other texts
          Quoted,      \* the words with an apostrophe
          Doubled,     \* ... those in which every apostrophe is doubled
          Unquote,     \* Unquote[x]: the text SQL reads in such a word
          Spilling,    \* sets of other quoted texts of one row that are SQL together
          Aftermath,   \* what such a row may make of the tables
          Double,      \* Double[c][n]: the number that n, in column c, is in a sheet
          Null,        \* no text
          UserSheets,  \* the workbooks a user supplies, as lists of sheets
          Students,    \* the table of the student entries
          Entry,       \* the rows that are entered by hand
          MayFail      \* TRUE: a statement or a file access may fail by itself

Cell == Number \cup Word \cup {Null}

ColumnSet(t) == {Columns[t][i] : i \in 1..Len(Columns[t])}

Row(t) == [ColumnSet(t) -> Cell]

Key(t) == Columns[t][1]

Sheet == [name : Table \cup OtherName, header : Seq(Column), rows : Seq(Seq(Cell))]

Injective(s) == \A i, j \in 1..Len(s) : s[i] = s[j] => i = j

ASSUME TableAssumption ==
  /\ \A t \in Table : Columns[t] \in Seq(Column) /\ Len(Columns[t]) > 0 /\ Injective(Columns[t])
  /\ TableOrder \in Seq(Table) /\ Injective(TableOrder)
  /\ \A t \in Table : \E i \in 1..Len(TableOrder) : TableOrder[i] = t
  /\ Len(TableOrder) > 0
  /\ Table \cap OtherName = {}

ASSUME CellAssumption ==
  /\ Number \cap Word = {}
  /\ Null \notin Number \cup Word
  /\ Doubled \subseteq Quoted /\ Quoted \subseteq Word
  /\ Unquote \in [Doubled -> Quoted]
  /\ Spilling \subseteq (SUBSET (Quoted \ Doubled)) \ {{}}
  /\ Double \in [Numeric -> [Number -> Number]]

\* Whatever runs, a table keeps its columns and the uniqueness of its keys.
ASSUME AftermathAssumption ==
  \A D \in Aftermath :
    /\ D \in [Table -> SUBSET UNION {Row(t) : t \in Table}]
    /\ \A t \in Table :
         /\ D[t] \subseteq Row(t) /\ IsFiniteSet(D[t])
         /\ \A r, s \in D[t] : r[Key(t)] = s[Key(t)] => r = s

\* No name of a sheet and no header in it is there twice, and its first
\* column is the key of its table.
ASSUME UserAssumption ==
  \A s \in UserSheets :
    /\ s \in Seq(Sheet) /\ Len(s) > 0 /\ Injective([k \in 1..Len(s) |-> s[k].name])
    /\ \A k \in 1..Len(s) :
         /\ Injective(s[k].header) /\ Len(s[k].header) > 0
         /\ s[k].name \in Table => s[k].header[1] = Key(s[k].name)
         /\ \A n \in 1..Len(s[k].rows) :
              Len(s[k].rows[n]) = Len(s[k].header) /\ s[k].rows[n][1] # Null

\* The form asks for a number where the column is one.
ASSUME EntryAssumption ==
  /\ Students \in Table
  /\ Entry \subseteq {r \in Row(Students) : \A c \in ColumnSet(Students) \cap Numeric : r[c] \in Number}

ASSUME FlagAssumption == MayFail \in BOOLEAN

VARIABLES
  db,         \* db[t]: the rows of table t
  excel,      \* the workbook at the path that the calls are given
  pc,         \* pc[p]: the step p's call makes next, "idle" between calls
  conn,       \* conn[p]: does database_ of p's handler point to a connection?
  book,       \* book[p]: the workbook p's call holds in memory
  at,         \* at[p]: the sheet and the row the call has come to
  before,     \* history: the tables as they were when p's call began (for an
              \* import: those the workbook has no sheet for)
  disturbed,  \* history: during p's call another connection wrote, or a row
              \* of its own ran as SQL
  tainted,    \* history: a workbook with odd columns, cells or rows was imported
  faulted     \* history: a call of p since its start threw or could not open

vars == <<db, excel, pc, conn, book, at, before, disturbed, tainted, faulted>>

(***************************************************************************)
(* Workbooks.  "own" is history: the book was written by exportToExcel.    *)
(* NoBook stands for no file, or one that cannot be loaded.                *)
(***************************************************************************)
NoBook == [own |-> FALSE, sheets |-> <<>>]

UserBook == {[own |-> FALSE, sheets |-> s] : s \in UserSheets}

CurrentSheet(p) == book[p].sheets[at[p].sheet]

Heads(header, c) == \E i \in 1..Len(header) : header[i] = c

IndexOf(header, c) == CHOOSE i \in 1..Len(header) : header[i] = c

\* The place of the i-th header among those that are columns of the table.
Place(t, header, i) == Cardinality({j \in 1..i : header[j] \in ColumnSet(t)})

\* Mutant: the columns are not listed, and the cells go by the order of the table.
MutantPastedRow(s, cells) ==
  [c \in ColumnSet(s.name) |->
     IF Heads(s.header, c) THEN cells[IndexOf(Columns[s.name], c)] ELSE Null]

\* The texts that are pasted for a row: a column gets the cell whose place in
\* the row is the place of its name among the names that were kept, whichever
\* header stands above that cell.
PastedRow(s, cells) ==
  [c \in ColumnSet(s.name) |->
     IF Heads(s.header, c) THEN cells[Place(s.name, s.header, IndexOf(s.header, c))]
                           ELSE Null]

\* The texts of a row that do not end where the statement ends them.
OddTexts(row) == {row[c] : c \in DOMAIN row} \cap (Quoted \ Doubled)

\* A row as SQL reads it.
AsRead(row) == [c \in DOMAIN row |-> IF row[c] \in Doubled THEN Unquote[row[c]] ELSE row[c]]

StoredRow(s, cells) == AsRead(PastedRow(s, cells))

\* SQLite refuses a row whose key is taken or no integer where it has to be one.
Refused(t, row) ==
  \/ \E s \in db[t] : s[Key(t)] = row[Key(t)]
  \/ Key(t) \in Numeric /\ row[Key(t)] \notin Number

\* A numeric column with something in it that std::stoll and std::stod reject.
Alien(t, r) == \E c \in ColumnSet(t) \cap Numeric : r[c] \notin Number

\* Every order of the rows in S.
Orders(S) == {s \in [1..Cardinality(S) -> S] : \A r \in S : \E i \in DOMAIN s : s[i] = r}

\* A row as a sheet shows it: std::stoll and std::stod read its numbers, which
\* become doubles.
Shown(t, row) ==
  [c \in ColumnSet(t) |-> IF c \in Numeric THEN Double[c][row[c]] ELSE row[c]]

\* The sheet exportToExcel makes of a table whose rows come in the order s.
SheetOf(t, s) ==
  [name   |-> t,
   header |-> Columns[t],
   rows   |-> [n \in 1..Len(s) |-> [i \in 1..Len(Columns[t]) |-> Shown(t, s[n])[Columns[t][i]]]]]

(***************************************************************************)
(* Is a sheet odd: a column its table lacks, a text in a numeric one, or a *)
(* row that may run as SQL?                                                *)
(***************************************************************************)
HeaderKnown(s) == s.name \in Table => \A i \in 1..Len(s.header) : s.header[i] \in ColumnSet(s.name)

NumbersInPlace(s) ==
  s.name \in Table =>
    /\ \A n \in 1..Len(s.rows), i \in 1..Len(s.header) :
         s.header[i] \in Numeric => s.rows[n][i] \in Number
    /\ \A c \in ColumnSet(s.name) \cap Numeric : Heads(s.header, c)

NoRowSpills(s) ==
  s.name \in Table => \A n \in 1..Len(s.rows) : OddTexts(PastedRow(s, s.rows[n])) \notin Spilling

Plain(b) ==
  \A k \in 1..Len(b.sheets) :
    HeaderKnown(b.sheets[k]) /\ NumbersInPlace(b.sheets[k]) /\ NoRowSpills(b.sheets[k])

-----------------------------------------------------------------------------
Importing == {"clear", "rows", "close"}

Exporting == {"sheets", "save"}

NoPlace == [sheet |-> 1, row |-> 1]

NoRows == [t \in Table |-> {}]

Init ==
  /\ db = NoRows
  /\ excel = NoBook
  /\ pc = [p \in Program |-> "idle"]
  /\ conn = [p \in Program |-> FALSE]
  /\ book = [p \in Program |-> NoBook]
  /\ at = [p \in Program |-> NoPlace]
  /\ before = [p \in Program |-> NoRows]
  /\ disturbed = [p \in Program |-> FALSE]
  /\ tainted = FALSE
  /\ faulted = [p \in Program |-> FALSE]

\* Mutant: an export holds no lock between two tables.
MutantLocked(p) == FALSE

\* The query over sqlite_master keeps the file locked until its last row.
Locked(p) == \E q \in Program \ {p} : pc[q] = "sheets"

Writes(p) == ~Locked(p)

WriteFails(p) == Locked(p) \/ MayFail

\* p writes: whoever else is in a call is disturbed by it.
Disturb(p) ==
  disturbed' = [q \in Program |-> disturbed[q] \/ (q # p /\ pc[q] # "idle")]

\* p's call goes on at the step `label`.
Goto(p, label, place) ==
  /\ pc' = [pc EXCEPT ![p] = label]
  /\ at' = [at EXCEPT ![p] = place]
  /\ UNCHANGED <<conn, book, before, faulted>>

\* p's call is over.
Leave(p) ==
  /\ pc' = [pc EXCEPT ![p] = "idle"]
  /\ at' = [at EXCEPT ![p] = NoPlace]
  /\ book' = [book EXCEPT ![p] = NoBook]
  /\ before' = [before EXCEPT ![p] = NoRows]

End(p) == Leave(p) /\ disturbed' = [disturbed EXCEPT ![p] = FALSE]

\* A return, after closeDatabase: database_ points nowhere.  An export's
\* connection itself stays open, since its query is still there then; once
\* the call has left, nothing points to that connection and it locks nothing.
Return(p) ==
  /\ End(p)
  /\ conn' = [conn EXCEPT ![p] = FALSE]
  /\ UNCHANGED faulted

\* An exception: nobody closes the connection or releases the workbook.
Fault(p) ==
  /\ faulted' = [faulted EXCEPT ![p] = TRUE]
  /\ UNCHANGED conn

Throw(p) == End(p) /\ Fault(p)

-----------------------------------------------------------------------------
(***************************************************************************)
(* openDatabase.  The constructor may throw, which leaves the pointer as   *)
(* it was, or key() may, when it points to the new connection.             *)
(***************************************************************************)
OpenFails(p) ==
  /\ MayFail
  /\ End(p)
  /\ \E c \in {conn[p], TRUE} : conn' = [conn EXCEPT ![p] = c]
  /\ faulted' = [faulted EXCEPT ![p] = TRUE]

Begin(p, label, b) ==
  /\ pc' = [pc EXCEPT ![p] = label]
  /\ at' = [at EXCEPT ![p] = NoPlace]
  /\ conn' = [conn EXCEPT ![p] = TRUE]
  /\ book' = [book EXCEPT ![p] = b]
  /\ disturbed' = [disturbed EXCEPT ![p] = FALSE]
  /\ UNCHANGED faulted

\* Mutant: a workbook that cannot be loaded ends the call at once.
MutantLoadFails(p) ==
  /\ excel = NoBook \/ MayFail
  /\ End(p)
  /\ conn' = [conn EXCEPT ![p] = TRUE]
  /\ UNCHANGED faulted

\* An empty path, a file that is missing or no workbook: false.
LoadFails(p) == (excel = NoBook \/ MayFail) /\ Return(p)

\* The tables as far as the workbook b has no sheet for them.
Others(b) ==
  [t \in Table |-> IF \E k \in 1..Len(b.sheets) : b.sheets[k].name = t THEN {} ELSE db[t]]

\* importFromExcel opens the file and loads the whole workbook.
ImportFromExcel(p) ==
  /\ pc[p] = "idle" /\ p \in Importer
  /\ \/ OpenFails(p) /\ UNCHANGED tainted
     \/ LoadFails(p) /\ UNCHANGED tainted
     \/ /\ excel # NoBook
        /\ Begin(p, "clear", excel)
        /\ before' = [before EXCEPT ![p] = Others(excel)]
        /\ tainted' = (tainted \/ ~Plain(excel))
  /\ UNCHANGED <<db, excel>>

\* Mutant: the rows are counted up to lastRow itself, as insertData does.
MutantContinue(p, row) ==
  IF row <= Len(CurrentSheet(p).rows) + 1
  THEN Goto(p, "rows", [sheet |-> at[p].sheet, row |-> row])
  ELSE Goto(p, IF at[p].sheet < Len(book[p].sheets) THEN "clear" ELSE "close",
               [sheet |-> at[p].sheet + 1, row |-> 1])

\* What comes after the row `row` of the present sheet.
Continue(p, row) ==
  IF row <= Len(CurrentSheet(p).rows)
  THEN Goto(p, "rows", [sheet |-> at[p].sheet, row |-> row])
  ELSE Goto(p, IF at[p].sheet < Len(book[p].sheets) THEN "clear" ELSE "close",
               [sheet |-> at[p].sheet + 1, row |-> 1])

\* Mutant: the rows of the table are kept.
MutantClear(p) ==
  /\ pc[p] = "clear"
  /\ \/ /\ CurrentSheet(p).name \in Table /\ Writes(p)
        /\ Disturb(p)
        /\ Continue(p, 1)
     \/ /\ CurrentSheet(p).name \notin Table \/ WriteFails(p)
        /\ Throw(p)
  /\ UNCHANGED <<db, excel, tainted>>

\* DELETE FROM the table of the sheet, which throws when there is no such
\* table (the branch that would create it comes later and is never reached);
\* then the headers are read.
Clear(p) ==
  /\ pc[p] = "clear"
  /\ \/ /\ CurrentSheet(p).name \in Table /\ Writes(p)
        /\ db' = [db EXCEPT ![CurrentSheet(p).name] = {}]
        /\ Disturb(p)
        /\ Continue(p, 1)
     \/ /\ CurrentSheet(p).name \notin Table \/ WriteFails(p)
        /\ Throw(p)
        /\ UNCHANGED db
  /\ UNCHANGED <<excel, tainted>>

NextTexts(p) == OddTexts(PastedRow(CurrentSheet(p), CurrentSheet(p).rows[at[p].row]))

NextRow(p) == StoredRow(CurrentSheet(p), CurrentSheet(p).rows[at[p].row])

\* Can the INSERT of the next row be executed?
Accepted(p) == NextTexts(p) = {} /\ ~Refused(CurrentSheet(p).name, NextRow(p))

\* The next row runs as SQL: statements of its own, or a row with its texts in
\* other columns.  A statement among them may fail after others were executed.
Spill(p) ==
  /\ NextTexts(p) \in Spilling /\ Writes(p)
  /\ db' \in Aftermath
  /\ \/ /\ Continue(p, at[p].row + 1)
        /\ disturbed' = [q \in Program |-> disturbed[q] \/ pc[q] # "idle"]
     \/ /\ Leave(p) /\ Fault(p)
        /\ disturbed' = [q \in Program |-> q # p /\ (disturbed[q] \/ pc[q] # "idle")]

\* Mutant: a row that is refused is passed over.
MutantInsertRow(p) ==
  /\ pc[p] = "rows"
  /\ Writes(p)
  /\ IF ~Accepted(p) THEN UNCHANGED db
     ELSE db' = [db EXCEPT ![CurrentSheet(p).name] = @ \cup {NextRow(p)}]
  /\ Disturb(p)
  /\ Continue(p, at[p].row + 1)
  /\ UNCHANGED <<excel, tainted>>

\* INSERT of one row.
InsertRow(p) ==
  /\ pc[p] = "rows"
  /\ \/ /\ Accepted(p) /\ Writes(p)
        /\ db' = [db EXCEPT ![CurrentSheet(p).name] = @ \cup {NextRow(p)}]
        /\ Disturb(p)
        /\ Continue(p, at[p].row + 1)
     \/ /\ ~Accepted(p) \/ WriteFails(p)
        /\ Throw(p)
        /\ UNCHANGED db
     \/ Spill(p)
  /\ UNCHANGED <<excel, tainted>>

\* The end of the import: the workbook is released, the connection closed.
Close(p) ==
  /\ pc[p] = "close"
  /\ Return(p)
  /\ UNCHANGED <<db, excel, tainted>>

-----------------------------------------------------------------------------
\* exportToExcel opens the file and begins the query over its tables.
ExportToExcel(p) ==
  /\ pc[p] = "idle" /\ p \in Exporter
  /\ \/ OpenFails(p)
     \/ /\ Begin(p, "sheets", [own |-> TRUE, sheets |-> <<>>])
        /\ before' = [before EXCEPT ![p] = db]
  /\ UNCHANGED <<db, excel, tainted>>

\* Mutant: a table without rows gets no sheet, but for the first.
MutantWriteSheet(p) ==
  /\ pc[p] = "sheets"
  /\ LET t == TableOrder[at[p].sheet]
     IN  /\ \E s \in Orders(db[t]) :
              book' = IF db[t] = {} /\ book[p].sheets # <<>> THEN book
                      ELSE [book EXCEPT ![p].sheets = Append(@, SheetOf(t, s))]
         /\ pc' = [pc EXCEPT ![p] = IF at[p].sheet < Len(TableOrder) THEN "sheets" ELSE "save"]
         /\ at' = [at EXCEPT ![p].sheet = @ + 1]
         /\ UNCHANGED <<conn, before, disturbed, faulted>>
  /\ UNCHANGED <<db, excel, tainted>>

\* Sheet by sheet, in memory.
WriteSheet(p) ==
  /\ pc[p] = "sheets"
  /\ LET t == TableOrder[at[p].sheet]
     IN  \/ MayFail /\ Return(p)
         \/ /\ (\E r \in db[t] : Alien(t, r)) \/ MayFail
            /\ Throw(p)
         \/ /\ \A r \in db[t] : ~Alien(t, r)
            /\ \E s \in Orders(db[t]) : book' = [book EXCEPT ![p].sheets = Append(@, SheetOf(t, s))]
            /\ pc' = [pc EXCEPT ![p] = IF at[p].sheet < Len(TableOrder) THEN "sheets" ELSE "save"]
            /\ at' = [at EXCEPT ![p].sheet = @ + 1]
            /\ UNCHANGED <<conn, before, disturbed, faulted>>
  /\ UNCHANGED <<db, excel, tainted>>

\* The workbook is written by the library in one call.
SaveBook(p) ==
  /\ pc[p] = "save"
  /\ \/ excel' = book[p] /\ Return(p)
     \/ MayFail /\ Return(p) /\ UNCHANGED excel
  /\ UNCHANGED <<db, tainted>>

-----------------------------------------------------------------------------
(***************************************************************************)
(* clearTable, public like tableExists: both dereference database_.  With  *)
(* no connection the process is gone.                                      *)
(***************************************************************************)
Exit(p) ==
  /\ End(p)
  /\ conn' = [conn EXCEPT ![p] = FALSE]
  /\ faulted' = [faulted EXCEPT ![p] = FALSE]

ClearTable(p) ==
  /\ pc[p] = "idle"
  /\ \/ ~conn[p] /\ Exit(p) /\ UNCHANGED db
     \/ /\ conn[p] /\ Writes(p)
        /\ \E t \in Table : db' = [db EXCEPT ![t] = {}]
        /\ Disturb(p)
        /\ UNCHANGED <<pc, conn, book, at, before, faulted>>
  /\ UNCHANGED <<excel, tainted>>

(***************************************************************************)
(* The student entries.  insertStudent swallows the failure of its         *)
(* statement; deleteStudent and updateStudent do not, and the exception    *)
(* ends the program.                                                       *)
(***************************************************************************)
InsertStudent(p) ==
  /\ pc[p] = "idle"
  /\ Writes(p)
  /\ \E r \in Entry :
       /\ \A s \in db[Students] : s[Key(Students)] # r[Key(Students)]
       /\ db' = [db EXCEPT ![Students] = @ \cup {r}]
  /\ Disturb(p)
  /\ UNCHANGED <<excel, pc, conn, book, at, before, tainted, faulted>>

DeleteStudent(p) ==
  /\ pc[p] = "idle"
  /\ Writes(p)
  /\ \E r \in db[Students] : db' = [db EXCEPT ![Students] = @ \ {r}]
  /\ Disturb(p)
  /\ UNCHANGED <<excel, pc, conn, book, at, before, tainted, faulted>>

UpdateStudent(p) ==
  /\ pc[p] = "idle"
  /\ Writes(p)
  /\ \E r \in db[Students], e \in Entry :
       /\ r[Key(Students)] = e[Key(Students)]
       /\ db' = [db EXCEPT ![Students] = (@ \ {r}) \cup {e}]
  /\ Disturb(p)
  /\ UNCHANGED <<excel, pc, conn, book, at, before, tainted, faulted>>

\* The process dies, at any point, and is started again.  A death in the
\* middle of the save leaves a file that cannot be loaded.
Restart(p) ==
  /\ Exit(p)
  /\ excel' \in IF pc[p] = "save" THEN {excel, NoBook} ELSE {excel}
  /\ UNCHANGED <<db, tainted>>

\* A user puts a workbook of hers there.
PlaceBook ==
  /\ excel' \in UserBook
  /\ UNCHANGED <<db, pc, conn, book, at, before, disturbed, tainted, faulted>>

Next ==
  \/ \E p \in Program :
       \/ ImportFromExcel(p) \/ Clear(p) \/ InsertRow(p) \/ Close(p)
       \/ ExportToExcel(p) \/ WriteSheet(p) \/ SaveBook(p)
       \/ ClearTable(p)
       \/ InsertStudent(p) \/ DeleteStudent(p) \/ UpdateStudent(p)
       \/ Restart(p)
  \/ PlaceBook

Spec == Init /\ [][Next]_vars

-----------------------------------------------------------------------------
(***************************************************************************)
(* Properties.                                                             *)
(***************************************************************************)
BookType == [own : BOOLEAN, sheets : Seq(Sheet)]

AnyRow == UNION {Row(t) : t \in Table}

\* Every variable keeps to its type, and no call goes past the end of the
\* workbook, of a sheet or of the list of tables.
TypeOK ==
  /\ db \in [Table -> SUBSET AnyRow] /\ \A t \in Table : db[t] \subseteq Row(t)
  /\ excel \in BookType
  /\ pc \in [Program -> {"idle"} \cup Importing \cup Exporting]
  /\ conn \in [Program -> BOOLEAN]
  /\ book \in [Program -> BookType]
  /\ at \in [Program -> [sheet : Nat, row : Nat]]
  /\ before \in [Program -> [Table -> SUBSET AnyRow]]
  /\ \A p \in Program : pc[p] \in {"clear", "rows"} =>
       /\ at[p].sheet \in 1..Len(book[p].sheets)
       /\ pc[p] = "rows" => at[p].row \in 1..Len(CurrentSheet(p).rows)
  /\ \A p \in Program : pc[p] = "sheets" => at[p].sheet \in 1..Len(TableOrder)
  /\ disturbed \in [Program -> BOOLEAN]
  /\ tainted \in BOOLEAN
  /\ faulted \in [Program -> BOOLEAN]

\* The first n rows of a sheet, each cell under the header it stands under.
SheetRows(s, n) ==
  {[c \in ColumnSet(s.name) |->
      IF Heads(s.header, c) THEN s.rows[r][IndexOf(s.header, c)] ELSE Null] : r \in 1..n}

\* An import of them, as far as the table has their columns.
Holds(rows, s, n) == HeaderKnown(s) => rows[s.name] = {AsRead(row) : row \in SheetRows(s, n)}

\* What a failure or a death leaves of an import: the sheets before the
\* present one are in their tables, the present one up to the row it has
\* come to, each cell in the column it stands under and as SQL reads it, and
\* a table without a sheet was not touched; all this as long as nobody else
\* wrote and no row ran as SQL.  At its end (importFromExcel returns true)
\* every sheet is in its table.
ImportIsPrefix ==
  \A p \in Program : pc[p] \in Importing /\ ~disturbed[p] =>
    /\ \A k \in 1..at[p].sheet - 1 :
         Holds(db, book[p].sheets[k], Len(book[p].sheets[k].rows))
    /\ pc[p] = "rows" => Holds(db, CurrentSheet(p), at[p].row - 1)
    /\ pc[p] = "close" => at[p].sheet > Len(book[p].sheets)
    /\ \A t \in Table :
         (\A k \in 1..Len(book[p].sheets) : book[p].sheets[k].name # t) => db[t] = before[p][t]

\* An exported workbook is one state of the file, table by table what the
\* file held when the export began, whoever tried to write meanwhile, with
\* the numbers as doubles have them and no row twice or missing.
ExportIsSnapshot ==
  \A p \in Program : pc[p] \in Exporting =>
    \A k \in 1..Len(book[p].sheets) :
      SheetRows(book[p].sheets[k], Len(book[p].sheets[k].rows))
        = {Shown(TableOrder[k], row) : row \in before[p][TableOrder[k]]}

HasQuoted(b) ==
  \E k \in 1..Len(b.sheets) : \E n \in 1..Len(b.sheets[k].rows) :
    \E i \in 1..Len(b.sheets[k].rows[n]) : b.sheets[k].rows[n][i] \in Quoted

\* No number in the key column of a sheet is what another number is rounded to.
KeysExact(s) ==
  Key(s.name) \in Numeric =>
    \A n \in 1..Len(s.rows) : \A x \in Number :
      Double[Key(s.name)][x] = s.rows[n][1] => x = s.rows[n][1]

\* A workbook that exportToExcel wrote can be imported again, whatever the
\* tables hold by then: unless a text in it has an apostrophe or a key in the
\* sheet is too large for a double, no row of it is refused.
OwnBookIsAccepted ==
  \A p \in Program :
    /\ pc[p] = "rows" /\ book[p].own /\ ~disturbed[p]
    /\ ~HasQuoted(book[p]) /\ KeysExact(CurrentSheet(p))
    => Accepted(p)

\* Importing an export brings back the file that was exported, if no text in
\* it has an apostrophe: at the end every table has a sheet in the workbook, a
\* table that was empty then as well, and holds the rows of that sheet and no
\* other, whatever it held before.
OwnBookRestores ==
  \A p \in Program : pc[p] = "close" /\ book[p].own /\ ~disturbed[p] /\ ~HasQuoted(book[p]) =>
    \A t \in Table : \E k \in 1..Len(book[p].sheets) :
      /\ book[p].sheets[k].name = t
      /\ db[t] = SheetRows(book[p].sheets[k], Len(book[p].sheets[k].rows))

\* As long as no workbook was imported with a column of its own, a text in a
\* numeric column or a row that may run as SQL, std::stoll and std::stod find
\* numbers: no export ends in an exception because of what is in the tables.
NumbersStayNumbers == ~tainted => \A t \in Table : \A r \in db[t] : ~Alien(t, r)

\* Between two calls database_ points to a connection only after a call that
\* threw or failed to open the file: every other way out of a call, and every
\* step on that way, comes by closeDatabase.  So clearTable and tableExists,
\* which use the pointer as it is, work only after a fault.
PointerOnlyAfterFault == \A p \in Program : pc[p] = "idle" /\ conn[p] => faulted[p]
=============================================================================
