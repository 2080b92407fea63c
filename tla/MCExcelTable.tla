---------------------------- MODULE MCExcelTable ----------------------------
(***************************************************************************)
(* A small instance of ExcelTable for TLC.                                 *)
(***************************************************************************)
EXTENDS ExcelTable, TLC

CONSTANTS p1, p2,   \* two programs
          n1, n2,   \* two numbers
          big,      \* an integer that becomes n2 as a double
          w,        \* a word
          q, o, x,  \* words with apostrophes: doubled; not; a row of its own as SQL
          none      \* no text

first == {p1}

both == {p1, p2}

tables == {"users", "students"}

order == <<"users", "students">>

columns == [users |-> <<"username", "password">>, students |-> <<"id", "name", "score">>]

\* One user; one student with a large id and a name that is unquoted, the
\* columns in another order than the table's.
plain == << [name |-> "users", header |-> <<"username", "password">>, rows |-> << <<w, w>> >>],
            [name |-> "students", header |-> <<"id", "score", "name">>, rows |-> << <<big, n1, q>> >>] >>

\* A column the table lacks, in the middle; under it a text that runs as SQL;
\* a key that is taken; no rows; a sheet for no table.
odd == << [name |-> "students", header |-> <<"id", "score", "nick", "name">>,
           rows |-> << <<n1, n1, w, q>>, <<n2, n2, x, w>>, <<n1, n2, w, w>> >>],
          [name |-> "users", header |-> <<"username", "password">>, rows |-> <<>>],
          [name |-> "marks", header |-> <<"id">>, rows |-> <<>>] >>

userSheets == {plain, odd}

unquote == [y \in {q} |-> o]

double == [c \in {"id", "score"} |->
             [n \in {n1, n2, big} |-> IF c = "id" /\ n = big THEN n2 ELSE n]]

\* All rows deleted, and a text put in a numeric column.
aftermath == {[users |-> {}, students |-> {[id |-> n1, name |-> w, score |-> w]}]}

entries == {[id |-> n1, name |-> w, score |-> n1]}
=============================================================================
