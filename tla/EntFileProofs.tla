---------------------------- MODULE EntFileProofs ----------------------------
(***************************************************************************)
(* Theorems about EntFile, for any number of processes, names and values.  *)
(***************************************************************************)
EXTENDS EntFile, TLAPS

-----------------------------------------------------------------------------
(***************************************************************************)
(* Documents and files.                                                    *)
(***************************************************************************)

\* A document without keys is a document (Cipher.cpp:89-92).
LEMMA NoKeysIsDocument == NoKeys \in Keys
BY DEF NoKeys, Keys

\* Adding a key to a document sets that entry and no other
\* (Aes256Cipher.cpp:417, RsaCipher.cpp:449-452).
LEMMA AddKeyEffect ==
  ASSUME NEW keys \in Keys, NEW t \in Table, NEW i \in KeyId,
         NEW v \in Value \cup {NoValue}
  PROVE  /\ AddKey(keys, t, i, v) \in Keys
         /\ AddKey(keys, t, i, v)[t][i] = v
         /\ \A u \in Table, j \in KeyId :
              <<u, j>> # <<t, i>> => AddKey(keys, t, i, v)[u][j] = keys[u][j]
BY DEF AddKey, Keys

\* A file without contents is a file.
LEMMA BlankIsFile ==
  ASSUME NEW form \in Form
  PROVE  Blank(form) \in File
BY NoKeysIsDocument DEF Blank, File

\* The text that encrypt returns is empty or a whole file (RsaCipher.cpp:184-229).
LEMMA EncryptIsFile ==
  ASSUME NEW pub \in EntKey \cup {BadKey}, NEW keys \in Keys
  PROVE  /\ Encrypt(pub, keys) \in File
         /\ Encrypt(pub, keys).form \in {"empty", "whole"}
         /\ Encrypt(pub, keys).form = "whole" =>
              Encrypt(pub, keys).ent # BadKey /\ Encrypt(pub, keys).keys = keys
BY BlankIsFile, NoKeysIsDocument DEF Encrypt, File, Form, Blank

\* What a write, complete or interrupted, leaves is a file.
LEMMA WrittenIsFile ==
  ASSUME file \in File, file.form = "whole" => file.ent # BadKey,
         NEW pub \in EntKey \cup {BadKey}, NEW keys \in Keys,
         NEW f \in Interrupted(Encrypt(pub, keys))
  PROVE  f \in File /\ (f.form = "whole" => f.ent # BadKey)
<1>1. Encrypt(pub, keys) \in File
      /\ (Encrypt(pub, keys).form = "whole" => Encrypt(pub, keys).ent # BadKey)
  BY EncryptIsFile
<1>2. Blank("torn") \in File /\ Blank("torn").form = "torn"
  BY BlankIsFile DEF Form, Blank
<1>3. f \in {file, Encrypt(pub, keys), Blank("torn")}
  BY DEF Interrupted, Overwritten
<1> QED
  BY <1>1, <1>2, <1>3

\* A write, complete or failed, leaves one of the files an interrupted one
\* may leave (Aes256Cipher.cpp:432-433, Cipher.cpp:107-108).
LEMMA WriteIsInterrupted ==
  ASSUME NEW p, WriteAndClose(p)
  PROVE  file' \in Interrupted(Text(p))
BY DEF WriteAndClose, Interrupted

-----------------------------------------------------------------------------
(***************************************************************************)
(* Type correctness.                                                       *)
(***************************************************************************)

\* The program starts without a file, with every process idle.
LEMMA TypeInit == Init => TypeOK
<1> SUFFICES ASSUME Init PROVE TypeOK
  OBVIOUS
<1>1. file \in File /\ file.form = "absent"
  BY BlankIsFile DEF Init, Form, Blank
<1>2. snap \in [Proc -> Keys]
  BY NoKeysIsDocument DEF Init
<1>3. ent \in [Proc -> EntPair]
  BY EntAssumption DEF Init
<1>4. result \in [Proc -> Outcome]
  BY DEF Init, Outcome, Ended
<1>5. call \in [Proc -> [table : Table \cup {"none"}, id : KeyId \cup {NoValue},
                        value : Value \cup {NoValue}]]
  BY DEF Init, NoCall
<1>6. \A p \in Proc : pc[p] = "idle"
  BY DEF Init
<1> QED
  BY <1>1, <1>2, <1>3, <1>4, <1>5, <1>6 DEF Init, TypeOK, Writers, Readers

\* Every step of the cipher objects keeps the types.
LEMMA TypeStep == TypeOK /\ [Next]_vars => TypeOK'
<1> SUFFICES ASSUME TypeOK, [Next]_vars PROVE TypeOK'
  OBVIOUS
<1> USE DEF TypeOK
<1>b. ASSUME NEW p \in Proc, NEW label \in {"probe", "read", "find"},
             NEW t \in Table, NEW i \in KeyId, NEW v \in Value \cup {NoValue},
             label = "probe" => v \in Value,
             Begin(p, label, t, i, v)
      PROVE  TypeOK'
  BY <1>b DEF Begin, Writers, Readers
<1>r. ASSUME NEW p \in Proc, NEW o \in Outcome, Return(p, o),
             UNCHANGED <<file, cutShort>>, acked' = acked, mistaken' = mistaken
      PROVE  TypeOK'
  BY <1>r, NoKeysIsDocument DEF Return, NoCall, Writers, Readers
<1>e. \A k \in {"none", "true", "false", "thrown", "undefined"} : Ended(k) \in Outcome
  BY DEF Ended, Outcome
<1>1. ASSUME NEW p \in Proc, WriteKeyToFile(p) PROVE TypeOK'
  BY <1>1, <1>b DEF WriteKeyToFile
<1>2. ASSUME NEW p \in Proc, ReadKeyFromFile(p) PROVE TypeOK'
  BY <1>2, <1>b DEF ReadKeyFromFile
<1>3. ASSUME NEW p \in Proc, IsKeyExists(p) PROVE TypeOK'
  BY <1>3, <1>b DEF IsKeyExists
<1>4. ASSUME NEW p \in Proc, SetEntKeyPair(p) PROVE TypeOK'
  BY <1>4 DEF SetEntKeyPair
<1>5. ASSUME NEW p \in Proc, Restart(p) PROVE TypeOK'
  <2>1. ent[p].pub \in EntKey \cup {BadKey}
    BY EntAssumption
  <2>2. file' \in File /\ (file'.form = "whole" => file'.ent # BadKey)
    BY <1>5, <2>1, WrittenIsFile, NoKeysIsDocument DEF Restart, Text
  <2>3. snap' \in [Proc -> Keys] /\ ent' \in [Proc -> EntPair] /\ result' \in [Proc -> Outcome]
    BY <1>5, <1>e, EntAssumption, NoKeysIsDocument DEF Restart
  <2> QED
    BY <1>5, <2>2, <2>3 DEF Restart, NoCall, Writers, Readers
<1>6. ASSUME NEW p \in Proc, Probe(p) PROVE TypeOK'
  BY <1>6 DEF Probe, Goto, TakeForMissing, Writers, Readers
<1>7. ASSUME NEW p \in Proc, CreateBinaryEntFile(p) PROVE TypeOK'
  <2>1. Blank("empty") \in File /\ Blank("empty").form # "whole"
    BY BlankIsFile DEF Form, Blank
  <2>2. CASE Throw(p) /\ UNCHANGED file
    BY <1>7, <2>2, <1>r, <1>e DEF CreateBinaryEntFile, Throw
  <2>3. CASE file' = Blank("empty") /\ Goto(p, "init") /\ UNCHANGED snap
    BY <1>7, <2>1, <2>3 DEF CreateBinaryEntFile, Goto, Writers, Readers
  <2> QED
    BY <1>7, <2>2, <2>3 DEF CreateBinaryEntFile
<1>8. ASSUME NEW p \in Proc, WriteEmptyTables(p) PROVE TypeOK'
  <2>1. ent[p].pub \in EntKey \cup {BadKey}
    BY EntAssumption
  <2>2. file' \in File /\ (file'.form = "whole" => file'.ent # BadKey)
    BY <1>8, <2>1, WrittenIsFile, WriteIsInterrupted, NoKeysIsDocument DEF WriteEmptyTables, Text
  <2> QED
    BY <1>8, <2>2 DEF WriteEmptyTables, WriteAndClose, Goto, Writers, Readers
<1>9. ASSUME NEW p \in Proc, CheckDuplicate(p) PROVE TypeOK'
  <2>1. CASE Goto(p, "load") /\ UNCHANGED snap
    BY <1>9, <2>1 DEF CheckDuplicate, Goto, TakeForMissing, Writers, Readers
  <2>2. CASE Throw(p) /\ UNCHANGED mistaken
    BY <1>9, <2>2, <1>r, <1>e DEF CheckDuplicate, Throw
  <2>3. CASE Refuse(p) /\ UNCHANGED <<acked, mistaken>>
    BY <1>9, <2>3, <1>r, <1>e DEF CheckDuplicate, Refuse
  <2> QED
    BY <1>9, <2>1, <2>2, <2>3 DEF CheckDuplicate
<1>10. ASSUME NEW p \in Proc, LoadDocument(p) PROVE TypeOK'
  <2>1. CASE Throw(p)
    BY <1>10, <2>1, <1>r, <1>e DEF LoadDocument, Throw
  <2>2. CASE /\ snap' = [snap EXCEPT ![p] =
                 AddKey(file.keys, call[p].table, call[p].id, call[p].value)]
             /\ Goto(p, "open")
    <3>1. AddKey(file.keys, call[p].table, call[p].id, call[p].value) \in Keys
      BY <1>10, AddKeyEffect DEF LoadDocument, Writers, File
    <3> QED
      BY <1>10, <2>2, <3>1 DEF LoadDocument, Goto, Writers, Readers
  <2> QED
    BY <1>10, <2>1, <2>2 DEF LoadDocument
<1>11. ASSUME NEW p \in Proc, OpenForWriting(p) PROVE TypeOK'
  <2>1. Blank("empty") \in File /\ Blank("empty").form # "whole"
    BY BlankIsFile DEF Form, Blank
  <2>2. CASE Throw(p) /\ UNCHANGED file
    BY <1>11, <2>2, <1>r, <1>e DEF OpenForWriting, Throw
  <2>3. CASE file' = Blank("empty") /\ Goto(p, "store") /\ UNCHANGED snap
    BY <1>11, <2>1, <2>3 DEF OpenForWriting, Goto, Writers, Readers
  <2> QED
    BY <1>11, <2>2, <2>3 DEF OpenForWriting
<1>12. ASSUME NEW p \in Proc, StoreDocument(p) PROVE TypeOK'
  <2>1. ent[p].pub \in EntKey \cup {BadKey}
    BY EntAssumption
  <2>2. file' \in File /\ (file'.form = "whole" => file'.ent # BadKey)
    BY <1>12, <2>1, WrittenIsFile, WriteIsInterrupted DEF StoreDocument, Text
  <2>3. call[p] \in [table : Table, id : KeyId, value : Value]
    BY <1>12 DEF StoreDocument, Writers
  <2> QED
    BY <1>12, <2>2, <2>3, <1>e, NoKeysIsDocument
    DEF StoreDocument, WriteAndClose, Return, NoCall, Writers, Readers
<1>13. ASSUME NEW p \in Proc, ReadDocument(p) PROVE TypeOK'
  <2>1. CASE Throw(p)
    BY <1>13, <2>1, <1>r, <1>e DEF ReadDocument, Throw
  <2>2. CASE snap' = [snap EXCEPT ![p] = file.keys] /\ Goto(p, "confirm")
    BY <1>13, <2>2 DEF ReadDocument, Goto, File, Writers, Readers
  <2> QED
    BY <1>13, <2>1, <2>2 DEF ReadDocument
<1>14. ASSUME NEW p \in Proc, ConfirmKey(p) PROVE TypeOK'
  <2>1. CASE Throw(p)
    BY <1>14, <2>1, <1>r, <1>e DEF ConfirmKey, Throw
  <2>2. CASE Return(p, Lookup(snap[p], call[p].table, call[p].id)) /\ UNCHANGED acked
    <3>1. call[p].table \in Table /\ call[p].id \in KeyId /\ snap[p] \in Keys
      BY <1>14 DEF ConfirmKey
    <3>2. snap[p][call[p].table][call[p].id] \in Value \cup {NoValue}
      BY <3>1 DEF Keys
    <3>3. Lookup(snap[p], call[p].table, call[p].id) \in Outcome
      BY <3>2, <1>e DEF Lookup, HasKey, Outcome
    <3> QED
      BY <1>14, <2>2, <3>3, <1>r DEF ConfirmKey
  <2> QED
    BY <1>14, <2>1, <2>2 DEF ConfirmKey
<1>15. ASSUME NEW p \in Proc, FindKey(p) PROVE TypeOK'
  BY <1>15, <1>r, <1>e DEF FindKey
<1>16. CASE UNCHANGED vars
  BY <1>16 DEF vars
<1> QED
  BY <1>1, <1>2, <1>3, <1>4, <1>5, <1>6, <1>7, <1>8, <1>9, <1>10, <1>11, <1>12,
     <1>13, <1>14, <1>15, <1>16 DEF Next, Step

\* Every variable keeps to its type, however the processes interleave.
THEOREM TypeCorrect == Spec => []TypeOK
BY TypeInit, TypeStep, PTL DEF Spec

-----------------------------------------------------------------------------
(***************************************************************************)
(* Writers that take turns.  WritersInTurn is inductive; it is needed      *)
(* because AckedKeyStored alone says nothing of the document that a writer *)
(* holds in memory while the file is truncated.                            *)
(***************************************************************************)
Inv == TypeOK /\ WritersInTurn

\* Nothing is written and nothing acknowledged before the first call.
LEMMA TurnsInit == Init => WritersInTurn
BY DEF Init, WritersInTurn, OneWriter, WriterHoldsEmptyFile, FileStaysThere,
   CreatorIsFirst, NothingAckedBeforeCreation, AppenderIsCurrent, Writers, Writing, Blank

\* A step that leaves the file, the acknowledgements and every writer alone.
LEMMA QuietStep ==
  ASSUME WritersInTurn, UNCHANGED <<file, acked>>, mistaken' = mistaken,
         \A q \in Proc : pc'[q] \in Writers =>
           /\ pc'[q] = pc[q] /\ call'[q] = call[q]
           /\ snap'[q] = snap[q] /\ ent'[q] = ent[q]
  PROVE  WritersInTurn'
<1> USE DEF WritersInTurn
<1>1. OneWriter' /\ WriterHoldsEmptyFile' /\ FileStaysThere'
  BY DEF OneWriter, WriterHoldsEmptyFile, FileStaysThere, Writers, Writing
<1>2. ASSUME ~mistaken PROVE CreatorIsFirst' /\ NothingAckedBeforeCreation'
  BY <1>2 DEF CreatorIsFirst, NothingAckedBeforeCreation, Writers
<1>3. ASSUME ~mistaken PROVE AppenderIsCurrent'
  BY <1>3 DEF AppenderIsCurrent, SlotIsFree, Writers
<1>4. ASSUME ~mistaken
      PROVE  (~Damaged => \A k \in acked : file.keys[k.table][k.id] = k.value)'
  BY <1>4 DEF Damaged
<1> QED
  BY <1>1, <1>2, <1>3, <1>4

\* A call that ends without a write is such a step.
LEMMA ReturnIsQuiet ==
  ASSUME Inv, NEW p \in Proc, NEW o, Return(p, o),
         UNCHANGED <<file, acked>>, mistaken' = mistaken
  PROVE  WritersInTurn'
<1>1. \A q \in Proc : pc'[q] \in Writers =>
        /\ pc'[q] = pc[q] /\ call'[q] = call[q]
        /\ snap'[q] = snap[q] /\ ent'[q] = ent[q]
  BY DEF Return, Inv, TypeOK, Writers
<1> QED
  BY <1>1, QuietStep DEF Inv

\* While one process writes, no other is a writer.
LEMMA OtherIsNoWriter ==
  ASSUME OneWriter, NEW p \in Proc, pc[p] \in Writers
  PROVE  \A q \in Proc : pc[q] \in Writers => q = p
BY DEF OneWriter

\* After a step that leaves p the only writer, p alone is to be looked at.
LEMMA OnlyWriter ==
  ASSUME NEW p \in Proc, \A q \in Proc : pc'[q] \in Writers => q = p,
         (pc[p] \in Writing => file.form = "empty")',
         (pc[p] \in Writers \ {"probe", "create"} => file.form # "absent")',
         ~mistaken' =>
           /\ (pc[p] = "create" => file.form = "absent")'
           /\ (pc[p] = "init" => acked = {})'
           /\ (file.form = "absent" => acked = {})'
           /\ (pc[p] \in {"load", "open"} =>
                 Decodes(ent[p], file) /\ SlotIsFree(file.keys, p))'
           /\ (pc[p] = "open" =>
                 snap[p] = AddKey(file.keys, call[p].table, call[p].id, call[p].value))'
           /\ (pc[p] = "store" =>
                 /\ HasKey(snap[p], call[p].table, call[p].id)
                 /\ snap[p][call[p].table][call[p].id] = call[p].value
                 /\ \A k \in acked : snap[p][k.table][k.id] = k.value)'
           /\ (~Damaged => \A k \in acked : file.keys[k.table][k.id] = k.value)'
  PROVE  WritersInTurn'
<1>1. OneWriter' /\ WriterHoldsEmptyFile' /\ FileStaysThere'
  BY DEF OneWriter, WriterHoldsEmptyFile, FileStaysThere, Writers, Writing
<1>2. ASSUME ~mistaken' PROVE CreatorIsFirst' /\ NothingAckedBeforeCreation'
  BY <1>2 DEF CreatorIsFirst, NothingAckedBeforeCreation, Writers
<1>3. ASSUME ~mistaken' PROVE AppenderIsCurrent'
  BY <1>3 DEF AppenderIsCurrent, Writers
<1> QED
  BY <1>1, <1>2, <1>3 DEF WritersInTurn

\* A write call starts only when no other is under way.
LEMMA TurnsBegin ==
  ASSUME Inv, Serial, NEW p \in Proc, WriteKeyToFile(p)
  PROVE  WritersInTurn'
<1>1. \A q \in Proc : pc[q] \notin Writers
  BY DEF WriteKeyToFile
<1>2. /\ pc' = [pc EXCEPT ![p] = "probe"]
      /\ UNCHANGED <<file, acked>> /\ mistaken' = mistaken
  BY DEF WriteKeyToFile, Begin
<1>3. pc'[p] = "probe" /\ \A q \in Proc : pc'[q] \in Writers => q = p
  BY <1>1, <1>2 DEF Inv, TypeOK
<1> QED
  BY <1>2, <1>3, OnlyWriter
  DEF Inv, WritersInTurn, NothingAckedBeforeCreation, Damaged, Writing

\* The probe, with or without a failed open.
LEMMA TurnsProbe ==
  ASSUME Inv, NEW p \in Proc, Probe(p)
  PROVE  WritersInTurn'
<1>1. \A q \in Proc : pc'[q] \in Writers => q = p
  BY OtherIsNoWriter DEF Probe, Goto, Inv, TypeOK, WritersInTurn, Writers
<1>2. /\ UNCHANGED <<file, acked>>
      /\ mistaken => mistaken'
      /\ \/ pc'[p] = "dup" /\ file.form # "absent"
         \/ pc'[p] = "create" /\ (~mistaken' => file.form = "absent")
  BY DEF Probe, Goto, Opens, TakeForMissing, Inv, TypeOK
<1> QED
  BY <1>1, <1>2, OnlyWriter
  DEF Inv, TypeOK, WritersInTurn, NothingAckedBeforeCreation, Damaged, Writing

\* The creation of the file.
LEMMA TurnsCreate ==
  ASSUME Inv, NEW p \in Proc, CreateBinaryEntFile(p)
  PROVE  WritersInTurn'
<1>1. CASE Throw(p) /\ UNCHANGED file
  BY <1>1, ReturnIsQuiet DEF CreateBinaryEntFile, Throw
<1>2. CASE file' = Blank("empty") /\ Goto(p, "init") /\ UNCHANGED snap
  <2>1. \A q \in Proc : pc'[q] \in Writers => q = p
    BY <1>2, OtherIsNoWriter DEF CreateBinaryEntFile, Goto, Inv, TypeOK, WritersInTurn, Writers
  <2>2. pc'[p] = "init" /\ acked' = acked /\ mistaken' = mistaken /\ file'.form = "empty"
    BY <1>2 DEF CreateBinaryEntFile, Goto, Inv, TypeOK, Blank
  <2>3. ~mistaken => acked = {}
    BY DEF CreateBinaryEntFile, Inv, WritersInTurn, CreatorIsFirst, NothingAckedBeforeCreation
  <2> QED
    BY <2>1, <2>2, <2>3, OnlyWriter DEF Damaged
<1> QED
  BY <1>1, <1>2 DEF CreateBinaryEntFile

\* What a write, complete or not, by the only writer leaves.
LEMMA WrittenOverEmpty ==
  ASSUME file.form = "empty", NEW pub \in EntKey \cup {BadKey}, NEW keys \in Keys,
         NEW f \in Interrupted(Encrypt(pub, keys))
  PROVE  /\ f.form \in {"empty", "torn", "whole"}
         /\ f.form = "whole" => f.keys = keys
<1>1. /\ Encrypt(pub, keys).form \in {"empty", "whole"}
      /\ Encrypt(pub, keys).form = "whole" => Encrypt(pub, keys).keys = keys
  BY EncryptIsFile
<1>2. f \in {file, Encrypt(pub, keys), Blank("torn")}
  BY DEF Interrupted, Overwritten
<1>3. Blank("torn").form = "torn"
  BY DEF Blank
<1> QED
  BY <1>1, <1>2, <1>3

\* The first contents of the file.
LEMMA TurnsInitialize ==
  ASSUME Inv, NEW p \in Proc, WriteEmptyTables(p)
  PROVE  WritersInTurn'
<1>1. \A q \in Proc : pc'[q] \in Writers => q = p
  BY OtherIsNoWriter DEF WriteEmptyTables, Goto, Inv, TypeOK, WritersInTurn, Writers
<1>2. pc'[p] = "dup" /\ acked' = acked /\ mistaken' = mistaken
  BY DEF WriteEmptyTables, Goto, Inv, TypeOK
<1>3. file.form = "empty" /\ (~mistaken => acked = {})
  BY DEF WriteEmptyTables, Inv, WritersInTurn, WriterHoldsEmptyFile, CreatorIsFirst, Writing
<1>4. file'.form # "absent"
  <2>1. ent[p].pub \in EntKey \cup {BadKey}
    BY EntAssumption DEF Inv, TypeOK
  <2>2. file' \in Interrupted(Encrypt(ent[p].pub, NoKeys))
    BY WriteIsInterrupted DEF WriteEmptyTables, Text
  <2> QED
    BY <1>3, <2>1, <2>2, WrittenOverEmpty, NoKeysIsDocument
<1> QED
  BY <1>1, <1>2, <1>3, <1>4, OnlyWriter DEF Damaged, Writing

\* The check for a name that is taken.
LEMMA TurnsCheck ==
  ASSUME Inv, NEW p \in Proc, CheckDuplicate(p)
  PROVE  WritersInTurn'
<1>1. CASE Throw(p) /\ UNCHANGED mistaken
  BY <1>1, ReturnIsQuiet DEF CheckDuplicate, Throw
<1>2. CASE Refuse(p) /\ UNCHANGED <<acked, mistaken>>
  BY <1>2, ReturnIsQuiet DEF CheckDuplicate, Refuse
<1>3. ASSUME Goto(p, "load"), UNCHANGED <<file, snap>>, mistaken => mistaken',
             ~mistaken' => Decodes(ent[p], file) /\ ~IsDuplicate(p)
      PROVE  WritersInTurn'
  <2>1. \A q \in Proc : pc'[q] \in Writers => q = p
    BY <1>3, OtherIsNoWriter DEF CheckDuplicate, Goto, Inv, TypeOK, WritersInTurn, Writers
  <2>2. pc'[p] = "load" /\ UNCHANGED <<file, acked, ent, call>>
    BY <1>3 DEF Goto, Inv, TypeOK
  <2>3. file.form # "absent"
    BY DEF CheckDuplicate, Inv, WritersInTurn, FileStaysThere, Writers
  <2>4. ~mistaken' => (Decodes(ent[p], file) /\ SlotIsFree(file.keys, p))'
    BY <1>3, <2>2 DEF Decodes, SlotIsFree, IsDuplicate
  <2>5. ~mistaken' => (~Damaged => \A k \in acked : file.keys[k.table][k.id] = k.value)'
    BY <1>3, <2>2 DEF Damaged, Inv, TypeOK, WritersInTurn
  <2> QED
    BY <2>1, <2>2, <2>3, <2>4, <2>5, OnlyWriter DEF Writing
<1>4. file.form # "absent"
  BY DEF CheckDuplicate, Inv, WritersInTurn, FileStaysThere, Writers
<1> QED
  BY <1>1, <1>2, <1>3, <1>4 DEF CheckDuplicate, TakeForMissing, Inv, TypeOK

\* The document that the key is added to.
LEMMA TurnsLoad ==
  ASSUME Inv, NEW p \in Proc, LoadDocument(p)
  PROVE  WritersInTurn'
<1>1. CASE Throw(p)
  BY <1>1, ReturnIsQuiet DEF LoadDocument, Throw
<1>2. CASE /\ Decodes(ent[p], file)
           /\ snap' = [snap EXCEPT ![p] =
                AddKey(file.keys, call[p].table, call[p].id, call[p].value)]
           /\ Goto(p, "open")
  <2>1. \A q \in Proc : pc'[q] \in Writers => q = p
    BY <1>2, OtherIsNoWriter DEF LoadDocument, Goto, Inv, TypeOK, WritersInTurn, Writers
  <2>2. /\ pc'[p] = "open" /\ UNCHANGED <<file, acked, ent, call>> /\ mistaken' = mistaken
        /\ snap'[p] = AddKey(file.keys, call[p].table, call[p].id, call[p].value)
    BY <1>2 DEF LoadDocument, Goto, Inv, TypeOK
  <2>3. file.form # "absent"
    BY <1>2 DEF Decodes
  <2>4. ~mistaken => SlotIsFree(file.keys, p)
    BY DEF LoadDocument, Inv, WritersInTurn, AppenderIsCurrent
  <2>5. ~mistaken' => (Decodes(ent[p], file) /\ SlotIsFree(file.keys, p))'
    BY <1>2, <2>2, <2>4 DEF Decodes, SlotIsFree
  <2>6. ~mistaken' => (~Damaged => \A k \in acked : file.keys[k.table][k.id] = k.value)'
    BY <2>2 DEF Damaged, Inv, TypeOK, WritersInTurn
  <2> QED
    BY <2>1, <2>2, <2>3, <2>5, <2>6, OnlyWriter DEF Writing
<1> QED
  BY <1>1, <1>2 DEF LoadDocument

\* The truncation: what the writer holds covers every acknowledged key.
LEMMA TurnsOpen ==
  ASSUME Inv, NEW p \in Proc, OpenForWriting(p)
  PROVE  WritersInTurn'
<1>1. CASE Throw(p) /\ UNCHANGED file
  BY <1>1, ReturnIsQuiet DEF OpenForWriting, Throw
<1>2. CASE file' = Blank("empty") /\ Goto(p, "store") /\ UNCHANGED snap
  <2>1. \A q \in Proc : pc'[q] \in Writers => q = p
    BY <1>2, OtherIsNoWriter DEF OpenForWriting, Goto, Inv, TypeOK, WritersInTurn, Writers
  <2>2. /\ pc'[p] = "store" /\ UNCHANGED <<acked, call, snap>> /\ mistaken' = mistaken
        /\ file'.form = "empty"
    BY <1>2 DEF OpenForWriting, Goto, Inv, TypeOK, Blank
  <2> DEFINE t == call[p].table
             i == call[p].id
             v == call[p].value
  <2>3. t \in Table /\ i \in KeyId /\ v \in Value /\ v # NoValue /\ file.keys \in Keys
    BY ValuesAssumption DEF OpenForWriting, Inv, TypeOK, File, Writers
  <2>4. ASSUME ~mistaken
        PROVE  /\ HasKey(snap[p], t, i)
               /\ snap[p][t][i] = v
               /\ \A k \in acked : snap[p][k.table][k.id] = k.value
    <3>1. /\ file.form = "whole" /\ file.keys[t][i] = NoValue
          /\ snap[p] = AddKey(file.keys, t, i, v)
      BY <2>4 DEF OpenForWriting, Inv, WritersInTurn, AppenderIsCurrent, Decodes, SlotIsFree, HasKey
    <3>2. ASSUME NEW k \in acked PROVE snap[p][k.table][k.id] = k.value
      <4>1. k.table \in Table /\ k.id \in KeyId /\ k.value \in Value
        BY DEF Inv, TypeOK
      <4>2. file.keys[k.table][k.id] = k.value
        BY <2>4, <3>1 DEF Inv, WritersInTurn, Damaged
      <4>3. <<k.table, k.id>> # <<t, i>>
        BY <3>1, <4>1, <4>2, ValuesAssumption
      <4> QED
        BY <2>3, <3>1, <4>1, <4>2, <4>3, AddKeyEffect
    <3>3. snap[p][t][i] = v
      BY <2>3, <3>1, AddKeyEffect
    <3> QED
      BY <2>3, <3>2, <3>3 DEF HasKey
  <2> QED
    BY <2>1, <2>2, <2>4, OnlyWriter DEF Damaged, HasKey
<1> QED
  BY <1>1, <1>2 DEF OpenForWriting

\* The write and its acknowledgement.
LEMMA TurnsStore ==
  ASSUME Inv, NEW p \in Proc, StoreDocument(p)
  PROVE  WritersInTurn'
<1>1. \A q \in Proc : pc'[q] \notin Writers
  BY OtherIsNoWriter DEF StoreDocument, Return, Inv, TypeOK, WritersInTurn, Writers
<1>2. mistaken' = mistaken /\ acked' = acked \cup {call[p]} /\ pc'[p] = "idle"
  BY DEF StoreDocument, Return, Inv, TypeOK
<1>3. /\ file'.form \in {"empty", "torn", "whole"}
      /\ file'.form = "whole" => file'.keys = snap[p]
  <2>1. file.form = "empty"
    BY DEF StoreDocument, Inv, WritersInTurn, WriterHoldsEmptyFile, Writing
  <2>2. ent[p].pub \in EntKey \cup {BadKey} /\ snap[p] \in Keys
    BY EntAssumption DEF Inv, TypeOK
  <2> QED
    BY <2>1, <2>2, WrittenOverEmpty, WriteIsInterrupted DEF StoreDocument, Text
<1>4. ~mistaken => \A k \in acked' : snap[p][k.table][k.id] = k.value
  BY <1>2 DEF StoreDocument, Inv, WritersInTurn, AppenderIsCurrent
<1>5. ~mistaken' => (~Damaged => \A k \in acked : file.keys[k.table][k.id] = k.value)'
  BY <1>2, <1>3, <1>4 DEF Damaged
<1> QED
  BY <1>1, <1>2, <1>3, <1>5, OnlyWriter DEF Writing

\* A restart, in the middle of a write or not.
LEMMA TurnsRestart ==
  ASSUME Inv, NEW p \in Proc, Restart(p)
  PROVE  WritersInTurn'
<1>1. CASE pc[p] \in Writing
  <2>1. \A q \in Proc : pc'[q] \notin Writers
    BY <1>1, OtherIsNoWriter DEF Restart, Inv, TypeOK, WritersInTurn, Writers, Writing
  <2>2. pc'[p] = "idle" /\ acked' = acked /\ mistaken' = mistaken
    BY DEF Restart, Inv, TypeOK
  <2> DEFINE doc == IF pc[p] = "init" THEN NoKeys ELSE snap[p]
  <2>3. /\ file'.form \in {"empty", "torn", "whole"}
        /\ file'.form = "whole" => file'.keys = doc
    <3>1. file.form = "empty"
      BY <1>1 DEF Inv, WritersInTurn, WriterHoldsEmptyFile
    <3>2. ent[p].pub \in EntKey \cup {BadKey} /\ doc \in Keys
      BY EntAssumption, NoKeysIsDocument DEF Inv, TypeOK
    <3>3. file' \in Interrupted(Encrypt(ent[p].pub, doc))
      BY <1>1 DEF Restart, Text
    <3> QED
      BY <3>1, <3>2, <3>3, WrittenOverEmpty
  <2>4. ~mistaken => \A k \in acked : doc[k.table][k.id] = k.value
    BY <1>1 DEF Inv, WritersInTurn, AppenderIsCurrent, CreatorIsFirst, Writing
  <2>5. ~mistaken' => (~Damaged => \A k \in acked : file.keys[k.table][k.id] = k.value)'
    BY <2>2, <2>3, <2>4 DEF Damaged
  <2> QED
    BY <2>1, <2>2, <2>3, <2>5, OnlyWriter DEF Writing
<1>2. CASE pc[p] \notin Writing
  <2>1. UNCHANGED <<file, acked>> /\ mistaken' = mistaken
    BY <1>2 DEF Restart
  <2>2. \A q \in Proc : pc'[q] \in Writers =>
          /\ pc'[q] = pc[q] /\ call'[q] = call[q]
          /\ snap'[q] = snap[q] /\ ent'[q] = ent[q]
    BY DEF Restart, Inv, TypeOK, Writers
  <2> QED
    BY <2>1, <2>2, QuietStep DEF Inv
<1> QED
  BY <1>1, <1>2

\* The calls that only read, and setEntKeyPair.
LEMMA TurnsQuiet ==
  ASSUME Inv, NEW p \in Proc,
         \/ ReadKeyFromFile(p) \/ IsKeyExists(p) \/ SetEntKeyPair(p)
         \/ ReadDocument(p) \/ ConfirmKey(p) \/ FindKey(p)
  PROVE  WritersInTurn'
<1>1. CASE ReadKeyFromFile(p) \/ IsKeyExists(p) \/ SetEntKeyPair(p)
  BY <1>1, QuietStep
  DEF ReadKeyFromFile, IsKeyExists, SetEntKeyPair, Begin, Inv, TypeOK, Writers
<1>2. CASE ReadDocument(p)
  <2>1. CASE Throw(p)
    BY <1>2, <2>1, ReturnIsQuiet DEF ReadDocument, Throw
  <2>2. CASE snap' = [snap EXCEPT ![p] = file.keys] /\ Goto(p, "confirm")
    BY <1>2, <2>2, QuietStep DEF ReadDocument, Goto, Inv, TypeOK, Writers
  <2> QED
    BY <1>2, <2>1, <2>2 DEF ReadDocument
<1>3. CASE ConfirmKey(p)
  BY <1>3, ReturnIsQuiet DEF ConfirmKey, Throw
<1>4. CASE FindKey(p)
  BY <1>4, ReturnIsQuiet DEF FindKey
<1> QED
  BY <1>1, <1>2, <1>3, <1>4

\* Every step keeps what the writers know true.
LEMMA TurnsStep == Serial /\ Inv /\ [Next]_vars => Inv'
<1> SUFFICES ASSUME Serial, Inv, [Next]_vars PROVE WritersInTurn'
  BY TypeStep DEF Inv
<1>1. CASE UNCHANGED vars
  BY <1>1, QuietStep DEF vars, Inv
<1>2. CASE Next
  BY <1>2, TurnsBegin, TurnsProbe, TurnsCreate, TurnsInitialize, TurnsCheck, TurnsLoad,
     TurnsOpen, TurnsStore, TurnsRestart, TurnsQuiet
  DEF Next, Step
<1> QED
  BY <1>1, <1>2

LEMMA TurnsInvariant == Serial => (Spec => []Inv)
<1> SUFFICES ASSUME Serial PROVE Spec => []Inv
  OBVIOUS
<1>1. Init => Inv
  BY TypeInit, TurnsInit DEF Inv
<1>2. Inv /\ [Next]_vars => Inv'
  BY TurnsStep
<1> QED
  BY <1>1, <1>2, PTL DEF Spec

\* A key whose write returned true stays in a readable file, with its value,
\* whatever readers and crashes do, when writers take turns and no failed
\* open is taken for a missing file (appendKeyToFile).
THEOREM AckedStays == Serial => (Spec => []AckedKeyStored)
<1> SUFFICES ASSUME Serial PROVE Spec => []AckedKeyStored
  OBVIOUS
<1>1. Inv => AckedKeyStored
  BY DEF Inv, WritersInTurn, AckedKeyStored
<1> QED
  BY <1>1, TurnsInvariant, PTL

-----------------------------------------------------------------------------
(***************************************************************************)
(* Damage.                                                                 *)
(***************************************************************************)

\* A damaged file is one that somebody is about to write, or was to write.
DamageInv == Damaged => cutShort \/ \E p \in Proc : pc[p] \in Writing

\* A write over an empty file damages it only when its text is empty.
LEMMA CompleteWrite ==
  ASSUME file.form = "empty", NEW pub, NEW keys,
         NEW f \in Overwritten(Encrypt(pub, keys)), pub # BadKey
  PROVE  f.form = "whole"
<1>1. Encrypt(pub, keys).form = "whole"
  BY DEF Encrypt
<1>2. Overwritten(Encrypt(pub, keys)) = {Encrypt(pub, keys)}
  BY <1>1 DEF Overwritten
<1> QED
  BY <1>1, <1>2

\* Only the steps around a write touch the file or the two writing states.
LEMMA FileStep ==
  ASSUME TypeOK, NEW p \in Proc,
         Next,
         \A q \in Proc : /\ ~(CreateBinaryEntFile(q) /\ pc'[q] = "init")
                         /\ ~(OpenForWriting(q) /\ pc'[q] = "store")
                         /\ ~WriteEmptyTables(q) /\ ~StoreDocument(q)
                         /\ ~(Restart(q) /\ pc[q] \in Writing)
  PROVE  /\ file' = file
         /\ pc[p] \in Writing => pc'[p] = pc[p]
         /\ cutShort' = cutShort
<1>1. PICK q \in Proc :
        \/ WriteKeyToFile(q) \/ ReadKeyFromFile(q) \/ IsKeyExists(q)
        \/ SetEntKeyPair(q) \/ Restart(q) \/ Step(q)
  BY DEF Next
<1>2. CASE WriteKeyToFile(q) \/ ReadKeyFromFile(q) \/ IsKeyExists(q) \/ SetEntKeyPair(q)
  BY <1>2 DEF WriteKeyToFile, ReadKeyFromFile, IsKeyExists, SetEntKeyPair, Begin, TypeOK, Writing
<1>3. CASE Restart(q)
  BY <1>3 DEF Restart, TypeOK, Writing
<1>4. CASE Probe(q) \/ CheckDuplicate(q) \/ LoadDocument(q)
  BY <1>4 DEF Probe, CheckDuplicate, LoadDocument, Goto, Throw, Refuse, Return, TypeOK, Writing
<1>5. CASE ReadDocument(q) \/ ConfirmKey(q) \/ FindKey(q)
  BY <1>5 DEF ReadDocument, ConfirmKey, FindKey, Goto, Throw, Return, TypeOK, Writing
<1>6. CASE CreateBinaryEntFile(q) \/ OpenForWriting(q)
  <2>1. ~(file' = Blank("empty") /\ Goto(q, "init")) \/ ~CreateBinaryEntFile(q)
    BY DEF Goto, TypeOK
  <2>2. ~(file' = Blank("empty") /\ Goto(q, "store")) \/ ~OpenForWriting(q)
    BY DEF Goto, TypeOK
  <2> QED
    BY <1>6, <2>1, <2>2
    DEF CreateBinaryEntFile, OpenForWriting, Throw, Return, TypeOK, Writing
<1> QED
  BY <1>1, <1>2, <1>3, <1>4, <1>5, <1>6 DEF Step

\* No error path leaves a truncated file behind.
LEMMA DamageStep == Inv /\ DamageInv /\ [Next]_vars => DamageInv'
<1> SUFFICES ASSUME Inv, DamageInv, [Next]_vars PROVE DamageInv'
  OBVIOUS
<1>1. CASE UNCHANGED vars
  BY <1>1 DEF vars, DamageInv, Damaged
<1>2. ASSUME NEW q \in Proc,
             \/ CreateBinaryEntFile(q) /\ pc'[q] = "init"
             \/ OpenForWriting(q) /\ pc'[q] = "store"
      PROVE  DamageInv'
  BY <1>2 DEF DamageInv, Writing
<1>3. ASSUME NEW q \in Proc, WriteEmptyTables(q) \/ StoreDocument(q)
      PROVE  DamageInv'
  <2>1. file.form = "empty"
    BY <1>3 DEF WriteEmptyTables, StoreDocument, Inv, WritersInTurn, WriterHoldsEmptyFile, Writing
  <2>2. CASE cutShort'
    BY <2>2 DEF DamageInv
  <2>3. CASE /\ file' \in Overwritten(Text(q))
             /\ cutShort' = (cutShort \/ ent[q].pub = BadKey)
    <3>1. ent[q].pub # BadKey => file'.form = "whole"
      BY <2>1, <2>3, CompleteWrite DEF Text
    <3> QED
      BY <2>3, <3>1 DEF DamageInv, Damaged
  <2> QED
    BY <1>3, <2>2, <2>3 DEF WriteEmptyTables, StoreDocument, WriteAndClose
<1>4. ASSUME NEW q \in Proc, Restart(q), pc[q] \in Writing
      PROVE  DamageInv'
  BY <1>4 DEF Restart, DamageInv
<1>5. ASSUME Next,
             \A q \in Proc : /\ ~(CreateBinaryEntFile(q) /\ pc'[q] = "init")
                             /\ ~(OpenForWriting(q) /\ pc'[q] = "store")
                             /\ ~WriteEmptyTables(q) /\ ~StoreDocument(q)
                             /\ ~(Restart(q) /\ pc[q] \in Writing)
      PROVE  DamageInv'
  <2>1. \A p \in Proc : /\ file' = file
                        /\ pc[p] \in Writing => pc'[p] = pc[p]
                        /\ cutShort' = cutShort
    BY <1>5, FileStep DEF Inv
  <2>2. CASE Proc = {}
    BY <1>5, <2>2 DEF Next
  <2> QED
    BY <2>1, <2>2 DEF DamageInv, Damaged
<1> QED
  BY <1>1, <1>2, <1>3, <1>4, <1>5

\* Between writes the file is damaged only if a write was cut short, by a
\* crash, a failure nobody looked at or a public key that does not encrypt:
\* no exception of a writer leaves a truncated file, when writers take turns.
THEOREM DamageHasCause == Serial => (Spec => []DamageNeedsCutShort)
<1> SUFFICES ASSUME Serial PROVE Spec => []DamageNeedsCutShort
  OBVIOUS
<1>1. Init => DamageInv
  BY DEF Init, DamageInv, Damaged, Blank
<1>2. Inv /\ DamageInv /\ [Next]_vars => DamageInv'
  BY DamageStep
<1>3. DamageInv => DamageNeedsCutShort
  BY DEF DamageInv, DamageNeedsCutShort, NobodyWrites
<1> QED
  BY <1>1, <1>2, <1>3, TurnsInvariant, PTL DEF Spec

\* Nobody is on the way to write a damaged file.
Stuck == Damaged /\ \A p \in Proc : pc[p] \notin Writing \cup {"create", "open"}

LEMMA StuckStart == Inv /\ NobodyWrites /\ Damaged => Stuck \/ mistaken
BY DEF Inv, WritersInTurn, CreatorIsFirst, AppenderIsCurrent, Decodes, NobodyWrites,
   Damaged, Stuck

LEMMA StuckStep == Inv /\ (Stuck \/ mistaken) /\ [Next]_vars => (Stuck \/ mistaken)'
<1> SUFFICES ASSUME Inv, Stuck \/ mistaken, [Next]_vars PROVE (Stuck \/ mistaken)'
  OBVIOUS
<1> USE DEF Inv, TypeOK
<1>1. mistaken => mistaken'
  BY DEF Next, Step, WriteKeyToFile, ReadKeyFromFile, IsKeyExists, Begin, SetEntKeyPair,
     Restart, Probe, CreateBinaryEntFile, WriteEmptyTables, CheckDuplicate, LoadDocument,
     OpenForWriting, StoreDocument, ReadDocument, ConfirmKey, FindKey, TakeForMissing, vars
<1> SUFFICES ASSUME Stuck, ~mistaken PROVE (Stuck \/ mistaken)'
  BY <1>1
<1>2. CASE UNCHANGED vars
  BY <1>2 DEF vars, Stuck, Damaged
<1>3. ASSUME NEW q \in Proc,
             WriteKeyToFile(q) \/ ReadKeyFromFile(q) \/ IsKeyExists(q) \/ SetEntKeyPair(q)
      PROVE  Stuck'
  BY <1>3 DEF WriteKeyToFile, ReadKeyFromFile, IsKeyExists, Begin, SetEntKeyPair, Stuck,
     Damaged, Writing
<1>4. ASSUME NEW q \in Proc, Restart(q) PROVE Stuck'
  BY <1>4 DEF Restart, Stuck, Damaged, Writing
<1>5. ASSUME NEW q \in Proc, Probe(q) PROVE (Stuck \/ mistaken)'
  BY <1>5 DEF Probe, Goto, TakeForMissing, Stuck, Damaged, Writing
<1>6. ASSUME NEW q \in Proc, CheckDuplicate(q) PROVE (Stuck \/ mistaken)'
  BY <1>6 DEF CheckDuplicate, Goto, Throw, Refuse, Return, TakeForMissing, Stuck, Damaged, Writing
<1>7. ASSUME NEW q \in Proc, LoadDocument(q) PROVE Stuck'
  BY <1>7 DEF LoadDocument, Decodes, Goto, Throw, Return, Stuck, Damaged, Writing
<1>8. ASSUME NEW q \in Proc, ReadDocument(q) \/ ConfirmKey(q) \/ FindKey(q) PROVE Stuck'
  BY <1>8 DEF ReadDocument, ConfirmKey, FindKey, Goto, Throw, Return, Stuck, Damaged, Writing
<1>9. ASSUME NEW q \in Proc PROVE /\ ~CreateBinaryEntFile(q) /\ ~WriteEmptyTables(q)
                                  /\ ~OpenForWriting(q) /\ ~StoreDocument(q)
  BY DEF CreateBinaryEntFile, WriteEmptyTables, OpenForWriting, StoreDocument, Stuck, Writing
<1> QED
  BY <1>2, <1>3, <1>4, <1>5, <1>6, <1>7, <1>8, <1>9 DEF Next, Step

\* A damaged file is final: no call takes it for an empty document and
\* starts afresh, when writers take turns and no failed open is taken for a
\* missing file (parse throws in every reader, Aes256Cipher.cpp:127, 156, 414).
THEOREM DamageStays == Serial => (Spec => DamageIsFinal)
<1> SUFFICES ASSUME Serial PROVE Spec => DamageIsFinal
  OBVIOUS
<1>1. Inv /\ NobodyWrites /\ Damaged => Stuck \/ mistaken
  BY StuckStart
<1>2. Inv /\ (Stuck \/ mistaken) /\ [Next]_vars => (Stuck \/ mistaken)'
  BY StuckStep
<1>3. Stuck \/ mistaken => Damaged \/ mistaken
  BY DEF Stuck
<1> QED
  BY <1>1, <1>2, <1>3, TurnsInvariant, PTL DEF Spec, DamageIsFinal
=============================================================================
