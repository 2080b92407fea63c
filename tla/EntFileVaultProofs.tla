-------------------------- MODULE EntFileVaultProofs --------------------------
(***************************************************************************)
(* When writers take turns and opens succeed, the key file implements the  *)
(* vault; and a file is changed only by those who can decrypt it.          *)
(***************************************************************************)
EXTENDS EntFileProofs

-----------------------------------------------------------------------------
(***************************************************************************)
(* What the vault is in each state of the file.                            *)
(***************************************************************************)
StateOf(form) == CASE form = "whole" -> "open"
                   [] form = "absent" -> "none"
                   [] form \in {"empty", "torn"} -> "lost"

(***************************************************************************)
(* Between writes the vault is the file; while the first contents are      *)
(* written there is no vault yet; while a document is stored the vault is  *)
(* that document without its new key.                                      *)
(***************************************************************************)
VaultReading ==
  /\ TypeOK /\ (\A p \in Proc : pc[p] \notin Writing) =>
       VaultState = StateOf(file.form) /\ VaultKeys = file.keys
  /\ \A p \in Proc : pc[p] = "init" /\ OneWriter /\ file.form = "empty" =>
       VaultState = "none" /\ VaultKeys = file.keys
  /\ \A p \in Proc : pc[p] = "store" /\ OneWriter =>
       /\ VaultState = "open"
       /\ VaultKeys = AddKey(snap[p], call[p].table, call[p].id, NoValue)

LEMMA ReadVault == VaultReading
<1>1. ASSUME TypeOK, \A p \in Proc : pc[p] \notin Writing
      PROVE  VaultState = StateOf(file.form) /\ VaultKeys = file.keys
  <2>1. file.form \in Form
    BY <1>1 DEF TypeOK, File
  <2> QED
    BY <1>1, <2>1 DEF VaultState, VaultKeys, Storing, StateOf, Form, Writing
<1>2. ASSUME NEW p \in Proc, pc[p] = "init", OneWriter, file.form = "empty"
      PROVE  VaultState = "none" /\ VaultKeys = file.keys
  BY <1>2 DEF VaultState, VaultKeys, Storing, OneWriter, Writers
<1>3. ASSUME NEW p \in Proc, pc[p] = "store", OneWriter
      PROVE  /\ VaultState = "open"
             /\ VaultKeys = AddKey(snap[p], call[p].table, call[p].id, NoValue)
  <2>1. \A q \in Proc : Storing(q) <=> q = p
    BY <1>3 DEF Storing, OneWriter, Writers
  <2>2. (CHOOSE q \in Proc : Storing(q)) = p
    BY <2>1
  <2> QED
    BY <2>1, <2>2 DEF VaultState, VaultKeys
<1> QED
  BY <1>1, <1>2, <1>3 DEF VaultReading

LEMMA ReadVaultNext == VaultReading'
BY ReadVault, PTL

\* Taking a key out and putting it back gives the document again.
LEMMA AddKeyTwice ==
  ASSUME NEW keys \in Keys, NEW t \in Table, NEW i \in KeyId,
         NEW v \in Value \cup {NoValue}, NEW w \in Value \cup {NoValue}, keys[t][i] = v
  PROVE  AddKey(AddKey(keys, t, i, w), t, i, v) = keys
BY DEF AddKey, Keys

-----------------------------------------------------------------------------
\* A file without a document holds no keys.
BlankInv == file.form # "whole" => file.keys = NoKeys

VInv == Inv /\ BlankInv /\ ~mistaken

\* What a write by the only writer leaves, complete or not.
LEMMA WrittenKeys ==
  ASSUME file.form = "empty", file.keys = NoKeys,
         NEW pub \in EntKey \cup {BadKey}, NEW keys \in Keys,
         NEW f \in Interrupted(Encrypt(pub, keys))
  PROVE  \/ f.form = "whole" /\ f.keys = keys
         \/ f.form \in {"empty", "torn"} /\ f.keys = NoKeys
<1>1. \/ Encrypt(pub, keys).form = "whole" /\ Encrypt(pub, keys).keys = keys
      \/ Encrypt(pub, keys).form = "empty" /\ Encrypt(pub, keys).keys = NoKeys
  BY DEF Encrypt, Blank
<1>2. f \in {file, Encrypt(pub, keys), Blank("torn")}
  BY DEF Interrupted, Overwritten
<1>3. Blank("torn").form = "torn" /\ Blank("torn").keys = NoKeys
  BY DEF Blank
<1> QED
  BY <1>1, <1>2, <1>3

\* The steps that touch the file, and all the others.
Touches(q) == \/ CreateBinaryEntFile(q) /\ pc'[q] = "init"
              \/ OpenForWriting(q) /\ pc'[q] = "store"
              \/ WriteEmptyTables(q)
              \/ StoreDocument(q)
              \/ Restart(q) /\ pc[q] \in Writing

\* The document that a writer in one of the two writing states writes.
Doc(p) == IF pc[p] = "init" THEN NoKeys ELSE snap[p]

\* A write leaves the writer's document or nothing.
LEMMA WriteStep ==
  ASSUME VInv, NEW p \in Proc,
         WriteEmptyTables(p) \/ StoreDocument(p) \/ (Restart(p) /\ pc[p] \in Writing)
  PROVE  /\ pc[p] \in Writing
         /\ \A q \in Proc : pc'[q] \notin Writing
         /\ \/ file'.form = "whole" /\ file'.keys = Doc(p)
            \/ file'.form \in {"empty", "torn"} /\ file'.keys = NoKeys
<1>1. pc[p] \in Writing
  BY DEF WriteEmptyTables, StoreDocument, Writing
<1>2. \A q \in Proc : pc'[q] \notin Writing
  BY <1>1, OtherIsNoWriter
  DEF WriteEmptyTables, StoreDocument, Restart, Goto, Return, VInv, Inv, TypeOK,
      WritersInTurn, Writers, Writing
<1>3. file.form = "empty" /\ file.keys = NoKeys
  BY <1>1 DEF VInv, Inv, WritersInTurn, WriterHoldsEmptyFile, BlankInv
<1>4. ent[p].pub \in EntKey \cup {BadKey} /\ Doc(p) \in Keys
  BY EntAssumption, NoKeysIsDocument DEF VInv, Inv, TypeOK, Doc
<1>5. file' \in Interrupted(Encrypt(ent[p].pub, Doc(p)))
  BY <1>1, WriteIsInterrupted DEF WriteEmptyTables, StoreDocument, Restart, Text, Doc
<1> QED
  BY <1>1, <1>2, <1>3, <1>4, <1>5, WrittenKeys

\* The file and the processes that are writing it stay as they are.
Untouched ==
  /\ file' = file
  /\ \A p \in Proc :
       /\ pc[p] \in Writing => pc'[p] = pc[p] /\ snap'[p] = snap[p] /\ call'[p] = call[p]
       /\ pc'[p] \in Writing => pc[p] \in Writing

\* A step that is none of those leaves the file and its writers alone.
LEMMA UntouchedStep ==
  ASSUME TypeOK, [Next]_vars, \A q \in Proc : ~Touches(q)
  PROVE  Untouched
<1> USE DEF TypeOK, Writing, Untouched
<1>1. CASE UNCHANGED vars
  BY <1>1 DEF vars
<1>2. ASSUME NEW q \in Proc,
             WriteKeyToFile(q) \/ ReadKeyFromFile(q) \/ IsKeyExists(q) \/ SetEntKeyPair(q)
      PROVE  Untouched
  BY <1>2 DEF WriteKeyToFile, ReadKeyFromFile, IsKeyExists, SetEntKeyPair, Begin
<1>3. ASSUME NEW q \in Proc, Restart(q)
      PROVE  Untouched
  BY <1>3 DEF Restart, Touches
<1>4. ASSUME NEW q \in Proc, Probe(q) \/ CheckDuplicate(q) \/ LoadDocument(q)
      PROVE  Untouched
  BY <1>4 DEF Probe, CheckDuplicate, LoadDocument, Goto, Throw, Refuse, Return
<1>5. ASSUME NEW q \in Proc, ReadDocument(q) \/ ConfirmKey(q) \/ FindKey(q)
      PROVE  Untouched
  BY <1>5 DEF ReadDocument, ConfirmKey, FindKey, Goto, Throw, Return
<1>6. ASSUME NEW q \in Proc, CreateBinaryEntFile(q) \/ OpenForWriting(q)
      PROVE  Untouched
  <2>1. Throw(q) /\ UNCHANGED file
    BY <1>6 DEF CreateBinaryEntFile, OpenForWriting, Goto, Touches
  <2> QED
    BY <1>6, <2>1 DEF CreateBinaryEntFile, OpenForWriting, Throw, Return
<1> QED
  BY <1>1, <1>2, <1>3, <1>4, <1>5, <1>6 DEF Next, Step, Touches

\* No open fails, so none is taken for a missing file.
LEMMA NoMistake == ~OpenMayFail /\ Inv /\ ~mistaken /\ [Next]_vars => ~mistaken'
BY DEF Inv, TypeOK, Next, Step, WriteKeyToFile, ReadKeyFromFile, IsKeyExists, Begin,
   SetEntKeyPair, Restart, Probe, CreateBinaryEntFile, WriteEmptyTables, CheckDuplicate,
   LoadDocument, OpenForWriting, StoreDocument, ReadDocument, ConfirmKey, FindKey,
   TakeForMissing, CannotOpen, vars

LEMMA BlankStep == VInv /\ [Next]_vars => BlankInv'
<1> SUFFICES ASSUME VInv, [Next]_vars PROVE BlankInv'
  OBVIOUS
<1>1. CASE \A q \in Proc : ~Touches(q)
  BY <1>1, UntouchedStep DEF VInv, Inv, BlankInv, Untouched
<1>2. ASSUME NEW q \in Proc, Touches(q) PROVE BlankInv'
  <2>1. CASE \/ CreateBinaryEntFile(q) /\ pc'[q] = "init"
             \/ OpenForWriting(q) /\ pc'[q] = "store"
    BY <2>1 DEF CreateBinaryEntFile, OpenForWriting, Throw, Return, BlankInv, Blank, VInv, Inv, TypeOK
  <2>2. CASE WriteEmptyTables(q) \/ StoreDocument(q) \/ (Restart(q) /\ pc[q] \in Writing)
    BY <2>2, WriteStep DEF BlankInv
  <2> QED
    BY <1>2, <2>1, <2>2 DEF Touches
<1> QED
  BY <1>1, <1>2

LEMMA VaultInvariant == Serial /\ ~OpenMayFail => (Spec => []VInv)
<1> SUFFICES ASSUME Serial, ~OpenMayFail PROVE Spec => []VInv
  OBVIOUS
<1>1. Init => VInv
  BY TypeInit, TurnsInit DEF VInv, Inv, BlankInv, Init, Blank
<1>2. VInv /\ [Next]_vars => VInv'
  BY TurnsStep, NoMistake, BlankStep DEF VInv
<1> QED
  BY <1>1, <1>2, PTL DEF Spec

\* A process comes to create a file only when there is none
\* (Aes256Cipher.cpp:96-107), when writers take turns and opens succeed.
THEOREM CreatedOnce == Serial /\ ~OpenMayFail => (Spec => []CreatesOnlyMissingFile)
<1> SUFFICES ASSUME Serial, ~OpenMayFail PROVE Spec => []CreatesOnlyMissingFile
  OBVIOUS
<1>1. VInv => CreatesOnlyMissingFile
  BY DEF VInv, Inv, WritersInTurn, CreatorIsFirst, CreatesOnlyMissingFile
<1> QED
  BY <1>1, VaultInvariant, PTL

-----------------------------------------------------------------------------
(***************************************************************************)
(* Each step of the file is a step of the vault or none.                   *)
(***************************************************************************)
VaultStutters == VaultState' = VaultState /\ VaultKeys' = VaultKeys

LEMMA UntouchedVault ==
  ASSUME VInv, Inv', Untouched
  PROVE  VaultStutters
<1>1. CASE \A p \in Proc : pc[p] \notin Writing
  <2>1. \A p \in Proc : pc'[p] \notin Writing
    BY <1>1 DEF Untouched
  <2> QED
    BY <1>1, <2>1, ReadVault, ReadVaultNext
    DEF VaultReading, VInv, Inv, VaultStutters, Untouched
<1>2. ASSUME NEW p \in Proc, pc[p] = "init" PROVE VaultStutters
  <2>1. pc'[p] = "init" /\ file' = file /\ file.form = "empty"
    BY <1>2 DEF Untouched, Writing, VInv, Inv, WritersInTurn, WriterHoldsEmptyFile
  <2> QED
    BY <1>2, <2>1, ReadVault, ReadVaultNext
    DEF VaultReading, VInv, Inv, WritersInTurn, VaultStutters
<1>3. ASSUME NEW p \in Proc, pc[p] = "store" PROVE VaultStutters
  <2>1. pc'[p] = "store" /\ snap'[p] = snap[p] /\ call'[p] = call[p]
    BY <1>3 DEF Untouched, Writing
  <2> QED
    BY <1>3, <2>1, ReadVault, ReadVaultNext
    DEF VaultReading, VInv, Inv, WritersInTurn, VaultStutters
<1> QED
  BY <1>1, <1>2, <1>3 DEF Writing

\* Emptying the file, to create or to rewrite it, changes nothing yet.
LEMMA TruncateVault ==
  ASSUME VInv, Inv', NEW p \in Proc,
         \/ CreateBinaryEntFile(p) /\ pc'[p] = "init"
         \/ OpenForWriting(p) /\ pc'[p] = "store"
  PROVE  VaultStutters
<1>1. \A q \in Proc : pc[q] \notin Writing
  BY OtherIsNoWriter
  DEF CreateBinaryEntFile, OpenForWriting, VInv, Inv, WritersInTurn, Writers, Writing
<1>2. VaultState = StateOf(file.form) /\ VaultKeys = file.keys
  BY <1>1, ReadVault DEF VaultReading, VInv, Inv
<1>3. file' = Blank("empty") /\ UNCHANGED snap /\ UNCHANGED call
  BY DEF CreateBinaryEntFile, OpenForWriting, Throw, Return, Goto, VInv, Inv, TypeOK
<1>4. file'.form = "empty" /\ file'.keys = NoKeys
  BY <1>3 DEF Blank
<1>5. CASE CreateBinaryEntFile(p) /\ pc'[p] = "init"
  <2>1. file.form = "absent" /\ file.keys = NoKeys
    BY <1>5 DEF CreateBinaryEntFile, VInv, Inv, WritersInTurn, CreatorIsFirst, BlankInv
  <2>2. VaultState' = "none" /\ VaultKeys' = NoKeys
    BY <1>4, <1>5, ReadVaultNext DEF VaultReading, Inv, WritersInTurn
  <2> QED
    BY <1>2, <2>1, <2>2 DEF StateOf, VaultStutters
<1>6. CASE OpenForWriting(p) /\ pc'[p] = "store"
  <2> DEFINE t == call[p].table
             i == call[p].id
  <2>1. /\ file.form = "whole" /\ file.keys[t][i] = NoValue
        /\ snap[p] = AddKey(file.keys, t, i, call[p].value)
    BY <1>6 DEF OpenForWriting, VInv, Inv, WritersInTurn, AppenderIsCurrent, Decodes,
       SlotIsFree, HasKey
  <2>2. t \in Table /\ i \in KeyId /\ call[p].value \in Value /\ file.keys \in Keys
    BY <1>6 DEF OpenForWriting, VInv, Inv, TypeOK, File, Writers
  <2>3. AddKey(snap[p], t, i, NoValue) = file.keys
    <3>1. AddKey(AddKey(file.keys, t, i, call[p].value), t, i, NoValue) = file.keys
      BY <2>1, <2>2 DEF AddKey, Keys
    <3> QED
      BY <2>1, <3>1
  <2>4. VaultState' = "open" /\ VaultKeys' = AddKey(snap[p], t, i, NoValue)
    <3>1. /\ VaultState' = "open"
          /\ VaultKeys' = AddKey(snap'[p], call'[p].table, call'[p].id, NoValue)
      BY <1>6, ReadVaultNext DEF VaultReading, Inv, WritersInTurn
    <3> QED
      BY <1>3, <3>1
  <2> QED
    BY <1>2, <2>1, <2>3, <2>4 DEF StateOf, VaultStutters
<1> QED
  BY <1>5, <1>6

\* A write, complete or not, creates the vault, adds the key or loses all.
LEMMA WriteVault ==
  ASSUME VInv, Inv', NEW p \in Proc,
         WriteEmptyTables(p) \/ StoreDocument(p) \/ (Restart(p) /\ pc[p] \in Writing)
  PROVE  Vault!Next
<1>1. /\ pc[p] \in Writing
      /\ \/ file'.form = "whole" /\ file'.keys = Doc(p)
         \/ file'.form \in {"empty", "torn"} /\ file'.keys = NoKeys
  BY WriteStep
<1>2. VaultState' = StateOf(file'.form) /\ VaultKeys' = file'.keys
  BY WriteStep, ReadVaultNext DEF VaultReading, Inv
<1>3. VaultState \in {"none", "open"}
  BY <1>1, ReadVault
  DEF VaultReading, VInv, Inv, WritersInTurn, WriterHoldsEmptyFile, Writing
<1>4. CASE file'.form \in {"empty", "torn"} /\ file'.keys = NoKeys
  <2>1. Vault!Lose
    BY <1>2, <1>3, <1>4 DEF StateOf, Vault!Lose, Vault!NoKeys, NoKeys
  <2> QED
    BY <2>1 DEF Vault!Next
<1>5. CASE file'.form = "whole" /\ file'.keys = Doc(p)
  <2>1. VaultState' = "open" /\ VaultKeys' = Doc(p)
    BY <1>2, <1>5 DEF StateOf
  <2>2. CASE pc[p] = "init"
    <3>1. file.form = "empty" /\ file.keys = NoKeys
      BY <1>1 DEF VInv, Inv, WritersInTurn, WriterHoldsEmptyFile, BlankInv
    <3>2. VaultState = "none" /\ VaultKeys = NoKeys
      BY <2>2, <3>1, ReadVault DEF VaultReading, VInv, Inv, WritersInTurn
    <3>3. Vault!Create
      BY <2>1, <2>2, <3>2 DEF Vault!Create, Doc
    <3> QED
      BY <3>3 DEF Vault!Next
  <2>3. CASE pc[p] = "store"
    <3> DEFINE t == call[p].table
               i == call[p].id
               v == call[p].value
    <3>1. t \in Table /\ i \in KeyId /\ v \in Value /\ snap[p] \in Keys
      BY <2>3 DEF VInv, Inv, TypeOK, Writers
    <3>2. VaultState = "open" /\ VaultKeys = AddKey(snap[p], t, i, NoValue)
      BY <2>3, ReadVault DEF VaultReading, VInv, Inv, WritersInTurn
    <3>3. snap[p][t][i] = v
      BY <2>3 DEF VInv, Inv, WritersInTurn, AppenderIsCurrent
    <3>4. VaultKeys[t][i] = NoValue
      BY <3>1, <3>2, AddKeyEffect
    <3>5. VaultKeys' = AddKey(VaultKeys, t, i, v)
      BY <2>1, <2>3, <3>1, <3>2, <3>3, AddKeyTwice DEF Doc
    <3>6. Vault!Add(t, i, v)
      BY <2>1, <3>2, <3>4, <3>5 DEF Vault!Add, AddKey
    <3> QED
      BY <3>1, <3>6 DEF Vault!Next
  <2> QED
    BY <1>1, <2>2, <2>3 DEF Writing
<1> QED
  BY <1>1, <1>4, <1>5

\* Every step of the file is a step of the vault or leaves it as it is.
LEMMA VaultStep == VInv /\ VInv' /\ [Next]_vars => [Vault!Next]_(Vault!vars)
<1> SUFFICES ASSUME VInv, VInv', [Next]_vars PROVE Vault!Next \/ VaultStutters
  BY DEF VaultStutters, Vault!vars
<1>1. CASE \A q \in Proc : ~Touches(q)
  BY <1>1, UntouchedStep, UntouchedVault DEF VInv, Inv
<1>2. ASSUME NEW q \in Proc, Touches(q) PROVE Vault!Next \/ VaultStutters
  BY <1>2, TruncateVault, WriteVault DEF Touches, VInv
<1> QED
  BY <1>1, <1>2

\* The key file behaves as the vault: keys are added under free names, none
\* is replaced or dropped, a store is lost at most once and as a whole, for
\* any number of readers beside the writer whose turn it is.
THEOREM FileImplementsVault == Serial /\ ~OpenMayFail => (Spec => ImplementsVault)
<1> SUFFICES ASSUME Serial, ~OpenMayFail PROVE Spec => ImplementsVault
  OBVIOUS
<1>1. Init => Vault!Init
  <2> SUFFICES ASSUME Init PROVE Vault!Init
    OBVIOUS
  <2>1. VaultState = StateOf(file.form) /\ VaultKeys = file.keys
    BY TypeInit, ReadVault DEF VaultReading, Init, Writing
  <2> QED
    BY <2>1 DEF Init, Blank, StateOf, Vault!Init, Vault!NoKeys, NoKeys
<1>2. VInv /\ VInv' /\ [Next]_vars => [Vault!Next]_(Vault!vars)
  BY VaultStep
<1> QED
  BY <1>1, <1>2, VaultInvariant, PTL DEF Spec, Vault!Spec, ImplementsVault

-----------------------------------------------------------------------------
(***************************************************************************)
(* What the vault says of the keys, as the file keeps it.                  *)
(***************************************************************************)
KeptOrLost ==
  /\ \A t \in Table, i \in KeyId :
       VaultKeys[t][i] # NoValue =>
         VaultState' = "lost" \/ VaultKeys'[t][i] = VaultKeys[t][i]
  /\ VaultState = "lost" => VaultState' = "lost" /\ VaultKeys' = VaultKeys

\* The vault's contents are a document.
LEMMA KeysOfVault == TypeOK => VaultKeys \in Keys
<1> SUFFICES ASSUME TypeOK PROVE VaultKeys \in Keys
  OBVIOUS
<1>1. CASE \E p \in Proc : Storing(p)
  <2> DEFINE p == CHOOSE q \in Proc : Storing(q)
  <2>1. p \in Proc /\ Storing(p)
    BY <1>1
  <2>2. VaultKeys = AddKey(snap[p], call[p].table, call[p].id, NoValue)
    BY <1>1 DEF VaultKeys
  <2> HIDE DEF p
  <2>3. snap[p] \in Keys /\ call[p].table \in Table /\ call[p].id \in KeyId
    BY <2>1 DEF TypeOK, Storing
  <2> QED
    BY <2>2, <2>3, AddKeyEffect
<1>2. CASE ~\E p \in Proc : Storing(p)
  BY <1>2 DEF VaultKeys, TypeOK, File
<1> QED
  BY <1>1, <1>2

\* A key that is in the store keeps its value through every later call, its
\* own process's deaths and those of others, or the store is lost as a whole;
\* a lost store stays lost: it is not taken for one without keys
\* (Aes256Cipher.cpp:398-436).
THEOREM StoredKeysStay == Serial /\ ~OpenMayFail => (Spec => [][KeptOrLost]_vars)
<1> SUFFICES ASSUME Serial, ~OpenMayFail PROVE Spec => [][KeptOrLost]_vars
  OBVIOUS
<1>1. VInv /\ VInv' /\ [Next]_vars => KeptOrLost
  <2> SUFFICES ASSUME VInv, VInv', [Next]_vars PROVE KeptOrLost
    OBVIOUS
  <2>1. CASE VaultState' = VaultState /\ VaultKeys' = VaultKeys
    BY <2>1 DEF KeptOrLost
  <2>2. CASE Vault!Create
    BY <2>2 DEF Vault!Create, KeptOrLost
  <2>3. ASSUME NEW t \in Table, NEW i \in KeyId, NEW v \in Value, Vault!Add(t, i, v)
        PROVE  KeptOrLost
    <3>1. /\ VaultState = "open" /\ VaultKeys[t][i] = NoValue
          /\ VaultKeys' = [VaultKeys EXCEPT ![t][i] = v]
      BY <2>3 DEF Vault!Add
    <3>2. VaultKeys \in Keys
      BY KeysOfVault DEF VInv, Inv
    <3>3. \A u \in Table, j \in KeyId :
            <<u, j>> # <<t, i>> => VaultKeys'[u][j] = VaultKeys[u][j]
      BY <3>1, <3>2, AddKeyEffect DEF AddKey
    <3> QED
      BY <3>1, <3>3 DEF KeptOrLost
  <2>4. CASE Vault!Lose
    BY <2>4 DEF Vault!Lose, KeptOrLost
  <2> QED
    BY <2>1, <2>2, <2>3, <2>4, VaultStep DEF Vault!Next, Vault!vars
<1> QED
  BY <1>1, VaultInvariant, PTL DEF Spec

-----------------------------------------------------------------------------
\* A whole file is changed only by a process whose private ENT key decrypts
\* it, when writers take turns and no failed open is taken for a missing
\* file (the parse before the truncation, Aes256Cipher.cpp:399-428).
THEOREM ForeignFileStays == Serial => (Spec => ForeignFileUntouched)
<1> SUFFICES ASSUME Serial PROVE Spec => ForeignFileUntouched
  OBVIOUS
<1> DEFINE Allowed == file' # file /\ file.form = "whole" /\ ~mistaken =>
                        \E p \in Proc : pc'[p] # pc[p] /\ ent[p].priv = file.ent
<1>1. Inv /\ [Next]_vars => [Allowed]_vars
  <2> SUFFICES ASSUME Inv, [Next]_vars, file' # file, file.form = "whole", ~mistaken
               PROVE  \E p \in Proc : pc'[p] # pc[p] /\ ent[p].priv = file.ent
    OBVIOUS
  <2>1. PICK q \in Proc : Touches(q)
    BY UntouchedStep DEF Inv, Untouched
  <2>2. pc[q] \notin Writing /\ pc[q] # "create"
    BY DEF Inv, WritersInTurn, WriterHoldsEmptyFile, CreatorIsFirst
  <2>3. OpenForWriting(q) /\ pc'[q] = "store"
    BY <2>1, <2>2 DEF Touches, CreateBinaryEntFile, WriteEmptyTables, StoreDocument, Writing
  <2>4. pc[q] = "open" /\ ent[q].priv = file.ent
    BY <2>3 DEF OpenForWriting, Inv, WritersInTurn, AppenderIsCurrent, Decodes
  <2> QED
    BY <2>3, <2>4
<1> QED
  BY <1>1, TurnsInvariant, PTL DEF Spec, ForeignFileUntouched
=============================================================================
