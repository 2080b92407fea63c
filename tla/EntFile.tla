------------------------------- MODULE EntFile -------------------------------
(***************************************************************************)
(* The ENT key file of HingeFramework (Cipher.cpp, Aes256Cipher.cpp,       *)
(* RsaCipher.cpp): a JSON document with the tables "aes256_keys" and       *)
(* "rsa_keys", encrypted as a whole with the public ENT key, that every    *)
(* writeKeyToFile reads, changes and writes back and every readKeyFromFile *)
(* reads.                                                                  *)
(*                                                                         *)
(* One process runs one call at a time, on a cipher object of its own.     *)
(* Each access to the file is a step: the probe that decides between       *)
(* appending and creating, each read of the whole file, the open for       *)
(* writing that TRUNCATES the file, and the write that follows it.  Any    *)
(* process may die between two steps, any open may fail, and any write may *)
(* fail without a word: no caller looks at the stream after write and      *)
(* close.                                                                  *)
(***************************************************************************)
CONSTANTS Proc,         \* the processes that share the file
          KeyId,        \* the names of keys
          Value,        \* the key material: an AES key or an RSA key pair
          NoValue,      \* "no key of that name"
          EntKey,       \* the ENT key pairs, each named by one value
          BadKey,       \* a text that is no PEM key
          EntPair,      \* the pairs setEntKeyPair is called with
          DefaultPair,  \* the pair the constructor of Cipher sets
          Serial,       \* TRUE: the callers let one writer write at a time
          OpenMayFail,  \* TRUE: opening an existing file may fail
          WriteMayFail  \* TRUE: a write may fail, which nobody looks at

ASSUME ValuesAssumption == NoValue \notin Value /\ NoValue \notin KeyId

ASSUME EntAssumption ==
  /\ BadKey \notin EntKey
  /\ EntPair \subseteq [pub : EntKey \cup {BadKey}, priv : EntKey \cup {BadKey}]
  /\ DefaultPair \in EntPair
  /\ DefaultPair.pub = DefaultPair.priv
  /\ DefaultPair.pub \in EntKey

ASSUME FlagsAssumption ==
  Serial \in BOOLEAN /\ OpenMayFail \in BOOLEAN /\ WriteMayFail \in BOOLEAN

VARIABLES
  file,      \* the file: its form and, when whole, its key and its tables
  pc,        \* pc[p]: the file access p makes next, "idle" between calls
  call,      \* call[p]: the table, name and value of p's call
  snap,      \* snap[p]: the document p holds in memory
  ent,       \* ent[p]: the ENT key pair of p's cipher object
  result,    \* result[p]: how p's last call ended
  acked,     \* history: the keys whose write returned true
  cutShort,  \* history: a write died, failed or had nothing to write
  mistaken   \* history: a failed open was taken for a missing file

vars == <<file, pc, call, snap, ent, result, acked, cutShort, mistaken>>

Table == {"aes256_keys", "rsa_keys"}

(***************************************************************************)
(* The document.  A table is JSON null until its first key is added, and   *)
(* no key is ever removed: a table is null exactly when it is empty.       *)
(***************************************************************************)
Keys == [Table -> [KeyId -> Value \cup {NoValue}]]

NoKeys == [t \in Table |-> [i \in KeyId |-> NoValue]]

HasKey(keys, t, i) == keys[t][i] # NoValue

IsNull(keys, t) == \A i \in KeyId : keys[t][i] = NoValue

\* Mutant: the document is started afresh, as createBinaryEntFile does.
MutantForgetKeys(keys, t, i, v) == [NoKeys EXCEPT ![t][i] = v]

AddKey(keys, t, i, v) == [keys EXCEPT ![t][i] = v]

(***************************************************************************)
(* The file.  "empty" is a truncated file, "torn" one that holds part of a *)
(* ciphertext or a mixture of two: neither decrypts to a JSON document.    *)
(***************************************************************************)
Form == {"absent", "empty", "torn", "whole"}

File == [form : Form, ent : EntKey \cup {BadKey}, keys : Keys]

Blank(form) == [form |-> form, ent |-> BadKey, keys |-> NoKeys]

Encrypt(pub, keys) ==
  IF pub = BadKey THEN Blank("empty")
                  ELSE [form |-> "whole", ent |-> pub, keys |-> keys]

\* Mutant: an unreadable file passes for a document without keys.
MutantDecodesDamage(pair, f) == f.form = "whole" => pair.priv = f.ent

\* Mutant: the document is taken whatever key it was encrypted with.
MutantDecodesForeign(pair, f) == f.form = "whole"

\* Does parse(decrypt(private key, the file)) yield a document?
Decodes(pair, f) == f.form = "whole" /\ pair.priv = f.ent

(***************************************************************************)
(* Writing `text` at the start of the file as it is now.  The writer has   *)
(* truncated the file, but another may have filled it since: the longer    *)
(* text then survives in part.  An empty text changes nothing.             *)
(***************************************************************************)
Overwritten(text) ==
  CASE text.form = "empty" -> {file}
    [] text.form # "empty" /\ file.form = "empty" -> {text}
    [] OTHER -> {text, Blank("torn")}

\* What a write of `text` may leave behind that does not come to its end.
Interrupted(text) ==
  {file} \cup Overwritten(text)
         \cup (IF text.form = "empty" THEN {} ELSE {Blank("torn")})

-----------------------------------------------------------------------------
Writing == {"init", "store"}

Writers == {"probe", "create", "init", "dup", "load", "open", "store"}

Readers == {"read", "confirm", "find"}

NoCall == [table |-> "none", id |-> NoValue, value |-> NoValue]

Outcome == [kind : {"none", "true", "false", "thrown", "undefined"}, value : {NoValue}]
             \cup [kind : {"value"}, value : Value]

Ended(kind) == [kind |-> kind, value |-> NoValue]

Init == /\ file = Blank("absent")
        /\ pc = [p \in Proc |-> "idle"]
        /\ call = [p \in Proc |-> NoCall]
        /\ snap = [p \in Proc |-> NoKeys]
        /\ ent = [p \in Proc |-> DefaultPair]
        /\ result = [p \in Proc |-> Ended("none")]
        /\ acked = {}
        /\ cutShort = FALSE
        /\ mistaken = FALSE

\* A call starts at the file access `label`.
Begin(p, label, t, i, v) ==
  /\ pc[p] = "idle"
  /\ pc' = [pc EXCEPT ![p] = label]
  /\ call' = [call EXCEPT ![p] = [table |-> t, id |-> i, value |-> v]]
  /\ UNCHANGED <<file, snap, ent, result, acked, cutShort, mistaken>>

\* The call goes on to the file access `label`.
Goto(p, label) ==
  /\ pc' = [pc EXCEPT ![p] = label]
  /\ UNCHANGED <<call, ent, result, acked>>

\* The call ends, with a return value or an exception.
Return(p, outcome) ==
  /\ pc' = [pc EXCEPT ![p] = "idle"]
  /\ call' = [call EXCEPT ![p] = NoCall]
  /\ snap' = [snap EXCEPT ![p] = NoKeys]
  /\ result' = [result EXCEPT ![p] = outcome]
  /\ UNCHANGED ent

Throw(p) == Return(p, Ended("thrown")) /\ UNCHANGED acked

\* What p is about to write.
Text(p) == Encrypt(ent[p].pub, IF pc[p] = "init" THEN NoKeys ELSE snap[p])

\* The write and the close, whose result nobody looks at: a full disk leaves
\* what a death in the middle leaves, and the call goes on as if all was well.
WriteAndClose(p) ==
  \/ /\ file' \in Overwritten(Text(p))
     /\ cutShort' = (cutShort \/ ent[p].pub = BadKey)
  \/ /\ WriteMayFail
     /\ file' \in Interrupted(Text(p))
     /\ cutShort' = TRUE

Opens == file.form # "absent"

CannotOpen == file.form = "absent" \/ OpenMayFail

\* A failed open of a file that is there counts as "there is no file".
TakeForMissing == mistaken' = (mistaken \/ file.form # "absent")

-----------------------------------------------------------------------------
(***************************************************************************)
(* writeKeyToFile of both ciphers.                                         *)
(***************************************************************************)
WriteKeyToFile(p) ==
  /\ Serial => \A q \in Proc : pc[q] \notin Writers
  /\ \E t \in Table, i \in KeyId, v \in Value : Begin(p, "probe", t, i, v)

\* Mutant: the file is created for every key.
MutantProbe(p) ==
  /\ pc[p] = "probe"
  /\ Goto(p, "create")
  /\ UNCHANGED <<file, snap, cutShort, mistaken>>

\* ifstream::good() chooses between appending and creating.
Probe(p) ==
  /\ pc[p] = "probe"
  /\ \/ Opens /\ Goto(p, "dup") /\ UNCHANGED mistaken
     \/ CannotOpen /\ Goto(p, "create") /\ TakeForMissing
  /\ UNCHANGED <<file, snap, cutShort>>

\* createBinaryEntFile opens the file, which empties it ...
CreateBinaryEntFile(p) ==
  /\ pc[p] = "create"
  /\ \/ file' = Blank("empty") /\ Goto(p, "init") /\ UNCHANGED snap
     \/ OpenMayFail /\ Throw(p) /\ UNCHANGED file
  /\ UNCHANGED <<cutShort, mistaken>>

\* ... and writes a document without keys.
WriteEmptyTables(p) ==
  /\ pc[p] = "init"
  /\ WriteAndClose(p)
  /\ Goto(p, "dup")
  /\ UNCHANGED <<snap, mistaken>>

\* Mutant: a name that is taken is not refused.
MutantIsDuplicate(p) == FALSE

IsDuplicate(p) == HasKey(file.keys, call[p].table, call[p].id)

\* A name that is taken: the AES cipher returns false, the RSA cipher throws.
Refuse(p) == Return(p, Ended(IF call[p].table = "aes256_keys" THEN "false" ELSE "thrown"))

\* Mutant: a name that is taken is written without the document being loaded.
MutantCheckDuplicate(p) ==
  /\ pc[p] = "dup"
  /\ \/ Decodes(ent[p], file) /\ IsDuplicate(p) /\ Goto(p, "store")
     \/ ~(Decodes(ent[p], file) /\ IsDuplicate(p)) /\ Goto(p, "load")
  /\ UNCHANGED <<file, snap, cutShort, mistaken>>

\* appendKeyToFile first asks isKeyExists, which reads the file ...
CheckDuplicate(p) ==
  /\ pc[p] = "dup"
  /\ \/ CannotOpen /\ Goto(p, "load") /\ TakeForMissing /\ UNCHANGED snap
     \/ /\ Opens /\ ~Decodes(ent[p], file)
        /\ Throw(p) /\ UNCHANGED mistaken
     \/ /\ Opens /\ Decodes(ent[p], file) /\ IsDuplicate(p)
        /\ Refuse(p) /\ UNCHANGED <<acked, mistaken>>
     \/ /\ Opens /\ Decodes(ent[p], file) /\ ~IsDuplicate(p)
        /\ Goto(p, "load") /\ UNCHANGED <<snap, mistaken>>
  /\ UNCHANGED <<file, cutShort>>

\* Mutant: an unreadable file is read again until it can be read.
MutantLoadDocument(p) ==
  /\ pc[p] = "load"
  /\ Opens /\ Decodes(ent[p], file)
  /\ snap' = [snap EXCEPT ![p] = AddKey(file.keys, call[p].table, call[p].id, call[p].value)]
  /\ Goto(p, "open")
  /\ UNCHANGED <<file, cutShort, mistaken>>

\* ... then reads it again, adds the key to that document ...
LoadDocument(p) ==
  /\ pc[p] = "load"
  /\ \/ CannotOpen /\ Throw(p)
     \/ Opens /\ ~Decodes(ent[p], file) /\ Throw(p)
     \/ /\ Opens /\ Decodes(ent[p], file)
        /\ snap' = [snap EXCEPT ![p] = AddKey(file.keys, call[p].table, call[p].id, call[p].value)]
        /\ Goto(p, "open")
  /\ UNCHANGED <<file, cutShort, mistaken>>

\* Mutant: the file is opened before the document is encrypted and checked.
MutantOpenForWriting(p) ==
  /\ pc[p] = "open"
  /\ \/ file' = Blank("empty") /\ Goto(p, "store") /\ UNCHANGED snap
     \/ OpenMayFail /\ Throw(p) /\ file' = Blank("empty")
  /\ UNCHANGED <<cutShort, mistaken>>

\* ... opens it for writing, which empties it ...
OpenForWriting(p) ==
  /\ pc[p] = "open"
  /\ \/ file' = Blank("empty") /\ Goto(p, "store") /\ UNCHANGED snap
     \/ OpenMayFail /\ Throw(p) /\ UNCHANGED file
  /\ UNCHANGED <<cutShort, mistaken>>

\* ... writes the new document, whatever its encryption gave and whether or
\* not the write succeeds, and returns true.
StoreDocument(p) ==
  /\ pc[p] = "store"
  /\ WriteAndClose(p)
  /\ acked' = acked \cup {call[p]}
  /\ Return(p, Ended("true"))
  /\ UNCHANGED mistaken

(***************************************************************************)
(* readKeyFromFile: the value comes from the document read first, the      *)
(* existence check from the file as it is afterwards.                      *)
(***************************************************************************)
ReadKeyFromFile(p) ==
  \E t \in Table, i \in KeyId : Begin(p, "read", t, i, NoValue)

ReadDocument(p) ==
  /\ pc[p] = "read"
  /\ \/ CannotOpen /\ Throw(p)
     \/ Opens /\ ~Decodes(ent[p], file) /\ Throw(p)
     \/ /\ Opens /\ Decodes(ent[p], file)
        /\ snap' = [snap EXCEPT ![p] = file.keys]
        /\ Goto(p, "confirm")
  /\ UNCHANGED <<file, cutShort, mistaken>>

\* Mutant: the look-up takes the presence of the key for granted.
MutantLookup(keys, t, i) == [kind |-> "value", value |-> keys[t][i]]

\* What operator[] of the const document gives: an exception when the table
\* is null, and no defined value when the table has no such key.
Lookup(keys, t, i) ==
  CASE HasKey(keys, t, i) -> [kind |-> "value", value |-> keys[t][i]]
    [] IsNull(keys, t) -> Ended("thrown")
    [] OTHER -> Ended("undefined")

ConfirmKey(p) ==
  /\ pc[p] = "confirm"
  /\ \/ CannotOpen /\ Throw(p)
     \/ /\ Opens /\ ~(Decodes(ent[p], file) /\ HasKey(file.keys, call[p].table, call[p].id))
        /\ Throw(p)
     \/ /\ Opens /\ Decodes(ent[p], file) /\ HasKey(file.keys, call[p].table, call[p].id)
        /\ Return(p, Lookup(snap[p], call[p].table, call[p].id))
        /\ UNCHANGED acked
  /\ UNCHANGED <<file, cutShort, mistaken>>

(***************************************************************************)
(* isKeyExists called on its own.                                          *)
(***************************************************************************)
IsKeyExists(p) ==
  \E t \in Table, i \in KeyId : Begin(p, "find", t, i, NoValue)

FindKey(p) ==
  /\ pc[p] = "find"
  /\ \/ CannotOpen /\ Return(p, Ended("false"))
     \/ Opens /\ ~Decodes(ent[p], file) /\ Return(p, Ended("thrown"))
     \/ /\ Opens /\ Decodes(ent[p], file)
        /\ Return(p, Ended(IF HasKey(file.keys, call[p].table, call[p].id) THEN "true" ELSE "false"))
  /\ UNCHANGED <<file, acked, cutShort, mistaken>>

-----------------------------------------------------------------------------
\* setEntKeyPair copies the pair as it is given.
SetEntKeyPair(p) ==
  /\ pc[p] = "idle"
  /\ \E pair \in EntPair : ent' = [ent EXCEPT ![p] = pair]
  /\ UNCHANGED <<file, pc, call, snap, result, acked, cutShort, mistaken>>

\* The process dies, wherever it is, and is started again.
Restart(p) ==
  /\ file' \in (IF pc[p] \in Writing THEN Interrupted(Text(p)) ELSE {file})
  /\ cutShort' = (cutShort \/ pc[p] \in Writing)
  /\ pc' = [pc EXCEPT ![p] = "idle"]
  /\ call' = [call EXCEPT ![p] = NoCall]
  /\ snap' = [snap EXCEPT ![p] = NoKeys]
  /\ ent' = [ent EXCEPT ![p] = DefaultPair]
  /\ result' = [result EXCEPT ![p] = Ended("none")]
  /\ UNCHANGED <<acked, mistaken>>

Step(p) ==
  \/ Probe(p) \/ CreateBinaryEntFile(p) \/ WriteEmptyTables(p)
  \/ CheckDuplicate(p) \/ LoadDocument(p) \/ OpenForWriting(p) \/ StoreDocument(p)
  \/ ReadDocument(p) \/ ConfirmKey(p) \/ FindKey(p)

Next == \E p \in Proc :
  \/ WriteKeyToFile(p) \/ ReadKeyFromFile(p) \/ IsKeyExists(p)
  \/ SetEntKeyPair(p) \/ Restart(p)
  \/ Step(p)

\* The operating system runs every process that has a step to take.
Fairness == \A p \in Proc : WF_vars(Step(p))

Spec == Init /\ [][Next]_vars /\ Fairness

-----------------------------------------------------------------------------
(***************************************************************************)
(* Properties.                                                             *)
(***************************************************************************)

\* Every variable keeps to its type; a call that returns a key returns key
\* material, whichever document the value was taken from.
TypeOK ==
  /\ file \in File
  /\ file.form = "whole" => file.ent # BadKey
  /\ pc \in [Proc -> {"idle"} \cup Writers \cup Readers]
  /\ call \in [Proc -> [table : Table \cup {"none"}, id : KeyId \cup {NoValue},
                        value : Value \cup {NoValue}]]
  /\ \A p \in Proc : pc[p] # "idle" => call[p].table \in Table /\ call[p].id \in KeyId
  /\ \A p \in Proc : pc[p] \in Writers => call[p].value \in Value
  /\ snap \in [Proc -> Keys]
  /\ ent \in [Proc -> EntPair]
  /\ result \in [Proc -> Outcome]
  /\ acked \subseteq [table : Table, id : KeyId, value : Value]
  /\ cutShort \in BOOLEAN
  /\ mistaken \in BOOLEAN

Damaged == file.form \in {"empty", "torn"}

NobodyWrites == \A p \in Proc : pc[p] \notin Writing

\* appendKeyToFile adds to the file: a key whose write returned true is in
\* the file, with the value of that write, for as long as the file is
\* readable by anyone.
AckedKeyStored ==
  ~mistaken /\ ~Damaged => \A k \in acked : file.keys[k.table][k.id] = k.value

\* Between writes the file is damaged only if some write was cut short, by a
\* death, by a write that failed unseen or by a public key that does not
\* encrypt: no error path of a writer leaves a file it has truncated.
DamageNeedsCutShort == NobodyWrites /\ Damaged => cutShort

\* createBinaryEntFile is called for a file that does not exist.
CreatesOnlyMissingFile == \A p \in Proc : pc[p] = "create" => file.form = "absent"

\* Once a write was cut short the file stays damaged: no call takes it for
\* an empty one, so the loss of the keys is never papered over.
DamageIsFinal ==
  [](NobodyWrites /\ Damaged => [](Damaged \/ mistaken))

\* A whole file is changed only by a process that can decrypt it.
ForeignFileUntouched ==
  [][file' # file /\ file.form = "whole" /\ ~mistaken =>
       \E p \in Proc : pc'[p] # pc[p] /\ ent[p].priv = file.ent]_vars

\* A read that returns a value returns the one that was stored under the
\* name, whatever was written between its two looks at the file.
ReadAgreesWithWrite ==
  [][\A p \in Proc : pc[p] = "confirm" /\ pc'[p] = "idle" /\ result'[p].kind = "value" =>
       \A k \in acked : k.table = call[p].table /\ k.id = call[p].id /\ ~mistaken =>
         k.value = result'[p].value]_vars

\* The const operator[] of the JSON library asserts that the name it is
\* given is there (json.hpp:2147): a read never looks up an absent name.
\* A writer that adds the name between the read's two looks at the file
\* breaks it: the second look finds the name, the first document lacks it.
NoUndefinedRead == \A p \in Proc : result[p].kind # "undefined"

\* writeKeyToFile returns whether the key was written: when it returns true
\* the file is a store that holds the key.
TrueMeansWritten ==
  [][\A p \in Proc : pc[p] = "store" /\ pc'[p] = "idle" /\ result'[p].kind = "true" =>
       /\ file'.form = "whole"
       /\ file'.keys[call[p].table][call[p].id] = call[p].value]_vars

\* No call waits for another: each one returns or throws.
CallsReturn == \A p \in Proc : (pc[p] # "idle") ~> (pc[p] = "idle")

(***************************************************************************)
(* Why they hold when writers take turns: what a writer knows of the file  *)
(* at each of its steps, as long as no failed open misled it.              *)
(***************************************************************************)
OneWriter == \A p, q \in Proc : pc[p] \in Writers /\ pc[q] \in Writers => p = q

WriterHoldsEmptyFile == \A p \in Proc : pc[p] \in Writing => file.form = "empty"

FileStaysThere ==
  \A p \in Proc : pc[p] \in Writers \ {"probe", "create"} => file.form # "absent"

CreatorIsFirst ==
  \A p \in Proc : /\ pc[p] = "create" => file.form = "absent"
                  /\ pc[p] = "init" => acked = {}

NothingAckedBeforeCreation == file.form = "absent" => acked = {}

SlotIsFree(keys, p) == ~HasKey(keys, call[p].table, call[p].id)

AppenderIsCurrent ==
  \A p \in Proc :
    /\ pc[p] \in {"load", "open"} =>
         /\ Decodes(ent[p], file)
         /\ SlotIsFree(file.keys, p)
    /\ pc[p] = "open" =>
         snap[p] = AddKey(file.keys, call[p].table, call[p].id, call[p].value)
    /\ pc[p] = "store" =>
         /\ HasKey(snap[p], call[p].table, call[p].id)
         /\ snap[p][call[p].table][call[p].id] = call[p].value
         /\ \A k \in acked : snap[p][k.table][k.id] = k.value

WritersInTurn ==
  /\ OneWriter
  /\ WriterHoldsEmptyFile
  /\ FileStaysThere
  /\ ~mistaken => /\ CreatorIsFirst
                  /\ NothingAckedBeforeCreation
                  /\ AppenderIsCurrent
                  /\ ~Damaged => \A k \in acked : file.keys[k.table][k.id] = k.value

(***************************************************************************)
(* The file implements the vault.  From the truncation to the write the    *)
(* vault still is what it was before the call: what the writer holds in    *)
(* memory without the key it is about to add.                              *)
(***************************************************************************)
Storing(p) == pc[p] = "store"

VaultState ==
  IF file.form = "whole" \/ \E p \in Proc : Storing(p) THEN "open"
  ELSE IF file.form = "absent" \/ \E p \in Proc : pc[p] = "init" THEN "none"
  ELSE "lost"

VaultKeys ==
  IF \E p \in Proc : Storing(p)
  THEN LET p == CHOOSE q \in Proc : Storing(q)
       IN  AddKey(snap[p], call[p].table, call[p].id, NoValue)
  ELSE file.keys

Vault == INSTANCE KeyVault WITH state <- VaultState, keys <- VaultKeys

ImplementsVault == Vault!Spec
=============================================================================
