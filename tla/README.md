# A TLA+ development of the Hinge framework

The Hinge framework is a Windows DLL (C++17) with ciphers, a hash store, an
Excel importer and exporter for SQLite databases and a few helpers. Its
repository also has `HingeFramework_DLLTEST/main.cpp`, the program it was made
for: a student administration with user accounts. Everything else in the
repository is vendored (boost, OpenSSL, nlohmann::json, SQLiteCpp, libxl),
copied (`.RELEASE/`) or generated (the SWIG binding for Python).

This directory holds models of the parts that keep state, the instances TLC
checks and the proofs TLAPS checks. Line numbers are those of the files under
`src/HingeFramework/` and of `src/HingeFramework_DLLTEST/main.cpp`.

## 1. Inventory

### ENT key file: `Cipher.cpp`, key management in `Aes256Cipher.cpp` and `RsaCipher.cpp`

* State: one file on disk. It is a JSON document with the tables `aes256_keys`
  and `rsa_keys`, encrypted as a whole with the public half of the *ENT key
  pair*. Each cipher object has its ENT pair in memory; the constructor sets a
  fixed one, `setEntKeyPair` replaces it.
* Operations: `writeKeyToFile` (which calls `createBinaryEntFile` or not, then
  `appendKeyToFile`), `readKeyFromFile`, `isKeyExists`.
* Interaction: every operation opens, reads and closes the file by itself; a
  write reads it twice and truncates it before it writes. Processes and threads
  share nothing but the file and take no lock.
* Hard: interleaved writers, a reader beside a writer, a death between the
  truncation and the write, an open that fails, a write that fails without a word
  (a full disk: nobody looks at the stream after `write` and `close`), a pair that
  does not fit the file, a public key that does not parse (`encrypt` then returns "").
* Correct when: a key whose write returned true can be read for as long as the file
  can be read; the file is damaged by writes that were cut short only, by a death, a
  full disk or a key that does not encrypt, and a damaged file is never taken for an
  empty one; a foreign file is left alone; a read returns what was written; every
  call returns.

### User accounts: class `Database`, `initializeSuperAdmin`, `login`, entries 8-10 of `task0` (`main.cpp`), and the hash store (`Hash.cpp`)

* State: the table `users` (name, hash value) in one SQLite file and the table
  `Hashes` (hash value, salt) in another. A user can log in when both rows are
  there.
* Operations: `storeUser`, `deleteUserByUsername`, `changeUserPassword`,
  `verifyPassword` over `storeHash`, `retrieveHash`, `deleteHash`.
* Interaction: the program stores the super admin (always the same hash value)
  at its start, then loops at the login, then serves the menu. Every statement
  commits by itself: no transaction spans the two files or even two
  statements. No busy timeout is set, so a statement that meets another
  program's lock fails at once; and the existence query of each of these calls
  stays on its row until the call returns, which is such a lock.
* Hard: failures and deaths between the two files, programs side by side,
  results that callers ignore, the order "hash first" in a deletion and "row
  first" in a change.
* Correct when: no account is left with a row and without a hash, or the other
  way round; the login can always be passed by somebody; a verification goes by
  the present password.

### DatabaseHandler: `DatabaseHandler.cpp`, entries 1-3, 6 and 7 of the menu

* State: a connection (`database_`, null between calls unless one failed), the
  tables of a SQLite file, the workbook in memory and the one on disk.
* Operations: `importFromExcel`, `exportToExcel`, `tableExists`, `clearTable`,
  `openDatabase`, `closeDatabase`. `createTable` and `insertData` are private
  and called by nobody.
* Interaction: the student entries use a connection of their own to the same
  file, other programs use theirs. Every statement commits by itself, except
  that the query over `sqlite_master` of an export stays open over its reads.
* Hard: row by row inserts without a transaction, exceptions that leave the
  connection behind, the order of clearing, looking for and creating a table
  (lines 73-97), columns that are dropped from the names and not from the cells
  (84-86 and 112-115), texts with an apostrophe, which are pasted into SQL (123),
  numbers that are no doubles (238), writers beside an export, a connection that is
  closed while its query is open (211, 267).
* Correct when: an import that ends early leaves a prefix of the workbook and
  nothing else changed; an export is one state of the file; what was exported can
  be imported and is then what it was; numeric columns hold numbers; `database_` is
  null between calls unless one failed. Each of these has conditions in this code,
  which the properties name.

### Ciphers: data, files, directories (`Aes256Cipher.cpp` 162-388, `RsaCipher.cpp` 184-402)

* State: the files of two directories, and while a call runs, the files it has
  still to do. The file operations read and write in chunks of 4096 or 4112
  bytes; RSA cuts a chunk in blocks of the key's size.
* Operations: `encryptFile`, `decryptFile`, `encryptDirectory`,
  `decryptDirectory`, for both ciphers.
* Hard: input and output being one file, a chunk that is no multiple of the RSA
  block, a bad final block after the output was written, writes that nobody looks
  at, a directory that stops at its first failure.
* Correct when: what was encrypted can be decrypted.

### The start of the program: `task0` and `task1` of `main.cpp`

* State: which of the three keys a program holds, the keys the two databases
  were encrypted with, whether the super admin is stored.
* Operations: three times "look for a key, make one if there is none, read it"
  (`task0`, the constructor of `Database`, `initializeSuperAdmin`), `createTable`,
  storing the super admin, the login, the export with a second `Database`;
  in `task1` the encryption of a directory and the decryption of the result.
* Interaction: it is the only caller of the key file, and what its databases
  and files are encrypted with is in that file and nowhere else.
* Hard: a death or a failure between any two of these steps, two programs at
  once, a start after either.
* Correct when: nothing that was encrypted loses its key; with the key file
  that comes with the program a login can be passed.

### Pure and small parts

`Base64.cpp`, `sha3_256` and the salt (`Hash.cpp` 17-108), `Uuid.cpp`, key
generation. Their hazards are the ends of buffers (`Hash.cpp:29`,
`Hash.cpp:60`) and the life of a returned pointer (`Uuid.cpp:38`).

`PROJECT.json` lists the components with their status and every hazard with
its line and the properties that cover it.

## 2. Modules

| module | content |
|---|---|
| `KeyVault` | what a key file promises: an abstract store, each operation one step |
| `EntFile` | the key file, one step per access to the file; its properties and its refinement of `KeyVault` |
| `MCEntFile` | values for TLC |
| `EntFileProofs`, `EntFileVaultProofs`, `EntFileReadProofs` | theorems about `EntFile`: its safety, its refinement, its reads |
| `Accounts` | what the accounts promise to the person at the program: an abstract store, a request and its answer one step each |
| `Credentials` | the accounts, one step per SQL statement; its properties and its refinement of `Accounts` |
| `MCCredentials` | values for TLC |
| `CredentialsProofs` | theorems about `Credentials` |
| `ExcelTable` | Excel import and export of a SQLite file beside the student entries, one step per SQL statement; its properties |
| `MCExcelTable` | values for TLC |
| `ExcelTableProofs` | theorems about `ExcelTable` |
| `FileCipher` | the file and directory operations of both ciphers; `EncryptedIsRecoverable` |
| `FileCipherProofs` | the theorem about it |
| `TestProgram` | the program from its start to its menu: extends `FileCipher`, instantiates `EntFile`, so that a program's steps on the key file are those of `EntFile` |
| `MCTestProgram` | values for TLC |
| `TestProgramProofs`, `TestProgramTaskProofs` | theorems about `TestProgram`: the keys and the login, the way of the files through `task1` |

Definitions named `Mutant...` are what a plausible mistake would make of the
definition behind them. They are no part of a specification; each property is
known to fail when one of them takes its original's place.

### EntFile

`file` is the file: `absent`, `empty` (truncated), `torn` (a partial write, or a
mixture of two writes) or `whole`, with the ENT key it is encrypted with and the
two tables. `pc[p]` is the access to the file that process `p` makes next,
`snap[p]` the document it holds in memory, `ent[p]` the pair of its cipher
object. The steps of a write are

| step | code |
|---|---|
| `Probe` | `ifstream::good()` chooses between appending and creating |
| `CreateBinaryEntFile`, `WriteEmptyTables` | the truncating open and the write of a document without keys (`Cipher.cpp:85-111`) |
| `CheckDuplicate` | `isKeyExists`, with its own read of the file |
| `LoadDocument` | the second read, and the key added in memory |
| `OpenForWriting` | the open that truncates |
| `StoreDocument` | the write of whatever `encrypt` returned, and `true` |

and those of a read `ReadDocument` and `ConfirmKey` (`isKeyExists` is asked only
after the document was read). Both ciphers are modelled: they differ in what they
do with a name that is taken (false or an exception, `Refuse`) and use different
tables of one file. A JSON table is null until its first key is added; keys
are never removed, so `IsNull` is emptiness.

Encryption is modelled by what it decides: a text decrypts with the private half
of the pair whose public half made it, anything else does not parse. `BadKey`
stands for any text that is no PEM key.

`Restart` is the death of a process at any point. In the middle of a write it
leaves what the operating system had taken over: nothing, part or all of the
text. With `WriteMayFail` a write of either kind (`WriteAndClose`) may leave the same and
the call goes on as if nothing had happened: `createBinaryEntFile` and both
`appendKeyToFile` write, close and do not look at the stream
(`Aes256Cipher.cpp:432-435`, `RsaCipher.cpp:467-470`, `Cipher.cpp:107-108`), so true may
come with a file that is empty or torn. `OpenMayFail` lets opens of an existing file fail.

`Serial` is TRUE when the callers see to it that one writer is at work at a
time, as a single run of the test program does. The code has no means to
enforce it: with FALSE, run `ent_lostkey` shows what happens.

Histories: `acked` (the keys whose write returned true), `cutShort` (a write
died, failed or had nothing to write), `mistaken` (a failed open was taken for a
missing file). No guard reads them.

### Credentials

`users[u]` is the hash value in the row of `u`, `hashes` the content of the
table `Hashes` (a hash value stands for itself and its salt), `table` whether
that table was made yet. `phase[p]` is where program `p` is in `task0`: storing
the super admin, at the login, in the menu, or in the verification loop of entry
10 (`reauth`). `pc[p]` is the statement it executes next and `job[p]` what its
call holds in local variables: the user, the password to verify, the hash value
it read (`old`) and the one it makes (`new`).

| call | steps |
|---|---|
| `storeUser` | `CountUser`, `InsertUser`, `OpenHashes`, `InsertHash` |
| `deleteUserByUsername` | `FindUser`, `DropHash`, `DropRow` |
| `verifyPassword` | `LookUpUser`, `RetrieveHash` |
| `changeUserPassword` | `RereadUser`, `UpdateUser`, `DropHash`, `OpenHashes`, `InsertHash` |

The existence query of a call (`main.cpp:139`, `170`, `201`, `230`) gives its one
row and is not reset: it lives, and with it a SHARED lock on the file of `users`,
until the end of the `try`. While it does (`ReadsUsers`), no other program's INSERT,
UPDATE or DELETE on `users` can commit; without a busy timeout it fails at once
(`UsersLocked`). The count of `storeHash` does the same to the file of the hashes up
to its INSERT (`ReadsHashes`, `HashesLocked`). So a row does not change between the
moment a call has read it and its return, and when two programs are in such calls,
neither can write its row. That can happen to a deletion after its hash is gone: the
DELETE of the row is refused because another program is, say, about to register
somebody, the call returns false ("Deletion failed", `main.cpp:223`), and the user
has a row without a hash. Likewise a change or a registration whose INSERT of the
hash is refused. These are failed statements, recorded in `harmed`.

Two queries in a row that both end the call when there is no row are one step
(the existence query and `getUser`); so are the `CREATE TABLE IF NOT EXISTS` and
the count of `storeHash`: only this code makes that table, and nothing drops it.

With `MayFail` a statement may fail for another reason, too. What a failure does follows the
`try` blocks: a failing INSERT in `storeHash` and a failing DELETE in
`deleteHash` become a `false` that no caller looks at, everything else is
thrown and becomes the `false` of the call. `deleteHash` can also throw after its
DELETE took effect (`SELECT changes()`, `Hash.cpp:204`).

A new hash is over a random salt, so it is one found nowhere (`Fresh`), except
the super admin's, which is a literal in the source (`main.cpp:399-402`).

The super admin's name is deciphered from a literal with a key of the key file
(`main.cpp:403`). The model keeps one name: it assumes that the key file stays
the one it was. `TestProgram` has the other case: a program that is installed without
a key file makes a key of its own, with which the literal deciphers to nothing
that can be typed at the prompt, and nobody can log in.

`ImplementsAccounts` is the refinement. In `Accounts` a request is made, and answered
with its whole effect at one moment; here that moment is the last statement of the
call. Until then `StoreAccount` has the account as it was: with the old hash while a
deletion or a change is at work on it (`AtWork`), not there while it is being stored.
A change of a password is three steps of `Accounts`: the verification, the
new password (`RereadUser`), the change. A death is a restart without any effect, or it
sets `harmed`, and `Accounts` promises nothing any more.

The history `harmed` is TRUE once a failure or a death left a row without its
hash. The properties say what the code does apart from that, and that nothing
else can do such harm.

### ExcelTable

`db[t]` is the set of rows of table `t`, `excel` the workbook on disk, `conn[p]`
whether `database_` of `p`'s handler points to a connection, `book[p]` the workbook
that a call holds in memory, `at[p]` the sheet and the row it has come to.

| call | steps |
|---|---|
| `importFromExcel` | `ImportFromExcel` (open the file, load the workbook), for each sheet `Clear` (DELETE, then the headers) and one `InsertRow` per row, `Close` |
| `exportToExcel` | `ExportToExcel` (open, begin the query over the tables), one `WriteSheet` per table, `SaveBook` |
| `clearTable` | `ClearTable`: the process is gone when there is no connection |
| student entries | `InsertStudent`, `DeleteStudent`, `UpdateStudent` |

A cell is the text it has; a blank cell and NULL are `Null`. It is assumed that
libxl's `readStr` gives the text of a numeric cell and the empty text for a
blank one; a text without characters, which an export writes as a blank, counts as
`Null`. `PastedRow` is the row of texts that is pasted, with the shift of the
code: a column gets the cell at the place of its name among the names that were
kept.

The texts go between apostrophes as they are (line 123), and `exec` runs whatever
statements come of it. `Quoted` are the words with an apostrophe. Those whose
apostrophes are all doubled (`Doubled`) are accepted and stored with single ones
(`AsRead`, `Unquote`): `StoredRow` is the row as SQL reads it. Any other one
(`OddTexts`) ends its literal early. Most often the statement cannot be parsed then
and nothing is stored; but the texts of a row can make SQL together (`Spilling`): a name
may close its row with a text in a numeric column and begin a comment, or be followed by
statements on other tables. `Spill` is that step. What it leaves is one of
`Aftermath`, any states of the tables that keep their columns and primary
keys; the call goes on with the next row, or ends in an exception when a statement
failed after others had been executed. `Refused` is a key that is taken and a text
in an INTEGER PRIMARY KEY.

An export shows a row as `Shown`: a numeric column goes through `std::stoll` or
`std::stod` to `writeNum`, which takes a double, so an integer from 2^53 on may come
out as another one (`Double`). The branch that creates a missing table (lines 89-100)
cannot be reached, because the DELETE before it has thrown; the model has no
step for it.

`Locked` is the lock of SQLite's rollback journal: as long as a query is open no
other connection can commit, and without a busy timeout the statement fails at once.
`conn` is the pointer `database_`, not the connection behind it. An exception leaves
it (`Throw`), a return comes by `closeDatabase`, which clears it (`Return`), and a
death releases everything (`Restart`). The two returns of `exportToExcel` (218, 267)
call `closeDatabase` while `tables_query` (211) is not finalized; `sqlite3_close`
then refuses, which SQLiteCpp's destructor warns of (`Database.h:259-262`) and
asserts in a debug build (a `Restart` here), and the connection stays open. Nothing
points to it any more and, its query being gone with the call, it holds no lock, so
it is not part of the state: every successful export leaks one. Input and output are
one path in the model, which lets an export be imported.

Histories: `before` (the tables at the beginning of a call), `disturbed`
(another connection wrote meanwhile, or a row of the call itself ran as SQL),
`tainted` (a workbook with a column of its own, a text in a numeric column or a row
that may run as SQL was imported), `faulted` (a call threw),
`own` of a workbook (made by `exportToExcel`).

### FileCipher

`disk[d][n]` is the file `n` in directory `d`: none, plain with a text, or a
ciphertext with its cipher, key and text. `op` is the call that runs: what it is
doing, for which directories, with which key, and the files still to do and
done. A file takes two steps: `OpenFiles` (which empties the output) and
`CopyFile` (which reads the input as it is then, so with one path for both it
finds nothing). `Abort` is a death, in the middle of an output or not.

Texts have lengths, because RSA depends on them: `Pieces` are the pieces
`decrypt` gets of a ciphertext when `decryptFile` cuts it in chunks and `decrypt`
each chunk in blocks, and a ciphertext opens when all of them are blocks that
`encrypt` made. What a failed decryption leaves is the empty text or one nobody
wrote (`Junk`), for AES with false or, by chance, true, for RSA always with true.
`FilesSpec` is the operations by themselves, with any caller, and anything
happening to the files between two calls.

### TestProgram

`stage[p]` is how far program `p` has come, `wanted[p]` the key it is about to
get, `held[p]` the keys it has; the steps of `isKeyExists`, `writeKeyToFile` and
`readKeyFromFile` are those of `EntFile` (`FileAccess`), between them are the
steps of the program:

| code | steps |
|---|---|
| look, make, read (`main.cpp:446-461`, `81-93`, `384-397`) | `Find`, `MakeKey`, `ReadKey`, `GotKey`, `NoKey` (the uncaught exception) |
| constructor of `Database`, `createTable` | `ConstructDatabase`, `Constructed`, `CreateTable` |
| `initializeSuperAdmin`, `storeUser` | `GotAdminKey`, `StoreAdmin`, `StoreHash` |
| login, entry 7, entry 11 | `Login`, `Export` and `ExportHashes`, `Quit` |
| `task1` | `EncryptOrigin`, `DecryptEncrypted`, `EndTask1`, over the steps of `FileCipher` |

`dbKey[d]` is the key of database `d`, which the first write decides. Keys are
AES keys; a generated one (`Generated`) is some key that is found nowhere, so no
two are equal by chance. `task` is the build: `task0`, `task1`, or `library`, which is any
caller of the file operations on any two directories, the same one twice included.
The program begins with the files that come with it (`assets-test/data` has the
key file and both databases) or with none. Every change of `disk` and `op` is a
step of `FilesSpec`: a call, a `FileStep`, an `Abort`, or a user's file put there
between two calls.

Histories: `raced` (two programs wrote the key file at once), `flawed` (a call of
the running `task1` met a fault), `fault` (the same of the last call), and those
of `EntFile`. The one guard that reads them is a bound, `Start` (see below).

## 3. Runs

| run | instance | shows |
|---|---|---|
| `ent_single` | one process, all kinds of ENT pairs, failing opens, writes that fail unseen, deaths anywhere; two names in each table | `AckedKeyStored`, `DamageNeedsCutShort`, `ForeignFileUntouched` |
| `ent_readers` | two processes, one writer at a time, readers at any time, writes that fail unseen; two values | `CreatesOnlyMissingFile`, `DamageIsFinal`, `ReadAgreesWithWrite`, and that the file implements `KeyVault` |
| `ent_concurrent` | two processes, no turns | `TypeOK`, and `CallsReturn` under fairness |
| `ent_lostkey` | two writers | finding: an acknowledged key is lost |
| `ent_openfails` | one process, opens may fail | finding: an existing file is created anew |
| `ent_staleread` | a writer beside a reader, two names | finding: a name is looked up in a document that lacks it (`NoUndefinedRead`) |
| `ent_badkey` | one process, a public key that does not parse | finding: true is returned and nothing was written |
| `acc_solo` | one program, statements succeed, it may die and restart anywhere | `HashesMatchRows`, `LoginPossible`, `VerifiesPresentPassword`, and that the calls implement `Accounts` |
| `acc_pair` | two programs, statements may fail, deaths anywhere | `TypeOK`, `NobodyStranded` |
| `acc_stored` | one program, statements may fail | finding: true is returned for a user who cannot log in |
| `excel` | two programs, one importing, both exporting; two tables, two workbooks of the user, texts with apostrophes of each kind, a number that is no double; any failure, deaths anywhere | `TypeOK`, `ImportIsPrefix`, `ExportIsSnapshot`, `OwnBookIsAccepted`, `OwnBookRestores`, `NumbersStayNumbers`, `PointerOnlyAfterFault` |
| `program` | two programs of `task0`, one at a time of `task1`, or a caller of the file operations; any failure, also of a write of the key file, but of opening it; one death | `TypeOK`, `DataHasItsKey`, `ShippedCanLogin`, `CompleteStoreIsSafe`, `TaskRoundTrip`, `EncryptedIsRecoverable`, and that every step of these programs is one of `KeyVault` to the key file (`KeyFileIsVault`) |

Bounds. But for `MaxDeaths` nothing is capped by a counter: the state spaces are
finite because names, values and hashes are. Two processes are enough for every race between
two accesses, the only kind the code has; two names in each of the two tables
distinguish "null table", "other key" and "this key"; two values
(in `ent_readers`) tell a replaced value. In `Credentials` two users are the super admin and
another, three or four fresh hashes let a program register, change and delete
again with a hash of each step still around; a hash value that is in no row, in
no call and not stored is used again, and when failures have used up the
pool no new account is made, which ends that behaviour and hides none before
it. `acc_pair` uses one password, since what it checks does not depend on
the answer of a verification (a failing statement gives the other answer), and
takes programs and fresh hashes as symmetric.

In `excel` the workbooks of the user are two: one as an export makes it, with the
columns in another order, a key that is no double and a name with doubled
apostrophes, and one with everything odd: a column the table lacks, a text under it
that runs as SQL after the shift has put it into a column, a key that is there
twice, a sheet without rows and one without a table. Every branch of the import,
every reason to refuse a row, and rows that come after one, are among them. The one
aftermath empties one table and puts a text into a numeric column of the other. A
name that came in with doubled apostrophes is stored with single ones, so that the
next export has a text that its import refuses, and the large key comes out of an
export as another number. One student is entered by hand. One program imports; the
imports of two at once are two writers, of which `disturbed` says that the
properties are silent.

In `program` a chunk has six bytes and a block one of plaintext less than of
ciphertext, with blocks of two, three and four: two divide the chunk and one
does not, and the texts make no, one and two chunks. `Start` (a bound named in the
module) starts no program after the key file was damaged or raced for: what
happens then is `EntFile`'s, and every property of the program excepts it.
`MaxDeaths` is one; in this state space two programs can be in the middle of their
starts when it happens. `Value` has twelve keys, more than any behaviour uses at
once. Opens of the key file do not fail here (`OpenMayFail`), since `ent_openfails`
shows what one failure does to the whole file. Deadlock is not checked in this run
because of the bound in `Start`: when all programs have ended after the file was
damaged, nothing happens.

What the findings are:

* `ent_lostkey`: `appendKeyToFile` writes back the document it read without a lock.
* `ent_openfails`: `writeKeyToFile` cannot tell a missing file from one it could
  not open, and creates it anew.
* `ent_staleread`: `readKeyFromFile` reads the document, then `isKeyExists` reads
  the file again; a name that was written in between is found there and looked up
  in the first document. The library asserts that it is there (`json.hpp:2147`); with
  `NDEBUG` the end iterator is dereferenced. Two writers are not needed, a reader
  beside one is enough.
* `ent_badkey`: the result of `encrypt` is not looked at, the file is already
  truncated, the call returns true.
* `acc_stored`: `storeUser` does not look at the result of `storeHash`.

## 4. Fairness

`EntFile` assumes weak fairness of every process's file accesses, one condition
per process and no more: the operating system runs a process that has a step to
take, and none of the accesses waits for anything. No fairness is assumed of the
calls (nobody has to write a key), of restarts or of failures. It is used by
`CallsReturn` only. `DamageIsFinal` has the form of a temporal property and
needs no fairness. `Credentials`, `ExcelTable` and `TestProgram` state no liveness
property: what their steps wait for is a user.

## 5. Proofs

All theorems are for any number of processes, names, values, users, tables and
hashes, except where one process or program is said. The assumptions on the
constants are those named in the modules (`...Assumption`); TLC evaluates each of
them in a run.

`EntFileProofs`. `TypeCorrect` holds without conditions. The others assume
`Serial`. None of the safety properties is inductive by itself; the
strengthening is `WritersInTurn` (in `EntFile`, next to the properties): one
writer at a time, a writer that has opened the file holds an empty one, and a
writer in the middle of an append knows the file: what it read is what is there,
its name is free, and what it will write has every acknowledged key
(`AppenderIsCurrent`). The last part is what fails with two writers. From it
follow `AckedStays`, `DamageHasCause` and `DamageStays`.

`EntFileVaultProofs` adds `~OpenMayFail`. `CreatedOnce` needs it because a failed
open is taken for a missing file. `FileImplementsVault` maps the file, and while
a writer holds it truncated the writer's memory, to the abstract store
(`VaultState`, `VaultKeys`): the store changes at the step that ends a write, and
is lost at the step that cuts one short. `ForeignFileStays` needs `Serial`
only. `StoredKeysStay` says what a step does to the keys of the vault (`KeptOrLost`): a
key stays or the store is lost as a whole, and a lost store is not taken for one
without keys. It follows from the
steps of `KeyVault`, which adds keys under free names only.

`EntFileReadProofs` is about readers. `ReadsAgree` assumes `Serial`: a reader takes
its document at one access and looks the name up at the next, and between the two a
writer may truncate, write, or die. The invariant says what a name means once
anybody has seen a value under it (`Settled`): the file has that value, or the
writer that holds the file truncated will write it, and no write that returned true
had another; so a document that is read early is never contradicted later
(`ReadersKnow`). `TrueIsWritten` is about writers: what `writeKeyToFile` promises
with true. From the moment the document is loaded until it is written it has the key
of the call (`HoldsItsKey`), also when the write began with a failed open. That
every public ENT key parses is a hypothesis, and `ent_badkey` shows why; so is
`~WriteMayFail`, because a call whose write fails on a full disk returns true all
the same. The other theorems of the three modules hold with such writes: the loss is
a damaged file, which is never taken for one without keys.

`CredentialsProofs`. `TypeCorrect` and `NotStranded` hold for any number of
programs with failing statements. The invariant (`IInv`) says that a row
without its hash is one some call is still at work on (`Covered`). To keep
that, `DropHash` must never hit a hash that another row or a later version of
the row relies on, which needs: a fresh hash is known to one call until it is
written (`NewIsNew`), no two rows share a hash (`OneRow`), the hash a call read
is in no other user's row (`OldIsUsers`), and while a change drops the hash it
replaced, no row has that hash (`Replaced`). For the super admin, whose hash is
always the same value and comes back when he was deleted, the last part and the
coverage of a deletion rest on the locks: from the moment a call has read the row of its
user until it returns no other call writes that row (`AsRead`, by `UsersLocked`).
So the theorem needs no exception for him; the mutant of `UsersLocked` shows what
would happen if the existence queries were reset.

The remaining theorems of the module are for one program whose statements succeed
(`Solo`), as in `acc_solo`. Nobody else changes the tables then, so the hash store
is at each statement what the rows make of it, but for the one hash the call is at
work on (`InStep`): missing while `storeHash` runs, the old one besides the new one
while a change drops it, gone while a deletion has still to drop the row. `Started`
adds that from the login on the super admin has a row. Between calls no call is at
work, and `TablesAgree` follows; `LoginStaysPossible` and `PresentPasswordVerifies`
are `InStep` at the login and at `RetrieveHash`. A death is not excluded: it sets
`harmed` when it leaves a row without its hash. `AccountsImplemented` is the
refinement of `Accounts`. Beside `InStep` it needs `Kept`: between calls nothing of
the last one is left, and the row of a verified user is still there when its change
begins. Every statement then is a request, an answer or a stutter (`RequestIsMade`,
`StoringAnswers`, `DeletingAnswers`, `VerifyingAnswers`, `ChangingAnswers`,
`MiddleOfCall`), and a death that does not set `harmed` finds every account as it
was (`RestartDoesNothing`).

`ExcelTableProofs` proves the seven properties of `ExcelTable`, for any tables,
workbooks and programs. The invariant `Inv` has the types (`Flat`: of the variables
that are no workbooks; `TableOK`; `ExcelOK` and `CallOK`: a workbook has rows as
long as its header), the place of a call in its workbook, and for each call in an
importing step what the tables hold of the sheets that are done and of the present
one (`ImportOK`, with `PrefixOK`), for each exporting one that the sheets made are
those of the tables as they were (`ExportOK`). An import changes the table of its
present sheet only, and no name of a sheet is there twice; an exporting call in its
reading step is `Locked`, so `db` does not change; in the saving step nothing reads
`db` any more. `NumbersStay` rests on the fact that with known headers every cell is
stored under its own header, that is, `Place` is the identity then (`PlaceOfKnown`),
that a number is read as it is (`NumberAsRead`), and that a row that runs as SQL
came from a workbook that tainted the tables. What an import has stored is described
by `ReadRows`, the rows of the sheet as SQL reads them; a row that ran as SQL leaves
tables of the right types and ends what is claimed of any call under way
(`SpillKeepsInv`). `PointerCleared` has an invariant of its own (`ConnInv`).
`OwnBooksAccepted` follows a workbook from the tables to the disk and back
(`OwnInv`): no two rows of a table have one key (`KeyIsPrimary`), an order of a
finite set of rows has each of them once (`OrderIsInjective`, by counting), so a
sheet of the program's own whose keys are exact as doubles (`KeysExact`) has each
key once and, always, a number where it has to be one (`OwnSheet`), and an import of
it has in its table only rows that stand before the present one in the sheet
(`ImportIsPrefix`), none of which has its key. `OwnBooksRestore` is the way back: an
export that is saved has a sheet for every table, empty ones too, and the workbook
keeps them on disk and in the memory of an import (`WholeInv`); with
`ExportTakesSnapshot`, the rows an undisturbed import ends with are those the export
found. That a table is emptied before its rows come is part of it, so what it held
in between is gone.

`FileCipherProofs` proves `EncryptionIsUndone` of `FilesSpec`: for any directories, any
sizes of texts, chunks and keys. The first half is arithmetic: a ciphertext is
a whole number of blocks; where the block divides the chunk, or the ciphertext is
no longer than one chunk, every piece begins at a block and is one
(`UncutWhenFits`). The second half is the invariant: a call writes its output only at
files that are still to do, and those are never done (`done` and `todo` are
disjoint), so with input and output in different directories a file that is
done stays as `CopyFile` left it.

`TestProgramProofs` is about the composition. Its first layer is `Types`: the types
of the key file's variables (`KeyTypes`, over `EntFile`'s `TypeOK`), those of the
program (`ProgTypes`), and which access and which keys go with each stage
(`Local`). `Effect` sums up what an access does to the file, `KeyEvent` what any
step of a program does to it; both are derived from the actions once and used by
everything that follows. On them rest:

* `ProgramsTakeTurns`: `InTurn` is `EntFile` with `Serial` TRUE, over the variables
  of the programs, and until two programs write at once each step is one of
  `InTurn!Next` (`Uses`, one lemma for each kind of step). The turns that the theorems
  about `EntFile` assume are thus not assumed of the programs but, until
  `raced`, a fact. `ProgramsKeepVault` carries the invariant of `EntFileVaultProofs`
  through these steps (`VaultKept`; `CalmBefore`: what is `Calm` now always was) and
  cites its refinement for each of them.
* `ProgramsUseFiles`: `TestProgram` implements `FilesSpec`. Every step on the
  directories is one of `FilesNext` or leaves them alone, so
  `EncryptedFilesOpen` is `EncryptionIsUndone` of `FileCipherProofs`.
* `CompleteStays`: one program is in a write at a time, and what it found at each
  access still holds (`Turns`), as long as no two raced and no failed open misled
  one (`Calm`). A writer with a name that is taken is refused before it opens the
  file.
* `KeysAreKept`: as long as the file came to no harm (`Sound`), a key that a
  program holds or is about to be given is in the file, or the writer that has it
  truncated will write it (`Has`); so are the keys of the databases and of the
  files of `task1` (`Known`). A key is generated before it is written and used
  only after it was read back: that is what makes a death between any two of these
  steps harmless.
* `LoginCanBePassed`: either everything is as shipped (`ShippedStart`), or the
  program made its own keys and the shipped key of the database `scores` is in no
  file, call or memory (`OwnStart`), because a generated key is one found nowhere;
  then no database is encrypted with it. In the first case the key a program holds
  and the one the database has are both what the key file has under the name
  (`OneKey`).

`TestProgramTaskProofs` proves `FilesComeBack`. `task1` runs alone (`Alone`), nothing
but files of the user is in `origin` (`OriginPlain`), and each of the two calls
has an invariant: the files that are done are those of `origin` under the key
(`Encrypts`), or those of `encrypted` opened (`Decrypts`), and `todo` with `done` is
always everything. `LeftoverAssumption` is used twice: in `origin` is what the user
put there (`FilesComeBack`), and nothing is encrypted yet with a key of the key file
(`KeysAreKept`).

Only model-checked: `CallsReturn`, because liveness under fairness is beyond the
prover.

## 6. Not modelled

* The block ciphers, digests, SQL and libxl themselves: their results are values.
* `Base64`, the salt and `Uuid`: pure functions over bytes without a state that a
  model could relate them to; their hazards are ends of buffers.
* `cin`: what a failing extraction leaves in the variables of the menu. The
  students that can be entered are arbitrary, so the properties of `ExcelTable` hold
  for the ids it leaves.
* The texts of messages, the layout of workbooks, `searchStudent`,
  `showAllStudents` and `task2`, which change nothing.
* Threads inside one process that share a cipher object or a handler: no code
  does it.
* Connections that nothing points to: the one `openDatabase` overwrites after an
  exception, and the one each export leaves because its query is still open when it
  is closed. They hold no lock between calls; what they cost is a file handle each.
* Pasted SQL that changes the schema or leaves a transaction open, and sheet names
  that are SQL (line 33 and 105 paste them too) or differ from a table's in case only.
* What libxl's `readStr` gives for a numeric cell beyond its text.
* Walks of a directory that contains its own output.
* The import of the table `users` beside the hash store (`ExcelTable` and
  `Credentials` each have one half).
* The Python binding (generated).

## 7. Plan

What could be added to this project:

1. The import of the table `users` as an action of `Credentials`: it replaces
   every row and no hash.
