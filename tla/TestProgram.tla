----------------------------- MODULE TestProgram -----------------------------
(***************************************************************************)
(* The test program (main.cpp) from its start to its menu, over the key    *)
(* file as EntFile has it, access by access, and over the file operations  *)
(* of FileCipher.  main runs one task; a build runs task0, the student     *)
(* system, or task1, which encrypts and decrypts a directory.  Both begin  *)
(* with the same key.  The third task stands for any other caller of the   *)
(* file operations of the library.                                         *)
(*                                                                         *)
(* Programs may be started, may end and die at any time, also several at   *)
(* once in task0.  A key that is generated is one that is nowhere yet.     *)
(***************************************************************************)
EXTENDS FileCipher

CONSTANTS Proc,         \* the programs
          K0, K1, K2,   \* the names of the keys: of the data, of the hashes, of the admin
          Value,        \* AES keys
          NoValue,
          EntPair,      \* the ENT key pair, which nobody changes
          EntKey, BadKey, DefaultPair,
          OpenMayFail,  \* TRUE: opening the key file may fail
          WriteMayFail, \* TRUE: a write of the key file may fail unseen
          Shipped,      \* the keys of the files that come with the program
          Task,         \* the tasks of the builds, of "task0", "task1" and "library"
          Leftover,     \* Leftover[t]: what may be in the directories before task t
          UserText,     \* UserText[t]: the texts a user of task t has
          LibName,      \* the names of files in the third task, and its directories
          LibDir,
          LibKeys,      \* LibKeys[c]: the keys it calls cipher c with
          MaxDeaths     \* bound: how many programs die

KeyId == {K0, K1, K2}

ASSUME ShippedAssumption == Shipped \in [KeyId -> Value] /\ Value \subseteq AesKey

ASSUME KeyFileAssumption ==
  /\ K0 # K1 /\ K0 # K2 /\ K1 # K2
  /\ NoValue \notin Value /\ NoValue \notin KeyId
  /\ BadKey \notin EntKey
  /\ EntPair \subseteq [pub : EntKey \cup {BadKey}, priv : EntKey \cup {BadKey}]
  /\ DefaultPair \in EntPair
  /\ DefaultPair.pub = DefaultPair.priv /\ DefaultPair.pub \in EntKey
  /\ OpenMayFail \in BOOLEAN /\ WriteMayFail \in BOOLEAN

ASSUME TaskAssumption ==
  /\ Task \subseteq {"task0", "task1", "library"}
  /\ \A t \in Task : Leftover[t] \subseteq [Dir -> [Name -> Content]]
  /\ \A t \in Task \ {"task0"} : UserText[t] \subseteq PlainText
  /\ {"origin", "encrypted", "decrypted"} \subseteq Dir
  /\ LibDir \subseteq Dir /\ LibName \subseteq Name
  /\ LibKeys["aes"] \subseteq AesKey /\ LibKeys["rsa"] \subseteq RsaKey \cup {BadPem}

\* Before task1 no file is encrypted with a key of its key file, and origin
\* holds what its user put there.
ASSUME LeftoverAssumption ==
  "task1" \in Task =>
    \A files \in Leftover["task1"], n \in Name :
      /\ files["origin"][n].form \in {"none", "plain"}
      /\ \A d \in Dir : files[d][n].form = "aes" => files[d][n].key \notin Value

VARIABLES
  file, pc, call, snap, ent, result, acked, cutShort, mistaken,   \* EntFile
  task,      \* the task of the build
  stage,     \* stage[p]: how far p has come, "off" when it does not run
  wanted,    \* wanted[p]: the name of the key it gets
  held,      \* held[p][i]: the key named i in p's memory
  dbKey,     \* dbKey[d]: the key that database d is encrypted with, once written
  users,     \* the names under which the super admin has been stored
  hashed,    \* has its hash been stored?
  deaths,
  raced,     \* history: two programs wrote the key file at once
  flawed     \* history: a call of the present task1 met a fault

Ent == INSTANCE EntFile WITH Serial <- FALSE

entVars == <<file, pc, call, snap, ent, result, acked, cutShort, mistaken>>

progVars == <<task, stage, wanted, held, dbKey, users, hashed, deaths, raced, flawed>>

vars == <<entVars, fileVars, progVars>>

Aes == "aes256_keys"

Db == {"scores", "hashes"}

KeyOf(d) == IF d = "scores" THEN K0 ELSE K1

NothingHeld == [i \in KeyId |-> NoValue]

-----------------------------------------------------------------------------
(***************************************************************************)
(* The start: with the files that come with the program, or with none.     *)
(***************************************************************************)
ShippedFile ==
  [form |-> "whole", ent |-> DefaultPair.pub, keys |-> [Ent!NoKeys EXCEPT ![Aes] = Shipped]]

Init ==
  /\ \/ /\ file = ShippedFile
        /\ dbKey = [d \in Db |-> Shipped[KeyOf(d)]]
        /\ users = {"admin"} /\ hashed = TRUE
     \/ /\ file = Ent!Blank("absent")
        /\ dbKey = [d \in Db |-> NoValue]
        /\ users = {} /\ hashed = FALSE
  /\ pc = [p \in Proc |-> "idle"]
  /\ call = [p \in Proc |-> Ent!NoCall]
  /\ snap = [p \in Proc |-> Ent!NoKeys]
  /\ ent = [p \in Proc |-> DefaultPair]
  /\ result = [p \in Proc |-> Ent!Ended("none")]
  /\ acked = {} /\ cutShort = FALSE /\ mistaken = FALSE
  /\ task \in Task
  /\ \E files \in Leftover[task] : FilesInit(files)
  /\ stage = [p \in Proc |-> "off"]
  /\ wanted = [p \in Proc |-> K0]
  /\ held = [p \in Proc |-> NothingHeld]
  /\ deaths = 0
  /\ raced = FALSE /\ flawed = FALSE

\* p's own next step; of the rest nothing changes but what the step names.
At(p, label) == stage[p] = label /\ pc[p] = "idle"

To(p, label) == stage' = [stage EXCEPT ![p] = label]

\* The program is over: its objects are gone.
Exit(p) ==
  /\ To(p, "off")
  /\ wanted' = [wanted EXCEPT ![p] = K0]
  /\ held' = [held EXCEPT ![p] = NothingHeld]
  /\ Ent!Restart(p)

-----------------------------------------------------------------------------
(***************************************************************************)
(* Getting a key: isKeyExists, and unless it returns true or throws,       *)
(* generateKey and writeKeyToFile; an exception of these is caught.  Then  *)
(* readKeyFromFile, whose exception nobody catches.                        *)
(***************************************************************************)
InUse == UNION {{file.keys[Aes][i] : i \in KeyId},
                {dbKey[d] : d \in Db},
                {held[q][i] : q \in Proc, i \in KeyId},
                {call[q].value : q \in Proc},
                {snap[q][Aes][i] : q \in Proc, i \in KeyId},
                {disk[d][n].key : d \in Dir, n \in Name},
                {Shipped[i] : i \in KeyId}}

Unused == Value \ InUse

Generated == CHOOSE v \in Unused : TRUE

Find(p, i) ==
  /\ To(p, "find")
  /\ wanted' = [wanted EXCEPT ![p] = i]
  /\ Ent!Begin(p, "find", Aes, i, NoValue)

Read(p, i) ==
  /\ To(p, "read")
  /\ wanted' = [wanted EXCEPT ![p] = i]
  /\ Ent!Begin(p, "read", Aes, i, NoValue)

MakeKey(p) ==
  /\ At(p, "find") /\ result[p].kind = "false"
  /\ Unused # {}
  /\ To(p, "write")
  /\ Ent!Begin(p, "probe", Aes, wanted[p], Generated)
  /\ raced' = (raced \/ \E q \in Proc \ {p} : pc[q] \in Ent!Writers)
  /\ UNCHANGED <<wanted, held, dbKey, users, hashed>>

ReadKey(p) ==
  /\ \/ At(p, "find") /\ result[p].kind \in {"true", "thrown"}
     \/ At(p, "write")
  /\ Read(p, wanted[p])
  /\ UNCHANGED <<held, dbKey, users, hashed, raced>>

\* Mutant: the program goes on without the key.
MutantNoKey(p) ==
  /\ At(p, "read") \/ At(p, "again")
  /\ result[p].kind # "value"
  /\ To(p, "tables")
  /\ UNCHANGED <<entVars, wanted, held, dbKey, users, hashed, raced>>

\* Nobody catches that: the program is over, also in the menu.
NoKey(p) ==
  /\ At(p, "read") \/ At(p, "again")
  /\ result[p].kind # "value"
  /\ Exit(p)
  /\ UNCHANGED <<dbKey, users, hashed, raced>>

\* Mutant: one member for the keys of all names.
MutantGotKey(p, i) ==
  /\ At(p, "read") /\ wanted[p] = i /\ result[p].kind = "value"
  /\ held' = [held EXCEPT ![p] = [j \in KeyId |-> result[p].value]]
  /\ UNCHANGED <<dbKey, users, hashed, raced>>

GotKey(p, i) ==
  /\ At(p, "read") /\ wanted[p] = i /\ result[p].kind = "value"
  /\ held' = [held EXCEPT ![p][i] = result[p].value]
  /\ UNCHANGED <<dbKey, users, hashed, raced>>

-----------------------------------------------------------------------------
(***************************************************************************)
(* task0: key K0, the constructor of Database with key K1, createTable,    *)
(* initializeSuperAdmin with key K2, the login, the menu.                  *)
(***************************************************************************)
Started(p) == held[p][K2] # NoValue

ConstructDatabase(p) ==
  /\ task = "task0"
  /\ GotKey(p, K0)
  /\ Find(p, K1)

\* The constructor is done: at the start, or of hash_db in the export.
Constructed(p) ==
  /\ GotKey(p, K1)
  /\ To(p, IF Started(p) THEN "menu" ELSE "tables")
  /\ UNCHANGED <<entVars, wanted>>

\* A database takes the key of its first writer and no other.
Accepts(d, k) == dbKey[d] \in {NoValue, k}

\* createTable catches what goes wrong and goes on.
CreateTable(p) ==
  /\ At(p, "tables")
  /\ \/ Accepts("scores", held[p][K0]) /\ dbKey' = [dbKey EXCEPT !["scores"] = held[p][K0]]
     \/ (~Accepts("scores", held[p][K0]) \/ MayFail) /\ UNCHANGED dbKey
  /\ Find(p, K2)
  /\ UNCHANGED <<held, users, hashed, raced>>

GotAdminKey(p) ==
  /\ GotKey(p, K2)
  /\ To(p, "admin")
  /\ UNCHANGED <<entVars, wanted>>

\* What the name of the super admin deciphers to: with another key than the
\* one it was enciphered with, to nothing or to a text nobody knows.
AdminName(k) == IF k = Shipped[K2] THEN "admin" ELSE "blank"

\* storeUser: the row is inserted unless there is one ...
StoreAdmin(p) ==
  /\ At(p, "admin")
  /\ LET name == AdminName(held[p][K2])
     IN  \/ /\ dbKey["scores"] = held[p][K0] /\ name \notin users
            /\ users' = users \cup {name}
            /\ To(p, "hash")
         \/ /\ dbKey["scores"] # held[p][K0] \/ name \in users \/ MayFail
            /\ To(p, "login")
            /\ UNCHANGED users
  /\ UNCHANGED <<entVars, wanted, held, dbKey, hashed, raced>>

\* ... then its hash is stored; a failure is ignored.
StoreHash(p) ==
  /\ At(p, "hash")
  /\ \/ /\ Accepts("hashes", held[p][K1])
        /\ dbKey' = [dbKey EXCEPT !["hashes"] = held[p][K1]]
        /\ hashed' = TRUE
     \/ /\ ~Accepts("hashes", held[p][K1]) \/ MayFail
        /\ UNCHANGED <<dbKey, hashed>>
  /\ To(p, "login")
  /\ UNCHANGED <<entVars, wanted, held, users, raced>>

\* The super admin can log in at p's prompt, which reads words only.
CanLogin(p) ==
  /\ dbKey["scores"] = held[p][K0] /\ dbKey["hashes"] = held[p][K1]
  /\ "admin" \in users /\ hashed

Login(p) ==
  /\ At(p, "login") /\ CanLogin(p)
  /\ To(p, "menu")
  /\ UNCHANGED <<entVars, wanted, held, dbKey, users, hashed, raced>>

\* Entry 7 reads the key of the hashes again, outside any try, ...
Export(p) ==
  /\ At(p, "menu")
  /\ To(p, "again")
  /\ wanted' = [wanted EXCEPT ![p] = K1]
  /\ Ent!Begin(p, "read", Aes, K1, NoValue)
  /\ UNCHANGED <<held, dbKey, users, hashed, raced>>

\* ... then constructs a Database, which gets it once more.
ExportHashes(p) ==
  /\ At(p, "again")
  /\ result[p].kind = "value"
  /\ Find(p, K1)
  /\ UNCHANGED <<held, dbKey, users, hashed, raced>>

\* Entry 11.
Quit(p) ==
  /\ At(p, "menu")
  /\ Exit(p)
  /\ UNCHANGED <<dbKey, users, hashed, raced>>

-----------------------------------------------------------------------------
(***************************************************************************)
(* task1: key K0, then origin is encrypted and encrypted is decrypted,     *)
(* whatever the first call returned.                                       *)
(***************************************************************************)
EncryptOrigin(p) ==
  /\ task = "task1"
  /\ GotKey(p, K0)
  /\ To(p, "encrypting")
  /\ Call("aes", "encrypt", result[p].value, "origin", "encrypted", Present("origin"))
  /\ UNCHANGED <<entVars, wanted, flawed>>

\* Mutant: what was just decrypted is encrypted.
MutantDecryptEncrypted(p) ==
  /\ At(p, "encrypting") /\ op.pc = "idle"
  /\ To(p, "decrypting")
  /\ Call("aes", "decrypt", held[p][K0], "origin", "decrypted", Present("origin"))
  /\ flawed' = (flawed \/ fault)
  /\ UNCHANGED <<entVars, wanted, held, dbKey, users, hashed, raced>>

DecryptEncrypted(p) ==
  /\ At(p, "encrypting") /\ op.pc = "idle"
  /\ To(p, "decrypting")
  /\ Call("aes", "decrypt", held[p][K0], "encrypted", "decrypted", Present("encrypted"))
  /\ flawed' = (flawed \/ fault)
  /\ UNCHANGED <<entVars, wanted, held, dbKey, users, hashed, raced>>

EndTask1(p) ==
  /\ At(p, "decrypting") /\ op.pc = "idle"
  /\ Exit(p)
  /\ flawed' = (flawed \/ fault)
  /\ UNCHANGED <<fileVars, dbKey, users, hashed, raced>>

-----------------------------------------------------------------------------
NobodyRuns == \A q \in Proc : stage[q] = "off"

\* Nothing has happened to the key file that may lose a key.
Sound == ~cutShort /\ ~mistaken /\ ~raced

\* A user starts a program, task1 only when no other runs.  Bound: not after
\* the key file was damaged, of which EntFile tells.
Start(p) ==
  /\ task # "library" /\ stage[p] = "off"
  /\ Sound
  /\ task = "task1" => NobodyRuns
  /\ Find(p, K0)
  /\ flawed' = FALSE
  /\ UNCHANGED <<fileVars, held, dbKey, users, hashed, deaths, raced>>

\* A program dies, in the middle of whatever it does.
Die(p) ==
  /\ stage[p] # "off" /\ deaths < MaxDeaths
  /\ deaths' = deaths + 1
  /\ To(p, "off")
  /\ wanted' = [wanted EXCEPT ![p] = K0]
  /\ held' = [held EXCEPT ![p] = NothingHeld]
  /\ Ent!Restart(p)
  /\ IF op.pc = "idle" THEN UNCHANGED fileVars ELSE Abort
  /\ UNCHANGED <<dbKey, users, hashed, raced, flawed>>

\* The user puts a file into origin or removes one.
PutFile ==
  /\ task # "task0" /\ NobodyRuns /\ op.pc = "idle"
  /\ \E n \in (IF task = "task1" THEN Name ELSE LibName), x \in {NoFile} \cup {Plain(t) : t \in UserText[task]} :
       disk' = [disk EXCEPT !["origin"][n] = x]
  /\ UNCHANGED <<entVars, op, fault>>
  /\ UNCHANGED <<stage, wanted, held, dbKey, users, hashed, deaths, raced, flawed>>

\* Any caller of the library: one file or a directory, any directory for another.
LibraryCall ==
  /\ task = "library"
  /\ \E c \in {"aes", "rsa"}, way \in {"encrypt", "decrypt"}, from, to \in LibDir, n \in LibName :
       \E k \in LibKeys[c], names \in {{n}, Present(from)} : Call(c, way, k, from, to, names)
  /\ UNCHANGED <<entVars, stage, wanted, held, dbKey, users, hashed, deaths, raced, flawed>>

CallerDies ==
  /\ task = "library"
  /\ Abort
  /\ UNCHANGED <<entVars, stage, wanted, held, dbKey, users, hashed, deaths, raced, flawed>>

-----------------------------------------------------------------------------
FileAccess(p) ==
  /\ Ent!Step(p)
  /\ UNCHANGED <<fileVars, stage, wanted, held, dbKey, users, hashed, deaths, raced, flawed>>

GetKeys(p) ==
  /\ MakeKey(p) \/ ReadKey(p) \/ NoKey(p)
  /\ UNCHANGED <<fileVars, deaths, flawed>>

SetUp(p) ==
  /\ \/ ConstructDatabase(p) \/ Constructed(p) \/ CreateTable(p) \/ GotAdminKey(p)
     \/ StoreAdmin(p) \/ StoreHash(p) \/ ExportHashes(p)
  /\ UNCHANGED <<fileVars, deaths, flawed>>

Menu(p) ==
  /\ Login(p) \/ Export(p) \/ Quit(p)
  /\ UNCHANGED <<fileVars, deaths, flawed>>

Task1(p) ==
  /\ EncryptOrigin(p) \/ DecryptEncrypted(p) \/ EndTask1(p)
  /\ UNCHANGED deaths

Files ==
  /\ FileStep
  /\ UNCHANGED <<entVars, stage, wanted, held, dbKey, users, hashed, deaths, raced, flawed>>

\* What a running program does by itself.
Runs(p) ==
  /\ FileAccess(p) \/ GetKeys(p) \/ SetUp(p) \/ Task1(p)
  /\ UNCHANGED task

Operates == Files /\ UNCHANGED task

\* What its user and the world do.
World ==
  /\ \/ \E p \in Proc : Start(p) \/ Menu(p) \/ Die(p)
     \/ PutFile \/ LibraryCall \/ CallerDies
  /\ UNCHANGED task

Next == (\E p \in Proc : Runs(p)) \/ Operates \/ World

Spec == Init /\ [][Next]_vars

-----------------------------------------------------------------------------
(***************************************************************************)
(* Properties.                                                             *)
(***************************************************************************)
Stages == {"off", "find", "write", "read", "again", "tables", "admin", "hash",
           "login", "menu", "encrypting", "decrypting"}

\* Every variable keeps to its type; whoever has come past a key holds it.
TypeOK ==
  /\ Ent!TypeOK
  /\ disk \in [Dir -> [Name -> Content]]
  /\ op.pc \in {"idle", "next"} \cup Name
  /\ op.pc # "idle" => op.from \in Dir /\ op.to \in Dir /\ op.done \cup op.todo \subseteq Name
  /\ stage \in [Proc -> Stages]
  /\ wanted \in [Proc -> KeyId]
  /\ held \in [Proc -> [KeyId -> Value \cup {NoValue}]]
  /\ \A p \in Proc :
       /\ stage[p] \in {"tables", "admin", "hash", "login", "menu", "again"} =>
            held[p][K0] \in Value /\ held[p][K1] \in Value
       /\ stage[p] \in {"admin", "hash", "login", "menu", "again"} => held[p][K2] \in Value
  /\ dbKey \in [Db -> Value \cup {NoValue}]
  /\ users \subseteq {"admin", "blank"}

KeyFileHas(i, k) == file.form = "whole" /\ file.keys[Aes][i] = k

\* What was encrypted with a key of the key file, the two databases and the
\* files of task1, can be decrypted with the key that the file has now: no
\* start of a program loses or replaces a key.  It takes one of three things:
\* a write that was cut short or failed unseen, a failed open taken for a missing file, or two
\* programs that write at once.
DataHasItsKey ==
  Sound /\ (\A p \in Proc : pc[p] \notin Ent!Writing) =>
    /\ \A d \in Db : dbKey[d] # NoValue => KeyFileHas(KeyOf(d), dbKey[d])
    /\ task = "task1" =>
         \A d \in Dir, n \in Name : disk[d][n].form = "aes" /\ disk[d][n].key \in Value =>
                                    KeyFileHas(K0, disk[d][n].key)

\* With the files that come with the program a login can be passed in every
\* program that gets to the prompt, whatever failed or died in any start.
ShippedCanLogin ==
  Sound /\ dbKey["scores"] = Shipped[K0] =>
    \A p \in Proc : stage[p] \in {"login", "menu", "again"} => CanLogin(p)

\* Once the key file has all three keys no start of a program opens it for
\* writing again: a death at any moment leaves it as it is.
CompleteStoreIsSafe ==
  ~raced /\ ~mistaken /\ file.form = "whole" /\ (\A i \in KeyId : file.keys[Aes][i] # NoValue) =>
    \A p \in Proc : pc[p] \notin {"create", "init", "open", "store"}

\* Until two programs write at once or a failed open is taken for a missing
\* file, any number of programs at any point of their starts, menus and deaths
\* use the key file as the vault of KeyVault: a step adds a new key under a
\* free name, makes an empty store where there was none, loses the store as a
\* whole or leaves it as it is.  No program ever replaces a key.
KeyFileIsVault ==
  [][~raced' /\ ~mistaken' => Ent!Vault!Next \/ UNCHANGED Ent!Vault!vars]_vars

\* When task1 has ended without a fault, every file of origin is in decrypted
\* again, unless encrypted holds a file that origin has no more and that was
\* made with another key or not to its end: that one stops the decryption.
TaskRoundTrip ==
  \A p \in Proc :
    /\ stage[p] = "decrypting" /\ op.pc = "idle" /\ ~flawed /\ ~fault
    /\ \A n \in Present("encrypted") \ Present("origin") :
         disk["encrypted"][n].form = "aes" /\ disk["encrypted"][n].key = held[p][K0]
    => \A n \in Present("origin") : disk["decrypted"][n] = disk["origin"][n]
=============================================================================
