----------------------------- MODULE Credentials -----------------------------
(***************************************************************************)
(* The user accounts of the student system (HingeFramework_DLLTEST/        *)
(* main.cpp, class Database and task0) and the hash store of the framework *)
(* (Hash.cpp).  An account is a row of the table `users` in one SQLite     *)
(* file, holding a hash value, and a row of the table `Hashes` in another, *)
(* holding that value's salt.  No transaction spans the two files: every   *)
(* SQL statement commits by itself and is a step here.                     *)
(*                                                                         *)
(* Each process is one run of the program: it stores the super admin,      *)
(* waits for a login, then serves the menu.  The busy timeout is zero: a   *)
(* statement that changes a file fails at once while another program is on *)
(* the row of a query of its own there.  With MayFail any statement may    *)
(* fail, also for another reason; any process may die between two          *)
(* statements.  A failure ends its call, and its lock, in the same step:   *)
(* what may fail on the way out fails under MayFail.                       *)
(*                                                                         *)
(* The super admin's name is deciphered with a key from the key file; here *)
(* it is the same in every run: the key file is kept.                      *)
(***************************************************************************)
CONSTANTS Proc,        \* the runs of the program
          User,        \* user names
          Admin,       \* the name that initializeSuperAdmin stores
          Hash,        \* hash values, each with its salt
          AdminHash,   \* the hash that initializeSuperAdmin stores
          NoHash,      \* no row
          Password,    \* passwords
          PasswordOf,  \* PasswordOf[h]: the password that hashes to h
          MayFail      \* TRUE: a statement may fail without another's lock, too

ASSUME AccountAssumption ==
  /\ Admin \in User
  /\ AdminHash \in Hash
  /\ NoHash \notin Hash
  /\ PasswordOf \in [Hash -> Password]
  /\ MayFail \in BOOLEAN

VARIABLES
  users,   \* users[u]: the hash value in the row of u, or NoHash
  hashes,  \* the hash values in the table Hashes
  table,   \* the table Hashes exists
  phase,   \* phase[p]: where p is in task0
  pc,      \* pc[p]: the statement p executes next, "idle" between calls
  job,     \* job[p]: the user, the password to verify, the old and the new hash
  result,  \* result[p]: what p's last call returned
  harmed   \* history: a row was left without its hash by a failure or a crash

vars == <<users, hashes, table, phase, pc, job, result, harmed>>

NoJob == [user |-> Admin, password |-> NoHash, old |-> NoHash, new |-> NoHash]

Init == /\ users = [u \in User |-> NoHash]
        /\ hashes = {}
        /\ table = FALSE
        /\ phase = [p \in Proc |-> "start"]
        /\ pc = [p \in Proc |-> "idle"]
        /\ job = [p \in Proc |-> NoJob]
        /\ result = [p \in Proc |-> "none"]
        /\ harmed = FALSE

HasRow(u) == users[u] # NoHash

\* A hash over a new random salt: a value found nowhere yet.
Fresh == Hash \ ({AdminHash} \cup hashes \cup {users[u] : u \in User}
                 \cup {job[p].old : p \in Proc} \cup {job[p].new : p \in Proc})

-----------------------------------------------------------------------------
(***************************************************************************)
(* The existence query of a call is not reset: it stays on its row of      *)
(* `users` until the call returns, the count of storeHash on that of       *)
(* `Hashes` until storeHash does.  Nobody else commits to the file of a    *)
(* query that is on its row.                                               *)
(***************************************************************************)
ReadsUsers(p) == pc[p] \in {"insert", "storeHash", "insertHash", "dropHash", "dropRow", "update"}

ReadsHashes(p) == pc[p] = "insertHash"

\* Mutant of UsersLocked: every query is reset when its row was read.
MutantUsersLocked(p) == FALSE

UsersLocked(p) == \E q \in Proc \ {p} : ReadsUsers(q)

HashesLocked(p) == \E q \in Proc \ {p} : ReadsHashes(q)

-----------------------------------------------------------------------------
\* p executes a statement and goes on to the one at `label`.
Goto(p, label) ==
  /\ pc' = [pc EXCEPT ![p] = label]
  /\ UNCHANGED <<phase, result>>

\* Mutant of After: the loop at the login ends with whatever answer.
MutantAfter(p, value) ==
  IF phase[p] = "start" THEN "login"
  ELSE IF phase[p] = "reauth" /\ pc[p] \in {"lookup", "retrieve"} THEN "reauth"
  ELSE "menu"

\* The phase that follows a call: the start and a login are over when their
\* call returns, the change of a password when the original was verified.
After(p, value) ==
  IF phase[p] = "start" \/ (phase[p] = "login" /\ value = "false") THEN "login"
  ELSE IF phase[p] = "reauth" /\ pc[p] \in {"lookup", "retrieve"} THEN "reauth"
  ELSE "menu"

Return(p, value) ==
  /\ pc' = [pc EXCEPT ![p] = "idle"]
  /\ job' = [job EXCEPT ![p] = NoJob]
  /\ result' = [result EXCEPT ![p] = value]
  /\ phase' = [phase EXCEPT ![p] = After(p, value)]

Start(p, label, newJob) ==
  /\ pc[p] = "idle"
  /\ pc' = [pc EXCEPT ![p] = label]
  /\ job' = [job EXCEPT ![p] = newJob]
  /\ UNCHANGED <<users, hashes, table, phase, result, harmed>>

\* initializeSuperAdmin: storeUser with the fixed hash.
InitializeSuperAdmin(p) ==
  /\ phase[p] = "start"
  /\ Start(p, "count", [NoJob EXCEPT !.user = Admin, !.new = AdminHash])

\* login, and the verification before a change: verifyPassword.
VerifyPassword(p) ==
  /\ phase[p] \in {"login", "reauth"}
  /\ \E u \in User, w \in Password :
       Start(p, "lookup", [NoJob EXCEPT !.user = u, !.password = w])

\* Menu entry 8: storeUser with a new hash.
RegisterUser(p) ==
  /\ phase[p] = "menu"
  /\ \E u \in User, h \in Fresh :
       Start(p, "count", [NoJob EXCEPT !.user = u, !.new = h])

\* Menu entry 9: deleteUserByUsername.
DeleteUser(p) ==
  /\ phase[p] = "menu"
  /\ \E u \in User : Start(p, "find", [NoJob EXCEPT !.user = u])

\* Menu entry 10: nothing but verifyPassword is called until it returns true.
ChangePassword(p) ==
  /\ phase[p] = "menu"
  /\ pc[p] = "idle"
  /\ phase' = [phase EXCEPT ![p] = "reauth"]
  /\ UNCHANGED <<users, hashes, table, pc, job, result, harmed>>

-----------------------------------------------------------------------------
(***************************************************************************)
(* storeUser: the count, the row, then storeHash.                          *)
(***************************************************************************)
\* Mutant of CountUser: a user that is missing is refused, too.
MutantCountUser(p) ==
  /\ pc[p] = "count"
  /\ Return(p, "false")
  /\ UNCHANGED <<users, hashes, table, harmed>>

CountUser(p) ==
  /\ pc[p] = "count"
  /\ \/ /\ MayFail \/ HasRow(job[p].user)
        /\ Return(p, "false")
     \/ /\ ~HasRow(job[p].user)
        /\ Goto(p, "insert") /\ UNCHANGED job
  /\ UNCHANGED <<users, hashes, table, harmed>>

InsertUser(p) ==
  /\ pc[p] = "insert"
  /\ \/ /\ MayFail \/ UsersLocked(p)
        /\ Return(p, "false") /\ UNCHANGED users
     \/ /\ ~UsersLocked(p)
        /\ users' = [users EXCEPT ![job[p].user] = job[p].new]
        /\ Goto(p, "storeHash") /\ UNCHANGED job
  /\ UNCHANGED <<hashes, table, harmed>>

\* storeHash makes the table, looks for the value and prepares the INSERT; a
\* failure so far is thrown and becomes the false of the caller.
OpenHashes(p) ==
  /\ pc[p] = "storeHash"
  /\ \/ /\ MayFail /\ table' \in {table, TRUE}
        /\ harmed' = (harmed \/ job[p].new \notin hashes)
        /\ Return(p, "false")
     \/ /\ job[p].new \in hashes /\ table' = TRUE
        /\ Return(p, "true") /\ UNCHANGED harmed
     \/ /\ job[p].new \notin hashes /\ table' = TRUE
        /\ Goto(p, "insertHash") /\ UNCHANGED <<job, harmed>>
  /\ UNCHANGED <<users, hashes>>

\* The INSERT of storeHash: its failure makes storeHash return false, which
\* the caller does not look at.
InsertHash(p) ==
  /\ pc[p] = "insertHash"
  /\ \/ /\ ~HashesLocked(p)
        /\ hashes' = hashes \cup {job[p].new}
        /\ UNCHANGED harmed
     \/ /\ MayFail \/ HashesLocked(p)
        /\ UNCHANGED hashes
        /\ harmed' = (harmed \/ job[p].new \notin hashes)
  /\ Return(p, "true")
  /\ UNCHANGED <<users, table>>

(***************************************************************************)
(* deleteUserByUsername: the hash goes first, then the row.  The existence *)
(* query and getUser both end the call when there is no row; they are one  *)
(* step, for nobody changes the row between them.                          *)
(***************************************************************************)
\* Mutant of FindUser: the hash to delete is not read, another is deleted.
MutantFindUser(p) ==
  /\ pc[p] = "find"
  /\ HasRow(job[p].user)
  /\ job' = [job EXCEPT ![p].old = AdminHash]
  /\ Goto(p, "dropHash")
  /\ UNCHANGED <<users, hashes, table, harmed>>

FindUser(p) ==
  /\ pc[p] = "find"
  /\ \/ /\ MayFail \/ ~HasRow(job[p].user)
        /\ Return(p, "false")
     \/ /\ HasRow(job[p].user)
        /\ job' = [job EXCEPT ![p].old = users[job[p].user]]
        /\ Goto(p, "dropHash")
  /\ UNCHANGED <<users, hashes, table, harmed>>

Changing(p) == phase[p] = "reauth"

\* deleteHash, in a deletion and in a change of password.  It throws when the
\* table or the file is missing and when the query for the number of changes
\* fails; a failed DELETE makes it return false, which no caller looks at.
DropHash(p) ==
  /\ pc[p] = "dropHash"
  /\ \/ /\ MayFail \/ ~table
        /\ harmed' = (harmed \/ Changing(p))
        /\ Return(p, "false") /\ UNCHANGED hashes
     \/ /\ MayFail /\ table /\ ~HashesLocked(p)
        /\ hashes' = hashes \ {job[p].old}
        /\ harmed' = TRUE
        /\ Return(p, "false")
     \/ /\ table
        /\ \/ ~HashesLocked(p) /\ hashes' = hashes \ {job[p].old}
           \/ (MayFail \/ HashesLocked(p)) /\ UNCHANGED hashes
        /\ Goto(p, IF Changing(p) THEN "storeHash" ELSE "dropRow")
        /\ UNCHANGED <<job, harmed>>
  /\ UNCHANGED <<users, table>>

DropRow(p) ==
  /\ pc[p] = "dropRow"
  /\ \/ /\ ~UsersLocked(p)
        /\ users' = [users EXCEPT ![job[p].user] = NoHash]
        /\ Return(p, "true") /\ UNCHANGED harmed
     \/ /\ MayFail \/ UsersLocked(p)
        /\ harmed' = (harmed \/ job[p].old \notin hashes)
        /\ Return(p, "false") /\ UNCHANGED users
  /\ UNCHANGED <<hashes, table>>

(***************************************************************************)
(* verifyPassword: getUser, then retrieveHash and compareHashes.           *)
(***************************************************************************)
LookUpUser(p) ==
  /\ pc[p] = "lookup"
  /\ \/ /\ MayFail \/ ~HasRow(job[p].user)
        /\ Return(p, "false")
     \/ /\ HasRow(job[p].user)
        /\ job' = [job EXCEPT ![p].old = users[job[p].user]]
        /\ Goto(p, "retrieve")
  /\ UNCHANGED <<users, hashes, table, harmed>>

\* Mutant of CompareHashes: a hash that is found is enough.
MutantCompareHashes(p) == table /\ job[p].old \in hashes

CompareHashes(p) ==
  /\ table /\ job[p].old \in hashes
  /\ PasswordOf[job[p].old] = job[p].password

RetrieveHash(p) ==
  /\ pc[p] = "retrieve"
  /\ \/ /\ MayFail \/ ~CompareHashes(p)
        /\ Return(p, "false")
     \/ /\ CompareHashes(p) /\ ~Changing(p)
        /\ Return(p, "true")
     \/ /\ CompareHashes(p) /\ Changing(p)
        /\ job' = [job EXCEPT ![p] = [NoJob EXCEPT !.user = job[p].user]]
        /\ Goto(p, "reread")
  /\ UNCHANGED <<users, hashes, table, harmed>>

(***************************************************************************)
(* changeUserPassword: the row first, then the old hash, then the new one. *)
(***************************************************************************)
\* Mutant of RereadUser: the user is not looked for again.
MutantRereadUser(p) ==
  /\ pc[p] = "reread"
  /\ \E h \in Fresh : job' = [job EXCEPT ![p].old = users[job[p].user], ![p].new = h]
  /\ Goto(p, "update")
  /\ UNCHANGED <<users, hashes, table, harmed>>

RereadUser(p) ==
  /\ pc[p] = "reread"
  /\ \/ /\ MayFail \/ ~HasRow(job[p].user)
        /\ Return(p, "false")
     \/ /\ HasRow(job[p].user)
        /\ \E h \in Fresh : job' = [job EXCEPT ![p].old = users[job[p].user], ![p].new = h]
        /\ Goto(p, "update")
  /\ UNCHANGED <<users, hashes, table, harmed>>

UpdateUser(p) ==
  /\ pc[p] = "update"
  /\ \/ /\ MayFail \/ UsersLocked(p)
        /\ Return(p, "false") /\ UNCHANGED users
     \/ /\ ~UsersLocked(p)
        /\ users' = [users EXCEPT ![job[p].user] = job[p].new]
        /\ Goto(p, "dropHash") /\ UNCHANGED job
  /\ UNCHANGED <<hashes, table, harmed>>

-----------------------------------------------------------------------------
\* Between these statements the row has lost or not yet got its hash.
HalfDone(p) ==
  \/ (pc[p] \in {"storeHash", "insertHash"} /\ job[p].new \notin hashes)
  \/ (pc[p] = "dropHash" /\ Changing(p))
  \/ (pc[p] = "dropRow" /\ job[p].old \notin hashes)

\* The program ends, by menu entry 11 or by dying anywhere, and is run again.
\* It may have got as far as making the table Hashes.
Restart(p) ==
  /\ phase' = [phase EXCEPT ![p] = "start"]
  /\ pc' = [pc EXCEPT ![p] = "idle"]
  /\ job' = [job EXCEPT ![p] = NoJob]
  /\ result' = [result EXCEPT ![p] = "none"]
  /\ harmed' = (harmed \/ HalfDone(p))
  /\ table' \in (IF pc[p] = "storeHash" THEN {table, TRUE} ELSE {table})
  /\ UNCHANGED <<users, hashes>>

Statement(p) ==
  \/ CountUser(p) \/ InsertUser(p) \/ OpenHashes(p) \/ InsertHash(p)
  \/ FindUser(p) \/ DropHash(p) \/ DropRow(p)
  \/ LookUpUser(p) \/ RetrieveHash(p)
  \/ RereadUser(p) \/ UpdateUser(p)

Next == \E p \in Proc :
  \/ InitializeSuperAdmin(p) \/ VerifyPassword(p)
  \/ RegisterUser(p) \/ DeleteUser(p) \/ ChangePassword(p)
  \/ Statement(p)
  \/ Restart(p)

Spec == Init /\ [][Next]_vars

-----------------------------------------------------------------------------
\* The statements of the program, and the phases of task0 each runs in.
Label == {"idle", "count", "insert", "storeHash", "insertHash", "find", "dropHash",
          "dropRow", "lookup", "retrieve", "reread", "update"}

\* The types of the two tables and of every process's call: a verification has
\* a password, a statement that drops or replaces a hash has read it.
TypeOK ==
  /\ users \in [User -> Hash \cup {NoHash}]
  /\ hashes \subseteq Hash
  /\ table \in BOOLEAN
  /\ phase \in [Proc -> {"start", "login", "menu", "reauth"}]
  /\ pc \in [Proc -> Label]
  /\ job \in [Proc -> [user: User, password: Password \cup {NoHash},
                       old: Hash \cup {NoHash}, new: Hash \cup {NoHash}]]
  /\ result \in [Proc -> {"none", "true", "false"}]
  /\ harmed \in BOOLEAN
  /\ \A p \in Proc :
       /\ pc[p] \in {"count", "insert", "storeHash", "insertHash", "update"} => job[p].new \in Hash
       /\ pc[p] \in {"retrieve", "dropHash", "dropRow", "update"} => job[p].old \in Hash

Idle == \A p \in Proc : pc[p] = "idle"

Stranded(u) == HasRow(u) /\ users[u] \notin hashes

\* With any number of programs at work at once, their statements failing and
\* their steps mixed in every way, every user keeps a hash to log in with, the
\* super admin and his fixed hash included: only a statement that failed or a
\* death, between the two files, strands one.
NobodyStranded == Idle /\ ~harmed => \A u \in User : ~Stranded(u)

\* One program whose statements succeed leaves no hash behind: the table
\* Hashes holds exactly the hashes of the rows of `users`.
HashesMatchRows == Idle /\ ~harmed => hashes = {users[u] : u \in {v \in User : HasRow(v)}}

\* One program whose statements succeed never waits at a login nobody can
\* pass: the super admin is there, whatever was deleted or changed before.
LoginPossible ==
  \A p \in Proc : phase[p] = "login" /\ pc[p] = "idle" /\ ~harmed
                    => HasRow(Admin) /\ users[Admin] \in hashes

\* A verification by one program accepts the user's present password and no
\* other, however often it was changed and whoever was deleted.
VerifiesPresentPassword ==
  [][\A p \in Proc :
       pc[p] = "retrieve" /\ pc'[p] # "retrieve" /\ phase'[p] # "start" /\ ~harmed
         => ((pc'[p] = "reread" \/ result'[p] = "true")
               <=> PasswordOf[users[job[p].user]] = job[p].password)]_vars

-----------------------------------------------------------------------------
(***************************************************************************)
(* One program is the store of Accounts.  A call takes effect when it      *)
(* returns: while it is at work on a row, the account is what it was.      *)
(***************************************************************************)
Program == CHOOSE p \in Proc : TRUE

AtWork(p, u) == pc[p] \in {"dropHash", "storeHash", "insertHash"} /\ job[p].user = u

RowOf(p, u) ==
  IF ~AtWork(p, u) THEN users[u]
  ELSE IF Changing(p) \/ pc[p] = "dropHash" THEN job[p].old
  ELSE NoHash

PasswordsOf(h) == {PasswordOf[x] : x \in {h} \ {NoHash}}

\* The change of a password, from its verification on.
Renewing(p) == Changing(p) /\ pc[p] \notin {"idle", "lookup", "retrieve"}

OpOf(p) ==
  IF pc[p] = "idle" THEN "none"
  ELSE IF pc[p] \in {"lookup", "retrieve"} THEN "verify"
  ELSE IF Changing(p) THEN IF pc[p] = "reread" THEN "ask" ELSE "change"
  ELSE IF pc[p] \in {"find", "dropHash", "dropRow"} THEN "delete" ELSE "store"

PasswordGiven(p) ==
  IF OpOf(p) = "verify" THEN job[p].password
  ELSE IF OpOf(p) \in {"store", "change"} THEN PasswordOf[job[p].new]
  ELSE NoHash

StoreAccount == [u \in User |-> IF harmed THEN {} ELSE PasswordsOf(RowOf(Program, u))]

StoreCall ==
  IF harmed THEN [op |-> "none", user |-> Admin, password |-> NoHash]
  ELSE [op |-> OpOf(Program), user |-> job[Program].user, password |-> PasswordGiven(Program)]

StoreAnswer ==
  IF harmed THEN "none" ELSE IF Renewing(Program) THEN "true" ELSE result[Program]

StoreIn == ~harmed /\ phase[Program] \in {"menu", "reauth"}

Store == INSTANCE Accounts WITH
  AdminPassword <- PasswordOf[AdminHash], None <- NoHash,
  account <- StoreAccount, call <- StoreCall, answer <- StoreAnswer, in <- StoreIn

\* One program whose statements succeed is the store of Accounts: every call
\* that returns had the effect and the answer it has there, at one moment, the
\* menu is served after a right login only, a password is changed for the user
\* that was verified, and a death in the middle of a call had no effect or is
\* known to have done harm.
ImplementsAccounts == Store!Spec

-----------------------------------------------------------------------------
(***************************************************************************)
(* What the comments say of the results, and the code does not do.         *)
(***************************************************************************)
\* "Insertion successful": storeUser returns true when the row and its hash
\* are both stored.
TrueMeansStored ==
  [][\A p \in Proc :
       pc[p] = "insertHash" /\ result'[p] = "true" /\ pc'[p] = "idle" /\ phase[p] # "reauth"
         => job[p].new \in hashes']_vars
=============================================================================
