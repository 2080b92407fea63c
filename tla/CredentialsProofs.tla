--------------------------- MODULE CredentialsProofs ---------------------------
(***************************************************************************)
(* Theorems about Credentials.  For any number of programs and users: its  *)
(* types, and that a user is stranded by a failure or a death only         *)
(* (NobodyStranded).  For one program whose statements succeed: that the   *)
(* two tables agree, that the login can be passed, that it goes by the     *)
(* present password, and that the accounts are those of Accounts.          *)
(***************************************************************************)
EXTENDS Credentials, TLAPS

-----------------------------------------------------------------------------
(***************************************************************************)
(* The inductive invariant.                                                *)
(***************************************************************************)
\* A statement of a deletion runs from the menu, one of a change does not, and
\* a change that drops the old hash has the new one.
PhaseOK ==
  \A p \in Proc :
    /\ pc[p] \in {"find", "dropRow"} => phase[p] # "reauth"
    /\ pc[p] \in {"reread", "update"} => phase[p] = "reauth"
    /\ pc[p] = "dropHash" /\ phase[p] = "reauth" => job[p].new \in Hash

\* The fixed hash is written and read for the super admin only.
FixedHashIsAdmins ==
  /\ \A u \in User : users[u] = AdminHash => u = Admin
  /\ \A p \in Proc : (job[p].new = AdminHash \/ job[p].old = AdminHash) => job[p].user = Admin

\* A hash that no row holds yet is known to the call that will write it only.
Unwritten(p) == pc[p] \in {"count", "insert", "update"} /\ job[p].new # AdminHash

NewIsNew ==
  \A p \in Proc : Unwritten(p) =>
    /\ \A u \in User : users[u] # job[p].new
    /\ \A q \in Proc : job[q].old # job[p].new
    /\ \A q \in Proc \ {p} : job[q].new # job[p].new

\* No two rows hold one hash.
OneRow ==
  \A u, v \in User : HasRow(u) /\ users[u] = users[v] => u = v

\* The hash a call read, if a row still holds it, is that of the call's user.
OldIsUsers ==
  \A p \in Proc, v \in User :
    job[p].old # NoHash /\ users[v] = job[p].old => v = job[p].user

\* The hash that a change of password drops is in no row: the row has the new one.
Replaced ==
  \A p \in Proc : pc[p] = "dropHash" /\ Changing(p) =>
    \A u \in User : users[u] # job[p].old

\* The row of a call that stores or deletes is as the call read it: the lock
\* keeps it so.  The hash of a change is not the fixed one.
AsRead ==
  \A p \in Proc :
    /\ pc[p] = "insert" => ~HasRow(job[p].user)
    /\ pc[p] \in {"dropHash", "dropRow"} /\ ~Changing(p) => users[job[p].user] = job[p].old
    /\ pc[p] = "update" => job[p].new # AdminHash

\* A call that has yet to store the hash h.
WillStore(q, h) ==
  /\ job[q].new = h
  /\ \/ pc[q] \in {"storeHash", "insertHash"}
     \/ pc[q] = "dropHash" /\ Changing(q)

\* A call that has yet to drop the row of u.
WillDrop(q, u) == pc[q] = "dropRow" /\ job[q].user = u

\* A row without its hash is one a call is at work on.
Covered ==
  ~harmed =>
    \A u \in User : Stranded(u) =>
      \E q \in Proc : WillStore(q, users[u]) \/ WillDrop(q, u)

IInv == /\ TypeOK /\ PhaseOK /\ FixedHashIsAdmins /\ NewIsNew
        /\ OneRow /\ OldIsUsers /\ Replaced /\ AsRead /\ Covered

-----------------------------------------------------------------------------
\* The program starts before any account exists.
LEMMA InitInv == Init => IInv
<1> SUFFICES ASSUME Init PROVE IInv
  OBVIOUS
<1>1. NoJob \in [user: User, password: Password \cup {NoHash},
                  old: Hash \cup {NoHash}, new: Hash \cup {NoHash}]
  BY AccountAssumption DEF NoJob
<1>2. TypeOK
  BY <1>1 DEF Init, TypeOK, Label
<1>3. PhaseOK /\ NewIsNew /\ Replaced /\ AsRead
  BY DEF Init, PhaseOK, NewIsNew, Unwritten, Replaced, AsRead
<1>4. FixedHashIsAdmins /\ OneRow /\ OldIsUsers /\ Covered
  BY AccountAssumption DEF Init, NoJob, FixedHashIsAdmins, OneRow, OldIsUsers, Covered, Stranded, HasRow
<1> QED BY <1>2, <1>3, <1>4 DEF IInv

-----------------------------------------------------------------------------
(***************************************************************************)
(* A call ends: it returns, or its program dies.                           *)
(***************************************************************************)
Ends(p) ==
  /\ pc' = [pc EXCEPT ![p] = "idle"]
  /\ job' = [job EXCEPT ![p] = NoJob]
  /\ phase' \in [Proc -> {"start", "login", "menu", "reauth"}]
  /\ \A q \in Proc \ {p} : phase'[q] = phase[q]
  /\ result' \in [Proc -> {"none", "true", "false"}]

\* A return ends the call.
LEMMA ReturnEnds ==
  ASSUME TypeOK, NEW p \in Proc, NEW value \in {"true", "false"}, Return(p, value)
  PROVE  Ends(p)
BY DEF Return, After, Ends, TypeOK

\* The end of a call that changes no row keeps the invariant, if it leaves no
\* row without its hash.
LEMMA EndsInv ==
  ASSUME IInv, NEW p \in Proc, Ends(p), users' = users, table' \in BOOLEAN,
         hashes' \in SUBSET Hash, harmed' \in BOOLEAN, Covered'
  PROVE  IInv'
<1> USE AccountAssumption DEF IInv, Ends, NoJob
<1>1. TypeOK'
  BY DEF TypeOK, Label, PhaseOK, Changing
<1>2. PhaseOK'
  BY DEF TypeOK, Label, PhaseOK, Changing
<1>3. FixedHashIsAdmins'
  BY DEF TypeOK, Label, FixedHashIsAdmins
<1>4. NewIsNew'
  BY DEF TypeOK, Label, NewIsNew, Unwritten
<1>5. OneRow'
  BY DEF TypeOK, Label, OneRow, HasRow
<1>6. OldIsUsers'
  BY DEF TypeOK, Label, OldIsUsers
<1>7. Replaced'
  BY DEF TypeOK, Label, Replaced, Changing
<1>8. AsRead'
  BY DEF TypeOK, Label, AsRead, Changing, HasRow
<1> QED BY <1>1, <1>2, <1>3, <1>4, <1>5, <1>6, <1>7, <1>8

-----------------------------------------------------------------------------
(***************************************************************************)
(* Each action keeps the invariant.                                        *)
(***************************************************************************)
\* storeUser(superAdmin) begins (main.cpp:404).
LEMMA InitializeSuperAdminInv ==
  ASSUME IInv, NEW p \in Proc, InitializeSuperAdmin(p)
  PROVE  IInv'
<1> USE AccountAssumption DEF IInv
<1>1. TypeOK'
  BY DEF InitializeSuperAdmin, TypeOK, Label, Start, NoJob, PhaseOK, Changing
<1>2. PhaseOK'
  BY DEF InitializeSuperAdmin, TypeOK, Label, Start, NoJob, PhaseOK, Changing
<1>3. FixedHashIsAdmins'
  BY DEF InitializeSuperAdmin, TypeOK, Label, Start, NoJob, FixedHashIsAdmins
<1>4. NewIsNew'
  BY DEF InitializeSuperAdmin, TypeOK, Label, Start, NoJob, NewIsNew, Unwritten,
     FixedHashIsAdmins
<1>5. OneRow'
  BY DEF InitializeSuperAdmin, TypeOK, Label, Start, NoJob, OneRow, NewIsNew, Unwritten,
     FixedHashIsAdmins, HasRow
<1>6. OldIsUsers'
  BY DEF InitializeSuperAdmin, TypeOK, Label, Start, NoJob, OldIsUsers, NewIsNew, Unwritten,
     FixedHashIsAdmins, OneRow
<1>7. Replaced'
  BY DEF InitializeSuperAdmin, TypeOK, Label, Start, NoJob, Replaced, Changing, NewIsNew,
     Unwritten, FixedHashIsAdmins, OldIsUsers, PhaseOK
<1>8. Covered'
  BY DEF InitializeSuperAdmin, TypeOK, Label, Start, NoJob, Covered, Stranded, WillStore,
     WillDrop, Changing, OldIsUsers, Replaced, FixedHashIsAdmins, PhaseOK, HasRow
<1>9. AsRead'
  BY DEF InitializeSuperAdmin, TypeOK, Label, Start, NoJob, AsRead, Changing, HasRow
<1> QED BY <1>1, <1>2, <1>3, <1>4, <1>5, <1>6, <1>7, <1>8, <1>9

\* verifyPassword begins, at the login and before a change (main.cpp:368, 865).
LEMMA VerifyPasswordInv ==
  ASSUME IInv, NEW p \in Proc, VerifyPassword(p)
  PROVE  IInv'
<1> USE AccountAssumption DEF IInv
<1>1. TypeOK'
  <2>1. PICK u \in User, w \in Password :
          Start(p, "lookup", [NoJob EXCEPT !.user = u, !.password = w])
    BY DEF VerifyPassword
  <2>2. /\ [NoJob EXCEPT !.user = u, !.password = w]
             \in [user: User, password: Password \cup {NoHash},
                   old: Hash \cup {NoHash}, new: Hash \cup {NoHash}]
        /\ [NoJob EXCEPT !.user = u, !.password = w].new \in {NoHash}
    BY DEF NoJob
  <2> QED BY <2>1, <2>2 DEF TypeOK, Label, Start
<1>2. PhaseOK'
  BY DEF VerifyPassword, TypeOK, Label, Start, NoJob, PhaseOK, Changing
<1>3. FixedHashIsAdmins'
  BY DEF VerifyPassword, TypeOK, Label, Start, NoJob, FixedHashIsAdmins
<1>4. NewIsNew'
  BY DEF VerifyPassword, TypeOK, Label, Start, NoJob, NewIsNew, Unwritten, FixedHashIsAdmins
<1>5. OneRow'
  BY DEF VerifyPassword, TypeOK, Label, Start, NoJob, OneRow, NewIsNew, Unwritten,
     FixedHashIsAdmins, HasRow
<1>6. OldIsUsers'
  BY DEF VerifyPassword, TypeOK, Label, Start, NoJob, OldIsUsers, NewIsNew, Unwritten,
     FixedHashIsAdmins, OneRow
<1>7. Replaced'
  BY DEF VerifyPassword, TypeOK, Label, Start, NoJob, Replaced, Changing, NewIsNew,
     Unwritten, FixedHashIsAdmins, OldIsUsers, PhaseOK
<1>8. Covered'
  BY DEF VerifyPassword, TypeOK, Label, Start, NoJob, Covered, Stranded, WillStore,
     WillDrop, Changing, OldIsUsers, Replaced, FixedHashIsAdmins, PhaseOK, HasRow
<1>9. AsRead'
  BY DEF VerifyPassword, TypeOK, Label, Start, NoJob, AsRead, Changing, HasRow
<1> QED BY <1>1, <1>2, <1>3, <1>4, <1>5, <1>6, <1>7, <1>8, <1>9

\* storeUser begins with a hash over a new salt (main.cpp:782).
LEMMA RegisterUserInv ==
  ASSUME IInv, NEW p \in Proc, RegisterUser(p)
  PROVE  IInv'
<1> USE AccountAssumption DEF IInv
<1>1. TypeOK'
  <2>1. PICK u \in User, h \in Hash :
          Start(p, "count", [NoJob EXCEPT !.user = u, !.new = h])
    BY DEF RegisterUser, Fresh
  <2>2. /\ [NoJob EXCEPT !.user = u, !.new = h]
             \in [user: User, password: Password \cup {NoHash},
                   old: Hash \cup {NoHash}, new: Hash \cup {NoHash}]
        /\ [NoJob EXCEPT !.user = u, !.new = h].new \in {h}
    BY DEF NoJob
  <2> QED BY <2>1, <2>2 DEF TypeOK, Label, Start
<1>2. PhaseOK'
  BY DEF RegisterUser, TypeOK, Label, Start, NoJob, Fresh, PhaseOK, Changing
<1>3. FixedHashIsAdmins'
  BY DEF RegisterUser, TypeOK, Label, Start, NoJob, Fresh, FixedHashIsAdmins
<1>4. NewIsNew'
  BY DEF RegisterUser, TypeOK, Label, Start, NoJob, Fresh, NewIsNew, Unwritten,
     FixedHashIsAdmins
<1>5. OneRow'
  BY DEF RegisterUser, TypeOK, Label, Start, NoJob, Fresh, OneRow, NewIsNew, Unwritten,
     FixedHashIsAdmins, HasRow
<1>6. OldIsUsers'
  BY DEF RegisterUser, TypeOK, Label, Start, NoJob, Fresh, OldIsUsers, NewIsNew, Unwritten,
     FixedHashIsAdmins, OneRow
<1>7. Replaced'
  BY DEF RegisterUser, TypeOK, Label, Start, NoJob, Fresh, Replaced, Changing, NewIsNew,
     Unwritten, FixedHashIsAdmins, OldIsUsers, PhaseOK
<1>8. Covered'
  BY DEF RegisterUser, TypeOK, Label, Start, NoJob, Fresh, Covered, Stranded, WillStore,
     WillDrop, Changing, OldIsUsers, Replaced, FixedHashIsAdmins, PhaseOK, HasRow
<1>9. AsRead'
  BY DEF RegisterUser, TypeOK, Label, Start, NoJob, Fresh, AsRead, Changing, HasRow
<1> QED BY <1>1, <1>2, <1>3, <1>4, <1>5, <1>6, <1>7, <1>8, <1>9

\* deleteUserByUsername begins (main.cpp:824).
LEMMA DeleteUserInv ==
  ASSUME IInv, NEW p \in Proc, DeleteUser(p)
  PROVE  IInv'
<1> USE AccountAssumption DEF IInv
<1>1. TypeOK'
  BY DEF DeleteUser, TypeOK, Label, Start, NoJob, PhaseOK, Changing
<1>2. PhaseOK'
  BY DEF DeleteUser, TypeOK, Label, Start, NoJob, PhaseOK, Changing
<1>3. FixedHashIsAdmins'
  BY DEF DeleteUser, TypeOK, Label, Start, NoJob, FixedHashIsAdmins
<1>4. NewIsNew'
  BY DEF DeleteUser, TypeOK, Label, Start, NoJob, NewIsNew, Unwritten, FixedHashIsAdmins
<1>5. OneRow'
  BY DEF DeleteUser, TypeOK, Label, Start, NoJob, OneRow, NewIsNew, Unwritten,
     FixedHashIsAdmins, HasRow
<1>6. OldIsUsers'
  BY DEF DeleteUser, TypeOK, Label, Start, NoJob, OldIsUsers, NewIsNew, Unwritten,
     FixedHashIsAdmins, OneRow
<1>7. Replaced'
  BY DEF DeleteUser, TypeOK, Label, Start, NoJob, Replaced, Changing, NewIsNew, Unwritten,
     FixedHashIsAdmins, OldIsUsers, PhaseOK
<1>8. Covered'
  BY DEF DeleteUser, TypeOK, Label, Start, NoJob, Covered, Stranded, WillStore, WillDrop,
     Changing, OldIsUsers, Replaced, FixedHashIsAdmins, PhaseOK, HasRow
<1>9. AsRead'
  BY DEF DeleteUser, TypeOK, Label, Start, NoJob, AsRead, Changing, HasRow
<1> QED BY <1>1, <1>2, <1>3, <1>4, <1>5, <1>6, <1>7, <1>8, <1>9

\* Menu entry 10 is chosen (main.cpp:854).
LEMMA ChangePasswordInv ==
  ASSUME IInv, NEW p \in Proc, ChangePassword(p)
  PROVE  IInv'
<1> USE AccountAssumption DEF IInv
<1>1. TypeOK'
  BY DEF ChangePassword, TypeOK, Label, PhaseOK, Changing
<1>2. PhaseOK'
  BY DEF ChangePassword, TypeOK, Label, PhaseOK, Changing
<1>3. FixedHashIsAdmins'
  BY DEF ChangePassword, TypeOK, Label, FixedHashIsAdmins
<1>4. NewIsNew'
  BY DEF ChangePassword, TypeOK, Label, NewIsNew, Unwritten, FixedHashIsAdmins
<1>5. OneRow'
  BY DEF ChangePassword, TypeOK, Label, OneRow, NewIsNew, Unwritten, FixedHashIsAdmins,
     HasRow
<1>6. OldIsUsers'
  BY DEF ChangePassword, TypeOK, Label, OldIsUsers, NewIsNew, Unwritten, FixedHashIsAdmins,
     OneRow
<1>7. Replaced'
  BY DEF ChangePassword, TypeOK, Label, Replaced, Changing, NewIsNew, Unwritten,
     FixedHashIsAdmins, OldIsUsers, PhaseOK
<1>8. Covered'
  BY DEF ChangePassword, TypeOK, Label, Covered, Stranded, WillStore, WillDrop, Changing,
     OldIsUsers, Replaced, FixedHashIsAdmins, PhaseOK, HasRow
<1>9. AsRead'
  BY DEF ChangePassword, TypeOK, Label, AsRead, Changing, HasRow
<1> QED BY <1>1, <1>2, <1>3, <1>4, <1>5, <1>6, <1>7, <1>8, <1>9

\* The count of storeUser (main.cpp:139-147).
LEMMA CountUserInv ==
  ASSUME IInv, NEW p \in Proc, CountUser(p)
  PROVE  IInv'
<1> USE AccountAssumption DEF IInv
<1>1. CASE pc'[p] = "idle"
  <2>1. Ends(p)
    BY <1>1, ReturnEnds DEF CountUser, Goto, TypeOK
  <2>2. users' = users /\ table' \in BOOLEAN /\ hashes' \in SUBSET Hash /\ harmed' \in BOOLEAN
    BY <1>1 DEF CountUser, Goto, Return, TypeOK
  <2>3. Covered'
    BY <1>1, <2>1 DEF CountUser, Goto, Ends, NoJob, Covered, Stranded, HasRow, WillStore,
       WillDrop, Changing, TypeOK, OldIsUsers, Replaced, FixedHashIsAdmins, PhaseOK, Label
  <2> QED BY <2>1, <2>2, <2>3, EndsInv
<1>2. CASE pc'[p] # "idle"
  <2>0. /\ pc[p] = "count" /\ ~HasRow(job[p].user) /\ pc' = [pc EXCEPT ![p] = "insert"]
        /\ UNCHANGED <<users, hashes, table, harmed, phase, result, job>>
    BY <1>2 DEF CountUser, Goto, Return, TypeOK
  <2>1. TypeOK'
    BY <2>0 DEF TypeOK, Label, PhaseOK, Changing
  <2>2. PhaseOK'
    BY <2>0 DEF TypeOK, Label, PhaseOK, Changing
  <2>3. FixedHashIsAdmins'
    BY <2>0 DEF TypeOK, Label, FixedHashIsAdmins
  <2>4. NewIsNew'
    BY <2>0 DEF TypeOK, Label, NewIsNew, Unwritten, FixedHashIsAdmins
  <2>5. OneRow'
    BY <2>0 DEF TypeOK, Label, OneRow, NewIsNew, Unwritten, FixedHashIsAdmins, HasRow
  <2>6. OldIsUsers'
    BY <2>0 DEF TypeOK, Label, OldIsUsers, NewIsNew, Unwritten, FixedHashIsAdmins, OneRow
  <2>7. Replaced'
    BY <2>0 DEF TypeOK, Label, Replaced, Changing, NewIsNew, Unwritten, FixedHashIsAdmins,
       OldIsUsers, PhaseOK
  <2>8. Covered'
    BY <2>0 DEF TypeOK, Label, Covered, Stranded, WillStore, WillDrop, Changing, OldIsUsers,
       Replaced, FixedHashIsAdmins, PhaseOK, HasRow
  <2>9. AsRead'
    BY <2>0 DEF TypeOK, Label, AsRead, Changing, HasRow
  <2> QED BY <2>1, <2>2, <2>3, <2>4, <2>5, <2>6, <2>7, <2>8, <2>9
<1> QED BY <1>1, <1>2

\* The INSERT of storeUser: the row goes to a call that has yet to store the
\* hash (main.cpp:151-154).
LEMMA InsertUserInv ==
  ASSUME IInv, NEW p \in Proc, InsertUser(p)
  PROVE  IInv'
<1> USE AccountAssumption DEF IInv
<1>1. CASE pc'[p] = "idle"
  <2>1. Ends(p)
    BY <1>1, ReturnEnds DEF InsertUser, Goto, TypeOK
  <2>2. users' = users /\ table' \in BOOLEAN /\ hashes' \in SUBSET Hash /\ harmed' \in BOOLEAN
    BY <1>1 DEF InsertUser, Goto, Return, TypeOK
  <2>3. Covered'
    BY <1>1, <2>1 DEF InsertUser, Goto, Ends, NoJob, Covered, Stranded, HasRow, WillStore,
       WillDrop, Changing, TypeOK, OldIsUsers, Replaced, FixedHashIsAdmins, PhaseOK, Label
  <2> QED BY <2>1, <2>2, <2>3, EndsInv
<1>2. CASE pc'[p] # "idle"
  <2>0. /\ pc[p] = "insert" /\ ~UsersLocked(p) /\ pc' = [pc EXCEPT ![p] = "storeHash"]
        /\ users' = [users EXCEPT ![job[p].user] = job[p].new]
        /\ UNCHANGED <<hashes, table, harmed, phase, result, job>>
    BY <1>2 DEF InsertUser, Goto, Return, TypeOK
  <2>1. TypeOK'
    BY <2>0 DEF TypeOK, Label, PhaseOK, Changing, HasRow
  <2>2. PhaseOK'
    BY <2>0 DEF TypeOK, Label, PhaseOK, Changing, HasRow
  <2>3. FixedHashIsAdmins'
    BY <2>0 DEF TypeOK, Label, FixedHashIsAdmins, HasRow
  <2>4. NewIsNew'
    BY <2>0 DEF TypeOK, Label, NewIsNew, Unwritten, FixedHashIsAdmins, HasRow
  <2>5. OneRow'
    BY <2>0 DEF TypeOK, Label, OneRow, NewIsNew, Unwritten, FixedHashIsAdmins, HasRow
  <2>6. OldIsUsers'
    BY <2>0 DEF TypeOK, Label, OldIsUsers, NewIsNew, Unwritten, FixedHashIsAdmins, OneRow,
       HasRow
  <2>7. Replaced'
    BY <2>0 DEF TypeOK, Label, Replaced, Changing, NewIsNew, Unwritten, FixedHashIsAdmins,
       OldIsUsers, PhaseOK, HasRow, UsersLocked, ReadsUsers
  <2>8. Covered'
    BY <2>0 DEF TypeOK, Label, Covered, Stranded, WillStore, WillDrop, Changing, OldIsUsers,
       Replaced, FixedHashIsAdmins, PhaseOK, HasRow
  <2>9. AsRead'
    BY <2>0 DEF TypeOK, Label, AsRead, Changing, HasRow, UsersLocked, ReadsUsers
  <2> QED BY <2>1, <2>2, <2>3, <2>4, <2>5, <2>6, <2>7, <2>8, <2>9
<1> QED BY <1>1, <1>2

\* The table and the count of storeHash (Hash.cpp:116-133).
LEMMA OpenHashesInv ==
  ASSUME IInv, NEW p \in Proc, OpenHashes(p)
  PROVE  IInv'
<1> USE AccountAssumption DEF IInv
<1>1. CASE pc'[p] = "idle"
  <2>1. Ends(p)
    BY <1>1, ReturnEnds DEF OpenHashes, Goto, TypeOK
  <2>2. users' = users /\ table' \in BOOLEAN /\ hashes' \in SUBSET Hash /\ harmed' \in BOOLEAN
    BY <1>1 DEF OpenHashes, Goto, Return, TypeOK
  <2>3. Covered'
    <3>1. /\ pc[p] = "storeHash" /\ hashes' = hashes
          /\ ~harmed' => ~harmed /\ job[p].new \in hashes
      BY <1>1 DEF OpenHashes, Goto, Return, TypeOK
    <3>2. SUFFICES ASSUME ~harmed', NEW u \in User, Stranded(u)'
                   PROVE  \E q \in Proc : WillStore(q, users[u])' \/ WillDrop(q, u)'
      BY <2>2 DEF Covered
    <3>3. Stranded(u)
      BY <2>2, <3>1, <3>2 DEF Stranded, HasRow
    <3>4. PICK q \in Proc : WillStore(q, users[u]) \/ WillDrop(q, u)
      BY <3>1, <3>2, <3>3 DEF Covered
    <3>5. q # p
      BY <3>1, <3>2, <3>3, <3>4 DEF WillStore, WillDrop, Stranded, Changing
    <3>6. WillStore(q, users[u])' \/ WillDrop(q, u)'
      BY <2>1, <2>2, <3>4, <3>5 DEF WillStore, WillDrop, Changing, Ends, TypeOK
    <3> QED BY <3>6
  <2> QED BY <2>1, <2>2, <2>3, EndsInv
<1>2. CASE pc'[p] # "idle"
  <2>0. /\ pc[p] = "storeHash" /\ pc' = [pc EXCEPT ![p] = "insertHash"]
        /\ table' = TRUE /\ UNCHANGED <<users, hashes, harmed, phase, result, job>>
    BY <1>2 DEF OpenHashes, Goto, Return, TypeOK
  <2>1. TypeOK'
    BY <2>0 DEF TypeOK, Label, PhaseOK, Changing
  <2>2. PhaseOK'
    BY <2>0 DEF TypeOK, Label, PhaseOK, Changing
  <2>3. FixedHashIsAdmins'
    BY <2>0 DEF TypeOK, Label, FixedHashIsAdmins
  <2>4. NewIsNew'
    BY <2>0 DEF TypeOK, Label, NewIsNew, Unwritten, FixedHashIsAdmins
  <2>5. OneRow'
    BY <2>0 DEF TypeOK, Label, OneRow, NewIsNew, Unwritten, FixedHashIsAdmins, HasRow
  <2>6. OldIsUsers'
    BY <2>0 DEF TypeOK, Label, OldIsUsers, NewIsNew, Unwritten, FixedHashIsAdmins, OneRow
  <2>7. Replaced'
    BY <2>0 DEF TypeOK, Label, Replaced, Changing, NewIsNew, Unwritten, FixedHashIsAdmins,
       OldIsUsers, PhaseOK
  <2>8. Covered'
    BY <2>0 DEF TypeOK, Label, Covered, Stranded, WillStore, WillDrop, Changing, OldIsUsers,
       Replaced, FixedHashIsAdmins, PhaseOK, HasRow
  <2>9. AsRead'
    BY <2>0 DEF TypeOK, Label, AsRead, Changing, HasRow
  <2> QED BY <2>1, <2>2, <2>3, <2>4, <2>5, <2>6, <2>7, <2>8, <2>9
<1> QED BY <1>1, <1>2

\* The INSERT of storeHash (Hash.cpp:135-149).
LEMMA InsertHashInv ==
  ASSUME IInv, NEW p \in Proc, InsertHash(p)
  PROVE  IInv'
<1> USE AccountAssumption DEF IInv
<1>1. Ends(p)
  BY ReturnEnds DEF InsertHash
<1>2. users' = users /\ table' \in BOOLEAN /\ hashes' \in SUBSET Hash /\ harmed' \in BOOLEAN
  BY DEF InsertHash, TypeOK
<1>3. Covered'
  <2>1. /\ pc[p] = "insertHash" /\ hashes \subseteq hashes'
        /\ ~harmed' => ~harmed /\ job[p].new \in hashes'
    <3>1. pc[p] = "insertHash" /\ harmed' = (harmed \/ job[p].new \notin hashes')
          /\ hashes \subseteq hashes'
      <4>1. CASE hashes' = hashes \cup {job[p].new} /\ UNCHANGED harmed
        BY <4>1 DEF InsertHash, TypeOK
      <4>2. CASE UNCHANGED hashes /\ harmed' = (harmed \/ job[p].new \notin hashes)
        BY <4>2 DEF InsertHash
      <4> QED BY <4>1, <4>2 DEF InsertHash
    <3> QED BY <3>1
  <2>2. SUFFICES ASSUME ~harmed', NEW u \in User, Stranded(u)'
                 PROVE  \E q \in Proc : WillStore(q, users[u])' \/ WillDrop(q, u)'
    BY <1>2 DEF Covered
  <2>3. Stranded(u)
    BY <1>2, <2>1, <2>2 DEF Stranded, HasRow
  <2>4. PICK q \in Proc : WillStore(q, users[u]) \/ WillDrop(q, u)
    BY <2>1, <2>2, <2>3 DEF Covered
  <2>5. q # p
    BY <1>2, <2>1, <2>2, <2>4 DEF WillStore, WillDrop, Stranded
  <2>6. WillStore(q, users[u])' \/ WillDrop(q, u)'
    BY <1>1, <1>2, <2>4, <2>5 DEF WillStore, WillDrop, Changing, Ends, TypeOK
  <2> QED BY <2>6
<1> QED BY <1>1, <1>2, <1>3, EndsInv

\* getUser in a deletion (main.cpp:201-211).
LEMMA FindUserInv ==
  ASSUME IInv, NEW p \in Proc, FindUser(p)
  PROVE  IInv'
<1> USE AccountAssumption DEF IInv
<1>1. CASE pc'[p] = "idle"
  <2>1. Ends(p)
    BY <1>1, ReturnEnds DEF FindUser, Goto, TypeOK
  <2>2. users' = users /\ table' \in BOOLEAN /\ hashes' \in SUBSET Hash /\ harmed' \in BOOLEAN
    BY <1>1 DEF FindUser, Goto, Return, TypeOK
  <2>3. Covered'
    BY <1>1, <2>1 DEF FindUser, Goto, Ends, NoJob, Covered, Stranded, HasRow, WillStore,
       WillDrop, Changing, TypeOK, OldIsUsers, Replaced, FixedHashIsAdmins, PhaseOK, Label
  <2> QED BY <2>1, <2>2, <2>3, EndsInv
<1>2. CASE pc'[p] # "idle"
  <2>0. /\ pc[p] = "find" /\ HasRow(job[p].user) /\ pc' = [pc EXCEPT ![p] = "dropHash"]
        /\ job' = [job EXCEPT ![p].old = users[job[p].user]]
        /\ UNCHANGED <<users, hashes, table, harmed, phase, result>>
    BY <1>2 DEF FindUser, Goto, Return, TypeOK
  <2>1. TypeOK'
    BY <2>0 DEF TypeOK, Label, PhaseOK, Changing, HasRow
  <2>2. PhaseOK'
    BY <2>0 DEF TypeOK, Label, PhaseOK, Changing, HasRow
  <2>3. FixedHashIsAdmins'
    BY <2>0 DEF TypeOK, Label, FixedHashIsAdmins, HasRow
  <2>4. NewIsNew'
    BY <2>0 DEF TypeOK, Label, NewIsNew, Unwritten, FixedHashIsAdmins, HasRow
  <2>5. OneRow'
    BY <2>0 DEF TypeOK, Label, OneRow, NewIsNew, Unwritten, FixedHashIsAdmins, HasRow
  <2>6. OldIsUsers'
    BY <2>0 DEF TypeOK, Label, OldIsUsers, NewIsNew, Unwritten, FixedHashIsAdmins, OneRow,
       HasRow
  <2>7. Replaced'
    BY <2>0 DEF TypeOK, Label, Replaced, Changing, NewIsNew, Unwritten, FixedHashIsAdmins,
       OldIsUsers, PhaseOK, HasRow
  <2>8. Covered'
    BY <2>0 DEF TypeOK, Label, Covered, Stranded, WillStore, WillDrop, Changing, OldIsUsers,
       Replaced, FixedHashIsAdmins, PhaseOK, HasRow
  <2>9. AsRead'
    BY <2>0 DEF TypeOK, Label, AsRead, Changing, HasRow
  <2> QED BY <2>1, <2>2, <2>3, <2>4, <2>5, <2>6, <2>7, <2>8, <2>9
<1> QED BY <1>1, <1>2

\* deleteHash takes the hash of a row that will be dropped, or a hash that
\* no row holds (Hash.cpp:184-212).
LEMMA DropHashInv ==
  ASSUME IInv, NEW p \in Proc, DropHash(p)
  PROVE  IInv'
<1> USE AccountAssumption DEF IInv
<1>1. CASE pc'[p] = "idle"
  <2>1. Ends(p)
    BY <1>1, ReturnEnds DEF DropHash, Goto, TypeOK
  <2>2. users' = users /\ table' \in BOOLEAN /\ hashes' \in SUBSET Hash /\ harmed' \in BOOLEAN
    BY <1>1 DEF DropHash, Goto, Return, TypeOK
  <2>3. Covered'
    <3>1. /\ pc[p] = "dropHash"
          /\ ~harmed' => ~harmed /\ ~Changing(p) /\ hashes' = hashes
      BY <1>1 DEF DropHash, Goto, Return, TypeOK
    <3>2. SUFFICES ASSUME ~harmed', NEW u \in User, Stranded(u)'
                   PROVE  \E q \in Proc : WillStore(q, users[u])' \/ WillDrop(q, u)'
      BY <2>2 DEF Covered
    <3>3. Stranded(u)
      BY <2>2, <3>1, <3>2 DEF Stranded, HasRow
    <3>4. PICK q \in Proc : WillStore(q, users[u]) \/ WillDrop(q, u)
      BY <3>1, <3>2, <3>3 DEF Covered
    <3>5. q # p
      BY <3>1, <3>2, <3>3, <3>4 DEF WillStore, WillDrop, Stranded, Changing
    <3>6. WillStore(q, users[u])' \/ WillDrop(q, u)'
      BY <2>1, <2>2, <3>4, <3>5 DEF WillStore, WillDrop, Changing, Ends, TypeOK
    <3> QED BY <3>6
  <2> QED BY <2>1, <2>2, <2>3, EndsInv
<1>2. CASE pc'[p] # "idle"
  <2>0. /\ pc[p] = "dropHash" /\ hashes' \in {hashes, hashes \ {job[p].old}}
        /\ pc' = [pc EXCEPT ![p] = IF Changing(p) THEN "storeHash" ELSE "dropRow"]
        /\ UNCHANGED <<users, table, harmed, phase, result, job>>
    BY <1>2 DEF DropHash, Goto, Return, TypeOK
  <2>1. TypeOK'
    BY <2>0 DEF TypeOK, Label, PhaseOK, Changing, HasRow
  <2>2. PhaseOK'
    BY <2>0 DEF TypeOK, Label, PhaseOK, Changing, HasRow
  <2>3. FixedHashIsAdmins'
    BY <2>0 DEF TypeOK, Label, FixedHashIsAdmins, HasRow
  <2>4. NewIsNew'
    BY <2>0 DEF TypeOK, Label, NewIsNew, Unwritten, FixedHashIsAdmins, HasRow
  <2>5. OneRow'
    BY <2>0 DEF TypeOK, Label, OneRow, NewIsNew, Unwritten, FixedHashIsAdmins, HasRow
  <2>6. OldIsUsers'
    BY <2>0 DEF TypeOK, Label, OldIsUsers, NewIsNew, Unwritten, FixedHashIsAdmins, OneRow,
       HasRow
  <2>7. Replaced'
    BY <2>0 DEF TypeOK, Label, Replaced, Changing, NewIsNew, Unwritten, FixedHashIsAdmins,
       OldIsUsers, PhaseOK, HasRow
  <2>8. Covered'
    BY <2>0 DEF AsRead, OneRow, TypeOK, Label, Covered, Stranded, WillStore, WillDrop, Changing, OldIsUsers,
       Replaced, FixedHashIsAdmins, PhaseOK, HasRow
  <2>9. AsRead'
    BY <2>0 DEF TypeOK, Label, AsRead, Changing, HasRow
  <2> QED BY <2>1, <2>2, <2>3, <2>4, <2>5, <2>6, <2>7, <2>8, <2>9
<1> QED BY <1>1, <1>2

\* The DELETE of deleteUserByUsername (main.cpp:215-219).
LEMMA DropRowInv ==
  ASSUME IInv, NEW p \in Proc, DropRow(p)
  PROVE  IInv'
<1> USE AccountAssumption DEF IInv
<1>1. CASE users' = users
  <2>1. Ends(p)
    BY ReturnEnds DEF DropRow
  <2>2. table' \in BOOLEAN /\ hashes' \in SUBSET Hash /\ harmed' \in BOOLEAN
    BY DEF DropRow, TypeOK
  <2>3. Covered'
    <3>1. /\ pc[p] = "dropRow" /\ hashes' = hashes
          /\ users[job[p].user] = job[p].old
      BY DEF DropRow, AsRead, PhaseOK, Changing
    <3>2. ~harmed' => ~harmed /\ (job[p].old \in hashes \/ job[p].old = NoHash)
      BY <1>1, <3>1 DEF DropRow, TypeOK
    <3>3. SUFFICES ASSUME ~harmed', NEW u \in User, Stranded(u)'
                   PROVE  \E q \in Proc : WillStore(q, users[u])' \/ WillDrop(q, u)'
      BY <2>2 DEF Covered
    <3>4. Stranded(u)
      BY <1>1, <3>1, <3>3 DEF Stranded, HasRow
    <3>5. PICK q \in Proc : WillStore(q, users[u]) \/ WillDrop(q, u)
      BY <3>2, <3>3, <3>4 DEF Covered
    <3>6. q # p
      BY <3>1, <3>2, <3>3, <3>4, <3>5 DEF WillStore, WillDrop, Stranded, HasRow
    <3>7. WillStore(q, users[u])' \/ WillDrop(q, u)'
      BY <1>1, <2>1, <3>5, <3>6 DEF WillStore, WillDrop, Changing, Ends, TypeOK
    <3> QED BY <3>7
  <2> QED BY <1>1, <2>1, <2>2, <2>3, EndsInv
<1>2. CASE users' = [users EXCEPT ![job[p].user] = NoHash]
  <2>0. /\ Ends(p) /\ pc[p] = "dropRow" /\ UNCHANGED <<hashes, table>>
        /\ harmed' \in BOOLEAN /\ (harmed => harmed')
    BY ReturnEnds DEF DropRow, TypeOK
  <2>a. users' = users \/ ~UsersLocked(p)
    BY DEF DropRow
  <2>1. TypeOK'
    BY <1>2, <2>0 DEF TypeOK, Label, Ends, NoJob, PhaseOK, Changing, HasRow
  <2>2. PhaseOK'
    BY <1>2, <2>0 DEF TypeOK, Label, Ends, NoJob, PhaseOK, Changing, HasRow
  <2>3. FixedHashIsAdmins'
    BY <1>2, <2>0 DEF TypeOK, Label, Ends, NoJob, FixedHashIsAdmins, HasRow
  <2>4. NewIsNew'
    BY <1>2, <2>0 DEF TypeOK, Label, Ends, NoJob, NewIsNew, Unwritten, FixedHashIsAdmins,
       HasRow
  <2>5. OneRow'
    BY <1>2, <2>0 DEF TypeOK, Label, Ends, NoJob, OneRow, NewIsNew, Unwritten,
       FixedHashIsAdmins, HasRow
  <2>6. OldIsUsers'
    BY <1>2, <2>0 DEF TypeOK, Label, Ends, NoJob, OldIsUsers, NewIsNew, Unwritten,
       FixedHashIsAdmins, OneRow, HasRow
  <2>7. Replaced'
    BY <1>2, <2>0, <2>a DEF TypeOK, Label, Ends, NoJob, Replaced, Changing, NewIsNew, Unwritten,
       FixedHashIsAdmins, OldIsUsers, PhaseOK, HasRow, UsersLocked, ReadsUsers
  <2>8. Covered'
    BY <1>2, <2>0 DEF TypeOK, Label, Ends, NoJob, Covered, Stranded, WillStore, WillDrop,
       Changing, OldIsUsers, Replaced, FixedHashIsAdmins, PhaseOK, HasRow
  <2>9. AsRead'
    BY <1>2, <2>0, <2>a DEF TypeOK, Label, Ends, NoJob, AsRead, Changing, HasRow, UsersLocked, ReadsUsers
  <2> QED BY <2>1, <2>2, <2>3, <2>4, <2>5, <2>6, <2>7, <2>8, <2>9
<1> QED BY <1>1, <1>2 DEF DropRow

\* getUser in a verification (main.cpp:120).
LEMMA LookUpUserInv ==
  ASSUME IInv, NEW p \in Proc, LookUpUser(p)
  PROVE  IInv'
<1> USE AccountAssumption DEF IInv
<1>1. CASE pc'[p] = "idle"
  <2>1. Ends(p)
    BY <1>1, ReturnEnds DEF LookUpUser, Goto, TypeOK
  <2>2. users' = users /\ table' \in BOOLEAN /\ hashes' \in SUBSET Hash /\ harmed' \in BOOLEAN
    BY <1>1 DEF LookUpUser, Goto, Return, TypeOK
  <2>3. Covered'
    BY <1>1, <2>1 DEF LookUpUser, Goto, Ends, NoJob, Covered, Stranded, HasRow, WillStore,
       WillDrop, Changing, TypeOK, OldIsUsers, Replaced, FixedHashIsAdmins, PhaseOK, Label
  <2> QED BY <2>1, <2>2, <2>3, EndsInv
<1>2. CASE pc'[p] # "idle"
  <2>0. /\ pc[p] = "lookup" /\ HasRow(job[p].user) /\ pc' = [pc EXCEPT ![p] = "retrieve"]
        /\ job' = [job EXCEPT ![p].old = users[job[p].user]]
        /\ UNCHANGED <<users, hashes, table, harmed, phase, result>>
    BY <1>2 DEF LookUpUser, Goto, Return, TypeOK
  <2>1. TypeOK'
    BY <2>0 DEF TypeOK, Label, PhaseOK, Changing, HasRow
  <2>2. PhaseOK'
    BY <2>0 DEF TypeOK, Label, PhaseOK, Changing, HasRow
  <2>3. FixedHashIsAdmins'
    BY <2>0 DEF TypeOK, Label, FixedHashIsAdmins, HasRow
  <2>4. NewIsNew'
    BY <2>0 DEF TypeOK, Label, NewIsNew, Unwritten, FixedHashIsAdmins, HasRow
  <2>5. OneRow'
    BY <2>0 DEF TypeOK, Label, OneRow, NewIsNew, Unwritten, FixedHashIsAdmins, HasRow
  <2>6. OldIsUsers'
    BY <2>0 DEF TypeOK, Label, OldIsUsers, NewIsNew, Unwritten, FixedHashIsAdmins, OneRow,
       HasRow
  <2>7. Replaced'
    BY <2>0 DEF TypeOK, Label, Replaced, Changing, NewIsNew, Unwritten, FixedHashIsAdmins,
       OldIsUsers, PhaseOK, HasRow
  <2>8. Covered'
    BY <2>0 DEF TypeOK, Label, Covered, Stranded, WillStore, WillDrop, Changing, OldIsUsers,
       Replaced, FixedHashIsAdmins, PhaseOK, HasRow
  <2>9. AsRead'
    BY <2>0 DEF TypeOK, Label, AsRead, Changing, HasRow
  <2> QED BY <2>1, <2>2, <2>3, <2>4, <2>5, <2>6, <2>7, <2>8, <2>9
<1> QED BY <1>1, <1>2

\* retrieveHash and compareHashes (main.cpp:122-128).
LEMMA RetrieveHashInv ==
  ASSUME IInv, NEW p \in Proc, RetrieveHash(p)
  PROVE  IInv'
<1> USE AccountAssumption DEF IInv
<1>1. CASE pc'[p] = "idle"
  <2>1. Ends(p)
    BY <1>1, ReturnEnds DEF RetrieveHash, Goto, TypeOK
  <2>2. users' = users /\ table' \in BOOLEAN /\ hashes' \in SUBSET Hash /\ harmed' \in BOOLEAN
    BY <1>1 DEF RetrieveHash, Goto, Return, TypeOK
  <2>3. Covered'
    BY <1>1, <2>1 DEF RetrieveHash, Goto, Ends, NoJob, Covered, Stranded, HasRow, WillStore,
       WillDrop, Changing, TypeOK, OldIsUsers, Replaced, FixedHashIsAdmins, PhaseOK, Label
  <2> QED BY <2>1, <2>2, <2>3, EndsInv
<1>2. CASE pc'[p] # "idle"
  <2>0. /\ pc[p] = "retrieve" /\ Changing(p) /\ pc' = [pc EXCEPT ![p] = "reread"]
        /\ job' = [job EXCEPT ![p] = [NoJob EXCEPT !.user = job[p].user]]
        /\ UNCHANGED <<users, hashes, table, harmed, phase, result>>
    BY <1>2 DEF RetrieveHash, Goto, Return, TypeOK
  <2>1. TypeOK'
    BY <2>0 DEF NoJob, TypeOK, Label, PhaseOK, Changing, HasRow
  <2>2. PhaseOK'
    BY <2>0 DEF NoJob, TypeOK, Label, PhaseOK, Changing, HasRow
  <2>3. FixedHashIsAdmins'
    BY <2>0 DEF NoJob, TypeOK, Label, FixedHashIsAdmins, HasRow
  <2>4. NewIsNew'
    BY <2>0 DEF NoJob, TypeOK, Label, NewIsNew, Unwritten, FixedHashIsAdmins, HasRow
  <2>5. OneRow'
    BY <2>0 DEF NoJob, TypeOK, Label, OneRow, NewIsNew, Unwritten, FixedHashIsAdmins, HasRow
  <2>6. OldIsUsers'
    BY <2>0 DEF NoJob, TypeOK, Label, OldIsUsers, NewIsNew, Unwritten, FixedHashIsAdmins, OneRow,
       HasRow
  <2>7. Replaced'
    BY <2>0 DEF NoJob, TypeOK, Label, Replaced, Changing, NewIsNew, Unwritten, FixedHashIsAdmins,
       OldIsUsers, PhaseOK, HasRow
  <2>8. Covered'
    BY <2>0 DEF NoJob, TypeOK, Label, Covered, Stranded, WillStore, WillDrop, Changing, OldIsUsers,
       Replaced, FixedHashIsAdmins, PhaseOK, HasRow
  <2>9. AsRead'
    BY <2>0 DEF NoJob, TypeOK, Label, AsRead, Changing, HasRow
  <2> QED BY <2>1, <2>2, <2>3, <2>4, <2>5, <2>6, <2>7, <2>8, <2>9
<1> QED BY <1>1, <1>2

\* The new hash and getUser in changeUserPassword (main.cpp:230-242).
LEMMA RereadUserInv ==
  ASSUME IInv, NEW p \in Proc, RereadUser(p)
  PROVE  IInv'
<1> USE AccountAssumption DEF IInv
<1>1. CASE pc'[p] = "idle"
  <2>1. Ends(p)
    BY <1>1, ReturnEnds DEF RereadUser, Goto, TypeOK
  <2>2. users' = users /\ table' \in BOOLEAN /\ hashes' \in SUBSET Hash /\ harmed' \in BOOLEAN
    BY <1>1 DEF RereadUser, Goto, Return, TypeOK
  <2>3. Covered'
    <3>1. pc[p] = "reread" /\ hashes' = hashes /\ harmed' = harmed
      BY DEF RereadUser
    <3>2. SUFFICES ASSUME ~harmed', NEW u \in User, Stranded(u)'
                   PROVE  \E q \in Proc : WillStore(q, users[u])' \/ WillDrop(q, u)'
      BY <2>2 DEF Covered
    <3>3. Stranded(u)
      BY <2>2, <3>1, <3>2 DEF Stranded, HasRow
    <3>4. PICK q \in Proc : WillStore(q, users[u]) \/ WillDrop(q, u)
      BY <3>1, <3>2, <3>3 DEF Covered
    <3>5. q # p
      BY <3>1, <3>2, <3>3, <3>4 DEF WillStore, WillDrop, Stranded, Changing
    <3>6. WillStore(q, users[u])' \/ WillDrop(q, u)'
      BY <2>1, <2>2, <3>4, <3>5 DEF WillStore, WillDrop, Changing, Ends, TypeOK
    <3> QED BY <3>6
  <2> QED BY <2>1, <2>2, <2>3, EndsInv
<1>2. CASE pc'[p] # "idle"
  <2>0. /\ pc[p] = "reread" /\ HasRow(job[p].user) /\ pc' = [pc EXCEPT ![p] = "update"]
        /\ \E h \in Fresh : job' = [job EXCEPT ![p].old = users[job[p].user], ![p].new = h]
        /\ UNCHANGED <<users, hashes, table, harmed, phase, result>>
    BY <1>2 DEF RereadUser, Goto, Return, TypeOK
  <2>1. TypeOK'
    BY <2>0 DEF Fresh, TypeOK, Label, PhaseOK, Changing, HasRow
  <2>2. PhaseOK'
    BY <2>0 DEF Fresh, TypeOK, Label, PhaseOK, Changing, HasRow
  <2>3. FixedHashIsAdmins'
    BY <2>0 DEF Fresh, TypeOK, Label, FixedHashIsAdmins, HasRow
  <2>4. NewIsNew'
    BY <2>0 DEF Fresh, TypeOK, Label, NewIsNew, Unwritten, FixedHashIsAdmins, HasRow
  <2>5. OneRow'
    BY <2>0 DEF Fresh, TypeOK, Label, OneRow, NewIsNew, Unwritten, FixedHashIsAdmins, HasRow
  <2>6. OldIsUsers'
    BY <2>0 DEF Fresh, TypeOK, Label, OldIsUsers, NewIsNew, Unwritten, FixedHashIsAdmins, OneRow,
       HasRow
  <2>7. Replaced'
    BY <2>0 DEF Fresh, TypeOK, Label, Replaced, Changing, NewIsNew, Unwritten, FixedHashIsAdmins,
       OldIsUsers, PhaseOK, HasRow
  <2>8. Covered'
    BY <2>0 DEF Fresh, TypeOK, Label, Covered, Stranded, WillStore, WillDrop, Changing, OldIsUsers,
       Replaced, FixedHashIsAdmins, PhaseOK, HasRow
  <2>9. AsRead'
    BY <2>0 DEF Fresh, TypeOK, Label, AsRead, Changing, HasRow
  <2> QED BY <2>1, <2>2, <2>3, <2>4, <2>5, <2>6, <2>7, <2>8, <2>9
<1> QED BY <1>1, <1>2

\* The UPDATE of changeUserPassword: the row has the new hash, which is yet
\* to be stored (main.cpp:244-248).
LEMMA UpdateUserInv ==
  ASSUME IInv, NEW p \in Proc, UpdateUser(p)
  PROVE  IInv'
<1> USE AccountAssumption DEF IInv
<1>1. CASE pc'[p] = "idle"
  <2>1. Ends(p)
    BY <1>1, ReturnEnds DEF UpdateUser, Goto, TypeOK
  <2>2. users' = users /\ table' \in BOOLEAN /\ hashes' \in SUBSET Hash /\ harmed' \in BOOLEAN
    BY <1>1 DEF UpdateUser, Goto, Return, TypeOK
  <2>3. Covered'
    BY <1>1, <2>1 DEF UpdateUser, Goto, Ends, NoJob, Covered, Stranded, HasRow, WillStore,
       WillDrop, Changing, TypeOK, OldIsUsers, Replaced, FixedHashIsAdmins, PhaseOK, Label
  <2> QED BY <2>1, <2>2, <2>3, EndsInv
<1>2. CASE pc'[p] # "idle"
  <2>0. /\ pc[p] = "update" /\ pc' = [pc EXCEPT ![p] = "dropHash"]
        /\ users' = [users EXCEPT ![job[p].user] = job[p].new] /\ ~UsersLocked(p)
        /\ UNCHANGED <<hashes, table, harmed, phase, result, job>>
    BY <1>2 DEF UpdateUser, Goto, Return, TypeOK
  <2>1. TypeOK'
    BY <2>0 DEF TypeOK, Label, PhaseOK, Changing, HasRow
  <2>2. PhaseOK'
    BY <2>0 DEF TypeOK, Label, PhaseOK, Changing, HasRow
  <2>3. FixedHashIsAdmins'
    BY <2>0 DEF TypeOK, Label, FixedHashIsAdmins, HasRow
  <2>4. NewIsNew'
    BY <2>0 DEF AsRead, TypeOK, Label, NewIsNew, Unwritten, FixedHashIsAdmins, HasRow
  <2>5. OneRow'
    BY <2>0 DEF TypeOK, Label, OneRow, NewIsNew, Unwritten, FixedHashIsAdmins, HasRow
  <2>6. OldIsUsers'
    BY <2>0 DEF AsRead, TypeOK, Label, OldIsUsers, NewIsNew, Unwritten, FixedHashIsAdmins, OneRow,
       HasRow
  <2>7. Replaced'
    BY <2>0 DEF AsRead, TypeOK, Label, Replaced, Changing, NewIsNew, Unwritten, FixedHashIsAdmins,
       OldIsUsers, PhaseOK, HasRow, UsersLocked, ReadsUsers
  <2>8. Covered'
    BY <2>0 DEF AsRead, TypeOK, Label, Covered, Stranded, WillStore, WillDrop, Changing, OldIsUsers,
       Replaced, FixedHashIsAdmins, PhaseOK, HasRow
  <2>9. AsRead'
    BY <2>0 DEF TypeOK, Label, PhaseOK, AsRead, Changing, HasRow, UsersLocked, ReadsUsers
  <2> QED BY <2>1, <2>2, <2>3, <2>4, <2>5, <2>6, <2>7, <2>8, <2>9
<1> QED BY <1>1, <1>2

\* The program ends anywhere and is run again.
LEMMA RestartInv ==
  ASSUME IInv, NEW p \in Proc, Restart(p)
  PROVE  IInv'
<1> USE AccountAssumption DEF IInv
<1>1. Ends(p)
  BY DEF Restart, Ends, TypeOK
<1>2. users' = users /\ table' \in BOOLEAN /\ hashes' \in SUBSET Hash /\ harmed' \in BOOLEAN
  BY DEF Restart, HalfDone, Changing, TypeOK
<1>3. Covered'
  <2>1. hashes' = hashes /\ (~harmed' => ~harmed /\ ~HalfDone(p))
    BY DEF Restart
  <2>2. SUFFICES ASSUME ~harmed', NEW u \in User, Stranded(u)'
                 PROVE  \E q \in Proc : WillStore(q, users[u])' \/ WillDrop(q, u)'
    BY <1>2 DEF Covered
  <2>3. Stranded(u)
    BY <1>2, <2>1, <2>2 DEF Stranded, HasRow
  <2>4. PICK q \in Proc : WillStore(q, users[u]) \/ WillDrop(q, u)
    BY <2>1, <2>2, <2>3 DEF Covered
  <2>5. q # p
    BY <2>1, <2>2, <2>3, <2>4
    DEF WillStore, WillDrop, Stranded, HalfDone, AsRead, PhaseOK, Changing
  <2>6. WillStore(q, users[u])' \/ WillDrop(q, u)'
    BY <1>1, <1>2, <2>4, <2>5 DEF WillStore, WillDrop, Changing, Ends, TypeOK
  <2> QED BY <2>6
<1> QED BY <1>1, <1>2, <1>3, EndsInv

\* A step of something else.
LEMMA StutterInv ==
  ASSUME IInv, UNCHANGED vars
  PROVE  IInv'
BY DEF vars, IInv, TypeOK, PhaseOK, FixedHashIsAdmins, NewIsNew, Unwritten, OneRow, OldIsUsers, Replaced,
       AsRead, Covered, Stranded, WillStore, WillDrop, HasRow, Changing

\* Every step keeps the invariant.
LEMMA NextInv == IInv /\ [Next]_vars => IInv'
<1> SUFFICES ASSUME IInv, [Next]_vars PROVE IInv'
  OBVIOUS
<1>1. CASE UNCHANGED vars
  BY <1>1, StutterInv
<1>2. ASSUME NEW p \in Proc, Statement(p)
      PROVE  IInv'
  BY <1>2, CountUserInv, InsertUserInv, OpenHashesInv, InsertHashInv, FindUserInv, DropHashInv, DropRowInv,
     LookUpUserInv, RetrieveHashInv, RereadUserInv, UpdateUserInv DEF Statement
<1>3. CASE Next
  BY <1>2, <1>3, InitializeSuperAdminInv, VerifyPasswordInv, RegisterUserInv, DeleteUserInv,
     ChangePasswordInv, RestartInv DEF Next
<1> QED BY <1>1, <1>3

\* The invariant holds always.
THEOREM Inductive == Spec => []IInv
BY InitInv, NextInv, PTL DEF Spec

\* The tables, and every call on them, keep their types (main.cpp, class
\* Database; Hash.cpp): no statement works on a hash its call has not read.
THEOREM TypeCorrect == Spec => []TypeOK
<1>1. IInv => TypeOK
  BY DEF IInv
<1> QED BY <1>1, Inductive, PTL

\* Any number of programs may store, delete and change accounts at once: every
\* user, the super admin included, keeps a hash to log in with, unless a
\* statement failed or a program died between the table users and the table
\* Hashes.  The lock of the existence queries is what it takes (main.cpp:201, 230).
THEOREM NotStranded == Spec => []NobodyStranded
<1>1. IInv => NobodyStranded
  BY DEF IInv, Covered, NobodyStranded, Idle, WillStore, WillDrop
<1> QED BY <1>1, Inductive, PTL

-----------------------------------------------------------------------------
(***************************************************************************)
(* One program whose statements succeed.  Nobody else changes the tables,  *)
(* so that at each statement of a call the table Hashes is what the rows   *)
(* make of it, but for the hash the call is at work on.                    *)
(***************************************************************************)
Solo == ~MayFail /\ \A p, q \in Proc : p = q

Rows == {users[u] : u \in {v \in User : HasRow(v)}}

Storing(p) == pc[p] \in {"storeHash", "insertHash"}

Replacing(p) == pc[p] = "dropHash" /\ Changing(p)

Deleting(p) == pc[p] = "dropRow" \/ (pc[p] = "dropHash" /\ ~Changing(p))

\* What the hash store holds at each statement.
InStep(p) ==
  /\ Storing(p) => users[job[p].user] = job[p].new /\ hashes = Rows \ {job[p].new}
  /\ Replacing(p) => /\ users[job[p].user] = job[p].new /\ job[p].old \notin Rows
                     /\ hashes = (Rows \ {job[p].new}) \cup {job[p].old}
  /\ Deleting(p) \/ pc[p] \in {"retrieve", "update"} =>
       users[job[p].user] = job[p].old /\ HasRow(job[p].user)
  /\ pc[p] = "dropRow" => hashes = Rows \ {job[p].old}
  /\ ~Storing(p) /\ ~Replacing(p) /\ pc[p] # "dropRow" => hashes = Rows

\* Where the program is, and that the super admin is there once it started.
Started(p) ==
  /\ hashes # {} \/ pc[p] = "insertHash" => table
  /\ phase[p] = "start" => pc[p] \in {"idle", "count", "insert", "storeHash", "insertHash"}
  /\ phase[p] = "start" /\ pc[p] # "idle" => job[p].user = Admin
  /\ phase[p] = "start" /\ Storing(p) => HasRow(Admin)
  /\ phase[p] = "login" => HasRow(Admin) /\ pc[p] \in {"idle", "lookup", "retrieve"}
  /\ phase[p] = "menu" => pc[p] \notin {"lookup", "retrieve"}
  /\ phase[p] = "reauth" => pc[p] \notin {"count", "insert"}
  /\ pc[p] = "update" => job[p].new # AdminHash

SoloInv == \A p \in Proc : Started(p) /\ (~harmed => InStep(p))

\* Nobody else holds a lock.
LEMMA NoLock ==
  ASSUME Solo, NEW p \in Proc
  PROVE  ~UsersLocked(p) /\ ~HashesLocked(p)
BY DEF Solo, UsersLocked, HashesLocked

\* A row that is inserted, dropped or given a new hash.
LEMMA RowsChange ==
  ASSUME TypeOK, OneRow, NEW u \in User, NEW h \in Hash \cup {NoHash},
         h # NoHash => \A v \in User : users[v] # h,
         users' = [users EXCEPT ![u] = h]
  PROVE  Rows' = (Rows \ {users[u]}) \cup ({h} \ {NoHash})
<1>1. ASSUME NEW x PROVE x \in Rows' <=> x \in (Rows \ {users[u]}) \cup ({h} \ {NoHash})
  <2>1. x \in Rows <=> x # NoHash /\ \E v \in User : users[v] = x
    BY DEF Rows, HasRow
  <2>2. x \in Rows' <=> x # NoHash /\ \E v \in User : users'[v] = x
    BY DEF Rows, HasRow
  <2>3. \A v \in User : users'[v] = IF v = u THEN h ELSE users[v]
    BY DEF TypeOK
  <2>4. \A v \in User : v # u /\ users[v] # NoHash => users[v] # users[u]
    BY DEF OneRow, HasRow
  <2> QED
    BY <2>1, <2>2, <2>3, <2>4
<1> QED
  BY <1>1

LEMMA RowsSame ==
  ASSUME users' = users
  PROVE  Rows' = Rows /\ \A u \in User : HasRow(u)' <=> HasRow(u)
BY DEF Rows, HasRow

\* A call that ends without a change of the tables, outside any change of its own.
LEMMA SoloEnds ==
  ASSUME TypeOK, NEW p \in Proc, NEW value \in {"true", "false"}, Return(p, value),
         UNCHANGED <<users, hashes>>, table => table', hashes # {} => table',
         harmed' = harmed, ~harmed => hashes = Rows,
         phase[p] = "start" \/ (phase[p] = "login" /\ value = "false") => HasRow(Admin)
  PROVE  Started(p)' /\ (~harmed' => InStep(p)')
<1>1. pc'[p] = "idle" /\ phase'[p] \in {"login", "reauth", "menu"}
      /\ (phase'[p] = "login" => HasRow(Admin))
  BY DEF Return, After, TypeOK
<1>2. Started(p)'
  BY <1>1 DEF Started, Storing, HasRow
<1>3. ~harmed' => InStep(p)'
  BY <1>1, RowsSame DEF InStep, Storing, Replacing, Deleting
<1> QED
  BY <1>2, <1>3

\* Each statement of one program keeps the two tables in step.
LEMMA SoloStatement ==
  ASSUME Solo, IInv, SoloInv, NEW p \in Proc, Statement(p)
  PROVE  Started(p)' /\ (~harmed' => InStep(p)')
<1> USE DEF IInv
<1>0. /\ ~MayFail /\ ~UsersLocked(p) /\ ~HashesLocked(p)
      /\ Started(p) /\ (~harmed => InStep(p))
  BY NoLock DEF Solo, SoloInv
<1>1. CASE CountUser(p)
  <2>1. CASE HasRow(job[p].user) /\ Return(p, "false")
    <3>1. phase[p] = "start" \/ phase[p] = "login" => HasRow(Admin)
      BY <1>0, <1>1, <2>1 DEF CountUser, Started
    <3>2. hashes # {} => table
      BY <1>0 DEF Started
    <3>3. ~harmed => hashes = Rows
      BY <1>0, <1>1 DEF CountUser, InStep, Storing, Replacing
    <3> QED
      BY <1>1, <2>1, <3>1, <3>2, <3>3, SoloEnds DEF CountUser
  <2>2. CASE Goto(p, "insert") /\ UNCHANGED job
    BY <1>0, <1>1, <2>2, RowsSame
    DEF CountUser, Goto, TypeOK, Started, InStep, Storing, Replacing, Deleting, Changing, HasRow
  <2> QED
    BY <1>0, <1>1, <2>1, <2>2 DEF CountUser
<1>2. CASE InsertUser(p)
  <2>1. ~HasRow(job[p].user)
    BY <1>2 DEF InsertUser, AsRead
  <2>2. /\ ~HasRow(job[p].user)
        /\ users' = [users EXCEPT ![job[p].user] = job[p].new]
        /\ Goto(p, "storeHash") /\ UNCHANGED job
    BY <1>0, <1>2, <2>1 DEF InsertUser
  <2>3. /\ job[p].user \in User /\ job[p].new \in Hash /\ job[p].new # NoHash
        /\ pc[p] = "insert" /\ pc'[p] = "storeHash" /\ job' = job /\ phase' = phase
        /\ hashes' = hashes /\ table' = table /\ harmed' = harmed
    BY <1>2, <2>2, AccountAssumption DEF InsertUser, Goto, TypeOK
  <2>4. \A v \in User : users[v] # job[p].new
    BY <2>2, <2>3 DEF NewIsNew, Unwritten, FixedHashIsAdmins, HasRow
  <2>5. job[p].new \notin Rows
    BY <2>4 DEF Rows
  <2>6. Rows' = (Rows \ {users[job[p].user]}) \cup ({job[p].new} \ {NoHash})
    BY <2>2, <2>3, <2>4, RowsChange
  <2>7. users[job[p].user] \notin Rows
    BY <2>2 DEF Rows, HasRow
  <2>8. hashes = Rows \/ harmed
    BY <1>0, <2>3 DEF InStep, Storing, Replacing
  <2>9. users'[job[p].user] = job[p].new /\ (phase[p] = "start" => HasRow(Admin)')
    BY <1>0, <2>2, <2>3 DEF TypeOK, Started, HasRow
  <2>10. ~harmed => hashes' = Rows' \ {job[p].new}
    BY <2>3, <2>5, <2>6, <2>7, <2>8
  <2>11. Started(p)'
    BY <1>0, <2>3, <2>9 DEF Started, Storing, TypeOK
  <2> QED
    BY <2>3, <2>9, <2>10, <2>11 DEF InStep, Storing, Replacing, Deleting
<1>3. CASE OpenHashes(p)
  <2>1. CASE job[p].new \in hashes /\ Return(p, "true") /\ UNCHANGED harmed
    <3>1. harmed
      BY <1>0, <1>3, <2>1 DEF OpenHashes, InStep, Storing
    <3>2. phase[p] = "start" => HasRow(Admin)
      BY <1>0, <1>3 DEF OpenHashes, Started, Storing
    <3> QED
      BY <1>0, <1>3, <2>1, <3>1, <3>2, SoloEnds DEF OpenHashes
  <2>2. CASE table' = TRUE /\ Goto(p, "insertHash") /\ UNCHANGED <<job, harmed>>
    BY <1>0, <1>3, <2>2, RowsSame
    DEF OpenHashes, Goto, TypeOK, Started, InStep, Storing, Replacing, Deleting, Changing, HasRow
  <2> QED
    BY <1>0, <1>3, <2>1, <2>2 DEF OpenHashes
<1>4. CASE InsertHash(p)
  <2>1. /\ pc[p] = "insertHash" /\ hashes' = hashes \cup {job[p].new} /\ harmed' = harmed
        /\ users' = users /\ table' = table /\ Return(p, "true")
    BY <1>0, <1>4 DEF InsertHash
  <2>2. pc'[p] = "idle" /\ phase'[p] \in {"login", "menu"}
        /\ (phase'[p] = "login" => HasRow(Admin))
    BY <1>0, <2>1 DEF Return, After, TypeOK, Started, Storing
  <2>3. Started(p)'
    BY <1>0, <2>1, <2>2 DEF Started, Storing, HasRow
  <2>4. ~harmed => hashes' = Rows
    <3>1. SUFFICES ASSUME ~harmed PROVE hashes' = Rows
      OBVIOUS
    <3>2. users[job[p].user] = job[p].new /\ hashes = Rows \ {job[p].new}
      BY <1>0, <2>1, <3>1 DEF InStep, Storing
    <3>3. job[p].new \in Rows
      BY <2>1, <3>2, AccountAssumption DEF Rows, HasRow, TypeOK
    <3> QED
      BY <2>1, <3>2, <3>3
  <2> QED
    BY <2>1, <2>2, <2>3, <2>4, RowsSame DEF InStep, Storing, Replacing, Deleting
<1>5. CASE FindUser(p)
  <2>0. phase[p] # "reauth" /\ phase[p] = "menu"
    BY <1>0, <1>5 DEF FindUser, PhaseOK, Started, TypeOK
  <2>1. CASE Return(p, "false")
    <3>1. ~harmed => hashes = Rows
      BY <1>0, <1>5 DEF FindUser, InStep, Storing, Replacing
    <3> QED
      BY <1>0, <1>5, <2>0, <2>1, <3>1, SoloEnds DEF FindUser, Started
  <2>2. CASE /\ HasRow(job[p].user)
             /\ job' = [job EXCEPT ![p].old = users[job[p].user]]
             /\ Goto(p, "dropHash")
    <3>1. /\ pc[p] = "find" /\ pc'[p] = "dropHash" /\ phase' = phase
          /\ job'[p].user = job[p].user /\ job'[p].old = users[job[p].user]
          /\ UNCHANGED <<users, hashes, table, harmed>>
      BY <1>5, <2>2 DEF FindUser, Goto, TypeOK
    <3>2. Started(p)'
      BY <1>0, <2>0, <3>1 DEF Started, Storing, HasRow
    <3>3. ~harmed => hashes = Rows
      BY <1>0, <3>1 DEF InStep, Storing, Replacing
    <3> QED
      BY <2>0, <2>2, <3>1, <3>2, <3>3, RowsSame
      DEF InStep, Storing, Replacing, Deleting, Changing, HasRow
  <2> QED
    BY <1>5, <2>1, <2>2 DEF FindUser
<1>6. CASE DropHash(p)
  <2>0. phase[p] \in {"menu", "reauth"}
    BY <1>0, <1>6 DEF DropHash, Started, TypeOK
  <2>1. CASE Return(p, "false") /\ harmed' = (harmed \/ Changing(p)) /\ hashes' = hashes
    <3>1. /\ pc'[p] = "idle" /\ phase'[p] = "menu"
          /\ users' = users /\ table' = table /\ pc[p] = "dropHash"
      BY <1>6, <2>0, <2>1 DEF DropHash, Return, After, TypeOK
    <3>2. Started(p)'
      BY <1>0, <2>1, <3>1 DEF Started, Storing, HasRow
    <3>3. ~harmed' => hashes = Rows
      BY <1>0, <2>1, <3>1 DEF InStep, Storing, Replacing
    <3> QED
      BY <2>1, <3>1, <3>2, <3>3, RowsSame DEF InStep, Storing, Replacing, Deleting
  <2>2. CASE /\ table /\ hashes' = hashes \ {job[p].old} /\ UNCHANGED <<job, harmed>>
             /\ Goto(p, IF Changing(p) THEN "storeHash" ELSE "dropRow")
    <3>1. /\ pc[p] = "dropHash" /\ phase' = phase /\ users' = users /\ table' = table
          /\ pc'[p] = IF Changing(p) THEN "storeHash" ELSE "dropRow"
      BY <1>6, <2>2 DEF DropHash, Goto, TypeOK
    <3>2. Started(p)'
      BY <1>0, <2>0, <2>2, <3>1 DEF Started, Storing, HasRow
    <3>3. CASE Changing(p)
      <4>1. ~harmed => /\ users[job[p].user] = job[p].new
                       /\ hashes' = Rows \ {job[p].new}
        BY <1>0, <2>2, <3>1, <3>3 DEF InStep, Replacing
      <4> QED
        BY <2>2, <3>1, <3>2, <3>3, <4>1, RowsSame DEF InStep, Storing, Replacing, Deleting
    <3>4. CASE ~Changing(p)
      <4>1. ~harmed => /\ users[job[p].user] = job[p].old /\ HasRow(job[p].user)
                       /\ hashes' = Rows \ {job[p].old}
        BY <1>0, <2>2, <3>1, <3>4 DEF InStep, Deleting, Replacing, Storing
      <4> QED
        BY <2>2, <3>1, <3>2, <3>4, <4>1, RowsSame
        DEF InStep, Storing, Replacing, Deleting, HasRow
    <3> QED
      BY <3>3, <3>4
  <2> QED
    BY <1>0, <1>6, <2>1, <2>2 DEF DropHash
<1>7. CASE DropRow(p)
  <2>1. /\ pc[p] = "dropRow" /\ users' = [users EXCEPT ![job[p].user] = NoHash]
        /\ UNCHANGED <<hashes, table, harmed>> /\ Return(p, "true")
    BY <1>0, <1>7 DEF DropRow
  <2>2. pc'[p] = "idle" /\ phase'[p] = "menu"
    BY <1>0, <2>1 DEF Return, After, TypeOK, Started, PhaseOK
  <2>3. Started(p)'
    BY <1>0, <2>1, <2>2 DEF Started, Storing
  <2>4. ~harmed => hashes' = Rows'
    <3>1. SUFFICES ASSUME ~harmed PROVE hashes' = Rows'
      OBVIOUS
    <3>2. users[job[p].user] = job[p].old /\ hashes = Rows \ {job[p].old}
      BY <1>0, <2>1, <3>1 DEF InStep, Deleting
    <3>3. Rows' = (Rows \ {users[job[p].user]}) \cup ({NoHash} \ {NoHash})
      BY <2>1, RowsChange DEF TypeOK
    <3> QED
      BY <2>1, <3>2, <3>3
  <2> QED
    BY <2>1, <2>2, <2>3, <2>4 DEF InStep, Storing, Replacing, Deleting
<1>8. CASE LookUpUser(p)
  <2>0. phase[p] \in {"login", "reauth"} /\ (~harmed => hashes = Rows)
    BY <1>0, <1>8 DEF LookUpUser, Started, TypeOK, InStep, Storing, Replacing
  <2>1. CASE Return(p, "false")
    BY <1>0, <1>8, <2>0, <2>1, SoloEnds DEF LookUpUser, Started
  <2>2. CASE /\ HasRow(job[p].user)
             /\ job' = [job EXCEPT ![p].old = users[job[p].user]]
             /\ Goto(p, "retrieve")
    <3>1. /\ pc[p] = "lookup" /\ pc'[p] = "retrieve" /\ phase' = phase
          /\ job'[p].user = job[p].user /\ job'[p].old = users[job[p].user]
          /\ UNCHANGED <<users, hashes, table, harmed>>
      BY <1>8, <2>2 DEF LookUpUser, Goto, TypeOK
    <3>2. Started(p)'
      BY <1>0, <2>0, <3>1 DEF Started, Storing, HasRow
    <3> QED
      BY <2>0, <2>2, <3>1, <3>2, RowsSame
      DEF InStep, Storing, Replacing, Deleting, Changing, HasRow
  <2> QED
    BY <1>8, <2>1, <2>2 DEF LookUpUser
<1>9. CASE RetrieveHash(p)
  <2>0. phase[p] \in {"login", "reauth"} /\ (~harmed => hashes = Rows)
    BY <1>0, <1>9 DEF RetrieveHash, Started, TypeOK, InStep, Storing, Replacing
  <2>1. ASSUME NEW value \in {"true", "false"}, Return(p, value)
        PROVE  Started(p)' /\ (~harmed' => InStep(p)')
    BY <1>0, <1>9, <2>0, <2>1, SoloEnds DEF RetrieveHash, Started
  <2>2. CASE /\ Changing(p) /\ job' = [job EXCEPT ![p] = [NoJob EXCEPT !.user = job[p].user]]
             /\ Goto(p, "reread")
    <3>1. /\ pc'[p] = "reread" /\ phase' = phase /\ phase[p] = "reauth"
          /\ UNCHANGED <<users, hashes, table, harmed>>
      BY <1>9, <2>2 DEF RetrieveHash, Goto, TypeOK, Changing
    <3>2. Started(p)'
      BY <1>0, <3>1 DEF Started, Storing, HasRow
    <3> QED
      BY <2>0, <3>1, <3>2, RowsSame DEF InStep, Storing, Replacing, Deleting, Changing
  <2> QED
    BY <1>9, <2>1, <2>2 DEF RetrieveHash
<1>10. CASE RereadUser(p)
  <2>0. phase[p] = "reauth" /\ (~harmed => hashes = Rows)
    BY <1>0, <1>10 DEF RereadUser, PhaseOK, InStep, Storing, Replacing
  <2>1. CASE Return(p, "false")
    BY <1>0, <1>10, <2>0, <2>1, SoloEnds DEF RereadUser, Started
  <2>2. CASE /\ HasRow(job[p].user) /\ Goto(p, "update")
             /\ \E h \in Fresh : job' = [job EXCEPT ![p].old = users[job[p].user], ![p].new = h]
    <3>1. /\ pc'[p] = "update" /\ phase' = phase
          /\ job'[p].user = job[p].user /\ job'[p].old = users[job[p].user]
          /\ job'[p].new # AdminHash
          /\ UNCHANGED <<users, hashes, table, harmed>>
      <4>1. PICK h \in Fresh : job' = [job EXCEPT ![p].old = users[job[p].user], ![p].new = h]
        BY <2>2
      <4>2. h # AdminHash
        BY DEF Fresh
      <4>3. /\ job'[p].user = job[p].user /\ job'[p].old = users[job[p].user]
            /\ job'[p].new = h
        BY <4>1 DEF TypeOK
      <4> QED
        BY <1>10, <2>2, <4>2, <4>3 DEF RereadUser, Goto, TypeOK
    <3>2. Started(p)'
      BY <1>0, <2>0, <3>1 DEF Started, Storing, HasRow
    <3> QED
      BY <2>0, <2>2, <3>1, <3>2, RowsSame
      DEF InStep, Storing, Replacing, Deleting, Changing, HasRow
  <2> QED
    BY <1>10, <2>1, <2>2 DEF RereadUser
<1>11. CASE UpdateUser(p)
  <2>1. /\ pc[p] = "update" /\ pc'[p] = "dropHash" /\ job' = job /\ phase' = phase
        /\ users' = [users EXCEPT ![job[p].user] = job[p].new]
        /\ UNCHANGED <<hashes, table, harmed>>
        /\ job[p].user \in User /\ job[p].new \in Hash
    BY <1>0, <1>11 DEF UpdateUser, Goto, TypeOK
  <2>2. phase[p] = "reauth" /\ Changing(p) /\ Changing(p)'
    BY <2>1 DEF PhaseOK, Changing
  <2>3. Started(p)'
    BY <1>0, <2>1, <2>2 DEF Started, Storing
  <2>4. SUFFICES ASSUME ~harmed PROVE InStep(p)'
    BY <2>1, <2>3
  <2>5. /\ users[job[p].user] = job[p].old /\ HasRow(job[p].user) /\ hashes = Rows
    BY <1>0, <2>1, <2>4 DEF InStep, Storing, Replacing
  <2>6. \A v \in User : users[v] # job[p].new
    BY <1>0, <2>1 DEF NewIsNew, Unwritten, Started
  <2>7. Rows' = (Rows \ {users[job[p].user]}) \cup ({job[p].new} \ {NoHash})
    BY <2>1, <2>5, <2>6, RowsChange
  <2>8. job[p].new \notin Rows /\ job[p].old \in Rows /\ job[p].new # NoHash
    BY <2>1, <2>5, <2>6, AccountAssumption DEF Rows
  <2>9. /\ users'[job[p].user] = job[p].new /\ job[p].old \notin Rows'
        /\ hashes = (Rows' \ {job[p].new}) \cup {job[p].old}
    BY <2>1, <2>5, <2>7, <2>8 DEF TypeOK
  <2> QED
    BY <2>1, <2>2, <2>9 DEF InStep, Storing, Replacing, Deleting
<1> QED
  BY <1>1, <1>2, <1>3, <1>4, <1>5, <1>6, <1>7, <1>8, <1>9, <1>10, <1>11 DEF Statement

\* Each other step does, too.
LEMMA SoloCall ==
  ASSUME Solo, IInv, SoloInv, NEW p \in Proc,
         \/ InitializeSuperAdmin(p) \/ VerifyPassword(p) \/ RegisterUser(p)
         \/ DeleteUser(p) \/ ChangePassword(p) \/ Restart(p)
  PROVE  Started(p)' /\ (~harmed' => InStep(p)')
<1> USE DEF IInv
<1>0. Started(p) /\ (~harmed => InStep(p))
  BY DEF SoloInv
<1>1. ASSUME NEW label \in {"count", "lookup", "find"}, NEW j, Start(p, label, j),
             phase[p] = "start" => label = "count" /\ j.user = Admin,
             phase[p] = "login" => label = "lookup",
             phase[p] = "menu" => label # "lookup",
             phase[p] = "reauth" => label = "lookup"
      PROVE  Started(p)' /\ (~harmed' => InStep(p)')
  <2>1. /\ pc[p] = "idle" /\ pc'[p] = label /\ phase' = phase /\ job'[p] = j
        /\ UNCHANGED <<users, hashes, table, harmed>>
    BY <1>1 DEF Start, TypeOK
  <2>2. Started(p)'
    BY <1>0, <1>1, <2>1 DEF Started, Storing, HasRow
  <2>3. ~harmed => hashes = Rows
    BY <1>0, <2>1 DEF InStep, Storing, Replacing
  <2> QED
    BY <2>1, <2>2, <2>3, RowsSame DEF InStep, Storing, Replacing, Deleting
<1>2. CASE InitializeSuperAdmin(p)
  <2>1. [NoJob EXCEPT !.user = Admin, !.new = AdminHash].user = Admin
    BY DEF NoJob
  <2> QED
    BY <1>1, <1>2, <2>1 DEF InitializeSuperAdmin
<1>3. CASE VerifyPassword(p)
  BY <1>1, <1>3 DEF VerifyPassword
<1>4. CASE RegisterUser(p)
  BY <1>1, <1>4 DEF RegisterUser
<1>5. CASE DeleteUser(p)
  BY <1>1, <1>5 DEF DeleteUser
<1>6. CASE ChangePassword(p)
  <2>1. /\ pc[p] = "idle" /\ pc' = pc /\ phase'[p] = "reauth"
        /\ UNCHANGED <<users, hashes, table, harmed>>
    BY <1>6 DEF ChangePassword, TypeOK
  <2>2. Started(p)'
    BY <1>0, <2>1 DEF Started, Storing, HasRow
  <2>3. ~harmed => hashes = Rows
    BY <1>0, <2>1 DEF InStep, Storing, Replacing
  <2> QED
    BY <2>1, <2>2, <2>3, RowsSame DEF InStep, Storing, Replacing, Deleting
<1>7. CASE Restart(p)
  <2>1. /\ pc'[p] = "idle" /\ phase'[p] = "start" /\ UNCHANGED <<users, hashes>>
        /\ (table => table') /\ harmed' = (harmed \/ HalfDone(p))
    BY <1>7 DEF Restart, TypeOK
  <2>2. Started(p)'
    BY <1>0, <2>1 DEF Started, Storing
  <2>3. ~harmed' => hashes = Rows
    <3>1. SUFFICES ASSUME ~harmed' PROVE hashes = Rows
      OBVIOUS
    <3>2. InStep(p) /\ ~HalfDone(p)
      BY <1>0, <2>1, <3>1
    <3>3. ~Replacing(p) /\ pc[p] # "dropRow" /\ (Storing(p) => job[p].new \in hashes)
      BY <3>2 DEF HalfDone, Replacing, Storing, InStep
    <3> QED
      BY <3>2, <3>3 DEF InStep
  <2> QED
    BY <2>1, <2>2, <2>3, RowsSame DEF InStep, Storing, Replacing, Deleting
<1> QED
  BY <1>2, <1>3, <1>4, <1>5, <1>6, <1>7

LEMMA SoloStep ==
  ASSUME Solo
  PROVE  IInv /\ SoloInv /\ [Next]_vars => SoloInv'
<1> SUFFICES ASSUME IInv, SoloInv, [Next]_vars PROVE SoloInv'
  OBVIOUS
<1>1. CASE UNCHANGED vars
  BY <1>1 DEF vars, SoloInv, Started, InStep, Storing, Replacing, Deleting, Changing, Rows, HasRow
<1>2. CASE Next
  <2>1. PICK p \in Proc : Started(p)' /\ (~harmed' => InStep(p)')
    BY <1>2, SoloStatement, SoloCall DEF Next
  <2>2. \A q \in Proc : q = p
    BY DEF Solo
  <2> QED
    BY <2>1, <2>2 DEF SoloInv
<1> QED
  BY <1>1, <1>2

LEMMA SoloInvariant == Solo => (Spec => []SoloInv)
<1> SUFFICES ASSUME Solo PROVE Spec => []SoloInv
  OBVIOUS
<1>1. Init => SoloInv
  <2> SUFFICES ASSUME Init, NEW p \in Proc PROVE Started(p) /\ InStep(p)
    BY DEF SoloInv
  <2>1. /\ pc[p] = "idle" /\ phase[p] = "start" /\ hashes = {}
        /\ \A u \in User : users[u] = NoHash
    BY DEF Init
  <2>2. Rows = {}
    BY <2>1 DEF Rows, HasRow
  <2> QED
    BY <2>1, <2>2 DEF Started, InStep, Storing, Replacing, Deleting
<1>2. IInv /\ SoloInv /\ [Next]_vars => SoloInv'
  BY SoloStep
<1> QED
  BY <1>1, <1>2, Inductive, PTL DEF Spec

\* One program whose statements succeed keeps the tables together, dying where
\* it may: between its calls the table Hashes has the hashes of the rows, no
\* more and no fewer, unless a death came between the two files (storeUser,
\* deleteUserByUsername, changeUserPassword).
THEOREM TablesAgree == Solo /\ Proc # {} => (Spec => []HashesMatchRows)
<1> SUFFICES ASSUME Solo, Proc # {} PROVE Spec => []HashesMatchRows
  OBVIOUS
<1>1. SoloInv => HashesMatchRows
  BY DEF SoloInv, HashesMatchRows, Idle, InStep, Storing, Replacing, Rows
<1> QED
  BY <1>1, SoloInvariant, PTL

\* One program that waits at the login has a super admin who can pass it
\* (initializeSuperAdmin comes before every login, main.cpp:494-498).
THEOREM LoginStaysPossible == Solo => (Spec => []LoginPossible)
<1> SUFFICES ASSUME Solo PROVE Spec => []LoginPossible
  OBVIOUS
<1>1. SoloInv => LoginPossible
  <2> SUFFICES ASSUME SoloInv, NEW p \in Proc, phase[p] = "login", pc[p] = "idle", ~harmed
               PROVE  HasRow(Admin) /\ users[Admin] \in hashes
    BY DEF LoginPossible
  <2>1. HasRow(Admin) /\ hashes = Rows
    BY DEF SoloInv, Started, InStep, Storing, Replacing
  <2> QED
    BY <2>1, AccountAssumption DEF Rows
<1> QED
  BY <1>1, SoloInvariant, PTL

\* A verification by one program accepts the password of the row as it is and
\* no other: the row it read is still there, and its hash is in the store
\* (verifyPassword, main.cpp:118-134).
THEOREM PresentPasswordVerifies == Solo => (Spec => VerifiesPresentPassword)
<1> SUFFICES ASSUME Solo PROVE Spec => VerifiesPresentPassword
  OBVIOUS
<1> DEFINE Verifies ==
      \A p \in Proc :
        pc[p] = "retrieve" /\ pc'[p] # "retrieve" /\ phase'[p] # "start" /\ ~harmed
          => ((pc'[p] = "reread" \/ result'[p] = "true")
                <=> PasswordOf[users[job[p].user]] = job[p].password)
<1>1. IInv /\ SoloInv /\ [Next]_vars => [Verifies]_vars
  <2> SUFFICES ASSUME IInv, SoloInv, Next, NEW p \in Proc,
                      pc[p] = "retrieve", pc'[p] # "retrieve", phase'[p] # "start", ~harmed
               PROVE  (pc'[p] = "reread" \/ result'[p] = "true")
                        <=> PasswordOf[users[job[p].user]] = job[p].password
    OBVIOUS
  <2> USE DEF IInv
  <2>1. RetrieveHash(p)
    <3>1. \/ InitializeSuperAdmin(p) \/ VerifyPassword(p) \/ RegisterUser(p)
          \/ DeleteUser(p) \/ ChangePassword(p) \/ Statement(p) \/ Restart(p)
      BY DEF Next, Solo
    <3>2. ~Restart(p)
      BY DEF Restart, TypeOK
    <3> QED
      BY <3>1, <3>2 DEF Statement, InitializeSuperAdmin, VerifyPassword, RegisterUser,
         DeleteUser, ChangePassword, Start, CountUser, InsertUser, OpenHashes, InsertHash,
         FindUser, DropHash, DropRow, LookUpUser, RereadUser, UpdateUser
  <2>2. /\ users[job[p].user] = job[p].old /\ HasRow(job[p].user) /\ hashes = Rows
        /\ job[p].user \in User
    BY DEF SoloInv, InStep, Storing, Replacing, TypeOK
  <2>3. job[p].old \in hashes
    BY <2>2 DEF Rows
  <2>4. table
    BY <2>3 DEF SoloInv, Started
  <2>5. CompareHashes(p) <=> PasswordOf[users[job[p].user]] = job[p].password
    BY <2>2, <2>3, <2>4 DEF CompareHashes
  <2>6. CASE Return(p, "false") /\ ~CompareHashes(p)
    BY <2>5, <2>6 DEF Return, TypeOK
  <2>7. CASE CompareHashes(p) /\ Return(p, "true")
    BY <2>5, <2>7 DEF Return, TypeOK
  <2>8. CASE CompareHashes(p) /\ Goto(p, "reread")
    BY <2>5, <2>8 DEF Goto, TypeOK
  <2> QED
    BY <2>1, <2>6, <2>7, <2>8 DEF RetrieveHash, Solo
<1> QED
  BY <1>1, Inductive, SoloInvariant, PTL DEF Spec, VerifiesPresentPassword

-----------------------------------------------------------------------------
(***************************************************************************)
(* One program is the store of Accounts.                                   *)
(***************************************************************************)
\* What a call holds of its request.
Requested(p) ==
  /\ pc[p] = "idle" => job[p] = NoJob
  /\ pc[p] \in {"lookup", "retrieve"} => job[p].password \in Password
  /\ ~harmed /\ pc[p] = "reread" => HasRow(job[p].user)

Kept == \A p \in Proc : Requested(p)

LEMMA RequestedStatement ==
  ASSUME Solo, IInv, SoloInv, NEW p \in Proc, Requested(p), Statement(p)
  PROVE  Requested(p)'
<1> USE DEF IInv
<1>1. ASSUME NEW value, Return(p, value)
      PROVE  pc'[p] = "idle" /\ job'[p] = NoJob
  BY <1>1 DEF Return, TypeOK
<1>2. CASE pc'[p] = "idle" /\ job'[p] = NoJob
  BY <1>2 DEF Requested
<1>3. CASE pc'[p] \in {"insert", "storeHash", "insertHash", "dropHash", "dropRow", "update"}
  BY <1>3 DEF Requested
<1>4. CASE LookUpUser(p)
  <2>1. CASE /\ job' = [job EXCEPT ![p].old = users[job[p].user]] /\ Goto(p, "retrieve")
    <3>1. pc[p] = "lookup" /\ pc'[p] = "retrieve" /\ job'[p].password = job[p].password
      BY <1>4, <2>1 DEF LookUpUser, Goto, TypeOK
    <3> QED
      BY <3>1 DEF Requested
  <2> QED
    BY <1>1, <1>2, <1>4, <2>1 DEF LookUpUser
<1>5. CASE RetrieveHash(p)
  <2>1. CASE /\ job' = [job EXCEPT ![p] = [NoJob EXCEPT !.user = job[p].user]] /\ Goto(p, "reread")
    <3>1. /\ pc[p] = "retrieve" /\ pc'[p] = "reread" /\ job'[p].user = job[p].user
          /\ users' = users /\ harmed' = harmed
      BY <1>5, <2>1 DEF RetrieveHash, Goto, TypeOK, NoJob
    <3>2. ~harmed => HasRow(job[p].user)
      BY <3>1 DEF SoloInv, InStep
    <3> QED
      BY <3>1, <3>2 DEF Requested, HasRow
  <2> QED
    BY <1>1, <1>2, <1>5, <2>1 DEF RetrieveHash
<1>6. CASE CountUser(p) \/ InsertUser(p) \/ OpenHashes(p) \/ InsertHash(p)
  <2>1. \/ \E value : Return(p, value)
        \/ \E label \in {"insert", "storeHash", "insertHash"} : Goto(p, label)
    BY <1>6 DEF CountUser, InsertUser, OpenHashes, InsertHash
  <2> QED
    BY <1>1, <1>2, <1>3, <2>1 DEF Goto, TypeOK
<1>7. CASE FindUser(p) \/ DropHash(p) \/ DropRow(p) \/ RereadUser(p) \/ UpdateUser(p)
  <2>1. \/ \E value : Return(p, value)
        \/ \E label \in {"storeHash", "dropHash", "dropRow", "update"} : Goto(p, label)
    BY <1>7 DEF FindUser, DropHash, DropRow, RereadUser, UpdateUser
  <2> QED
    BY <1>1, <1>2, <1>3, <2>1 DEF Goto, TypeOK
<1> QED
  BY <1>4, <1>5, <1>6, <1>7 DEF Statement

LEMMA RequestedCall ==
  ASSUME IInv, NEW p \in Proc, Requested(p),
         \/ InitializeSuperAdmin(p) \/ VerifyPassword(p) \/ RegisterUser(p)
         \/ DeleteUser(p) \/ ChangePassword(p) \/ Restart(p)
  PROVE  Requested(p)'
<1> USE DEF IInv
<1>1. ASSUME NEW label \in {"count", "find"}, NEW j, Start(p, label, j)
      PROVE  Requested(p)'
  BY <1>1 DEF Start, Requested, TypeOK
<1>2. CASE VerifyPassword(p)
  <2>1. ASSUME NEW u \in User, NEW w \in Password,
               Start(p, "lookup", [NoJob EXCEPT !.user = u, !.password = w])
        PROVE  Requested(p)'
    <3>1. pc'[p] = "lookup" /\ job'[p].password = w
      BY <2>1 DEF Start, TypeOK, NoJob
    <3> QED
      BY <3>1 DEF Requested
  <2> QED
    BY <1>2, <2>1 DEF VerifyPassword
<1>3. CASE ChangePassword(p)
  BY <1>3 DEF ChangePassword, Requested
<1>4. CASE Restart(p)
  <2>1. pc'[p] = "idle" /\ job'[p] = NoJob
    BY <1>4 DEF Restart, TypeOK
  <2> QED
    BY <2>1 DEF Requested
<1>5. CASE InitializeSuperAdmin(p)
  BY <1>1, <1>5 DEF InitializeSuperAdmin
<1>6. CASE RegisterUser(p)
  BY <1>1, <1>6 DEF RegisterUser
<1>7. CASE DeleteUser(p)
  BY <1>1, <1>7 DEF DeleteUser
<1> QED
  BY <1>2, <1>3, <1>4, <1>5, <1>6, <1>7

LEMMA KeptInvariant == Solo => (Spec => [](IInv /\ SoloInv /\ Kept))
<1> SUFFICES ASSUME Solo PROVE Spec => [](IInv /\ SoloInv /\ Kept)
  OBVIOUS
<1>1. Init => Kept
  <2> SUFFICES ASSUME Init, NEW p \in Proc PROVE Requested(p)
    BY DEF Kept
  <2>1. pc[p] = "idle" /\ job[p] = NoJob
    BY DEF Init
  <2> QED
    BY <2>1 DEF Requested
<1>2. IInv /\ SoloInv /\ Kept /\ [Next]_vars => Kept'
  <2> SUFFICES ASSUME IInv, SoloInv, Kept, [Next]_vars PROVE Kept'
    OBVIOUS
  <2>1. CASE UNCHANGED vars
    BY <2>1 DEF vars, Kept, Requested, HasRow
  <2>2. CASE Next
    <3>1. PICK p \in Proc : Requested(p)'
      BY <2>2, RequestedStatement, RequestedCall DEF Next, Kept
    <3> QED
      BY <3>1 DEF Kept, Solo
  <2> QED
    BY <2>1, <2>2
<1> QED
  BY <1>1, <1>2, Inductive, SoloInvariant, PTL DEF Spec

-----------------------------------------------------------------------------
(***************************************************************************)
(* The abstract store as one sees it in the state of the only program p.   *)
(***************************************************************************)
AccountsOf(p) == [u \in User |-> PasswordsOf(RowOf(p, u))]

CallOf(p) == [op |-> OpOf(p), user |-> job[p].user, password |-> PasswordGiven(p)]

AnswerOf(p) == IF Renewing(p) THEN "true" ELSE result[p]

InOf(p) == phase[p] \in {"menu", "reauth"}

LEMMA OnlyProgram ==
  ASSUME Solo, NEW p \in Proc
  PROVE  Program = p
<1>1. Program \in Proc
  BY DEF Program
<1> QED
  BY <1>1 DEF Solo

LEMMA StoreRead ==
  ASSUME Solo, NEW p \in Proc, ~harmed
  PROVE  /\ StoreAccount = AccountsOf(p) /\ StoreCall = CallOf(p)
         /\ StoreAnswer = AnswerOf(p) /\ StoreIn = InOf(p)
BY OnlyProgram DEF StoreAccount, StoreCall, StoreAnswer, StoreIn, AccountsOf, CallOf, AnswerOf, InOf

LEMMA StoreReadNext ==
  ASSUME Solo, NEW p \in Proc, ~harmed'
  PROVE  /\ StoreAccount' = AccountsOf(p)' /\ StoreCall' = CallOf(p)'
         /\ StoreAnswer' = AnswerOf(p)' /\ StoreIn' = InOf(p)'
BY OnlyProgram DEF StoreAccount, StoreCall, StoreAnswer, StoreIn, AccountsOf, CallOf, AnswerOf, InOf

\* After harm there is nothing to see.
LEMMA StoreHarmed ==
  ASSUME harmed
  PROVE  /\ StoreAccount = Store!Nobody /\ StoreCall = Store!NoCall
         /\ StoreAnswer = "none" /\ StoreIn = FALSE
BY DEF StoreAccount, StoreCall, StoreAnswer, StoreIn, Store!Nobody, Store!NoCall

LEMMA StoreHarmedNext ==
  ASSUME harmed'
  PROVE  /\ StoreAccount' = Store!Nobody /\ StoreCall' = Store!NoCall
         /\ StoreAnswer' = "none" /\ StoreIn' = FALSE
BY DEF StoreAccount, StoreCall, StoreAnswer, StoreIn, Store!Nobody, Store!NoCall

StoreStutters == UNCHANGED <<StoreAccount, StoreCall, StoreAnswer, StoreIn, harmed>>

\* A statement in the middle of a call.
LEMMA MiddleOfCall ==
  ASSUME Solo, NEW p \in Proc, ~harmed, harmed' = harmed,
         InOf(p)' = InOf(p), result' = result, job'[p].user = job[p].user,
         OpOf(p)' = OpOf(p), PasswordGiven(p)' = PasswordGiven(p), Renewing(p)' = Renewing(p),
         \A u \in User : RowOf(p, u)' = RowOf(p, u)
  PROVE  StoreStutters
<1>1. AccountsOf(p)' = AccountsOf(p)
  BY DEF AccountsOf, PasswordsOf
<1>2. CallOf(p)' = CallOf(p) /\ AnswerOf(p)' = AnswerOf(p)
  BY DEF CallOf, AnswerOf
<1> QED
  BY <1>1, <1>2, StoreRead, StoreReadNext DEF StoreStutters

\* The return of a call.
LEMMA Returned ==
  ASSUME Solo, IInv, NEW p \in Proc, ~harmed', NEW value \in {"true", "false"}, Return(p, value)
  PROVE  /\ StoreAccount' = [u \in User |-> PasswordsOf(users'[u])]
         /\ StoreCall' = Store!NoCall /\ StoreAnswer' = value
         /\ StoreIn' = (After(p, value) \in {"menu", "reauth"})
<1>1. /\ pc'[p] = "idle" /\ job'[p] = NoJob /\ result'[p] = value /\ phase'[p] = After(p, value)
  BY DEF Return, IInv, TypeOK
<1>2. \A u \in User : RowOf(p, u)' = users'[u]
  BY <1>1 DEF RowOf, AtWork
<1>3. AccountsOf(p)' = [u \in User |-> PasswordsOf(users'[u])]
  BY <1>2 DEF AccountsOf, PasswordsOf
<1>4. CallOf(p)' = Store!NoCall
  BY <1>1 DEF CallOf, OpOf, PasswordGiven, Store!NoCall, NoJob
<1>5. AnswerOf(p)' = value /\ InOf(p)' = (After(p, value) \in {"menu", "reauth"})
  BY <1>1 DEF AnswerOf, Renewing, InOf
<1> QED
  BY <1>3, <1>4, <1>5, StoreReadNext

\* What there is of an account whose row no call is at work on.
LEMMA AccountRead ==
  ASSUME Solo, IInv, NEW p \in Proc, ~harmed
  PROVE  /\ DOMAIN StoreAccount = User
         /\ \A u \in User :
              /\ StoreAccount[u] = PasswordsOf(RowOf(p, u))
              /\ ~AtWork(p, u) => StoreAccount[u] = PasswordsOf(users[u])
BY StoreRead DEF AccountsOf, RowOf

LEMMA PasswordsRead ==
  ASSUME NEW h \in Hash \cup {NoHash}
  PROVE  /\ h = NoHash <=> PasswordsOf(h) = {}
         /\ h # NoHash => PasswordsOf(h) = {PasswordOf[h]}
BY DEF PasswordsOf

LEMMA AccountsWhole ==
  ASSUME Solo, NEW p \in Proc, ~harmed, pc[p] \notin {"dropHash", "storeHash", "insertHash"}
  PROVE  StoreAccount = [u \in User |-> PasswordsOf(users[u])]
<1>1. AccountsOf(p) = [u \in User |-> PasswordsOf(users[u])]
  BY DEF AccountsOf, RowOf, AtWork
<1> QED
  BY <1>1, StoreRead

\* The account a call is at work on, and the others.
LEMMA AccountsButOne ==
  ASSUME Solo, NEW p \in Proc, ~harmed, NEW v \in User, NEW S,
         \A u \in User : u # v => RowOf(p, u) = users'[u], PasswordsOf(users'[v]) = S
  PROVE  [u \in User |-> PasswordsOf(users'[u])] = [StoreAccount EXCEPT ![v] = S]
<1>1. StoreAccount = [u \in User |-> PasswordsOf(RowOf(p, u))]
  BY StoreRead DEF AccountsOf
<1>2. \A u \in User : u # v => PasswordsOf(RowOf(p, u)) = PasswordsOf(users'[u])
  OBVIOUS
<1> QED
  BY <1>1, <1>2

-----------------------------------------------------------------------------
(***************************************************************************)
(* The requests.                                                           *)
(***************************************************************************)
LEMMA RequestMade ==
  ASSUME Solo, IInv, Kept, NEW p \in Proc, ~harmed, NEW label \in {"count", "lookup", "find"},
         NEW j, Start(p, label, j), label # "lookup" => phase[p] # "reauth"
  PROVE  /\ StoreCall = Store!NoCall
         /\ UNCHANGED <<StoreAccount, StoreAnswer, StoreIn, harmed>>
         /\ label = "lookup" =>
              StoreCall' = [op |-> "verify", user |-> j.user, password |-> j.password]
         /\ label = "count" =>
              StoreCall' = [op |-> "store", user |-> j.user, password |-> PasswordOf[j.new]]
         /\ label = "find" =>
              StoreCall' = [op |-> "delete", user |-> j.user, password |-> NoHash]
<1>1. /\ pc[p] = "idle" /\ pc'[p] = label /\ job'[p] = j /\ job[p] = NoJob
      /\ UNCHANGED <<users, phase, result, harmed>>
  BY DEF Start, IInv, TypeOK, Kept, Requested
<1>2. CallOf(p) = Store!NoCall
  BY <1>1 DEF CallOf, OpOf, PasswordGiven, NoJob, Store!NoCall
<1>3. AccountsOf(p)' = AccountsOf(p)
  <2>1. \A u \in User : RowOf(p, u)' = RowOf(p, u)
    BY <1>1 DEF RowOf, AtWork
  <2> QED
    BY <2>1 DEF AccountsOf, PasswordsOf
<1>4. AnswerOf(p)' = AnswerOf(p) /\ InOf(p)' = InOf(p)
  BY <1>1 DEF AnswerOf, InOf, Renewing, Changing
<1>5. ~harmed'
  BY <1>1
<1>6. CASE label = "lookup"
  <2>1. CallOf(p)' = [op |-> "verify", user |-> j.user, password |-> j.password]
    BY <1>1, <1>6 DEF CallOf, OpOf, PasswordGiven
  <2> QED
    BY <1>1, <1>2, <1>3, <1>4, <1>5, <1>6, <2>1, StoreRead, StoreReadNext
<1>7. CASE label = "count"
  <2>1. CallOf(p)' = [op |-> "store", user |-> j.user, password |-> PasswordOf[j.new]]
    BY <1>1, <1>7 DEF CallOf, OpOf, PasswordGiven, Changing
  <2> QED
    BY <1>1, <1>2, <1>3, <1>4, <1>5, <1>7, <2>1, StoreRead, StoreReadNext
<1>8. CASE label = "find"
  <2>1. CallOf(p)' = [op |-> "delete", user |-> j.user, password |-> NoHash]
    BY <1>1, <1>8 DEF CallOf, OpOf, PasswordGiven, Changing
  <2> QED
    BY <1>1, <1>2, <1>3, <1>4, <1>5, <1>8, <2>1, StoreRead, StoreReadNext
<1> QED
  BY <1>6, <1>7, <1>8

LEMMA RequestIsMade ==
  ASSUME Solo, IInv, Kept, NEW p \in Proc, ~harmed,
         InitializeSuperAdmin(p) \/ VerifyPassword(p) \/ RegisterUser(p) \/ DeleteUser(p)
  PROVE  Store!Request
<1>1. CASE InitializeSuperAdmin(p)
  <2> DEFINE j == [NoJob EXCEPT !.user = Admin, !.new = AdminHash]
  <2>1. Start(p, "count", j) /\ phase[p] # "reauth"
    BY <1>1 DEF InitializeSuperAdmin
  <2>2. j.user = Admin /\ j.new = AdminHash
    BY DEF NoJob
  <2> HIDE DEF j
  <2>3. Store!Call("store", Admin, PasswordOf[AdminHash])
    BY <2>1, <2>2, RequestMade DEF Store!Call
  <2> QED
    BY <2>3 DEF Store!Request
<1>2. CASE VerifyPassword(p)
  <2>1. ASSUME NEW u \in User, NEW w \in Password,
               Start(p, "lookup", [NoJob EXCEPT !.user = u, !.password = w])
        PROVE  Store!Request
    <3> DEFINE j == [NoJob EXCEPT !.user = u, !.password = w]
    <3>1. Start(p, "lookup", j) /\ j.user = u /\ j.password = w
      BY <2>1 DEF NoJob
    <3> HIDE DEF j
    <3>2. Store!Call("verify", u, w)
      BY <3>1, RequestMade DEF Store!Call
    <3> QED
      BY <3>2 DEF Store!Request
  <2> QED
    BY <1>2, <2>1 DEF VerifyPassword
<1>3. CASE RegisterUser(p)
  <2>1. ASSUME NEW u \in User, NEW h \in Fresh,
               Start(p, "count", [NoJob EXCEPT !.user = u, !.new = h])
        PROVE  Store!Request
    <3> DEFINE j == [NoJob EXCEPT !.user = u, !.new = h]
    <3>1. Start(p, "count", j) /\ j.user = u /\ j.new = h /\ phase[p] = "menu"
      BY <1>3, <2>1 DEF NoJob, RegisterUser
    <3> HIDE DEF j
    <3>2. PasswordOf[h] \in Password
      BY AccountAssumption DEF Fresh
    <3>3. StoreIn
      BY <3>1, StoreRead DEF InOf
    <3>4. Store!Call("store", u, PasswordOf[h])
      BY <3>1, RequestMade DEF Store!Call
    <3> QED
      BY <3>2, <3>3, <3>4 DEF Store!Request
  <2> QED
    BY <1>3, <2>1 DEF RegisterUser
<1>4. CASE DeleteUser(p)
  <2>1. ASSUME NEW u \in User, Start(p, "find", [NoJob EXCEPT !.user = u])
        PROVE  Store!Request
    <3> DEFINE j == [NoJob EXCEPT !.user = u]
    <3>1. Start(p, "find", j) /\ j.user = u /\ phase[p] = "menu"
      BY <1>4, <2>1 DEF NoJob, DeleteUser
    <3> HIDE DEF j
    <3>2. StoreIn
      BY <3>1, StoreRead DEF InOf
    <3>3. Store!Call("delete", u, NoHash)
      BY <3>1, RequestMade DEF Store!Call
    <3> QED
      BY <3>2, <3>3 DEF Store!Request
  <2> QED
    BY <1>4, <2>1 DEF DeleteUser
<1> QED
  BY <1>1, <1>2, <1>3, <1>4

-----------------------------------------------------------------------------
(***************************************************************************)
(* The answers.                                                            *)
(***************************************************************************)
Doing(p) == Store!Next \/ StoreStutters

LEMMA StoringAnswers ==
  ASSUME Solo, IInv, SoloInv, Kept, NEW p \in Proc, ~harmed, ~harmed',
         CountUser(p) \/ InsertUser(p) \/ OpenHashes(p) \/ InsertHash(p)
  PROVE  Doing(p)
<1> DEFINE u == job[p].user
<1>0. /\ ~MayFail /\ ~UsersLocked(p) /\ ~HashesLocked(p)
      /\ Started(p) /\ InStep(p) /\ harmed' = harmed /\ StoreCall = CallOf(p)
      /\ u \in User /\ job[p].new \in Hash /\ job[p].new # NoHash
      /\ PasswordOf[job[p].new] \in Password
  BY NoLock, StoreRead, AccountAssumption
  DEF Solo, SoloInv, IInv, TypeOK, CountUser, InsertUser, OpenHashes, InsertHash
<1>1. ASSUME pc[p] = "count", HasRow(u), Return(p, "false"), users' = users
      PROVE  Store!Store
  <2>1. ~Changing(p) /\ OpOf(p) = "store" /\ phase[p] # "login"
    BY <1>0, <1>1 DEF Started, OpOf, Changing
  <2>2. StoreAccount = [v \in User |-> PasswordsOf(users[v])]
    BY <1>1, AccountsWhole
  <2>3. StoreAccount[u] # {} /\ StoreAccount' = StoreAccount
    BY <1>0, <1>1, <2>2, PasswordsRead, Returned DEF IInv, TypeOK, HasRow
  <2>4. StoreIn' = StoreIn
    BY <1>1, <2>1, StoreRead, Returned DEF InOf, After, IInv, TypeOK, Changing
  <2>5. StoreCall' = Store!NoCall /\ StoreAnswer' = "false"
    BY <1>1, Returned
  <2> QED
    BY <1>0, <2>1, <2>3, <2>4, <2>5 DEF Store!Store, Store!Answer, CallOf
<1>2. CASE CountUser(p)
  <2>1. CASE Goto(p, "insert") /\ UNCHANGED job
    <3>1. /\ pc[p] = "count" /\ pc'[p] = "insert" /\ job' = job
          /\ UNCHANGED <<users, phase, result>>
      BY <1>2, <2>1 DEF CountUser, Goto, IInv, TypeOK
    <3>2. /\ OpOf(p)' = OpOf(p) /\ PasswordGiven(p)' = PasswordGiven(p)
          /\ Renewing(p)' = Renewing(p) /\ InOf(p)' = InOf(p)
          /\ \A v \in User : RowOf(p, v)' = RowOf(p, v)
      BY <3>1 DEF OpOf, PasswordGiven, Renewing, InOf, RowOf, AtWork, Changing
    <3> QED
      BY <1>0, <3>1, <3>2, MiddleOfCall DEF Doing
  <2> QED
    BY <1>0, <1>1, <1>2, <2>1 DEF CountUser, Doing, Store!Next
<1>3. CASE InsertUser(p)
  <2>1. /\ pc[p] = "insert" /\ pc'[p] = "storeHash" /\ job' = job
        /\ UNCHANGED <<phase, result>>
        /\ \A v \in User : v # u => users'[v] = users[v]
        /\ users[u] = NoHash /\ ~Changing(p)
    BY <1>0, <1>3 DEF InsertUser, Goto, IInv, TypeOK, AsRead, HasRow, Started, Changing
  <2>2. /\ OpOf(p)' = OpOf(p) /\ PasswordGiven(p)' = PasswordGiven(p)
        /\ Renewing(p)' = Renewing(p) /\ InOf(p)' = InOf(p)
        /\ \A v \in User : RowOf(p, v)' = RowOf(p, v)
    BY <2>1 DEF OpOf, PasswordGiven, Renewing, InOf, RowOf, AtWork, Changing
  <2> QED
    BY <1>0, <2>1, <2>2, MiddleOfCall DEF Doing
<1>4. CASE OpenHashes(p)
  <2>1. /\ pc[p] = "storeHash" /\ pc'[p] = "insertHash" /\ job' = job
        /\ UNCHANGED <<users, phase, result>>
    BY <1>0, <1>4 DEF OpenHashes, Goto, IInv, TypeOK, InStep, Storing
  <2>2. /\ OpOf(p)' = OpOf(p) /\ PasswordGiven(p)' = PasswordGiven(p)
        /\ Renewing(p)' = Renewing(p) /\ InOf(p)' = InOf(p)
        /\ \A v \in User : RowOf(p, v)' = RowOf(p, v)
    BY <2>1 DEF OpOf, PasswordGiven, Renewing, InOf, RowOf, AtWork, Changing
  <2> QED
    BY <1>0, <2>1, <2>2, MiddleOfCall DEF Doing
<1>5. CASE InsertHash(p)
  <2>1. /\ pc[p] = "insertHash" /\ users' = users /\ users[u] = job[p].new /\ Return(p, "true")
    BY <1>0, <1>5 DEF InsertHash, InStep, Storing
  <2> DEFINE S == {PasswordOf[job[p].new]}
  <2>2. PasswordsOf(users'[u]) = S
    BY <1>0, <2>1, PasswordsRead
  <2>3. \A v \in User : v # u => RowOf(p, v) = users'[v]
    BY <2>1 DEF RowOf, AtWork
  <2>a. [v \in User |-> PasswordsOf(users'[v])] = [StoreAccount EXCEPT ![u] = S]
    <3> HIDE DEF u, S
    <3> QED
      BY <1>0, <2>2, <2>3, AccountsButOne
  <2>4. StoreAccount' = [StoreAccount EXCEPT ![u] = {PasswordOf[job[p].new]}]
    BY <1>0, <2>1, <2>a, Returned
  <2>5. StoreCall' = Store!NoCall /\ StoreAnswer' = "true"
    BY <2>1, Returned
  <2>6. phase[p] # "login"
    BY <1>0, <2>1 DEF Started
  <2>7. StoreIn' = StoreIn
    BY <2>1, <2>6, StoreRead, Returned DEF InOf, After, IInv, TypeOK
  <2>8. CASE Changing(p)
    <3>1. StoreCall.op = "change" /\ StoreCall.password = PasswordOf[job[p].new] /\ StoreCall.user = u
      BY <1>0, <2>1, <2>8 DEF CallOf, OpOf, PasswordGiven
    <3>2. Store!Change
      BY <1>0, <2>4, <2>5, <2>7, <3>1 DEF Store!Change, Store!Answer
    <3> QED
      BY <3>2 DEF Doing, Store!Next
  <2>9. CASE ~Changing(p)
    <3>1. StoreCall.op = "store" /\ StoreCall.password = PasswordOf[job[p].new] /\ StoreCall.user = u
      BY <1>0, <2>1, <2>9 DEF CallOf, OpOf, PasswordGiven
    <3>2. RowOf(p, u) = NoHash
      BY <2>1, <2>9 DEF RowOf, AtWork
    <3>3. StoreAccount[u] = {}
      BY <1>0, <3>2, AccountRead, PasswordsRead
    <3>4. Store!Store
      BY <1>0, <2>4, <2>5, <2>7, <3>1, <3>3 DEF Store!Store, Store!Answer
    <3> QED
      BY <3>4 DEF Doing, Store!Next
  <2> QED
    BY <2>8, <2>9
<1> QED
  BY <1>2, <1>3, <1>4, <1>5

LEMMA DeletingAnswers ==
  ASSUME Solo, IInv, SoloInv, Kept, NEW p \in Proc, ~harmed, ~harmed',
         FindUser(p) \/ DropHash(p) \/ DropRow(p)
  PROVE  Doing(p)
<1> DEFINE u == job[p].user
<1>0. /\ ~MayFail /\ ~UsersLocked(p) /\ ~HashesLocked(p)
      /\ Started(p) /\ InStep(p) /\ harmed' = harmed /\ StoreCall = CallOf(p)
      /\ u \in User
  BY NoLock, StoreRead DEF Solo, SoloInv, IInv, TypeOK, FindUser, DropHash, DropRow
<1>1. CASE FindUser(p)
  <2>1. ~Changing(p) /\ pc[p] = "find" /\ phase[p] = "menu"
    BY <1>0, <1>1 DEF FindUser, Changing, Started, IInv, TypeOK, PhaseOK
  <2>2. OpOf(p) = "delete"
    BY <2>1 DEF OpOf
  <2>3. CASE ~HasRow(u) /\ Return(p, "false")
    <3>1. StoreAccount = [v \in User |-> PasswordsOf(users[v])]
      BY <2>1, AccountsWhole
    <3>2. StoreAccount[u] = {} /\ StoreAccount' = StoreAccount
      BY <1>0, <1>1, <2>3, <3>1, PasswordsRead, Returned DEF FindUser, IInv, TypeOK, HasRow
    <3>3. StoreIn' = StoreIn /\ StoreCall' = Store!NoCall /\ StoreAnswer' = "false"
      BY <2>1, <2>3, StoreRead, Returned DEF InOf, After
    <3>4. StoreAccount' = [StoreAccount EXCEPT ![u] = {}]
      BY <3>1, <3>2
    <3> QED
      BY <1>0, <2>2, <3>2, <3>3, <3>4
      DEF Store!Delete, Store!Answer, CallOf, Doing, Store!Next
  <2>4. CASE HasRow(u) /\ job' = [job EXCEPT ![p].old = users[u]] /\ Goto(p, "dropHash")
    <3>1. /\ pc'[p] = "dropHash" /\ job'[p].user = u /\ job'[p].old = users[u]
          /\ job'[p].new = job[p].new /\ UNCHANGED <<users, phase, result>>
      BY <1>1, <2>4 DEF FindUser, Goto, IInv, TypeOK
    <3>2. /\ OpOf(p)' = OpOf(p) /\ PasswordGiven(p)' = PasswordGiven(p)
          /\ Renewing(p)' = Renewing(p) /\ InOf(p)' = InOf(p)
          /\ \A v \in User : RowOf(p, v)' = RowOf(p, v)
      BY <2>1, <3>1 DEF OpOf, PasswordGiven, Renewing, InOf, RowOf, AtWork, Changing
    <3> QED
      BY <1>0, <3>1, <3>2, MiddleOfCall DEF Doing
  <2> QED
    BY <1>0, <1>1, <2>3, <2>4 DEF FindUser
<1>2. CASE DropHash(p)
  <2>1. job[p].old \in hashes
    <3>1. pc[p] = "dropHash"
      BY <1>2 DEF DropHash
    <3>2. CASE Changing(p)
      BY <1>0, <3>1, <3>2 DEF InStep, Replacing
    <3>3. CASE ~Changing(p)
      <4>1. users[u] = job[p].old /\ HasRow(u) /\ hashes = Rows
        BY <1>0, <3>1, <3>3 DEF InStep, Replacing, Deleting, Storing
      <4> QED
        BY <1>0, <4>1 DEF Rows
    <3> QED
      BY <3>2, <3>3
  <2>2. table
    BY <1>0, <2>1 DEF Started
  <2>3. /\ pc[p] = "dropHash" /\ pc'[p] = (IF Changing(p) THEN "storeHash" ELSE "dropRow")
        /\ job' = job /\ UNCHANGED <<users, phase, result>>
    BY <1>0, <1>2, <2>2 DEF DropHash, Goto, IInv, TypeOK
  <2>4. ~Changing(p) => users[u] = job[p].old
    BY <1>0, <2>3 DEF InStep, Deleting
  <2>5. /\ OpOf(p)' = OpOf(p) /\ PasswordGiven(p)' = PasswordGiven(p)
        /\ Renewing(p)' = Renewing(p) /\ InOf(p)' = InOf(p)
    BY <2>3 DEF OpOf, PasswordGiven, Renewing, InOf, Changing
  <2>6. \A v \in User : RowOf(p, v)' = RowOf(p, v)
    BY <2>3, <2>4 DEF RowOf, AtWork, Changing
  <2> QED
    BY <1>0, <2>3, <2>5, <2>6, MiddleOfCall DEF Doing
<1>3. CASE DropRow(p)
  <2>1. /\ pc[p] = "dropRow" /\ phase[p] = "menu" /\ users' = [users EXCEPT ![u] = NoHash]
        /\ Return(p, "true") /\ HasRow(u)
    BY <1>0, <1>3 DEF DropRow, Started, InStep, Deleting, IInv, TypeOK, PhaseOK
  <2>2. StoreAccount[u] # {}
    BY <1>0, <2>1, AccountRead, PasswordsRead DEF AtWork, HasRow, IInv, TypeOK
  <2> DEFINE S == {}
  <2>3. PasswordsOf(users'[u]) = S
    BY <1>0, <2>1 DEF PasswordsOf, IInv, TypeOK
  <2>4. \A v \in User : v # u => RowOf(p, v) = users'[v]
    BY <2>1 DEF RowOf, AtWork, IInv, TypeOK
  <2>5. [v \in User |-> PasswordsOf(users'[v])] = [StoreAccount EXCEPT ![u] = S]
    <3> HIDE DEF u, S
    <3> QED
      BY <1>0, <2>3, <2>4, AccountsButOne
  <2>6. StoreAccount' = [StoreAccount EXCEPT ![u] = {}]
    BY <1>0, <2>1, <2>5, Returned
  <2>7. StoreIn' = StoreIn /\ StoreCall' = Store!NoCall /\ StoreAnswer' = "true"
    BY <2>1, StoreRead, Returned DEF InOf, After
  <2>8. OpOf(p) = "delete"
    BY <2>1 DEF OpOf, Changing
  <2> QED
    BY <1>0, <2>2, <2>6, <2>7, <2>8
    DEF Store!Delete, Store!Answer, CallOf, Doing, Store!Next
<1> QED
  BY <1>1, <1>2, <1>3

LEMMA VerifyingAnswers ==
  ASSUME Solo, IInv, SoloInv, Kept, NEW p \in Proc, ~harmed, ~harmed',
         LookUpUser(p) \/ RetrieveHash(p)
  PROVE  Doing(p)
<1> DEFINE u == job[p].user
<1>0. /\ ~MayFail /\ ~UsersLocked(p) /\ ~HashesLocked(p)
      /\ Started(p) /\ InStep(p) /\ harmed' = harmed /\ users' = users
      /\ StoreCall = CallOf(p) /\ u \in User /\ users[u] \in Hash \cup {NoHash}
      /\ pc[p] \in {"lookup", "retrieve"} /\ phase[p] \in {"login", "reauth"}
      /\ job[p].password \in Password /\ ~Renewing(p)
  BY NoLock, StoreRead DEF Solo, SoloInv, Kept, Requested, IInv, TypeOK, Started, LookUpUser, RetrieveHash, Renewing
<1>1. StoreCall = [op |-> "verify", user |-> u, password |-> job[p].password]
  BY <1>0 DEF CallOf, OpOf, PasswordGiven
<1>2. StoreAccount = [v \in User |-> PasswordsOf(users[v])] /\ StoreIn = Changing(p)
  BY <1>0, AccountsWhole, StoreRead DEF InOf, Changing
<1>3. ASSUME NEW value \in {"true", "false"}, Return(p, value),
             job[p].password \in PasswordsOf(users[u]) <=> value = "true",
             Changing(p) => value = "false"
      PROVE  Store!Verify
  <2>1. StoreAccount' = StoreAccount /\ StoreCall' = Store!NoCall /\ StoreAnswer' = value
    BY <1>0, <1>2, <1>3, Returned
  <2>2. StoreIn' = (StoreIn \/ value = "true")
    <3>1. StoreIn' = (After(p, value) \in {"menu", "reauth"})
      BY <1>3, Returned
    <3>2. CASE phase[p] = "login"
      <4>1. StoreIn = FALSE
        BY <1>2, <3>2 DEF Changing
      <4>2. After(p, value) = IF value = "false" THEN "login" ELSE "menu"
        BY <3>2 DEF After
      <4>3. StoreIn' = (value = "true")
        BY <1>3, <3>1, <4>2
      <4> QED
        BY <4>1, <4>3
    <3>3. CASE phase[p] = "reauth"
      BY <1>0, <1>2, <1>3, <3>1, <3>3 DEF After, Changing
    <3> QED
      BY <1>0, <3>2, <3>3
  <2> QED
    BY <1>0, <1>1, <1>2, <1>3, <2>1, <2>2 DEF Store!Verify, Store!Answer
<1>4. CASE LookUpUser(p)
  <2>1. CASE ~HasRow(u) /\ Return(p, "false")
    <3>1. PasswordsOf(users[u]) = {}
      BY <1>0, <2>1, PasswordsRead DEF HasRow
    <3> QED
      BY <1>3, <2>1, <3>1 DEF Doing, Store!Next
  <2>2. CASE HasRow(u) /\ job' = [job EXCEPT ![p].old = users[u]] /\ Goto(p, "retrieve")
    <3>1. /\ pc[p] = "lookup" /\ pc'[p] = "retrieve" /\ job'[p].user = u
          /\ job'[p].password = job[p].password /\ UNCHANGED <<users, phase, result>>
      BY <1>4, <2>2 DEF LookUpUser, Goto, IInv, TypeOK
    <3>2. /\ OpOf(p)' = OpOf(p) /\ PasswordGiven(p)' = PasswordGiven(p)
          /\ Renewing(p)' = Renewing(p) /\ InOf(p)' = InOf(p)
          /\ \A v \in User : RowOf(p, v)' = RowOf(p, v)
      BY <3>1 DEF OpOf, PasswordGiven, Renewing, InOf, RowOf, AtWork, Changing
    <3> QED
      BY <1>0, <3>1, <3>2, MiddleOfCall DEF Doing
  <2> QED
    BY <1>0, <1>4, <2>1, <2>2 DEF LookUpUser
<1>5. CASE RetrieveHash(p)
  <2>1. /\ pc[p] = "retrieve" /\ users[u] = job[p].old /\ HasRow(u) /\ hashes = Rows
    BY <1>0, <1>5 DEF RetrieveHash, InStep, Storing, Replacing
  <2>2. job[p].old \in hashes /\ PasswordsOf(users[u]) = {PasswordOf[job[p].old]}
    BY <1>0, <2>1, PasswordsRead DEF Rows, HasRow
  <2>3. table
    BY <1>0, <2>2 DEF Started
  <2>4. CompareHashes(p) <=> job[p].password \in PasswordsOf(users[u])
    BY <2>2, <2>3 DEF CompareHashes
  <2>5. CASE ~CompareHashes(p) /\ Return(p, "false")
    BY <1>3, <2>4, <2>5 DEF Doing, Store!Next
  <2>6. CASE CompareHashes(p) /\ ~Changing(p) /\ Return(p, "true")
    BY <1>3, <2>4, <2>6 DEF Doing, Store!Next
  <2>7. CASE /\ CompareHashes(p) /\ Changing(p) /\ Goto(p, "reread")
             /\ job' = [job EXCEPT ![p] = [NoJob EXCEPT !.user = job[p].user]]
    <3>1. /\ pc'[p] = "reread" /\ job'[p].user = u /\ phase' = phase
      BY <2>1, <2>7 DEF Goto, IInv, TypeOK, NoJob
    <3>2. Renewing(p)' /\ OpOf(p)' = "ask" /\ PasswordGiven(p)' = NoHash /\ InOf(p)' /\ InOf(p)
      BY <2>7, <3>1 DEF Renewing, OpOf, PasswordGiven, InOf, Changing
    <3>3. \A v \in User : RowOf(p, v)' = users[v]
      BY <1>0, <3>1 DEF RowOf, AtWork
    <3>4. AccountsOf(p)' = StoreAccount
      BY <1>2, <3>3 DEF AccountsOf, PasswordsOf
    <3>5. /\ StoreAccount' = StoreAccount /\ StoreAnswer' = "true" /\ StoreIn /\ StoreIn' = TRUE
          /\ StoreCall' = [op |-> "ask", user |-> u, password |-> NoHash]
      BY <3>1, <3>2, <3>4, StoreRead, StoreReadNext DEF AnswerOf, CallOf, InOf
    <3>6. job[p].password \in StoreAccount[u]
      BY <1>0, <1>2, <2>4, <2>7
    <3>7. StoreCall.op = "verify" /\ StoreCall.user = u /\ StoreCall.password = job[p].password
      BY <1>1
    <3>8. StoreIn' = (StoreIn \/ StoreCall.password \in StoreAccount[StoreCall.user])
      BY <3>5, <3>6, <3>7
    <3>9. Store!Verify
      BY <1>0, <3>5, <3>6, <3>7, <3>8 DEF Store!Verify, Store!Answer
    <3> QED
      BY <3>9 DEF Doing, Store!Next
  <2> QED
    BY <1>0, <1>5, <2>5, <2>6, <2>7 DEF RetrieveHash
<1> QED
  BY <1>4, <1>5

LEMMA ChangingAnswers ==
  ASSUME Solo, IInv, SoloInv, Kept, NEW p \in Proc, ~harmed, ~harmed',
         RereadUser(p) \/ UpdateUser(p)
  PROVE  Doing(p)
<1> DEFINE u == job[p].user
<1>0. /\ ~MayFail /\ ~UsersLocked(p) /\ ~HashesLocked(p)
      /\ Started(p) /\ InStep(p) /\ harmed' = harmed /\ StoreCall = CallOf(p)
      /\ u \in User /\ Changing(p)
  BY NoLock, StoreRead DEF Solo, SoloInv, IInv, TypeOK, PhaseOK, RereadUser, UpdateUser, Changing
<1>1. CASE RereadUser(p)
  <2>1. pc[p] = "reread" /\ HasRow(u)
    BY <1>1 DEF RereadUser, Kept, Requested
  <2>2. ASSUME NEW h \in Fresh, Goto(p, "update"),
               job' = [job EXCEPT ![p].old = users[job[p].user], ![p].new = h]
        PROVE  Store!Choose
    <3>a. users' = users
      BY <1>1 DEF RereadUser
    <3>1. /\ pc'[p] = "update" /\ job'[p].user = u /\ job'[p].new = h
          /\ UNCHANGED <<users, phase, result>>
      BY <2>2, <3>a DEF Goto, IInv, TypeOK
    <3>2. PasswordOf[h] \in Password
      BY AccountAssumption DEF Fresh
    <3>3. /\ OpOf(p) = "ask" /\ OpOf(p)' = "change" /\ PasswordGiven(p)' = PasswordOf[h]
          /\ Renewing(p) /\ Renewing(p)' /\ InOf(p)' = InOf(p)
          /\ \A v \in User : RowOf(p, v)' = RowOf(p, v)
      BY <1>0, <2>1, <3>1 DEF OpOf, PasswordGiven, Renewing, InOf, RowOf, AtWork, Changing
    <3>4. AccountsOf(p)' = AccountsOf(p) /\ AnswerOf(p)' = AnswerOf(p)
      BY <3>3 DEF AccountsOf, PasswordsOf, AnswerOf
    <3>5. /\ UNCHANGED <<StoreAccount, StoreAnswer, StoreIn, harmed>>
          /\ StoreCall' = [op |-> "change", user |-> u, password |-> PasswordOf[h]]
      BY <1>0, <3>1, <3>3, <3>4, StoreRead, StoreReadNext DEF CallOf
    <3>6. StoreCall.op = "ask" /\ StoreCall.user = u
      BY <1>0, <3>3 DEF CallOf
    <3> QED
      BY <3>2, <3>5, <3>6 DEF Store!Choose
  <2> QED
    BY <1>0, <1>1, <2>1, <2>2 DEF RereadUser, Doing, Store!Next
<1>2. CASE UpdateUser(p)
  <2>1. /\ pc[p] = "update" /\ pc'[p] = "dropHash" /\ job' = job
        /\ \A v \in User : v # u => users'[v] = users[v]
        /\ UNCHANGED <<phase, result>> /\ users[u] = job[p].old
    BY <1>0, <1>2 DEF UpdateUser, Goto, IInv, TypeOK, InStep
  <2>2. /\ OpOf(p)' = OpOf(p) /\ PasswordGiven(p)' = PasswordGiven(p)
        /\ Renewing(p)' = Renewing(p) /\ InOf(p)' = InOf(p)
        /\ \A v \in User : RowOf(p, v)' = RowOf(p, v)
    BY <1>0, <2>1 DEF OpOf, PasswordGiven, Renewing, InOf, RowOf, AtWork, Changing
  <2> QED
    BY <1>0, <2>1, <2>2, MiddleOfCall DEF Doing
<1> QED
  BY <1>1, <1>2

-----------------------------------------------------------------------------
(***************************************************************************)
(* Harm, the end of the program, and the theorem.                          *)
(***************************************************************************)
LEMMA HarmLasts ==
  ASSUME NEW p \in Proc, harmed,
         \/ InitializeSuperAdmin(p) \/ VerifyPassword(p) \/ RegisterUser(p) \/ DeleteUser(p)
         \/ ChangePassword(p) \/ Statement(p) \/ Restart(p)
  PROVE  harmed'
<1>1. CASE InitializeSuperAdmin(p) \/ VerifyPassword(p) \/ RegisterUser(p) \/ DeleteUser(p)
  BY <1>1 DEF InitializeSuperAdmin, VerifyPassword, RegisterUser, DeleteUser, Start
<1>2. CASE ChangePassword(p) \/ Restart(p)
  BY <1>2 DEF ChangePassword, Restart
<1>3. CASE CountUser(p) \/ InsertUser(p) \/ OpenHashes(p) \/ InsertHash(p)
  BY <1>3 DEF CountUser, InsertUser, OpenHashes, InsertHash
<1>4. CASE FindUser(p) \/ DropHash(p) \/ DropRow(p)
  BY <1>4 DEF FindUser, DropHash, DropRow
<1>5. CASE LookUpUser(p) \/ RetrieveHash(p) \/ RereadUser(p) \/ UpdateUser(p)
  BY <1>5 DEF LookUpUser, RetrieveHash, RereadUser, UpdateUser
<1> QED
  BY <1>1, <1>2, <1>3, <1>4, <1>5 DEF Statement

\* The program ends between two calls, or in one that had no effect yet.
LEMMA RestartDoesNothing ==
  ASSUME Solo, IInv, SoloInv, NEW p \in Proc, ~harmed, ~harmed', Restart(p)
  PROVE  Store!Restart
<1>1. /\ pc'[p] = "idle" /\ job'[p] = NoJob /\ result'[p] = "none" /\ phase'[p] = "start"
      /\ users' = users /\ ~HalfDone(p) /\ InStep(p) /\ harmed' = harmed
  BY DEF Restart, IInv, TypeOK, SoloInv
<1>2. \A u \in User : RowOf(p, u) = users[u]
  <2>1. ~Storing(p)
    BY <1>1 DEF HalfDone, Storing, InStep
  <2>2. pc[p] = "dropHash" => ~Changing(p) /\ users[job[p].user] = job[p].old
    BY <1>1 DEF HalfDone, InStep, Deleting
  <2> QED
    BY <2>1, <2>2 DEF RowOf, AtWork, Storing
<1>3. \A u \in User : RowOf(p, u)' = RowOf(p, u)
  BY <1>1, <1>2 DEF RowOf, AtWork
<1>4. AccountsOf(p)' = AccountsOf(p)
  BY <1>3 DEF AccountsOf, PasswordsOf
<1>5. CallOf(p)' = Store!NoCall /\ AnswerOf(p)' = "none" /\ InOf(p)' = FALSE
  BY <1>1 DEF CallOf, OpOf, PasswordGiven, Store!NoCall, NoJob, AnswerOf, Renewing, InOf
<1> QED
  BY <1>1, <1>4, <1>5, StoreRead, StoreReadNext DEF Store!Restart

LEMMA ChangeBegins ==
  ASSUME Solo, IInv, NEW p \in Proc, ~harmed, ChangePassword(p)
  PROVE  StoreStutters
<1>1. /\ pc[p] = "idle" /\ phase[p] = "menu" /\ phase'[p] = "reauth"
      /\ UNCHANGED <<users, pc, job, result, harmed>>
  BY DEF ChangePassword, IInv, TypeOK
<1>2. /\ OpOf(p)' = OpOf(p) /\ PasswordGiven(p)' = PasswordGiven(p)
      /\ Renewing(p)' = Renewing(p) /\ InOf(p)' = InOf(p)
      /\ \A v \in User : RowOf(p, v)' = RowOf(p, v)
  BY <1>1 DEF OpOf, PasswordGiven, Renewing, InOf, RowOf, AtWork, Changing
<1> QED
  BY <1>1, <1>2, MiddleOfCall

LEMMA StepImplements ==
  ASSUME Solo, IInv, SoloInv, Kept, Next
  PROVE  Store!Next \/ StoreStutters
<1>0. PICK p \in Proc :
        \/ InitializeSuperAdmin(p) \/ VerifyPassword(p) \/ RegisterUser(p) \/ DeleteUser(p)
        \/ ChangePassword(p) \/ Statement(p) \/ Restart(p)
  BY DEF Next
<1>1. harmed \in BOOLEAN /\ harmed' \in BOOLEAN
  BY NextInv DEF IInv, TypeOK
<1>2. CASE harmed
  <2>1. harmed'
    BY <1>0, <1>2, HarmLasts
  <2> QED
    BY <1>1, <1>2, <2>1, StoreHarmed, StoreHarmedNext DEF StoreStutters
<1>3. CASE ~harmed /\ harmed'
  <2>1. Store!Harm
    BY <1>1, <1>3, StoreHarmedNext DEF Store!Harm
  <2> QED
    BY <1>3, <2>1 DEF Store!Next
<1>4. CASE ~harmed /\ ~harmed'
  <2>1. CASE InitializeSuperAdmin(p) \/ VerifyPassword(p) \/ RegisterUser(p) \/ DeleteUser(p)
    BY <1>4, <2>1, RequestIsMade DEF Store!Next
  <2>2. CASE ChangePassword(p)
    BY <1>4, <2>2, ChangeBegins
  <2>3. CASE Restart(p)
    BY <1>4, <2>3, RestartDoesNothing DEF Store!Next
  <2>4. CASE Statement(p)
    BY <1>4, <2>4, StoringAnswers, DeletingAnswers, VerifyingAnswers, ChangingAnswers
    DEF Statement, Doing
  <2> QED
    BY <1>0, <2>1, <2>2, <2>3, <2>4
<1> QED
  BY <1>2, <1>3, <1>4

LEMMA StutterImplements ==
  ASSUME UNCHANGED vars
  PROVE  StoreStutters
<1>1. StoreAccount' = StoreAccount
  BY DEF vars, StoreAccount, PasswordsOf, RowOf, AtWork, Changing
<1>2. StoreCall' = StoreCall
  BY DEF vars, StoreCall, OpOf, PasswordGiven, Changing
<1>3. StoreAnswer' = StoreAnswer /\ StoreIn' = StoreIn /\ harmed' = harmed
  BY DEF vars, StoreAnswer, StoreIn, Renewing, Changing
<1> QED
  BY <1>1, <1>2, <1>3 DEF StoreStutters

LEMMA InitImplements ==
  ASSUME Solo, Proc # {}, Init
  PROVE  Store!Init
<1>1. PICK p \in Proc : TRUE
  OBVIOUS
<1>2. /\ pc[p] = "idle" /\ phase[p] = "start" /\ job[p] = NoJob /\ result[p] = "none"
      /\ harmed = FALSE /\ \A u \in User : users[u] = NoHash
  BY DEF Init
<1>3. \A u \in User : PasswordsOf(RowOf(p, u)) = {}
  BY <1>2 DEF RowOf, AtWork, PasswordsOf
<1>4. AccountsOf(p) = Store!Nobody
  BY <1>3 DEF AccountsOf, Store!Nobody
<1>5. CallOf(p) = Store!NoCall /\ AnswerOf(p) = "none" /\ InOf(p) = FALSE
  BY <1>2 DEF CallOf, OpOf, PasswordGiven, Store!NoCall, NoJob, AnswerOf, Renewing, InOf
<1> QED
  BY <1>2, <1>4, <1>5, StoreRead DEF Store!Init

\* One program whose statements succeed, dying where it may, keeps what the
\* person at it is promised: storeUser, deleteUserByUsername, verifyPassword
\* and changeUserPassword (main.cpp:65-204) each take effect as a whole when
\* they return, with the answer the accounts give at that moment, the menu is
\* behind the login, and a change goes to the user that was verified.
THEOREM AccountsImplemented == Solo /\ Proc # {} => (Spec => ImplementsAccounts)
<1> SUFFICES ASSUME Solo, Proc # {} PROVE Spec => ImplementsAccounts
  OBVIOUS
<1>1. Init => Store!Init
  BY InitImplements
<1>2. IInv /\ SoloInv /\ Kept /\ [Next]_vars => [Store!Next]_(Store!vars)
  <2> SUFFICES ASSUME IInv, SoloInv, Kept, [Next]_vars
               PROVE  Store!Next \/ StoreStutters
    BY DEF StoreStutters, Store!vars
  <2> QED
    BY StepImplements, StutterImplements
<1>3. Spec => [](IInv /\ SoloInv /\ Kept)
  BY KeptInvariant
<1> QED
  BY <1>1, <1>2, <1>3, PTL DEF Spec, Store!Spec, ImplementsAccounts
=============================================================================
