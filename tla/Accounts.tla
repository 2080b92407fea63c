------------------------------ MODULE Accounts ------------------------------
(***************************************************************************)
(* What the user accounts promise to the person at the program: a call is  *)
(* made, and takes effect as a whole when it is answered, or not at all    *)
(* when the program dies before it is.  The one exception is a program     *)
(* that dies in the middle of a change to the two files; then nothing is   *)
(* promised any more.                                                      *)
(***************************************************************************)
CONSTANTS User,           \* user names
          Password,       \* passwords
          Admin,          \* the user that every start of the program makes
          AdminPassword,  \* ... and the password it is given
          None            \* the argument of a call that has no password

VARIABLES account,  \* account[u]: the password of u, as a set; {} if there is no u
          call,     \* the call that was made and is not answered
          answer,   \* the last answer, "none" after a start
          in,       \* has somebody passed the login since the start?
          harmed    \* the program died in the middle of a change

vars == <<account, call, answer, in, harmed>>

NoCall == [op |-> "none", user |-> Admin, password |-> None]

Nobody == [u \in User |-> {}]

Init == /\ account = Nobody
        /\ call = NoCall
        /\ answer = "none"
        /\ in = FALSE
        /\ harmed = FALSE

\* Who may call what: a verification everybody, as does the start of the
\* program with the super admin; the rest only after a login.
Call(op, u, w) ==
  /\ call = NoCall
  /\ call' = [op |-> op, user |-> u, password |-> w]
  /\ UNCHANGED <<account, answer, in, harmed>>

Request ==
  \/ Call("store", Admin, AdminPassword)
  \/ \E u \in User, w \in Password : Call("verify", u, w)
  \/ in /\ \E u \in User, w \in Password : Call("store", u, w)
  \/ in /\ \E u \in User : Call("delete", u, None)

Answer(value) == answer' = IF value THEN "true" ELSE "false"

\* A name is stored when it is free, and deleted when it is there.
Store ==
  /\ call.op = "store"
  /\ Answer(account[call.user] = {})
  /\ account' = IF account[call.user] = {}
                THEN [account EXCEPT ![call.user] = {call.password}] ELSE account
  /\ call' = NoCall
  /\ UNCHANGED <<in, harmed>>

Delete ==
  /\ call.op = "delete"
  /\ Answer(account[call.user] # {})
  /\ account' = [account EXCEPT ![call.user] = {}]
  /\ call' = NoCall
  /\ UNCHANGED <<in, harmed>>

\* The present password is right and no other.
Verify ==
  /\ call.op = "verify"
  /\ Answer(call.password \in account[call.user])
  /\ in' = (in \/ call.password \in account[call.user])
  /\ \/ call' = NoCall
     \/ /\ in /\ call.password \in account[call.user]
        /\ call' = [op |-> "ask", user |-> call.user, password |-> None]
  /\ UNCHANGED <<account, harmed>>

\* Who was verified is asked for a new password, and it becomes the password
\* of that user.
Choose ==
  /\ call.op = "ask"
  /\ \E w \in Password : call' = [op |-> "change", user |-> call.user, password |-> w]
  /\ UNCHANGED <<account, answer, in, harmed>>

Change ==
  /\ call.op = "change"
  /\ Answer(TRUE)
  /\ account' = [account EXCEPT ![call.user] = {call.password}]
  /\ call' = NoCall
  /\ UNCHANGED <<in, harmed>>

\* The program ends, with or without a call, and is started again.
Restart ==
  /\ call' = NoCall
  /\ answer' = "none"
  /\ in' = FALSE
  /\ UNCHANGED <<account, harmed>>

Harm ==
  /\ harmed' = TRUE
  /\ account' = Nobody /\ call' = NoCall /\ answer' = "none" /\ in' = FALSE

Next == ~harmed /\ (Request \/ Store \/ Delete \/ Verify \/ Choose \/ Change \/ Restart \/ Harm)

Spec == Init /\ [][Next]_vars
=============================================================================
