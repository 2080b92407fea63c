--------------------------- MODULE MCCredentials ---------------------------
(***************************************************************************)
(* Instances of Credentials: a super admin and one other user, the fixed   *)
(* hash and a few fresh ones, two passwords.                               *)
(***************************************************************************)
EXTENDS Credentials, TLC

CONSTANTS p1, p2, admin, ann, ha, h1, h2, h3, h4, none, pwA, pwB

OneProc == {p1}
TwoProc == {p1, p2}

TwoUsers == {admin, ann}

ThreeHashes == {ha, h1, h2, h3}
FourHashes == {ha, h1, h2, h3, h4}

OnePassword == {pwA}
TwoPasswords == {pwA, pwB}

\* Neither the programs nor the fresh hashes are told apart.
Alike == Permutations(TwoProc) \cup Permutations({h1, h2, h3})

OnePasswordOf == [h \in Hash |-> pwA]

\* h1 and h3 are hashes of one password under two salts.
MCPasswordOf == [h \in Hash |-> IF h \in {ha, h2, h4} THEN pwA ELSE pwB]
=============================================================================
