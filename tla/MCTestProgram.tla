---------------------------- MODULE MCTestProgram ----------------------------
(***************************************************************************)
(* A small instance of TestProgram for TLC.                                *)
(***************************************************************************)
EXTENDS TestProgram, TLC

CONSTANTS r2, r3, r4   \* RSA key pairs, named for the size of their blocks

values == 1..12

shipped == (K0 :> 1) @@ (K1 :> 2) @@ (K2 :> 3)

pair == [pub |-> "e", priv |-> "e"]

pairs == {pair}

\* A chunk of six bytes: blocks of two and three divide it, of four do not.
size == [nothing |-> 0, short |-> 2, long |-> 7, junk |-> 1]

rsaKeys == {r2, r3, r4}

keySize == (r2 :> 2) @@ (r3 :> 3) @@ (r4 :> 4)

nothingThere == [d \in Dir |-> [n \in Name |-> NoFile]]

\* Before task1, maybe a file from a time with another key.
leftover ==
  [t \in Task |-> {nothingThere} \cup
     (IF t = "task1" THEN {[nothingThere EXCEPT !["encrypted"]["b"] = Sealed("aes", 0, "short")]} ELSE {})]

oldAndNew == 0..12

userText == [task1 |-> {"short"}, library |-> {"nothing", "short", "long"}]

Symmetry == Permutations(Proc)

libKeys == [aes |-> {0, 1}, rsa |-> {r2, r3, r4, BadPem}]
=============================================================================
