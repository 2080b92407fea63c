----------------------------- MODULE MCEntFile -----------------------------
(***************************************************************************)
(* Small instances of EntFile for TLC.                                     *)
(***************************************************************************)
EXTENDS EntFile, TLC

CONSTANTS k0, k1,   \* two ENT key pairs
          noPem     \* a text that is no key

pairDefault == [pub |-> k0, priv |-> k0]
pairOther   == [pub |-> k1, priv |-> k1]
pairMixed   == [pub |-> k1, priv |-> k0]
pairNoPub   == [pub |-> noPem, priv |-> k0]

onlyDefault == {pairDefault}
allPairs    == {pairDefault, pairOther, pairMixed, pairNoPub}
pubFails    == {pairDefault, pairNoPub}

Symmetry == Permutations(Value) \cup Permutations(KeyId) \cup Permutations(Proc)
=============================================================================
