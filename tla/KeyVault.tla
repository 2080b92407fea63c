------------------------------ MODULE KeyVault ------------------------------
(***************************************************************************)
(* What an ENT key file promises to its callers, with each operation taken *)
(* as one step: there is no file yet, or there is a store to which keys    *)
(* are added and from which none is ever removed or replaced, or the store *)
(* is lost, for good and as a whole.                                       *)
(***************************************************************************)
CONSTANTS Table,    \* the key tables of a store
          KeyId,    \* the names of keys
          Value,    \* the key material
          NoValue   \* the entry of a name that has no key

VARIABLES state,    \* "none", "open" or "lost"
          keys      \* keys[t][i]: the key named i in table t, or NoValue

vars == <<state, keys>>

NoKeys == [t \in Table |-> [i \in KeyId |-> NoValue]]

Init == state = "none" /\ keys = NoKeys

\* The first write of a key makes an empty store.
Create == /\ state = "none"
          /\ state' = "open"
          /\ keys' = keys

\* A key is added under a name that was free.
Add(t, i, v) == /\ state = "open"
                /\ keys[t][i] = NoValue
                /\ keys' = [keys EXCEPT ![t][i] = v]
                /\ state' = state

\* A write that is cut short loses everything at once.
Lose == /\ state # "lost"
        /\ state' = "lost"
        /\ keys' = NoKeys

Next == \/ Create
        \/ Lose
        \/ \E t \in Table, i \in KeyId, v \in Value : Add(t, i, v)

Spec == Init /\ [][Next]_vars
=============================================================================
