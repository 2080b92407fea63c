-------------------------- MODULE EntFileReadProofs --------------------------
(***************************************************************************)
(* Theorems about the reads of EntFile, for any number of names and        *)
(* values.                                                                 *)
(***************************************************************************)
EXTENDS EntFileProofs

-----------------------------------------------------------------------------
(***************************************************************************)
(* What a name means, once somebody has seen a value under it: the file    *)
(* has that value, or its writer will write it, and so will whoever is     *)
(* told so later.  A file that is lost has no keys that could contradict.  *)
(***************************************************************************)
Settled(t, i, v) ==
  /\ file.form # "absent"
  /\ \A q \in Proc : pc[q] # "init"
  /\ file.form = "whole" => file.keys[t][i] = v
  /\ \A q \in Proc : pc[q] = "store" => snap[q][t][i] = v
  /\ \A k \in acked : k.table = t /\ k.id = i => k.value = v

\* A step that leaves all of this alone.
LEMMA SettledQuiet ==
  ASSUME NEW t \in Table, NEW i \in KeyId, NEW v \in Value, Settled(t, i, v),
         file' = file, acked' = acked,
         \A q \in Proc : pc'[q] \in Writing => pc'[q] = pc[q] /\ snap'[q] = snap[q]
  PROVE  Settled(t, i, v)'
BY DEF Settled, Writing

\* The end of a call that wrote nothing.
LEMMA SettledReturn ==
  ASSUME NEW t \in Table, NEW i \in KeyId, NEW v \in Value, Settled(t, i, v), TypeOK,
         file' = file, acked' = acked, NEW p \in Proc, NEW o, Return(p, o)
  PROVE  Settled(t, i, v)'
<1>1. \A q \in Proc : pc'[q] \in Writing => pc'[q] = pc[q] /\ snap'[q] = snap[q]
  BY DEF Return, TypeOK, Writing
<1> QED
  BY <1>1, SettledQuiet

\* A call that goes on without a change of the file.
LEMMA SettledGoto ==
  ASSUME NEW t \in Table, NEW i \in KeyId, NEW v \in Value, Settled(t, i, v), TypeOK,
         file' = file, NEW p \in Proc, NEW a, a \notin Writing, Goto(p, a),
         \A q \in Proc : q # p => snap'[q] = snap[q]
  PROVE  Settled(t, i, v)'
<1>1. \A q \in Proc : pc'[q] \in Writing => pc'[q] = pc[q] /\ snap'[q] = snap[q]
  BY DEF Goto, TypeOK, Writing
<1> QED
  BY <1>1, SettledQuiet DEF Goto

\* The truncation: the name of the key that is added was free, so it is
\* not this one, and the document in memory has this one.
LEMMA SettledOpen ==
  ASSUME Inv, ~mistaken, NEW t \in Table, NEW i \in KeyId, NEW v \in Value,
         Settled(t, i, v), NEW p \in Proc, OpenForWriting(p)
  PROVE  Settled(t, i, v)'
<1>1. CASE Throw(p) /\ UNCHANGED file
  BY <1>1, SettledReturn DEF Throw, Inv
<1>2. CASE file' = Blank("empty") /\ Goto(p, "store") /\ UNCHANGED snap
  <2>1. /\ call[p].table \in Table /\ call[p].id \in KeyId /\ call[p].value \in Value
        /\ file.keys \in Keys
    BY DEF OpenForWriting, Inv, TypeOK, Writers, File
  <2>2. /\ file.form = "whole"
        /\ file.keys[call[p].table][call[p].id] = NoValue
        /\ snap[p] = AddKey(file.keys, call[p].table, call[p].id, call[p].value)
    BY DEF OpenForWriting, Inv, WritersInTurn, AppenderIsCurrent, Decodes, SlotIsFree, HasKey
  <2>3. file.keys[t][i] = v /\ v # NoValue
    BY <2>2, ValuesAssumption DEF Settled
  <2>4. snap[p][t][i] = v
    BY <2>1, <2>2, <2>3, AddKeyEffect
  <2>5. pc' = [pc EXCEPT ![p] = "store"] /\ acked' = acked /\ snap' = snap
        /\ file'.form = "empty"
    BY <1>2 DEF Goto, Blank
  <2> QED
    BY <2>4, <2>5 DEF Settled, Inv, TypeOK
<1> QED
  BY <1>1, <1>2 DEF OpenForWriting

\* The write and its acknowledgement.
LEMMA SettledStore ==
  ASSUME Inv, ~mistaken, NEW t \in Table, NEW i \in KeyId, NEW v \in Value,
         Settled(t, i, v), NEW p \in Proc, StoreDocument(p)
  PROVE  Settled(t, i, v)'
<1>1. file.form = "empty"
  BY DEF StoreDocument, Inv, WritersInTurn, WriterHoldsEmptyFile, Writing
<1>2. ent[p].pub \in EntKey \cup {BadKey} /\ snap[p] \in Keys
  BY EntAssumption DEF Inv, TypeOK
<1>3. /\ file'.form \in {"empty", "torn", "whole"}
      /\ file'.form = "whole" => file'.keys = snap[p]
  BY <1>1, <1>2, WrittenOverEmpty, WriteIsInterrupted DEF StoreDocument, Text
<1>4. snap[p][t][i] = v
  BY DEF StoreDocument, Settled
<1>5. snap[p][call[p].table][call[p].id] = call[p].value
  BY DEF StoreDocument, Inv, WritersInTurn, AppenderIsCurrent
<1>6. \A k \in acked' : k.table = t /\ k.id = i => k.value = v
  BY <1>4, <1>5 DEF StoreDocument, Settled
<1>7. \A q \in Proc : /\ pc'[q] # "init"
                      /\ pc'[q] = "store" => pc[q] = "store" /\ snap'[q] = snap[q]
  BY DEF StoreDocument, Return, Settled, Inv, TypeOK
<1> QED
  BY <1>3, <1>4, <1>6, <1>7 DEF Settled

\* A death, in the middle of a write or not.
LEMMA SettledRestart ==
  ASSUME Inv, NEW t \in Table, NEW i \in KeyId, NEW v \in Value,
         Settled(t, i, v), NEW p \in Proc, Restart(p)
  PROVE  Settled(t, i, v)'
<1>1. acked' = acked
      /\ \A q \in Proc : /\ pc'[q] # "init"
                         /\ pc'[q] = "store" => pc[q] = "store" /\ snap'[q] = snap[q]
  BY DEF Restart, Settled, Inv, TypeOK
<1>2. CASE pc[p] \in Writing
  <2>1. pc[p] = "store"
    BY <1>2 DEF Settled, Writing
  <2>2. file.form = "empty"
    BY <1>2 DEF Inv, WritersInTurn, WriterHoldsEmptyFile
  <2>3. ent[p].pub \in EntKey \cup {BadKey} /\ snap[p] \in Keys
    BY EntAssumption DEF Inv, TypeOK
  <2>4. file' \in Interrupted(Encrypt(ent[p].pub, snap[p]))
    BY <1>2, <2>1 DEF Restart, Text
  <2>5. /\ file'.form \in {"empty", "torn", "whole"}
        /\ file'.form = "whole" => file'.keys = snap[p]
    BY <2>2, <2>3, <2>4, WrittenOverEmpty
  <2> QED
    BY <1>1, <2>1, <2>5 DEF Settled
<1>3. CASE pc[p] \notin Writing
  BY <1>1, <1>3 DEF Restart, Settled
<1> QED
  BY <1>2, <1>3

\* No step takes a value that was seen from its name: keys are only added,
\* and the file is created only when there is none.
LEMMA SettledStep ==
  ASSUME Inv, ~mistaken, [Next]_vars, NEW t \in Table, NEW i \in KeyId, NEW v \in Value,
         Settled(t, i, v)
  PROVE  Settled(t, i, v)'
<1> USE DEF Inv
<1>1. CASE UNCHANGED vars
  BY <1>1 DEF vars, Settled
<1>2. ASSUME NEW p \in Proc,
             WriteKeyToFile(p) \/ ReadKeyFromFile(p) \/ IsKeyExists(p) \/ SetEntKeyPair(p)
      PROVE  Settled(t, i, v)'
  BY <1>2, SettledQuiet
  DEF WriteKeyToFile, ReadKeyFromFile, IsKeyExists, SetEntKeyPair, Begin, TypeOK, Writing
<1>3. ASSUME NEW p \in Proc, Probe(p) PROVE Settled(t, i, v)'
  BY <1>3, SettledGoto DEF Probe, Writing
<1>4. ASSUME NEW p \in Proc, CreateBinaryEntFile(p) PROVE Settled(t, i, v)'
  BY <1>4 DEF CreateBinaryEntFile, Settled, WritersInTurn, CreatorIsFirst
<1>5. ASSUME NEW p \in Proc, WriteEmptyTables(p) PROVE Settled(t, i, v)'
  BY <1>5 DEF WriteEmptyTables, Settled
<1>6. ASSUME NEW p \in Proc, CheckDuplicate(p) PROVE Settled(t, i, v)'
  <2>1. CASE Goto(p, "load") /\ UNCHANGED snap
    BY <1>6, <2>1, SettledGoto DEF CheckDuplicate, Writing
  <2>2. CASE Throw(p) \/ (Refuse(p) /\ UNCHANGED acked)
    BY <1>6, <2>2, SettledReturn DEF CheckDuplicate, Throw, Refuse
  <2> QED
    BY <1>6, <2>1, <2>2 DEF CheckDuplicate
<1>7. ASSUME NEW p \in Proc, LoadDocument(p) PROVE Settled(t, i, v)'
  <2>1. CASE Throw(p)
    BY <1>7, <2>1, SettledReturn DEF LoadDocument, Throw
  <2>2. CASE Goto(p, "open") /\ \A q \in Proc : q # p => snap'[q] = snap[q]
    BY <1>7, <2>2, SettledGoto DEF LoadDocument, Writing
  <2> QED
    BY <1>7, <2>1, <2>2 DEF LoadDocument, TypeOK
<1>8. ASSUME NEW p \in Proc, OpenForWriting(p) \/ StoreDocument(p) \/ Restart(p)
      PROVE  Settled(t, i, v)'
  BY <1>8, SettledOpen, SettledStore, SettledRestart
<1>9. ASSUME NEW p \in Proc, ReadDocument(p) PROVE Settled(t, i, v)'
  <2>1. CASE Throw(p)
    BY <1>9, <2>1, SettledReturn DEF ReadDocument, Throw
  <2>2. CASE Goto(p, "confirm") /\ \A q \in Proc : q # p => snap'[q] = snap[q]
    BY <1>9, <2>2, SettledGoto DEF ReadDocument, Writing
  <2> QED
    BY <1>9, <2>1, <2>2 DEF ReadDocument, TypeOK
<1>10. ASSUME NEW p \in Proc, ConfirmKey(p) \/ FindKey(p) PROVE Settled(t, i, v)'
  BY <1>10, SettledReturn DEF ConfirmKey, FindKey, Throw
<1> QED
  BY <1>1, <1>2, <1>3, <1>4, <1>5, <1>6, <1>7, <1>8, <1>9, <1>10 DEF Next, Step

-----------------------------------------------------------------------------
(***************************************************************************)
(* A reader between its two looks at the file.                             *)
(***************************************************************************)

\* What it holds in memory is settled.
ReadersKnow ==
  ~mistaken => \A p \in Proc, t \in Table, i \in KeyId :
                 pc[p] = "confirm" /\ HasKey(snap[p], t, i) => Settled(t, i, snap[p][t][i])

\* A failed open that was taken for a missing file stays one.
LEMMA MistakenStays == TypeOK /\ [Next]_vars => (mistaken => mistaken')
BY DEF Next, Step, WriteKeyToFile, ReadKeyFromFile, IsKeyExists, Begin, SetEntKeyPair,
   Restart, Probe, CreateBinaryEntFile, WriteEmptyTables, CheckDuplicate, LoadDocument,
   OpenForWriting, StoreDocument, ReadDocument, ConfirmKey, FindKey, TakeForMissing, vars

\* A process comes to the second look only from the first, which shows it
\* the file, or was there before.
LEMMA ReaderStep ==
  ASSUME TypeOK, [Next]_vars, NEW p \in Proc, pc'[p] = "confirm"
  PROVE  \/ ReadDocument(p) /\ snap'[p] = file.keys /\ file.form = "whole"
            /\ pc' = [pc EXCEPT ![p] = "confirm"] /\ UNCHANGED <<file, acked>>
            /\ \A q \in Proc : q # p => snap'[q] = snap[q]
         \/ pc[p] = "confirm" /\ snap'[p] = snap[p]
<1> USE DEF TypeOK
<1>1. CASE UNCHANGED vars
  BY <1>1 DEF vars
<1>2. ASSUME NEW q \in Proc,
             WriteKeyToFile(q) \/ ReadKeyFromFile(q) \/ IsKeyExists(q) \/ SetEntKeyPair(q)
      PROVE  pc[p] = "confirm" /\ snap'[p] = snap[p]
  BY <1>2 DEF WriteKeyToFile, ReadKeyFromFile, IsKeyExists, SetEntKeyPair, Begin
<1>3. ASSUME NEW q \in Proc,
             \/ Restart(q) \/ CreateBinaryEntFile(q) \/ OpenForWriting(q) \/ StoreDocument(q)
             \/ Probe(q) \/ WriteEmptyTables(q)
      PROVE  pc[p] = "confirm" /\ snap'[p] = snap[p]
  BY <1>3 DEF Restart, CreateBinaryEntFile, OpenForWriting, StoreDocument, Probe,
     WriteEmptyTables, Goto, Throw, Return
<1>4. ASSUME NEW q \in Proc,
             CheckDuplicate(q) \/ LoadDocument(q) \/ ConfirmKey(q) \/ FindKey(q)
      PROVE  pc[p] = "confirm" /\ snap'[p] = snap[p]
  BY <1>4 DEF CheckDuplicate, LoadDocument, ConfirmKey, FindKey, Goto, Throw, Refuse, Return
<1>5. ASSUME NEW q \in Proc, ReadDocument(q)
      PROVE  \/ ReadDocument(p) /\ snap'[p] = file.keys /\ file.form = "whole"
                /\ pc' = [pc EXCEPT ![p] = "confirm"] /\ UNCHANGED <<file, acked>>
                /\ \A r \in Proc : r # p => snap'[r] = snap[r]
             \/ pc[p] = "confirm" /\ snap'[p] = snap[p]
  BY <1>5 DEF ReadDocument, Decodes, Goto, Throw, Return
<1> QED
  BY <1>1, <1>2, <1>3, <1>4, <1>5 DEF Next, Step

\* What a reader sees of a whole file is settled: no writer is in the
\* middle of a write, and the file has every acknowledged key.
LEMMA SeenIsSettled ==
  ASSUME Inv, ~mistaken, NEW p \in Proc, NEW t \in Table, NEW i \in KeyId,
         file.form = "whole", pc' = [pc EXCEPT ![p] = "confirm"], UNCHANGED <<file, acked>>
  PROVE  Settled(t, i, file.keys[t][i])'
<1>1. \A q \in Proc : pc[q] \notin Writing
  BY DEF Inv, WritersInTurn, WriterHoldsEmptyFile
<1>2. \A q \in Proc : pc'[q] \notin Writing
  BY <1>1 DEF Inv, TypeOK, Writing
<1>3. \A k \in acked : file.keys[k.table][k.id] = k.value
  BY DEF Inv, WritersInTurn, Damaged
<1> QED
  BY <1>2, <1>3 DEF Settled, Writing

LEMMA KnowStep == Inv /\ ReadersKnow /\ [Next]_vars => ReadersKnow'
<1> SUFFICES ASSUME Inv, ReadersKnow, [Next]_vars, ~mistaken',
                    NEW p \in Proc, NEW t \in Table, NEW i \in KeyId,
                    pc'[p] = "confirm", NEW v, v = snap'[p][t][i], v # NoValue
             PROVE  Settled(t, i, v)'
  BY DEF ReadersKnow, HasKey
<1>1. ~mistaken
  BY MistakenStays DEF Inv
<1>2. CASE ReadDocument(p) /\ snap'[p] = file.keys /\ file.form = "whole"
           /\ pc' = [pc EXCEPT ![p] = "confirm"] /\ UNCHANGED <<file, acked>>
  <2>1. v = file.keys[t][i]
    BY <1>2
  <2>2. Settled(t, i, file.keys[t][i])'
    BY <1>1, <1>2, SeenIsSettled
  <2> QED
    BY <1>2, <2>1, <2>2 DEF Settled
<1>3. CASE pc[p] = "confirm" /\ snap'[p] = snap[p]
  <2>1. v \in Value /\ v = snap[p][t][i]
    BY <1>3 DEF Inv, TypeOK, Keys
  <2>2. Settled(t, i, v)
    BY <1>1, <1>3, <2>1 DEF ReadersKnow, HasKey
  <2> QED
    BY <1>1, <2>1, <2>2, SettledStep
<1> QED
  BY <1>2, <1>3, ReaderStep DEF Inv

\* The look-up gives a value exactly when the document has one.
LEMMA LookupFinds ==
  ASSUME NEW keys, NEW t, NEW i \in KeyId
  PROVE  /\ HasKey(keys, t, i) =>
              Lookup(keys, t, i) = [kind |-> "value", value |-> keys[t][i]]
         /\ Lookup(keys, t, i).kind = "value" => HasKey(keys, t, i)
<1>1. CASE HasKey(keys, t, i)
  <2>1. ~IsNull(keys, t)
    BY <1>1 DEF HasKey, IsNull
  <2> QED
    BY <1>1, <2>1 DEF Lookup
<1>2. CASE ~HasKey(keys, t, i)
  BY <1>2 DEF Lookup, Ended
<1> QED
  BY <1>1, <1>2

\* A call that returns a value returns the one its document has.
LEMMA ConfirmedValue ==
  ASSUME TypeOK, [Next]_vars, NEW p \in Proc, pc[p] = "confirm", pc'[p] = "idle",
         result'[p].kind = "value"
  PROVE  /\ call[p].table \in Table /\ call[p].id \in KeyId
         /\ HasKey(snap[p], call[p].table, call[p].id)
         /\ result'[p].value = snap[p][call[p].table][call[p].id]
<1> USE DEF TypeOK
<1>1. ASSUME NEW q \in Proc, q # p,
             \/ WriteKeyToFile(q) \/ ReadKeyFromFile(q) \/ IsKeyExists(q)
             \/ SetEntKeyPair(q) \/ Restart(q) \/ Step(q)
      PROVE  pc'[p] = pc[p]
  BY <1>1 DEF WriteKeyToFile, ReadKeyFromFile, IsKeyExists, SetEntKeyPair, Begin, Restart, Step,
     Probe, CreateBinaryEntFile, WriteEmptyTables, CheckDuplicate, LoadDocument,
     OpenForWriting, StoreDocument, ReadDocument, ConfirmKey, FindKey, Goto, Throw, Refuse, Return
<1>2. \/ WriteKeyToFile(p) \/ ReadKeyFromFile(p) \/ IsKeyExists(p)
      \/ SetEntKeyPair(p) \/ Restart(p) \/ Step(p)
  BY <1>1 DEF Next, vars
<1>3. ~Restart(p)
  BY DEF Restart, Ended
<1>4. ConfirmKey(p)
  BY <1>2, <1>3 DEF WriteKeyToFile, ReadKeyFromFile, IsKeyExists, SetEntKeyPair, Begin, Step,
     Probe, CreateBinaryEntFile, WriteEmptyTables, CheckDuplicate, LoadDocument,
     OpenForWriting, StoreDocument, ReadDocument, FindKey
<1>5. result'[p] = Lookup(snap[p], call[p].table, call[p].id)
  BY <1>4 DEF ConfirmKey, Throw, Return, Ended
<1>6. call[p].table \in Table /\ call[p].id \in KeyId
  OBVIOUS
<1>7. HasKey(snap[p], call[p].table, call[p].id)
  BY <1>5, <1>6, LookupFinds
<1>8. result'[p].value = snap[p][call[p].table][call[p].id]
  BY <1>5, <1>6, <1>7, LookupFinds
<1> QED
  BY <1>6, <1>7, <1>8

\* readKeyFromFile returns, if it returns a value, the value whose write
\* returned true, although it looks at the file twice and writers may come
\* in between (Aes256Cipher.cpp:113-140, RsaCipher.cpp:137-164), when
\* writers take turns and no failed open is taken for a missing file.
THEOREM ReadsAgree == Serial => (Spec => ReadAgreesWithWrite)
<1> SUFFICES ASSUME Serial PROVE Spec => ReadAgreesWithWrite
  OBVIOUS
<1>1. Init => ReadersKnow
  BY DEF Init, ReadersKnow
<1>2. Inv /\ ReadersKnow /\ [Next]_vars => ReadersKnow'
  BY KnowStep
<1> DEFINE Agrees ==
      \A p \in Proc : pc[p] = "confirm" /\ pc'[p] = "idle" /\ result'[p].kind = "value" =>
        \A k \in acked : k.table = call[p].table /\ k.id = call[p].id /\ ~mistaken =>
          k.value = result'[p].value
<1>3. Inv /\ ReadersKnow /\ [Next]_vars => [Agrees]_vars
  <2> SUFFICES ASSUME Inv, ReadersKnow, [Next]_vars, NEW p \in Proc, pc[p] = "confirm",
                      pc'[p] = "idle", result'[p].kind = "value", NEW k \in acked,
                      k.table = call[p].table, k.id = call[p].id, ~mistaken
               PROVE  k.value = result'[p].value
    OBVIOUS
  <2>1. /\ call[p].table \in Table /\ call[p].id \in KeyId
        /\ HasKey(snap[p], call[p].table, call[p].id)
        /\ result'[p].value = snap[p][call[p].table][call[p].id]
    BY ConfirmedValue DEF Inv
  <2>2. Settled(call[p].table, call[p].id, snap[p][call[p].table][call[p].id])
    BY <2>1 DEF ReadersKnow
  <2> QED
    BY <2>1, <2>2 DEF Settled
<1> QED
  BY <1>1, <1>2, <1>3, TurnsInvariant, PTL DEF Spec, ReadAgreesWithWrite

-----------------------------------------------------------------------------
(***************************************************************************)
(* What a write that returned true has written.  A failed open that was    *)
(* taken for a missing file may cost other keys, but not the one that is   *)
(* written: this invariant holds whatever was mistaken.                    *)
(***************************************************************************)
HoldsItsKey ==
  \A p \in Proc : pc[p] \in {"open", "store"} =>
    snap[p][call[p].table][call[p].id] = call[p].value

\* A writer that goes on keeps the document it has.
LEMMA HoldsItsKeyQuiet ==
  ASSUME HoldsItsKey,
         \A q \in Proc : pc'[q] \in {"open", "store"} =>
           pc[q] \in {"open", "store"} /\ snap'[q] = snap[q] /\ call'[q] = call[q]
  PROVE  HoldsItsKey'
BY DEF HoldsItsKey

\* The key is added when the document is read and stays there until the write.
LEMMA HoldsItsKeyStep == TypeOK /\ HoldsItsKey /\ [Next]_vars => HoldsItsKey'
<1> SUFFICES ASSUME TypeOK, HoldsItsKey, [Next]_vars PROVE HoldsItsKey'
  OBVIOUS
<1> DEFINE Keep == \A q \in Proc : pc'[q] \in {"open", "store"} =>
                     pc[q] \in {"open", "store"} /\ snap'[q] = snap[q] /\ call'[q] = call[q]
<1>0. Keep => HoldsItsKey'
  BY HoldsItsKeyQuiet
<1>1. CASE UNCHANGED vars
  <2>1. Keep
    BY <1>1 DEF vars
  <2> QED
    BY <1>0, <2>1
<1>2. ASSUME NEW p \in Proc,
             WriteKeyToFile(p) \/ ReadKeyFromFile(p) \/ IsKeyExists(p) \/ SetEntKeyPair(p)
      PROVE  HoldsItsKey'
  <2>1. Keep
    BY <1>2 DEF WriteKeyToFile, ReadKeyFromFile, IsKeyExists, SetEntKeyPair, Begin, TypeOK
  <2> QED
    BY <1>0, <2>1
<1>3. ASSUME NEW p \in Proc, Restart(p) PROVE HoldsItsKey'
  <2>1. Keep
    BY <1>3 DEF Restart, TypeOK
  <2> QED
    BY <1>0, <2>1
<1>4. ASSUME NEW p \in Proc,
             \/ Probe(p) \/ CreateBinaryEntFile(p) \/ WriteEmptyTables(p) \/ CheckDuplicate(p)
             \/ StoreDocument(p) \/ ConfirmKey(p) \/ FindKey(p)
      PROVE  HoldsItsKey'
  <2>1. Keep
    BY <1>4 DEF Probe, CreateBinaryEntFile, WriteEmptyTables, CheckDuplicate, StoreDocument,
       ConfirmKey, FindKey, Goto, Throw, Refuse, Return, TypeOK
  <2> QED
    BY <1>0, <2>1
<1>5. ASSUME NEW p \in Proc, ReadDocument(p) PROVE HoldsItsKey'
  <2>1. Keep
    BY <1>5 DEF ReadDocument, Goto, Throw, Return, TypeOK
  <2> QED
    BY <1>0, <2>1
<1>6. ASSUME NEW p \in Proc, OpenForWriting(p) PROVE HoldsItsKey'
  <2>1. Keep
    BY <1>6 DEF OpenForWriting, Goto, Throw, Return, TypeOK
  <2> QED
    BY <1>0, <2>1
<1>7. ASSUME NEW p \in Proc, LoadDocument(p) PROVE HoldsItsKey'
  <2>1. CASE Throw(p)
    <3>1. Keep
      BY <2>1 DEF Throw, Return, TypeOK
    <3> QED
      BY <1>0, <3>1
  <2>2. CASE /\ snap' = [snap EXCEPT ![p] =
                 AddKey(file.keys, call[p].table, call[p].id, call[p].value)]
             /\ Goto(p, "open")
    <3> DEFINE doc == AddKey(file.keys, call[p].table, call[p].id, call[p].value)
    <3>1. /\ call[p].table \in Table /\ call[p].id \in KeyId /\ call[p].value \in Value
          /\ file.keys \in Keys
      BY <1>7 DEF LoadDocument, TypeOK, Writers, File
    <3>2. doc[call[p].table][call[p].id] = call[p].value
      BY <3>1, AddKeyEffect
    <3> HIDE DEF doc
    <3>3. snap' = [snap EXCEPT ![p] = doc] /\ call' = call /\ pc' = [pc EXCEPT ![p] = "open"]
      BY <2>2 DEF doc, Goto
    <3> QED
      BY <3>2, <3>3 DEF HoldsItsKey, TypeOK
  <2> QED
    BY <1>7, <2>1, <2>2 DEF LoadDocument
<1> QED
  BY <1>1, <1>2, <1>3, <1>4, <1>5, <1>6, <1>7 DEF Next, Step

\* What writeKeyToFile's true says needs three things: writers that take
\* turns, public ENT keys that are keys, and a disk that takes every write.
\* Then, whatever opens failed, processes died or was mistaken before, the
\* file is a store that holds the key (Aes256Cipher.cpp:427-436).  The run
\* ent_badkey shows that the second is needed; without the third the stream
\* fails in lines 432-433, which nobody looks at.
THEOREM TrueIsWritten ==
  Serial /\ ~WriteMayFail /\ (\A pair \in EntPair : pair.pub # BadKey)
    => (Spec => TrueMeansWritten)
<1> SUFFICES ASSUME Serial, ~WriteMayFail, \A pair \in EntPair : pair.pub # BadKey
             PROVE  Spec => TrueMeansWritten
  OBVIOUS
<1> DEFINE Written == \A p \in Proc : pc[p] = "store" /\ pc'[p] = "idle" /\ result'[p].kind = "true" =>
                        /\ file'.form = "whole"
                        /\ file'.keys[call[p].table][call[p].id] = call[p].value
<1>1. Inv /\ HoldsItsKey /\ [Next]_vars => [Written]_vars
  <2> SUFFICES ASSUME Inv, HoldsItsKey, Next,
                      NEW p \in Proc, pc[p] = "store", pc'[p] = "idle", result'[p].kind = "true"
               PROVE  /\ file'.form = "whole"
                      /\ file'.keys[call[p].table][call[p].id] = call[p].value
    OBVIOUS
  <2>1. StoreDocument(p)
    <3>1. ASSUME NEW q \in Proc,
                 WriteKeyToFile(q) \/ ReadKeyFromFile(q) \/ IsKeyExists(q) \/ SetEntKeyPair(q)
          PROVE  FALSE
      BY <3>1 DEF WriteKeyToFile, ReadKeyFromFile, IsKeyExists, SetEntKeyPair, Begin, Inv, TypeOK
    <3>2. ASSUME NEW q \in Proc, Restart(q) PROVE FALSE
      <4>1. q = p
        BY <3>2 DEF Restart, Inv, TypeOK
      <4>2. result'[p] = Ended("none")
        BY <3>2, <4>1 DEF Restart, Inv, TypeOK
      <4> QED
        BY <4>2 DEF Ended
    <3>3. ASSUME NEW q \in Proc, Step(q) PROVE q = p
      BY <3>3 DEF Step, Probe, CreateBinaryEntFile, WriteEmptyTables, CheckDuplicate,
         LoadDocument, OpenForWriting, StoreDocument, ReadDocument, ConfirmKey, FindKey,
         Goto, Throw, Refuse, Return, Inv, TypeOK
    <3>4. Step(p)
      BY <3>1, <3>2, <3>3 DEF Next
    <3> QED
      BY <3>4 DEF Step, Probe, CreateBinaryEntFile, WriteEmptyTables, CheckDuplicate,
         LoadDocument, OpenForWriting, ReadDocument, ConfirmKey, FindKey
  <2>2. file.form = "empty"
    BY DEF Inv, WritersInTurn, WriterHoldsEmptyFile, Writing
  <2>3. ent[p].pub # BadKey
    BY DEF Inv, TypeOK
  <2>4. file' = [form |-> "whole", ent |-> ent[p].pub, keys |-> snap[p]]
    BY <2>1, <2>2, <2>3 DEF StoreDocument, WriteAndClose, Text, Overwritten, Encrypt
  <2> QED
    BY <2>4 DEF HoldsItsKey
<1>2. Init => HoldsItsKey
  BY DEF Init, HoldsItsKey
<1>3. Spec => []HoldsItsKey
  BY <1>2, TypeCorrect, HoldsItsKeyStep, PTL DEF Spec
<1> QED
  BY <1>1, <1>3, TurnsInvariant, PTL DEF Spec, TrueMeansWritten
=============================================================================
