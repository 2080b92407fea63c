-------------------------- MODULE TestProgramProofs --------------------------
(***************************************************************************)
(* Theorems about TestProgram, for any number of programs, any files,      *)
(* texts and keys, and any failures and deaths.                            *)
(***************************************************************************)
EXTENDS TestProgram, FileCipherProofs

-----------------------------------------------------------------------------
(***************************************************************************)
(* The key file.  Nobody changes the ENT key pair here, which leaves fewer *)
(* cases of every access than EntFile has.                                 *)
(***************************************************************************)
Doc(keys) == [form |-> "whole", ent |-> DefaultPair.pub, keys |-> keys]

KeyTypes ==
  /\ Ent!TypeOK
  /\ ent = [p \in Proc |-> DefaultPair]
  /\ file.form = "whole" => file.ent = DefaultPair.pub

\* p comes to the access `a` of the call c, with document d and result r.
Move(p, a, c, d, r) ==
  /\ pc' = [pc EXCEPT ![p] = a]
  /\ call' = [call EXCEPT ![p] = c]
  /\ snap' = [snap EXCEPT ![p] = d]
  /\ result' = [result EXCEPT ![p] = r]
  /\ ent' = ent

Goes(p, a) == Move(p, a, call[p], snap[p], result[p])

Ends(p, r) == Move(p, "idle", Ent!NoCall, Ent!NoKeys, r)

Slot(keys, p) == keys[call[p].table][call[p].id]

Flags == <<cutShort, mistaken>>

\* What a write that fails or is cut off may leave.
Remains(keys) == {file} \cup Ent!Overwritten(Doc(keys)) \cup {Ent!Blank("torn")}

\* A write of the file, whole or failed.
Writes(keys) ==
  /\ mistaken' = mistaken
  /\ \/ file' \in Ent!Overwritten(Doc(keys)) /\ cutShort' = cutShort
     \/ file' \in Remains(keys) /\ cutShort' = TRUE

\* What an access to the file does.
Effect(p) ==
  \/ /\ pc[p] = "probe" /\ file' = file /\ cutShort' = cutShort
     /\ \/ Goes(p, "dup") /\ file.form # "absent" /\ mistaken' = mistaken
        \/ Goes(p, "create") /\ mistaken' = (mistaken \/ file.form # "absent")
  \/ pc[p] = "create" /\ Goes(p, "init") /\ file' = Ent!Blank("empty") /\ UNCHANGED Flags
  \/ pc[p] = "init" /\ Goes(p, "dup") /\ Writes(Ent!NoKeys)
  \/ /\ pc[p] = "dup" /\ Goes(p, "load") /\ file' = file /\ cutShort' = cutShort
     /\ \/ mistaken' = (mistaken \/ file.form # "absent")
        \/ file.form = "whole" /\ Slot(file.keys, p) = NoValue /\ mistaken' = mistaken
  \/ /\ pc[p] = "load" /\ file.form = "whole" /\ file' = file /\ UNCHANGED Flags
     /\ Move(p, "open", call[p],
             Ent!AddKey(file.keys, call[p].table, call[p].id, call[p].value), result[p])
  \/ pc[p] = "open" /\ Goes(p, "store") /\ file' = Ent!Blank("empty") /\ UNCHANGED Flags
  \/ pc[p] = "store" /\ Ends(p, Ent!Ended("true")) /\ Writes(snap[p])
  \/ /\ pc[p] = "read" /\ file.form = "whole" /\ file' = file /\ UNCHANGED Flags
     /\ Move(p, "confirm", call[p], file.keys, result[p])
  \/ /\ pc[p] = "confirm" /\ file' = file /\ UNCHANGED Flags
     /\ Slot(snap[p], p) # NoValue
     /\ Ends(p, [kind |-> "value", value |-> Slot(snap[p], p)])
  \/ /\ pc[p] \notin Ent!Writing /\ file' = file /\ UNCHANGED Flags
     /\ \E k \in {"true", "false", "thrown", "undefined"} : Ends(p, Ent!Ended(k))

\* How an access that ends the call does it.
LEMMA ReturnEnds ==
  ASSUME KeyTypes, NEW p \in Proc, NEW r, Ent!Return(p, r)
  PROVE  Ends(p, r)
BY DEF Ent!Return, Ends, Move

LEMMA GotoGoes ==
  ASSUME KeyTypes, NEW p \in Proc, NEW a, Ent!Goto(p, a), snap' = snap
  PROVE  Goes(p, a)
<1>1. call = [call EXCEPT ![p] = call[p]] /\ snap = [snap EXCEPT ![p] = snap[p]]
      /\ result = [result EXCEPT ![p] = result[p]]
  BY DEF KeyTypes, Ent!TypeOK
<1> QED
  BY <1>1 DEF Ent!Goto, Goes, Move

\* With the pair that nobody changes, a file that decrypts is a whole one.
LEMMA OwnKey ==
  ASSUME KeyTypes, NEW p \in Proc
  PROVE  /\ Ent!Decodes(ent[p], file) <=> file.form = "whole"
         /\ ent[p].pub = DefaultPair.pub /\ ent[p].pub # BadKey
         /\ \A keys : Ent!Encrypt(ent[p].pub, keys) = Doc(keys)
BY KeyFileAssumption DEF KeyTypes, Ent!Decodes, Ent!Encrypt, Doc

\* Every access of EntFile does one of these things.
LEMMA StepEffect ==
  ASSUME KeyTypes, NEW p \in Proc, Ent!Step(p)
  PROVE  Effect(p)
<1> DEFINE Stops == /\ pc[p] \notin Ent!Writing /\ file' = file /\ UNCHANGED Flags
                    /\ \E k \in {"true", "false", "thrown", "undefined"} : Ends(p, Ent!Ended(k))
<1>s. Stops => Effect(p)
  BY DEF Effect
<1>t. ASSUME Ent!Throw(p), file' = file, UNCHANGED Flags, pc[p] \notin Ent!Writing PROVE Effect(p)
  <2>1. Ends(p, Ent!Ended("thrown"))
    BY <1>t, ReturnEnds DEF Ent!Throw
  <2> QED
    BY <2>1, <1>t, <1>s
<1>1. CASE Ent!Probe(p)
  BY <1>1, GotoGoes DEF Ent!Probe, Ent!Opens, Ent!TakeForMissing, Effect
<1>2. CASE Ent!CreateBinaryEntFile(p)
  <2>1. CASE file' = Ent!Blank("empty") /\ Ent!Goto(p, "init") /\ UNCHANGED snap
    BY <1>2, <2>1, GotoGoes DEF Ent!CreateBinaryEntFile, Effect, Flags
  <2>2. CASE Ent!Throw(p) /\ UNCHANGED file
    BY <1>2, <2>2, <1>t DEF Ent!CreateBinaryEntFile, Flags, Ent!Writing
  <2> QED
    BY <1>2, <2>1, <2>2 DEF Ent!CreateBinaryEntFile
<1>w. ASSUME NEW keys, Ent!Text(p) = Ent!Encrypt(ent[p].pub, keys), Ent!WriteAndClose(p),
             mistaken' = mistaken
      PROVE  Writes(keys)
  <2>1. Ent!Text(p) = Doc(keys) /\ ent[p].pub # BadKey /\ cutShort \in BOOLEAN
    BY <1>w, OwnKey DEF KeyTypes, Ent!TypeOK
  <2>2. Ent!Interrupted(Ent!Text(p)) = Remains(keys)
    BY <2>1 DEF Ent!Interrupted, Remains, Doc
  <2> QED
    BY <1>w, <2>1, <2>2 DEF Ent!WriteAndClose, Writes
<1>3. CASE Ent!WriteEmptyTables(p)
  <2>1. Writes(Ent!NoKeys)
    BY <1>3, <1>w DEF Ent!WriteEmptyTables, Ent!Text
  <2> QED
    BY <1>3, <2>1, GotoGoes DEF Ent!WriteEmptyTables, Effect
<1>4. CASE Ent!CheckDuplicate(p)
  <2>1. CASE Ent!Throw(p) /\ UNCHANGED mistaken
    BY <1>4, <2>1, <1>t DEF Ent!CheckDuplicate, Flags, Ent!Writing
  <2>2. CASE Ent!Refuse(p) /\ UNCHANGED <<acked, mistaken>>
    <3>1. PICK k \in {"false", "thrown"} : Ends(p, Ent!Ended(k))
      BY <2>2, ReturnEnds DEF Ent!Refuse
    <3> QED
      BY <1>4, <2>2, <3>1, <1>s DEF Ent!CheckDuplicate, Flags, Ent!Writing
  <2>3. CASE Ent!Goto(p, "load") /\ Ent!TakeForMissing /\ UNCHANGED snap
    BY <1>4, <2>3, GotoGoes DEF Ent!CheckDuplicate, Ent!TakeForMissing, Effect
  <2>4. CASE /\ Ent!Decodes(ent[p], file) /\ ~Ent!IsDuplicate(p)
             /\ Ent!Goto(p, "load") /\ UNCHANGED <<snap, mistaken>>
    BY <1>4, <2>4, GotoGoes, OwnKey
    DEF Ent!CheckDuplicate, Ent!IsDuplicate, Ent!HasKey, Slot, Effect
  <2> QED
    BY <1>4, <2>1, <2>2, <2>3, <2>4 DEF Ent!CheckDuplicate
<1>5. CASE Ent!LoadDocument(p)
  <2>1. CASE Ent!Throw(p)
    BY <1>5, <2>1, <1>t DEF Ent!LoadDocument, Flags, Ent!Writing
  <2>2. CASE /\ Ent!Decodes(ent[p], file)
             /\ snap' = [snap EXCEPT ![p] =
                           Ent!AddKey(file.keys, call[p].table, call[p].id, call[p].value)]
             /\ Ent!Goto(p, "open")
    <3>1. call = [call EXCEPT ![p] = call[p]] /\ result = [result EXCEPT ![p] = result[p]]
      BY DEF KeyTypes, Ent!TypeOK
    <3>2. Move(p, "open", call[p],
               Ent!AddKey(file.keys, call[p].table, call[p].id, call[p].value), result[p])
      BY <2>2, <3>1 DEF Ent!Goto, Move
    <3> QED
      BY <1>5, <2>2, <3>2, OwnKey DEF Ent!LoadDocument, Effect, Flags
  <2> QED
    BY <1>5, <2>1, <2>2 DEF Ent!LoadDocument
<1>6. CASE Ent!OpenForWriting(p)
  <2>1. CASE file' = Ent!Blank("empty") /\ Ent!Goto(p, "store") /\ UNCHANGED snap
    BY <1>6, <2>1, GotoGoes DEF Ent!OpenForWriting, Effect, Flags
  <2>2. CASE Ent!Throw(p) /\ UNCHANGED file
    BY <1>6, <2>2, <1>t DEF Ent!OpenForWriting, Flags, Ent!Writing
  <2> QED
    BY <1>6, <2>1, <2>2 DEF Ent!OpenForWriting
<1>7. CASE Ent!StoreDocument(p)
  <2>1. Writes(snap[p])
    BY <1>7, <1>w DEF Ent!StoreDocument, Ent!Text
  <2> QED
    BY <1>7, <2>1, ReturnEnds DEF Ent!StoreDocument, Effect
<1>8. CASE Ent!ReadDocument(p)
  <2>1. CASE Ent!Throw(p)
    BY <1>8, <2>1, <1>t DEF Ent!ReadDocument, Flags, Ent!Writing
  <2>2. CASE /\ Ent!Decodes(ent[p], file) /\ snap' = [snap EXCEPT ![p] = file.keys]
             /\ Ent!Goto(p, "confirm")
    <3>1. call = [call EXCEPT ![p] = call[p]] /\ result = [result EXCEPT ![p] = result[p]]
      BY DEF KeyTypes, Ent!TypeOK
    <3>2. Move(p, "confirm", call[p], file.keys, result[p])
      BY <2>2, <3>1 DEF Ent!Goto, Move
    <3> QED
      BY <1>8, <2>2, <3>2, OwnKey DEF Ent!ReadDocument, Effect, Flags
  <2> QED
    BY <1>8, <2>1, <2>2 DEF Ent!ReadDocument
<1>9. CASE Ent!ConfirmKey(p)
  <2>1. CASE Ent!Throw(p)
    BY <1>9, <2>1, <1>t DEF Ent!ConfirmKey, Flags, Ent!Writing
  <2>2. CASE Ent!Return(p, Ent!Lookup(snap[p], call[p].table, call[p].id)) /\ UNCHANGED acked
    <3> DEFINE r == Ent!Lookup(snap[p], call[p].table, call[p].id)
    <3>1. Ends(p, r)
      BY <2>2, ReturnEnds
    <3>2. \/ Slot(snap[p], p) # NoValue /\ r = [kind |-> "value", value |-> Slot(snap[p], p)]
          \/ r = Ent!Ended("thrown") \/ r = Ent!Ended("undefined")
      BY DEF Ent!Lookup, Ent!HasKey, Slot
    <3>3. pc[p] = "confirm" /\ file' = file /\ UNCHANGED Flags
      BY <1>9 DEF Ent!ConfirmKey, Flags
    <3> HIDE DEF r
    <3> QED
      BY <3>1, <3>2, <3>3, <1>s DEF Effect, Ent!Writing
  <2> QED
    BY <1>9, <2>1, <2>2 DEF Ent!ConfirmKey
<1>10. CASE Ent!FindKey(p)
  <2>1. PICK k \in {"true", "false", "thrown"} : Ent!Return(p, Ent!Ended(k))
    BY <1>10 DEF Ent!FindKey
  <2> QED
    BY <1>10, <2>1, <1>s, ReturnEnds DEF Ent!FindKey, Flags, Ent!Writing
<1> QED
  BY <1>1, <1>2, <1>3, <1>4, <1>5, <1>6, <1>7, <1>8, <1>9, <1>10 DEF Ent!Step

-----------------------------------------------------------------------------
(***************************************************************************)
(* The types of the key file.                                              *)
(***************************************************************************)
CallType == [table : Ent!Table \cup {"none"}, id : KeyId \cup {NoValue}, value : Value \cup {NoValue}]

LEMMA MoveTypes ==
  ASSUME KeyTypes, NEW p \in Proc,
         NEW a \in {"idle"} \cup Ent!Writers \cup Ent!Readers,
         NEW c \in CallType, NEW d \in Ent!Keys, NEW r \in Ent!Outcome,
         Move(p, a, c, d, r),
         a # "idle" => c.table \in Ent!Table /\ c.id \in KeyId,
         a \in Ent!Writers => c.value \in Value,
         file' \in Ent!File, file'.form = "whole" => file'.ent = DefaultPair.pub,
         acked' \subseteq [table : Ent!Table, id : KeyId, value : Value],
         cutShort' \in BOOLEAN, mistaken' \in BOOLEAN
  PROVE  KeyTypes'
<1>1. file'.form = "whole" => file'.ent # BadKey
  BY KeyFileAssumption
<1>2. /\ pc' \in [Proc -> {"idle"} \cup Ent!Writers \cup Ent!Readers]
      /\ call' \in [Proc -> CallType]
      /\ snap' \in [Proc -> Ent!Keys]
      /\ result' \in [Proc -> Ent!Outcome]
      /\ ent' \in [Proc -> EntPair]
  BY DEF Move, KeyTypes, Ent!TypeOK, CallType
<1>3. \A q \in Proc : pc'[q] # "idle" => call'[q].table \in Ent!Table /\ call'[q].id \in KeyId
  BY DEF Move, KeyTypes, Ent!TypeOK
<1>4. \A q \in Proc : pc'[q] \in Ent!Writers => call'[q].value \in Value
  BY DEF Move, KeyTypes, Ent!TypeOK
<1>5. Ent!TypeOK'
  BY <1>1, <1>2, <1>3, <1>4 DEF Ent!TypeOK, CallType
<1> QED
  BY <1>5 DEF KeyTypes, Move

LEMMA NoKeysType == Ent!NoKeys \in Ent!Keys /\ Ent!NoCall \in CallType
BY DEF Ent!NoKeys, Ent!Keys, Ent!NoCall, CallType

LEMMA EndedType ==
  \A k \in {"none", "true", "false", "thrown", "undefined"} : Ent!Ended(k) \in Ent!Outcome
BY DEF Ent!Ended, Ent!Outcome

LEMMA DocType ==
  ASSUME NEW keys \in Ent!Keys
  PROVE  Doc(keys) \in Ent!File /\ Doc(keys).form = "whole" /\ Doc(keys).ent = DefaultPair.pub
BY KeyFileAssumption DEF Doc, Ent!File, Ent!Form

LEMMA BlankType ==
  ASSUME NEW f \in {"absent", "empty", "torn"}
  PROVE  Ent!Blank(f) \in Ent!File /\ Ent!Blank(f).form = f
BY NoKeysType DEF Ent!Blank, Ent!File, Ent!Form

\* What a write, complete or not, may leave.
LEMMA WrittenType ==
  ASSUME KeyTypes, NEW keys \in Ent!Keys,
         NEW f \in Remains(keys)
  PROVE  f \in Ent!File /\ (f.form = "whole" => f.ent = DefaultPair.pub)
<1>1. f \in {file, Doc(keys), Ent!Blank("torn")}
  BY DEF Remains, Ent!Overwritten
<1> QED
  BY <1>1, DocType, BlankType DEF KeyTypes, Ent!TypeOK

LEMMA AckedType ==
  ASSUME KeyTypes, NEW p \in Proc, Ent!Step(p)
  PROVE  acked' \subseteq [table : Ent!Table, id : KeyId, value : Value]
<1>1. acked' = acked \/ (pc[p] = "store" /\ acked' = acked \cup {call[p]})
  BY DEF Ent!Step, Ent!Probe, Ent!CreateBinaryEntFile, Ent!WriteEmptyTables, Ent!CheckDuplicate,
     Ent!LoadDocument, Ent!OpenForWriting, Ent!StoreDocument, Ent!ReadDocument, Ent!ConfirmKey,
     Ent!FindKey, Ent!Goto, Ent!Throw
<1>2. pc[p] = "store" => call[p] \in [table : Ent!Table, id : KeyId, value : Value]
  <2> SUFFICES ASSUME pc[p] = "store"
               PROVE  call[p] \in [table : Ent!Table, id : KeyId, value : Value]
    OBVIOUS
  <2>1. call[p] \in CallType /\ call[p].table \in Ent!Table /\ call[p].id \in KeyId
    BY DEF KeyTypes, Ent!TypeOK, CallType
  <2>2. call[p].value \in Value
    BY DEF KeyTypes, Ent!TypeOK, Ent!Writers
  <2> QED
    BY <2>1, <2>2 DEF CallType
<1> QED
  BY <1>1, <1>2 DEF KeyTypes, Ent!TypeOK

LEMMA EffectTypes ==
  ASSUME KeyTypes, NEW p \in Proc, Effect(p),
         acked' \subseteq [table : Ent!Table, id : KeyId, value : Value]
  PROVE  KeyTypes'
<1>1. /\ file \in Ent!File /\ (file.form = "whole" => file.ent = DefaultPair.pub)
      /\ call[p] \in CallType /\ snap[p] \in Ent!Keys /\ result[p] \in Ent!Outcome
      /\ pc[p] # "idle" => call[p].table \in Ent!Table /\ call[p].id \in KeyId
      /\ pc[p] \in Ent!Writers => call[p].value \in Value
      /\ cutShort \in BOOLEAN /\ mistaken \in BOOLEAN
  BY DEF KeyTypes, Ent!TypeOK, CallType
<1>2. /\ cutShort' \in BOOLEAN /\ mistaken' \in BOOLEAN
  BY <1>1 DEF Effect, Flags, Writes
<1>3. file' \in Ent!File /\ (file'.form = "whole" => file'.ent = DefaultPair.pub)
  <2>1. \/ file' = file \/ file' = Ent!Blank("empty")
        \/ Writes(Ent!NoKeys) \/ Writes(snap[p])
    BY DEF Effect
  <2>2. ASSUME NEW keys \in Ent!Keys, Writes(keys)
        PROVE  file' \in Ent!File /\ (file'.form = "whole" => file'.ent = DefaultPair.pub)
    BY <2>2, WrittenType DEF Writes, Remains
  <2> QED
    BY <2>1, <2>2, <1>1, NoKeysType, BlankType
<1>4. ASSUME NEW a \in Ent!Writers, pc[p] \in Ent!Writers, Goes(p, a) PROVE KeyTypes'
  BY <1>1, <1>2, <1>3, <1>4, MoveTypes DEF Goes, Ent!Writers
<1>5. ASSUME NEW r \in Ent!Outcome, Ends(p, r) PROVE KeyTypes'
  BY <1>2, <1>3, <1>5, NoKeysType, MoveTypes DEF Ends, Ent!Writers
<1>6. ASSUME pc[p] = "load", file.form = "whole",
             Move(p, "open", call[p],
                  Ent!AddKey(file.keys, call[p].table, call[p].id, call[p].value), result[p])
      PROVE  KeyTypes'
  <2>1. call[p].table \in Ent!Table /\ call[p].id \in KeyId /\ call[p].value \in Value
        /\ file.keys \in Ent!Keys
    BY <1>1, <1>6 DEF Ent!Writers, Ent!File
  <2>2. Ent!AddKey(file.keys, call[p].table, call[p].id, call[p].value) \in Ent!Keys
    BY <2>1 DEF Ent!AddKey, Ent!Keys
  <2> QED
    BY <1>1, <1>2, <1>3, <1>6, <2>1, <2>2, MoveTypes DEF Ent!Writers
<1>7. ASSUME pc[p] = "read", Move(p, "confirm", call[p], file.keys, result[p]) PROVE KeyTypes'
  <2>1. file.keys \in Ent!Keys
    BY <1>1 DEF Ent!File
  <2> QED
    BY <1>1, <1>2, <1>3, <1>7, <2>1, MoveTypes DEF Ent!Writers, Ent!Readers
<1>8. ASSUME pc[p] = "confirm", Slot(snap[p], p) # NoValue,
             Ends(p, [kind |-> "value", value |-> Slot(snap[p], p)])
      PROVE  KeyTypes'
  <2>1. Slot(snap[p], p) \in Value
    BY <1>1, <1>8 DEF Slot, Ent!Keys
  <2>2. [kind |-> "value", value |-> Slot(snap[p], p)] \in Ent!Outcome
    BY <2>1 DEF Ent!Outcome
  <2> QED
    BY <1>5, <1>8, <2>2
<1>9. Ent!Ended("true") \in Ent!Outcome
      /\ \A k \in {"true", "false", "thrown", "undefined"} : Ent!Ended(k) \in Ent!Outcome
  BY EndedType
<1> QED
  BY <1>4, <1>5, <1>6, <1>7, <1>8, <1>9 DEF Effect, Ent!Writers

LEMMA StepTypes ==
  ASSUME KeyTypes, NEW p \in Proc, Ent!Step(p)
  PROVE  KeyTypes'
BY StepEffect, EffectTypes, AckedType

\* A call begins.
Begun(p, a, i, v) ==
  /\ pc[p] = "idle"
  /\ Move(p, a, [table |-> Aes, id |-> i, value |-> v], snap[p], result[p])
  /\ file' = file /\ acked' = acked /\ UNCHANGED Flags

LEMMA BeginEffect ==
  ASSUME KeyTypes, NEW p \in Proc, NEW a, NEW i, NEW v, Ent!Begin(p, a, Aes, i, v)
  PROVE  Begun(p, a, i, v)
<1>1. snap = [snap EXCEPT ![p] = snap[p]] /\ result = [result EXCEPT ![p] = result[p]]
  BY DEF KeyTypes, Ent!TypeOK
<1> QED
  BY <1>1 DEF Ent!Begin, Begun, Move, Flags

LEMMA BeginTypes ==
  ASSUME KeyTypes, NEW p \in Proc, NEW a \in {"probe", "read", "find"}, NEW i \in KeyId,
         NEW v \in Value \cup {NoValue}, a = "probe" => v \in Value, Begun(p, a, i, v)
  PROVE  KeyTypes'
<1>1. [table |-> Aes, id |-> i, value |-> v] \in CallType /\ Aes \in Ent!Table
  BY DEF CallType, Aes, Ent!Table
<1>2. /\ snap[p] \in Ent!Keys /\ result[p] \in Ent!Outcome
      /\ file' \in Ent!File /\ (file'.form = "whole" => file'.ent = DefaultPair.pub)
      /\ acked' \subseteq [table : Ent!Table, id : KeyId, value : Value]
      /\ cutShort' \in BOOLEAN /\ mistaken' \in BOOLEAN
  BY DEF KeyTypes, Ent!TypeOK, Begun, Flags
<1> QED
  BY <1>1, <1>2, MoveTypes DEF Begun, Ent!Writers, Ent!Readers

\* A program ends or dies; its file access may be left half done.
Stopped(p) ==
  /\ Ends(p, Ent!Ended("none"))
  /\ acked' = acked /\ mistaken' = mistaken
  /\ cutShort' = (cutShort \/ pc[p] \in Ent!Writing)
  /\ IF pc[p] \in Ent!Writing
     THEN file' \in Remains(IF pc[p] = "init" THEN Ent!NoKeys ELSE snap[p])
     ELSE file' = file

LEMMA RestartEffect ==
  ASSUME KeyTypes, NEW p \in Proc, Ent!Restart(p)
  PROVE  Stopped(p)
<1>1. ent' = ent
  BY DEF KeyTypes, Ent!Restart
<1>2. Ends(p, Ent!Ended("none"))
  BY <1>1 DEF Ent!Restart, Ends, Move
<1>3. Ent!Text(p) = Doc(IF pc[p] = "init" THEN Ent!NoKeys ELSE snap[p])
  BY OwnKey DEF Ent!Text
<1>4. Ent!Interrupted(Ent!Text(p)) = Remains(IF pc[p] = "init" THEN Ent!NoKeys ELSE snap[p])
  BY <1>3 DEF Ent!Interrupted, Remains, Doc
<1> QED
  BY <1>2, <1>4 DEF Ent!Restart, Stopped

LEMMA RestartTypes ==
  ASSUME KeyTypes, NEW p \in Proc, Stopped(p)
  PROVE  KeyTypes'
<1>1. file' \in Ent!File /\ (file'.form = "whole" => file'.ent = DefaultPair.pub)
  <2>1. (IF pc[p] = "init" THEN Ent!NoKeys ELSE snap[p]) \in Ent!Keys
    BY NoKeysType DEF KeyTypes, Ent!TypeOK
  <2>2. CASE pc[p] \in Ent!Writing
    BY <2>1, <2>2, WrittenType DEF Stopped
  <2>3. CASE pc[p] \notin Ent!Writing
    BY <2>3 DEF Stopped, KeyTypes, Ent!TypeOK
  <2> QED
    BY <2>2, <2>3
<1>2. /\ acked' \subseteq [table : Ent!Table, id : KeyId, value : Value]
      /\ cutShort' \in BOOLEAN /\ mistaken' \in BOOLEAN
  BY DEF Stopped, KeyTypes, Ent!TypeOK
<1>3. Ent!Ended("none") \in Ent!Outcome
  BY EndedType
<1> QED
  BY <1>1, <1>2, <1>3, NoKeysType, MoveTypes DEF Stopped, Ends, Ent!Writers

LEMMA SameTypes == ASSUME KeyTypes, UNCHANGED entVars PROVE KeyTypes'
BY DEF KeyTypes, Ent!TypeOK, entVars

-----------------------------------------------------------------------------
(***************************************************************************)
(* The types of the program: at every stage it is known which access to    *)
(* the key file is under way and which keys are in memory.                 *)
(***************************************************************************)
ProgTypes ==
  /\ task \in Task
  /\ stage \in [Proc -> Stages]
  /\ wanted \in [Proc -> KeyId]
  /\ held \in [Proc -> [KeyId -> Value \cup {NoValue}]]
  /\ dbKey \in [Db -> Value \cup {NoValue}]
  /\ users \subseteq {"admin", "blank"}

Prompted == {"admin", "hash", "login", "menu", "again"}

Local(p) ==
  /\ pc[p] # "idle" => call[p].table = Aes /\ call[p].id = wanted[p]
  /\ stage[p] = "find" => pc[p] \in {"idle", "find"}
  /\ stage[p] = "write" => pc[p] \in {"idle"} \cup Ent!Writers
  /\ stage[p] \in {"read", "again"} => pc[p] \in {"idle", "read", "confirm"}
  /\ stage[p] \notin {"find", "write", "read", "again"} => pc[p] = "idle"
  /\ stage[p] \in {"find", "write", "read"} =>
       /\ wanted[p] # K0 => held[p][K0] \in Value
       /\ wanted[p] = K2 => held[p][K1] \in Value
  /\ stage[p] \in {"tables", "encrypting", "decrypting"} \cup Prompted => held[p][K0] \in Value
  /\ stage[p] \in {"tables"} \cup Prompted => held[p][K1] \in Value
  /\ stage[p] \in Prompted => held[p][K2] \in Value

Types == KeyTypes /\ ProgTypes /\ \A p \in Proc : Local(p)

SoloFile(p) ==
  \A q \in Proc \ {p} : /\ pc'[q] = pc[q] /\ call'[q] = call[q]
                        /\ snap'[q] = snap[q] /\ result'[q] = result[q]

\* A step of p changes nothing of another program.
Solo(p) ==
  /\ SoloFile(p)
  /\ \A q \in Proc \ {p} : stage'[q] = stage[q] /\ wanted'[q] = wanted[q] /\ held'[q] = held[q]

LEMMA MoveAt ==
  ASSUME KeyTypes, NEW p \in Proc, NEW a, NEW c, NEW d, NEW r, Move(p, a, c, d, r)
  PROVE  /\ pc'[p] = a /\ call'[p] = c /\ snap'[p] = d /\ result'[p] = r
         /\ SoloFile(p)
BY DEF KeyTypes, Ent!TypeOK, Move, SoloFile

LEMMA OthersLocal ==
  ASSUME NEW p \in Proc, \A q \in Proc : Local(q), Solo(p), Local(p)'
  PROVE  \A q \in Proc : Local(q)'
BY DEF Local, Solo, SoloFile

LEMMA KeyNames == K0 \in KeyId /\ K1 \in KeyId /\ K2 \in KeyId /\ Shipped \in [KeyId -> Value]
BY ShippedAssumption DEF KeyId

\* p asks the key file for the key named i.
Asks(p, l, a, i, v) ==
  /\ To(p, l)
  /\ wanted' = [wanted EXCEPT ![p] = i]
  /\ Ent!Begin(p, a, Aes, i, v)

LEMMA AskEffect ==
  ASSUME KeyTypes, ProgTypes, NEW p \in Proc, NEW l \in Stages, NEW a \in {"probe", "read", "find"},
         NEW i \in KeyId, NEW v \in Value \cup {NoValue}, a = "probe" => v \in Value,
         Asks(p, l, a, i, v)
  PROVE  /\ KeyTypes'
         /\ stage' \in [Proc -> Stages] /\ wanted' \in [Proc -> KeyId]
         /\ stage'[p] = l /\ wanted'[p] = i /\ pc'[p] = a
         /\ call'[p].table = Aes /\ call'[p].id = i
         /\ SoloFile(p)
         /\ \A q \in Proc \ {p} : stage'[q] = stage[q] /\ wanted'[q] = wanted[q]
<1>1. Begun(p, a, i, v)
  BY BeginEffect DEF Asks
<1>2. KeyTypes'
  BY <1>1, BeginTypes
<1>3. /\ pc'[p] = a /\ call'[p] = [table |-> Aes, id |-> i, value |-> v] /\ SoloFile(p)
  BY <1>1, MoveAt DEF Begun
<1>4. /\ stage' \in [Proc -> Stages] /\ wanted' \in [Proc -> KeyId]
      /\ stage'[p] = l /\ wanted'[p] = i
      /\ \A q \in Proc \ {p} : stage'[q] = stage[q] /\ wanted'[q] = wanted[q]
  BY DEF Asks, To, ProgTypes
<1> QED
  BY <1>2, <1>3, <1>4

\* p goes on without a look at the key file.
LEMMA ToEffect ==
  ASSUME KeyTypes, ProgTypes, NEW p \in Proc, NEW l \in Stages, To(p, l), UNCHANGED <<entVars, wanted>>
  PROVE  /\ KeyTypes'
         /\ stage' \in [Proc -> Stages] /\ stage'[p] = l /\ wanted' = wanted /\ pc' = pc /\ call' = call
         /\ SoloFile(p)
         /\ \A q \in Proc \ {p} : stage'[q] = stage[q] /\ wanted'[q] = wanted[q]
<1>1. KeyTypes'
  BY SameTypes
<1>2. /\ pc' = pc /\ call' = call /\ SoloFile(p)
  BY DEF entVars, SoloFile
<1> QED
  BY <1>1, <1>2 DEF To, ProgTypes

\* p holds the key it has got.
LEMMA GotKeyEffect ==
  ASSUME KeyTypes, ProgTypes, NEW p \in Proc, NEW i \in KeyId, GotKey(p, i)
  PROVE  /\ stage[p] = "read" /\ pc[p] = "idle" /\ wanted[p] = i
         /\ result[p].kind = "value" /\ result[p].value \in Value
         /\ held' \in [Proc -> [KeyId -> Value \cup {NoValue}]]
         /\ held'[p][i] = result[p].value
         /\ \A j \in KeyId \ {i} : held'[p][j] = held[p][j]
         /\ \A q \in Proc \ {p} : held'[q] = held[q]
<1>1. result[p].value \in Value
  BY DEF GotKey, KeyTypes, Ent!TypeOK, Ent!Outcome
<1>2. held' = [held EXCEPT ![p][i] = result[p].value]
  BY DEF GotKey
<1> QED
  BY <1>1, <1>2 DEF GotKey, At, ProgTypes

\* p is over, or dead.
LEMMA ExitEffect ==
  ASSUME KeyTypes, ProgTypes, NEW p \in Proc, Exit(p)
  PROVE  /\ Stopped(p) /\ KeyTypes'
         /\ stage' \in [Proc -> Stages] /\ wanted' \in [Proc -> KeyId]
         /\ held' \in [Proc -> [KeyId -> Value \cup {NoValue}]]
         /\ stage'[p] = "off" /\ pc'[p] = "idle" /\ held'[p] = NothingHeld
         /\ Solo(p)
<1>1. Stopped(p)
  BY RestartEffect DEF Exit
<1>2. pc'[p] = "idle" /\ SoloFile(p)
  BY <1>1, MoveAt DEF Stopped, Ends
<1>3. KeyTypes'
  BY <1>1, RestartTypes
<1>4. NothingHeld \in [KeyId -> Value \cup {NoValue}]
  BY DEF NothingHeld
<1>5. /\ stage' \in [Proc -> Stages] /\ wanted' \in [Proc -> KeyId]
      /\ held' \in [Proc -> [KeyId -> Value \cup {NoValue}]]
      /\ stage'[p] = "off" /\ held'[p] = NothingHeld
      /\ \A q \in Proc \ {p} : stage'[q] = stage[q] /\ wanted'[q] = wanted[q] /\ held'[q] = held[q]
  BY <1>4, KeyNames DEF Exit, To, ProgTypes, Stages
<1> QED
  BY <1>1, <1>2, <1>3, <1>5 DEF Solo

LEMMA GeneratedType == Unused # {} => Generated \in Value /\ Generated \notin InUse
<1>1. Unused # {} => Generated \in Unused
  BY DEF Generated
<1> QED
  BY <1>1 DEF Unused

\* Getting a key, up to the answer of the key file.
LEMMA AccessTypes ==
  ASSUME Types, NEW p \in Proc, Ent!Step(p), UNCHANGED <<task, stage, wanted, held, dbKey, users>>
  PROVE  Types' /\ Solo(p)
<1>1. KeyTypes' /\ Effect(p)
  BY StepTypes, StepEffect DEF Types
<1>2. ProgTypes'
  BY DEF Types, ProgTypes
<1>3. /\ SoloFile(p)
      /\ \/ pc'[p] = "idle"
         \/ /\ call'[p] = call[p]
            /\ \/ pc[p] \in Ent!Writers /\ pc'[p] \in Ent!Writers
               \/ pc[p] = "read" /\ pc'[p] = "confirm"
  BY <1>1, MoveAt DEF Effect, Goes, Ends, Types, Ent!Writers
<1>4. Solo(p)
  BY <1>3 DEF Solo
<1>5. Local(p)'
  BY <1>3 DEF Types, Local, Ent!Writers
<1> QED
  BY <1>1, <1>2, <1>4, <1>5, OthersLocal DEF Types

LEMMA MakeKeyTypes ==
  ASSUME Types, NEW p \in Proc, MakeKey(p), task' = task
  PROVE  Types' /\ Solo(p)
<1>0. Generated \in Value /\ wanted[p] \in KeyId
  BY GeneratedType DEF MakeKey, Types, ProgTypes
<1>1. Asks(p, "write", "probe", wanted[p], Generated)
  BY DEF MakeKey, Asks, Types, ProgTypes
<1>2. /\ KeyTypes' /\ SoloFile(p) /\ pc'[p] = "probe" /\ stage'[p] = "write"
      /\ call'[p].table = Aes /\ call'[p].id = wanted[p]
      /\ stage' \in [Proc -> Stages]
      /\ \A q \in Proc \ {p} : stage'[q] = stage[q] /\ wanted'[q] = wanted[q]
  BY <1>0, <1>1, AskEffect DEF Types, Stages
<1>3. ProgTypes' /\ Solo(p)
  BY <1>2 DEF MakeKey, Types, ProgTypes, Solo
<1>4. Local(p)'
  BY <1>2 DEF MakeKey, At, Types, Local, Ent!Writers, Prompted
<1> QED
  BY <1>2, <1>3, <1>4, OthersLocal DEF Types

LEMMA ReadKeyTypes ==
  ASSUME Types, NEW p \in Proc, ReadKey(p), task' = task
  PROVE  Types' /\ Solo(p)
<1>1. Asks(p, "read", "read", wanted[p], NoValue) /\ wanted[p] \in KeyId
  BY DEF ReadKey, Read, Asks, Types, ProgTypes
<1>2. /\ KeyTypes' /\ SoloFile(p) /\ pc'[p] = "read" /\ stage'[p] = "read"
      /\ call'[p].table = Aes /\ call'[p].id = wanted[p] /\ wanted'[p] = wanted[p]
      /\ stage' \in [Proc -> Stages] /\ wanted' \in [Proc -> KeyId]
      /\ \A q \in Proc \ {p} : stage'[q] = stage[q] /\ wanted'[q] = wanted[q]
  BY <1>1, AskEffect DEF Types, Stages
<1>3. ProgTypes' /\ Solo(p)
  BY <1>2 DEF ReadKey, Types, ProgTypes, Solo
<1>4. Local(p)'
  BY <1>2 DEF ReadKey, At, Types, Local, Prompted
<1> QED
  BY <1>2, <1>3, <1>4, OthersLocal DEF Types

LEMMA ExitTypes ==
  ASSUME Types, NEW p \in Proc, Exit(p), UNCHANGED <<task, dbKey, users>>
  PROVE  Types' /\ Solo(p)
<1>1. /\ KeyTypes' /\ Solo(p) /\ stage'[p] = "off" /\ pc'[p] = "idle"
      /\ stage' \in [Proc -> Stages] /\ wanted' \in [Proc -> KeyId]
      /\ held' \in [Proc -> [KeyId -> Value \cup {NoValue}]]
  BY ExitEffect DEF Types
<1>2. ProgTypes' /\ Local(p)'
  BY <1>1 DEF Types, ProgTypes, Local, Prompted
<1> QED
  BY <1>1, <1>2, OthersLocal DEF Types

LEMMA ConstructDatabaseTypes ==
  ASSUME Types, NEW p \in Proc, ConstructDatabase(p), task' = task
  PROVE  Types' /\ Solo(p)
<1>1. Asks(p, "find", "find", K1, NoValue)
  BY DEF ConstructDatabase, Find, Asks
<1>2. /\ KeyTypes' /\ SoloFile(p) /\ pc'[p] = "find" /\ stage'[p] = "find"
      /\ call'[p].table = Aes /\ call'[p].id = K1 /\ wanted'[p] = K1
      /\ stage' \in [Proc -> Stages] /\ wanted' \in [Proc -> KeyId]
      /\ \A q \in Proc \ {p} : stage'[q] = stage[q] /\ wanted'[q] = wanted[q]
  BY <1>1, AskEffect, KeyNames DEF Types, Stages
<1>3. /\ held' \in [Proc -> [KeyId -> Value \cup {NoValue}]] /\ held'[p][K0] \in Value
      /\ \A q \in Proc \ {p} : held'[q] = held[q]
  BY GotKeyEffect, KeyNames DEF ConstructDatabase, Types
<1>4. ProgTypes' /\ Solo(p)
  BY <1>2, <1>3 DEF ConstructDatabase, GotKey, Types, ProgTypes, Solo
<1>5. Local(p)'
  BY <1>2, <1>3, KeyFileAssumption DEF Types, Local, Prompted
<1> QED
  BY <1>2, <1>4, <1>5, OthersLocal DEF Types

LEMMA ConstructedTypes ==
  ASSUME Types, NEW p \in Proc, Constructed(p), task' = task
  PROVE  Types' /\ Solo(p)
<1>1. PICK l \in {"menu", "tables"} : To(p, l) /\ (l = "menu" => Started(p))
  BY DEF Constructed
<1>2. /\ KeyTypes' /\ SoloFile(p) /\ pc' = pc /\ call' = call /\ wanted' = wanted
      /\ stage' \in [Proc -> Stages] /\ stage'[p] = l
      /\ \A q \in Proc \ {p} : stage'[q] = stage[q] /\ wanted'[q] = wanted[q]
  BY <1>1, ToEffect DEF Constructed, Types, Stages
<1>3. /\ stage[p] = "read" /\ pc[p] = "idle" /\ wanted[p] = K1
      /\ held' \in [Proc -> [KeyId -> Value \cup {NoValue}]] /\ held'[p][K1] \in Value
      /\ held'[p][K0] = held[p][K0] /\ held'[p][K2] = held[p][K2]
      /\ \A q \in Proc \ {p} : held'[q] = held[q]
  BY GotKeyEffect, KeyNames, KeyFileAssumption DEF Constructed, Types
<1>4. ProgTypes' /\ Solo(p)
  BY <1>2, <1>3 DEF Constructed, GotKey, Types, ProgTypes, Solo
<1>5. held[p][K0] \in Value /\ (l = "menu" => held[p][K2] \in Value)
  BY <1>1, <1>3, KeyNames, KeyFileAssumption DEF Types, Local, ProgTypes, Started
<1>6. Local(p)'
  BY <1>2, <1>3, <1>5 DEF Types, Local, Prompted
<1> QED
  BY <1>2, <1>4, <1>6, OthersLocal DEF Types

\* The database takes the key of its first writer.
LEMMA FirstKeyType ==
  ASSUME ProgTypes, NEW d \in Db, NEW k \in Value,
         dbKey' = dbKey \/ dbKey' = [dbKey EXCEPT ![d] = k]
  PROVE  dbKey' \in [Db -> Value \cup {NoValue}]
BY DEF ProgTypes

LEMMA CreateTableTypes ==
  ASSUME Types, NEW p \in Proc, CreateTable(p), task' = task
  PROVE  Types' /\ Solo(p)
<1>1. Asks(p, "find", "find", K2, NoValue)
  BY DEF CreateTable, Find, Asks
<1>2. /\ KeyTypes' /\ SoloFile(p) /\ pc'[p] = "find" /\ stage'[p] = "find"
      /\ call'[p].table = Aes /\ call'[p].id = K2 /\ wanted'[p] = K2
      /\ stage' \in [Proc -> Stages] /\ wanted' \in [Proc -> KeyId]
      /\ \A q \in Proc \ {p} : stage'[q] = stage[q] /\ wanted'[q] = wanted[q]
  BY <1>1, AskEffect, KeyNames DEF Types, Stages
<1>3. held[p][K0] \in Value /\ held[p][K1] \in Value
  BY DEF CreateTable, At, Types, Local
<1>4. dbKey' \in [Db -> Value \cup {NoValue}]
  BY <1>3, FirstKeyType DEF CreateTable, Types, Db
<1>5. ProgTypes' /\ Solo(p)
  BY <1>2, <1>4 DEF CreateTable, Types, ProgTypes, Solo
<1>6. Local(p)'
  BY <1>2, <1>3 DEF CreateTable, Types, Local, Prompted
<1> QED
  BY <1>2, <1>5, <1>6, OthersLocal DEF Types

LEMMA GotAdminKeyTypes ==
  ASSUME Types, NEW p \in Proc, GotAdminKey(p), task' = task
  PROVE  Types' /\ Solo(p)
<1>2. /\ KeyTypes' /\ SoloFile(p) /\ pc' = pc /\ call' = call /\ wanted' = wanted
      /\ stage' \in [Proc -> Stages] /\ stage'[p] = "admin"
      /\ \A q \in Proc \ {p} : stage'[q] = stage[q] /\ wanted'[q] = wanted[q]
  BY ToEffect DEF GotAdminKey, Types, Stages
<1>3. /\ stage[p] = "read" /\ pc[p] = "idle" /\ wanted[p] = K2
      /\ held' \in [Proc -> [KeyId -> Value \cup {NoValue}]] /\ held'[p][K2] \in Value
      /\ held'[p][K0] = held[p][K0] /\ held'[p][K1] = held[p][K1]
      /\ \A q \in Proc \ {p} : held'[q] = held[q]
  BY GotKeyEffect, KeyNames, KeyFileAssumption DEF GotAdminKey, Types
<1>4. ProgTypes' /\ Solo(p)
  BY <1>2, <1>3 DEF GotAdminKey, GotKey, Types, ProgTypes, Solo
<1>5. Local(p)'
  BY <1>2, <1>3, KeyFileAssumption DEF Types, Local, Prompted
<1> QED
  BY <1>2, <1>4, <1>5, OthersLocal DEF Types

\* A step from one stage at which p holds all keys to another.
LEMMA PromptedTypes ==
  ASSUME Types, NEW p \in Proc, NEW l \in Prompted \ {"again"}, stage[p] \in Prompted, pc[p] = "idle",
         To(p, l), UNCHANGED <<entVars, task, wanted, held>>,
         dbKey' \in [Db -> Value \cup {NoValue}], users' \subseteq {"admin", "blank"}
  PROVE  Types' /\ Solo(p)
<1>1. /\ KeyTypes' /\ SoloFile(p) /\ pc' = pc /\ call' = call /\ wanted' = wanted
      /\ stage' \in [Proc -> Stages] /\ stage'[p] = l
      /\ \A q \in Proc \ {p} : stage'[q] = stage[q] /\ wanted'[q] = wanted[q]
  BY ToEffect DEF Types, Stages, Prompted
<1>2. ProgTypes' /\ Solo(p)
  BY <1>1 DEF Types, ProgTypes, Solo
<1>3. Local(p)'
  BY <1>1 DEF Types, Local, Prompted
<1> QED
  BY <1>1, <1>2, <1>3, OthersLocal DEF Types

LEMMA StoreAdminTypes ==
  ASSUME Types, NEW p \in Proc, StoreAdmin(p), task' = task
  PROVE  Types' /\ Solo(p)
<1>1. PICK l \in {"hash", "login"} : To(p, l)
  BY DEF StoreAdmin
<1>2. users' \subseteq {"admin", "blank"}
  BY DEF StoreAdmin, AdminName, Types, ProgTypes
<1> QED
  BY <1>1, <1>2, PromptedTypes DEF StoreAdmin, At, Prompted, Types, ProgTypes

LEMMA StoreHashTypes ==
  ASSUME Types, NEW p \in Proc, StoreHash(p), task' = task
  PROVE  Types' /\ Solo(p)
<1>1. held[p][K1] \in Value
  BY DEF StoreHash, At, Types, Local, Prompted
<1>2. dbKey' \in [Db -> Value \cup {NoValue}]
  BY <1>1, FirstKeyType DEF StoreHash, Types, Db
<1> QED
  BY <1>2, PromptedTypes DEF StoreHash, At, Prompted, Types, ProgTypes

LEMMA LoginTypes ==
  ASSUME Types, NEW p \in Proc, Login(p), task' = task
  PROVE  Types' /\ Solo(p)
BY PromptedTypes DEF Login, At, Prompted, Types, ProgTypes

LEMMA ExportTypes ==
  ASSUME Types, NEW p \in Proc, Export(p) \/ ExportHashes(p), task' = task
  PROVE  Types' /\ Solo(p)
<1>0. /\ stage[p] \in {"menu", "again"} /\ pc[p] = "idle"
      /\ UNCHANGED <<held, dbKey, users>>
  BY DEF Export, ExportHashes, At
<1>1. PICK l \in {"again", "find"}, a \in {"read", "find"} :
        Asks(p, l, a, K1, NoValue) /\ (l = "again" <=> a = "read")
  BY DEF Export, ExportHashes, Find, Asks
<1>2. /\ KeyTypes' /\ SoloFile(p) /\ pc'[p] = a /\ stage'[p] = l
      /\ call'[p].table = Aes /\ call'[p].id = K1 /\ wanted'[p] = K1
      /\ stage' \in [Proc -> Stages] /\ wanted' \in [Proc -> KeyId]
      /\ \A q \in Proc \ {p} : stage'[q] = stage[q] /\ wanted'[q] = wanted[q]
  BY <1>1, AskEffect, KeyNames DEF Types, Stages
<1>3. ProgTypes' /\ Solo(p)
  BY <1>0, <1>2 DEF Types, ProgTypes, Solo
<1>4. Local(p)'
  BY <1>0, <1>1, <1>2, KeyFileAssumption DEF Types, Local, Prompted
<1> QED
  BY <1>2, <1>3, <1>4, OthersLocal DEF Types

LEMMA EncryptOriginTypes ==
  ASSUME Types, NEW p \in Proc, EncryptOrigin(p), task' = task
  PROVE  Types' /\ Solo(p)
<1>2. /\ KeyTypes' /\ SoloFile(p) /\ pc' = pc /\ call' = call /\ wanted' = wanted
      /\ stage' \in [Proc -> Stages] /\ stage'[p] = "encrypting"
      /\ \A q \in Proc \ {p} : stage'[q] = stage[q] /\ wanted'[q] = wanted[q]
  BY ToEffect DEF EncryptOrigin, Types, Stages
<1>3. /\ stage[p] = "read" /\ pc[p] = "idle"
      /\ held' \in [Proc -> [KeyId -> Value \cup {NoValue}]] /\ held'[p][K0] \in Value
      /\ \A q \in Proc \ {p} : held'[q] = held[q]
  BY GotKeyEffect, KeyNames DEF EncryptOrigin, Types
<1>4. ProgTypes' /\ Solo(p)
  BY <1>2, <1>3 DEF EncryptOrigin, GotKey, Types, ProgTypes, Solo
<1>5. Local(p)'
  BY <1>2, <1>3 DEF Types, Local, Prompted
<1> QED
  BY <1>2, <1>4, <1>5, OthersLocal DEF Types

LEMMA DecryptEncryptedTypes ==
  ASSUME Types, NEW p \in Proc, DecryptEncrypted(p), task' = task
  PROVE  Types' /\ Solo(p)
<1>1. /\ KeyTypes' /\ SoloFile(p) /\ pc' = pc /\ call' = call /\ wanted' = wanted
      /\ stage' \in [Proc -> Stages] /\ stage'[p] = "decrypting"
      /\ \A q \in Proc \ {p} : stage'[q] = stage[q] /\ wanted'[q] = wanted[q]
  BY ToEffect DEF DecryptEncrypted, Types, Stages
<1>2. ProgTypes' /\ Solo(p)
  BY <1>1 DEF DecryptEncrypted, Types, ProgTypes, Solo
<1>3. Local(p)'
  BY <1>1 DEF DecryptEncrypted, At, Types, Local, Prompted
<1> QED
  BY <1>1, <1>2, <1>3, OthersLocal DEF Types

LEMMA StartTypes ==
  ASSUME Types, NEW p \in Proc, Start(p), task' = task
  PROVE  Types' /\ Solo(p)
<1>1. Asks(p, "find", "find", K0, NoValue)
  BY DEF Start, Find, Asks
<1>2. /\ KeyTypes' /\ SoloFile(p) /\ pc'[p] = "find" /\ stage'[p] = "find"
      /\ call'[p].table = Aes /\ call'[p].id = K0 /\ wanted'[p] = K0
      /\ stage' \in [Proc -> Stages] /\ wanted' \in [Proc -> KeyId]
      /\ \A q \in Proc \ {p} : stage'[q] = stage[q] /\ wanted'[q] = wanted[q]
  BY <1>1, AskEffect, KeyNames DEF Types, Stages
<1>3. ProgTypes' /\ Solo(p)
  BY <1>2 DEF Start, Types, ProgTypes, Solo
<1>4. Local(p)'
  BY <1>2, KeyFileAssumption DEF Types, Local, Prompted
<1> QED
  BY <1>2, <1>3, <1>4, OthersLocal DEF Types

LEMMA QuietTypes ==
  ASSUME Types, UNCHANGED <<entVars, task, stage, wanted, held, dbKey, users>>
  PROVE  Types'
<1>1. KeyTypes'
  BY SameTypes DEF Types
<1> QED
  BY <1>1 DEF Types, ProgTypes, Local, entVars

\* A step of p, alone or with its user.
ProcStep(p) == Runs(p) \/ ((Start(p) \/ Menu(p) \/ Die(p)) /\ UNCHANGED task)

\* A step of the files or of those who use them without a program.
OtherStep == Operates \/ ((PutFile \/ LibraryCall \/ CallerDies) /\ UNCHANGED task)

LEMMA NextSteps == Next => (\E p \in Proc : ProcStep(p)) \/ OtherStep
BY DEF Next, World, ProcStep, OtherStep

LEMMA ProcStepTypes ==
  ASSUME Types, NEW p \in Proc, ProcStep(p)
  PROVE  Types' /\ Solo(p)
<1>1. CASE FileAccess(p) /\ UNCHANGED task
  BY <1>1, AccessTypes DEF FileAccess
<1>2. CASE GetKeys(p) /\ UNCHANGED task
  BY <1>2, MakeKeyTypes, ReadKeyTypes, ExitTypes DEF GetKeys, NoKey
<1>3. CASE SetUp(p) /\ UNCHANGED task
  BY <1>3, ConstructDatabaseTypes, ConstructedTypes, CreateTableTypes, GotAdminKeyTypes,
     StoreAdminTypes, StoreHashTypes, ExportTypes DEF SetUp
<1>4. CASE Task1(p) /\ UNCHANGED task
  BY <1>4, EncryptOriginTypes, DecryptEncryptedTypes, ExitTypes DEF Task1, EndTask1
<1>5. CASE Start(p) /\ UNCHANGED task
  BY <1>5, StartTypes
<1>6. CASE Menu(p) /\ UNCHANGED task
  BY <1>6, LoginTypes, ExportTypes, ExitTypes DEF Menu, Quit
<1>7. CASE Die(p) /\ UNCHANGED task
  BY <1>7, ExitTypes DEF Die, Exit
<1> QED
  BY <1>1, <1>2, <1>3, <1>4, <1>5, <1>6, <1>7 DEF ProcStep, Runs

LEMMA OtherStepQuiet ==
  OtherStep => UNCHANGED <<entVars, task, stage, wanted, held, dbKey, users, hashed, raced, flawed>>
BY DEF OtherStep, Operates, Files, PutFile, LibraryCall, CallerDies

LEMMA TypesInit == Init => Types
<1> SUFFICES ASSUME Init PROVE Types
  OBVIOUS
<1>1. file \in Ent!File /\ (file.form = "whole" => file.ent = DefaultPair.pub /\ file.ent # BadKey)
  <2>1. CASE file = Ent!Blank("absent")
    BY <2>1, BlankType
  <2>2. CASE file = ShippedFile
    <3>1. [Ent!NoKeys EXCEPT ![Aes] = Shipped] \in Ent!Keys
      BY ShippedAssumption DEF Ent!NoKeys, Ent!Keys
    <3>2. file = Doc([Ent!NoKeys EXCEPT ![Aes] = Shipped])
      BY <2>2 DEF ShippedFile, Doc
    <3> QED
      BY <3>1, <3>2, DocType, KeyFileAssumption
  <2> QED
    BY <2>1, <2>2 DEF Init
<1>2. KeyTypes
  <2>1. /\ pc \in [Proc -> {"idle"}]
        /\ call \in [Proc -> CallType] /\ snap \in [Proc -> Ent!Keys]
        /\ result \in [Proc -> Ent!Outcome]
    BY NoKeysType, EndedType DEF Init
  <2>2. ent = [p \in Proc |-> DefaultPair] /\ ent \in [Proc -> EntPair]
    BY KeyFileAssumption DEF Init
  <2>3. acked = {} /\ cutShort = FALSE /\ mistaken = FALSE
    BY DEF Init
  <2> QED
    BY <1>1, <2>1, <2>2, <2>3 DEF KeyTypes, Ent!TypeOK, CallType, Ent!Writers
<1>3. dbKey \in [Db -> Value \cup {NoValue}] /\ users \subseteq {"admin", "blank"}
  <2>1. \A d \in Db : Shipped[KeyOf(d)] \in Value
    BY KeyNames DEF KeyOf
  <2> QED
    BY <2>1 DEF Init
<1>4. ProgTypes
  <2>1. NothingHeld \in [KeyId -> Value \cup {NoValue}]
    BY DEF NothingHeld
  <2> QED
    BY <1>3, <2>1, KeyNames DEF Init, ProgTypes, Stages
<1>5. \A p \in Proc : Local(p)
  BY DEF Init, Local, Prompted
<1> QED
  BY <1>2, <1>4, <1>5 DEF Types

LEMMA TypesStep == Types /\ [Next]_vars => Types'
<1> SUFFICES ASSUME Types, [Next]_vars PROVE Types'
  OBVIOUS
<1>1. ASSUME NEW p \in Proc, ProcStep(p) PROVE Types'
  BY <1>1, ProcStepTypes
<1>2. CASE OtherStep
  BY <1>2, OtherStepQuiet, QuietTypes
<1>3. CASE UNCHANGED vars
  BY <1>3, QuietTypes DEF vars, progVars
<1> QED
  BY <1>1, <1>2, <1>3, NextSteps

LEMMA TypesInvariant == Spec => []Types
BY TypesInit, TypesStep, PTL DEF Spec

-----------------------------------------------------------------------------
(***************************************************************************)
(* The file operations under these programs: whatever they do is a call, a *)
(* step, a death in a call or a change between two calls.                  *)
(***************************************************************************)
FilesNext == AnyCall \/ FileStep \/ Abort \/ Others

LEMMA AesCall ==
  ASSUME NEW k \in Value, NEW way \in {"encrypt", "decrypt"}, NEW from \in Dir, NEW to \in Dir,
         Call("aes", way, k, from, to, Present(from))
  PROVE  AnyCall
<1>1. k \in AesKey /\ Present(from) \in SUBSET Name
  BY ShippedAssumption DEF Present
<1> QED
  BY <1>1 DEF AnyCall

LEMMA FilesStep == Types /\ DiskOK /\ [Next]_vars => [FilesNext]_fileVars
<1> SUFFICES ASSUME Types, DiskOK, Next PROVE FilesNext \/ UNCHANGED fileVars
  BY DEF vars, fileVars
<1>d. "origin" \in Dir /\ "encrypted" \in Dir /\ "decrypted" \in Dir
  BY TaskAssumption
<1>1. ASSUME NEW p \in Proc, ProcStep(p) PROVE FilesNext \/ UNCHANGED fileVars
  <2>1. CASE EncryptOrigin(p)
    <3>1. result[p].value \in Value
      BY <2>1, GotKeyEffect, KeyNames DEF EncryptOrigin, Types
    <3> QED
      BY <2>1, <3>1, <1>d, AesCall DEF EncryptOrigin, FilesNext
  <2>2. CASE DecryptEncrypted(p)
    <3>1. held[p][K0] \in Value
      BY <2>2 DEF DecryptEncrypted, At, Types, Local
    <3> QED
      BY <2>2, <3>1, <1>d, AesCall DEF DecryptEncrypted, FilesNext
  <2>3. CASE Die(p)
    BY <2>3 DEF Die, FilesNext
  <2>4. CASE EndTask1(p) \/ Start(p)
    BY <2>4 DEF EndTask1, Start
  <2>5. CASE FileAccess(p) \/ GetKeys(p) \/ SetUp(p) \/ Menu(p)
    BY <2>5 DEF FileAccess, GetKeys, SetUp, Menu
  <2> QED
    BY <1>1, <2>1, <2>2, <2>3, <2>4, <2>5 DEF ProcStep, Runs, Task1
<1>2. ASSUME OtherStep PROVE FilesNext \/ UNCHANGED fileVars
  <2>1. CASE Files \/ CallerDies
    BY <2>1 DEF Files, CallerDies, FilesNext
  <2>2. CASE PutFile
    <3>1. PICK n \in Name, x \in {NoFile} \cup {Plain(t) : t \in UserText[task]} :
            disk' = [disk EXCEPT !["origin"][n] = x]
      BY <2>2, TaskAssumption DEF PutFile
    <3>2. UserText[task] \subseteq PlainText
      BY <2>2, TaskAssumption DEF PutFile, Types, ProgTypes
    <3>3. x \in Content
      BY <3>1, <3>2 DEF Content
    <3>4. disk' \in [Dir -> [Name -> Content]]
      BY <3>1, <3>3, <1>d, PutType DEF DiskOK
    <3> QED
      BY <2>2, <3>4 DEF PutFile, Others, FilesNext
  <2>3. CASE LibraryCall
    <3>1. PICK c \in {"aes", "rsa"}, way \in {"encrypt", "decrypt"}, from \in LibDir, to \in LibDir,
               n \in LibName : \E k \in LibKeys[c], names \in {{n}, Present(from)} :
                                 Call(c, way, k, from, to, names)
      BY <2>3 DEF LibraryCall
    <3>2. PICK k \in LibKeys[c], names \in {{n}, Present(from)} : Call(c, way, k, from, to, names)
      BY <3>1
    <3>3. names \in SUBSET Name /\ from \in Dir /\ to \in Dir
      BY <3>1, <3>2, TaskAssumption DEF Present
    <3>4. k \in (IF c = "aes" THEN AesKey ELSE RsaKey \cup {BadPem})
      BY <3>1, <3>2, TaskAssumption
    <3> QED
      BY <3>1, <3>2, <3>3, <3>4 DEF AnyCall, FilesNext
  <2> QED
    BY <1>2, <2>1, <2>2, <2>3 DEF OtherStep, Operates
<1> QED
  BY <1>1, <1>2, NextSteps

LEMMA FilesStart == Init => FilesInv /\ \E files \in [Dir -> [Name -> Content]] : FilesInit(files)
<1> SUFFICES ASSUME Init PROVE FilesInv /\ \E files \in [Dir -> [Name -> Content]] : FilesInit(files)
  OBVIOUS
<1>1. PICK files \in Leftover[task] : FilesInit(files)
  BY DEF Init
<1>2. files \in [Dir -> [Name -> Content]]
  BY <1>1, TaskAssumption DEF Init
<1> QED
  BY <1>1, <1>2 DEF FilesInit, FilesInv, DiskOK, OpOK, Resting, Idle, EncryptedIsRecoverable

LEMMA FilesKept == FilesInv /\ [FilesNext]_fileVars => FilesInv'
BY CallStep, OpenStep, CopyStep, FinishStep, AbortStep, OthersStep, StutterStep
DEF FileStep, FilesNext

LEMMA FilesInvariant == Spec => [](Types /\ FilesInv)
<1>1. Init => Types /\ FilesInv
  BY TypesInit, FilesStart
<1>2. Types /\ FilesInv /\ [Next]_vars => (Types /\ FilesInv)'
  BY TypesStep, FilesStep, FilesKept DEF FilesInv
<1> QED
  BY <1>1, <1>2, PTL DEF Spec

\* The programs use the directories as FileCipher has it: what they and the
\* callers of the library have encrypted can be decrypted, in every task,
\* with any other program and whatever dies (the calls at main.cpp:963-964
\* and those of encryptFile and encryptDirectory of both ciphers).
THEOREM ProgramsUseFiles == Spec => FilesSpec
<1>1. Init => \E files \in [Dir -> [Name -> Content]] : FilesInit(files)
  BY FilesStart
<1>2. Types /\ FilesInv /\ [Next]_vars => [AnyCall \/ FileStep \/ Abort \/ Others]_fileVars
  BY FilesStep DEF FilesNext, FilesInv
<1> QED
  BY <1>1, <1>2, FilesInvariant, PTL DEF Spec, FilesSpec

\* Every variable keeps to its type; whoever has come past a key holds it
\* (Cipher and Database of main.cpp, whose members are set before they are used).
THEOREM TypeCorrect == Spec => []TypeOK
<1>1. Types /\ FilesInv => TypeOK
  <2> SUFFICES ASSUME Types, FilesInv PROVE TypeOK
    OBVIOUS
  <2>1. /\ op.pc \in {"idle", "next"} \cup Name
        /\ op.pc # "idle" => op.from \in Dir /\ op.to \in Dir /\ op.done \cup op.todo \subseteq Name
    BY DEF FilesInv, OpOK, Running, Resting
  <2>2. disk \in [Dir -> [Name -> Content]]
    BY DEF FilesInv, DiskOK
  <2>3. \A p \in Proc :
          /\ stage[p] \in {"tables", "admin", "hash", "login", "menu", "again"} =>
               held[p][K0] \in Value /\ held[p][K1] \in Value
          /\ stage[p] \in {"admin", "hash", "login", "menu", "again"} => held[p][K2] \in Value
    BY DEF Types, Local, Prompted
  <2> QED
    BY <2>1, <2>2, <2>3 DEF TypeOK, Types, KeyTypes, ProgTypes
<1> QED
  BY <1>1, FilesInvariant, PTL

\* What the programs and the callers of the library have encrypted can be
\* decrypted (encryptFile and encryptDirectory, Aes256Cipher.cpp:218-371 and
\* RsaCipher.cpp:278-385).
THEOREM EncryptedFilesOpen == Spec => []EncryptedIsRecoverable
BY ProgramsUseFiles, EncryptionIsUndone, PTL

-----------------------------------------------------------------------------
(***************************************************************************)
(* One writer at a time.  Turns is what a writer knows of the key file at  *)
(* each access as long as no other interfered and no failed open misled    *)
(* it, be the file damaged or not.                                         *)
(***************************************************************************)
Calm == ~raced /\ ~mistaken

Turn(p) ==
  /\ pc[p] \in Ent!Writing => file.form = "empty"
  /\ pc[p] = "create" => file.form = "absent"
  /\ pc[p] = "dup" => file.form # "absent"
  /\ pc[p] \in {"load", "open"} => file.form = "whole" /\ Slot(file.keys, p) = NoValue
  /\ pc[p] = "open" =>
       snap[p] = Ent!AddKey(file.keys, call[p].table, call[p].id, call[p].value)

Turns == Ent!OneWriter /\ \A p \in Proc : Turn(p)

\* What a step of p does to the key file, and what it leaves alone.
KeyEvent(p) ==
  \/ Effect(p) /\ UNCHANGED <<raced, stage, wanted>>
  \/ \E a \in {"find", "read"}, i \in KeyId : Begun(p, a, i, NoValue) /\ raced' = raced
  \/ /\ \E i \in KeyId : \E v : Begun(p, "probe", i, v) /\ v \notin InUse
     /\ raced' = (raced \/ \E q \in Proc \ {p} : pc[q] \in Ent!Writers)
  \/ Stopped(p) /\ raced' = raced
  \/ UNCHANGED <<entVars, raced>> /\ stage'[p] # "read"

LEMMA StepIsKeyEvent ==
  ASSUME Types, NEW p \in Proc, ProcStep(p)
  PROVE  KeyEvent(p)
<1> USE DEF Types
<1>0. wanted[p] \in KeyId /\ stage \in [Proc -> Stages]
  BY DEF ProgTypes
<1>1. CASE FileAccess(p)
  BY <1>1, StepEffect DEF FileAccess, KeyEvent
<1>2. CASE MakeKey(p)
  BY <1>0, <1>2, BeginEffect, GeneratedType DEF MakeKey, KeyEvent
<1>3. CASE ReadKey(p)
  BY <1>0, <1>3, BeginEffect DEF ReadKey, Read, KeyEvent
<1>4. CASE NoKey(p) \/ Quit(p)
  BY <1>4, RestartEffect DEF NoKey, Quit, Exit, KeyEvent
<1>5. CASE ConstructDatabase(p) \/ CreateTable(p) \/ ExportHashes(p)
  BY <1>5, KeyNames, BeginEffect DEF ConstructDatabase, GotKey, CreateTable, ExportHashes, Find, KeyEvent
<1>6. CASE Export(p) \/ Start(p)
  BY <1>6, KeyNames, BeginEffect DEF Export, Start, Find, KeyEvent
<1>7. CASE Constructed(p) \/ GotAdminKey(p) \/ StoreAdmin(p) \/ StoreHash(p) \/ Login(p)
  BY <1>0, <1>7 DEF Constructed, GotAdminKey, GotKey, StoreAdmin, StoreHash, Login, To, KeyEvent
<1>8. CASE EncryptOrigin(p) \/ DecryptEncrypted(p)
  BY <1>0, <1>8 DEF EncryptOrigin, GotKey, DecryptEncrypted, To, KeyEvent
<1>9. CASE EndTask1(p) \/ Die(p)
  BY <1>9, RestartEffect DEF EndTask1, Exit, Die, KeyEvent
<1> QED
  BY <1>1, <1>2, <1>3, <1>4, <1>5, <1>6, <1>7, <1>8, <1>9
  DEF ProcStep, Runs, GetKeys, SetUp, Task1, Menu

\* Nothing that has happened to the key file is forgotten.
LEMMA FlagsStay ==
  ASSUME Types, NEW p \in Proc, KeyEvent(p)
  PROVE  (Calm' => Calm) /\ (Sound' => Sound)
<1>0. mistaken \in BOOLEAN /\ cutShort \in BOOLEAN
  BY DEF Types, KeyTypes, Ent!TypeOK
<1>1. (mistaken => mistaken') /\ (cutShort => cutShort')
  <2>1. Effect(p) => (mistaken => mistaken') /\ (cutShort => cutShort')
    BY <1>0 DEF Effect, Flags, Writes
  <2>2. Stopped(p) => (mistaken => mistaken') /\ (cutShort => cutShort')
    BY <1>0 DEF Stopped
  <2>3. \A a, i, v : Begun(p, a, i, v) => (mistaken => mistaken') /\ (cutShort => cutShort')
    BY DEF Begun, Flags
  <2>4. UNCHANGED entVars => (mistaken => mistaken') /\ (cutShort => cutShort')
    BY DEF entVars
  <2> QED
    BY <2>1, <2>2, <2>3, <2>4 DEF KeyEvent
<1>2. raced => raced'
  BY DEF KeyEvent
<1> QED
  BY <1>1, <1>2 DEF Calm, Sound

\* A write over an empty file.
LEMMA OverEmpty ==
  ASSUME file.form = "empty", NEW keys
  PROVE  Ent!Overwritten(Doc(keys)) = {Doc(keys)}
BY DEF Ent!Overwritten, Doc

\* After a step of p that leaves the file, and after one by which p is no
\* writer or the only one, it is enough to look at p.
LEMMA TurnOfOthers ==
  ASSUME Turns, NEW p \in Proc, SoloFile(p),
         file' = file \/ \A q \in Proc \ {p} : pc[q] \notin Ent!Writers,
         pc'[p] \in Ent!Writers => \A q \in Proc \ {p} : pc[q] \notin Ent!Writers,
         Turn(p)'
  PROVE  Turns'
<1>1. Ent!OneWriter'
  BY DEF Turns, Ent!OneWriter, SoloFile
<1>2. ASSUME NEW q \in Proc \ {p} PROVE Turn(q)'
  BY DEF Turns, Turn, SoloFile, Slot, Ent!Writers, Ent!Writing
<1> QED
  BY <1>1, <1>2 DEF Turns

LEMMA EffectTurns ==
  ASSUME Types, Turns, NEW p \in Proc, Effect(p), ~mistaken'
  PROVE  Turns'
<1> DEFINE Lonely == \A q \in Proc \ {p} : pc[q] \notin Ent!Writers
<1>1. pc[p] \in Ent!Writers => Lonely
  BY DEF Turns, Ent!OneWriter
<1>2. SoloFile(p)
  BY MoveAt DEF Effect, Goes, Ends, Types
<1> HIDE DEF Lonely
<1>k. ASSUME NEW a, NEW c, NEW d, NEW r, Move(p, a, c, d, r)
      PROVE  pc'[p] = a /\ call'[p] = c /\ snap'[p] = d
  BY <1>k, MoveAt DEF Types
<1>w. ASSUME pc[p] \in Ent!Writers, Turn(p)' PROVE Turns'
  BY <1>1, <1>2, <1>w, TurnOfOthers DEF Lonely
<1>i. ASSUME pc'[p] \notin Ent!Writers, file' = file \/ pc[p] \in Ent!Writers PROVE Turns'
  <2>1. Turn(p)'
    BY <1>i DEF Turn, Ent!Writers, Ent!Writing
  <2> QED
    BY <1>1, <1>2, <1>i, <2>1, TurnOfOthers DEF Lonely
<1>3. ASSUME pc[p] = "probe", file' = file,
             \/ Goes(p, "dup") /\ file.form # "absent"
             \/ Goes(p, "create") /\ mistaken' = (mistaken \/ file.form # "absent")
      PROVE  Turns'
  <2>1. \/ pc'[p] = "dup" /\ file.form # "absent"
        \/ pc'[p] = "create" /\ file.form = "absent"
    BY <1>3, <1>k DEF Goes
  <2> QED
    BY <1>3, <1>w, <2>1 DEF Turn, Ent!Writers, Ent!Writing
<1>4. ASSUME pc[p] = "create", Goes(p, "init"), file' = Ent!Blank("empty") PROVE Turns'
  <2>1. pc'[p] = "init"
    BY <1>4, <1>k DEF Goes
  <2> QED
    BY <1>4, <1>w, <2>1, BlankType DEF Turn, Ent!Writers, Ent!Writing
<1>5. ASSUME pc[p] = "init", Goes(p, "dup"), Writes(Ent!NoKeys)
      PROVE  Turns'
  <2>1. file.form = "empty"
    BY <1>5 DEF Turns, Turn, Ent!Writing
  <2>2. file'.form # "absent"
    BY <1>5, <2>1, OverEmpty, BlankType DEF Writes, Remains, Doc, Ent!Form
  <2>3. pc'[p] = "dup"
    BY <1>5, <1>k DEF Goes
  <2> QED
    BY <1>5, <1>w, <2>2, <2>3 DEF Turn, Ent!Writers, Ent!Writing
<1>6. ASSUME pc[p] = "dup", Goes(p, "load"), file' = file,
             \/ mistaken' = (mistaken \/ file.form # "absent")
             \/ file.form = "whole" /\ Slot(file.keys, p) = NoValue
      PROVE  Turns'
  <2>1. file.form # "absent"
    BY <1>6 DEF Turns, Turn
  <2>2. pc'[p] = "load" /\ call'[p] = call[p]
    BY <1>6, <1>k DEF Goes
  <2> QED
    BY <1>6, <1>w, <2>1, <2>2 DEF Turn, Slot, Ent!Writers, Ent!Writing
<1>7. ASSUME pc[p] = "load", file' = file,
             Move(p, "open", call[p],
                  Ent!AddKey(file.keys, call[p].table, call[p].id, call[p].value), result[p])
      PROVE  Turns'
  <2>1. /\ pc'[p] = "open" /\ call'[p] = call[p]
        /\ snap'[p] = Ent!AddKey(file.keys, call[p].table, call[p].id, call[p].value)
    BY <1>7, <1>k
  <2>2. file.form = "whole" /\ Slot(file.keys, p) = NoValue
    BY <1>7 DEF Turns, Turn
  <2> QED
    BY <1>7, <1>w, <2>1, <2>2 DEF Turn, Slot, Ent!AddKey, Ent!Writers, Ent!Writing
<1>8. ASSUME pc[p] = "open", Goes(p, "store"), file' = Ent!Blank("empty") PROVE Turns'
  <2>1. pc'[p] = "store"
    BY <1>8, <1>k DEF Goes
  <2> QED
    BY <1>8, <1>w, <2>1, BlankType DEF Turn, Ent!Writers, Ent!Writing
<1>9. ASSUME NEW r, Ends(p, r), file' = file \/ pc[p] \in Ent!Writers PROVE Turns'
  BY <1>9, <1>k, <1>i DEF Ends, Ent!Writers
<1>10. ASSUME file' = file, Move(p, "confirm", call[p], file.keys, result[p]) PROVE Turns'
  BY <1>10, <1>k, <1>i DEF Ent!Writers
<1> QED
  BY <1>3, <1>4, <1>5, <1>6, <1>7, <1>8, <1>9, <1>10 DEF Effect, Ent!Writers

LEMMA EventTurns ==
  ASSUME Types, Turns, NEW p \in Proc, KeyEvent(p), Calm'
  PROVE  Turns'
<1>1. CASE Effect(p)
  BY <1>1, EffectTurns DEF Calm
<1>2. ASSUME NEW a \in {"find", "read"}, NEW i, NEW v, Begun(p, a, i, v) PROVE Turns'
  <2>1. pc'[p] = a /\ file' = file /\ SoloFile(p)
    BY <1>2, MoveAt DEF Begun, Types
  <2>2. Turn(p)'
    BY <2>1 DEF Turn, Ent!Writing
  <2> QED
    BY <2>1, <2>2, TurnOfOthers DEF Ent!Writers
<1>3. ASSUME NEW i, NEW v, Begun(p, "probe", i, v),
             raced' = (raced \/ \E q \in Proc \ {p} : pc[q] \in Ent!Writers)
      PROVE  Turns'
  <2>1. pc'[p] = "probe" /\ file' = file /\ SoloFile(p)
    BY <1>3, MoveAt DEF Begun, Types
  <2>2. Turn(p)'
    BY <2>1 DEF Turn, Ent!Writing
  <2> QED
    BY <1>3, <2>1, <2>2, TurnOfOthers DEF Calm
<1>4. CASE Stopped(p)
  <2>1. pc'[p] = "idle" /\ SoloFile(p)
    BY <1>4, MoveAt DEF Stopped, Ends, Types
  <2>2. Turn(p)'
    BY <2>1 DEF Turn, Ent!Writing
  <2>3. file' = file \/ \A q \in Proc \ {p} : pc[q] \notin Ent!Writers
    BY <1>4 DEF Stopped, Turns, Ent!OneWriter, Ent!Writing, Ent!Writers
  <2> QED
    BY <2>1, <2>2, <2>3, TurnOfOthers DEF Ent!Writers
<1>5. CASE UNCHANGED entVars
  BY <1>5 DEF entVars, Turns, Ent!OneWriter, Turn, Slot
<1> QED
  BY <1>1, <1>2, <1>3, <1>4, <1>5 DEF KeyEvent

LEMMA TurnsInit == Init => Turns
BY DEF Init, Turns, Ent!OneWriter, Turn, Ent!Writers, Ent!Writing

LEMMA TurnsStep == Types /\ (Calm => Turns) /\ [Next]_vars => (Calm => Turns)'
<1> SUFFICES ASSUME Types, Calm => Turns, [Next]_vars, Calm' PROVE Turns'
  OBVIOUS
<1>1. ASSUME NEW p \in Proc, ProcStep(p) PROVE Turns'
  BY <1>1, StepIsKeyEvent, FlagsStay, EventTurns
<1>2. CASE OtherStep \/ UNCHANGED vars
  <2>1. UNCHANGED entVars /\ raced' = raced
    BY <1>2, OtherStepQuiet DEF vars, progVars
  <2>2. Calm
    BY <2>1 DEF entVars, Calm
  <2> QED
    BY <2>1, <2>2 DEF entVars, Turns, Ent!OneWriter, Turn, Slot
<1> QED
  BY <1>1, <1>2, NextSteps

\* A key file that has all three keys is not opened for writing again, not
\* even where it is damaged later, unless two programs wrote at once or a
\* failed open was taken for a missing file (main.cpp:81-93, 384-397, 446-461:
\* a name that is there is not written, Aes256Cipher.cpp and Cipher.cpp).
THEOREM CompleteStays == Spec => []CompleteStoreIsSafe
<1>1. Init => (Calm => Turns)
  BY TurnsInit
<1>2. Types /\ (Calm => Turns) /\ [Next]_vars => (Calm => Turns)'
  BY TurnsStep
<1>3. Types /\ (Calm => Turns) => CompleteStoreIsSafe
  <2> SUFFICES ASSUME Types, Turns, file.form = "whole",
                      \A i \in KeyId : file.keys[Aes][i] # NoValue,
                      NEW p \in Proc, pc[p] \in {"create", "init", "open", "store"}
               PROVE  FALSE
    BY DEF CompleteStoreIsSafe, Calm
  <2>1. pc[p] = "open"
    BY DEF Turns, Turn, Ent!Writing
  <2>2. Slot(file.keys, p) = NoValue
    BY <2>1 DEF Turns, Turn
  <2>3. call[p].table = Aes /\ call[p].id \in KeyId
    BY <2>1 DEF Types, Local, ProgTypes
  <2> QED
    BY <2>2, <2>3 DEF Slot
<1> QED
  BY <1>1, <1>2, <1>3, TypesInvariant, PTL DEF Spec

-----------------------------------------------------------------------------
(***************************************************************************)
(* The keys.  A key that was in the key file stays what it is, also while  *)
(* the file is truncated and the only copy is in the memory of the writer; *)
(* and every key that was used, or is about to be, is such a key.          *)
(***************************************************************************)
Has(i, k) ==
  \/ file.form = "whole" /\ file.keys[Aes][i] = k
  \/ file.form = "empty" /\ \E q \in Proc : pc[q] = "store" /\ snap[q][Aes][i] = k

\* The file is damaged only between the truncation and the write.
Undamaged ==
  /\ file.form # "torn"
  /\ file.form = "empty" => \E q \in Proc : pc[q] \in Ent!Writing

Knows(p) ==
  \A i \in KeyId, k \in Value :
    /\ held[p][i] = k => Has(i, k)
    /\ pc[p] = "confirm" /\ snap[p][Aes][i] = k => Has(i, k)
    /\ stage[p] = "read" /\ pc[p] = "idle" /\ result[p].kind = "value" =>
         (wanted[p] = i /\ result[p].value = k => Has(i, k))

DataKnown == \A d \in Db, k \in Value : dbKey[d] = k => Has(KeyOf(d), k)

SealedWith(k) == \E d \in Dir, n \in Name : disk[d][n].form = "aes" /\ disk[d][n].key = k

FilesKnown ==
  task = "task1" =>
    /\ \A k \in Value : SealedWith(k) => Has(K0, k)
    /\ op.pc # "idle" => \A k \in Value : op.key = k => Has(K0, k)

Known == Undamaged /\ (\A p \in Proc : Knows(p)) /\ DataKnown /\ FilesKnown

LEMMA EffectKeeps ==
  ASSUME Types, Turns, Undamaged, NEW p \in Proc, Effect(p), ~mistaken', ~cutShort'
  PROVE  /\ Undamaged'
         /\ \A i \in KeyId, k \in Value : Has(i, k) => Has(i, k)'
<1>k. ASSUME NEW a, NEW c, NEW d, NEW r, Move(p, a, c, d, r)
      PROVE  pc'[p] = a /\ snap'[p] = d /\ \A q \in Proc \ {p} : pc'[q] = pc[q] /\ snap'[q] = snap[q]
  BY <1>k, MoveAt DEF Types, SoloFile
<1>o. pc[p] \in Ent!Writers => \A q \in Proc : pc[q] \in Ent!Writers => q = p
  BY DEF Turns, Ent!OneWriter
<1>n. \A k \in Value : k # NoValue
  BY KeyFileAssumption
<1>q. ASSUME file' = file, pc[p] \notin Ent!Writing, pc'[p] \notin Ent!Writing,
             \A q \in Proc \ {p} : pc'[q] = pc[q] /\ snap'[q] = snap[q]
      PROVE  /\ Undamaged'
             /\ \A i \in KeyId, k \in Value : Has(i, k) => Has(i, k)'
  BY <1>q DEF Undamaged, Has, Ent!Writing
<1>1. ASSUME pc[p] = "create", Goes(p, "init"), file' = Ent!Blank("empty")
      PROVE  /\ Undamaged'
             /\ \A i \in KeyId, k \in Value : Has(i, k) => Has(i, k)'
  <2>1. file.form = "absent"
    BY <1>1 DEF Turns, Turn
  <2>2. pc'[p] = "init" /\ file'.form = "empty"
    BY <1>1, <1>k, BlankType DEF Goes
  <2> QED
    BY <2>1, <2>2 DEF Undamaged, Has, Ent!Writing
<1>2. ASSUME pc[p] = "init", Goes(p, "dup"), Writes(Ent!NoKeys)
      PROVE  /\ Undamaged'
             /\ \A i \in KeyId, k \in Value : Has(i, k) => Has(i, k)'
  <2>1. file.form = "empty" /\ \A q \in Proc : pc[q] # "store"
    BY <1>2, <1>o DEF Turns, Turn, Ent!Writing, Ent!Writers
  <2>2. file'.form = "whole"
    BY <1>2, <2>1, OverEmpty DEF Writes, Doc
  <2> QED
    BY <2>1, <2>2 DEF Undamaged, Has
<1>3. ASSUME pc[p] = "open", Goes(p, "store"), file' = Ent!Blank("empty")
      PROVE  /\ Undamaged'
             /\ \A i \in KeyId, k \in Value : Has(i, k) => Has(i, k)'
  <2>1. /\ file.form = "whole" /\ Slot(file.keys, p) = NoValue
        /\ snap[p] = Ent!AddKey(file.keys, call[p].table, call[p].id, call[p].value)
    BY <1>3 DEF Turns, Turn
  <2>2. pc'[p] = "store" /\ snap'[p] = snap[p] /\ file'.form = "empty"
    BY <1>3, <1>k, BlankType DEF Goes
  <2>3. file.keys \in Ent!Keys
    BY <2>1 DEF Types, KeyTypes, Ent!TypeOK, Ent!File
  <2>4. \A i \in KeyId : file.keys[Aes][i] # NoValue => snap[p][Aes][i] = file.keys[Aes][i]
    BY <2>1, <2>3 DEF Ent!AddKey, Ent!Keys, Slot, Ent!Table, Aes
  <2> QED
    BY <1>n, <2>1, <2>2, <2>4 DEF Undamaged, Has, Ent!Writing
<1>4. ASSUME pc[p] = "store", Writes(snap[p])
      PROVE  /\ Undamaged'
             /\ \A i \in KeyId, k \in Value : Has(i, k) => Has(i, k)'
  <2>1. file.form = "empty" /\ \A q \in Proc : pc[q] = "store" => q = p
    BY <1>4, <1>o DEF Turns, Turn, Ent!Writing, Ent!Writers
  <2>2. file'.form = "whole" /\ file'.keys = snap[p]
    BY <1>4, <2>1, OverEmpty DEF Writes, Doc
  <2> QED
    BY <2>1, <2>2 DEF Undamaged, Has
<1>5. ASSUME pc[p] \in {"probe", "dup", "load", "read", "confirm"} \/ pc[p] \notin Ent!Writing, file' = file,
             NEW a \in {"dup", "create", "load", "open", "confirm", "idle"}, NEW c, NEW d, NEW r,
             Move(p, a, c, d, r)
      PROVE  /\ Undamaged'
             /\ \A i \in KeyId, k \in Value : Has(i, k) => Has(i, k)'
  BY <1>5, <1>k, <1>q DEF Ent!Writing
<1> QED
  BY <1>1, <1>2, <1>3, <1>4, <1>5 DEF Effect, Goes, Ends

LEMMA EventKeeps ==
  ASSUME Types, Turns, Undamaged, NEW p \in Proc, KeyEvent(p), Sound'
  PROVE  /\ Undamaged'
         /\ \A i \in KeyId, k \in Value : Has(i, k) => Has(i, k)'
<1>1. CASE Effect(p)
  BY <1>1, EffectKeeps DEF Sound
<1>2. ASSUME file' = file, pc[p] \notin Ent!Writing, pc'[p] \notin Ent!Writing, SoloFile(p)
      PROVE  /\ Undamaged'
             /\ \A i \in KeyId, k \in Value : Has(i, k) => Has(i, k)'
  BY <1>2 DEF Undamaged, Has, Ent!Writing, SoloFile
<1>3. ASSUME NEW a \in {"find", "read", "probe"}, NEW i, NEW v, Begun(p, a, i, v)
      PROVE  file' = file /\ pc[p] \notin Ent!Writing /\ pc'[p] \notin Ent!Writing /\ SoloFile(p)
  BY <1>3, MoveAt DEF Begun, Types, Ent!Writing
<1>4. CASE Stopped(p)
  <2>1. pc[p] \notin Ent!Writing
    BY <1>4 DEF Stopped, Sound
  <2>2. file' = file /\ pc'[p] = "idle" /\ SoloFile(p)
    BY <1>4, <2>1, MoveAt DEF Stopped, Ends, Types
  <2> QED
    BY <1>2, <2>1, <2>2 DEF Ent!Writing
<1>5. CASE UNCHANGED entVars
  BY <1>5 DEF entVars, Undamaged, Has
<1> QED
  BY <1>1, <1>2, <1>3, <1>4, <1>5 DEF KeyEvent

\* What p has in memory, unless it is a key it has just got, it had before.
LEMMA HeldStep ==
  ASSUME Types, NEW p \in Proc, ProcStep(p)
  PROVE  \/ held'[p] = held[p] \/ held'[p] = NothingHeld
         \/ \E i \in KeyId : GotKey(p, i)
<1>1. CASE FileAccess(p) \/ Start(p) \/ Login(p) \/ Export(p)
  BY <1>1 DEF FileAccess, Start, Login, Export
<1>2. CASE MakeKey(p) \/ ReadKey(p) \/ CreateTable(p) \/ StoreAdmin(p) \/ StoreHash(p) \/ ExportHashes(p)
  BY <1>2 DEF MakeKey, ReadKey, CreateTable, StoreAdmin, StoreHash, ExportHashes
<1>3. CASE DecryptEncrypted(p)
  BY <1>3 DEF DecryptEncrypted
<1>4. CASE NoKey(p) \/ Quit(p) \/ EndTask1(p) \/ Die(p)
  BY <1>4 DEF NoKey, Quit, EndTask1, Die, Exit, Types, ProgTypes
<1>5. CASE ConstructDatabase(p) \/ Constructed(p) \/ GotAdminKey(p) \/ EncryptOrigin(p)
  BY <1>5, KeyNames DEF ConstructDatabase, Constructed, GotAdminKey, EncryptOrigin
<1> QED
  BY <1>1, <1>2, <1>3, <1>4, <1>5 DEF ProcStep, Runs, GetKeys, SetUp, Task1, Menu

\* A database is written by a program with the key it holds for it.
LEMMA DataStep ==
  ASSUME Types, NEW p \in Proc, ProcStep(p)
  PROVE  \/ dbKey' = dbKey
         \/ \E d \in Db : /\ dbKey' = [dbKey EXCEPT ![d] = held[p][KeyOf(d)]]
                          /\ held[p][KeyOf(d)] \in Value /\ Accepts(d, held[p][KeyOf(d)])
<1>1. CASE FileAccess(p) \/ GetKeys(p) \/ Task1(p) \/ Start(p) \/ Menu(p) \/ Die(p)
  BY <1>1 DEF FileAccess, GetKeys, MakeKey, ReadKey, NoKey, Task1, EncryptOrigin, GotKey,
     DecryptEncrypted, EndTask1, Start, Menu, Login, Export, Quit, Die
<1>2. CASE ConstructDatabase(p) \/ Constructed(p) \/ GotAdminKey(p) \/ StoreAdmin(p) \/ ExportHashes(p)
  BY <1>2 DEF ConstructDatabase, Constructed, GotAdminKey, GotKey, StoreAdmin, ExportHashes
<1>3. CASE CreateTable(p)
  BY <1>3 DEF CreateTable, At, Types, Local, Db, KeyOf
<1>4. CASE StoreHash(p)
  BY <1>4 DEF StoreHash, At, Types, Local, Prompted, Db, KeyOf
<1> QED
  BY <1>1, <1>2, <1>3, <1>4 DEF ProcStep, Runs, SetUp

LEMMA EventKnows ==
  ASSUME Types, Turns, Known, NEW p \in Proc, ProcStep(p), KeyEvent(p), Solo(p), Sound'
  PROVE  Undamaged' /\ (\A q \in Proc : Knows(q)') /\ DataKnown'
<1>1. /\ Undamaged'
      /\ \A i \in KeyId, k \in Value : Has(i, k) => Has(i, k)'
  BY EventKeeps DEF Known
<1>n. NoValue \notin Value
  BY KeyFileAssumption
<1>2. ASSUME NEW q \in Proc \ {p} PROVE Knows(q)'
  BY <1>1 DEF Known, Knows, Solo, SoloFile
\* What p holds.
<1>3. ASSUME NEW i \in KeyId, NEW k \in Value, held'[p][i] = k PROVE Has(i, k)'
  <2>1. CASE held'[p] = held[p]
    BY <1>1, <1>3, <2>1 DEF Known, Knows
  <2>2. CASE held'[p] = NothingHeld
    BY <1>3, <1>n, <2>2 DEF NothingHeld
  <2>3. ASSUME NEW j \in KeyId, GotKey(p, j) PROVE Has(i, k)'
    <3>1. /\ stage[p] = "read" /\ pc[p] = "idle" /\ wanted[p] = j
          /\ result[p].kind = "value"
          /\ held'[p][j] = result[p].value
          /\ \A m \in KeyId \ {j} : held'[p][m] = held[p][m]
      BY <2>3, GotKeyEffect DEF Types
    <3>2. CASE i = j
      BY <1>1, <1>3, <3>1, <3>2 DEF Known, Knows
    <3>3. CASE i # j
      BY <1>1, <1>3, <3>1, <3>3 DEF Known, Knows
    <3> QED
      BY <3>2, <3>3
  <2> QED
    BY <2>1, <2>2, <2>3, HeldStep
\* What p has read, and what it has been told.
<1>4. ASSUME NEW i \in KeyId, NEW k \in Value,
             \/ pc'[p] = "confirm" /\ snap'[p][Aes][i] = k
             \/ /\ stage'[p] = "read" /\ pc'[p] = "idle" /\ result'[p].kind = "value"
                /\ wanted'[p] = i /\ result'[p].value = k
      PROVE  Has(i, k)'
  <2>k. ASSUME NEW a, NEW c, NEW d, NEW r, Move(p, a, c, d, r)
        PROVE  pc'[p] = a /\ snap'[p] = d /\ result'[p] = r
    BY <2>k, MoveAt DEF Types
  <2>1. ASSUME NEW a, a \notin {"confirm", "idle"}, NEW c, NEW d, NEW r, Move(p, a, c, d, r)
        PROVE  FALSE
    BY <1>4, <2>1, <2>k
  <2>2. ASSUME NEW r, r.kind # "value", Ends(p, r) PROVE FALSE
    BY <1>4, <2>2, <2>k DEF Ends
  <2>3. \A b \in {"none", "true", "false", "thrown", "undefined"} : Ent!Ended(b).kind # "value"
    BY DEF Ent!Ended
  <2>4. ASSUME file.form = "whole", file' = file, Move(p, "confirm", call[p], file.keys, result[p])
        PROVE  Has(i, k)'
    <3>1. pc'[p] = "confirm" /\ snap'[p] = file.keys
      BY <2>4, <2>k
    <3> QED
      BY <1>4, <2>4, <3>1 DEF Has
  <2>5. ASSUME pc[p] = "confirm", UNCHANGED <<stage, wanted>>,
               Ends(p, [kind |-> "value", value |-> Slot(snap[p], p)])
        PROVE  Has(i, k)'
    <3>1. pc'[p] = "idle" /\ result'[p].value = Slot(snap[p], p)
      BY <2>5, <2>k DEF Ends
    <3>2. call[p].table = Aes /\ call[p].id = wanted[p]
      BY <2>5 DEF Types, Local
    <3> QED
      BY <1>1, <1>4, <2>5, <3>1, <3>2 DEF Known, Knows, Slot
  <2>6. CASE Effect(p) /\ UNCHANGED <<raced, stage, wanted>>
    BY <2>6, <2>1, <2>2, <2>3, <2>4, <2>5 DEF Effect, Goes
  <2>7. ASSUME NEW a \in {"find", "read", "probe"}, NEW j, NEW v, Begun(p, a, j, v) PROVE FALSE
    BY <2>7, <2>1 DEF Begun
  <2>8. CASE Stopped(p)
    BY <2>8, <2>2, <2>3 DEF Stopped
  <2>9. CASE UNCHANGED <<entVars, raced>> /\ stage'[p] # "read"
    BY <1>1, <1>4, <2>9 DEF entVars, Known, Knows
  <2> QED
    BY <2>6, <2>7, <2>8, <2>9 DEF KeyEvent
<1>5. ASSUME NEW d \in Db, NEW k \in Value, dbKey'[d] = k PROVE Has(KeyOf(d), k)'
  <2>0. KeyOf(d) \in KeyId
    BY KeyNames DEF KeyOf
  <2>1. CASE dbKey'[d] = dbKey[d]
    BY <1>1, <1>5, <2>0, <2>1 DEF Known, DataKnown
  <2>2. CASE dbKey'[d] = held[p][KeyOf(d)]
    BY <1>1, <1>5, <2>0, <2>2 DEF Known, Knows
  <2> QED
    BY <2>1, <2>2, DataStep DEF Types, ProgTypes
<1>6. Knows(p)'
  BY <1>3, <1>4 DEF Knows
<1>7. DataKnown'
  BY <1>5 DEF DataKnown
<1> QED
  BY <1>1, <1>2, <1>6, <1>7

\* Another ciphertext comes from a call with its key only.
LEMMA SealedBefore ==
  ASSUME DiskOK, NEW k \in Value, SealedWith(k)', NEW d \in Dir, NEW n \in Name, NEW x \in Content,
         disk' = [disk EXCEPT ![d][n] = x], x.form = "aes" => x.key # k
  PROVE  SealedWith(k)
<1>1. PICK e \in Dir, m \in Name : disk'[e][m].form = "aes" /\ disk'[e][m].key = k
  BY DEF SealedWith
<1>2. (e = d /\ m = n) \/ disk'[e][m] = disk[e][m]
  BY DEF DiskOK
<1>3. disk'[d][n] = x
  BY DEF DiskOK
<1> QED
  BY <1>1, <1>2, <1>3 DEF SealedWith

LEMMA WrittenForm ==
  \A t : Plain(t).form = "plain" /\ NoFile.form = "none"
BY DEF Plain, NoFile

LEMMA FileStepSeals ==
  ASSUME FilesInv, FileStep \/ Abort, NEW k \in Value
  PROVE  /\ SealedWith(k)' => SealedWith(k) \/ (op.pc # "idle" /\ op.key = k)
         /\ op'.pc # "idle" => op.pc # "idle" /\ op'.key = op.key
<1>t. Plain(Nothing) \in Content /\ Plain(Junk) \in Content
  BY TextAssumption DEF Content
<1>r. op.pc # "idle" => Running(op)
  BY DEF FilesInv, OpOK, Resting
<1>e. \A b : End(b) => op'.pc = "idle"
  BY DEF End, Idle
<1>1. CASE OpenFiles
  <2>1. op.pc = "next" /\ Running(op)
    BY <1>1, <1>r DEF OpenFiles
  <2>2. PICK n \in op.todo :
          \/ /\ disk' = [disk EXCEPT ![op.to][n] = Plain(Nothing)]
             /\ op' = [op EXCEPT !.pc = n]
          \/ End(TRUE) /\ UNCHANGED disk
    BY <1>1 DEF OpenFiles
  <2>3. op.to \in Dir /\ n \in Name
    BY <2>1 DEF Running
  <2>4. SealedWith(k)' => SealedWith(k)
    <3>1. CASE UNCHANGED disk
      BY <3>1 DEF SealedWith
    <3>2. CASE disk' = [disk EXCEPT ![op.to][n] = Plain(Nothing)]
      BY <2>3, <3>2, <1>t, SealedBefore, WrittenForm DEF FilesInv
    <3> QED
      BY <2>2, <3>1, <3>2
  <2>5. op'.pc # "idle" => op'.key = op.key
    BY <2>1, <2>2, <1>e DEF Running
  <2> QED
    BY <2>1, <2>4, <2>5
<1>2. CASE CopyFile
  <2>1. op.pc \in Name /\ op.pc # "idle" /\ Running(op)
    BY <1>2, <1>r, NameAssumption DEF CopyFile
  <2>2. PICK r \in Result(op.cipher, op.way, op.key, disk[op.from][op.pc]) :
          /\ \/ disk' = [disk EXCEPT ![op.to][op.pc] = r.out]
             \/ disk' = [disk EXCEPT ![op.to][op.pc] = Plain(Junk)]
          /\ IF r.ok THEN op' = [op EXCEPT !.pc = "next", !.todo = @ \ {op.pc}, !.done = @ \cup {op.pc}]
                     ELSE End(TRUE)
    BY <1>2 DEF CopyFile
  <2>3. /\ op.to \in Dir /\ op.from \in Dir /\ op.cipher \in {"aes", "rsa"}
        /\ op.key \in Keys(op.cipher)
    BY <2>1 DEF Running, Keys
  <2>4. disk[op.from][op.pc] \in Content
    BY <2>1, <2>3 DEF FilesInv, DiskOK
  <2>5. r.out \in Content
    BY <2>3, <2>4, ResultType
  <2>6. r.out.form = "aes" => r.out.key = op.key
    <3> DEFINE x == disk[op.from][op.pc]
    <3>1. CASE op.way = "encrypt"
      <4>1. r.out = Encrypted(op.cipher, op.key, x)
        BY <3>1 DEF Result
      <4>2. r.out \in {Plain(Nothing), Sealed(op.cipher, op.key, x.text), Sealed(op.cipher, op.key, Junk)}
        BY <4>1 DEF Encrypted
      <4> QED
        BY <4>2 DEF Plain, Sealed
    <3>2. CASE op.way # "encrypt"
      <4>1. r \in Decrypted(op.cipher, op.key, x)
        BY <3>2 DEF Result
      <4>2. r.out \in {Plain(x.text), Plain(Nothing), Plain(Junk)}
        BY <4>1 DEF Decrypted
      <4> QED
        BY <4>2, WrittenForm
    <3> QED
      BY <3>1, <3>2
  <2>7. SealedWith(k)' => SealedWith(k) \/ op.key = k
    BY <2>1, <2>2, <2>3, <2>5, <2>6, <1>t, SealedBefore, WrittenForm DEF FilesInv
  <2>8. op'.pc # "idle" => op'.key = op.key
    BY <2>1, <2>2, <1>e DEF Running
  <2> QED
    BY <2>1, <2>7, <2>8
<1>3. CASE Finish
  BY <1>3, <1>e DEF Finish, SealedWith
<1>4. CASE Abort
  <2>1. op.pc # "idle" /\ op'.pc = "idle" /\ Running(op)
    BY <1>4, <1>r DEF Abort, Idle
  <2>2. CASE disk' = disk
    BY <2>1, <2>2 DEF SealedWith
  <2>3. CASE op.pc \in Name /\ disk' = [disk EXCEPT ![op.to][op.pc] = Plain(Junk)]
    <3>1. op.to \in Dir
      BY <2>1 DEF Running
    <3> QED
      BY <2>1, <2>3, <3>1, <1>t, SealedBefore, WrittenForm DEF FilesInv
  <2> QED
    BY <1>4, <2>2, <2>3 DEF Abort
<1> QED
  BY <1>1, <1>2, <1>3, <1>4 DEF FileStep

\* The files of task1, when what the key file has is not lost.
LEMMA FilesKnownKept ==
  ASSUME FilesInv, FilesKnown, task' = task,
         \A i \in KeyId, k \in Value : Has(i, k) => Has(i, k)',
         \/ FileStep \/ Abort \/ UNCHANGED <<disk, op>>
         \/ /\ UNCHANGED op
            /\ \A k \in Value : SealedWith(k)' => SealedWith(k)
         \/ /\ UNCHANGED disk
            /\ \A k \in Value : op'.key = k => Has(K0, k)
  PROVE  FilesKnown'
<1> SUFFICES ASSUME task = "task1", NEW k \in Value
             PROVE  /\ SealedWith(k)' => Has(K0, k)'
                    /\ op'.pc # "idle" /\ op'.key = k => Has(K0, k)'
  BY DEF FilesKnown
<1>1. /\ SealedWith(k) => Has(K0, k)'
      /\ op.pc # "idle" /\ op.key = k => Has(K0, k)'
  BY KeyNames DEF FilesKnown
<1>2. CASE FileStep \/ Abort
  BY <1>1, <1>2, FileStepSeals
<1>3. CASE UNCHANGED disk
  <2>1. SealedWith(k)' <=> SealedWith(k)
    BY <1>3 DEF SealedWith
  <2>2. op' = op \/ (op'.key = k => Has(K0, k)) \/ FileStep \/ Abort
    OBVIOUS
  <2> QED
    BY <1>1, <1>2, <2>1, <2>2, KeyNames
<1>4. CASE UNCHANGED op /\ (SealedWith(k)' => SealedWith(k))
  BY <1>1, <1>4
<1> QED
  BY <1>2, <1>3, <1>4

\* task1 calls the file operations with the key it holds.
LEMMA ProcStepFiles ==
  ASSUME Types, Known, NEW p \in Proc, ProcStep(p)
  PROVE  \/ Abort \/ UNCHANGED <<disk, op>>
         \/ /\ UNCHANGED disk
            /\ \A k \in Value : op'.key = k => Has(K0, k)
<1>1. CASE EncryptOrigin(p)
  <2>1. op'.key = result[p].value /\ UNCHANGED disk
    BY <1>1 DEF EncryptOrigin, Call
  <2>2. /\ stage[p] = "read" /\ pc[p] = "idle" /\ wanted[p] = K0
        /\ result[p].kind = "value"
    BY <1>1, GotKeyEffect, KeyNames DEF EncryptOrigin, Types
  <2> QED
    BY <2>1, <2>2, KeyNames DEF Known, Knows
<1>2. CASE DecryptEncrypted(p)
  <2>1. op'.key = held[p][K0] /\ UNCHANGED disk
    BY <1>2 DEF DecryptEncrypted, Call
  <2> QED
    BY <2>1, KeyNames DEF Known, Knows
<1>3. CASE FileAccess(p) \/ GetKeys(p) \/ SetUp(p) \/ EndTask1(p) \/ Start(p) \/ Menu(p) \/ Die(p)
  BY <1>3 DEF FileAccess, GetKeys, SetUp, EndTask1, Start, Menu, Die, fileVars
<1> QED
  BY <1>1, <1>2, <1>3 DEF ProcStep, Runs, Task1

LEMMA OtherStepFiles ==
  ASSUME Types, FilesInv, OtherStep, task = "task1"
  PROVE  \/ FileStep \/ Abort
         \/ /\ UNCHANGED op
            /\ \A k \in Value : SealedWith(k)' => SealedWith(k)
<1>1. CASE PutFile
  <2>1. PICK n \in Name, x \in {NoFile} \cup {Plain(t) : t \in UserText["task1"]} :
          disk' = [disk EXCEPT !["origin"][n] = x]
    BY <1>1 DEF PutFile
  <2>2. "origin" \in Dir /\ UserText["task1"] \subseteq PlainText
    BY TaskAssumption DEF Types, ProgTypes
  <2>3. x \in Content /\ x.form # "aes"
    BY <2>1, <2>2, WrittenForm DEF Content
  <2> QED
    BY <1>1, <2>1, <2>2, <2>3, SealedBefore DEF PutFile, FilesInv
<1>2. CASE Operates
  BY <1>2 DEF Operates, Files
<1> QED
  BY <1>1, <1>2 DEF OtherStep, LibraryCall, CallerDies

LEMMA KnownInit == Init => Known
<1> SUFFICES ASSUME Init PROVE Known
  OBVIOUS
<1>n. NoValue \notin Value
  BY KeyFileAssumption
<1>1. \/ /\ file = ShippedFile /\ dbKey = [d \in Db |-> Shipped[KeyOf(d)]]
      \/ file = Ent!Blank("absent") /\ dbKey = [d \in Db |-> NoValue]
  BY DEF Init
<1>2. Undamaged
  BY <1>1, BlankType DEF Undamaged, ShippedFile
<1>3. ASSUME NEW p \in Proc PROVE Knows(p)
  BY <1>n DEF Init, Knows, NothingHeld
<1>4. DataKnown
  <2>1. CASE dbKey = [d \in Db |-> NoValue]
    BY <1>n, <2>1 DEF DataKnown
  <2>2. ASSUME file = ShippedFile, dbKey = [d \in Db |-> Shipped[KeyOf(d)]] PROVE DataKnown
    <3>1. file.form = "whole" /\ file.keys[Aes] = Shipped
      BY <2>2 DEF ShippedFile, Ent!NoKeys, Ent!Table, Aes
    <3> QED
      BY <2>2, <3>1 DEF DataKnown, Has
  <2> QED
    BY <1>1, <2>1, <2>2
<1>5. FilesKnown
  <2> SUFFICES ASSUME task = "task1" PROVE \A k \in Value : ~SealedWith(k) /\ op.pc = "idle"
    BY DEF FilesKnown
  <2>1. PICK files \in Leftover["task1"] : disk = files /\ op = Idle
    BY DEF Init, FilesInit
  <2> QED
    BY <2>1, LeftoverAssumption DEF Init, SealedWith, Idle
<1> QED
  BY <1>2, <1>3, <1>4, <1>5 DEF Known

LEMMA KnownStep ==
  Types /\ FilesInv /\ (Calm => Turns) /\ (Sound => Known) /\ [Next]_vars => (Sound => Known)'
<1> SUFFICES ASSUME Types, FilesInv, Calm => Turns, Sound => Known, [Next]_vars, Sound'
             PROVE  Known'
  OBVIOUS
<1>1. ASSUME NEW p \in Proc, ProcStep(p) PROVE Known'
  <2>1. KeyEvent(p) /\ Solo(p) /\ task' = task
    BY <1>1, StepIsKeyEvent, ProcStepTypes DEF ProcStep, Runs
  <2>2. Known /\ Turns
    BY <2>1, FlagsStay DEF Sound, Calm
  <2>3. Undamaged' /\ (\A q \in Proc : Knows(q)') /\ DataKnown'
    BY <1>1, <2>1, <2>2, EventKnows
  <2>4. \A i \in KeyId, k \in Value : Has(i, k) => Has(i, k)'
    BY <2>1, <2>2, EventKeeps DEF Known
  <2>5. FilesKnown'
    BY <1>1, <2>1, <2>2, <2>4, ProcStepFiles, FilesKnownKept DEF Known
  <2> QED
    BY <2>3, <2>5 DEF Known
<1>2. CASE OtherStep \/ UNCHANGED vars
  <2>1. UNCHANGED <<entVars, task, stage, wanted, held, dbKey, raced>>
    BY <1>2, OtherStepQuiet DEF vars, progVars
  <2>2. Known
    BY <2>1 DEF entVars, Sound
  <2>3. \A i \in KeyId, k \in Value : Has(i, k) <=> Has(i, k)'
    BY <2>1 DEF entVars, Has
  <2>4. Undamaged' /\ (\A q \in Proc : Knows(q)') /\ DataKnown'
    <3>1. Undamaged'
      BY <2>1, <2>2 DEF entVars, Known, Undamaged
    <3>2. ASSUME NEW q \in Proc PROVE Knows(q)'
      BY <2>1, <2>2 DEF entVars, Known, Knows, Has
    <3>3. DataKnown'
      BY <2>1, <2>2 DEF entVars, Known, DataKnown, Has
    <3> QED
      BY <3>1, <3>2, <3>3
  <2>5. FilesKnown'
    <3>1. CASE task # "task1"
      BY <2>1, <3>1 DEF FilesKnown
    <3>2. CASE UNCHANGED vars
      BY <2>1, <2>2, <2>3, <3>2, FilesKnownKept DEF vars, fileVars, Known
    <3>3. CASE OtherStep /\ task = "task1"
      BY <2>1, <2>2, <2>3, <3>3, OtherStepFiles, FilesKnownKept DEF Known
    <3> QED
      BY <1>2, <3>1, <3>2, <3>3
  <2> QED
    BY <2>4, <2>5 DEF Known
<1> QED
  BY <1>1, <1>2, NextSteps

\* Whatever was encrypted with a key of the key file can be decrypted with
\* the key that the file has now: no start of a program loses or replaces one
\* (isKeyExists, generateKey and writeKeyToFile at main.cpp:82-84, 385-387,
\* 447-449 and 944-946), unless a write was cut short, a failed open was taken
\* for a missing file or two programs wrote at once.
THEOREM KeysAreKept == Spec => []DataHasItsKey
<1> DEFINE Inv == Types /\ FilesInv /\ (Calm => Turns) /\ (Sound => Known)
<1>1. Init => Inv
  BY TypesInit, FilesStart, TurnsInit, KnownInit
<1>2. Inv /\ [Next]_vars => Inv'
  BY TypesStep, FilesStep, FilesKept, TurnsStep, KnownStep DEF FilesInv
<1>3. Inv => DataHasItsKey
  <2> SUFFICES ASSUME Types, Known, \A p \in Proc : pc[p] \notin Ent!Writing
               PROVE  /\ \A d \in Db : dbKey[d] # NoValue => KeyFileHas(KeyOf(d), dbKey[d])
                      /\ task = "task1" =>
                           \A d \in Dir, n \in Name :
                             disk[d][n].form = "aes" /\ disk[d][n].key \in Value =>
                               KeyFileHas(K0, disk[d][n].key)
    BY DEF DataHasItsKey
  <2>1. \A i \in KeyId, k \in Value : Has(i, k) => KeyFileHas(i, k)
    BY DEF Known, Undamaged, Has, KeyFileHas
  <2>2. \A d \in Db : dbKey[d] \in Value \cup {NoValue} /\ KeyOf(d) \in KeyId
    BY KeyNames DEF Types, ProgTypes, KeyOf
  <2>3. K0 \in KeyId
    BY KeyNames
  <2> QED
    BY <2>1, <2>2, <2>3 DEF Known, DataKnown, FilesKnown, SealedWith
<1> QED
  BY <1>1, <1>2, <1>3, PTL DEF Spec

-----------------------------------------------------------------------------
(***************************************************************************)
(* The login.  Either the program has the files that came with it, or it   *)
(* made keys of its own, and then the shipped key of the scores is nowhere. *)
(***************************************************************************)
ShippedStart ==
  dbKey = [d \in Db |-> Shipped[KeyOf(d)]] /\ "admin" \in users /\ hashed = TRUE

NotKept(k) ==
  /\ \A i \in KeyId : file.keys[Aes][i] # k
  /\ \A q \in Proc : call[q].value # k /\ result[q].value # k
  /\ \A q \in Proc, i \in KeyId : snap[q][Aes][i] # k

NotUsed(k) ==
  /\ \A q \in Proc, i \in KeyId : held[q][i] # k
  /\ \A d \in Db : dbKey[d] # k

OwnStart == NotKept(Shipped[K0]) /\ NotUsed(Shipped[K0])

LEMMA BlankKeepsNone ==
  ASSUME NEW k \in Value, NEW f
  PROVE  /\ \A i \in KeyId : Ent!Blank(f).keys[Aes][i] # k /\ Ent!NoKeys[Aes][i] # k
         /\ Ent!NoCall.value # k
         /\ \A b : Ent!Ended(b).value # k
BY KeyFileAssumption DEF Ent!Blank, Ent!NoKeys, Ent!NoCall, Ent!Ended, Ent!Table, Aes

\* A key that is nowhere stays out of the key file and of the memory of those
\* who work on it, unless it is generated.
LEMMA EventNotKept ==
  ASSUME Types, NEW k \in Value, k \in InUse, NotKept(k), NEW p \in Proc, KeyEvent(p)
  PROVE  NotKept(k)'
<1>m. ASSUME NEW a, NEW c, NEW d, NEW r, Move(p, a, c, d, r),
             c.value # k, r.value # k, \A i \in KeyId : d[Aes][i] # k,
             \A i \in KeyId : file'.keys[Aes][i] # k
      PROVE  NotKept(k)'
  <2>1. call'[p] = c /\ snap'[p] = d /\ result'[p] = r /\ SoloFile(p)
    BY <1>m, MoveAt DEF Types
  <2> QED
    BY <1>m, <2>1 DEF NotKept, SoloFile
<1>g. ASSUME NEW a, Goes(p, a), \A i \in KeyId : file'.keys[Aes][i] # k PROVE NotKept(k)'
  BY <1>g, <1>m DEF Goes, NotKept
<1>e. ASSUME NEW r, Ends(p, r), r.value # k, \A i \in KeyId : file'.keys[Aes][i] # k PROVE NotKept(k)'
  BY <1>e, <1>m, BlankKeepsNone DEF Ends
<1>o. ASSUME NEW keys, \A i \in KeyId : keys[Aes][i] # k,
             file' \in Remains(keys)
      PROVE  \A i \in KeyId : file'.keys[Aes][i] # k
  <2>1. file' \in {file, Doc(keys), Ent!Blank("torn")}
    BY <1>o DEF Remains, Ent!Overwritten
  <2> QED
    BY <1>o, <2>1, BlankKeepsNone DEF Doc, NotKept
<1>f. file' = file \/ file' = Ent!Blank("empty") => \A i \in KeyId : file'.keys[Aes][i] # k
  BY BlankKeepsNone DEF NotKept
<1>1. CASE Effect(p)
  <2>1. ASSUME NEW a, Goes(p, a), file' = file \/ file' = Ent!Blank("empty") PROVE NotKept(k)'
    BY <2>1, <1>f, <1>g
  <2>w. ASSUME NEW keys, Writes(keys) PROVE file' \in Remains(keys)
    BY <2>w DEF Writes, Remains
  <2>2. ASSUME Goes(p, "dup"), Writes(Ent!NoKeys) PROVE NotKept(k)'
    BY <2>2, <2>w, <1>o, <1>g, BlankKeepsNone
  <2>3. ASSUME pc[p] = "load", file.form = "whole", file' = file,
               Move(p, "open", call[p],
                    Ent!AddKey(file.keys, call[p].table, call[p].id, call[p].value), result[p])
        PROVE  NotKept(k)'
    <3>1. file.keys \in Ent!Keys
      BY DEF Types, KeyTypes, Ent!TypeOK, Ent!File
    <3>2. \A i \in KeyId : Ent!AddKey(file.keys, call[p].table, call[p].id, call[p].value)[Aes][i] # k
      BY <3>1 DEF NotKept, Ent!AddKey, Ent!Keys, Ent!Table, Aes
    <3> QED
      BY <2>3, <3>2, <1>m DEF NotKept
  <2>4. ASSUME Ends(p, Ent!Ended("true")), Writes(snap[p]) PROVE NotKept(k)'
    BY <2>4, <2>w, <1>o, <1>e, BlankKeepsNone DEF NotKept
  <2>5. ASSUME file' = file, Move(p, "confirm", call[p], file.keys, result[p]) PROVE NotKept(k)'
    BY <2>5, <1>m DEF NotKept
  <2>6. ASSUME pc[p] = "confirm", file' = file,
               Ends(p, [kind |-> "value", value |-> Slot(snap[p], p)])
        PROVE  NotKept(k)'
    <3>1. call[p].table = Aes /\ call[p].id \in KeyId
      BY <2>6 DEF Types, Local, ProgTypes
    <3> QED
      BY <2>6, <3>1, <1>e, <1>f DEF NotKept, Slot
  <2>7. ASSUME NEW b, file' = file, Ends(p, Ent!Ended(b)) PROVE NotKept(k)'
    BY <2>7, <1>e, <1>f, BlankKeepsNone
  <2> QED
    BY <1>1, <2>1, <2>2, <2>3, <2>4, <2>5, <2>6, <2>7 DEF Effect
<1>2. ASSUME NEW a, NEW i, NEW v, v # k, Begun(p, a, i, v) PROVE NotKept(k)'
  BY <1>2, <1>m DEF Begun, NotKept
<1>3. CASE Stopped(p)
  <2>1. \A i \in KeyId : (IF pc[p] = "init" THEN Ent!NoKeys ELSE snap[p])[Aes][i] # k
    BY BlankKeepsNone DEF NotKept
  <2>2. \A i \in KeyId : file'.keys[Aes][i] # k
    BY <1>3, <2>1, <1>o, <1>f DEF Stopped
  <2> QED
    BY <1>3, <2>2, <1>e, BlankKeepsNone DEF Stopped
<1>4. CASE UNCHANGED entVars
  BY <1>4 DEF entVars, NotKept
<1> QED
  BY <1>1, <1>2, <1>3, <1>4, KeyFileAssumption DEF KeyEvent

LEMMA StartInit == Init => ShippedStart \/ OwnStart
<1> SUFFICES ASSUME Init, dbKey = [d \in Db |-> NoValue], file = Ent!Blank("absent") PROVE OwnStart
  BY DEF Init, ShippedStart
<1>1. Shipped[K0] \in Value /\ NoValue # Shipped[K0]
  BY ShippedAssumption, KeyNames, KeyFileAssumption
<1>2. NotKept(Shipped[K0])
  BY <1>1, BlankKeepsNone DEF Init, NotKept
<1>3. NotUsed(Shipped[K0])
  BY <1>1 DEF Init, NotUsed, NothingHeld
<1> QED
  BY <1>2, <1>3 DEF OwnStart

\* Nothing removes a user, a hash or the key of a database.
LEMMA AdminStays ==
  ASSUME NEW p \in Proc, ProcStep(p)
  PROVE  users \subseteq users' /\ (hashed = TRUE => hashed' = TRUE)
<1>1. CASE FileAccess(p) \/ GetKeys(p) \/ Task1(p) \/ Start(p) \/ Menu(p) \/ Die(p)
  BY <1>1 DEF FileAccess, GetKeys, MakeKey, ReadKey, NoKey, Task1, EncryptOrigin, GotKey,
     DecryptEncrypted, EndTask1, Start, Menu, Login, Export, Quit, Die
<1>2. CASE ConstructDatabase(p) \/ Constructed(p) \/ GotAdminKey(p) \/ CreateTable(p) \/ ExportHashes(p)
  BY <1>2 DEF ConstructDatabase, Constructed, GotAdminKey, GotKey, CreateTable, ExportHashes
<1>3. CASE StoreAdmin(p) \/ StoreHash(p)
  BY <1>3 DEF StoreAdmin, StoreHash
<1> QED
  BY <1>1, <1>2, <1>3 DEF ProcStep, Runs, SetUp

LEMMA StartStep ==
  Types /\ (ShippedStart \/ OwnStart) /\ [Next]_vars => (ShippedStart \/ OwnStart)'
<1> SUFFICES ASSUME Types, ShippedStart \/ OwnStart, [Next]_vars PROVE (ShippedStart \/ OwnStart)'
  OBVIOUS
<1>0. /\ Shipped[K0] \in Value /\ NoValue \notin Value
      /\ \A d \in Db : KeyOf(d) \in KeyId /\ Shipped[KeyOf(d)] \in Value
      /\ dbKey \in [Db -> Value \cup {NoValue}]
  BY ShippedAssumption, KeyNames, KeyFileAssumption DEF Types, ProgTypes, KeyOf
<1>1. ASSUME NEW p \in Proc, ProcStep(p), ShippedStart PROVE ShippedStart'
  <2>1. dbKey' = dbKey
    <3>1. ASSUME NEW d \in Db, Accepts(d, held[p][KeyOf(d)]) PROVE held[p][KeyOf(d)] = dbKey[d]
      BY <1>0, <1>1, <3>1 DEF ShippedStart, Accepts
    <3>2. ASSUME NEW d \in Db, dbKey' = [dbKey EXCEPT ![d] = held[p][KeyOf(d)]],
                 held[p][KeyOf(d)] = dbKey[d]
          PROVE  dbKey' = dbKey
      BY <1>0, <3>2
    <3> QED
      BY <1>1, <3>1, <3>2, DataStep
  <2> QED
    BY <1>1, <2>1, AdminStays DEF ShippedStart
<1>2. ASSUME NEW p \in Proc, ProcStep(p), OwnStart PROVE OwnStart'
  <2> DEFINE k == Shipped[K0]
  <2>1. KeyEvent(p) /\ Solo(p)
    BY <1>2, StepIsKeyEvent, ProcStepTypes
  <2>2. k \in InUse
    BY KeyNames DEF InUse
  <2>3. NotKept(k)'
    BY <1>0, <1>2, <2>1, <2>2, EventNotKept DEF OwnStart
  <2>4. ASSUME NEW q \in Proc, NEW i \in KeyId PROVE held'[q][i] # k
    <3>1. CASE q # p
      BY <1>2, <2>1, <3>1 DEF Solo, OwnStart, NotUsed
    <3>2. CASE held'[p] = held[p] \/ held'[p] = NothingHeld
      BY <1>0, <1>2, <3>1, <3>2 DEF OwnStart, NotUsed, NothingHeld
    <3>3. ASSUME NEW j \in KeyId, GotKey(p, j), q = p PROVE held'[q][i] # k
      <4>1. /\ held'[p][j] = result[p].value
            /\ \A m \in KeyId \ {j} : held'[p][m] = held[p][m]
        BY <3>3, GotKeyEffect DEF Types
      <4>2. result[p].value # k /\ held[p][i] # k
        BY <1>2 DEF OwnStart, NotKept, NotUsed
      <4> QED
        BY <3>3, <4>1, <4>2
    <3> QED
      BY <1>2, <3>1, <3>2, <3>3, HeldStep
  <2>5. ASSUME NEW d \in Db PROVE dbKey'[d] # k
    <3>1. CASE dbKey' = dbKey
      BY <1>2, <3>1 DEF OwnStart, NotUsed
    <3>2. ASSUME NEW e \in Db, dbKey' = [dbKey EXCEPT ![e] = held[p][KeyOf(e)]] PROVE dbKey'[d] # k
      <4>1. dbKey'[d] = dbKey[d] \/ dbKey'[d] = held[p][KeyOf(e)]
        BY <1>0, <3>2
      <4> QED
        BY <1>0, <1>2, <4>1 DEF OwnStart, NotUsed
    <3> QED
      BY <1>2, <3>1, <3>2, DataStep
  <2> QED
    BY <2>3, <2>4, <2>5 DEF OwnStart, NotUsed
<1>3. CASE OtherStep \/ UNCHANGED vars
  BY <1>3, OtherStepQuiet DEF vars, progVars, entVars, ShippedStart, OwnStart, NotKept, NotUsed
<1> QED
  BY <1>1, <1>2, <1>3, NextSteps

\* The key file has one key of a name.
LEMMA OneKey ==
  ASSUME Turns, NEW i, NEW k, NEW m, Has(i, k), Has(i, m)
  PROVE  k = m
BY DEF Turns, Ent!OneWriter, Has, Ent!Writers

\* With the files that come with the program every program that gets to the
\* prompt has the keys of both databases, and the super admin and its hash are
\* there: login (main.cpp:360-374) can be passed, whatever failed or died in
\* this start or another.  Nobody who began without these files has a database
\* with the shipped key.
THEOREM LoginCanBePassed == Spec => []ShippedCanLogin
<1> DEFINE Inv == /\ Types /\ FilesInv /\ (Calm => Turns) /\ (Sound => Known)
                  /\ ShippedStart \/ OwnStart
<1>1. Init => Inv
  BY TypesInit, FilesStart, TurnsInit, KnownInit, StartInit
<1>2. Inv /\ [Next]_vars => Inv'
  BY TypesStep, FilesStep, FilesKept, TurnsStep, KnownStep, StartStep DEF FilesInv
<1>3. Inv => ShippedCanLogin
  <2> SUFFICES ASSUME Types, Turns, Known, ShippedStart \/ OwnStart,
                      dbKey["scores"] = Shipped[K0],
                      NEW p \in Proc, stage[p] \in {"login", "menu", "again"}
               PROVE  CanLogin(p)
    BY DEF ShippedCanLogin, Sound, Calm
  <2>1. ShippedStart
    BY DEF OwnStart, NotUsed, Db
  <2>2. /\ dbKey["scores"] = Shipped[K0] /\ dbKey["hashes"] = Shipped[K1]
        /\ Shipped[K0] \in Value /\ Shipped[K1] \in Value
    BY <2>1, ShippedAssumption, KeyNames DEF ShippedStart, Db, KeyOf
  <2>3. Has(K0, Shipped[K0]) /\ Has(K1, Shipped[K1])
    BY <2>2 DEF Known, DataKnown, Db, KeyOf
  <2>4. held[p][K0] \in Value /\ held[p][K1] \in Value
    BY DEF Types, Local, Prompted
  <2>5. Has(K0, held[p][K0]) /\ Has(K1, held[p][K1])
    BY <2>4, KeyNames DEF Known, Knows
  <2>6. held[p][K0] = Shipped[K0] /\ held[p][K1] = Shipped[K1]
    BY <2>3, <2>5, OneKey
  <2> QED
    BY <2>1, <2>2, <2>6 DEF CanLogin, ShippedStart
<1> QED
  BY <1>1, <1>2, <1>3, PTL DEF Spec

-----------------------------------------------------------------------------
(***************************************************************************)
(* The programs as callers of the key file.  As long as no two of them     *)
(* write it at once, their steps are those of EntFile's writers who take   *)
(* turns, and what is proved of these holds of the programs: the key file  *)
(* is a vault.                                                             *)
(***************************************************************************)
InTurn == INSTANCE EntFileVaultProofs WITH Serial <- TRUE

\* An access to the file is the same, whether writers take turns or not.
LEMMA SameAccess ==
  ASSUME NEW p \in Proc
  PROVE  Ent!Step(p) <=> InTurn!Step(p)
BY DEF Ent!Step, InTurn!Step, Ent!Probe, InTurn!Probe, Ent!CreateBinaryEntFile,
   InTurn!CreateBinaryEntFile, Ent!WriteEmptyTables, InTurn!WriteEmptyTables,
   Ent!CheckDuplicate, InTurn!CheckDuplicate, Ent!LoadDocument, InTurn!LoadDocument,
   Ent!OpenForWriting, InTurn!OpenForWriting, Ent!StoreDocument,
   InTurn!StoreDocument, Ent!ReadDocument, InTurn!ReadDocument, Ent!ConfirmKey,
   InTurn!ConfirmKey, Ent!FindKey, InTurn!FindKey, Ent!Table, InTurn!Table,
   Ent!Keys, InTurn!Keys, Ent!NoKeys, InTurn!NoKeys, Ent!Blank, InTurn!Blank,
   Ent!Ended, InTurn!Ended, Ent!NoCall, InTurn!NoCall, Ent!HasKey, InTurn!HasKey,
   Ent!IsNull, InTurn!IsNull, Ent!AddKey, InTurn!AddKey, Ent!Encrypt,
   InTurn!Encrypt, Ent!Decodes, InTurn!Decodes, Ent!Overwritten, InTurn!Overwritten,
   Ent!Interrupted, InTurn!Interrupted, Ent!Lookup, InTurn!Lookup, Ent!Opens,
   InTurn!Opens, Ent!CannotOpen, InTurn!CannotOpen, Ent!TakeForMissing,
   InTurn!TakeForMissing, Ent!Goto, InTurn!Goto, Ent!Return, InTurn!Return,
   Ent!Throw, InTurn!Throw, Ent!Refuse, InTurn!Refuse, Ent!IsDuplicate,
   InTurn!IsDuplicate, Ent!WriteAndClose, InTurn!WriteAndClose, Ent!Text, InTurn!Text

LEMMA SameRestart ==
  ASSUME NEW p \in Proc
  PROVE  Ent!Restart(p) <=> InTurn!Restart(p)
BY DEF Ent!Restart, InTurn!Restart, Ent!Writing, InTurn!Writing, Ent!Interrupted,
   InTurn!Interrupted, Ent!Overwritten, InTurn!Overwritten, Ent!Blank, InTurn!Blank,
   Ent!NoKeys, InTurn!NoKeys, Ent!NoCall, InTurn!NoCall, Ent!Ended, InTurn!Ended,
   Ent!Text, InTurn!Text, Ent!Encrypt, InTurn!Encrypt, Ent!Table, InTurn!Table

LEMMA SameBegin ==
  ASSUME NEW p \in Proc, NEW a, NEW t, NEW i, NEW v
  PROVE  Ent!Begin(p, a, t, i, v) <=> InTurn!Begin(p, a, t, i, v)
BY DEF Ent!Begin, InTurn!Begin

\* What a program does with the key file it does by a call, an access or a
\* death of EntFile.
Uses(p) ==
  \/ Ent!Step(p) /\ raced' = raced
  \/ \E a \in {"find", "read"}, i \in KeyId : Ent!Begin(p, a, Aes, i, NoValue)
  \/ /\ \E i \in KeyId, v \in Value : Ent!Begin(p, "probe", Aes, i, v)
     /\ raced' = (raced \/ \E q \in Proc \ {p} : pc[q] \in Ent!Writers)
  \/ Ent!Restart(p)
  \/ UNCHANGED entVars

LEMMA ProcStepUses ==
  ASSUME Types, NEW p \in Proc, ProcStep(p)
  PROVE  Uses(p)
<1>0. wanted[p] \in KeyId
  BY DEF Types, ProgTypes
<1>1. CASE FileAccess(p)
  BY <1>1 DEF FileAccess, Uses
<1>2. CASE MakeKey(p)
  BY <1>0, <1>2, GeneratedType DEF MakeKey, Uses
<1>3. CASE ReadKey(p)
  BY <1>0, <1>3 DEF ReadKey, Read, Uses
<1>4. CASE NoKey(p) \/ Quit(p) \/ EndTask1(p) \/ Die(p)
  BY <1>4 DEF NoKey, Quit, EndTask1, Exit, Die, Uses
<1>5. CASE ConstructDatabase(p) \/ CreateTable(p) \/ ExportHashes(p) \/ Export(p) \/ Start(p)
  BY <1>5, KeyNames DEF ConstructDatabase, CreateTable, ExportHashes, Export, Start, Find, Uses
<1>6. CASE \/ Constructed(p) \/ GotAdminKey(p) \/ StoreAdmin(p) \/ StoreHash(p) \/ Login(p)
           \/ EncryptOrigin(p) \/ DecryptEncrypted(p)
  BY <1>6 DEF Constructed, GotAdminKey, StoreAdmin, StoreHash, Login, EncryptOrigin,
     DecryptEncrypted, Uses
<1> QED
  BY <1>1, <1>2, <1>3, <1>4, <1>5, <1>6 DEF ProcStep, Runs, GetKeys, SetUp, Task1, Menu

LEMMA AllUses ==
  ASSUME Types, [Next]_vars
  PROVE  UNCHANGED entVars \/ \E p \in Proc : Uses(p)
<1>1. CASE OtherStep \/ UNCHANGED vars
  BY <1>1, OtherStepQuiet DEF vars
<1> QED
  BY <1>1, ProcStepUses, NextSteps

\* Every such step is one of EntFile, and one of writers who take turns unless
\* it lets two write at once.
LEMMA UsesInTurn ==
  ASSUME Types, NEW p \in Proc, Uses(p), ~raced'
  PROVE  [InTurn!Next]_(InTurn!vars)
<1>0. Aes \in InTurn!Table
  BY DEF Aes, InTurn!Table
<1>1. CASE Ent!Step(p)
  BY <1>1, SameAccess DEF InTurn!Next
<1>2. CASE Ent!Restart(p)
  BY <1>2, SameRestart DEF InTurn!Next
<1>3. ASSUME NEW i \in KeyId, Ent!Begin(p, "find", Aes, i, NoValue) PROVE InTurn!Next
  BY <1>0, <1>3, SameBegin DEF InTurn!Next, InTurn!IsKeyExists
<1>4. ASSUME NEW i \in KeyId, Ent!Begin(p, "read", Aes, i, NoValue) PROVE InTurn!Next
  BY <1>0, <1>4, SameBegin DEF InTurn!Next, InTurn!ReadKeyFromFile
<1>5. ASSUME NEW i \in KeyId, NEW v \in Value, Ent!Begin(p, "probe", Aes, i, v),
             raced' = (raced \/ \E q \in Proc \ {p} : pc[q] \in Ent!Writers)
      PROVE  InTurn!Next
  <2>1. pc[p] = "idle"
    BY <1>5 DEF Ent!Begin
  <2>2. \A q \in Proc : pc[q] \notin InTurn!Writers
    BY <1>5, <2>1 DEF Ent!Writers, InTurn!Writers
  <2>3. InTurn!WriteKeyToFile(p)
    BY <1>0, <1>5, <2>2, SameBegin DEF InTurn!WriteKeyToFile
  <2> QED
    BY <2>3 DEF InTurn!Next
<1>6. CASE UNCHANGED entVars
  BY <1>6 DEF entVars, InTurn!vars
<1> QED
  BY <1>1, <1>2, <1>3, <1>4, <1>5, <1>6 DEF Uses

\* The programs' steps on the key file, until two write at once, are steps of
\* EntFile whose writers take turns: nothing main.cpp does with a cipher
\* object is left out of EntFile's view (main.cpp:81-95, 384-409, 446-461).
THEOREM ProgramsTakeTurns == Spec => [][~raced' => InTurn!Next]_entVars
<1>1. Types /\ [Next]_vars => [~raced' => InTurn!Next]_entVars
  <2> SUFFICES ASSUME Types, [Next]_vars, entVars' # entVars, ~raced' PROVE InTurn!Next
    OBVIOUS
  <2>1. [InTurn!Next]_(InTurn!vars)
    BY AllUses, UsesInTurn
  <2> QED
    BY <2>1 DEF entVars, InTurn!vars
<1> QED
  BY <1>1, TypesInvariant, PTL DEF Spec

\* With the files that come with the program or with none, the file is a vault
\* that nobody is writing.
LEMMA VaultAtStart == Init => InTurn!VInv
<1> SUFFICES ASSUME Init PROVE InTurn!VInv
  OBVIOUS
<1>1. InTurn!TypeOK
  <2>1. Ent!TypeOK
    BY TypesInit DEF Types, KeyTypes
  <2> QED
    BY <2>1 DEF Ent!TypeOK, InTurn!TypeOK, Ent!File, InTurn!File, Ent!Form, InTurn!Form,
       Ent!Keys, InTurn!Keys, Ent!Table, InTurn!Table, Ent!Writers, InTurn!Writers,
       Ent!Readers, InTurn!Readers, Ent!Outcome, InTurn!Outcome
<1>2. InTurn!WritersInTurn
  BY DEF Init, InTurn!WritersInTurn, InTurn!OneWriter, InTurn!WriterHoldsEmptyFile,
     InTurn!FileStaysThere, InTurn!CreatorIsFirst, InTurn!NothingAckedBeforeCreation,
     InTurn!AppenderIsCurrent, InTurn!Writers, InTurn!Writing
<1>3. InTurn!BlankInv
  BY DEF Init, ShippedFile, InTurn!BlankInv, InTurn!NoKeys, Ent!Blank, Ent!NoKeys, Ent!Table,
     InTurn!Table
<1>4. ~mistaken
  BY DEF Init
<1> QED
  BY <1>1, <1>2, <1>3, <1>4 DEF InTurn!VInv, InTurn!Inv

LEMMA CalmBefore == Types /\ [Next]_vars /\ Calm' => Calm
<1> SUFFICES ASSUME Types, [Next]_vars, Calm' PROVE Calm
  OBVIOUS
<1>1. ASSUME NEW p \in Proc, ProcStep(p) PROVE Calm
  BY <1>1, StepIsKeyEvent, FlagsStay
<1>2. CASE OtherStep \/ UNCHANGED vars
  BY <1>2, OtherStepQuiet DEF vars, progVars, entVars, Calm
<1> QED
  BY <1>1, <1>2, NextSteps

\* The programs keep what the vault rests on.
LEMMA VaultKept == Types /\ (Calm => InTurn!VInv) /\ [Next]_vars => (Calm => InTurn!VInv)'
<1> SUFFICES ASSUME Types, Calm => InTurn!VInv, [Next]_vars, Calm' PROVE InTurn!VInv'
  OBVIOUS
<1>1. InTurn!VInv
  BY CalmBefore
<1>2. [InTurn!Next]_(InTurn!vars)
  <2>1. ~raced'
    BY DEF Calm
  <2> QED
    BY <2>1, AllUses, UsesInTurn DEF entVars, InTurn!vars
<1>3. InTurn!Inv'
  BY <1>1, <1>2, InTurn!TurnsStep, KeyFileAssumption DEF InTurn!VInv
<1>4. InTurn!BlankInv'
  BY <1>1, <1>2, InTurn!BlankStep, KeyFileAssumption
<1> QED
  BY <1>3, <1>4 DEF InTurn!VInv, Calm

\* The vault is read off the file in the same way.
LEMMA SameVault ==
  /\ InTurn!Vault!Next => Ent!Vault!Next
  /\ UNCHANGED InTurn!Vault!vars => UNCHANGED Ent!Vault!vars
BY DEF Ent!Vault!Next, InTurn!Vault!Next, Ent!Vault!Create, InTurn!Vault!Create,
   Ent!Vault!Add, InTurn!Vault!Add, Ent!Vault!Lose, InTurn!Vault!Lose,
   Ent!Vault!NoKeys, InTurn!Vault!NoKeys, Ent!Vault!vars, InTurn!Vault!vars,
   Ent!VaultState, InTurn!VaultState, Ent!VaultKeys, InTurn!VaultKeys, Ent!Storing,
   InTurn!Storing, Ent!AddKey, InTurn!AddKey, Ent!Table, InTurn!Table, Ent!NoKeys,
   InTurn!NoKeys

\* Until two programs write at once or a failed open is taken for a missing
\* file, the programs' key file is the vault of KeyVault, from the shipped
\* file or from none, with any number of programs, deaths and failures: a
\* program adds keys under free names and never replaces one.
THEOREM ProgramsKeepVault == Spec => KeyFileIsVault
<1>1. Spec => [](Types /\ (Calm => InTurn!VInv))
  BY VaultAtStart, VaultKept, TypesInit, TypesStep, PTL DEF Spec
<1>2. /\ Types /\ (Calm => InTurn!VInv)
      /\ (Types /\ (Calm => InTurn!VInv))'
      /\ [Next]_vars
      => [~raced' /\ ~mistaken' => Ent!Vault!Next \/ UNCHANGED Ent!Vault!vars]_vars
  <2> SUFFICES ASSUME Types, Calm => InTurn!VInv, (Calm => InTurn!VInv)', [Next]_vars,
                      ~raced', ~mistaken'
               PROVE  Ent!Vault!Next \/ UNCHANGED Ent!Vault!vars
    OBVIOUS
  <2>1. InTurn!VInv /\ InTurn!VInv'
    BY CalmBefore DEF Calm
  <2>2. [InTurn!Next]_(InTurn!vars)
    BY AllUses, UsesInTurn DEF entVars, InTurn!vars
  <2>3. [InTurn!Vault!Next]_(InTurn!Vault!vars)
    BY <2>1, <2>2, InTurn!VaultStep, KeyFileAssumption
  <2> QED
    BY <2>3, SameVault
<1> QED
  BY <1>1, <1>2, PTL DEF Spec, KeyFileIsVault
=============================================================================
