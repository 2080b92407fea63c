------------------------ MODULE TestProgramTaskProofs ------------------------
(***************************************************************************)
(* task1 gives back what it was given: the theorem about TaskRoundTrip.    *)
(***************************************************************************)
EXTENDS TestProgramProofs

-----------------------------------------------------------------------------
(***************************************************************************)
(* The steps of a call of the file operations.                             *)
(***************************************************************************)
\* The call goes on, with the same arguments.
SameCall ==
  /\ op'.cipher = op.cipher /\ op'.way = op.way /\ op'.key = op.key
  /\ op'.from = op.from /\ op'.to = op.to

Opening ==
  /\ SameCall /\ op'.pc # "idle" /\ UNCHANGED fault
  /\ op'.todo = op.todo /\ op'.done = op.done
  /\ \A m \in Name \ op.todo : disk'[op.to][m] = disk[op.to][m]

Copying(n, r) ==
  /\ r.ok
  /\ SameCall /\ op'.pc # "idle"
  /\ op'.todo = op.todo \ {n} /\ op'.done = op.done \cup {n}
  /\ \A m \in Name \ {n} : disk'[op.to][m] = disk[op.to][m]
  /\ \/ fault' = TRUE
     \/ fault' = fault /\ disk'[op.to][n] = r.out

LEMMA FileStepEffect ==
  ASSUME FilesInv, FileStep
  PROVE  /\ op.pc # "idle" /\ Running(op)
         /\ op.from # op.to => \A d \in Dir : d # op.to => disk'[d] = disk[d]
         /\ \/ Opening
            \/ op'.pc = "idle" /\ fault' = TRUE
            \/ op'.pc = "idle" /\ op.todo = {} /\ UNCHANGED <<disk, fault>>
            \/ \E n \in op.todo : \E r \in Result(op.cipher, op.way, op.key, disk[op.from][n]) :
                 Copying(n, r) \/ (~r.ok /\ op'.pc = "idle")
<1>t. Plain(Nothing) \in Content /\ Plain(Junk) \in Content
  BY TextAssumption DEF Content
<1>e. \A b : End(b) => op'.pc = "idle"
  BY DEF End, Idle
<1>r. op.pc # "idle" => Running(op)
  BY DEF FilesInv, OpOK, Resting
<1>d. DiskOK
  BY DEF FilesInv
<1>1. CASE OpenFiles
  <2>1. op.pc = "next" /\ Running(op)
    BY <1>1, <1>r DEF OpenFiles
  <2>2. PICK n \in op.todo :
          \/ /\ disk' = [disk EXCEPT ![op.to][n] = Plain(Nothing)]
             /\ op' = [op EXCEPT !.pc = n]
             /\ UNCHANGED fault
          \/ End(TRUE) /\ fault' = TRUE /\ UNCHANGED disk
    BY <1>1 DEF OpenFiles
  <2>3. op.to \in Dir /\ n \in Name /\ n # "idle"
    BY <2>1, NameAssumption DEF Running
  <2>4. CASE disk' = [disk EXCEPT ![op.to][n] = Plain(Nothing)] /\ op' = [op EXCEPT !.pc = n]
             /\ UNCHANGED fault
    <3>1. SameCall /\ op'.pc = n /\ op'.todo = op.todo /\ op'.done = op.done
      BY <2>1, <2>4 DEF Running, SameCall
    <3>2. /\ \A d \in Dir : d # op.to => disk'[d] = disk[d]
          /\ \A m \in Name : m # n => disk'[op.to][m] = disk[op.to][m]
      BY <2>3, <2>4, <1>t, <1>d, PutType
    <3> QED
      BY <2>1, <2>3, <2>4, <3>1, <3>2 DEF Opening
  <2>5. CASE End(TRUE) /\ fault' = TRUE /\ UNCHANGED disk
    BY <2>1, <2>5, <1>e
  <2> QED
    BY <2>2, <2>4, <2>5
<1>2. CASE CopyFile
  <2>1. op.pc \in Name /\ op.pc # "idle" /\ Running(op)
    BY <1>2, <1>r, NameAssumption DEF CopyFile
  <2>2. PICK r \in Result(op.cipher, op.way, op.key, disk[op.from][op.pc]) :
          /\ \/ disk' = [disk EXCEPT ![op.to][op.pc] = r.out] /\ UNCHANGED fault
             \/ disk' = [disk EXCEPT ![op.to][op.pc] = Plain(Junk)] /\ fault' = TRUE
          /\ IF r.ok THEN op' = [op EXCEPT !.pc = "next", !.todo = @ \ {op.pc}, !.done = @ \cup {op.pc}]
                     ELSE End(TRUE)
    BY <1>2 DEF CopyFile
  <2>3. /\ op.to \in Dir /\ op.from \in Dir /\ op.cipher \in {"aes", "rsa"}
        /\ op.key \in Keys(op.cipher) /\ op.pc \in op.todo
    BY <2>1 DEF Running, Keys
  <2>4. disk[op.from][op.pc] \in Content
    BY <2>1, <2>3, <1>d DEF DiskOK
  <2>5. r.out \in Content
    BY <2>3, <2>4, ResultType
  <2>6. /\ \A d \in Dir : d # op.to => disk'[d] = disk[d]
        /\ \A m \in Name : m # op.pc => disk'[op.to][m] = disk[op.to][m]
        /\ fault' = TRUE \/ (fault' = fault /\ disk'[op.to][op.pc] = r.out)
    BY <2>1, <2>2, <2>3, <2>5, <1>t, <1>d, PutType
  <2>7. CASE r.ok
    <3>1. SameCall /\ op'.pc = "next" /\ op'.todo = op.todo \ {op.pc} /\ op'.done = op.done \cup {op.pc}
      BY <2>1, <2>2, <2>7 DEF Running, SameCall
    <3>2. Copying(op.pc, r)
      BY <2>6, <2>7, <3>1 DEF Copying
    <3> QED
      BY <2>1, <2>3, <2>6, <3>2
  <2>8. CASE ~r.ok
    BY <2>1, <2>2, <2>3, <2>6, <2>8, <1>e
  <2> QED
    BY <2>7, <2>8
<1>3. CASE Finish
  <2>1. op.pc # "idle" /\ op.todo = {} /\ op'.pc = "idle" /\ UNCHANGED <<disk, fault>>
    BY <1>3, <1>e DEF Finish
  <2> QED
    BY <2>1, <1>r
<1> QED
  BY <1>1, <1>2, <1>3 DEF FileStep

-----------------------------------------------------------------------------
(***************************************************************************)
(* The two calls of task1, with key k.                                     *)
(***************************************************************************)
IsSealed(k, n) == disk["encrypted"][n] = Sealed("aes", k, disk["origin"][n].text)

IsOpened(n) == disk["decrypted"][n] = Plain(disk["encrypted"][n].text)

CanOpen(k) ==
  \A n \in Present("encrypted") : disk["encrypted"][n].form = "aes" /\ disk["encrypted"][n].key = k

Calls(way, k, from, to) ==
  /\ op.cipher = "aes" /\ op.way = way /\ op.key = k /\ op.from = from /\ op.to = to
  /\ op.todo \cup op.done = Present(from)

Encrypts(k) ==
  /\ op.pc # "idle" =>
       /\ Calls("encrypt", k, "origin", "encrypted")
       /\ ~fault => \A n \in op.done : IsSealed(k, n)
  /\ op.pc = "idle" /\ ~fault => \A n \in Present("origin") : IsSealed(k, n)

Decrypts(k) ==
  /\ ~flawed => \A n \in Present("origin") : IsSealed(k, n)
  /\ op.pc # "idle" =>
       /\ Calls("decrypt", k, "encrypted", "decrypted")
       /\ ~fault /\ CanOpen(k) => \A n \in op.done : IsOpened(n)
  /\ op.pc = "idle" /\ ~fault /\ CanOpen(k) => \A n \in Present("encrypted") : IsOpened(n)

\* Nothing but files of the user is in origin.
OriginPlain == \A n \in Name : disk["origin"][n].form \in {"none", "plain"}

LEMMA Dirs ==
  /\ "origin" \in Dir /\ "encrypted" \in Dir /\ "decrypted" \in Dir
  /\ "origin" # "encrypted" /\ "origin" # "decrypted" /\ "encrypted" # "decrypted"
BY TaskAssumption

LEMMA PlainInOrigin ==
  ASSUME DiskOK, OriginPlain, NEW n \in Present("origin")
  PROVE  n \in Name /\ disk["origin"][n] = Plain(disk["origin"][n].text)
<1>1. n \in Name /\ disk["origin"][n] \in Content /\ disk["origin"][n] # NoFile
  BY Dirs DEF DiskOK, Present
<1>2. disk["origin"][n].form \in {"none", "plain"}
  BY <1>1 DEF OriginPlain
<1> QED
  BY <1>1, <1>2 DEF Content, Plain, NoFile

LEMMA SealedIsThere ==
  ASSUME NEW k, NEW n \in Name, IsSealed(k, n)
  PROVE  /\ n \in Present("encrypted")
         /\ disk["encrypted"][n].form = "aes" /\ disk["encrypted"][n].key = k
         /\ disk["encrypted"][n].text = disk["origin"][n].text
BY DEF IsSealed, Present, Sealed, NoFile

LEMMA EncryptsStep ==
  ASSUME FilesInv, OriginPlain, NEW k, Encrypts(k), FileStep
  PROVE  Encrypts(k)' /\ OriginPlain'
<1>1. Calls("encrypt", k, "origin", "encrypted") /\ Running(op) /\ op.pc # "idle"
  BY FileStepEffect DEF Encrypts
<1>2. disk'["origin"] = disk["origin"]
  BY <1>1, FileStepEffect, Dirs DEF Calls
<1>3. Present("origin")' = Present("origin") /\ OriginPlain'
  BY <1>2 DEF Present, OriginPlain
<1>4. op.done \cap op.todo = {} /\ op.done \subseteq Name /\ op.todo \subseteq Name
  BY <1>1 DEF Running
<1>5. ASSUME NEW n \in Name, IsSealed(k, n), disk'["encrypted"][n] = disk["encrypted"][n]
      PROVE  IsSealed(k, n)'
  BY <1>2, <1>5 DEF IsSealed
<1>6. CASE Opening
  <2>1. Calls("encrypt", k, "origin", "encrypted")' /\ op'.pc # "idle" /\ op'.done = op.done
    BY <1>1, <1>3, <1>6 DEF Opening, SameCall, Calls
  <2>2. ASSUME ~fault', NEW n \in op.done PROVE IsSealed(k, n)'
    <3>1. n \in Name /\ disk'["encrypted"][n] = disk["encrypted"][n]
      BY <1>1, <1>4, <1>6 DEF Opening, Calls
    <3>2. IsSealed(k, n)
      BY <1>1, <1>6, <2>2 DEF Opening, Encrypts
    <3> QED
      BY <3>1, <3>2, <1>5
  <2> QED
    BY <1>3, <2>1, <2>2 DEF Encrypts
<1>7. CASE op'.pc = "idle" /\ fault' = TRUE
  BY <1>3, <1>7 DEF Encrypts
<1>8. CASE op'.pc = "idle" /\ op.todo = {} /\ UNCHANGED <<disk, fault>>
  <2>1. op.done = Present("origin")
    BY <1>1, <1>8 DEF Calls
  <2>2. ASSUME ~fault', NEW n \in Present("origin") PROVE IsSealed(k, n)'
    BY <1>1, <1>8, <2>1, <2>2 DEF Encrypts, IsSealed
  <2> QED
    BY <1>3, <1>8, <2>2 DEF Encrypts
<1>9. ASSUME NEW n \in op.todo, NEW r \in Result(op.cipher, op.way, op.key, disk[op.from][n]),
             Copying(n, r) \/ (~r.ok /\ op'.pc = "idle")
      PROVE  Encrypts(k)' /\ OriginPlain'
  <2>1. n \in Present("origin") /\ n \in Name
    BY <1>1, <1>4 DEF Calls
  <2>2. disk["origin"][n].form = "plain"
    BY <2>1, PlainInOrigin, WrittenForm DEF FilesInv
  <2>3. r.ok /\ r.out = Sealed("aes", k, disk["origin"][n].text)
    BY <1>1, <2>2 DEF Calls, Result, Encrypted
  <2>4. Copying(n, r)
    BY <1>9, <2>3
  <2>5. Calls("encrypt", k, "origin", "encrypted")' /\ op'.pc # "idle" /\ op'.done = op.done \cup {n}
    BY <1>1, <1>3, <2>4 DEF Copying, SameCall, Calls
  <2>6. ASSUME ~fault', NEW m \in op.done \cup {n} PROVE IsSealed(k, m)'
    <3>1. fault' = fault /\ disk'["encrypted"][n] = r.out
      BY <1>1, <2>4, <2>6 DEF Copying, Calls
    <3>2. CASE m = n
      BY <1>2, <2>3, <3>1, <3>2 DEF IsSealed
    <3>3. CASE m # n
      <4>1. m \in Name /\ disk'["encrypted"][m] = disk["encrypted"][m]
        BY <1>1, <1>4, <2>4, <2>6, <3>3 DEF Copying, Calls
      <4>2. IsSealed(k, m)
        BY <1>1, <2>6, <3>1, <3>3 DEF Encrypts
      <4> QED
        BY <4>1, <4>2, <1>5
    <3> QED
      BY <3>2, <3>3
  <2> QED
    BY <1>3, <2>5, <2>6 DEF Encrypts
<1> QED
  BY <1>6, <1>7, <1>8, <1>9, FileStepEffect

LEMMA DecryptsStep ==
  ASSUME FilesInv, OriginPlain, NEW k, Decrypts(k), FileStep, flawed' = flawed
  PROVE  Decrypts(k)' /\ OriginPlain'
<1>1. Calls("decrypt", k, "encrypted", "decrypted") /\ Running(op) /\ op.pc # "idle"
  BY FileStepEffect DEF Decrypts
<1>2. disk'["origin"] = disk["origin"] /\ disk'["encrypted"] = disk["encrypted"]
  BY <1>1, FileStepEffect, Dirs DEF Calls
<1>3. /\ Present("origin")' = Present("origin") /\ Present("encrypted")' = Present("encrypted")
      /\ CanOpen(k)' = CanOpen(k) /\ OriginPlain'
  BY <1>2 DEF Present, OriginPlain, CanOpen
<1>4. op.done \cap op.todo = {} /\ op.done \subseteq Name /\ op.todo \subseteq Name
  BY <1>1 DEF Running
<1>s. ~flawed' => \A n \in Present("origin")' : IsSealed(k, n)'
  BY <1>2, <1>3 DEF Decrypts, IsSealed
<1>5. ASSUME NEW n \in Name, IsOpened(n), disk'["decrypted"][n] = disk["decrypted"][n]
      PROVE  IsOpened(n)'
  BY <1>2, <1>5 DEF IsOpened
<1>6. CASE Opening
  <2>1. Calls("decrypt", k, "encrypted", "decrypted")' /\ op'.pc # "idle" /\ op'.done = op.done
    BY <1>1, <1>3, <1>6 DEF Opening, SameCall, Calls
  <2>2. ASSUME ~fault', CanOpen(k), NEW n \in op.done PROVE IsOpened(n)'
    <3>1. n \in Name /\ disk'["decrypted"][n] = disk["decrypted"][n]
      BY <1>1, <1>4, <1>6 DEF Opening, Calls
    <3>2. IsOpened(n)
      BY <1>1, <1>6, <2>2 DEF Opening, Decrypts
    <3> QED
      BY <3>1, <3>2, <1>5
  <2> QED
    BY <1>s, <1>3, <2>1, <2>2 DEF Decrypts
<1>7. CASE op'.pc = "idle" /\ fault' = TRUE
  BY <1>s, <1>3, <1>7 DEF Decrypts
<1>8. CASE op'.pc = "idle" /\ op.todo = {} /\ UNCHANGED <<disk, fault>>
  <2>1. op.done = Present("encrypted")
    BY <1>1, <1>8 DEF Calls
  <2>2. ASSUME ~fault', CanOpen(k), NEW n \in Present("encrypted") PROVE IsOpened(n)'
    BY <1>1, <1>8, <2>1, <2>2 DEF Decrypts, IsOpened
  <2> QED
    BY <1>s, <1>3, <1>8, <2>2 DEF Decrypts
<1>9. ASSUME NEW n \in op.todo, NEW r \in Result(op.cipher, op.way, op.key, disk[op.from][n]),
             Copying(n, r) \/ (~r.ok /\ op'.pc = "idle")
      PROVE  Decrypts(k)' /\ OriginPlain'
  <2>1. n \in Present("encrypted") /\ n \in Name
    BY <1>1, <1>4 DEF Calls
  <2>2. CanOpen(k) => r.ok /\ r.out = Plain(disk["encrypted"][n].text)
    BY <1>1, <2>1 DEF CanOpen, Calls, Result, Decrypted, Opens
  <2>3. CASE Copying(n, r)
    <3>1. Calls("decrypt", k, "encrypted", "decrypted")' /\ op'.pc # "idle" /\ op'.done = op.done \cup {n}
      BY <1>1, <1>3, <2>3 DEF Copying, SameCall, Calls
    <3>2. ASSUME ~fault', CanOpen(k), NEW m \in op.done \cup {n} PROVE IsOpened(m)'
      <4>1. fault' = fault /\ disk'["decrypted"][n] = r.out
        BY <1>1, <2>3, <3>2 DEF Copying, Calls
      <4>2. CASE m = n
        BY <1>2, <2>2, <3>2, <4>1, <4>2 DEF IsOpened
      <4>3. CASE m # n
        <5>1. m \in Name /\ disk'["decrypted"][m] = disk["decrypted"][m]
          BY <1>1, <1>4, <2>3, <3>2, <4>3 DEF Copying, Calls
        <5>2. IsOpened(m)
          BY <1>1, <3>2, <4>1, <4>3 DEF Decrypts
        <5> QED
          BY <5>1, <5>2, <1>5
      <4> QED
        BY <4>2, <4>3
    <3> QED
      BY <1>s, <1>3, <3>1, <3>2 DEF Decrypts
  <2>4. CASE ~r.ok /\ op'.pc = "idle"
    BY <1>s, <1>3, <2>2, <2>4 DEF Decrypts
  <2> QED
    BY <1>9, <2>3, <2>4
<1> QED
  BY <1>6, <1>7, <1>8, <1>9, FileStepEffect

-----------------------------------------------------------------------------
(***************************************************************************)
(* task1 runs once at a time, and its calls are all there are.             *)
(***************************************************************************)
Alone == \A p, q \in Proc : stage[p] # "off" /\ stage[q] # "off" => p = q

Works(p) == stage[p] \in {"encrypting", "decrypting"}

Trip(p, k) ==
  /\ stage[p] = "encrypting" => Encrypts(k)
  /\ stage[p] = "decrypting" => Decrypts(k)

TripInv ==
  /\ \A p \in Proc : Works(p) => task = "task1"
  /\ task = "task1" =>
       /\ Alone /\ OriginPlain
       /\ op.pc # "idle" => \E p \in Proc : Works(p)
       /\ \A p \in Proc, k \in Value : held[p][K0] = k => Trip(p, k)

LEMMA TripInit == Init => TripInv
<1> SUFFICES ASSUME Init, task = "task1" PROVE TripInv
  BY DEF Init, TripInv, Works
<1>1. PICK files \in Leftover["task1"] : disk = files /\ op = Idle
  BY DEF Init, FilesInit
<1>2. OriginPlain
  BY <1>1, LeftoverAssumption DEF Init, OriginPlain
<1>3. op.pc = "idle" /\ \A p \in Proc : stage[p] = "off"
  BY <1>1 DEF Init, Idle
<1> QED
  BY <1>2, <1>3 DEF TripInv, Alone, Works, Trip

\* The steps of a program that do not touch the directories.
LEMMA OtherProcStep ==
  ASSUME Types, NEW p \in Proc, FileAccess(p) \/ GetKeys(p) \/ SetUp(p) \/ Menu(p)
  PROVE  /\ UNCHANGED <<disk, op, fault, flawed>>
         /\ ~Works(p) /\ stage[p] # "off" /\ stage'[p] \notin {"encrypting", "decrypting"}
<1> USE DEF Works
<1>1. CASE FileAccess(p)
  <2>1. pc[p] # "idle"
    BY <1>1 DEF FileAccess, Ent!Step, Ent!Probe, Ent!CreateBinaryEntFile, Ent!WriteEmptyTables,
       Ent!CheckDuplicate, Ent!LoadDocument, Ent!OpenForWriting, Ent!StoreDocument,
       Ent!ReadDocument, Ent!ConfirmKey, Ent!FindKey
  <2>2. stage[p] \in {"find", "write", "read", "again"}
    BY <2>1 DEF Types, Local
  <2> QED
    BY <1>1, <2>2 DEF FileAccess, fileVars
<1>2. CASE GetKeys(p)
  BY <1>2 DEF GetKeys, MakeKey, ReadKey, NoKey, Read, Exit, At, To, fileVars, Types, ProgTypes
<1>3. CASE (ConstructDatabase(p) \/ Constructed(p) \/ GotAdminKey(p)) /\ UNCHANGED <<fileVars, flawed>>
  BY <1>3 DEF ConstructDatabase, Constructed, GotAdminKey, GotKey, Find, At, To, fileVars, Types, ProgTypes
<1>4. CASE /\ CreateTable(p) \/ StoreAdmin(p) \/ StoreHash(p) \/ ExportHashes(p)
           /\ UNCHANGED <<fileVars, flawed>>
  BY <1>4 DEF fileVars, CreateTable, StoreAdmin, StoreHash, ExportHashes, Find, At, To, Types, ProgTypes
<1>5. CASE Menu(p)
  BY <1>5 DEF Menu, Login, Export, Quit, Exit, At, To, fileVars, Types, ProgTypes
<1> QED
  BY <1>1, <1>2, <1>3, <1>4, <1>5 DEF SetUp

\* The directories are task1's.
LEMMA WorkStep ==
  ASSUME Types, NEW p \in Proc, ProcStep(p), \A q \in Proc : Works(q) => task = "task1"
  PROVE  \A q \in Proc : Works(q)' => task' = "task1"
<1>1. Solo(p) /\ task' = task /\ stage \in [Proc -> Stages]
  BY ProcStepTypes DEF ProcStep, Runs, Types, ProgTypes
<1>2. stage'[p] \in {"encrypting", "decrypting"} => task = "task1"
  <2>1. CASE FileAccess(p) \/ GetKeys(p) \/ SetUp(p) \/ Menu(p)
    BY <2>1, OtherProcStep
  <2>2. CASE EncryptOrigin(p)
    BY <2>2 DEF EncryptOrigin
  <2>3. CASE DecryptEncrypted(p)
    BY <2>3 DEF DecryptEncrypted, At, Works
  <2>4. CASE EndTask1(p) \/ Start(p) \/ Die(p)
    BY <1>1, <2>4 DEF EndTask1, Exit, Start, Find, Die, To
  <2> QED
    BY <2>1, <2>2, <2>3, <2>4 DEF ProcStep, Runs, Task1
<1> QED
  BY <1>1, <1>2 DEF Solo, Works

LEMMA TripProcStep ==
  ASSUME Types, FilesInv, TripInv, NEW p \in Proc, ProcStep(p)
  PROVE  TripInv'
<1>w. \A q \in Proc : Works(q)' => task' = "task1"
  BY WorkStep DEF TripInv
<1> SUFFICES ASSUME task = "task1", task' = task PROVE TripInv'
  BY <1>w DEF TripInv, ProcStep, Runs
<1>0. /\ Alone /\ OriginPlain
      /\ op.pc # "idle" => \E q \in Proc : Works(q)
      /\ \A q \in Proc, k \in Value : held[q][K0] = k => Trip(q, k)
  BY DEF TripInv
<1>s. Solo(p) /\ stage \in [Proc -> Stages] /\ held \in [Proc -> [KeyId -> Value \cup {NoValue}]]
  BY ProcStepTypes DEF Types, ProgTypes
\* When only p runs, it is enough to look at p.
<1>p. ASSUME stage[p] # "off" \/ NobodyRuns, OriginPlain',
             op'.pc # "idle" => stage'[p] \in {"encrypting", "decrypting"},
             \A k \in Value : held'[p][K0] = k => Trip(p, k)'
      PROVE  TripInv'
  <2>1. \A q \in Proc \ {p} : stage'[q] = "off"
    BY <1>0, <1>s, <1>p DEF Alone, NobodyRuns, Solo
  <2>2. Alone'
    BY <2>1 DEF Alone
  <2>3. ASSUME NEW q \in Proc, NEW k \in Value, held'[q][K0] = k PROVE Trip(q, k)'
    <3>1. CASE q = p
      BY <1>p, <2>3, <3>1
    <3>2. CASE q # p
      BY <2>1, <3>2 DEF Trip
    <3> QED
      BY <3>1, <3>2
  <2>4. op'.pc # "idle" => \E q \in Proc : Works(q)'
    BY <1>p DEF Works
  <2> QED
    BY <1>p, <1>w, <2>2, <2>3, <2>4 DEF TripInv
<1>1. CASE FileAccess(p) \/ GetKeys(p) \/ SetUp(p) \/ Menu(p)
  <2>1. /\ UNCHANGED <<disk, op, fault, flawed>>
        /\ ~Works(p) /\ stage[p] # "off" /\ stage'[p] \notin {"encrypting", "decrypting"}
    BY <1>1, OtherProcStep
  <2>2. op.pc = "idle"
    BY <1>0, <2>1 DEF Alone, Works
  <2> QED
    BY <1>0, <1>p, <2>1, <2>2 DEF OriginPlain, Trip
<1>2. CASE EncryptOrigin(p)
  <2>1. stage[p] = "read" /\ held'[p][K0] = result[p].value
    BY <1>2, GotKeyEffect, KeyNames DEF EncryptOrigin, Types
  <2>2. /\ op'.cipher = "aes" /\ op'.way = "encrypt" /\ op'.key = result[p].value
        /\ op'.from = "origin" /\ op'.to = "encrypted"
        /\ op'.todo = Present("origin") /\ op'.done = {} /\ op'.pc = "next" /\ UNCHANGED disk
    BY <1>2 DEF EncryptOrigin, Call
  <2>3. stage'[p] = "encrypting"
    BY <1>2, <1>s DEF EncryptOrigin, To
  <2>4. ASSUME NEW k \in Value, held'[p][K0] = k PROVE Trip(p, k)'
    <3>1. Encrypts(k)'
      BY <2>1, <2>2, <2>4 DEF Encrypts, Calls, Present
    <3> QED
      BY <2>3, <3>1 DEF Trip
  <2> QED
    BY <1>0, <1>p, <2>1, <2>2, <2>3, <2>4 DEF OriginPlain
<1>3. CASE DecryptEncrypted(p)
  <2>1. /\ stage[p] = "encrypting" /\ stage'[p] = "decrypting" /\ op.pc = "idle" /\ held' = held
        /\ flawed' = (flawed \/ fault)
    BY <1>3, <1>s DEF DecryptEncrypted, At, To
  <2>2. /\ op'.cipher = "aes" /\ op'.way = "decrypt" /\ op'.key = held[p][K0]
        /\ op'.from = "encrypted" /\ op'.to = "decrypted"
        /\ op'.todo = Present("encrypted") /\ op'.done = {} /\ op'.pc = "next" /\ UNCHANGED disk
    BY <1>3 DEF DecryptEncrypted, Call
  <2>3. ASSUME NEW k \in Value, held'[p][K0] = k PROVE Trip(p, k)'
    <3>1. Encrypts(k)
      BY <1>0, <2>1, <2>3 DEF Trip
    <3>2. ~flawed' => ~fault
      BY <2>1
    <3>3. ~flawed' => \A n \in Present("origin") : IsSealed(k, n)
      BY <2>1, <3>1, <3>2 DEF Encrypts
    <3>4. Decrypts(k)'
      BY <2>1, <2>2, <2>3, <3>3 DEF Decrypts, Calls, Present, IsSealed
    <3> QED
      BY <2>1, <3>4 DEF Trip
  <2> QED
    BY <1>0, <1>p, <2>1, <2>2, <2>3 DEF OriginPlain
<1>4. CASE EndTask1(p)
  <2>1. /\ stage[p] = "decrypting" /\ stage'[p] = "off" /\ op.pc = "idle" /\ UNCHANGED <<disk, op>>
    BY <1>4, <1>s DEF EndTask1, Exit, At, To, fileVars
  <2> QED
    BY <1>0, <1>p, <2>1 DEF OriginPlain, Trip
<1>5. CASE Start(p)
  <2>1. /\ stage'[p] = "find" /\ NobodyRuns /\ UNCHANGED <<disk, op>>
    BY <1>5, <1>s DEF Start, Find, To, fileVars
  <2>2. op.pc = "idle"
    BY <1>0, <2>1 DEF NobodyRuns, Works
  <2> QED
    BY <1>0, <1>p, <2>1, <2>2 DEF OriginPlain, Trip
<1>6. CASE Die(p)
  <2>1. stage[p] # "off" /\ stage'[p] = "off"
    BY <1>6, <1>s DEF Die, To
  <2>2. op'.pc = "idle"
    BY <1>6 DEF Die, Abort, Idle, fileVars
  <2>3. disk' = disk \/ (op.pc # "idle" /\ disk' = [disk EXCEPT ![op.to][op.pc] = Plain(Junk)])
    BY <1>6 DEF Die, Abort, fileVars
  <2>4. CASE op.pc # "idle"
    <3>1. op.to \in {"encrypted", "decrypted"}
      <4>1. PICK q \in Proc : Works(q)
        BY <1>0, <2>4
      <4>2. held[q][K0] \in Value
        BY <4>1 DEF Works, Types, Local
      <4> QED
        BY <1>0, <2>4, <4>1, <4>2 DEF Works, Trip, Encrypts, Decrypts, Calls
    <3>2. disk'["origin"] = disk["origin"]
      BY <2>3, <3>1, Dirs DEF FilesInv, DiskOK
    <3> QED
      BY <1>0, <1>p, <2>1, <2>2, <3>2 DEF OriginPlain, Trip
  <2>5. CASE op.pc = "idle"
    BY <1>0, <1>p, <2>1, <2>2, <2>3, <2>5 DEF OriginPlain, Trip
  <2> QED
    BY <2>4, <2>5
<1> QED
  BY <1>1, <1>2, <1>3, <1>4, <1>5, <1>6 DEF ProcStep, Runs, Task1

LEMMA TripOtherStep ==
  ASSUME Types, FilesInv, TripInv, OtherStep \/ UNCHANGED vars
  PROVE  TripInv'
<1>u. UNCHANGED <<task, stage, held, flawed>>
  BY OtherStepQuiet DEF vars, progVars
<1>w. \A q \in Proc : Works(q)' => task' = "task1"
  BY <1>u DEF TripInv, Works
<1> SUFFICES ASSUME task = "task1" PROVE TripInv'
  BY <1>u, <1>w DEF TripInv
<1>0. /\ Alone /\ OriginPlain
      /\ op.pc # "idle" => \E q \in Proc : Works(q)
      /\ \A q \in Proc, k \in Value : held[q][K0] = k => Trip(q, k)
  BY DEF TripInv
<1>a. Alone'
  BY <1>0, <1>u DEF Alone
<1>1. CASE PutFile
  <2>1. NobodyRuns /\ op.pc = "idle" /\ op' = op
    BY <1>1 DEF PutFile
  <2>2. PICK n \in Name, x \in {NoFile} \cup {Plain(t) : t \in UserText["task1"]} :
          disk' = [disk EXCEPT !["origin"][n] = x]
    BY <1>1 DEF PutFile
  <2>3. x.form \in {"none", "plain"}
    BY <2>2, WrittenForm
  <2>4. \A m \in Name : disk'["origin"][m] = IF m = n THEN x ELSE disk["origin"][m]
    BY <2>2, Dirs DEF FilesInv, DiskOK
  <2>5. OriginPlain'
    BY <1>0, <2>3, <2>4 DEF OriginPlain
  <2> QED
    BY <1>a, <1>u, <1>w, <2>1, <2>5 DEF TripInv, NobodyRuns, Trip
<1>2. CASE FileStep
  <2>1. PICK p \in Proc : Works(p)
    BY <1>0, <1>2, FileStepEffect
  <2>2. \A q \in Proc \ {p} : stage[q] = "off"
    BY <1>0, <2>1 DEF Alone, Works
  <2>3. OriginPlain' /\ \A k \in Value : held[p][K0] = k => Trip(p, k)'
    <3>1. held[p][K0] \in Value
      BY <2>1 DEF Works, Types, Local
    <3>2. CASE stage[p] = "encrypting"
      BY <1>0, <1>2, <1>u, <3>1, <3>2, EncryptsStep DEF Trip
    <3>3. CASE stage[p] = "decrypting"
      BY <1>0, <1>2, <1>u, <3>1, <3>3, DecryptsStep DEF Trip
    <3> QED
      BY <2>1, <3>2, <3>3 DEF Works
  <2>4. ASSUME NEW q \in Proc, NEW k \in Value, held'[q][K0] = k PROVE Trip(q, k)'
    <3>1. CASE q = p
      BY <1>u, <2>3, <2>4, <3>1
    <3>2. CASE q # p
      BY <1>u, <2>2, <3>2 DEF Trip
    <3> QED
      BY <3>1, <3>2
  <2>5. Works(p)'
    BY <1>u, <2>1 DEF Works
  <2> QED
    BY <1>a, <1>w, <2>3, <2>4, <2>5 DEF TripInv
<1>3. CASE UNCHANGED vars
  <2>1. UNCHANGED <<disk, op, fault, task, stage, held, flawed>>
    BY <1>3 DEF vars, fileVars, progVars
  <2>2. ASSUME NEW q \in Proc, NEW k \in Value, held'[q][K0] = k PROVE Trip(q, k)'
    <3>1. Trip(q, k)
      BY <1>0, <2>1, <2>2
    <3> QED
      BY <2>1, <3>1 DEF Trip, Encrypts, Decrypts, Calls, Present, IsSealed, IsOpened, CanOpen
  <2>3. OriginPlain' /\ (op'.pc # "idle" => \E q \in Proc : Works(q)')
    BY <1>0, <2>1 DEF OriginPlain, Works
  <2> QED
    BY <1>a, <1>w, <2>2, <2>3 DEF TripInv
<1> QED
  BY <1>1, <1>2, <1>3 DEF OtherStep, Operates, Files, LibraryCall, CallerDies

\* task1 (main.cpp:930-967) gives every file of origin back as it is when no
\* open and no write failed in its two calls, whatever earlier runs left in
\* the directories, unless a file that is in encrypted only cannot be opened:
\* that one stops decryptDirectory.
THEOREM FilesComeBack == Spec => []TaskRoundTrip
<1> DEFINE Inv == Types /\ FilesInv /\ TripInv
<1>1. Init => Inv
  BY TypesInit, FilesStart, TripInit
<1>2. Inv /\ [Next]_vars => Inv'
  BY TypesStep, FilesStep, FilesKept, TripProcStep, TripOtherStep, NextSteps DEF FilesInv
<1>3. Inv => TaskRoundTrip
  <2> SUFFICES ASSUME Inv, NEW p \in Proc, stage[p] = "decrypting", op.pc = "idle", ~flawed, ~fault,
                      \A n \in Present("encrypted") \ Present("origin") :
                        disk["encrypted"][n].form = "aes" /\ disk["encrypted"][n].key = held[p][K0],
                      NEW n \in Present("origin")
               PROVE  disk["decrypted"][n] = disk["origin"][n]
    BY DEF TaskRoundTrip
  <2>1. Decrypts(held[p][K0]) /\ OriginPlain
    <3>1. held[p][K0] \in Value
      BY DEF Types, Local
    <3> QED
      BY <3>1 DEF TripInv, Works, Trip
  <2>2. \A m \in Present("origin") : m \in Name /\ IsSealed(held[p][K0], m)
    BY <2>1 DEF Decrypts, Present
  <2>3. CanOpen(held[p][K0])
    BY <2>2, SealedIsThere DEF CanOpen
  <2>4. /\ n \in Present("encrypted")
        /\ disk["encrypted"][n].text = disk["origin"][n].text
    BY <2>2, SealedIsThere
  <2>5. IsOpened(n)
    BY <2>1, <2>3, <2>4 DEF Decrypts
  <2> QED
    BY <2>1, <2>4, <2>5, PlainInOrigin DEF IsOpened, FilesInv
<1> QED
  BY <1>1, <1>2, <1>3, PTL DEF Spec
=============================================================================
