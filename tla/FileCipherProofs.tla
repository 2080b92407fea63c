-------------------------- MODULE FileCipherProofs --------------------------
(***************************************************************************)
(* That what encryptFile and encryptDirectory have done can be undone, for *)
(* every set of directories, files, texts and keys, and every chunk and    *)
(* block size.  The first part is the arithmetic of the RSA operations:    *)
(* where the blocks divide a chunk, or all of the ciphertext is one chunk, *)
(* decryptFile cuts it exactly where encryptFile put it together.          *)
(***************************************************************************)
EXTENDS FileCipher, Integers, TLAPS

LEMMA MultipleHasNoRest ==
  ASSUME NEW a \in Nat, NEW b \in Nat \ {0} PROVE (b * a) % b = 0
  BY Z3

LEMMA NoRestIsMultiple ==
  ASSUME NEW a \in Nat, NEW b \in Nat \ {0}, a % b = 0 PROVE \E m \in Nat : a = b * m
<1>1. a = b * (a \div b) /\ a \div b \in Nat
  BY Z3
<1> QED BY <1>1

LEMMA QuotientType ==
  ASSUME NEW a \in Nat, NEW b \in Nat \ {0} PROVE a \div b \in Nat /\ a % b \in Nat
  BY Z3

LEMMA DistributeMinus ==
  ASSUME NEW b \in Nat, NEW m \in Nat, NEW j \in Nat, NEW t \in Nat
  PROVE  b * t - j * (b * m) = b * (t - j * m)
  BY Z3

LEMMA PositiveFactor ==
  ASSUME NEW b \in Nat \ {0}, NEW s \in Int, b * s > 0 PROVE s \in Nat
  BY Z3

LEMMA KeySizeType ==
  ASSUME NEW k \in RsaKey
  PROVE  KeySize[k] \in Nat \ {0} /\ KeySize[k] - Overhead \in Nat \ {0}
<1>1. KeySize[k] \in Nat /\ KeySize[k] > Overhead /\ Overhead \in Nat
  BY KeyAssumption
<1> QED BY <1>1

LEMMA BlocksType ==
  ASSUME NEW k \in RsaKey, NEW m \in Nat
  PROVE  Blocks(k, m) \in Nat
<1> DEFINE size == KeySize[k] - Overhead
<1>1. size \in Nat \ {0}
  BY KeySizeType
<1>2. m + size - 1 \in Nat
  BY <1>1
<1>3. (m + size - 1) \div size \in Nat
  <2> HIDE DEF size
  <2> QED BY <1>1, <1>2, QuotientType
<1> QED BY <1>3 DEF Blocks

\* A ciphertext is a number of whole blocks.
LEMMA WholeBlocks ==
  ASSUME NEW k \in RsaKey, NEW n \in Nat
  PROVE  \E t \in Nat : CipherSize(k, n) = KeySize[k] * t
<1>1. n \div Chunk \in Nat /\ n % Chunk \in Nat /\ Chunk \in Nat
  BY KeyAssumption, QuotientType
<1>2. Blocks(k, Chunk) \in Nat /\ Blocks(k, n % Chunk) \in Nat
  BY <1>1, BlocksType
<1>3. (n \div Chunk) * Blocks(k, Chunk) + Blocks(k, n % Chunk) \in Nat
  <2> DEFINE a == n \div Chunk
  <2> DEFINE b == Blocks(k, Chunk)
  <2> DEFINE c == Blocks(k, n % Chunk)
  <2>1. a \in Nat /\ b \in Nat /\ c \in Nat
    BY <1>1, <1>2
  <2> HIDE DEF a, b, c
  <2>2. a * b + c \in Nat
    BY <2>1
  <2> QED BY <2>2 DEF a, b, c
<1> QED BY <1>3 DEF CipherSize

Whole(a, b) == \E m \in Nat : a = b * m

\* A chunk that is a number of whole blocks is cut into blocks.
LEMMA ChunkOfBlocks ==
  ASSUME NEW b \in Nat \ {0}, NEW from \in Nat, NEW start \in Nat, NEW size \in Nat,
         from % b = 0, Whole(start, b), Whole(size, b), start < size
  PROVE  /\ (from + start) % b = 0
         /\ Smaller(b, size - start) = b
<1>1. PICK m \in Nat : from = b * m
  BY NoRestIsMultiple
<1>2. PICK i \in Nat : start = b * i
  BY DEF Whole
<1>3. PICK s \in Nat : size = b * s
  BY DEF Whole
<1>4. from + start = b * (m + i) /\ m + i \in Nat
  BY <1>1, <1>2, Z3
<1>5. (from + start) % b = 0
  BY <1>4, MultipleHasNoRest
<1>6. b <= size - start
  BY <1>2, <1>3, Z3
<1>7. size - start \in Int
  OBVIOUS
<1> QED BY <1>5, <1>6, <1>7 DEF Smaller

\* Where the blocks divide a chunk, and where there is one chunk only, every
\* piece that decrypt gets is a block that encrypt made.
LEMMA UncutWhenFits ==
  ASSUME NEW k \in RsaKey, NEW n \in Nat,
         Chunk % KeySize[k] = 0 \/ CipherSize(k, n) <= Chunk
  PROVE  Uncut(k, n)
<1> DEFINE b == KeySize[k]
<1> DEFINE total == CipherSize(k, n)
<1>b. b \in Nat \ {0}
  BY KeySizeType
<1>c. Chunk \in Nat \ {0}
  BY KeyAssumption
<1>t. PICK t \in Nat : total = b * t
  BY WholeBlocks
<1>n. total \in Nat
  BY <1>b, <1>t, Z3
<1> SUFFICES ASSUME NEW j \in Nat, j * Chunk < total,
                    NEW i \in Nat, i * b < Smaller(Chunk, total - j * Chunk)
             PROVE  /\ (j * Chunk + i * b) % b = 0
                    /\ Smaller(b, Smaller(Chunk, total - j * Chunk) - i * b) = b
  <2>1. \A x \in 0..total : x \in Nat
    BY <1>n
  <2>2. ASSUME NEW j \in 0..total PROVE \A x \in 0..Smaller(Chunk, total - j * Chunk) : x \in Nat
    OBVIOUS
  <2> QED BY <2>1, <2>2 DEF Uncut, Pieces, IsBlock
<1> HIDE DEF b, total
\* The chunk begins at a block and is a number of blocks.
<1>1. /\ j * Chunk \in Nat
      /\ (j * Chunk) % b = 0
      /\ \E s \in Nat : Smaller(Chunk, total - j * Chunk) = b * s
  <2>1. CASE Chunk % b = 0
    <3>1. PICK m \in Nat : Chunk = b * m
      BY <2>1, <1>b, <1>c, NoRestIsMultiple
    <3>2. j * Chunk = b * (j * m) /\ j * m \in Nat
      BY <3>1, <1>b, Z3
    <3>3. j * Chunk \in Nat /\ (j * Chunk) % b = 0
      BY <3>2, <1>b, MultipleHasNoRest, Z3
    <3>4. total - j * Chunk = b * (t - j * m)
      BY <3>1, <1>t, <1>b, DistributeMinus
    <3>5. t - j * m \in Nat
      <4>1. t - j * m \in Int
        BY <3>2
      <4>2. b * (t - j * m) > 0
        BY <3>3, <3>4, <1>n
      <4> QED BY <4>1, <4>2, <1>b, PositiveFactor
    <3> QED BY <3>1, <3>3, <3>4, <3>5 DEF Smaller
  <2>2. CASE total <= Chunk
    <3>1. j = 0
      BY <2>2, <1>c, <1>n, Z3
    <3>2. j * Chunk = 0
      BY <3>1, <1>c
    <3>3. 0 % b = 0
      BY <1>b, Z3
    <3>4. Smaller(Chunk, total - j * Chunk) = total
      BY <3>2, <2>2, <1>n, <1>c DEF Smaller
    <3> QED BY <3>2, <3>3, <3>4, <1>t
  <2> QED BY <2>1, <2>2 DEF b, total
<1>2. PICK s \in Nat : Smaller(Chunk, total - j * Chunk) = b * s
  BY <1>1
<1> DEFINE from == j * Chunk
<1> DEFINE start == i * b
<1> DEFINE size == b * s
<1>3. from \in Nat /\ from % b = 0 /\ start < size
  BY <1>1, <1>2
<1>4. start \in Nat /\ size \in Nat
  BY <1>b, Z3
<1>5. Whole(start, b) /\ Whole(size, b)
  BY <1>b, Z3 DEF Whole
<1>6. (from + start) % b = 0 /\ Smaller(b, size - start) = b
  <2> HIDE DEF from, start, size
  <2> QED BY <1>3, <1>4, <1>5, <1>b, ChunkOfBlocks
<1> QED BY <1>2, <1>6

-----------------------------------------------------------------------------
(***************************************************************************)
(* Decryption undoes encryption.                                           *)
(***************************************************************************)
LEMMA PlainContent ==
  ASSUME NEW x \in Content, x.form = "plain"
  PROVE  x.text \in PlainText /\ x = Plain(x.text)
  BY DEF Content, NoFile, Plain

LEMMA Undone ==
  ASSUME NEW c \in {"aes", "rsa"},
         NEW k \in (IF c = "aes" THEN AesKey ELSE RsaKey \cup {BadPem}),
         NEW x \in Content, x.form = "plain",
         ~(c = "rsa" /\ k = BadPem), Fits(c, k, x.text)
  PROVE  Decrypted(c, k, Encrypted(c, k, x)) = {[out |-> x, ok |-> TRUE]}
<1>1. x.text \in PlainText /\ x = Plain(x.text)
  BY PlainContent
<1>2. Size[x.text] \in Nat
  BY <1>1, TextAssumption
<1>3. CASE c = "rsa" /\ x = Plain(Nothing)
  <2>1. Encrypted(c, k, x) = x
    BY <1>3 DEF Encrypted
  <2>2. ~Opens(c, k, x)
    BY <1>3 DEF Opens, Plain
  <2>3. Decrypted(c, k, x) = {[out |-> x, ok |-> c = "rsa"]}
    BY <2>2, <1>3 DEF Decrypted
  <2> QED BY <2>1, <2>3, <1>3
<1>4. CASE ~(c = "rsa" /\ x = Plain(Nothing))
  <2>1. Encrypted(c, k, x) = Sealed(c, k, x.text)
    BY <1>4 DEF Encrypted
  <2>2. c = "rsa" => Uncut(k, Size[x.text])
    <3>1. SUFFICES ASSUME c = "rsa" PROVE Uncut(k, Size[x.text])
      OBVIOUS
    <3>2. k \in RsaKey
      BY <3>1
    <3>3. Chunk % KeySize[k] = 0 \/ CipherSize(k, Size[x.text]) <= Chunk
      BY <3>1 DEF Fits
    <3> QED BY <3>2, <3>3, <1>2, UncutWhenFits
  <2>3. Opens(c, k, Sealed(c, k, x.text))
    BY <2>2 DEF Opens, Sealed
  <2>4. Decrypted(c, k, Sealed(c, k, x.text)) = {[out |-> Plain(x.text), ok |-> TRUE]}
    BY <2>3 DEF Decrypted, Sealed
  <2> QED BY <2>1, <2>4, <1>1
<1> QED BY <1>3, <1>4
-----------------------------------------------------------------------------
(***************************************************************************)
(* The invariant: of every file that the running call has done, what the   *)
(* property says; around it, what kind of values the variables hold.       *)
(***************************************************************************)
Keys(c) == IF c = "aes" THEN AesKey ELSE RsaKey \cup {BadPem}

DiskOK == disk \in [Dir -> [Name -> Content]]

Running(o) ==
  /\ o \in [pc : {"next"} \cup Name, cipher : {"aes", "rsa"}, way : {"encrypt", "decrypt"},
            key : AesKey \cup RsaKey \cup {BadPem}, from : Dir, to : Dir,
            todo : SUBSET Name, done : SUBSET Name, failed : {FALSE}]
  /\ o.key \in Keys(o.cipher)
  /\ o.done \cap o.todo = {}
  /\ o.pc \in Name => o.pc \in o.todo

Resting(o) == o.pc = "idle" /\ o.done = {}

OpOK == Running(op) \/ Resting(op)

FilesInv == DiskOK /\ OpOK /\ EncryptedIsRecoverable

\* Whatever an operation writes is a content.
LEMMA ResultType ==
  ASSUME NEW c \in {"aes", "rsa"}, NEW way, NEW k \in Keys(c), NEW x \in Content,
         NEW r \in Result(c, way, k, x)
  PROVE  r.out \in Content
<1>1. x.text \in PlainText
  BY TextAssumption DEF Content, NoFile, Plain
<1>2. \A t \in PlainText : Plain(t) \in Content
  BY DEF Content
<1>3. \A t \in PlainText : k # BadPem \/ c = "aes" => Sealed(c, k, t) \in Content
  BY DEF Content, Sealed, Keys
<1>4. Nothing \in PlainText /\ Junk \in PlainText
  BY TextAssumption
<1>5. CASE way = "encrypt"
  <2>1. r.out = Encrypted(c, k, x)
    BY <1>5 DEF Result
  <2>2. Encrypted(c, k, x) \in Content
    BY <1>1, <1>2, <1>3, <1>4 DEF Encrypted
  <2> QED BY <2>1, <2>2
<1>6. CASE way # "encrypt"
  <2>1. r \in Decrypted(c, k, x)
    BY <1>6 DEF Result
  <2>2. r.out \in {Plain(x.text), Plain(Nothing), Plain(Junk)} \cup {x}
    BY <2>1 DEF Decrypted
  <2> QED BY <2>2, <1>1, <1>2, <1>4
<1> QED BY <1>5, <1>6

LEMMA CallStep ==
  ASSUME FilesInv, AnyCall PROVE FilesInv'
<1>0. PICK c \in {"aes", "rsa"}, way \in {"encrypt", "decrypt"}, from \in Dir, to \in Dir,
           names \in SUBSET Name : \E k \in Keys(c) : Call(c, way, k, from, to, names)
  BY DEF AnyCall, Keys
<1>1. PICK k \in Keys(c) : Call(c, way, k, from, to, names)
  BY <1>0
<1>2. op' = [pc |-> "next", cipher |-> c, way |-> way, key |-> k, from |-> from, to |-> to,
             todo |-> names, done |-> {}, failed |-> FALSE]
  BY <1>1 DEF Call
<1>3. DiskOK'
  BY <1>1 DEF FilesInv, DiskOK, Call
<1>4. Running(op)'
  <2>1. k \in AesKey \cup RsaKey \cup {BadPem}
    BY DEF Keys
  <2>2. op'.key = k /\ op'.cipher = c /\ op'.done = {} /\ op'.pc = "next"
    BY <1>2
  <2>3. op' \in [pc : {"next"} \cup Name, cipher : {"aes", "rsa"}, way : {"encrypt", "decrypt"},
                 key : AesKey \cup RsaKey \cup {BadPem}, from : Dir, to : Dir,
                 todo : SUBSET Name, done : SUBSET Name, failed : {FALSE}]
    BY <1>2, <2>1
  <2>4. "next" \notin Name
    BY NameAssumption
  <2> QED BY <2>2, <2>3, <2>4 DEF Running
<1>5. (op.done = {})'
  BY <1>2
<1>6. EncryptedIsRecoverable'
  BY <1>5 DEF EncryptedIsRecoverable
<1> QED BY <1>3, <1>4, <1>6 DEF FilesInv, OpOK

LEMMA EndStep ==
  ASSUME NEW b, End(b) PROVE OpOK' /\ EncryptedIsRecoverable'
<1>1. (op.pc = "idle" /\ op.done = {})'
  BY DEF End, Idle
<1> QED BY <1>1 DEF OpOK, Resting, EncryptedIsRecoverable

LEMMA PutType ==
  ASSUME DiskOK, NEW d \in Dir, NEW n \in Name, NEW x \in Content,
         disk' = [disk EXCEPT ![d][n] = x]
  PROVE  /\ DiskOK'
         /\ disk'[d][n] = x
         /\ \A e \in Dir : e # d => disk'[e] = disk[e]
         /\ \A e \in Dir, m \in Name : m # n => disk'[e][m] = disk[e][m]
  BY DEF DiskOK

\* Files other than n keep what the property says of them, when n is
\* written to the output of the call.
LEMMA OthersKept ==
  ASSUME FilesInv, NEW n \in Name, NEW x \in Content, Running(op),
         disk' = [disk EXCEPT ![op.to][n] = x],
         op'.way = op.way, op'.from = op.from, op'.to = op.to,
         op'.cipher = op.cipher, op'.key = op.key,
         op.way = "encrypt", op.from # op.to, ~fault,
         NEW m \in op.done, m # n,
         disk'[op.from][m].form = "plain", ~(op.cipher = "rsa" /\ op.key = BadPem),
         Fits(op.cipher, op.key, disk'[op.from][m].text)
  PROVE  Decrypted(op.cipher, op.key, disk'[op.to][m]) = {[out |-> disk'[op.from][m], ok |-> TRUE]}
<1>1. m \in Name /\ op.from \in Dir /\ op.to \in Dir
  BY DEF Running
<1>2. disk'[op.from][m] = disk[op.from][m] /\ disk'[op.to][m] = disk[op.to][m]
  BY <1>1, PutType DEF FilesInv
<1> QED BY <1>2 DEF FilesInv, EncryptedIsRecoverable

\* Opening empties a file of the output, and none that is done.
LEMMA OpenStep ==
  ASSUME FilesInv, OpenFiles PROVE FilesInv'
<1>1. op.pc = "next"
  BY DEF OpenFiles
<1>2. PICK n \in op.todo :
        \/ /\ disk' = [disk EXCEPT ![op.to][n] = Plain(Nothing)]
           /\ op' = [op EXCEPT !.pc = n]
           /\ UNCHANGED fault
        \/ End(TRUE) /\ UNCHANGED disk
  BY DEF OpenFiles
<1>3. CASE End(TRUE) /\ UNCHANGED disk
  BY <1>3, EndStep DEF FilesInv, DiskOK
<1>4. CASE disk' = [disk EXCEPT ![op.to][n] = Plain(Nothing)] /\ op' = [op EXCEPT !.pc = n] /\ UNCHANGED fault
  <2>1. Running(op)
    BY <1>1 DEF FilesInv, OpOK, Resting
  <2>2. n \in Name /\ n \notin op.done /\ op.to \in Dir
    BY <2>1 DEF Running
  <2>3. Plain(Nothing) \in Content
    BY TextAssumption DEF Content
  <2>4. DiskOK'
    BY <1>4, <2>2, <2>3, PutType DEF FilesInv
  <2>5. /\ op'.pc = n /\ op'.way = op.way /\ op'.from = op.from /\ op'.to = op.to
        /\ op'.cipher = op.cipher /\ op'.key = op.key /\ op'.todo = op.todo /\ op'.done = op.done
    BY <1>4, <2>1 DEF Running
  <2>6. Running(op)'
    <3>1. op' \in [pc : {"next"} \cup Name, cipher : {"aes", "rsa"}, way : {"encrypt", "decrypt"},
                   key : AesKey \cup RsaKey \cup {BadPem}, from : Dir, to : Dir,
                   todo : SUBSET Name, done : SUBSET Name, failed : {FALSE}]
      BY <1>4, <2>1, <2>2 DEF Running
    <3> QED BY <3>1, <2>1, <2>5 DEF Running
  <2>7. EncryptedIsRecoverable'
    <3> SUFFICES ASSUME op'.way = "encrypt", op'.from # op'.to, ~fault',
                        NEW m \in op'.done,
                        disk'[op'.from][m].form = "plain", ~(op'.cipher = "rsa" /\ op'.key = BadPem),
                        Fits(op'.cipher, op'.key, disk'[op'.from][m].text)
                 PROVE  Decrypted(op'.cipher, op'.key, disk'[op'.to][m]) =
                          {[out |-> disk'[op'.from][m], ok |-> TRUE]}
      BY DEF EncryptedIsRecoverable
    <3>1. m \in op.done /\ m # n /\ ~fault
      BY <1>4, <2>2, <2>5
    <3> QED BY <1>4, <2>1, <2>2, <2>3, <2>5, <3>1, OthersKept
  <2> QED BY <2>4, <2>6, <2>7 DEF FilesInv, OpOK
<1> QED BY <1>2, <1>3, <1>4

\* The file that is now done is one of which decryption undoes encryption.
LEMMA CopyStep ==
  ASSUME FilesInv, CopyFile PROVE FilesInv'
<1> DEFINE n == op.pc
<1>1. n \in Name /\ Running(op)
  BY NameAssumption DEF CopyFile, FilesInv, OpOK, Resting
<1>2. op.to \in Dir /\ op.from \in Dir /\ op.cipher \in {"aes", "rsa"} /\ op.key \in Keys(op.cipher)
  BY <1>1 DEF Running
<1>3. PICK r \in Result(op.cipher, op.way, op.key, disk[op.from][n]) :
        /\ \/ disk' = [disk EXCEPT ![op.to][n] = r.out] /\ UNCHANGED fault
           \/ MayFail /\ disk' = [disk EXCEPT ![op.to][n] = Plain(Junk)] /\ fault' = TRUE
        /\ IF r.ok THEN op' = [op EXCEPT !.pc = "next", !.todo = @ \ {n}, !.done = @ \cup {n}]
                   ELSE End(TRUE)
  BY DEF CopyFile
<1>4. disk[op.from][n] \in Content
  BY <1>1, <1>2 DEF FilesInv, DiskOK
<1>5. r.out \in Content
  BY <1>2, <1>4, ResultType
<1>6. Plain(Junk) \in Content
  BY TextAssumption DEF Content
<1>7. DiskOK'
  BY <1>1, <1>2, <1>3, <1>5, <1>6, PutType DEF FilesInv
<1>8. CASE ~r.ok
  BY <1>3, <1>7, <1>8, EndStep DEF FilesInv
<1>9. CASE r.ok
  <2>1. op' = [op EXCEPT !.pc = "next", !.todo = @ \ {n}, !.done = @ \cup {n}]
    BY <1>3, <1>9
  <2>2. /\ op'.pc = "next" /\ op'.way = op.way /\ op'.from = op.from /\ op'.to = op.to
        /\ op'.cipher = op.cipher /\ op'.key = op.key
        /\ op'.todo = op.todo \ {n} /\ op'.done = op.done \cup {n}
    BY <2>1, <1>1 DEF Running
  <2>3. Running(op)'
    <3>1. op.todo \ {n} \in SUBSET Name /\ op.done \cup {n} \in SUBSET Name
      BY <1>1 DEF Running
    <3>2. op' \in [pc : {"next"} \cup Name, cipher : {"aes", "rsa"}, way : {"encrypt", "decrypt"},
                   key : AesKey \cup RsaKey \cup {BadPem}, from : Dir, to : Dir,
                   todo : SUBSET Name, done : SUBSET Name, failed : {FALSE}]
      BY <2>1, <3>1, <1>1 DEF Running
    <3>3. (op.done \cup {n}) \cap (op.todo \ {n}) = {} /\ op.key \in Keys(op.cipher) /\ "next" \notin Name
      BY <1>1, NameAssumption DEF Running
    <3> QED BY <3>2, <3>3, <2>2 DEF Running
  <2>4. EncryptedIsRecoverable'
    <3> SUFFICES ASSUME op'.way = "encrypt", op'.from # op'.to, ~fault',
                        NEW m \in op'.done,
                        disk'[op'.from][m].form = "plain", ~(op'.cipher = "rsa" /\ op'.key = BadPem),
                        Fits(op'.cipher, op'.key, disk'[op'.from][m].text)
                 PROVE  Decrypted(op'.cipher, op'.key, disk'[op'.to][m]) =
                          {[out |-> disk'[op'.from][m], ok |-> TRUE]}
      BY DEF EncryptedIsRecoverable
    <3>1. disk' = [disk EXCEPT ![op.to][n] = r.out] /\ ~fault
      BY <1>3
    <3>0. op.from # op.to
      BY <2>2
    <3>2. CASE m # n
      <4>1. m \in op.done
        BY <2>2, <3>2
      <4> QED BY <1>1, <1>5, <2>2, <3>1, <3>2, <4>1, OthersKept
    <3>3. CASE m = n
      <4>1. disk'[op.to][n] = r.out /\ disk'[op.from][n] = disk[op.from][n]
        <5>1. DiskOK
          BY DEF FilesInv
        <5>2. n \in Name
          BY <1>1
        <5> HIDE DEF n
        <5>3. disk'[op.to][n] = r.out
          BY <1>2, <3>1, <5>1, <5>2 DEF DiskOK
        <5>4. disk'[op.from] = disk[op.from]
          BY <1>2, <3>0, <3>1, <5>1 DEF DiskOK
        <5> QED BY <5>3, <5>4
      <4>2. r.out = Encrypted(op.cipher, op.key, disk[op.from][n])
        BY <2>2 DEF Result
      <4>3. Decrypted(op.cipher, op.key, Encrypted(op.cipher, op.key, disk[op.from][n])) =
              {[out |-> disk[op.from][n], ok |-> TRUE]}
        BY <1>2, <1>4, <2>2, <3>3, <4>1, Undone DEF Keys
      <4> QED BY <2>2, <3>3, <4>1, <4>2, <4>3
    <3> QED BY <3>2, <3>3
  <2> QED BY <1>7, <2>3, <2>4 DEF FilesInv, OpOK
<1> QED BY <1>8, <1>9

LEMMA FinishStep ==
  ASSUME FilesInv, Finish PROVE FilesInv'
  BY EndStep DEF FilesInv, DiskOK, Finish

LEMMA AbortStep ==
  ASSUME FilesInv, Abort PROVE FilesInv'
<1>1. Running(op)
  BY DEF FilesInv, OpOK, Resting, Abort
<1>2. DiskOK'
  <2>1. CASE disk' = disk
    BY <2>1 DEF FilesInv, DiskOK
  <2>2. CASE op.pc \in Name /\ disk' = [disk EXCEPT ![op.to][op.pc] = Plain(Junk)]
    <3>1. op.to \in Dir
      BY <1>1 DEF Running
    <3>2. Plain(Junk) \in Content
      BY TextAssumption DEF Content
    <3> QED BY <2>2, <3>1, <3>2, PutType DEF FilesInv
  <2> QED BY <2>1, <2>2 DEF Abort
<1>3. (op.pc = "idle" /\ op.done = {})'
  BY DEF Abort, Idle
<1> QED BY <1>2, <1>3 DEF FilesInv, OpOK, Resting, EncryptedIsRecoverable

LEMMA OthersStep ==
  ASSUME FilesInv, Others PROVE FilesInv'
<1>1. op.pc = "idle" /\ op' = op /\ disk' \in [Dir -> [Name -> Content]]
  BY DEF Others
<1>2. op.done = {}
  BY <1>1, NameAssumption DEF FilesInv, OpOK, Running, Resting
<1> QED BY <1>1, <1>2 DEF FilesInv, DiskOK, OpOK, Resting, EncryptedIsRecoverable

LEMMA StutterStep ==
  ASSUME FilesInv, UNCHANGED fileVars PROVE FilesInv'
  BY DEF FilesInv, DiskOK, OpOK, Running, Resting, EncryptedIsRecoverable, fileVars

-----------------------------------------------------------------------------
(***************************************************************************)
(* What encryptFile and encryptDirectory have done decryption undoes, for  *)
(* any file sizes, chunk and key sizes, whoever calls them in whatever     *)
(* order, and whatever happens to the directories between two calls.       *)
(***************************************************************************)
THEOREM EncryptionIsUndone == FilesSpec => []EncryptedIsRecoverable
<1>1. ASSUME NEW files \in [Dir -> [Name -> Content]], FilesInit(files)
      PROVE  FilesInv
  BY <1>1 DEF FilesInit, FilesInv, DiskOK, OpOK, Resting, Idle, EncryptedIsRecoverable
<1>2. FilesInv /\ [AnyCall \/ FileStep \/ Abort \/ Others]_fileVars => FilesInv'
  BY CallStep, OpenStep, CopyStep, FinishStep, AbortStep, OthersStep, StutterStep DEF FileStep
<1>3. FilesInv => EncryptedIsRecoverable
  BY DEF FilesInv
<1>4. (\E files \in [Dir -> [Name -> Content]] : FilesInit(files)) => FilesInv
  BY <1>1
<1> QED BY <1>2, <1>3, <1>4, PTL DEF FilesSpec
=============================================================================
