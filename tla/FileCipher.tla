----------------------------- MODULE FileCipher -----------------------------
(***************************************************************************)
(* The file operations of both ciphers (Aes256Cipher.cpp, RsaCipher.cpp):  *)
(* encryptFile, decryptFile and the directory operations that call them    *)
(* for one file after the other, in whatever order the directory gives.    *)
(*                                                                         *)
(* A file is taken in two steps: input and output are opened, which        *)
(* EMPTIES the output, then the input is read and the output written.      *)
(* One call runs at a time.  Contents are texts, known by name and length, *)
(* and ciphertexts of them; lengths matter, because the RSA operations cut *)
(* what they read in chunks and the chunks in blocks of the key's size.    *)
(***************************************************************************)
EXTENDS Naturals, FiniteSets

CONSTANTS Dir,        \* the directories
          Name,       \* the names of files in them
          PlainText,  \* the texts of plain files
          Size,       \* Size[t]: the length of text t
          Nothing,    \* the text of length 0
          Junk,       \* a text nobody wrote: part of another, or a failed decryption
          AesKey,     \* AES keys
          RsaKey,     \* RSA key pairs
          KeySize,    \* KeySize[k]: the size of a block of RSA key pair k
          BadPem,     \* a text that is no PEM key
          Chunk,      \* how much of a file the RSA operations read at once: 4096
          Overhead,   \* what a block has less of plaintext than of ciphertext: 42
          MayFail     \* TRUE: a file may fail to open, a write to be complete

ASSUME TextAssumption ==
  /\ Nothing \in PlainText /\ Junk \in PlainText /\ Junk # Nothing
  /\ Size \in [PlainText -> Nat]
  /\ \A t \in PlainText : Size[t] = 0 <=> t = Nothing

ASSUME KeyAssumption ==
  /\ Chunk \in Nat \ {0}
  /\ Overhead \in Nat
  /\ KeySize \in [RsaKey -> Nat]
  /\ \A k \in RsaKey : KeySize[k] > Overhead
  /\ BadPem \notin RsaKey

ASSUME NameAssumption == Name \cap {"idle", "next"} = {}

ASSUME FailAssumption == MayFail \in BOOLEAN

VARIABLES
  disk,      \* disk[d][n]: the file named n in directory d
  op,        \* the call that runs
  fault      \* history: in this call a file did not open, or an output failed

fileVars == <<disk, op, fault>>

(***************************************************************************)
(* Contents.                                                               *)
(***************************************************************************)
NoFile == [form |-> "none", key |-> BadPem, text |-> Nothing]

Plain(t) == [form |-> "plain", key |-> BadPem, text |-> t]

Sealed(c, k, t) == [form |-> c, key |-> k, text |-> t]

Content == {NoFile} \cup {Plain(t) : t \in PlainText}
             \cup [form : {"aes"}, key : AesKey, text : PlainText]
             \cup [form : {"rsa"}, key : RsaKey, text : PlainText]

(***************************************************************************)
(* RSA: a chunk of m bytes is encrypted block by block, every block        *)
(* becomes KeySize[k] bytes; to decrypt, the ciphertext is cut in chunks   *)
(* again, and the chunks in pieces of KeySize[k].                          *)
(***************************************************************************)
Smaller(a, b) == IF a < b THEN a ELSE b

Blocks(k, m) == LET size == KeySize[k] - Overhead IN (m + size - 1) \div size

CipherSize(k, n) == KeySize[k] * ((n \div Chunk) * Blocks(k, Chunk) + Blocks(k, n % Chunk))

\* Mutant: blocks of the size encrypt takes them of the plaintext.
MutantPieces(k, total) ==
  LET size == KeySize[k] - Overhead
  IN  {[from |-> i * size, size |-> Smaller(size, total - i * size)] :
         i \in {x \in 0..total : x * size < total}}

\* The pieces decrypt is given of a ciphertext of `total` bytes.
Pieces(k, total) ==
  UNION {LET from  == j * Chunk
             size  == Smaller(Chunk, total - from)
         IN  {[from |-> from + i * KeySize[k],
               size |-> Smaller(KeySize[k], size - i * KeySize[k])] :
                i \in {x \in 0..size : x * KeySize[k] < size}} :
           j \in {x \in 0..total : x * Chunk < total}}

\* A piece can be decrypted when it is one of the blocks that were made.
IsBlock(k, piece) == piece.from % KeySize[k] = 0 /\ piece.size = KeySize[k]

Uncut(k, n) == \A piece \in Pieces(k, CipherSize(k, n)) : IsBlock(k, piece)

(***************************************************************************)
(* What encryptFile and decryptFile write and whether they return true.    *)
(* A ciphertext that is encrypted once more is not told from Junk.         *)
(***************************************************************************)
Encrypted(c, k, x) ==
  IF c = "rsa" /\ (k = BadPem \/ x = Plain(Nothing)) THEN Plain(Nothing)
  ELSE IF x.form = "plain" THEN Sealed(c, k, x.text)
  ELSE Sealed(c, k, Junk)

Opens(c, k, x) == x.form = c /\ x.key = k /\ (c = "rsa" => Uncut(k, Size[x.text]))

\* AES looks at the padding of the last block, which a wrong key meets by
\* chance; the RSA operations write the empty text of a failure and go on.
Decrypted(c, k, x) ==
  IF Opens(c, k, x) THEN {[out |-> Plain(x.text), ok |-> TRUE]}
  ELSE IF x = Plain(Nothing) THEN {[out |-> x, ok |-> c = "rsa"]}
  ELSE {r \in [out : {Plain(Nothing), Plain(Junk)}, ok : BOOLEAN] :
          IF c = "rsa" THEN r.ok ELSE r.ok => r.out = Plain(Junk)}

Result(c, way, k, x) ==
  IF way = "encrypt" THEN {[out |-> Encrypted(c, k, x), ok |-> TRUE]} ELSE Decrypted(c, k, x)

-----------------------------------------------------------------------------
Idle == [pc |-> "idle", cipher |-> "none", way |-> "none", key |-> BadPem,
         from |-> "none", to |-> "none", todo |-> {}, done |-> {}, failed |-> FALSE]

FilesInit(files) ==
  /\ disk = files
  /\ op = Idle
  /\ fault = FALSE

Present(d) == {n \in Name : disk[d][n] # NoFile}

\* A call: of a directory operation, for the files that are there now, or
\* of a file operation, for one name.
Call(c, way, k, from, to, names) ==
  /\ op.pc = "idle"
  /\ op' = [pc |-> "next", cipher |-> c, way |-> way, key |-> k, from |-> from, to |-> to,
            todo |-> names, done |-> {}, failed |-> FALSE]
  /\ fault' = FALSE
  /\ UNCHANGED disk

\* The call ends: with true, or with false or an exception.
End(failed) == op' = [Idle EXCEPT !.failed = failed]

\* Input and output of the next file are opened.
OpenFiles ==
  /\ op.pc = "next"
  /\ \E n \in op.todo :
       \/ /\ disk[op.from][n] # NoFile
          /\ disk' = [disk EXCEPT ![op.to][n] = Plain(Nothing)]
          /\ op' = [op EXCEPT !.pc = n]
          /\ UNCHANGED fault
       \/ /\ disk[op.from][n] = NoFile \/ MayFail
          /\ End(TRUE)
          /\ fault' = TRUE
          /\ UNCHANGED disk

\* The input is read and the output written; whether it was is not asked.
CopyFile ==
  /\ op.pc \in Name
  /\ LET n == op.pc
     IN  \E r \in Result(op.cipher, op.way, op.key, disk[op.from][n]) :
           /\ \/ disk' = [disk EXCEPT ![op.to][n] = r.out] /\ UNCHANGED fault
              \/ MayFail /\ disk' = [disk EXCEPT ![op.to][n] = Plain(Junk)] /\ fault' = TRUE
           /\ IF r.ok THEN op' = [op EXCEPT !.pc = "next", !.todo = @ \ {n}, !.done = @ \cup {n}]
                      ELSE End(TRUE)

\* Every file is done: true.
Finish ==
  /\ op.pc = "next" /\ op.todo = {}
  /\ End(FALSE)
  /\ UNCHANGED <<disk, fault>>

FileStep == OpenFiles \/ CopyFile \/ Finish

\* The process dies, maybe in the middle of an output.
Abort ==
  /\ op.pc # "idle"
  /\ disk' \in IF op.pc \in Name
               THEN {disk, [disk EXCEPT ![op.to][op.pc] = Plain(Junk)]} ELSE {disk}
  /\ op' = Idle
  /\ UNCHANGED fault

-----------------------------------------------------------------------------
\* Between two calls others write to the directories as they like.
Others ==
  /\ op.pc = "idle"
  /\ disk' \in [Dir -> [Name -> Content]]
  /\ UNCHANGED <<op, fault>>

AnyCall ==
  \E c \in {"aes", "rsa"}, way \in {"encrypt", "decrypt"}, from, to \in Dir, names \in SUBSET Name :
    \E k \in IF c = "aes" THEN AesKey ELSE RsaKey \cup {BadPem} : Call(c, way, k, from, to, names)

\* The operations by themselves, whoever calls them.
FilesSpec ==
  /\ \E files \in [Dir -> [Name -> Content]] : FilesInit(files)
  /\ [][AnyCall \/ FileStep \/ Abort \/ Others]_fileVars

-----------------------------------------------------------------------------
(***************************************************************************)
(* Properties.                                                             *)
(***************************************************************************)

\* The file is small, or the blocks fit in the chunks.
Fits(c, k, t) == c = "rsa" => Chunk % KeySize[k] = 0 \/ CipherSize(k, Size[t]) <= Chunk

\* What encryptFile and encryptDirectory have done can be undone: as long as
\* no write failed and the output is another directory, the decryption of
\* every file that is done gives the input back; with RSA, where the blocks
\* are no divisor of a chunk, only of a file that makes no second chunk.
EncryptedIsRecoverable ==
  op.way = "encrypt" /\ op.from # op.to /\ ~fault =>
    \A n \in op.done :
      LET x == disk[op.from][n]
      IN  x.form = "plain" /\ ~(op.cipher = "rsa" /\ op.key = BadPem) /\ Fits(op.cipher, op.key, x.text) =>
            Decrypted(op.cipher, op.key, disk[op.to][n]) = {[out |-> x, ok |-> TRUE]}
=============================================================================
