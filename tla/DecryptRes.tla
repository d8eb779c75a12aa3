----------------------------- MODULE DecryptRes -----------------------------
(***************************************************************************)
(* scripts/decrypt_res.py: each blob is a plaintext whose bytes were       *)
(* XORed with a repeating key and with the ciphertext byte before.  The    *)
(* script undoes the chain, XORs the start with the DOS header every       *)
(* plaintext is expected to begin with, and takes the shortest period of   *)
(* what comes out for the key.                                             *)
(***************************************************************************)
EXTENDS Words, Sequences

CONSTANTS
  MZ,      \* the known header
  MaxLen,  \* the longest key that is tried, 64 for a header of 60
  Names    \* the blobs in the order they are given

ASSUME HeaderAssumption ==
  MZ \in Seq(Byte) \ {<< >>} /\ MaxLen \in Nat /\ MaxLen >= Len(MZ)
ASSUME NamesAssumption  == Names \in Seq(STRING) \ {<< >>}

\* What the vendor encrypts and with which key.
SourceSet == [{Names[i] : i \in DOMAIN Names} ->
                [plain : Seq(Byte), key : Seq(Byte) \ {<< >>}]]

VARIABLES
  source,   \* the plaintext and the key the vendor made each blob of
  index,    \* the blob in work
  length,   \* the key length to be tried next
  written,  \* the plaintexts the script has written
  halted    \* why the script has ended

decrypting == <<source, index, length, written, halted>>

\* s[i % len(s)], counted from 1.
Cyclic(s, i) == s[((i - 1) % Len(s)) + 1]

\* From the script's docstring: c[i] = p[i] ^ key[i % len(key)] ^ c[i-1].
Encrypted(p, key) ==
  LET c[i \in 0..Len(p)] ==
        IF i = 0 THEN 0 ELSE Exor(Exor(p[i], Cyclic(key, i)), c[i - 1])
  IN [i \in DOMAIN p |-> c[i]]

Blob(name) == Encrypted(source[name].plain, source[name].key)

DecryptInit ==
  /\ index = 1
  /\ length = 1
  /\ written = << >>
  /\ halted = "no"

-----------------------------------------------------------------------------

unchain(c) == [i \in DOMAIN c |-> Exor(c[i], IF i = 1 THEN 0 ELSE c[i - 1])]

\* The key as it runs along the header, if there is a header.
Raw(c) == [i \in DOMAIN MZ |-> Exor(unchain(c)[i], MZ[i])]

\* Mutant: the last byte is not compared.
RepeatsButLast(raw, L) ==
  \A i \in 1..Len(raw) - 1 : raw[i] = Cyclic(SubSeq(raw, 1, L), i)

Repeats(raw, L) == \A i \in 1..Len(raw) : raw[i] = Cyclic(SubSeq(raw, 1, L), i)

decrypt(c, key) == [i \in DOMAIN c |-> Exor(unchain(c)[i], Cyclic(key, i))]

NextBlob ==
  /\ index' = index + 1
  /\ length' = 1
  /\ halted' = IF index = Len(Names) THEN "done" ELSE "no"

\* One turn of the loop of recover_key, and of the script's when it is over.
TryLength ==
  LET c == Blob(Names[index]) IN
  /\ halted = "no"
  /\ Len(c) >= Len(MZ)
  /\ \/ /\ Repeats(Raw(c), length)
        /\ written' = Append(written, decrypt(c, SubSeq(Raw(c), 1, length)))
        /\ NextBlob
     \/ /\ ~Repeats(Raw(c), length)
        /\ length < MaxLen
        /\ length' = length + 1
        /\ UNCHANGED <<index, written, halted>>
  /\ UNCHANGED source

\* Mutant: a blob without a key is passed over.
TooShortSkipped ==
  /\ halted = "no"
  /\ Len(Blob(Names[index])) < Len(MZ)
  /\ NextBlob
  /\ UNCHANGED <<source, written>>

\* A blob shorter than the header: an IndexError ends the script.
TooShort ==
  /\ halted = "no"
  /\ Len(Blob(Names[index])) < Len(MZ)
  /\ halted' = "IndexError"
  /\ UNCHANGED <<source, index, length, written>>

\* A file that is not there, which open() finds before any length is tried.
Missing ==
  /\ halted = "no"
  /\ length = 1
  /\ halted' = "FileNotFoundError"
  /\ UNCHANGED <<source, index, length, written>>

DecryptNext == TryLength \/ TooShort \/ Missing

-----------------------------------------------------------------------------
(* Properties                                                              *)

\* A file that is written is the vendor's plaintext, provided that begins with
\* the header and the key repeats in it: a key of at most half the header and one
\* byte leaves no shorter period that a chance in the key could have made up.
PlaintextComesBack ==
  \A n \in DOMAIN written :
    LET s == source[Names[n]] IN
    SubSeq(s.plain, 1, Len(MZ)) = MZ /\ 2 * Len(s.key) <= Len(MZ) + 2
      => written[n] = s.plain

\* Nobody has to look whether a plaintext is missing: a script that ends normally has
\* written all of every blob, and one that ends with an IndexError has written all of
\* those before the blob that is too short, and nothing of the others.
EveryBlobAnswered ==
  /\ \A n \in DOMAIN written :
       Len(written[n]) = Len(Blob(Names[n])) /\ Len(written[n]) >= Len(MZ)
  /\ halted = "done" => Len(written) = Len(Names)
  /\ halted = "IndexError" =>
       Len(written) < Len(Names) /\ Len(Blob(Names[Len(written) + 1])) < Len(MZ)

=============================================================================
