-------------------------------- MODULE Hkdf --------------------------------
(***************************************************************************)
(* The HKDF class (src/decept/hmac/HKDF.cpp) on an HMAC, of which it relies *)
(* on MacSpec: an authenticator is a term, <<"mac", key, pieces>>, and any  *)
(* call may fail.  Every block of an expansion is a step.                   *)
(***************************************************************************)
EXTENDS Naturals, Sequences, SequencesExt

CONSTANTS HashSize,    \* outputSize(), in bytes
          CounterMod,  \* the values of the block counter: 2^8
          Salts,       \* what extract() is given: salts and input key material,
          NoSalt,      \* no salt, a null pointer, is the zeros of one block,
          Zeros,
          Infos,       \* and what expand() is given: an info and an IV,
          NoInput,     \* of which each may be empty
          NoPrk        \* no key was extracted

ASSUME HkdfAssumption ==
  /\ HashSize \in Nat \ {0}
  /\ CounterMod \in Nat \ {0, 1}

VARIABLES prk,   \* the key extract() has made for the caller
          temp,  \* temp_: the last block
          ctr,
          iv, info,
          okm,   \* the output: <<block, index>> for each byte written
          rem,   \* outSizeRem
          size,  \* outSize of the expansion
          kdf    \* "idle", "first", "full", or what expand() returned

hkdfVars == <<prk, temp, ctr, iv, info, okm, rem, size, kdf>>

MaxSize == (CounterMod - 1) * HashSize

MacTerm(key, pieces) == <<"mac", key, SelectSeq(pieces, LAMBDA x : x # NoInput)>>

-----------------------------------------------------------------------------
HkdfInit ==
  /\ prk = NoPrk /\ temp = NoPrk /\ ctr = 0 /\ iv = NoInput /\ info = NoInput
  /\ okm = <<>> /\ rem = 0 /\ size = 0 /\ kdf = "idle"

\* extract() returns true; when it does not, the caller has no key.
Extract(salt, ikm) ==
  /\ kdf = "idle"
  /\ prk' = MacTerm(IF salt = NoSalt THEN Zeros ELSE salt, <<ikm>>)
  /\ UNCHANGED <<temp, ctr, iv, info, okm, rem, size, kdf>>

\* expand() up to its first block; an output that is too long is refused, and so is a
\* key that is given as shorter than a digest.
Expand(x, y, n, prkSize) ==
  /\ kdf = "idle" /\ prk # NoPrk
  /\ iv' = x /\ info' = y /\ size' = n /\ rem' = n /\ okm' = <<>>
  /\ ctr' = 1
  /\ kdf' = IF prkSize < HashSize \/ n > MaxSize THEN "false"
            ELSE IF n = 0 THEN "true" ELSE "first"
  /\ UNCHANGED <<prk, temp>>

\* The next block's bytes go to the output. temp_ is written unless the block is
\* the partial one at the end, and the counter is one byte.
Put(block, n) ==
  /\ okm' = okm \o [i \in 1 .. n |-> <<block, i>>]
  /\ rem' = rem - n
  /\ kdf' = IF rem = n THEN "true" ELSE "full"
  /\ UNCHANGED <<prk, iv, info, size>>

FirstBlock ==
  LET block == MacTerm(prk, <<iv, info, <<"ctr", ctr>>>>)
  IN /\ kdf = "first"
     /\ temp' = block /\ UNCHANGED ctr
     /\ Put(block, IF rem < HashSize THEN rem ELSE HashSize)

\* Mutant: the counter is increased after the block.
NextBlockLate ==
  LET block == MacTerm(prk, <<temp, info, <<"ctr", ctr>>>>)
  IN /\ kdf = "full"
     /\ ctr' = (ctr + 1) % CounterMod
     /\ IF rem >= HashSize
        THEN temp' = block /\ Put(block, HashSize)
        ELSE UNCHANGED temp /\ Put(block, rem)

NextBlock ==
  LET next  == (ctr + 1) % CounterMod
      block == MacTerm(prk, <<temp, info, <<"ctr", next>>>>)
  IN /\ kdf = "full"
     /\ ctr' = next
     /\ IF rem >= HashSize
        THEN temp' = block /\ Put(block, HashSize)
        ELSE UNCHANGED temp /\ Put(block, rem)

\* A call of the HMAC has failed.
HkdfFails ==
  /\ kdf \in {"first", "full"}
  /\ kdf' = "false"
  /\ UNCHANGED <<prk, temp, ctr, iv, info, okm, rem, size>>

\* The caller has its answer.
Answered ==
  /\ kdf \in {"true", "false"}
  /\ kdf' = "idle"
  /\ UNCHANGED <<prk, temp, ctr, iv, info, okm, rem, size>>

HkdfNext ==
  \/ \E salt \in Salts \cup {NoSalt}, ikm \in Salts : Extract(salt, ikm)
  \/ \E x, y \in Infos \cup {NoInput}, n \in 0 .. MaxSize + 1,
        prkSize \in {HashSize - 1, HashSize} : Expand(x, y, n, prkSize)
  \/ FirstBlock \/ NextBlock \/ HkdfFails \/ Answered

HkdfSpec == HkdfInit /\ [][HkdfNext]_hkdfVars

-----------------------------------------------------------------------------
(* Properties. *)

\* T(i) of RFC 5869, with the IV as T(0).
T[i \in Nat] ==
  IF i = 0 THEN iv ELSE MacTerm(prk, <<T[i - 1], info, <<"ctr", i>>>>)

\* When expand() returns true the output is exactly the first outSize bytes of
\* T(1) | T(2) | ..., at every size from 0 to the largest, each block under a
\* counter of its own; a size beyond is refused (HKDF.cpp, HKDF.h "Checks").
HkdfOutput ==
  kdf = "true" =>
    /\ size <= MaxSize
    /\ okm = [i \in 1 .. size |->
                <<T[((i - 1) \div HashSize) + 1], ((i - 1) % HashSize) + 1>>]
=============================================================================
