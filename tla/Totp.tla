-------------------------------- MODULE Totp --------------------------------
(***************************************************************************)
(* The TOTP class (src/decept/hmac/TOTP.cpp): two objects that hold the    *)
(* same key, the prover's and the verifier's, each with its own temp_,     *)
(* whose bytes are arbitrary at first.  HMAC is a fixed function of the    *)
(* time step: a table that is drawn once.                                  *)
(***************************************************************************)
EXTENDS Integers, Sequences, SequencesExt

CONSTANTS Tokens,      \* the TOTP objects
          TempSize,    \* sizeof(temp_)
          ByteBase,    \* 2^8
          OffsetMod,   \* 16: the mask of the offset, plus one
          Window,      \* 4: the bytes that are read at the offset
          Radix,       \* 10
          MaxDigits,   \* kMaxDigits
          Times, TimeSteps,
          Leftovers,   \* the bytes an object's temp_ may hold at first
          Tags         \* the digests that may be drawn, of any hash: short ones too

\* temp_ has room for every digest, and for the read at the largest offset (TOTP.h).
ASSUME TotpAssumption ==
  /\ OffsetMod \in Nat \ {0} /\ Window \in Nat \ {0}
  /\ TempSize \in Nat /\ TempSize >= OffsetMod - 1 + Window
  /\ \A tag \in Tags : \E n \in 1 .. TempSize : tag \in [1 .. n -> Nat]

VARIABLES outputSize,  \* hmac_.outputSize(), of the algorithm that both were given
          tagOf,       \* the HMAC of each time step under the key
          temp_,
          ready,       \* initKey() has returned true
          code         \* what each object answered last, and for which time

totpVars == <<outputSize, tagOf, temp_, ready, code>>

NoCode   == [step |-> -1, digits |-> 0, value |-> -1]   \* none, or nullopt
ZeroCode == [step |-> 0, digits |-> 0, value |-> 0]

-----------------------------------------------------------------------------
\* time / timeStep, towards zero: just before the epoch is step 0 as well.
Quotient(t, s) == IF t < 0 THEN -((-t) \div s) ELSE t \div s

\* The time steps that are asked for.
Steps == {Quotient(t, s) : t \in Times, s \in {n \in TimeSteps : ~(n <= 0)}}

PowersOfTen == [i \in 0 .. MaxDigits |-> Radix ^ i]

\* The bytes at the offset, most significant first.
Binary(bytes, offset) ==
  FoldLeft(LAMBDA n, b : n * ByteBase + b, 0, SubSeq(bytes, offset + 1, offset + Window))

\* Without its top bit, whatever the size of the word.
Positive(n) == n % ((ByteBase ^ Window) \div 2)

Truncated(n, digits) == IF digits > MaxDigits THEN n ELSE n % PowersOfTen[digits]

\* Mutant: the offset is taken from the last byte of temp_.
CodeOfLast(bytes, digits) ==
  Truncated(Positive(Binary(bytes, bytes[TempSize] % OffsetMod)), digits)

CodeOf(bytes, digits) ==
  Truncated(Positive(Binary(bytes, bytes[outputSize] % OffsetMod)), digits)

-----------------------------------------------------------------------------
TotpInit ==
  /\ outputSize \in {Len(tag) : tag \in Tags}
  /\ tagOf \in [Steps -> {tag \in Tags : Len(tag) = outputSize}]
  /\ temp_ \in [Tokens -> {[i \in 1 .. TempSize |-> b] : b \in Leftovers}]
  /\ ready = [o \in Tokens |-> FALSE]
  /\ code = [o \in Tokens |-> NoCode]

\* initKey(): a key that is not base32 leaves the HMAC as it was; a failure of the
\* HMAC leaves no key.
TotpInitKey(o, valid, ok) ==
  /\ ready' = [ready EXCEPT ![o] = IF valid THEN ok ELSE @]
  /\ code' = [code EXCEPT ![o] = NoCode]
  /\ UNCHANGED <<outputSize, tagOf, temp_>>

\* The bytes of temp_ after the digest.
Leftover(o) == SubSeq(temp_[o], outputSize + 1, TempSize)

\* calculate(), when the HMAC succeeds: the digest takes the first bytes of temp_,
\* the others keep what they hold.
TotpCalculate(o, time, timeStep, digits) ==
  LET t     == Quotient(time, timeStep)
      bytes == tagOf[t] \o Leftover(o)
  IN /\ ready[o]
     /\ IF digits = 0 \/ timeStep <= 0
        THEN /\ code' = [code EXCEPT ![o] = ZeroCode]
             /\ UNCHANGED temp_
        ELSE /\ code' = [code EXCEPT ![o] =
                           [step |-> t, digits |-> digits, value |-> CodeOf(bytes, digits)]]
             /\ temp_' = [temp_ EXCEPT ![o] = bytes]
     /\ UNCHANGED <<outputSize, tagOf, ready>>

\* nullopt: the HMAC has failed, and temp_ is not modified.
TotpFails(o) ==
  /\ ready[o]
  /\ code' = [code EXCEPT ![o] = NoCode]
  /\ UNCHANGED <<outputSize, tagOf, temp_, ready>>

TotpNext ==
  \E o \in Tokens :
    \/ \E valid, ok \in BOOLEAN : TotpInitKey(o, valid, ok)
    \/ \E time \in Times, s \in TimeSteps, digits \in 0 .. MaxDigits + 1 :
         TotpCalculate(o, time, s, digits)
    \/ TotpFails(o)

TotpSpec == TotpInit /\ [][TotpNext]_totpVars

-----------------------------------------------------------------------------
(* Properties. *)

\* The bytes that the digest's offset picks are all the digest's: true of SHA-1 and
\* SHA-256, but of CRC32 for the offset 0 only, and the constructor takes CRC32 too.
WithinDigest(tag) == (tag[outputSize] % OffsetMod) + Window <= outputSize

\* Prover and verifier agree: for two times of one time step, two objects with one
\* key give one code, whatever each calculated before and, unless the offset points
\* past a short digest, whatever its memory held.  Past the digest, the codes agree
\* between objects whose memory held the same there (TOTP.cpp).
TotpAgree ==
  \A o, q \in Tokens :
    (/\ code[o].digits # 0
     /\ code[o].step = code[q].step /\ code[o].digits = code[q].digits
     /\ WithinDigest(tagOf[code[o].step]) \/ Leftover(o) = Leftover(q))
    => code[o].value = code[q].value
=============================================================================
