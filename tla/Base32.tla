------------------------------- MODULE Base32 -------------------------------
(***************************************************************************)
(* decodeBase32() and encodeBase32() (src/decept/util/codecs.cpp), bit by  *)
(* bit: a byte, a character's value and a block of either are the sets of  *)
(* their bits that are 1.  Upper and lower case are one character.         *)
(***************************************************************************)
EXTENDS Integers, Sequences, FiniteSets

CONSTANTS Texts,    \* what is given to the decoder
          ByteSeqs  \* and to the encoder

VARIABLES text,     \* the characters that were decoded, or the encoder's answer
          bytes,    \* the bytes that were encoded, or the decoder's answer
          base32    \* "idle", "decoded", "refused" or "encoded"

base32Vars == <<text, bytes, base32>>

\* Characters that are no values.
Pad   == {-1}
Other == {-2}

IsValue(c) == c \subseteq 0 .. 4

ASSUME Base32Assumption ==
  /\ Texts \subseteq Seq((SUBSET (0 .. 4)) \cup {Pad, Other})
  /\ ByteSeqs \subseteq Seq(SUBSET (0 .. 7))

\* To the right when n < 0: bits below 0 are lost.
Shl(x, n)  == {i + n : i \in x} \cap Nat
Mask(x, n) == x \cap (0 .. n - 1)

-----------------------------------------------------------------------------
\* How far each value of a group is shifted to the left: the groups of 2, 4, 5
\* and 7 values end with bits that must be 0, and lose them.
Shifts(n) ==
  CASE n = 2 -> <<3, -2>>
    [] n = 4 -> <<11, 6, 1, -4>>
    [] n = 5 -> <<19, 14, 9, 4, -1>>
    [] n = 7 -> <<27, 22, 17, 12, 7, 2, -3>>
    [] n = 8 -> <<35, 30, 25, 20, 15, 10, 5, 0>>
    [] OTHER -> <<>>

\* The bytes of a group, from the top one down.
DecodeGroup(values) ==
  LET n      == Len(values)
      block  == UNION {Shl(values[i], Shifts(n)[i]) : i \in 1 .. n}
      length == (n * 5) \div 8
  IN [k \in 1 .. length |-> Mask(Shl(block, -8 * (length - k)), 8)]

\* Mutant: the masks of four and of one pad are swapped.
LastBitsSwapped(pads) ==
  CASE pads = 6 -> 2 [] pads = 4 -> 3 [] pads = 3 -> 1 [] pads = 1 -> 4

\* How many low bits of the last value must be 0 for each number of pads, and how
\* many values the last group then has.
LastBits(pads)   == CASE pads = 6 -> 2 [] pads = 4 -> 4 [] pads = 3 -> 1 [] pads = 1 -> 3
LastValues(pads) == CASE pads = 6 -> 2 [] pads = 4 -> 4 [] pads = 3 -> 5 [] pads = 1 -> 7

ValueCount(s) == Cardinality({i \in 1 .. Len(s) : IsValue(s[i])})

\* Whole groups of 8, values before pads, and the padding of a byte string.
IsBase32(s) ==
  LET count == ValueCount(s)
      pads  == Len(s) - count
  IN /\ Len(s) % 8 = 0
     /\ \A i \in 1 .. Len(s) : s[i] = Pad \/ (IsValue(s[i]) /\ \A j \in 1 .. i : s[j] # Pad)
     /\ pads \in {0, 1, 3, 4, 6}
     /\ pads # 0 => count % 8 = LastValues(pads) /\ Mask(s[count], LastBits(pads)) = {}

\* Group g of the first n elements, from 0. The last may be short.
GroupOf(seq, size, n, g) ==
  SubSeq(seq, size * g + 1, IF size * g + size < n THEN size * g + size ELSE n)

Decoded(s) ==
  LET count == ValueCount(s)
  IN [k \in 1 .. (count * 5) \div 8 |->
        DecodeGroup(GroupOf(s, 8, count, (k - 1) \div 5))[((k - 1) % 5) + 1]]

-----------------------------------------------------------------------------
\* The characters of five bytes: (block >> 35) & 0x1f and so on.
EncodeFive(b) ==
  LET block == UNION {Shl(b[i], 8 * (5 - i)) : i \in 1 .. 5}
  IN [k \in 1 .. 8 |-> Mask(Shl(block, -(40 - 5 * k)), 5)]

Right(x, n, width) == Mask(Shl(x, -n), width)

\* The characters of one to four bytes; a byte that is not there has no bits.
RestChars(b) ==
  << Right(b[1], 3, 5),
     Shl(Mask(b[1], 3), 2) \cup Right(b[2], 6, 2),
     Right(b[2], 1, 5),
     Shl(Mask(b[2], 1), 4) \cup Right(b[3], 4, 4),
     Shl(Mask(b[3], 4), 1) \cup Right(b[4], 7, 1),
     Right(b[4], 2, 5),
     Shl(Mask(b[4], 2), 3) >>

RestSize(n) == CASE n = 1 -> 2 [] n = 2 -> 4 [] n = 3 -> 5 [] n = 4 -> 7

EncodeRest(bs) ==
  LET chars == RestChars([i \in 1 .. 4 |-> IF i <= Len(bs) THEN bs[i] ELSE {}])
  IN [k \in 1 .. 8 |-> IF k <= RestSize(Len(bs)) THEN chars[k] ELSE Pad]

EncodeGroup(bs) == IF Len(bs) = 5 THEN EncodeFive(bs) ELSE EncodeRest(bs)

Encoded(bs) ==
  [k \in 1 .. 8 * ((Len(bs) + 4) \div 5) |->
     EncodeGroup(GroupOf(bs, 5, Len(bs), (k - 1) \div 8))[((k - 1) % 8) + 1]]

-----------------------------------------------------------------------------
Base32Init == text = <<>> /\ bytes = <<>> /\ base32 = "idle"

DecodeBase32(s) ==
  /\ text' = s
  /\ IF IsBase32(s)
     THEN base32' = "decoded" /\ bytes' = Decoded(s)
     ELSE base32' = "refused" /\ bytes' = <<>>

EncodeBase32(x) ==
  /\ bytes' = x /\ text' = Encoded(x)
  /\ base32' = "encoded"

\* The next call is of no concern to this one.
NextText == base32 # "idle" /\ text' = <<>> /\ bytes' = <<>> /\ base32' = "idle"

Base32Next ==
  \/ base32 = "idle" /\ \E s \in Texts : DecodeBase32(s)
  \/ base32 = "idle" /\ \E x \in ByteSeqs : EncodeBase32(x)
  \/ NextText

Base32Spec == Base32Init /\ [][Base32Next]_base32Vars

-----------------------------------------------------------------------------
\* The two are inverses of each other, at every length and for every bit: what was
\* encoded is accepted and decodes to the same bytes, and what is accepted is the
\* one encoding of its bytes, so that no two texts give one key (codecs.cpp: pads,
\* and the low bits of the last character).
Base32RoundTrip ==
  /\ base32 = "encoded" => IsBase32(text) /\ Decoded(text) = bytes
  /\ base32 = "decoded" => Encoded(bytes) = text
=============================================================================
