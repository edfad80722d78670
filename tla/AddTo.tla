------------------------------- MODULE AddTo -------------------------------
(***************************************************************************)
(* addTo() (src/decept/drbg/HashDRBG.cpp): big-endian addition in place,   *)
(* of a number that may be shorter or longer than the sum it is added to.  *)
(***************************************************************************)
EXTENDS Naturals, Sequences

CONSTANTS Base,      \* 2^8
          SumSize,   \* the bytes of the sum,
          MaxAddend  \* and of what is added, at most

ASSUME AddToAssumption ==
  /\ Base \in Nat \ {0, 1} /\ SumSize \in Nat \ {0}
  /\ MaxAddend \in Nat

VARIABLES b,      \* the sum
          total   \* history: its value, by arithmetic

addVars == <<b, total>>

\* Base^i
Power[i \in 0 .. SumSize] == IF i = 0 THEN 1 ELSE Power[i - 1] * Base

\* What the first bytes are, big-endian.
PrefixValues(bytes) ==
  LET value[i \in 0 .. Len(bytes)] == IF i = 0 THEN 0 ELSE value[i - 1] * Base + bytes[i]
  IN value

ValueOf(bytes) == PrefixValues(bytes)[Len(bytes)]

\* Mutant: the carry goes one byte up and no further.
CarryOnce(bytes, k) ==
  [j \in 1 .. Len(bytes) |-> IF j = k - 1 THEN (bytes[j] + 1) % Base ELSE bytes[j]]

\* A carry out of byte k: the bytes above it are increased up to the first that
\* does not become zero.
Carry(bytes, k) ==
  [j \in 1 .. Len(bytes) |->
     IF j < k /\ \A i \in j + 1 .. k - 1 : bytes[i] = Base - 1
     THEN (bytes[j] + 1) % Base
     ELSE bytes[j]]

\* One byte is added, at place k.
AddByte(d, k, bytes) ==
  LET digits  == d + bytes[k]
      written == [bytes EXCEPT ![k] = digits % Base]
  IN IF digits >= Base THEN Carry(written, k) ELSE written

\* The bytes are added from the last to the first that both have.
Plus(a, bytes) ==
  LET count == IF Len(a) < Len(bytes) THEN Len(a) ELSE Len(bytes)
      sum[i \in 0 .. count] ==
        IF i = 0 THEN bytes ELSE AddByte(a[Len(a) - i + 1], Len(bytes) - i + 1, sum[i - 1])
  IN sum[count]

AddInit == b = [i \in 1 .. SumSize |-> 0] /\ total = 0

Add(a) ==
  /\ b' = Plus(a, b)
  /\ total' = (total + ValueOf(a)) % Power[SumSize]

AddNext == \E n \in 0 .. MaxAddend : \E a \in [1 .. n -> 0 .. Base - 1] : Add(a)

AddSpec == AddInit /\ [][AddNext]_addVars

-----------------------------------------------------------------------------
\* "b = a + b (mod 2^(8*length(b)))" (HashDRBG.cpp), for addends of every length
\* and every chain of carries.
AddToAdds == ValueOf(b) = total
=============================================================================
