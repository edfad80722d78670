----------------------------- MODULE MacProofs ------------------------------
(***************************************************************************)
(* What Totp, Hmac, Hkdf and HmacDrbg promise, for every key and message,  *)
(* every time, and every length of an output.                              *)
(***************************************************************************)
EXTENDS Totp, Hmac, Hkdf, HmacDrbg, SequenceTheorems, WellFoundedInduction, TLAPS

-----------------------------------------------------------------------------
(* TOTP. *)

\* A code is that of its time step's digest and of what follows the digest in temp_.
CodeOK(o) ==
  \/ code[o] \in {NoCode, ZeroCode}
  \/ /\ code[o].step \in Steps /\ code[o].digits # 0
     /\ code[o].value = CodeOf(tagOf[code[o].step] \o Leftover(o), code[o].digits)

TotpInv ==
  /\ outputSize \in 1 .. TempSize
  /\ tagOf \in [Steps -> [1 .. outputSize -> Nat]]
  /\ temp_ \in [Tokens -> [1 .. TempSize -> Nat \cup Leftovers]]
  /\ DOMAIN code = Tokens
  /\ \A o \in Tokens : CodeOK(o)

\* What follows s in s \o t is t.
LEMMA TailOfConcat ==
  ASSUME NEW S, NEW s \in Seq(S), NEW t \in Seq(S), NEW n \in Nat, n = Len(s),
         NEW k \in Nat, k = n + Len(t)
  PROVE  SubSeq(s \o t, n + 1, k) = t
<1>1. PICK all : all = s \o t
  OBVIOUS
<1>2. PICK r \in Nat : r = Len(t)
  BY LenProperties
<1>3. /\ all \in Seq(S)
      /\ \A i \in 1 .. n + r : all[i] = IF i <= n THEN s[i] ELSE t[i - n]
  BY <1>1, <1>2, ConcatProperties
<1>4. \A i \in 1 .. r : all[n + i] = t[i]
  BY <1>3
<1>5. PICK m \in Nat : m = n + 1
  OBVIOUS
<1>6. \A i \in m .. k : all[i] \in S
  <2>1. Len(all) = n + r
    BY <1>1, <1>2, ConcatProperties
  <2> QED
    BY <1>2, <1>3, <1>5, <2>1, ElementOfSeq
<1>7. PICK rest : rest = SubSeq(all, m, k)
  OBVIOUS
<1>8. /\ rest \in Seq(S) /\ Len(rest) = IF m <= k THEN k - m + 1 ELSE 0
      /\ \A i \in 1 .. k - m + 1 : rest[i] = all[m + i - 1]
  BY <1>6, <1>7, SubSeqProperties
<1>9. Len(rest) = r
  BY <1>2, <1>5, <1>8
<1>10. \A i \in 1 .. r : rest[i] = t[i]
  <2>1. k - m + 1 = r
    BY <1>2, <1>5
  <2>2. \A i \in 1 .. r : rest[i] = all[m + i - 1] /\ m + i - 1 = n + i
    BY <1>5, <1>8, <2>1
  <2> QED
    BY <1>4, <2>2
<1>11. rest = t
  BY <1>2, <1>8, <1>9, <1>10, SeqEqual
<1> QED
  BY <1>1, <1>5, <1>7, <1>11

\* What calculate() leaves in temp_: the digest, and after it what was there.
LEMMA LeftoverKept ==
  ASSUME NEW n \in 1 .. TempSize, NEW mac \in [1 .. n -> Nat],
         NEW old \in [1 .. TempSize -> Nat \cup Leftovers]
  PROVE  /\ mac \o SubSeq(old, n + 1, TempSize) \in [1 .. TempSize -> Nat \cup Leftovers]
         /\ SubSeq(mac \o SubSeq(old, n + 1, TempSize), n + 1, TempSize)
              = SubSeq(old, n + 1, TempSize)
         /\ \A i \in 1 .. n : (mac \o SubSeq(old, n + 1, TempSize))[i] = mac[i]
         /\ \A i, j \in 1 .. n :
              SubSeq(mac \o SubSeq(old, n + 1, TempSize), i, j) = SubSeq(mac, i, j)
<1> DEFINE rest  == SubSeq(old, n + 1, TempSize)
           bytes == mac \o rest
<1>1. TempSize \in Nat /\ n \in Nat /\ n <= TempSize /\ n >= 1
  BY TotpAssumption
<1>2. PICK S : S = Nat \cup Leftovers
  OBVIOUS
<1>3. mac \in Seq(S) /\ Len(mac) = n
  BY <1>1, <1>2
<1>4. PICK m \in Int : m = n + 1
  BY <1>1
<1>5. rest \in Seq(S) /\ Len(rest) = TempSize - n
  <2>1. TempSize \in Int /\ \A i \in m .. TempSize : old[i] \in S
    BY <1>1, <1>2, <1>4
  <2>2. rest \in Seq(S) /\ Len(rest) = IF m <= TempSize THEN TempSize - m + 1 ELSE 0
    BY <1>4, <2>1, SubSeqProperties
  <2> QED
    BY <1>1, <1>4, <2>2
<1>6. /\ bytes \in Seq(S) /\ Len(bytes) = Len(mac) + Len(rest)
      /\ \A i \in 1 .. Len(mac) + Len(rest) :
           bytes[i] = IF i <= Len(mac) THEN mac[i] ELSE rest[i - Len(mac)]
  <2>1. rest \in Seq(S) /\ mac \in Seq(S)
    BY <1>3, <1>5
  <2>2. /\ mac \o rest \in Seq(S) /\ Len(mac \o rest) = Len(mac) + Len(rest)
        /\ \A i \in 1 .. Len(mac) + Len(rest) :
             (mac \o rest)[i] = IF i <= Len(mac) THEN mac[i] ELSE rest[i - Len(mac)]
    BY <2>1, ConcatProperties, Zenon
  <2> QED
    BY <2>2, Zenon
<1>7. Len(bytes) = TempSize
  <2>1. Len(bytes) = Len(mac) + Len(rest)
    BY <1>6
  <2>2. PICK a, b : a = Len(mac) /\ b = Len(rest)
    OBVIOUS
  <2>3. a = n /\ b = TempSize - n
    BY <1>3, <1>5, <2>2
  <2>4. Len(bytes) = a + b
    BY <2>1, <2>2
  <2>5. a + b = TempSize
    BY <1>1, <2>3
  <2> QED
    BY <2>4, <2>5, Zenon
<1>8. bytes \in [1 .. TempSize -> Nat \cup Leftovers]
  <2>1. bytes \in [1 .. Len(bytes) -> S]
    BY <1>6, LenProperties
  <2> QED
    BY <1>2, <1>7, <2>1
<1>9. SubSeq(bytes, n + 1, TempSize) = rest
  <2> HIDE DEF rest
  <2>1. TempSize = n + Len(rest) /\ n = Len(mac) /\ TempSize \in Nat
    BY <1>1, <1>3, <1>5
  <2>2. mac \in Seq(S) /\ rest \in Seq(S) /\ n \in Nat
    BY <1>1, <1>3, <1>5
  <2>3. PICK t : t = rest
    OBVIOUS
  <2>4. SubSeq(mac \o t, n + 1, TempSize) = t
    BY <2>1, <2>2, <2>3, TailOfConcat
  <2> QED
    BY <2>3, <2>4
<1>10. \A i, j \in 1 .. n : SubSeq(bytes, i, j) = SubSeq(mac, i, j)
  BY <1>3, <1>5, SubSeqOfConcat1
<1>11. \A i \in 1 .. n : bytes[i] = mac[i]
  BY <1>1, <1>3, <1>5, <1>6
<1> QED
  BY <1>8, <1>9, <1>10, <1>11

LEMMA CalculateKeeps ==
  ASSUME TotpInv, NEW o \in Tokens, NEW t \in Steps,
         NEW bytes, bytes = tagOf[t] \o Leftover(o)
  PROVE  /\ bytes \in [1 .. TempSize -> Nat \cup Leftovers]
         /\ SubSeq(bytes, outputSize + 1, TempSize) = Leftover(o)
<1>1. PICK n \in 1 .. TempSize : n = outputSize
  BY DEF TotpInv
<1>2. PICK mac \in [1 .. n -> Nat] : mac = tagOf[t]
  BY <1>1 DEF TotpInv
<1>3. PICK old \in [1 .. TempSize -> Nat \cup Leftovers] : old = temp_[o]
  BY DEF TotpInv
<1>4. /\ mac \o SubSeq(old, n + 1, TempSize) \in [1 .. TempSize -> Nat \cup Leftovers]
      /\ SubSeq(mac \o SubSeq(old, n + 1, TempSize), n + 1, TempSize)
           = SubSeq(old, n + 1, TempSize)
  BY LeftoverKept, Zenon
<1>5. Leftover(o) = SubSeq(old, n + 1, TempSize)
  BY <1>1, <1>3 DEF Leftover
<1> QED
  BY <1>1, <1>2, <1>4, <1>5, Zenon

\* Where the offset picks bytes of the digest only, the code is the digest's.
LEMMA DigestBytesOnly ==
  ASSUME TotpInv, NEW t \in Steps, WithinDigest(tagOf[t]), NEW o \in Tokens, NEW digits
  PROVE  CodeOf(tagOf[t] \o Leftover(o), digits) = CodeOf(tagOf[t], digits)
<1>1. PICK mac \in [1 .. outputSize -> Nat] : mac = tagOf[t]
  BY DEF TotpInv
<1>2. PICK bytes : bytes = mac \o Leftover(o)
  OBVIOUS
<1>3. outputSize \in 1 .. TempSize /\ outputSize \in Nat /\ TempSize \in Nat
      /\ OffsetMod \in Nat \ {0} /\ Window \in Nat \ {0}
  BY TotpAssumption DEF TotpInv
<1>4. /\ bytes[outputSize] = mac[outputSize]
      /\ \A i, j \in 1 .. outputSize : SubSeq(bytes, i, j) = SubSeq(mac, i, j)
  <2>1. temp_[o] \in [1 .. TempSize -> Nat \cup Leftovers]
    BY DEF TotpInv
  <2>2. /\ \A i \in 1 .. outputSize : bytes[i] = mac[i]
        /\ \A i, j \in 1 .. outputSize : SubSeq(bytes, i, j) = SubSeq(mac, i, j)
    BY <1>2, <1>3, <2>1, LeftoverKept DEF Leftover
  <2>3. outputSize \in 1 .. outputSize
    BY <1>3
  <2> QED
    BY <2>2, <2>3
<1>5. PICK n \in Nat : n = mac[outputSize] % OffsetMod /\ n + Window <= outputSize
  <2>1. outputSize \in 1 .. outputSize
    BY <1>3
  <2>2. mac[outputSize] \in Nat
    BY <1>1, <2>1
  <2>3. mac[outputSize] % OffsetMod \in Nat
    BY <1>3, <2>2
  <2> QED
    BY <1>1, <2>3 DEF WithinDigest
<1>6. SubSeq(bytes, n + 1, n + Window) = SubSeq(mac, n + 1, n + Window)
  <2>1. n + 1 \in 1 .. outputSize /\ n + Window \in 1 .. outputSize
    BY <1>3, <1>5
  <2> QED
    BY <1>4, <2>1
<1>7. Binary(bytes, n) = Binary(mac, n)
  BY <1>6 DEF Binary
<1>8. CodeOf(bytes, digits) = CodeOf(mac, digits)
  BY <1>4, <1>5, <1>7 DEF CodeOf
<1> QED
  BY <1>1, <1>2, <1>8

LEMMA TotpInitInv == TotpInit => TotpInv
<1> SUFFICES ASSUME TotpInit PROVE TotpInv
  OBVIOUS
<1>1. temp_ \in [Tokens -> [1 .. TempSize -> Nat \cup Leftovers]]
  BY DEF TotpInit
<1>2. \A mac \in Tags : Len(mac) \in 1 .. TempSize /\ mac \in [1 .. Len(mac) -> Nat]
  <2> SUFFICES ASSUME NEW mac \in Tags
               PROVE  Len(mac) \in 1 .. TempSize /\ mac \in [1 .. Len(mac) -> Nat]
    OBVIOUS
  <2>1. PICK n \in 1 .. TempSize : mac \in [1 .. n -> Nat]
    BY TotpAssumption
  <2>2. Len(mac) = n
    BY <2>1, TotpAssumption
  <2> QED
    BY <2>1, <2>2
<1>3. outputSize \in 1 .. TempSize /\ tagOf \in [Steps -> [1 .. outputSize -> Nat]]
  BY <1>2 DEF TotpInit
<1> QED
  BY <1>1, <1>3 DEF TotpInit, TotpInv, CodeOK

LEMMA TotpNextInv == TotpInv /\ [TotpNext]_totpVars => TotpInv'
<1> SUFFICES ASSUME TotpInv, [TotpNext]_totpVars PROVE TotpInv'
  OBVIOUS
<1> USE DEF TotpInv
<1>1. ASSUME NEW o \in Tokens, CodeOK(o)', UNCHANGED <<outputSize, tagOf>>,
             NEW c, code' = [code EXCEPT ![o] = c],
             \A q \in Tokens : Leftover(q)' = Leftover(q)
      PROVE  DOMAIN code' = Tokens /\ \A q \in Tokens : CodeOK(q)'
  <2>1. ASSUME NEW q \in Tokens, q # o PROVE CodeOK(q)'
    <3>1. code'[q] = code[q]
      BY <1>1, <2>1
    <3> QED
      BY <1>1, <3>1 DEF CodeOK, CodeOf
  <2> QED
    BY <1>1, <2>1
<1>2. ASSUME NEW o \in Tokens, NEW c \in {NoCode, ZeroCode}, code' = [code EXCEPT ![o] = c],
             UNCHANGED <<outputSize, tagOf, temp_>>
      PROVE  TotpInv'
  <2>1. CodeOK(o)' /\ \A q \in Tokens : Leftover(q)' = Leftover(q)
    BY <1>2 DEF CodeOK, Leftover
  <2> QED
    BY <1>1, <1>2, <2>1
<1>3. ASSUME NEW o \in Tokens, NEW valid \in BOOLEAN, NEW ok \in BOOLEAN, TotpInitKey(o, valid, ok)
      PROVE  TotpInv'
  BY <1>2, <1>3 DEF TotpInitKey
<1>4. ASSUME NEW o \in Tokens, NEW time \in Times, NEW s \in TimeSteps,
             NEW digits \in 0 .. MaxDigits + 1, TotpCalculate(o, time, s, digits)
      PROVE  TotpInv'
  <2>1. CASE digits = 0 \/ s <= 0
    BY <1>2, <1>4, <2>1 DEF TotpCalculate
  <2>2. CASE ~(digits = 0 \/ s <= 0)
    <3>1. PICK t \in Steps : t = Quotient(time, s)
      BY <2>2 DEF Steps
    <3>2. PICK rest, bytes : rest = Leftover(o) /\ bytes = tagOf[t] \o rest
      OBVIOUS
    <3>3. PICK c : c = [step |-> t, digits |-> digits, value |-> CodeOf(bytes, digits)]
      OBVIOUS
    <3>4. /\ code' = [code EXCEPT ![o] = c] /\ temp_' = [temp_ EXCEPT ![o] = bytes]
          /\ tagOf' = tagOf /\ outputSize' = outputSize
      BY <1>4, <2>2, <3>1, <3>2, <3>3 DEF TotpCalculate
    <3>5. /\ bytes \in [1 .. TempSize -> Nat \cup Leftovers]
          /\ SubSeq(bytes, outputSize + 1, TempSize) = rest
      <4>1. /\ bytes \in [1 .. TempSize -> Nat \cup Leftovers]
            /\ SubSeq(bytes, outputSize + 1, TempSize) = Leftover(o)
        BY <3>2, CalculateKeeps
      <4> QED
        BY <3>2, <4>1
    <3>6. temp_' \in [Tokens -> [1 .. TempSize -> Nat \cup Leftovers]] /\ temp_'[o] = bytes
      BY <3>4, <3>5
    <3>7. \A q \in Tokens : Leftover(q)' = Leftover(q)
      <4>1. ASSUME NEW q \in Tokens PROVE Leftover(q)' = Leftover(q)
        <5>1. CASE q = o
          BY <3>2, <3>4, <3>5, <3>6, <5>1 DEF Leftover
        <5>2. CASE q # o
          BY <3>4, <5>2 DEF Leftover
        <5> QED
          BY <5>1, <5>2
      <4> QED
        BY <4>1
    <3>8. CodeOK(o)'
      <4>1. code'[o] = c /\ Leftover(o)' = rest
        BY <3>2, <3>4, <3>7
      <4>2. c.step = t /\ c.digits = digits /\ c.value = CodeOf(bytes, digits)
        BY <3>3
      <4>3. CodeOf(bytes, digits)' = CodeOf(bytes, digits)
        BY <3>4 DEF CodeOf
      <4> QED
        BY <2>2, <3>2, <3>4, <4>1, <4>2, <3>1 DEF CodeOK, CodeOf
    <3> QED
      BY <1>1, <3>4, <3>6, <3>7, <3>8
  <2> QED
    BY <2>1, <2>2
<1>5. ASSUME NEW o \in Tokens, TotpFails(o) PROVE TotpInv'
  BY <1>2, <1>5 DEF TotpFails
<1>6. CASE UNCHANGED totpVars
  BY <1>6 DEF totpVars, CodeOK, Leftover, CodeOf
<1> QED
  BY <1>3, <1>4, <1>5, <1>6 DEF TotpNext

\* Two objects with one key give one code for one time step and number of digits, for any
\* hash, whatever each calculated before; whatever its memory held if the digest has the
\* bytes at its own offset, and else if their memories held the same after it (TOTP.cpp).
THEOREM CodesAgree == TotpSpec => []TotpAgree
<1>1. TotpInv => TotpAgree
  <2> SUFFICES ASSUME TotpInv, NEW o \in Tokens, NEW q \in Tokens, code[o].digits # 0,
                      code[o].step = code[q].step, code[o].digits = code[q].digits,
                      WithinDigest(tagOf[code[o].step]) \/ Leftover(o) = Leftover(q)
               PROVE  code[o].value = code[q].value
    BY DEF TotpAgree
  <2>1. CodeOK(o) /\ CodeOK(q) /\ code[q].digits # 0
    BY DEF TotpInv
  <2>2. NoCode.digits = 0 /\ ZeroCode.digits = 0
    BY DEF NoCode, ZeroCode
  <2>3. PICK t \in Steps : t = code[o].step
    BY <2>1, <2>2 DEF CodeOK
  <2> DEFINE d == code[o].digits
  <2>4. /\ code[o].value = CodeOf(tagOf[t] \o Leftover(o), d)
        /\ code[q].value = CodeOf(tagOf[t] \o Leftover(q), d)
    BY <2>1, <2>2, <2>3 DEF CodeOK
  <2>5. CASE Leftover(o) = Leftover(q)
    BY <2>4, <2>5
  <2>6. CASE WithinDigest(tagOf[t])
    BY <2>4, <2>6, DigestBytesOnly
  <2> QED
    BY <2>3, <2>5, <2>6
<1> QED
  BY <1>1, TotpInitInv, TotpNextInv, PTL DEF TotpSpec

-----------------------------------------------------------------------------
(* HMAC: the hash calls. *)

HashObjects == {"hash", "iCtx", "oCtx"}

\* The members in the middle of a call.
HashObject(h) == [pieces : {h.pieces}, channel : HmacChannels]

IsMembers(m) ==
  m \in [hash : HashObject(m.hash), iCtx : HashObject(m.iCtx), oCtx : HashObject(m.oCtx),
         digest : {m.digest}, out : {m.out}, left : Nat, ok : BOOLEAN, ran : SUBSET HmacChannels]

\* A call on o leaves the other objects alone.
OnlyOn(o, m, r) ==
  /\ IsMembers(r)
  /\ \A p \in HashObjects \ {o} : r[p] = m[p]
  /\ r.ok => m.ok
  /\ ~m.ok => r = m

\* What the jobs ran on: the channel of the object.
RanOn(o, m, r) == r.ran = m.ran \/ r.ran = m.ran \cup {m[o].channel}

Fed(o, x, m, r) ==
  /\ OnlyOn(o, m, r) /\ RanOn(o, m, r) /\ r.digest = m.digest /\ r.out = m.out
  /\ r.ok => r[o] = [pieces |-> Append(m[o].pieces, x), channel |-> m[o].channel]

LEMMA FeedFeeds ==
  ASSUME NEW m, IsMembers(m), NEW o \in HashObjects, NEW x
  PROVE  Fed(o, x, m, Feed(m, o, x))
<1>0. ZeroChannel \in HmacChannels
  BY HmacAssumption
<1>1. CASE o = "hash"
  <2>1. CASE ~m.ok
    BY <1>1, <2>1 DEF Feed, HashCall, Fed, OnlyOn, RanOn, IsMembers, HashObject, HashObjects
  <2>2. CASE m.ok /\ m.left = 0
    BY <1>0, <1>1, <2>2 DEF Feed, HashCall, Fed, OnlyOn, RanOn, IsMembers, HashObject,
       HashObjects, ClearedHash
  <2>3. CASE m.ok /\ m.left # 0
    <3>1. PICK y : y = Append(m.hash.pieces, x)
      OBVIOUS
    <3>2. PICK r : r = Feed(m, o, x)
      OBVIOUS
    <3>3. r = [hash |-> [pieces |-> y, channel |-> m.hash.channel], iCtx |-> m.iCtx, oCtx |-> m.oCtx, digest |-> m.digest,
              out |-> m.out, left |-> m.left - 1, ok |-> m.ok, ran |-> m.ran \cup {m.hash.channel}]
      BY <1>1, <2>3, <3>1, <3>2 DEF Feed, HashCall, IsMembers, HashObject
    <3>4. m.hash.channel \in HmacChannels /\ m.ran \cup {m.hash.channel} \in SUBSET HmacChannels
          /\ m.left - 1 \in Nat
      BY <2>3 DEF IsMembers, HashObject
    <3>5. IsMembers(r)
      BY <3>3, <3>4 DEF IsMembers, HashObject
    <3>6. OnlyOn(o, m, r)
      BY <1>1, <2>3, <3>3, <3>5 DEF OnlyOn, HashObjects
    <3>7. RanOn(o, m, r)
      BY <1>1, <3>3 DEF RanOn
    <3>8. r[o] = [pieces |-> Append(m[o].pieces, x), channel |-> m[o].channel]
      BY <1>1, <3>1, <3>3, Zenon
    <3>9. r.digest = m.digest /\ r.out = m.out
      BY <3>3
    <3> QED
      BY <3>2, <3>6, <3>7, <3>8, <3>9 DEF Fed
  <2> QED
    BY <2>1, <2>2, <2>3
<1>2. CASE o = "iCtx"
  <2>1. CASE ~m.ok
    BY <1>2, <2>1 DEF Feed, HashCall, Fed, OnlyOn, RanOn, IsMembers, HashObject, HashObjects
  <2>2. CASE m.ok /\ m.left = 0
    BY <1>0, <1>2, <2>2 DEF Feed, HashCall, Fed, OnlyOn, RanOn, IsMembers, HashObject,
       HashObjects, ClearedHash
  <2>3. CASE m.ok /\ m.left # 0
    <3>1. PICK y : y = Append(m.iCtx.pieces, x)
      OBVIOUS
    <3>2. PICK r : r = Feed(m, o, x)
      OBVIOUS
    <3>3. r = [hash |-> m.hash, iCtx |-> [pieces |-> y, channel |-> m.iCtx.channel], oCtx |-> m.oCtx, digest |-> m.digest,
              out |-> m.out, left |-> m.left - 1, ok |-> m.ok, ran |-> m.ran \cup {m.iCtx.channel}]
      BY <1>2, <2>3, <3>1, <3>2 DEF Feed, HashCall, IsMembers, HashObject
    <3>4. m.iCtx.channel \in HmacChannels /\ m.ran \cup {m.iCtx.channel} \in SUBSET HmacChannels
          /\ m.left - 1 \in Nat
      BY <2>3 DEF IsMembers, HashObject
    <3>5. IsMembers(r)
      BY <3>3, <3>4 DEF IsMembers, HashObject
    <3>6. OnlyOn(o, m, r)
      BY <1>2, <2>3, <3>3, <3>5 DEF OnlyOn, HashObjects
    <3>7. RanOn(o, m, r)
      BY <1>2, <3>3 DEF RanOn
    <3>8. r[o] = [pieces |-> Append(m[o].pieces, x), channel |-> m[o].channel]
      BY <1>2, <3>1, <3>3, Zenon
    <3>9. r.digest = m.digest /\ r.out = m.out
      BY <3>3
    <3> QED
      BY <3>2, <3>6, <3>7, <3>8, <3>9 DEF Fed
  <2> QED
    BY <2>1, <2>2, <2>3
<1>3. CASE o = "oCtx"
  <2>1. CASE ~m.ok
    BY <1>3, <2>1 DEF Feed, HashCall, Fed, OnlyOn, RanOn, IsMembers, HashObject, HashObjects
  <2>2. CASE m.ok /\ m.left = 0
    BY <1>0, <1>3, <2>2 DEF Feed, HashCall, Fed, OnlyOn, RanOn, IsMembers, HashObject,
       HashObjects, ClearedHash
  <2>3. CASE m.ok /\ m.left # 0
    <3>1. PICK y : y = Append(m.oCtx.pieces, x)
      OBVIOUS
    <3>2. PICK r : r = Feed(m, o, x)
      OBVIOUS
    <3>3. r = [hash |-> m.hash, iCtx |-> m.iCtx, oCtx |-> [pieces |-> y, channel |-> m.oCtx.channel], digest |-> m.digest,
              out |-> m.out, left |-> m.left - 1, ok |-> m.ok, ran |-> m.ran \cup {m.oCtx.channel}]
      BY <1>3, <2>3, <3>1, <3>2 DEF Feed, HashCall, IsMembers, HashObject
    <3>4. m.oCtx.channel \in HmacChannels /\ m.ran \cup {m.oCtx.channel} \in SUBSET HmacChannels
          /\ m.left - 1 \in Nat
      BY <2>3 DEF IsMembers, HashObject
    <3>5. IsMembers(r)
      BY <3>3, <3>4 DEF IsMembers, HashObject
    <3>6. OnlyOn(o, m, r)
      BY <1>3, <2>3, <3>3, <3>5 DEF OnlyOn, HashObjects
    <3>7. RanOn(o, m, r)
      BY <1>3, <3>3 DEF RanOn
    <3>8. r[o] = [pieces |-> Append(m[o].pieces, x), channel |-> m[o].channel]
      BY <1>3, <3>1, <3>3, Zenon
    <3>9. r.digest = m.digest /\ r.out = m.out
      BY <3>3
    <3> QED
      BY <3>2, <3>6, <3>7, <3>8, <3>9 DEF Fed
  <2> QED
    BY <2>1, <2>2, <2>3
<1> QED
  BY <1>1, <1>2, <1>3 DEF HashObjects

Restarted(o, c, m, r) ==
  /\ OnlyOn(o, m, r) /\ r.ran = m.ran /\ r.digest = m.digest /\ r.out = m.out
  /\ r.ok => r[o] = [pieces |-> <<>>, channel |-> c]

LEMMA RestartRestarts ==
  ASSUME NEW m, IsMembers(m), NEW o \in HashObjects, NEW c \in HmacChannels
  PROVE  Restarted(o, c, m, Restart(m, o, c))
<1>1. CASE o = "hash"
  BY <1>1 DEF Restart, Restarted, OnlyOn, IsMembers, HashObject, HashObjects
<1>2. CASE o = "iCtx"
  BY <1>2 DEF Restart, Restarted, OnlyOn, IsMembers, HashObject, HashObjects
<1>3. CASE o = "oCtx"
  BY <1>3 DEF Restart, Restarted, OnlyOn, IsMembers, HashObject, HashObjects
<1> QED
  BY <1>1, <1>2, <1>3 DEF HashObjects

Copied(from, m, r) ==
  /\ OnlyOn("hash", m, r) /\ r.ran = m.ran /\ r.digest = m.digest /\ r.out = m.out
  /\ r.ok => r.hash = m[from]

LEMMA CopyCopies ==
  ASSUME NEW m, IsMembers(m), NEW from \in {"iCtx", "oCtx"}
  PROVE  Copied(from, m, Copy(m, "hash", from))
<1>1. CASE from = "iCtx"
  BY <1>1 DEF Copy, Copied, OnlyOn, IsMembers, HashObject, HashObjects
<1>2. CASE from = "oCtx"
  BY <1>2 DEF Copy, Copied, OnlyOn, IsMembers, HashObject, HashObjects
<1> QED
  BY <1>1, <1>2

Finalized(d, m, r) ==
  /\ OnlyOn("hash", m, r) /\ RanOn("hash", m, r)
  /\ d = "digest" => r.out = m.out /\ (r.ok => r.digest = Digest(m.hash.pieces))
  /\ d = "out" => r.out = IF r.ok THEN Digest(m.hash.pieces) ELSE m.out

LEMMA FinalizeFinalizes ==
  ASSUME NEW m, IsMembers(m), NEW d \in {"digest", "out"}
  PROVE  Finalized(d, m, Finalize(m, "hash", d))
<1>0. ZeroChannel \in HmacChannels
  BY HmacAssumption
<1>1. CASE d = "digest"
  <2>1. CASE ~m.ok
    BY <1>1, <2>1 DEF Finalize, HashCall, Finalized, OnlyOn, RanOn, IsMembers, HashObject, HashObjects
  <2>2. CASE m.ok /\ m.left = 0
    BY <1>0, <1>1, <2>2 DEF Finalize, HashCall, Finalized, OnlyOn, RanOn, IsMembers, HashObject,
       HashObjects, ClearedHash
  <2>3. CASE m.ok /\ m.left # 0
    <3>1. PICK y : y = Digest(m.hash.pieces)
      OBVIOUS
    <3>2. PICK r : r = Finalize(m, "hash", d)
      OBVIOUS
    <3>3. r = [hash |-> ClearedHash, iCtx |-> m.iCtx, oCtx |-> m.oCtx, digest |-> y,
              out |-> m.out, left |-> m.left - 1, ok |-> m.ok, ran |-> m.ran \cup {m.hash.channel}]
      BY <1>1, <2>3, <3>1, <3>2 DEF Finalize, HashCall, IsMembers, HashObject
    <3>4. m.hash.channel \in HmacChannels /\ m.ran \cup {m.hash.channel} \in SUBSET HmacChannels
          /\ m.left - 1 \in Nat
      BY <2>3 DEF IsMembers, HashObject
    <3>5. IsMembers(r)
      BY <1>0, <3>3, <3>4 DEF ClearedHash, IsMembers, HashObject
    <3> QED
      BY <1>1, <2>3, <3>1, <3>2, <3>3, <3>5 DEF Finalized, OnlyOn, RanOn, IsMembers, HashObject,
         HashObjects
  <2> QED
    BY <2>1, <2>2, <2>3
<1>2. CASE d = "out"
  <2>1. CASE ~m.ok
    BY <1>2, <2>1 DEF Finalize, HashCall, Finalized, OnlyOn, RanOn, IsMembers, HashObject, HashObjects
  <2>2. CASE m.ok /\ m.left = 0
    BY <1>0, <1>2, <2>2 DEF Finalize, HashCall, Finalized, OnlyOn, RanOn, IsMembers, HashObject,
       HashObjects, ClearedHash
  <2>3. CASE m.ok /\ m.left # 0
    <3>1. PICK y : y = Digest(m.hash.pieces)
      OBVIOUS
    <3>2. PICK r : r = Finalize(m, "hash", d)
      OBVIOUS
    <3>3. r = [hash |-> ClearedHash, iCtx |-> m.iCtx, oCtx |-> m.oCtx, digest |-> m.digest,
              out |-> y, left |-> m.left - 1, ok |-> m.ok, ran |-> m.ran \cup {m.hash.channel}]
      BY <1>2, <2>3, <3>1, <3>2 DEF Finalize, HashCall, IsMembers, HashObject
    <3>4. m.hash.channel \in HmacChannels /\ m.ran \cup {m.hash.channel} \in SUBSET HmacChannels
          /\ m.left - 1 \in Nat
      BY <2>3 DEF IsMembers, HashObject
    <3>5. IsMembers(r)
      BY <1>0, <3>3, <3>4 DEF ClearedHash, IsMembers, HashObject
    <3> QED
      BY <1>2, <2>3, <3>1, <3>2, <3>3, <3>5 DEF Finalized, OnlyOn, RanOn, IsMembers, HashObject,
         HashObjects
  <2> QED
    BY <2>1, <2>2, <2>3
<1> QED
  BY <1>1, <1>2

(* The calls of the class. *)

KeyedUp(k, c, m, r) ==
  /\ IsMembers(r) /\ r.out = m.out /\ r.ran \subseteq m.ran \cup {c}
  /\ r.ok => /\ r.iCtx = [pieces |-> <<IPad(k)>>, channel |-> c]
             /\ r.oCtx = [pieces |-> <<OPad(k)>>, channel |-> c]

\* initKey() sets both contexts or fails, and its jobs run on the channel it is given.
LEMMA KeyUpKeys ==
  ASSUME NEW m, IsMembers(m), NEW k, NEW c \in HmacChannels
  PROVE  KeyedUp(k, c, m, KeyUp(m, k, c))
<1>1. PICK pad1, pad2 : pad1 = IPad(k) /\ pad2 = OPad(k)
  OBVIOUS
<1>2. {"hash", "iCtx", "oCtx"} = HashObjects
  BY DEF HashObjects
<1>3. PICK a : a = Restart(m, "hash", c)
  OBVIOUS
<1>4. PICK b : b = Feed(a, "hash", k)
  OBVIOUS
<1>5. PICK d : d = Finalize(b, "hash", "digest")
  OBVIOUS
<1>6. PICK e : e = IF k \in LongKeys THEN d ELSE m
  OBVIOUS
<1>7. PICK f : f = Restart(e, "iCtx", c)
  OBVIOUS
<1>8. PICK g : g = Feed(f, "iCtx", pad1)
  OBVIOUS
<1>9. PICK h : h = Restart(g, "oCtx", c)
  OBVIOUS
<1>10. PICK r : r = Feed(h, "oCtx", pad2)
  OBVIOUS
<1>11. KeyUp(m, k, c) = r
  BY <1>1, <1>3, <1>4, <1>5, <1>6, <1>7, <1>8, <1>9, <1>10 DEF KeyUp, InnerKeyed
<1>12. Restarted("hash", c, m, a)
  BY <1>2, <1>3, RestartRestarts
<1>13. Fed("hash", k, a, b)
  BY <1>2, <1>4, <1>12, FeedFeeds DEF Restarted, OnlyOn
<1>14. Finalized("digest", b, d)
  BY <1>5, <1>13, FinalizeFinalizes DEF Fed, OnlyOn
<1>15. IsMembers(e) /\ e.out = m.out /\ e.ran \subseteq m.ran \cup {c}
  <2>1. CASE k \in LongKeys
    <3>1. a.ran = m.ran /\ a.out = m.out /\ (a.ok => a.hash.channel = c)
      BY <1>12 DEF Restarted
    <3>2. b.out = m.out /\ b.ran \subseteq m.ran \cup {c} /\ (b.ok => b.hash.channel = c)
      BY <1>13, <3>1 DEF Fed, OnlyOn, RanOn
    <3>3. d.out = m.out /\ d.ran \subseteq m.ran \cup {c} /\ IsMembers(d)
      BY <1>14, <3>2 DEF Finalized, OnlyOn, RanOn
    <3> QED
      BY <1>6, <2>1, <3>3
  <2> QED
    BY <1>6, <2>1
<1>16. Restarted("iCtx", c, e, f)
  BY <1>2, <1>7, <1>15, RestartRestarts
<1>17. Fed("iCtx", pad1, f, g)
  BY <1>2, <1>8, <1>16, FeedFeeds DEF Restarted, OnlyOn
<1>18. Restarted("oCtx", c, g, h)
  BY <1>2, <1>9, <1>17, RestartRestarts DEF Fed, OnlyOn
<1>19. Fed("oCtx", pad2, h, r)
  BY <1>2, <1>10, <1>18, FeedFeeds DEF Restarted, OnlyOn
<1>20. /\ f.out = m.out /\ f.ran \subseteq m.ran \cup {c}
       /\ f.ok => f.iCtx = [pieces |-> <<>>, channel |-> c]
  BY <1>15, <1>16 DEF Restarted
<1>21. /\ g.out = m.out /\ g.ran \subseteq m.ran \cup {c}
       /\ g.ok => g.iCtx = [pieces |-> <<pad1>>, channel |-> c]
  <2>1. g.ok => f.ok /\ g.iCtx = [pieces |-> Append(f.iCtx.pieces, pad1), channel |-> f.iCtx.channel]
    BY <1>17 DEF Fed, OnlyOn
  <2>2. g.out = m.out /\ g.ran \subseteq m.ran \cup {c}
    BY <1>17, <1>20 DEF Fed, OnlyOn, RanOn
  <2>3. Append(<<>>, pad1) = <<pad1>>
    OBVIOUS
  <2> QED
    BY <1>20, <2>1, <2>2, <2>3
<1>22. /\ h.out = m.out /\ h.ran \subseteq m.ran \cup {c}
       /\ h.ok => /\ h.iCtx = [pieces |-> <<pad1>>, channel |-> c]
                  /\ h.oCtx = [pieces |-> <<>>, channel |-> c]
  <2>1. h.ok => g.ok /\ h.iCtx = g.iCtx
    BY <1>2, <1>18 DEF Restarted, OnlyOn
  <2> QED
    BY <1>18, <1>21, <2>1 DEF Restarted
<1>23. /\ r.out = m.out /\ r.ran \subseteq m.ran \cup {c}
       /\ r.ok => /\ r.iCtx = [pieces |-> <<pad1>>, channel |-> c]
                  /\ r.oCtx = [pieces |-> <<pad2>>, channel |-> c]
  <2>1. r.ok => /\ h.ok /\ r.iCtx = h.iCtx
                /\ r.oCtx = [pieces |-> Append(h.oCtx.pieces, pad2), channel |-> h.oCtx.channel]
    BY <1>2, <1>19 DEF Fed, OnlyOn
  <2>2. r.out = m.out /\ r.ran \subseteq m.ran \cup {c}
    BY <1>19, <1>22 DEF Fed, OnlyOn, RanOn
  <2>3. Append(<<>>, pad2) = <<pad2>>
    OBVIOUS
  <2> QED
    BY <1>22, <2>1, <2>2, <2>3
<1>24. IsMembers(r)
  BY <1>19 DEF Fed, OnlyOn
<1> QED
  BY <1>1, <1>11, <1>23, <1>24 DEF KeyedUp

\* The end of a calculation leaves the contexts alone, and its jobs run on the channels
\* of the message and of the key.
Finished(m, r) ==
  /\ IsMembers(r) /\ r.iCtx = m.iCtx /\ r.oCtx = m.oCtx
  /\ r.ran \subseteq m.ran \cup {m.hash.channel, m.oCtx.channel}
  /\ r.out = IF r.ok THEN Digest(Append(m.oCtx.pieces, Digest(m.hash.pieces))) ELSE m.out
  /\ r.ok => m.ok

LEMMA OuterFinishes ==
  ASSUME NEW m, IsMembers(m)
  PROVE  Finished(m, Outer(m))
<1>1. {"hash", "iCtx", "oCtx"} = HashObjects
  BY DEF HashObjects
<1>2. PICK a : a = Finalize(m, "hash", "digest")
  OBVIOUS
<1>3. PICK b : b = Copy(a, "hash", "oCtx")
  OBVIOUS
<1>4. PICK x : x = a.digest
  OBVIOUS
<1>5. PICK d : d = Feed(b, "hash", x)
  OBVIOUS
<1>6. PICK r : r = Finalize(d, "hash", "out")
  OBVIOUS
<1>7. Outer(m) = r
  BY <1>2, <1>3, <1>4, <1>5, <1>6 DEF Outer
<1>8. Finalized("digest", m, a)
  BY <1>2, FinalizeFinalizes
<1>9. Copied("oCtx", a, b)
  BY <1>3, <1>8, CopyCopies DEF Finalized, OnlyOn
<1>10. Fed("hash", x, b, d)
  BY <1>1, <1>5, <1>9, FeedFeeds DEF Copied, OnlyOn
<1>11. Finalized("out", d, r)
  BY <1>6, <1>10, FinalizeFinalizes DEF Fed, OnlyOn
<1>12. /\ a.iCtx = m.iCtx /\ a.oCtx = m.oCtx /\ a.out = m.out
       /\ a.ran \subseteq m.ran \cup {m.hash.channel}
       /\ a.ok => m.ok /\ x = Digest(m.hash.pieces)
  BY <1>1, <1>4, <1>8 DEF Finalized, OnlyOn, RanOn
<1>13. /\ b.iCtx = m.iCtx /\ b.oCtx = m.oCtx /\ b.out = m.out /\ b.ran = a.ran
       /\ b.ok => a.ok /\ b.hash = m.oCtx
  BY <1>1, <1>9, <1>12 DEF Copied, OnlyOn
<1>14. /\ d.iCtx = m.iCtx /\ d.oCtx = m.oCtx /\ d.out = m.out
       /\ d.ok => b.ok
       /\ d.ok => d.hash = [pieces |-> Append(b.hash.pieces, x), channel |-> b.hash.channel]
       /\ ~b.ok => d = b
       /\ d.ran \subseteq b.ran \cup {b.hash.channel}
  BY <1>1, <1>10, <1>13 DEF Fed, OnlyOn, RanOn
<1>15. d.ran \subseteq m.ran \cup {m.hash.channel, m.oCtx.channel}
  BY <1>12, <1>13, <1>14
<1>16. d.ok => /\ d.hash.channel = m.oCtx.channel
               /\ d.hash.pieces = Append(m.oCtx.pieces, Digest(m.hash.pieces))
  BY <1>12, <1>13, <1>14
<1>17. /\ r.iCtx = m.iCtx /\ r.oCtx = m.oCtx /\ IsMembers(r)
       /\ r.ok => d.ok
       /\ r.out = IF r.ok THEN Digest(d.hash.pieces) ELSE d.out
       /\ r.ran \subseteq d.ran \cup {d.hash.channel}
       /\ ~d.ok => r = d
  BY <1>1, <1>11, <1>14 DEF Finalized, OnlyOn, RanOn
<1>18. r.ran \subseteq m.ran \cup {m.hash.channel, m.oCtx.channel}
  BY <1>15, <1>16, <1>17
<1>19. r.out = IF r.ok THEN Digest(Append(m.oCtx.pieces, Digest(m.hash.pieces))) ELSE m.out
  BY <1>14, <1>16, <1>17
<1>20. r.ok => m.ok
  BY <1>12, <1>13, <1>14, <1>17
<1> QED
  BY <1>7, <1>17, <1>18, <1>19, <1>20 DEF Finished

-----------------------------------------------------------------------------
(* Induction over the inputs of calculate(). *)

\* The library's theorem on least elements, as induction over a set of numbers.
LEMMA SetInduction ==
  ASSUME NEW S \in SUBSET Nat, 0 \in S, \A n \in S : n + 1 \in S
  PROVE  S = Nat
<1> DEFINE R == OpToRel(<, Nat)
<1>1. IsWellFoundedOn(R, Nat)
  BY NatLessThanWellFounded
<1>2. \A m, n \in Nat : m < n => <<m, n>> \in R
  BY DEF OpToRel
<1> HIDE DEF R
<1> SUFFICES ASSUME Nat \ S # {} PROVE FALSE
  OBVIOUS
<1>3. PICK rest : rest = Nat \ S
  OBVIOUS
<1>4. PICK n \in rest : \A m \in rest : <<m, n>> \notin R
  BY <1>1, <1>3, WFMin
<1>5. n # 0 /\ n \in Nat /\ n - 1 \in Nat /\ n - 1 < n
  BY <1>3, <1>4
<1>6. n - 1 \notin rest
  BY <1>2, <1>4, <1>5
<1> QED
  BY <1>3, <1>4, <1>5, <1>6

\* The members after each of the first n inputs, from m.
Feeding(m, pieces, n, done) ==
  done = [i \in 0 .. n |-> IF i = 0 THEN m ELSE FeedInput(done[i - 1], pieces[i])]

LEMMA FeedAllIsDefined ==
  ASSUME NEW m, NEW pieces
  PROVE  \A n \in Nat : \E done : Feeding(m, pieces, n, done)
<1> DEFINE S == {n \in Nat : \E done : Feeding(m, pieces, n, done)}
<1>1. 0 \in S
  <2>1. PICK done : done = [i \in 0 .. 0 |-> m]
    OBVIOUS
  <2>2. Feeding(m, pieces, 0, done)
    BY <2>1 DEF Feeding
  <2> QED
    BY <2>2
<1>2. ASSUME NEW n \in S PROVE n + 1 \in S
  <2>1. n \in Nat
    OBVIOUS
  <2>2. PICK done : Feeding(m, pieces, n, done)
    OBVIOUS
  <2>3. PICK more : more = [i \in 0 .. n + 1 |->
                              IF i <= n THEN done[i] ELSE FeedInput(done[n], pieces[n + 1])]
    OBVIOUS
  <2>4. \A i \in 0 .. n : done[i] = IF i = 0 THEN m ELSE FeedInput(done[i - 1], pieces[i])
    BY <2>2 DEF Feeding
  <2>5. ASSUME NEW i \in 0 .. n + 1
        PROVE  more[i] = IF i = 0 THEN m ELSE FeedInput(more[i - 1], pieces[i])
    <3>1. CASE i <= n
      <4>1. i \in 0 .. n /\ (i # 0 => i - 1 \in 0 .. n)
        BY <2>1, <3>1
      <4> QED
        BY <2>1, <2>3, <2>4, <4>1
    <3>2. CASE i = n + 1
      <4>1. more[i] = FeedInput(done[n], pieces[n + 1]) /\ more[n] = done[n] /\ i # 0 /\ i - 1 = n
        BY <2>1, <2>3, <3>2
      <4> QED
        BY <3>2, <4>1
    <3> QED
      BY <2>1, <3>1, <3>2
  <2>6. more = [i \in 0 .. n + 1 |-> IF i = 0 THEN m ELSE FeedInput(more[i - 1], pieces[i])]
    BY <2>3, <2>5
  <2>7. Feeding(m, pieces, n + 1, more)
    BY <2>6 DEF Feeding
  <2> QED
    BY <2>1, <2>7
<1> HIDE DEF S
<1>3. S \in SUBSET Nat
  BY DEF S
<1>4. S = Nat
  BY <1>1, <1>2, <1>3, SetInduction
<1> QED
  BY <1>4 DEF S

\* What the first n inputs leave: the pieces that are not empty, or nothing.
TakenIn(m, n, r) ==
  /\ IsMembers(r) /\ r.iCtx = m.iCtx /\ r.oCtx = m.oCtx /\ r.out = m.out
  /\ r.ran \subseteq m.ran \cup {m.hash.channel}
  /\ r.ok => /\ m.ok /\ r.hash.channel = m.hash.channel
             /\ \E p \in Seq(Pieces \ {NoPiece}) : Len(p) <= n /\ r.hash.pieces = m.hash.pieces \o p

LEMMA FeedInputFeeds ==
  ASSUME NEW m, IsMembers(m), NEW x, NEW r, r = FeedInput(m, x)
  PROVE  /\ IsMembers(r) /\ r.iCtx = m.iCtx /\ r.oCtx = m.oCtx /\ r.out = m.out
         /\ r.ran \subseteq m.ran \cup {m.hash.channel}
         /\ r.ok => m.ok
         /\ r.ok => r.hash.channel = m.hash.channel
         /\ r.ok /\ x # NoPiece => r.hash.pieces = Append(m.hash.pieces, x)
         /\ x = NoPiece \/ ~m.ok => r = m
<1>0. {"hash", "iCtx", "oCtx"} = HashObjects
  BY DEF HashObjects
<1>1. CASE x = NoPiece
  BY <1>1 DEF FeedInput
<1>2. CASE x # NoPiece
  <2>1. Fed("hash", x, m, r)
    BY <1>0, <1>2, FeedFeeds DEF FeedInput
  <2> QED
    BY <1>0, <1>2, <2>1 DEF Fed, OnlyOn, RanOn
<1> QED
  BY <1>1, <1>2

LEMMA FeedAllFeeds ==
  ASSUME NEW m, IsMembers(m), NEW first, m.hash.pieces = <<first>>,
         NEW pieces \in Seq(Pieces)
  PROVE  TakenIn(m, Len(pieces), FeedAll(m, pieces))
<1> DEFINE N == Len(pieces)
<1>0. N \in Nat /\ pieces \in [1 .. N -> Pieces]
  OBVIOUS
<1> HIDE DEF N
<1>1. PICK done : /\ FeedAll(m, pieces) = done[N]
                  /\ Feeding(m, pieces, N, done)
  <2>1. \E done : Feeding(m, pieces, N, done)
    BY <1>0, FeedAllIsDefined
  <2> QED
    BY <2>1 DEF FeedAll, Feeding, N
<1>2. \A i \in 0 .. N : done[i] = IF i = 0 THEN m ELSE FeedInput(done[i - 1], pieces[i])
  BY <1>1 DEF Feeding
<1> DEFINE S == {n \in Nat : n <= N => TakenIn(m, n, done[n])}
<1>3. 0 \in S
  <2>1. done[0] = m
    BY <1>0, <1>2
  <2>2. <<>> \in Seq(Pieces \ {NoPiece}) /\ Len(<<>>) <= 0
    OBVIOUS
  <2>3. m.hash.pieces = m.hash.pieces \o <<>>
    OBVIOUS
  <2>4. TakenIn(m, 0, m)
    BY <2>2, <2>3 DEF TakenIn
  <2> QED
    BY <2>1, <2>4
<1>4. ASSUME NEW n \in S PROVE n + 1 \in S
  <2>0. n \in Nat
    OBVIOUS
  <2> SUFFICES ASSUME n + 1 <= N PROVE TakenIn(m, n + 1, done[n + 1])
    BY <2>0
  <2>1. PICK q : q = done[n]
    OBVIOUS
  <2>2. PICK r : r = done[n + 1]
    OBVIOUS
  <2>3. PICK x \in Pieces : x = pieces[n + 1]
    BY <1>0, <2>0
  <2>4. TakenIn(m, n, q)
    BY <1>0, <2>0, <2>1
  <2>5. r = FeedInput(q, x)
    BY <1>0, <1>2, <2>0, <2>1, <2>2, <2>3
  <2>6. /\ IsMembers(r) /\ r.iCtx = q.iCtx /\ r.oCtx = q.oCtx /\ r.out = q.out
        /\ r.ran \subseteq q.ran \cup {q.hash.channel}
        /\ r.ok => q.ok
        /\ r.ok => r.hash.channel = q.hash.channel
        /\ r.ok /\ x # NoPiece => r.hash.pieces = Append(q.hash.pieces, x)
        /\ x = NoPiece \/ ~q.ok => r = q
    BY <2>4, <2>5, FeedInputFeeds DEF TakenIn
  <2>7. r.ran \subseteq m.ran \cup {m.hash.channel}
    BY <2>4, <2>6 DEF TakenIn
  <2>8. ASSUME r.ok
        PROVE  \E p \in Seq(Pieces \ {NoPiece}) : /\ Len(p) <= n + 1
                                                  /\ r.hash.pieces = m.hash.pieces \o p
    <3>1. PICK p \in Seq(Pieces \ {NoPiece}) : Len(p) <= n /\ q.hash.pieces = m.hash.pieces \o p
      BY <2>4, <2>6, <2>8 DEF TakenIn
    <3>2. CASE x = NoPiece
      BY <2>0, <2>6, <3>1, <3>2
    <3>3. CASE x # NoPiece
      <4>1. PICK p1 : p1 = Append(p, x)
        OBVIOUS
      <4>2. p1 \in Seq(Pieces \ {NoPiece}) /\ Len(p1) <= n + 1
        BY <2>0, <3>1, <3>3, <4>1
      <4>3. r.hash.pieces = Append(<<first>> \o p, x)
        BY <2>6, <2>8, <3>1, <3>3
      <4>4. Append(<<first>> \o p, x) = <<first>> \o p1
        BY <4>1
      <4> QED
        BY <4>2, <4>3, <4>4
    <3> QED
      BY <3>2, <3>3
  <2> QED
    BY <2>2, <2>4, <2>6, <2>7, <2>8 DEF TakenIn
<1> HIDE DEF S
<1>5. S \in SUBSET Nat
  BY DEF S
<1>6. S = Nat
  BY <1>3, <1>4, <1>5, SetInduction
<1> QED
  BY <1>0, <1>1, <1>6 DEF S, N

-----------------------------------------------------------------------------
(* The invariant of HMAC. *)

\* Between two calls the contexts hold the accepted key, and while a message is open
\* the running hash holds the padded key and what the message has so far.
HmacInv ==
  /\ IsMembers(hmac)
  /\ keyed \in HmacKeys \cup {NoKey} /\ isOpen \in BOOLEAN
  /\ wanted \in [key : HmacChannels, message : HmacChannels]
  /\ keyed # NoKey =>
       /\ hmac.iCtx = [pieces |-> <<IPad(keyed)>>, channel |-> wanted.key]
       /\ hmac.oCtx = [pieces |-> <<OPad(keyed)>>, channel |-> wanted.key]
  /\ isOpen =>
       /\ keyed # NoKey /\ tag = NoTag
       /\ fed \in Seq(Pieces \ {NoPiece}) /\ Len(fed) <= MaxPieces
       /\ hmac.hash = [pieces |-> <<IPad(keyed)>> \o fed, channel |-> wanted.message]
  /\ jobs \subseteq {wanted.key, wanted.message}

\* A call starts from the members, and the caller sees what it makes of them.
Begun(m) ==
  /\ IsMembers(m) /\ m.ok /\ m.ran = {} /\ m.out = NoTag
  /\ m.hash = hmac.hash /\ m.iCtx = hmac.iCtx /\ m.oCtx = hmac.oCtx

LEMMA CallBegins ==
  ASSUME IsMembers(hmac), NEW n \in Nat
  PROVE  Begun(Call(n))
BY DEF Call, Begun, IsMembers, HashObject

LEMMA ReturnReturns ==
  ASSUME NEW m, IsMembers(m), Returned(m)
  PROVE  /\ IsMembers(hmac)'
         /\ hmac'.hash = m.hash /\ hmac'.iCtx = m.iCtx /\ hmac'.oCtx = m.oCtx
         /\ tag' = m.out /\ jobs' = m.ran
<1>1. hmac' = [hash |-> m.hash, iCtx |-> m.iCtx, oCtx |-> m.oCtx, digest |-> NoTag,
               out |-> NoTag, left |-> 0, ok |-> TRUE, ran |-> {}]
  BY DEF IsMembers, Returned
<1>2. IsMembers(hmac')
  BY <1>1 DEF IsMembers, HashObject
<1> QED
  BY <1>1, <1>2 DEF Returned, IsMembers, HashObject

\* The pieces of a message after the padded key.
LEMMA MessageAfterPad ==
  ASSUME NEW pad, NEW p \in Seq(Pieces \ {NoPiece})
  PROVE  /\ Tail(<<pad>> \o p) = p
         /\ \A x \in Pieces \ {NoPiece} : Append(<<pad>> \o p, x) = <<pad>> \o Append(p, x)
         /\ <<pad>> \o <<>> = <<pad>>
<1>1. <<pad>> \o <<>> = <<pad>>
  OBVIOUS
<1>2. Tail(<<pad>> \o p) = p
  <2>1. PICK s : s = <<pad>> \o p
    OBVIOUS
  <2>2. PICK U : U = (Pieces \ {NoPiece}) \cup {pad}
    OBVIOUS
  <2>3. p \in Seq(U) /\ <<pad>> \in Seq(U)
    BY <2>2
  <2>4. s \in Seq(U) /\ Len(s) = 1 + Len(p) /\ \A i \in 1 .. Len(p) : s[i + 1] = p[i]
    BY <2>1, <2>3
  <2>5. s # <<>> /\ Len(p) \in Nat
    BY <2>3, <2>4
  <2>6. Tail(s) \in Seq(U) /\ Len(Tail(s)) = Len(p) /\ \A i \in 1 .. Len(p) : Tail(s)[i] = p[i]
    BY <2>4, <2>5
  <2>7. Tail(s) = p
    BY <2>3, <2>6
  <2> QED
    BY <2>1, <2>7
<1> QED
  BY <1>1, <1>2

\* The abstract key is the accepted one.
LEMMA KeysApart ==
  ASSUME NEW k \in HmacKeys, hmac.iCtx.pieces = <<IPad(k)>>, hmac.oCtx.pieces = <<OPad(k)>>
  PROVE  KeyHeld = k
<1>1. k \in Accepted
  BY DEF Accepted
<1>2. ASSUME NEW l \in Accepted PROVE l = k
  <2>1. l \in HmacKeys /\ <<IPad(l)>> = <<IPad(k)>>
    BY DEF Accepted
  <2>2. <<"ipad", KeyBlock(l)>> = <<"ipad", KeyBlock(k)>>
    BY <2>1 DEF IPad
  <2>3. KeyBlock(l) = KeyBlock(k)
    BY <2>2
  <2> QED
    BY <2>1, <2>3, HmacKeysAssumption
<1>3. Accepted = {k}
  BY <1>1, <1>2
<1> QED
  BY <1>3 DEF KeyHeld

LEMMA HmacInitInv == HmacInit => HmacInv
<1> SUFFICES ASSUME HmacInit PROVE HmacInv
  OBVIOUS
<1>1. ZeroChannel \in HmacChannels
  BY HmacAssumption
<1>2. IsMembers(hmac)
  BY <1>1 DEF HmacInit, ClearedHash, IsMembers, HashObject
<1> QED
  BY <1>1, <1>2 DEF HmacInit, HmacInv

\* What the steps do, in the terms of the invariant.
Keying(k, c) ==
  /\ keyed' \in {k, NoKey} /\ ~isOpen' /\ fed' = <<>> /\ tag' = NoTag

Taking(x) ==
  /\ isOpen /\ UNCHANGED <<keyed, wanted>> /\ tag' = NoTag
  /\ hmac'.iCtx = hmac.iCtx /\ hmac'.oCtx = hmac.oCtx
  /\ \/ isOpen' /\ x = NoPiece /\ fed' = fed
     \/ isOpen' /\ x # NoPiece /\ fed' = Append(fed, x) /\ Len(fed) < MaxPieces
     \/ ~isOpen' /\ fed' = <<>>

Answering(p) ==
  /\ keyed # NoKey /\ UNCHANGED keyed /\ ~isOpen' /\ fed' = <<>>
  /\ hmac'.iCtx = hmac.iCtx /\ hmac'.oCtx = hmac.oCtx
  /\ tag' \in {NoTag, HmacOf(keyed, p)}

LEMMA InitKeySteps ==
  ASSUME HmacInv, NEW n \in Nat, NEW k \in HmacKeys, NEW c \in HmacChannels, InitKey(k, c, n)
  PROVE  HmacInv' /\ Keying(k, c)
<1>1. PICK b : b = Call(n)
  OBVIOUS
<1>2. Begun(b)
  BY <1>1, CallBegins DEF HmacInv
<1>3. PICK m : m = KeyUp(b, k, c)
  OBVIOUS
<1>4. KeyedUp(k, c, b, m)
  BY <1>2, <1>3, KeyUpKeys DEF Begun
<1>5. /\ Returned(m) /\ keyed' = (IF m.ok THEN k ELSE NoKey)
      /\ wanted' = [key |-> c, message |-> c] /\ fed' = <<>> /\ isOpen' = FALSE
  BY <1>1, <1>3 DEF InitKey
<1>6. /\ IsMembers(hmac)'
      /\ hmac'.hash = m.hash /\ hmac'.iCtx = m.iCtx /\ hmac'.oCtx = m.oCtx
      /\ tag' = m.out /\ jobs' = m.ran
  BY <1>4, <1>5, ReturnReturns DEF KeyedUp
<1>7. tag' = NoTag /\ jobs' \subseteq {c}
  BY <1>2, <1>4, <1>6 DEF Begun, KeyedUp
<1>8. keyed' # NoKey => /\ keyed' = k
                        /\ hmac'.iCtx = [pieces |-> <<IPad(k)>>, channel |-> c]
                        /\ hmac'.oCtx = [pieces |-> <<OPad(k)>>, channel |-> c]
  BY <1>4, <1>5, <1>6 DEF KeyedUp
<1>9. HmacInv'
  BY <1>5, <1>6, <1>7, <1>8 DEF HmacInv
<1> QED
  BY <1>5, <1>7, <1>9 DEF Keying

LEMMA StartMessageSteps ==
  ASSUME HmacInv, NEW c \in HmacChannels, StartMessage(c)
  PROVE  /\ HmacInv' /\ keyed # NoKey /\ UNCHANGED keyed /\ isOpen' /\ fed' = <<>> /\ tag' = NoTag
         /\ hmac'.iCtx = hmac.iCtx /\ hmac'.oCtx = hmac.oCtx
<1>1. PICK b : b = Call(0)
  OBVIOUS
<1>2. Begun(b)
  BY <1>1, CallBegins DEF HmacInv
<1>3. PICK m : m = [Copy(b, "hash", "iCtx") EXCEPT !.hash.channel = c]
  OBVIOUS
<1>4. /\ IsMembers(m) /\ m.iCtx = b.iCtx /\ m.oCtx = b.oCtx /\ m.out = b.out /\ m.ran = b.ran
      /\ m.hash = [pieces |-> b.iCtx.pieces, channel |-> c]
  BY <1>2, <1>3 DEF Begun, Copy, IsMembers, HashObject
<1>5. /\ keyed # NoKey /\ Returned(m) /\ wanted' = [wanted EXCEPT !.message = c]
      /\ fed' = <<>> /\ isOpen' = TRUE /\ keyed' = keyed
  BY <1>1, <1>3 DEF StartMessage
<1>6. /\ IsMembers(hmac)'
      /\ hmac'.hash = m.hash /\ hmac'.iCtx = m.iCtx /\ hmac'.oCtx = m.oCtx
      /\ tag' = m.out /\ jobs' = m.ran
  BY <1>4, <1>5, ReturnReturns
<1>7. tag' = NoTag /\ jobs' = {} /\ hmac'.iCtx = hmac.iCtx /\ hmac'.oCtx = hmac.oCtx
  BY <1>2, <1>4, <1>6 DEF Begun
<1>8. wanted' = [key |-> wanted.key, message |-> c]
  BY <1>5 DEF HmacInv
<1>9. <<IPad(keyed)>> \o <<>> = <<IPad(keyed)>>
  OBVIOUS
<1>10. hmac'.hash = [pieces |-> <<IPad(keyed')>> \o fed', channel |-> wanted'.message]
  BY <1>2, <1>4, <1>5, <1>6, <1>8, <1>9 DEF Begun, HmacInv
<1>11. <<>> \in Seq(Pieces \ {NoPiece}) /\ Len(<<>>) <= MaxPieces
  BY HmacAssumption
<1>12. HmacInv'
  BY <1>5, <1>6, <1>7, <1>8, <1>10, <1>11 DEF HmacInv
<1> QED
  BY <1>5, <1>7, <1>12

LEMMA SetChannelSteps ==
  ASSUME HmacInv, NEW c \in HmacChannels, SetChannel(c)
  PROVE  /\ HmacInv' /\ isOpen /\ UNCHANGED <<keyed, isOpen, fed>> /\ tag' = NoTag
         /\ hmac'.iCtx = hmac.iCtx /\ hmac'.oCtx = hmac.oCtx
<1>1. PICK b : b = Call(0)
  OBVIOUS
<1>2. Begun(b)
  BY <1>1, CallBegins DEF HmacInv
<1>3. PICK m : m = [b EXCEPT !.hash.channel = c]
  OBVIOUS
<1>4. /\ IsMembers(m) /\ m.iCtx = b.iCtx /\ m.oCtx = b.oCtx /\ m.out = b.out /\ m.ran = b.ran
      /\ m.hash = [pieces |-> b.hash.pieces, channel |-> c]
  BY <1>2, <1>3 DEF Begun, IsMembers, HashObject
<1>5. /\ isOpen /\ Returned(m) /\ wanted' = [wanted EXCEPT !.message = c]
      /\ fed' = fed /\ isOpen' = isOpen /\ keyed' = keyed
  BY <1>1, <1>3 DEF SetChannel
<1>6. /\ IsMembers(hmac)'
      /\ hmac'.hash = m.hash /\ hmac'.iCtx = m.iCtx /\ hmac'.oCtx = m.oCtx
      /\ tag' = m.out /\ jobs' = m.ran
  BY <1>4, <1>5, ReturnReturns
<1>7. tag' = NoTag /\ jobs' = {} /\ hmac'.iCtx = hmac.iCtx /\ hmac'.oCtx = hmac.oCtx
  BY <1>2, <1>4, <1>6 DEF Begun
<1>8. wanted' = [key |-> wanted.key, message |-> c]
  BY <1>5 DEF HmacInv
<1>9. hmac'.hash = [pieces |-> <<IPad(keyed')>> \o fed', channel |-> wanted'.message]
  <2>1. PICK s : s = <<IPad(keyed)>> \o fed
    OBVIOUS
  <2>2. hmac.hash.pieces = s
    BY <1>5, <2>1 DEF HmacInv
  <2>3. hmac'.hash = [pieces |-> s, channel |-> c]
    BY <1>2, <1>4, <1>6, <2>2 DEF Begun
  <2> QED
    BY <1>5, <1>8, <2>1, <2>3
<1>10. HmacInv'
  BY <1>5, <1>6, <1>7, <1>8, <1>9 DEF HmacInv
<1> QED
  BY <1>5, <1>7, <1>10

LEMMA UpdateSteps ==
  ASSUME HmacInv, NEW n \in Nat, NEW x \in Pieces, Update(x, n)
  PROVE  HmacInv' /\ Taking(x)
<1>1. PICK b : b = Call(n)
  OBVIOUS
<1>2. Begun(b)
  BY <1>1, CallBegins DEF HmacInv
<1>3. PICK m : m = FeedInput(b, x)
  OBVIOUS
<1>4. /\ IsMembers(m) /\ m.iCtx = b.iCtx /\ m.oCtx = b.oCtx /\ m.out = b.out
      /\ m.ran \subseteq b.ran \cup {b.hash.channel}
      /\ m.ok => m.hash.channel = b.hash.channel
      /\ m.ok /\ x # NoPiece => m.hash.pieces = Append(b.hash.pieces, x)
      /\ x = NoPiece => m = b
  <2>1. IsMembers(b)
    BY <1>2 DEF Begun
  <2> QED
    BY <1>3, <2>1, FeedInputFeeds
<1>5. /\ isOpen /\ Len(fed) < MaxPieces /\ Returned(m) /\ isOpen' = m.ok
      /\ fed' = (IF m.ok THEN fed \o (IF x = NoPiece THEN <<>> ELSE <<x>>) ELSE <<>>)
      /\ keyed' = keyed /\ wanted' = wanted
  BY <1>1, <1>3 DEF Update
<1>6. /\ IsMembers(hmac)'
      /\ hmac'.hash = m.hash /\ hmac'.iCtx = m.iCtx /\ hmac'.oCtx = m.oCtx
      /\ tag' = m.out /\ jobs' = m.ran
  BY <1>4, <1>5, ReturnReturns
<1>7. tag' = NoTag /\ hmac'.iCtx = hmac.iCtx /\ hmac'.oCtx = hmac.oCtx
  BY <1>2, <1>4, <1>6 DEF Begun
<1>8. /\ fed \in Seq(Pieces \ {NoPiece}) /\ keyed # NoKey
      /\ b.hash = [pieces |-> <<IPad(keyed)>> \o fed, channel |-> wanted.message]
  BY <1>2, <1>5 DEF HmacInv, Begun
<1>9. jobs' \subseteq {wanted'.key, wanted'.message}
  BY <1>2, <1>4, <1>5, <1>6, <1>8 DEF Begun
<1>10. m.ok \in BOOLEAN /\ (m.ok => m.hash = [pieces |-> m.hash.pieces, channel |-> m.hash.channel])
  BY <1>4 DEF IsMembers, HashObject
<1>11. CASE ~m.ok
  <2>0. isOpen' = FALSE /\ fed' = <<>>
    BY <1>5, <1>10, <1>11
  <2>1. HmacInv'
    BY <1>5, <1>6, <1>7, <1>9, <2>0 DEF HmacInv
  <2> QED
    BY <1>5, <1>7, <1>11, <2>1 DEF Taking
<1>12. CASE m.ok /\ x = NoPiece
  <2>1. fed' = fed
    BY <1>5, <1>8, <1>12
  <2>2. hmac'.hash = [pieces |-> <<IPad(keyed')>> \o fed', channel |-> wanted'.message]
    BY <1>4, <1>5, <1>6, <1>8, <1>12, <2>1
  <2>3. HmacInv'
    BY <1>5, <1>6, <1>7, <1>9, <1>12, <2>1, <2>2 DEF HmacInv
  <2> QED
    BY <1>5, <1>7, <1>12, <2>1, <2>3 DEF Taking
<1>13. CASE m.ok /\ x # NoPiece
  <2>1. fed' = Append(fed, x) /\ fed' \in Seq(Pieces \ {NoPiece}) /\ Len(fed') <= MaxPieces
    <3>1. fed' = fed \o <<x>>
      BY <1>5, <1>13
    <3>2. fed \o <<x>> = Append(fed, x) /\ Append(fed, x) \in Seq(Pieces \ {NoPiece})
          /\ Len(Append(fed, x)) = Len(fed) + 1 /\ Len(fed) \in Nat
      BY <1>8, <1>13
    <3>3. MaxPieces \in Nat /\ Len(fed) < MaxPieces
      BY <1>5, HmacAssumption
    <3> QED
      BY <3>1, <3>2, <3>3
  <2>2. m.hash.pieces = <<IPad(keyed)>> \o fed'
    <3>1. m.hash.pieces = Append(<<IPad(keyed)>> \o fed, x)
      BY <1>4, <1>8, <1>13
    <3>2. PICK pad : pad = IPad(keyed)
      OBVIOUS
    <3>3. Append(<<pad>> \o fed, x) = <<pad>> \o Append(fed, x)
      BY <1>8, <1>13, MessageAfterPad
    <3> QED
      BY <2>1, <3>1, <3>2, <3>3
  <2>3. hmac'.hash = [pieces |-> <<IPad(keyed')>> \o fed', channel |-> wanted'.message]
    <3>1. PICK s : s = <<IPad(keyed)>> \o fed'
      OBVIOUS
    <3>2. m.hash.channel = wanted.message
      BY <1>4, <1>8, <1>13
    <3>3. hmac'.hash = [pieces |-> s, channel |-> wanted.message]
      BY <1>6, <1>10, <1>13, <2>2, <3>1, <3>2
    <3> QED
      BY <1>5, <3>1, <3>3
  <2>4. HmacInv'
    BY <1>5, <1>6, <1>7, <1>9, <1>13, <2>1, <2>3 DEF HmacInv
  <2> QED
    BY <1>5, <1>7, <1>13, <2>1, <2>4 DEF Taking
<1> QED
  BY <1>10, <1>11, <1>12, <1>13

\* The outer pass makes the authenticator of what the running hash has after the pad.
LEMMA OuterAnswers ==
  ASSUME HmacInv, NEW m, IsMembers(m), keyed # NoKey, m.out = NoTag,
         m.oCtx = hmac.oCtx, NEW p,
         m.ok => m.hash.pieces = <<IPad(keyed)>> \o p
  PROVE  Outer(m).out \in {NoTag, HmacOf(keyed, p)}
<1>1. PICK r : r = Outer(m)
  OBVIOUS
<1>2. Finished(m, r)
  BY <1>1, OuterFinishes
<1>3. PICK inner : inner = Digest(<<IPad(keyed)>> \o p)
  OBVIOUS
<1>4. m.oCtx.pieces = <<OPad(keyed)>>
  BY DEF HmacInv
<1>5. Append(<<OPad(keyed)>>, inner) = <<OPad(keyed), inner>>
  <2>1. PICK pad : pad = OPad(keyed)
    OBVIOUS
  <2>2. Append(<<pad>>, inner) = <<pad, inner>>
    <3>1. PICK U : U = {pad, inner}
      OBVIOUS
    <3>2. PICK s, t : s = Append(<<pad>>, inner) /\ t = <<pad, inner>>
      OBVIOUS
    <3>3. /\ s \in Seq(U) /\ Len(s) = 2 /\ s[1] = pad /\ s[2] = inner
          /\ t \in Seq(U) /\ Len(t) = 2 /\ t[1] = pad /\ t[2] = inner
      BY <3>1, <3>2
    <3>4. \A i \in 1 .. 2 : s[i] = t[i]
      BY <3>3
    <3>5. s = t
      BY <3>3, <3>4, SeqEqual
    <3> QED
      BY <3>2, <3>5
  <2> QED
    BY <2>1, <2>2
<1>6. HmacOf(keyed, p) = Digest(<<OPad(keyed), inner>>)
  BY <1>3 DEF HmacOf
<1> QED
  BY <1>1, <1>2, <1>3, <1>4, <1>5, <1>6 DEF Finished

\* After a hash call that failed there are no more.
LEMMA OuterAfterFailure ==
  ASSUME NEW m, IsMembers(m), ~m.ok
  PROVE  Outer(m) = m
BY DEF Outer, Finalize, Copy, Feed, HashCall

LEMMA FinalizeMessageSteps ==
  ASSUME HmacInv, NEW n \in Nat, FinalizeMessage(n)
  PROVE  HmacInv' /\ isOpen /\ Answering(fed)
<1>1. PICK b : b = Call(n)
  OBVIOUS
<1>2. Begun(b)
  BY <1>1, CallBegins DEF HmacInv
<1>3. PICK m : m = Outer(b)
  OBVIOUS
<1>4. Finished(b, m)
  BY <1>2, <1>3, OuterFinishes DEF Begun
<1>5. /\ isOpen /\ Returned(m) /\ isOpen' = FALSE /\ fed' = <<>>
      /\ keyed' = keyed /\ wanted' = wanted
  BY <1>1, <1>3 DEF FinalizeMessage
<1>6. /\ IsMembers(hmac)'
      /\ hmac'.hash = m.hash /\ hmac'.iCtx = m.iCtx /\ hmac'.oCtx = m.oCtx
      /\ tag' = m.out /\ jobs' = m.ran
  BY <1>4, <1>5, ReturnReturns DEF Finished
<1>7. hmac'.iCtx = hmac.iCtx /\ hmac'.oCtx = hmac.oCtx
  BY <1>2, <1>4, <1>6 DEF Begun, Finished
<1>8. /\ keyed # NoKey /\ b.hash = [pieces |-> <<IPad(keyed)>> \o fed, channel |-> wanted.message]
      /\ b.oCtx.channel = wanted.key
  BY <1>2, <1>5 DEF HmacInv, Begun
<1>9. tag' \in {NoTag, HmacOf(keyed, fed)}
  <2>1. PICK p : p = fed
    OBVIOUS
  <2>2. IsMembers(b) /\ b.out = NoTag /\ b.oCtx = hmac.oCtx /\ b.hash.pieces = <<IPad(keyed)>> \o p
    <3>1. PICK s : s = <<IPad(keyed)>> \o fed
      OBVIOUS
    <3> QED
      BY <1>2, <1>8, <2>1, <3>1 DEF Begun
  <2>3. Outer(b).out \in {NoTag, HmacOf(keyed, p)}
    BY <1>8, <2>2, OuterAnswers
  <2> QED
    BY <1>3, <1>6, <2>1, <2>3
<1>10. jobs' \subseteq {wanted'.key, wanted'.message}
  BY <1>2, <1>4, <1>5, <1>6, <1>8 DEF Begun, Finished
<1>11. HmacInv'
  BY <1>5, <1>6, <1>7, <1>10 DEF HmacInv
<1> QED
  BY <1>5, <1>7, <1>8, <1>9, <1>11 DEF Answering

LEMMA CalculateAllSteps ==
  ASSUME HmacInv, NEW n \in Nat, NEW i \in 0 .. MaxPieces, NEW pieces \in [1 .. i -> Pieces],
         CalculateAll(pieces, n)
  PROVE  /\ HmacInv'
         /\ \E p \in Seq(Pieces \ {NoPiece}) : Len(p) <= i /\ Answering(p)
<1>0. i \in Nat /\ pieces \in Seq(Pieces) /\ Len(pieces) = i
  BY HmacAssumption
<1>1. PICK b : b = Call(n)
  OBVIOUS
<1>2. Begun(b)
  BY <1>1, CallBegins DEF HmacInv
<1>3. PICK a : a = Copy(b, "hash", "iCtx")
  OBVIOUS
<1>4. PICK d : d = FeedAll(a, pieces)
  OBVIOUS
<1>5. PICK m : m = Outer(d)
  OBVIOUS
<1>6. /\ keyed # NoKey /\ Returned(m) /\ isOpen' = FALSE /\ fed' = <<>> /\ keyed' = keyed
      /\ wanted' = [wanted EXCEPT !.message = wanted.key]
  BY <1>1, <1>3, <1>4, <1>5 DEF CalculateAll, Calculate
<1>7. /\ IsMembers(a) /\ a.ran = b.ran /\ a.out = b.out /\ a.hash = b.iCtx
      /\ a.iCtx = b.iCtx /\ a.oCtx = b.oCtx
  <2>1. Copied("iCtx", b, a)
    BY <1>2, <1>3, CopyCopies DEF Begun
  <2>2. a.ok
    BY <1>2, <1>3 DEF Begun, Copy, IsMembers
  <2> QED
    BY <2>1, <2>2 DEF Copied, OnlyOn, HashObjects
<1>8. a.hash = [pieces |-> <<IPad(keyed)>>, channel |-> wanted.key]
      /\ a.oCtx = [pieces |-> <<OPad(keyed)>>, channel |-> wanted.key]
  BY <1>2, <1>6, <1>7 DEF HmacInv, Begun
<1>9. TakenIn(a, i, d)
  BY <1>0, <1>4, <1>7, <1>8, FeedAllFeeds
<1>10. Finished(d, m)
  BY <1>5, <1>9, OuterFinishes DEF TakenIn
<1>11. /\ IsMembers(hmac)'
       /\ hmac'.hash = m.hash /\ hmac'.iCtx = m.iCtx /\ hmac'.oCtx = m.oCtx
       /\ tag' = m.out /\ jobs' = m.ran
  BY <1>6, <1>10, ReturnReturns DEF Finished
<1>12. hmac'.iCtx = hmac.iCtx /\ hmac'.oCtx = hmac.oCtx
  BY <1>2, <1>7, <1>9, <1>10, <1>11 DEF Begun, TakenIn, Finished
<1>13. wanted' = [key |-> wanted.key, message |-> wanted.key]
  BY <1>6 DEF HmacInv
<1>14. m.ran \subseteq {wanted.key}
  <2>1. d.ran \subseteq {wanted.key} /\ d.oCtx.channel = wanted.key
    BY <1>2, <1>7, <1>8, <1>9 DEF TakenIn, Begun
  <2>2. CASE d.ok
    BY <1>8, <1>9, <1>10, <2>1, <2>2 DEF TakenIn, Finished
  <2>3. CASE ~d.ok
    BY <1>5, <1>9, <2>1, <2>3, OuterAfterFailure DEF TakenIn
  <2> QED
    BY <2>2, <2>3
<1>15. HmacInv'
  BY <1>6, <1>11, <1>12, <1>13, <1>14 DEF HmacInv
<1>16. PICK p \in Seq(Pieces \ {NoPiece}) :
         Len(p) <= i /\ (d.ok => d.hash.pieces = <<IPad(keyed)>> \o p)
  <2>1. CASE d.ok
    <3>1. PICK p \in Seq(Pieces \ {NoPiece}) : Len(p) <= i /\ d.hash.pieces = a.hash.pieces \o p
      BY <1>9, <2>1, Zenon DEF TakenIn
    <3>2. a.hash.pieces = <<IPad(keyed)>>
      BY <1>8
    <3> QED
      BY <3>1, <3>2, Zenon
  <2>2. CASE ~d.ok
    <3>1. <<>> \in Seq(Pieces \ {NoPiece}) /\ Len(<<>>) <= i
      BY <1>0
    <3> QED
      BY <2>2, <3>1
  <2> QED
    BY <2>1, <2>2
<1>17. d.out = NoTag /\ d.oCtx = hmac.oCtx /\ IsMembers(d)
  BY <1>2, <1>7, <1>9 DEF TakenIn, Begun
<1>18. tag' \in {NoTag, HmacOf(keyed, p)}
  BY <1>5, <1>6, <1>11, <1>16, <1>17, OuterAnswers
<1>19. Answering(p)
  BY <1>6, <1>12, <1>18 DEF Answering
<1> QED
  BY <1>15, <1>16, <1>19

LEMMA HmacNextInv == HmacInv /\ [HmacNext]_hmacVars => HmacInv'
<1> SUFFICES ASSUME HmacInv, [HmacNext]_hmacVars PROVE HmacInv'
  OBVIOUS
<1>1. CASE UNCHANGED hmacVars
  BY <1>1 DEF hmacVars, HmacInv, IsMembers, HashObject
<1>2. ASSUME HmacNext PROVE HmacInv'
  <2>1. PICK n \in 0 .. HashCalls :
          \/ \E k \in HmacKeys, c \in HmacChannels : InitKey(k, c, n)
          \/ \E c \in HmacChannels : StartMessage(c)
          \/ \E c \in HmacChannels : SetChannel(c)
          \/ \E x \in Pieces : Update(x, n)
          \/ FinalizeMessage(n)
          \/ \E pieces \in UNION {[1 .. i -> Pieces] : i \in 0 .. MaxPieces} :
               CalculateAll(pieces, n)
    BY <1>2 DEF HmacNext
  <2>2. n \in Nat
    BY HmacAssumption DEF HashCalls
  <2>3. ASSUME NEW pieces \in UNION {[1 .. i -> Pieces] : i \in 0 .. MaxPieces},
               CalculateAll(pieces, n)
        PROVE  HmacInv'
    BY <2>2, <2>3, CalculateAllSteps
  <2> QED
    BY <2>1, <2>2, <2>3, InitKeySteps, StartMessageSteps, SetChannelSteps, UpdateSteps,
       FinalizeMessageSteps
<1> QED
  BY <1>1, <1>2

\* The contexts hold the key initKey() accepted last and the running hash the pieces
\* update() has accepted since init(), whichever calls failed before (HMAC.cpp).
THEOREM HmacHasItsKey == HmacSpec => []HmacHoldsKey
<1>1. HmacInv => HmacHoldsKey
  BY KeysApart DEF HmacInv, HmacHoldsKey
<1> QED
  BY <1>1, HmacInitInv, HmacNextInv, PTL DEF HmacSpec

\* Hash calls run only on the channel chosen for the key and on the one chosen for the
\* message, never on one that only a cleared context names. That a message's last call
\* runs on the key's channel is allowed here (HMAC.cpp:102).
THEOREM HmacKeepsChannels == HmacSpec => [](jobs \subseteq {wanted.key, wanted.message})
<1>1. HmacInv => jobs \subseteq {wanted.key, wanted.message}
  BY DEF HmacInv
<1> QED
  BY <1>1, HmacInitInv, HmacNextInv, PTL DEF HmacSpec

-----------------------------------------------------------------------------
(* HMAC implements MacSpec. *)

LEMMA HeldIsKey == KeyHeld \in HmacKeys \cup {NoKey}
BY DEF KeyHeld, Accepted

LEMMA HeldIsKeyed == HmacInv /\ keyed # NoKey => KeyHeld = keyed
BY KeysApart DEF HmacInv

\* The key is a function of the contexts.
LEMMA HeldByContexts ==
  ASSUME hmac'.iCtx = hmac.iCtx, hmac'.oCtx = hmac.oCtx
  PROVE  KeyHeld' = KeyHeld
<1>1. Accepted' = Accepted
  BY DEF Accepted
<1> QED
  BY <1>1 DEF KeyHeld

\* The message of the abstract machine.
Message == IF isOpen THEN Tail(hmac.hash.pieces) ELSE <<>>

LEMMA MessageIsFed == HmacInv => Message = (IF isOpen THEN fed ELSE <<>>)
<1> SUFFICES ASSUME HmacInv, isOpen PROVE Message = fed
  BY DEF HmacInv, Message
<1>1. PICK pad, p : pad = IPad(keyed) /\ p = fed
  OBVIOUS
<1>2. p \in Seq(Pieces \ {NoPiece}) /\ hmac.hash.pieces = <<pad>> \o p
  BY <1>1 DEF HmacInv
<1>3. Tail(<<pad>> \o p) = p
  BY <1>2, MessageAfterPad
<1> QED
  BY <1>1, <1>2, <1>3 DEF Message

LEMMA MacInitialized == HmacInit => Abstract!Init
<1> SUFFICES ASSUME HmacInit PROVE Abstract!Init
  OBVIOUS
<1>1. hmac.iCtx.pieces = <<>>
  BY DEF HmacInit, ClearedHash
<1>2. \A pad : <<>> # <<pad>>
  OBVIOUS
<1>3. Accepted = {}
  BY <1>1, <1>2 DEF Accepted
<1> QED
  BY <1>3 DEF HmacInit, Abstract!Init, KeyHeld

LEMMA MacStepTaken ==
  ASSUME HmacInv, HmacInv', [HmacNext]_hmacVars
  PROVE  [Abstract!Next]_(Abstract!specVars)
<1>0. /\ Message = (IF isOpen THEN fed ELSE <<>>)
      /\ Message' = (IF isOpen' THEN fed' ELSE <<>>)
  <2>1. (HmacInv => Message = (IF isOpen THEN fed ELSE <<>>))'
    BY MessageIsFed, PTL
  <2> QED
    BY <2>1, MessageIsFed
<1>1. CASE UNCHANGED hmacVars
  BY <1>1, HeldByContexts DEF hmacVars, Abstract!specVars
<1>2. ASSUME NEW n \in Nat, NEW k \in HmacKeys, NEW c \in HmacChannels, InitKey(k, c, n)
      PROVE  Abstract!SetKey
  <2>1. Keying(k, c)
    BY <1>2, InitKeySteps
  <2>2. (KeyHeld \in HmacKeys \cup {NoKey})'
    BY HeldIsKey, PTL
  <2> QED
    BY <1>0, <2>1, <2>2 DEF Abstract!SetKey, Keying, Message
<1>3. ASSUME NEW c \in HmacChannels, StartMessage(c) PROVE Abstract!Start
  <2>1. /\ keyed # NoKey /\ isOpen' /\ fed' = <<>> /\ tag' = NoTag
        /\ hmac'.iCtx = hmac.iCtx /\ hmac'.oCtx = hmac.oCtx
    BY <1>3, StartMessageSteps
  <2>2. KeyHeld # NoKey /\ KeyHeld' = KeyHeld
    BY <2>1, HeldIsKeyed, HeldByContexts
  <2>3. isOpen' = TRUE
    BY <2>1 DEF HmacInv
  <2> QED
    BY <1>0, <2>1, <2>2, <2>3 DEF Abstract!Start, Message
<1>4. ASSUME NEW c \in HmacChannels, SetChannel(c) PROVE UNCHANGED Abstract!specVars
  <2>1. /\ isOpen /\ UNCHANGED <<keyed, isOpen, fed>> /\ tag' = NoTag
        /\ hmac'.iCtx = hmac.iCtx /\ hmac'.oCtx = hmac.oCtx
    BY <1>4, SetChannelSteps
  <2>2. KeyHeld' = KeyHeld /\ tag = NoTag
    BY <2>1, HeldByContexts DEF HmacInv
  <2> QED
    BY <1>0, <2>1, <2>2 DEF Abstract!specVars, Message
<1>5. ASSUME NEW n \in Nat, NEW x \in Pieces, Update(x, n)
      PROVE  [Abstract!Next]_(Abstract!specVars)
  <2>1. Taking(x)
    BY <1>5, UpdateSteps
  <2>2. KeyHeld' = KeyHeld /\ tag = NoTag /\ isOpen = TRUE
    BY <2>1, HeldByContexts DEF HmacInv, Taking
  <2>3. CASE isOpen' /\ x = NoPiece /\ fed' = fed
    <3>1. isOpen' = TRUE
      BY <2>3 DEF HmacInv
    <3> QED
      BY <1>0, <2>1, <2>2, <2>3, <3>1 DEF Abstract!specVars, Message, Taking
  <2>4. CASE isOpen' /\ x # NoPiece /\ fed' = Append(fed, x) /\ Len(fed) < MaxPieces
    <3>1. isOpen' = TRUE
      BY <2>4 DEF HmacInv
    <3>2. Abstract!Add(x)
      BY <1>0, <2>1, <2>2, <2>4, <3>1 DEF Abstract!Add, Message, Taking
    <3> QED
      BY <2>4, <3>2 DEF Abstract!Next
  <2>5. CASE ~isOpen' /\ fed' = <<>>
    <3>1. isOpen' = FALSE
      BY <2>5 DEF HmacInv
    <3>2. Abstract!Abandon
      BY <1>0, <2>1, <2>2, <2>5, <3>1 DEF Abstract!Abandon, Message, Taking
    <3> QED
      BY <3>2 DEF Abstract!Next
  <2> QED
    BY <2>1, <2>3, <2>4, <2>5 DEF Taking
<1>6. ASSUME NEW n \in Nat, FinalizeMessage(n) PROVE Abstract!Finish \/ Abstract!Abandon
  <2>1. isOpen /\ Answering(fed)
    BY <1>6, FinalizeMessageSteps
  <2>2. KeyHeld' = KeyHeld /\ KeyHeld = keyed /\ isOpen' = FALSE
    BY <2>1, HeldIsKeyed, HeldByContexts DEF Answering, HmacInv
  <2>3. Message = fed /\ Message' = <<>>
    BY <1>0, <2>1, <2>2 DEF Answering
  <2>4. CASE tag' = NoTag
    BY <2>1, <2>2, <2>3, <2>4 DEF Abstract!Abandon, Message, Answering
  <2>5. CASE tag' = HmacOf(keyed, fed)
    BY <2>1, <2>2, <2>3, <2>5 DEF Abstract!Finish, Message, Answering
  <2> QED
    BY <2>1, <2>4, <2>5 DEF Answering
<1>7. ASSUME NEW n \in Nat, NEW i \in 0 .. MaxPieces, NEW pieces \in [1 .. i -> Pieces],
             CalculateAll(pieces, n)
      PROVE  Abstract!Next
  <2>1. PICK p \in Seq(Pieces \ {NoPiece}) : Len(p) <= i /\ Answering(p)
    BY <1>7, CalculateAllSteps
  <2>2. KeyHeld' = KeyHeld /\ KeyHeld = keyed /\ KeyHeld # NoKey /\ isOpen' = FALSE
    BY <2>1, HeldIsKeyed, HeldByContexts DEF Answering, HmacInv
  <2>3. Message' = <<>>
    BY <1>0, <2>2
  <2>4. CASE tag' = NoTag
    <3>1. Abstract!Abandon
      BY <2>1, <2>2, <2>3, <2>4 DEF Abstract!Abandon, Message, Answering
    <3> QED
      BY <3>1 DEF Abstract!Next
  <2>5. CASE tag' = HmacOf(keyed, p)
    <3>1. Abstract!Whole(p)
      BY <2>1, <2>2, <2>3, <2>5 DEF Abstract!Whole, Message, Answering
    <3>2. Len(p) \in 0 .. MaxPieces /\ p \in [1 .. Len(p) -> Pieces \ {NoPiece}]
      <4>1. Len(p) \in Nat /\ p \in [1 .. Len(p) -> Pieces \ {NoPiece}]
        OBVIOUS
      <4> QED
        BY <2>1, <4>1, HmacAssumption
    <3> QED
      BY <3>1, <3>2 DEF Abstract!Next
  <2> QED
    BY <2>1, <2>4, <2>5 DEF Answering
<1>8. ASSUME HmacNext PROVE [Abstract!Next]_(Abstract!specVars)
  <2>1. PICK n \in 0 .. HashCalls :
          \/ \E k \in HmacKeys, c \in HmacChannels : InitKey(k, c, n)
          \/ \E c \in HmacChannels : StartMessage(c)
          \/ \E c \in HmacChannels : SetChannel(c)
          \/ \E x \in Pieces : Update(x, n)
          \/ FinalizeMessage(n)
          \/ \E pieces \in UNION {[1 .. i -> Pieces] : i \in 0 .. MaxPieces} :
               CalculateAll(pieces, n)
    BY <1>8 DEF HmacNext
  <2>2. n \in Nat
    BY HmacAssumption DEF HashCalls
  <2>3. CASE \E k \in HmacKeys, c \in HmacChannels : InitKey(k, c, n)
    BY <1>2, <2>2, <2>3 DEF Abstract!Next
  <2>4. CASE \E c \in HmacChannels : StartMessage(c)
    BY <1>3, <2>4 DEF Abstract!Next
  <2>5. CASE \E c \in HmacChannels : SetChannel(c)
    BY <1>4, <2>5
  <2>6. CASE \E x \in Pieces : Update(x, n)
    BY <1>5, <2>2, <2>6
  <2>7. CASE FinalizeMessage(n)
    BY <1>6, <2>2, <2>7 DEF Abstract!Next
  <2>8. CASE \E pieces \in UNION {[1 .. i -> Pieces] : i \in 0 .. MaxPieces} :
               CalculateAll(pieces, n)
    BY <1>7, <2>2, <2>8
  <2> QED
    BY <2>1, <2>3, <2>4, <2>5, <2>6, <2>7, <2>8
<1> QED
  BY <1>1, <1>8

\* HMAC implements MacSpec: every output is the authenticator of exactly the message
\* under exactly the key last accepted, or nothing, whichever hash call fails and in
\* whatever order keys, messages and channels are set (HMAC.cpp, HMAC.h).
THEOREM HmacImplementsSpec == HmacSpec => ImplementsMacSpec
<1>1. HmacInv /\ HmacInv' /\ [HmacNext]_hmacVars => [Abstract!Next]_(Abstract!specVars)
  BY MacStepTaken
<1> QED
  BY <1>1, HmacInitInv, HmacNextInv, MacInitialized, PTL
     DEF HmacSpec, ImplementsMacSpec, Abstract!Spec

-----------------------------------------------------------------------------
(* HKDF. *)

\* The first n of the blocks T(1), T(2), ... after T(0).
FirstBlocks(p, v, y, n, t) ==
  t = [i \in 0 .. n |-> IF i = 0 THEN v ELSE MacTerm(p, <<t[i - 1], y, <<"ctr", i>>>>)]

LEMMA BlocksAreDefined ==
  ASSUME NEW p, NEW v, NEW y
  PROVE  \A n \in Nat : \E t : FirstBlocks(p, v, y, n, t)
<1> DEFINE S == {n \in Nat : \E t : FirstBlocks(p, v, y, n, t)}
<1>1. 0 \in S
  <2>1. PICK t : t = [i \in 0 .. 0 |-> v]
    OBVIOUS
  <2>2. FirstBlocks(p, v, y, 0, t)
    BY <2>1 DEF FirstBlocks
  <2> QED
    BY <2>2
<1>2. ASSUME NEW n \in S PROVE n + 1 \in S
  <2>1. n \in Nat
    OBVIOUS
  <2>2. PICK t : FirstBlocks(p, v, y, n, t)
    OBVIOUS
  <2>3. PICK b : b = MacTerm(p, <<t[n], y, <<"ctr", n + 1>>>>)
    OBVIOUS
  <2>4. PICK u : u = [i \in 0 .. n + 1 |-> IF i <= n THEN t[i] ELSE b]
    OBVIOUS
  <2>5. \A i \in 0 .. n : t[i] = IF i = 0 THEN v ELSE MacTerm(p, <<t[i - 1], y, <<"ctr", i>>>>)
    BY <2>2 DEF FirstBlocks
  <2>6. ASSUME NEW i \in 0 .. n + 1
        PROVE  u[i] = IF i = 0 THEN v ELSE MacTerm(p, <<u[i - 1], y, <<"ctr", i>>>>)
    <3>1. CASE i <= n
      <4>1. i \in 0 .. n /\ (i # 0 => i - 1 \in 0 .. n)
        BY <2>1, <3>1
      <4>2. u[i] = t[i] /\ (i # 0 => u[i - 1] = t[i - 1])
        BY <2>1, <2>4, <4>1
      <4> QED
        BY <2>5, <4>1, <4>2
    <3>2. CASE i = n + 1
      <4>1. u[i] = b /\ u[n] = t[n] /\ i # 0 /\ i - 1 = n
        BY <2>1, <2>4, <3>2
      <4> QED
        BY <2>3, <3>2, <4>1
    <3> QED
      BY <2>1, <3>1, <3>2
  <2>7. u = [i \in 0 .. n + 1 |-> IF i = 0 THEN v ELSE MacTerm(p, <<u[i - 1], y, <<"ctr", i>>>>)]
    BY <2>4, <2>6
  <2>8. FirstBlocks(p, v, y, n + 1, u)
    BY <2>7 DEF FirstBlocks
  <2> QED
    BY <2>1, <2>8
<1> HIDE DEF S
<1>3. S \in SUBSET Nat
  BY DEF S
<1>4. S = Nat
  BY <1>1, <1>2, <1>3, SetInduction
<1> QED
  BY <1>4 DEF S

LEMMA BlocksAgree ==
  ASSUME NEW p, NEW v, NEW y, NEW n \in Nat, NEW m \in Nat, NEW t, NEW u,
         FirstBlocks(p, v, y, n, t), FirstBlocks(p, v, y, m, u)
  PROVE  \A i \in Nat : i <= n /\ i <= m => t[i] = u[i]
<1> DEFINE S == {i \in Nat : i <= n /\ i <= m => t[i] = u[i]}
<1>1. /\ \A i \in 0 .. n : t[i] = IF i = 0 THEN v ELSE MacTerm(p, <<t[i - 1], y, <<"ctr", i>>>>)
      /\ \A i \in 0 .. m : u[i] = IF i = 0 THEN v ELSE MacTerm(p, <<u[i - 1], y, <<"ctr", i>>>>)
  BY DEF FirstBlocks
<1>2. 0 \in S
  <2>1. 0 \in 0 .. n /\ 0 \in 0 .. m
    OBVIOUS
  <2>2. t[0] = v /\ u[0] = v
    BY <1>1, <2>1
  <2> QED
    BY <2>2
<1>3. ASSUME NEW i \in S PROVE i + 1 \in S
  <2>0. i \in Nat
    OBVIOUS
  <2> SUFFICES ASSUME i + 1 <= n, i + 1 <= m PROVE t[i + 1] = u[i + 1]
    BY <2>0
  <2>1. /\ i + 1 \in 0 .. n /\ i + 1 \in 0 .. m /\ i + 1 # 0 /\ (i + 1) - 1 = i
        /\ t[i] = u[i]
    BY <2>0
  <2>2. /\ t[i + 1] = MacTerm(p, <<t[i], y, <<"ctr", i + 1>>>>)
        /\ u[i + 1] = MacTerm(p, <<u[i], y, <<"ctr", i + 1>>>>)
    BY <1>1, <2>1
  <2> QED
    BY <2>1, <2>2
<1> HIDE DEF S
<1>4. S \in SUBSET Nat
  BY DEF S
<1>5. S = Nat
  BY <1>2, <1>3, <1>4, SetInduction
<1> QED
  BY <1>5 DEF S

\* T is what its equation says, at every number.
LEMMA TIsRfc ==
  ASSUME NEW t, t = T, NEW p, p = prk, NEW v, v = iv, NEW y, y = info
  PROVE  /\ t[0] = v
         /\ \A i \in Nat \ {0} : t[i] = MacTerm(p, <<t[i - 1], y, <<"ctr", i>>>>)
<1>1. PICK f : f = [n \in Nat |-> (CHOOSE u : FirstBlocks(p, v, y, n, u))[n]]
  OBVIOUS
<1>2. \A n \in Nat : \E u : FirstBlocks(p, v, y, n, u) /\ f[n] = u[n]
  BY <1>1, BlocksAreDefined
<1>3. ASSUME NEW i \in Nat
      PROVE  f[i] = IF i = 0 THEN v ELSE MacTerm(p, <<f[i - 1], y, <<"ctr", i>>>>)
  <2>1. PICK u : FirstBlocks(p, v, y, i, u) /\ f[i] = u[i]
    BY <1>2
  <2>2. u[i] = IF i = 0 THEN v ELSE MacTerm(p, <<u[i - 1], y, <<"ctr", i>>>>)
    BY <2>1 DEF FirstBlocks
  <2>3. CASE i # 0
    <3>1. i - 1 \in Nat /\ i - 1 <= i
      BY <2>3
    <3>2. PICK w : FirstBlocks(p, v, y, i - 1, w) /\ f[i - 1] = w[i - 1]
      BY <1>2, <3>1
    <3>3. u[i - 1] = w[i - 1]
      BY <2>1, <3>1, <3>2, BlocksAgree
    <3> QED
      BY <2>1, <2>2, <2>3, <3>2, <3>3
  <2> QED
    BY <2>1, <2>2, <2>3
<1>4. f = [i \in Nat |-> IF i = 0 THEN v ELSE MacTerm(p, <<f[i - 1], y, <<"ctr", i>>>>)]
  BY <1>1, <1>3
<1>5. t = [i \in Nat |-> IF i = 0 THEN v ELSE MacTerm(p, <<t[i - 1], y, <<"ctr", i>>>>)]
  <2> HIDE DEF MacTerm
  <2>1. T = CHOOSE g : g = [i \in Nat |-> IF i = 0 THEN v ELSE MacTerm(p, <<g[i - 1], y, <<"ctr", i>>>>)]
    BY DEF T
  <2> QED
    BY <1>4, <2>1
<1> QED
  BY <1>5

\* Byte n of block a + 1.
LEMMA ByteOfBlock ==
  ASSUME NEW a \in Nat, NEW n \in 1 .. HashSize
  PROVE  (a * HashSize + n - 1) \div HashSize = a /\ (a * HashSize + n - 1) % HashSize = n - 1
<1> DEFINE j == a * HashSize + n - 1
           q == j \div HashSize
<1>1. HashSize \in Nat /\ HashSize > 0
  BY HkdfAssumption
<1>2. a * HashSize \in Nat /\ j \in Nat /\ a * HashSize <= j /\ j < a * HashSize + HashSize
  BY <1>1
<1>3. q \in Nat /\ q * HashSize <= j /\ j < q * HashSize + HashSize
      /\ j % HashSize = j - q * HashSize
  BY <1>1, <1>2
<1>4. q = a
  <2>1. CASE q < a
    <3>0. q + 1 <= a /\ q + 1 \in Nat
      BY <1>3, <2>1
    <3>1. (q + 1) * HashSize <= a * HashSize
      <4> HIDE DEF q
      <4> QED
        BY <1>1, <3>0
    <3>2. (q + 1) * HashSize = q * HashSize + HashSize
      BY <1>1, <1>3
    <3> QED
      BY <1>1, <1>2, <1>3, <3>1, <3>2
  <2>2. CASE a < q
    <3>1. (a + 1) * HashSize <= q * HashSize
      BY <1>1, <1>3, <2>2
    <3>2. (a + 1) * HashSize = a * HashSize + HashSize
      BY <1>1
    <3> QED
      BY <1>1, <1>2, <1>3, <3>1, <3>2
  <2> QED
    BY <1>3, <2>1, <2>2
<1> QED
  BY <1>2, <1>3, <1>4

\* The first n bytes of T(1) | T(2) | ...
Output(t, n) ==
  [i \in 1 .. n |-> <<t[((i - 1) \div HashSize) + 1], ((i - 1) % HashSize) + 1>>]

Part(block, n) == [i \in 1 .. n |-> <<block, i>>]

LEMMA OutputGrows ==
  ASSUME NEW t, NEW a \in Nat, NEW n \in 0 .. HashSize, NEW m, m = a * HashSize,
         NEW block, block = t[a + 1]
  PROVE  Output(t, m) \o Part(block, n) = Output(t, m + n)
<1>0. HashSize \in Nat /\ HashSize > 0 /\ n \in Nat /\ m \in Nat
  BY HkdfAssumption
<1>1. PICK e, f, g : e = Output(t, m) /\ f = [i \in 1 .. n |-> <<block, i>>] /\ g = Output(t, m + n)
  OBVIOUS
<1>2. PICK S : S = {e[i] : i \in 1 .. m} \cup {f[i] : i \in 1 .. n} \cup {g[i] : i \in 1 .. m + n}
  OBVIOUS
<1>3. e \in Seq(S) /\ Len(e) = m
  <2>1. e \in [1 .. m -> S]
    BY <1>1, <1>2 DEF Output
  <2> QED
    BY <1>0, <2>1
<1>4. f \in Seq(S) /\ Len(f) = n
  <2>1. f \in [1 .. n -> S]
    BY <1>1, <1>2
  <2> QED
    BY <1>0, <2>1
<1>5. g \in Seq(S) /\ Len(g) = m + n
  <2>1. PICK l : l = m + n
    OBVIOUS
  <2>2. g = [i \in 1 .. l |-> g[i]]
    BY <1>1, <2>1 DEF Output
  <2>3. \A i \in 1 .. l : g[i] \in S
    BY <1>2, <2>1
  <2>4. g \in [1 .. l -> S]
    BY <2>2, <2>3
  <2> QED
    BY <1>0, <2>1, <2>4
<1>6. PICK h : h = e \o f
  OBVIOUS
<1>7. /\ h \in Seq(S) /\ Len(h) = m + n
      /\ \A i \in 1 .. m : h[i] = e[i]
      /\ \A i \in 1 .. n : h[m + i] = f[i]
  <2>1. /\ h \in Seq(S) /\ Len(h) = Len(e) + Len(f)
        /\ \A i \in 1 .. Len(e) + Len(f) : h[i] = IF i <= Len(e) THEN e[i] ELSE f[i - Len(e)]
    BY <1>3, <1>4, <1>6, ConcatProperties
  <2>2. ASSUME NEW i \in 1 .. n PROVE h[m + i] = f[i]
    <3>1. m + i \in 1 .. m + n /\ ~(m + i <= m) /\ (m + i) - m = i
      BY <1>0
    <3> QED
      BY <1>3, <1>4, <2>1, <3>1
  <2>3. ASSUME NEW i \in 1 .. m PROVE h[i] = e[i]
    <3>1. i \in 1 .. m + n /\ i <= m
      BY <1>0
    <3> QED
      BY <1>3, <1>4, <2>1, <3>1
  <2> QED
    BY <1>3, <1>4, <2>1, <2>2, <2>3
<1>8. ASSUME NEW i \in 1 .. m + n PROVE h[i] = g[i]
  <2>1. CASE i \in 1 .. m
    BY <1>1, <1>7, <2>1 DEF Output
  <2>2. CASE i \notin 1 .. m
    <3>1. PICK j : j = i - m
      OBVIOUS
    <3>2. j \in 1 .. n /\ i = m + j /\ j \in 1 .. HashSize /\ i - 1 = a * HashSize + j - 1
      BY <1>0, <2>2, <3>1
    <3>3. (i - 1) \div HashSize = a /\ (i - 1) % HashSize = j - 1
      BY <3>2, ByteOfBlock
    <3>4. g[i] = <<t[a + 1], (j - 1) + 1>>
      BY <1>1, <3>3 DEF Output
    <3>5. h[i] = <<block, j>>
      BY <1>1, <1>7, <3>2
    <3>6. (j - 1) + 1 = j
      BY <1>0, <3>2
    <3> QED
      BY <3>4, <3>5, <3>6
  <2> QED
    BY <2>1, <2>2
<1>9. h = g
  BY <1>5, <1>7, <1>8, SeqEqual
<1> QED
  BY <1>1, <1>6, <1>9 DEF Part

\* While there are blocks to come, the last one is T at the counter, which has not
\* wrapped, and the output is all of the blocks up to it.
HkdfInv ==
  /\ size \in Nat /\ rem \in Nat /\ ctr \in Nat
  /\ kdf \in {"idle", "first", "full", "true", "false"}
  /\ kdf = "first" => ctr = 1 /\ okm = <<>> /\ rem = size /\ rem # 0 /\ size <= MaxSize
  /\ kdf = "full" =>
       /\ ctr \in 1 .. CounterMod - 1 /\ temp = T[ctr]
       /\ rem # 0 /\ size = ctr * HashSize + rem /\ size <= MaxSize
       /\ okm = Output(T, ctr * HashSize)
  /\ kdf = "true" => size <= MaxSize /\ okm = Output(T, size)

\* T is the caller's own until the next call.
LEMMA TIsStable ==
  ASSUME UNCHANGED <<prk, iv, info>>
  PROVE  T' = T
BY DEF T

LEMMA HkdfNextInv == HkdfInv /\ [HkdfNext]_hkdfVars => HkdfInv'
<1> SUFFICES ASSUME HkdfInv, [HkdfNext]_hkdfVars PROVE HkdfInv'
  OBVIOUS
<1>0. /\ HashSize \in Nat \ {0} /\ CounterMod \in Nat \ {0, 1}
      /\ MaxSize \in Nat /\ MaxSize = (CounterMod - 1) * HashSize
  BY HkdfAssumption DEF MaxSize
<1>1. CASE UNCHANGED hkdfVars
  <2>1. T' = T
    BY <1>1, TIsStable DEF hkdfVars
  <2> QED
    BY <1>1, <2>1 DEF HkdfInv, hkdfVars
<1>2. ASSUME NEW salt, NEW ikm, Extract(salt, ikm) PROVE HkdfInv'
  BY <1>2 DEF Extract, HkdfInv
<1>3. ASSUME NEW x, NEW y, NEW n \in 0 .. MaxSize + 1, NEW prkSize, Expand(x, y, n, prkSize)
      PROVE  HkdfInv'
  <2>1. n \in Nat
    BY <1>0
  <2>2. \A t : Output(t, 0) = <<>>
    BY DEF Output
  <2>3. /\ size' = n /\ rem' = n /\ ctr' = 1 /\ okm' = <<>>
        /\ kdf' = (IF prkSize < HashSize \/ n > MaxSize THEN "false"
                   ELSE IF n = 0 THEN "true" ELSE "first")
    BY <1>3 DEF Expand
  <2>4. CASE prkSize < HashSize \/ n > MaxSize
    <3>1. kdf' = "false"
      BY ONLY <2>3, <2>4
    <3> QED
      BY <2>1, <2>3, <3>1 DEF HkdfInv
  <2>5. CASE ~(prkSize < HashSize \/ n > MaxSize) /\ n = 0
    <3>1. kdf' = "true"
      BY ONLY <2>3, <2>5
    <3> QED
      BY <1>0, <2>1, <2>2, <2>3, <2>5, <3>1 DEF HkdfInv
  <2>6. CASE ~(prkSize < HashSize \/ n > MaxSize) /\ n # 0
    <3>1. kdf' = "first"
      BY ONLY <2>3, <2>6
    <3>2. n <= MaxSize
      BY ONLY <1>0, <2>1, <2>6
    <3> QED
      BY <2>1, <2>3, <2>6, <3>1, <3>2 DEF HkdfInv
  <2> QED
    BY <2>4, <2>5, <2>6
<1>4. CASE FirstBlock
  <2>1. PICK t : t = T
    OBVIOUS
  <2>2. T' = t /\ UNCHANGED <<prk, iv, info, size, ctr>>
    BY <1>4, <2>1, TIsStable DEF FirstBlock, Put
  <2>3. PICK p, v, y : p = prk /\ v = iv /\ y = info
    OBVIOUS
  <2>4. PICK block : block = MacTerm(prk, <<iv, info, <<"ctr", ctr>>>>)
    OBVIOUS
  <2>5. block = t[1]
    <3>1. t[0] = v /\ \A i \in Nat \ {0} : t[i] = MacTerm(p, <<t[i - 1], y, <<"ctr", i>>>>)
      BY <2>1, <2>3, TIsRfc
    <3>2. t[1] = MacTerm(p, <<t[0], y, <<"ctr", 1>>>>)
      BY <3>1
    <3>3. ctr = 1
      BY <1>4 DEF FirstBlock, HkdfInv
    <3> QED
      BY <2>3, <2>4, <3>1, <3>2, <3>3
  <2>6. PICK n : n = IF rem < HashSize THEN rem ELSE HashSize
    OBVIOUS
  <2>7. /\ temp' = block /\ okm' = okm \o Part(block, n) /\ rem' = rem - n
        /\ kdf' = IF rem = n THEN "true" ELSE "full"
    BY <1>4, <2>4, <2>6 DEF FirstBlock, Put, Part
  <2>8. /\ ctr = 1 /\ okm = <<>> /\ rem = size /\ rem # 0 /\ size <= MaxSize
        /\ size \in Nat /\ rem \in Nat
    BY <1>4 DEF FirstBlock, HkdfInv
  <2>9. n \in 0 .. HashSize /\ n <= rem /\ rem - n \in Nat
    BY <1>0, <2>6, <2>8
  <2>10. okm' = Output(t, n)
    <3>1. Output(t, 0) \o Part(block, n) = Output(t, 0 + n)
      <4>1. PICK z : z = 0
        OBVIOUS
      <4>2. PICK w : w = z * HashSize
        OBVIOUS
      <4>3. z \in Nat /\ block = t[z + 1]
        BY <2>5, <4>1
      <4>4. Output(t, w) \o Part(block, n) = Output(t, w + n)
        BY <2>9, <4>2, <4>3, OutputGrows
      <4>5. w = 0
        BY <1>0, <4>1, <4>2
      <4> QED
        BY <4>4, <4>5
    <3>2. Output(t, 0) = <<>>
      BY DEF Output
    <3>3. 0 + n = n
      BY <1>0, <2>9
    <3> QED
      BY <2>7, <2>8, <3>1, <3>2, <3>3
  <2>11. CASE rem = n
    BY <1>0, <2>2, <2>7, <2>8, <2>9, <2>10, <2>11 DEF HkdfInv
  <2>12. CASE rem # n
    <3>1. n = HashSize /\ 1 * HashSize = HashSize /\ size = 1 * HashSize + rem'
      BY <1>0, <2>6, <2>7, <2>8, <2>12
    <3>2. 1 \in 1 .. CounterMod - 1
      BY <1>0
    <3> QED
      BY <2>2, <2>5, <2>7, <2>8, <2>9, <2>10, <2>12, <3>1, <3>2 DEF HkdfInv
  <2> QED
    BY <2>11, <2>12
<1>5. CASE NextBlock
  <2>1. PICK t : t = T
    OBVIOUS
  <2>2. T' = t /\ UNCHANGED <<prk, iv, info, size>>
    BY <1>5, <2>1, TIsStable DEF NextBlock, Put
  <2>3. PICK p, v, y : p = prk /\ v = iv /\ y = info
    OBVIOUS
  <2>4. PICK c : c = ctr
    OBVIOUS
  <2>5. /\ c \in 1 .. CounterMod - 1 /\ temp = t[c]
        /\ rem # 0 /\ rem \in Nat /\ size \in Nat
        /\ size = c * HashSize + rem /\ size <= MaxSize
        /\ okm = Output(t, c * HashSize)
    BY <1>5, <2>1, <2>4 DEF NextBlock, HkdfInv
  <2>6. c \in Nat /\ c + 1 \in 1 .. CounterMod - 1 /\ (c + 1) % CounterMod = c + 1
    <3>1. c \in Nat /\ c <= CounterMod - 1
      BY <1>0, <2>5
    <3>2. c # CounterMod - 1
      BY <1>0, <2>5
    <3>3. c + 1 \in Nat /\ c + 1 < CounterMod /\ c + 1 >= 1
      BY <1>0, <3>1, <3>2
    <3> QED
      BY <1>0, <3>1, <3>3
  <2>7. PICK block : block = MacTerm(prk, <<temp, info, <<"ctr", (ctr + 1) % CounterMod>>>>)
    OBVIOUS
  <2>8. block = t[c + 1]
    <3>1. \A i \in Nat \ {0} : t[i] = MacTerm(p, <<t[i - 1], y, <<"ctr", i>>>>)
      BY <2>1, <2>3, TIsRfc
    <3>2. c + 1 \in Nat \ {0} /\ (c + 1) - 1 = c
      BY <2>6
    <3>3. t[c + 1] = MacTerm(p, <<t[c], y, <<"ctr", c + 1>>>>)
      BY <3>1, <3>2
    <3> QED
      BY <2>3, <2>4, <2>5, <2>6, <2>7, <3>3
  <2>9. ctr' = c + 1
    BY <1>5, <2>4, <2>6 DEF NextBlock
  <2>10. PICK n : n = IF rem >= HashSize THEN HashSize ELSE rem
    OBVIOUS
  <2>11. /\ rem >= HashSize => temp' = block
         /\ okm' = okm \o Part(block, n) /\ rem' = rem - n
         /\ kdf' = IF rem = n THEN "true" ELSE "full"
    BY <1>5, <2>7, <2>10 DEF NextBlock, Put, Part
  <2>12. n \in 0 .. HashSize /\ n <= rem /\ rem - n \in Nat /\ n \in Nat
    BY <1>0, <2>5, <2>10
  <2>13. PICK m : m = c * HashSize
    OBVIOUS
  <2>14. okm' = Output(t, m + n)
    <3>1. Output(t, m) \o Part(block, n) = Output(t, m + n)
      BY <2>6, <2>8, <2>12, <2>13, OutputGrows
    <3> QED
      BY <2>5, <2>11, <2>13, <3>1
  <2>15. m \in Nat /\ size = m + rem /\ (c + 1) * HashSize = m + HashSize
    BY <1>0, <2>5, <2>6, <2>13
  <2>16. CASE rem = n
    <3>1. okm' = Output(t, size)
      BY <2>14, <2>15, <2>16
    <3>2. kdf' = "true" /\ rem' = 0
      BY <2>5, <2>11, <2>16
    <3> QED
      BY <2>2, <2>5, <2>6, <2>9, <3>1, <3>2 DEF HkdfInv
  <2>17. CASE rem # n
    <3>1. n = HashSize /\ rem >= HashSize
      BY <1>0, <2>5, <2>10, <2>17
    <3>2. temp' = t[c + 1] /\ okm' = Output(t, (c + 1) * HashSize)
      BY <2>8, <2>11, <2>14, <2>15, <3>1
    <3>3. rem' # 0 /\ rem' \in Nat /\ size = (c + 1) * HashSize + rem'
      BY <1>0, <2>5, <2>11, <2>12, <2>15, <2>17, <3>1
    <3>4. kdf' = "full" /\ c + 1 \in Nat
      BY <2>6, <2>11, <2>17
    <3> QED
      BY <2>2, <2>5, <2>6, <2>9, <3>2, <3>3, <3>4 DEF HkdfInv
  <2> QED
    BY <2>16, <2>17
<1>6. CASE HkdfFails
  BY <1>6 DEF HkdfFails, HkdfInv
<1>7. CASE Answered
  BY <1>7 DEF Answered, HkdfInv
<1> QED
  BY <1>1, <1>2, <1>3, <1>4, <1>5, <1>6, <1>7 DEF HkdfNext

\* At every length up to the largest, an output of expand() is the first bytes of
\* T(1) | T(2) | ..., each block under its own counter, and a longer one is refused
\* (HKDF.cpp).
THEOREM OutputIsRfc == HkdfSpec => []HkdfOutput
<1>1. HkdfInit => HkdfInv
  BY DEF HkdfInit, HkdfInv
<1>2. HkdfInv => HkdfOutput
  BY DEF HkdfInv, HkdfOutput, Output
<1> QED
  BY <1>1, <1>2, HkdfNextInv, PTL DEF HkdfSpec

-----------------------------------------------------------------------------
(* HMACDRBG: authenticators and their numbers. *)

\* A list without repetitions.
IsList(terms) ==
  /\ \E S : terms \in Seq(S)
  /\ \A i, j \in 1 .. Len(terms) : terms[i] = terms[j] => i = j

Grows(a, b) == Len(a) <= Len(b) /\ \A i \in 1 .. Len(a) : b[i] = a[i]

LEMMA ListLength ==
  ASSUME NEW terms, IsList(terms)
  PROVE  Len(terms) \in Nat
BY DEF IsList

LEMMA GrowsOn ==
  ASSUME NEW a, NEW b, NEW c, IsList(a), IsList(b), IsList(c), Grows(a, b), Grows(b, c)
  PROVE  Grows(a, c)
<1>1. Len(a) \in Nat /\ Len(b) \in Nat /\ Len(c) \in Nat
  BY ListLength
<1> QED
  BY <1>1 DEF Grows

LEMMA NumberIsPlace ==
  ASSUME NEW terms, IsList(terms), NEW i \in 1 .. Len(terms), NEW term, terms[i] = term
  PROVE  NumberOf(terms, term) = i
<1>1. {j \in 1 .. Len(terms) : terms[j] = term} = {i}
  BY DEF IsList
<1> QED
  BY <1>1 DEF NumberOf

\* A number stays what it is when the list grows.
LEMMA NumberStays ==
  ASSUME NEW a, NEW b, IsList(a), IsList(b), Grows(a, b), NEW key, NEW pieces,
         NumberOf(a, <<key, pieces>>) # 0
  PROVE  MacAt(b, key, pieces) = MacAt(a, key, pieces)
<1>1. PICK term : term = <<key, pieces>>
  OBVIOUS
<1>2. PICK i \in 1 .. Len(a) : a[i] = term
  BY <1>1 DEF NumberOf
<1>3. NumberOf(a, term) = i
  BY <1>2, NumberIsPlace
<1>4. i \in 1 .. Len(b) /\ b[i] = term
  <2>1. Len(a) \in Nat /\ Len(b) \in Nat
    BY ListLength
  <2> QED
    BY <1>2, <2>1 DEF Grows
<1>5. NumberOf(b, term) = i
  BY <1>4, NumberIsPlace
<1> QED
  BY <1>1, <1>3, <1>5 DEF MacAt

\* The list with one more authenticator, if it is a new one.
LEMMA Listed ==
  ASSUME NEW a, IsList(a), NEW term, NEW b,
         b = IF NumberOf(a, term) = 0 THEN Append(a, term) ELSE a
  PROVE  IsList(b) /\ Grows(a, b) /\ NumberOf(b, term) # 0
<1>0. Len(a) \in Nat
  BY ListLength
<1>1. CASE NumberOf(a, term) # 0
  BY <1>0, <1>1 DEF Grows
<1>2. CASE NumberOf(a, term) = 0
  <2>1. \A i \in 1 .. Len(a) : a[i] # term
    <3>1. ASSUME NEW i \in 1 .. Len(a), a[i] = term PROVE FALSE
      BY <1>0, <1>2, <3>1, NumberIsPlace
    <3> QED
      BY <3>1
  <2>2. PICK S : a \in Seq(S)
    BY DEF IsList
  <2>3. PICK U : U = S \cup {term}
    OBVIOUS
  <2>4. a \in Seq(U) /\ term \in U
    BY <2>2, <2>3
  <2>5. b = Append(a, term)
    BY <1>2
  <2>6. /\ b \in Seq(U) /\ Len(b) = Len(a) + 1 /\ b[Len(a) + 1] = term
        /\ \A i \in 1 .. Len(a) : b[i] = a[i]
    BY <2>4, <2>5
  <2>7. \A i, j \in 1 .. Len(b) : b[i] = b[j] => i = j
    <3>1. \A i, j \in 1 .. Len(a) : a[i] = a[j] => i = j
      BY DEF IsList
    <3>2. \A i \in 1 .. Len(b) : i \in 1 .. Len(a) \/ i = Len(a) + 1
      BY <1>0, <2>6
    <3> QED
      BY <2>1, <2>6, <3>1, <3>2
  <2>8. IsList(b)
    BY <2>6, <2>7 DEF IsList
  <2>9. NumberOf(b, term) = Len(a) + 1
    <3>1. Len(a) + 1 \in 1 .. Len(b)
      BY <1>0, <2>6
    <3> QED
      BY <2>6, <2>8, <3>1, NumberIsPlace
  <2> QED
    BY <1>0, <2>6, <2>8, <2>9 DEF Grows
<1> QED
  BY <1>1, <1>2

-----------------------------------------------------------------------------
(* The HMAC calls of HMACDRBG. *)

IsDrbg(m) ==
  m \in [key : {m.key}, key_ : {m.key_}, v_ : {m.v_}, reseedCounter_ : Nat,
         initialized_ : BOOLEAN]

IsRecord(d) ==
  /\ d \in [members : {d.members}, macs : {d.macs}, out : {d.out}, left : Nat, ok : BOOLEAN]
  /\ IsDrbg(d.members) /\ IsList(d.macs)

\* What every step keeps.
Onward(d, r) ==
  /\ IsRecord(r) /\ Grows(d.macs, r.macs)
  /\ r.ok => d.ok /\ r.members.initialized_ = d.members.initialized_

LEMMA OnwardOn ==
  ASSUME NEW c, NEW d, NEW r, IsRecord(c), Onward(c, d), Onward(d, r)
  PROVE  Onward(c, r)
<1>1. Grows(c.macs, r.macs)
  BY GrowsOn DEF Onward, IsRecord
<1> QED
  BY <1>1 DEF Onward

\* The list only grows: an authenticator that is listed by then keeps its number in any
\* list that is to come.
ToCome(d, terms) == IsList(terms) /\ Grows(d.macs, terms)

LEMMA ToComeFrom ==
  ASSUME NEW d, NEW r, IsRecord(d), Onward(d, r), NEW terms, ToCome(r, terms)
  PROVE  ToCome(d, terms)
BY GrowsOn DEF Onward, IsRecord, ToCome

MacMade(d, member, pieces, r) ==
  /\ Onward(d, r) /\ r.out = d.out /\ r.members.key = d.members.key
  /\ member = "key_" => r.members.v_ = d.members.v_
  /\ member = "v_" => r.members.key_ = d.members.key_
  /\ r.ok => \A terms : ToCome(r, terms) =>
               r.members[member] = MacAt(terms, d.members.key, pieces)

LEMMA MacIntoMakes ==
  ASSUME NEW d, IsRecord(d), NEW member \in {"key_", "v_"}, NEW pieces
  PROVE  MacMade(d, member, pieces, MacInto(d, member, pieces))
<1>0. IsList(d.macs) /\ Len(d.macs) \in Nat
  BY ListLength DEF IsRecord
<1>1. CASE ~d.ok
  BY <1>0, <1>1 DEF MacInto, MacMade, Onward, Grows
<1>2. CASE d.ok /\ d.left = 0
  <2>1. PICK r : r = Fail(d)
    OBVIOUS
  <2>2. IsRecord(r) /\ ~r.ok /\ r.macs = d.macs /\ r.out = d.out /\ r.members = d.members
    BY <2>1 DEF Fail, IsRecord
  <2> QED
    BY <1>0, <1>2, <2>1, <2>2 DEF MacInto, MacMade, Onward, Grows
<1>3. CASE d.ok /\ d.left # 0
  <2>1. PICK key, term : key = d.members.key /\ term = <<key, pieces>>
    OBVIOUS
  <2>2. PICK terms : terms = IF NumberOf(d.macs, term) = 0 THEN Append(d.macs, term) ELSE d.macs
    OBVIOUS
  <2>3. PICK mac : mac = MacAt(terms, key, pieces)
    OBVIOUS
  <2>4. IsList(terms) /\ Grows(d.macs, terms) /\ NumberOf(terms, term) # 0
    BY <1>0, <2>2, Listed
  <2>5. PICK r : r = MacInto(d, member, pieces)
    OBVIOUS
  <2>6. r = [d EXCEPT !.members = [d.members EXCEPT ![member] = mac], !.macs = terms, !.left = d.left - 1]
    BY <1>3, <2>1, <2>2, <2>3, <2>5 DEF MacInto, IsRecord
  <2>7. /\ r.members = [d.members EXCEPT ![member] = mac] /\ r.macs = terms /\ r.out = d.out
        /\ r.ok = d.ok /\ r.left = d.left - 1 /\ r.left \in Nat
        /\ r \in [members : {r.members}, macs : {r.macs}, out : {r.out}, left : Nat, ok : BOOLEAN]
    <3>1. d.left - 1 \in Nat
      BY <1>3 DEF IsRecord
    <3>2. /\ r.members = [d.members EXCEPT ![member] = mac] /\ r.macs = terms /\ r.out = d.out
          /\ r.ok = d.ok /\ r.left = d.left - 1
      BY <2>6 DEF IsRecord
    <3>3. r \in [members : {r.members}, macs : {r.macs}, out : {r.out}, left : Nat, ok : BOOLEAN]
      BY <2>6, <3>1, <3>2 DEF IsRecord
    <3> QED
      BY <3>1, <3>2, <3>3
  <2>8. /\ IsDrbg(r.members) /\ r.members[member] = mac /\ r.members.key = key
        /\ r.members.initialized_ = d.members.initialized_
        /\ member = "key_" => r.members.v_ = d.members.v_
        /\ member = "v_" => r.members.key_ = d.members.key_
    BY <2>1, <2>7 DEF IsRecord, IsDrbg
  <2>9. IsRecord(r)
    BY <2>4, <2>7, <2>8 DEF IsRecord
  <2>10. ASSUME NEW later, ToCome(r, later) PROVE mac = MacAt(later, key, pieces)
    BY <2>1, <2>3, <2>4, <2>7, <2>10, NumberStays DEF ToCome
  <2>11. Onward(d, r)
    BY <1>3, <2>4, <2>7, <2>8, <2>9 DEF Onward
  <2> QED
    BY <2>1, <2>5, <2>7, <2>8, <2>10, <2>11 DEF MacMade
<1>4. d.ok \in BOOLEAN
  BY DEF IsRecord
<1> QED
  BY <1>1, <1>2, <1>3, <1>4

Rekeyed(d, r) ==
  /\ Onward(d, r) /\ r.out = d.out
  /\ r.members.key_ = d.members.key_ /\ r.members.v_ = d.members.v_
  /\ r.ok => r.members.key = d.members.key_

LEMMA RekeyRekeys ==
  ASSUME NEW d, IsRecord(d)
  PROVE  Rekeyed(d, Rekey(d))
<1>0. IsList(d.macs) /\ Len(d.macs) \in Nat
  BY ListLength DEF IsRecord
<1>1. CASE ~d.ok
  BY <1>0, <1>1 DEF Rekey, Rekeyed, Onward, Grows
<1>2. CASE d.ok /\ d.left = 0
  <2>1. PICK r : r = Rekey(d)
    OBVIOUS
  <2>2. r = [d EXCEPT !.members = [d.members EXCEPT !.key = BrokenKey], !.ok = FALSE]
    BY <1>2, <2>1 DEF Rekey, Fail, IsRecord
  <2>3. /\ r.members = [d.members EXCEPT !.key = BrokenKey] /\ r.macs = d.macs /\ r.out = d.out
        /\ ~r.ok
        /\ r \in [members : {r.members}, macs : {r.macs}, out : {r.out}, left : Nat, ok : BOOLEAN]
    BY <2>2 DEF IsRecord
  <2>4. /\ IsDrbg(r.members) /\ r.members.key_ = d.members.key_ /\ r.members.v_ = d.members.v_
    BY <2>3 DEF IsRecord, IsDrbg
  <2> QED
    BY <1>0, <2>1, <2>3, <2>4 DEF Rekeyed, Onward, IsRecord, Grows
<1>3. CASE d.ok /\ d.left # 0
  <2>1. PICK r : r = Rekey(d)
    OBVIOUS
  <2>2. r = [d EXCEPT !.members = [d.members EXCEPT !.key = d.members.key_], !.left = d.left - 1]
    BY <1>3, <2>1 DEF Rekey, IsRecord
  <2>3. /\ r.members = [d.members EXCEPT !.key = d.members.key_] /\ r.macs = d.macs /\ r.out = d.out
        /\ r.ok = d.ok /\ r.left \in Nat
        /\ r \in [members : {r.members}, macs : {r.macs}, out : {r.out}, left : Nat, ok : BOOLEAN]
    <3>1. d.left - 1 \in Nat
      BY <1>3 DEF IsRecord
    <3>2. /\ r.members = [d.members EXCEPT !.key = d.members.key_] /\ r.macs = d.macs
          /\ r.out = d.out /\ r.ok = d.ok /\ r.left = d.left - 1
      BY <2>2 DEF IsRecord
    <3>3. r \in [members : {r.members}, macs : {r.macs}, out : {r.out}, left : Nat, ok : BOOLEAN]
      BY <2>2, <3>1, <3>2 DEF IsRecord
    <3> QED
      BY <3>1, <3>2, <3>3
  <2>4. /\ IsDrbg(r.members) /\ r.members.key_ = d.members.key_ /\ r.members.v_ = d.members.v_
        /\ r.members.key = d.members.key_ /\ r.members.initialized_ = d.members.initialized_
    BY <2>3 DEF IsRecord, IsDrbg
  <2> QED
    BY <1>0, <2>1, <2>3, <2>4 DEF Rekeyed, Onward, IsRecord, Grows
<1>4. d.ok \in BOOLEAN
  BY DEF IsRecord
<1> QED
  BY <1>1, <1>2, <1>3, <1>4

\* A round leaves the key in hmac_ and in key_, and the next V.
Rounded(d, byte, data, r) ==
  /\ Onward(d, r) /\ r.out = d.out
  /\ r.ok => r.members.key = r.members.key_
  /\ r.ok => \A terms : ToCome(r, terms) =>
       /\ r.members.key = MacAt(terms, d.members.key, <<d.members.v_, byte>> \o data)
       /\ r.members.v_ = MacAt(terms, r.members.key, <<d.members.v_>>)

LEMMA RoundRounds ==
  ASSUME NEW d, IsRecord(d), NEW byte, NEW data
  PROVE  Rounded(d, byte, data, Round(d, byte, data))
<1>1. PICK key, v, pieces : /\ key = d.members.key /\ v = d.members.v_
                            /\ pieces = <<d.members.v_, byte>> \o data
  OBVIOUS
<1>2. PICK a : a = MacInto(d, "key_", pieces)
  OBVIOUS
<1>3. PICK b : b = Rekey(a)
  OBVIOUS
<1>4. PICK next : next = <<b.members.v_>>
  OBVIOUS
<1>5. PICK r : r = MacInto(b, "v_", next)
  OBVIOUS
<1>6. r = Round(d, byte, data)
  BY <1>1, <1>2, <1>3, <1>4, <1>5 DEF Round, NextV
<1>7. MacMade(d, "key_", pieces, a)
  BY <1>2, MacIntoMakes
<1>8. Rekeyed(a, b)
  BY <1>3, <1>7, RekeyRekeys DEF MacMade, Onward
<1>9. MacMade(b, "v_", next, r)
  BY <1>5, <1>8, MacIntoMakes DEF Rekeyed, Onward
<1>10. Onward(d, a) /\ Onward(a, b) /\ Onward(b, r) /\ IsRecord(a) /\ IsRecord(b)
  BY <1>7, <1>8, <1>9 DEF MacMade, Rekeyed, Onward
<1>11. Onward(d, b) /\ Onward(d, r)
  BY <1>10, OnwardOn
<1>12. r.out = d.out /\ a.members.v_ = v /\ b.members.v_ = v /\ next = <<v>>
       /\ b.members.key_ = a.members.key_ /\ r.members.key = b.members.key
       /\ r.members.key_ = b.members.key_
       /\ (r.ok => b.ok /\ a.ok)
       /\ (b.ok => b.members.key = a.members.key_)
  BY <1>1, <1>4, <1>7, <1>8, <1>9, <1>10 DEF MacMade, Rekeyed, Onward
<1>13. ASSUME r.ok, NEW terms, ToCome(r, terms)
       PROVE  /\ r.members.key = MacAt(terms, key, pieces)
              /\ r.members.v_ = MacAt(terms, r.members.key, <<v>>)
  <2>1. ToCome(b, terms)
    BY <1>10, <1>13, ToComeFrom
  <2>2. ToCome(a, terms)
    BY <1>10, <2>1, ToComeFrom
  <2>3. a.members.key_ = MacAt(terms, key, pieces)
    BY <1>1, <1>7, <1>12, <1>13, <2>2 DEF MacMade
  <2>4. r.members.v_ = MacAt(terms, b.members.key, <<v>>)
    BY <1>9, <1>12, <1>13 DEF MacMade
  <2> QED
    BY <1>12, <1>13, <2>3, <2>4
<1> QED
  BY <1>1, <1>6, <1>11, <1>12, <1>13 DEF Rounded

\* update() is HMAC_DRBG_Update.
Updated(d, data, r) ==
  /\ Onward(d, r) /\ r.out = d.out
  /\ r.ok => r.members.key = r.members.key_
  /\ r.ok => \A terms, s : ToCome(r, terms) /\ s.key = d.members.key /\ s.v = d.members.v_ =>
       UpdateOf(terms, s, data) = [key |-> r.members.key_, v |-> r.members.v_, out |-> <<>>]

LEMMA UpdateUpdates ==
  ASSUME NEW d, IsRecord(d), NEW data
  PROVE  Updated(d, data, MdUpdate(d, data))
<1>1. PICK a : a = Round(d, Byte0, data)
  OBVIOUS
<1>2. Rounded(d, Byte0, data, a)
  BY <1>1, RoundRounds
<1>3. CASE data = <<>>
  <2>1. MdUpdate(d, data) = a
    BY <1>1, <1>3 DEF MdUpdate
  <2>2. ASSUME a.ok, NEW terms, NEW s, ToCome(a, terms), s.key = d.members.key, s.v = d.members.v_
        PROVE  UpdateOf(terms, s, data) = [key |-> a.members.key_, v |-> a.members.v_, out |-> <<>>]
    <3>1. /\ a.members.key = MacAt(terms, s.key, <<s.v, Byte0>> \o data)
          /\ a.members.v_ = MacAt(terms, a.members.key, <<s.v>>)
          /\ a.members.key = a.members.key_
      BY <1>2, <2>2 DEF Rounded
    <3>2. PICK key1 : key1 = MacAt(terms, s.key, <<s.v, Byte0>> \o data)
      OBVIOUS
    <3>3. UpdateOf(terms, s, data) = [key |-> key1, v |-> MacAt(terms, key1, <<s.v>>), out |-> <<>>]
      BY <1>3, <3>2 DEF UpdateOf
    <3> QED
      BY <3>1, <3>2, <3>3
  <2> QED
    BY <1>2, <2>1, <2>2 DEF Rounded, Updated
<1>4. CASE data # <<>>
  <2>1. PICK r : r = Round(a, Byte1, data)
    OBVIOUS
  <2>2. MdUpdate(d, data) = r
    BY <1>1, <1>4, <2>1 DEF MdUpdate
  <2>3. IsRecord(a)
    BY <1>2 DEF Rounded, Onward
  <2>4. Rounded(a, Byte1, data, r)
    BY <2>1, <2>3, RoundRounds
  <2>5. Onward(d, r) /\ r.out = d.out
    BY <1>2, <2>4, OnwardOn DEF Rounded
  <2>6. ASSUME r.ok, NEW terms, NEW s, ToCome(r, terms), s.key = d.members.key, s.v = d.members.v_
        PROVE  UpdateOf(terms, s, data) = [key |-> r.members.key_, v |-> r.members.v_, out |-> <<>>]
    <3>1. ToCome(a, terms) /\ a.ok
      BY <2>3, <2>4, <2>6, ToComeFrom DEF Rounded, Onward
    <3>2. /\ a.members.key = MacAt(terms, s.key, <<s.v, Byte0>> \o data)
          /\ a.members.v_ = MacAt(terms, a.members.key, <<s.v>>)
      BY <1>2, <2>6, <3>1 DEF Rounded
    <3>3. /\ r.members.key = MacAt(terms, a.members.key, <<a.members.v_, Byte1>> \o data)
          /\ r.members.v_ = MacAt(terms, r.members.key, <<a.members.v_>>)
          /\ r.members.key = r.members.key_
      BY <2>4, <2>6 DEF Rounded
    <3>4. PICK key1 : key1 = MacAt(terms, s.key, <<s.v, Byte0>> \o data)
      OBVIOUS
    <3>5. PICK v1 : v1 = MacAt(terms, key1, <<s.v>>)
      OBVIOUS
    <3>6. PICK key2 : key2 = MacAt(terms, key1, <<v1, Byte1>> \o data)
      OBVIOUS
    <3>7. UpdateOf(terms, s, data) = [key |-> key2, v |-> MacAt(terms, key2, <<v1>>), out |-> <<>>]
      BY <1>4, <3>4, <3>5, <3>6 DEF UpdateOf
    <3>8. a.members.key = key1 /\ a.members.v_ = v1
      BY <3>2, <3>4, <3>5
    <3> QED
      BY <3>3, <3>6, <3>7, <3>8
  <2> QED
    BY <2>2, <2>4, <2>5, <2>6 DEF Rounded, Updated
<1> QED
  BY <1>3, <1>4

\* V after each of n blocks.
Chain(terms, key, v, n, vs) ==
  vs = [i \in 0 .. n |-> IF i = 0 THEN v ELSE MacAt(terms, key, <<vs[i - 1]>>)]

LEMMA ChainIsDefined ==
  ASSUME NEW terms, NEW key, NEW v
  PROVE  \A n \in Nat : \E vs : Chain(terms, key, v, n, vs)
<1> DEFINE S == {n \in Nat : \E vs : Chain(terms, key, v, n, vs)}
<1>1. 0 \in S
  <2>1. PICK vs : vs = [i \in 0 .. 0 |-> v]
    OBVIOUS
  <2>2. Chain(terms, key, v, 0, vs)
    BY <2>1 DEF Chain
  <2> QED
    BY <2>2
<1>2. ASSUME NEW n \in S PROVE n + 1 \in S
  <2>1. n \in Nat
    OBVIOUS
  <2>2. PICK vs : Chain(terms, key, v, n, vs)
    OBVIOUS
  <2>3. PICK w : w = MacAt(terms, key, <<vs[n]>>)
    OBVIOUS
  <2>4. PICK ws : ws = [i \in 0 .. n + 1 |-> IF i <= n THEN vs[i] ELSE w]
    OBVIOUS
  <2>5. \A i \in 0 .. n : vs[i] = IF i = 0 THEN v ELSE MacAt(terms, key, <<vs[i - 1]>>)
    BY <2>2 DEF Chain
  <2>6. ASSUME NEW i \in 0 .. n + 1
        PROVE  ws[i] = IF i = 0 THEN v ELSE MacAt(terms, key, <<ws[i - 1]>>)
    <3>1. CASE i <= n
      <4>1. i \in 0 .. n /\ (i # 0 => i - 1 \in 0 .. n)
        BY <2>1, <3>1
      <4>2. ws[i] = vs[i] /\ (i # 0 => ws[i - 1] = vs[i - 1])
        BY <2>1, <2>4, <4>1
      <4> QED
        BY <2>5, <4>1, <4>2
    <3>2. CASE i = n + 1
      <4>1. ws[i] = w /\ ws[n] = vs[n] /\ i # 0 /\ i - 1 = n
        BY <2>1, <2>4, <3>2
      <4> QED
        BY <2>3, <3>2, <4>1
    <3> QED
      BY <2>1, <3>1, <3>2
  <2>7. ws = [i \in 0 .. n + 1 |-> IF i = 0 THEN v ELSE MacAt(terms, key, <<ws[i - 1]>>)]
    BY <2>4, <2>6
  <2>8. Chain(terms, key, v, n + 1, ws)
    BY <2>7 DEF Chain
  <2> QED
    BY <2>1, <2>8
<1> HIDE DEF S
<1>3. S \in SUBSET Nat
  BY DEF S
<1>4. S = Nat
  BY <1>1, <1>2, <1>3, SetInduction
<1> QED
  BY <1>4 DEF S

LEMMA StreamIsChain ==
  ASSUME NEW terms, NEW s, NEW n \in Nat, NEW vs, vs = Stream(terms, s, n)
  PROVE  vs[0] = s.v /\ \A i \in 1 .. n : vs[i] = MacAt(terms, s.key, <<vs[i - 1]>>)
<1>1. PICK key, v : key = s.key /\ v = s.v
  OBVIOUS
<1>2. vs = CHOOSE ws : ws = [i \in 0 .. n |-> IF i = 0 THEN v ELSE MacAt(terms, key, <<ws[i - 1]>>)]
  BY <1>1 DEF Stream
<1>3. \E ws : ws = [i \in 0 .. n |-> IF i = 0 THEN v ELSE MacAt(terms, key, <<ws[i - 1]>>)]
  <2>1. \E ws : Chain(terms, key, v, n, ws)
    BY ChainIsDefined
  <2> QED
    BY <2>1 DEF Chain
<1>4. vs = [i \in 0 .. n |-> IF i = 0 THEN v ELSE MacAt(terms, key, <<vs[i - 1]>>)]
  BY <1>2, <1>3
<1>5. 0 \in 0 .. n /\ \A i \in 1 .. n : i \in 0 .. n /\ i # 0
  OBVIOUS
<1> QED
  BY <1>1, <1>4, <1>5

\* One block of generate().
BlockAfter(d) ==
  LET next == NextV(d)
  IN IF next.ok THEN [next EXCEPT !.out = Append(@, next.members.v_)] ELSE next

\* The record after each of n blocks.
Drawing(d, n, done) == done = [i \in 0 .. n |-> IF i = 0 THEN d ELSE BlockAfter(done[i - 1])]

LEMMA DrawingIsDefined ==
  ASSUME NEW d
  PROVE  \A n \in Nat : \E done : Drawing(d, n, done)
<1> DEFINE S == {n \in Nat : \E done : Drawing(d, n, done)}
<1>1. 0 \in S
  <2>1. PICK done : done = [i \in 0 .. 0 |-> d]
    OBVIOUS
  <2>2. Drawing(d, 0, done)
    BY <2>1 DEF Drawing
  <2> QED
    BY <2>2
<1>2. ASSUME NEW n \in S PROVE n + 1 \in S
  <2>1. n \in Nat
    OBVIOUS
  <2>2. PICK done : Drawing(d, n, done)
    OBVIOUS
  <2>3. PICK r : r = BlockAfter(done[n])
    OBVIOUS
  <2>4. PICK more : more = [i \in 0 .. n + 1 |-> IF i <= n THEN done[i] ELSE r]
    OBVIOUS
  <2>5. \A i \in 0 .. n : done[i] = IF i = 0 THEN d ELSE BlockAfter(done[i - 1])
    BY <2>2 DEF Drawing
  <2>6. ASSUME NEW i \in 0 .. n + 1
        PROVE  more[i] = IF i = 0 THEN d ELSE BlockAfter(more[i - 1])
    <3>1. CASE i <= n
      <4>1. i \in 0 .. n /\ (i # 0 => i - 1 \in 0 .. n)
        BY <2>1, <3>1
      <4>2. more[i] = done[i] /\ (i # 0 => more[i - 1] = done[i - 1])
        BY <2>1, <2>4, <4>1
      <4> QED
        BY <2>5, <4>1, <4>2
    <3>2. CASE i = n + 1
      <4>1. more[i] = r /\ more[n] = done[n] /\ i # 0 /\ i - 1 = n
        BY <2>1, <2>4, <3>2
      <4> QED
        BY <2>3, <3>2, <4>1
    <3> QED
      BY <2>1, <3>1, <3>2
  <2>7. more = [i \in 0 .. n + 1 |-> IF i = 0 THEN d ELSE BlockAfter(more[i - 1])]
    BY <2>4, <2>6
  <2>8. Drawing(d, n + 1, more)
    BY <2>7 DEF Drawing
  <2> QED
    BY <2>1, <2>8
<1> HIDE DEF S
<1>3. S \in SUBSET Nat
  BY DEF S
<1>4. S = Nat
  BY <1>1, <1>2, <1>3, SetInduction
<1> QED
  BY <1>4 DEF S

\* The first i blocks are those of the stream, in any list that is to come.
Drawn(d, n, i, r) ==
  /\ Onward(d, r)
  /\ r.ok => r.members.key = d.members.key /\ r.members.key_ = d.members.key_
  /\ r.ok => \A terms, s, vs :
       ToCome(r, terms) /\ s.key = d.members.key /\ s.v = d.members.v_ /\ vs = Stream(terms, s, n)
       => r.members.v_ = vs[i] /\ r.out = [j \in 1 .. i |-> vs[j]]

LEMMA OneMore ==
  ASSUME NEW i \in Nat, NEW vs
  PROVE  Append([j \in 1 .. i |-> vs[j]], vs[i + 1]) = [j \in 1 .. i + 1 |-> vs[j]]
<1>1. PICK U : U = {vs[j] : j \in 1 .. i + 1}
  OBVIOUS
<1>2. PICK a, b, x : a = [j \in 1 .. i |-> vs[j]] /\ b = [j \in 1 .. i + 1 |-> vs[j]] /\ x = vs[i + 1]
  OBVIOUS
<1>3. a \in Seq(U) /\ Len(a) = i
  <2>1. a \in [1 .. i -> U]
    BY <1>1, <1>2
  <2> QED
    BY <2>1
<1>4. b \in Seq(U) /\ Len(b) = i + 1
  <2>1. PICK n : n = i + 1
    OBVIOUS
  <2>2. b \in [1 .. n -> U] /\ n \in Nat
    BY <1>1, <1>2, <2>1
  <2> QED
    BY <2>1, <2>2
<1>5. x \in U
  BY <1>1, <1>2
<1>6. PICK c : c = Append(a, x)
  OBVIOUS
<1>7. c \in Seq(U) /\ Len(c) = i + 1 /\ c[i + 1] = x /\ \A j \in 1 .. i : c[j] = a[j]
  BY <1>3, <1>5, <1>6
<1>8. \A j \in 1 .. i + 1 : c[j] = b[j]
  BY <1>2, <1>7
<1>9. c = b
  BY <1>4, <1>7, <1>8, SeqEqual
<1> QED
  BY <1>2, <1>6, <1>9

LEMMA BlocksDraw ==
  ASSUME NEW d, IsRecord(d), d.out = <<>>, NEW n \in Nat
  PROVE  Drawn(d, n, n, Blocks(d, n))
<1>1. PICK done : /\ Blocks(d, n) = done[n]
                  /\ Drawing(d, n, done)
  <2>1. \E done : done = [i \in 0 .. n |-> IF i = 0 THEN d ELSE BlockAfter(done[i - 1])]
    BY DrawingIsDefined DEF Drawing
  <2> QED
    BY <2>1 DEF Blocks, Drawing, BlockAfter
<1>2. \A i \in 0 .. n : done[i] = IF i = 0 THEN d ELSE BlockAfter(done[i - 1])
  BY <1>1 DEF Drawing
<1> DEFINE S == {i \in Nat : i <= n => Drawn(d, n, i, done[i])}
<1>3. 0 \in S
  <2>1. 0 \in 0 .. n
    OBVIOUS
  <2>2. done[0] = d
    BY <1>2, <2>1
  <2>3. Onward(d, d)
    BY ListLength DEF Onward, IsRecord, Grows
  <2>4. ASSUME NEW terms, NEW s, s.v = d.members.v_, NEW vs, vs = Stream(terms, s, n)
        PROVE  d.members.v_ = vs[0] /\ d.out = [j \in 1 .. 0 |-> vs[j]]
    <3>1. vs[0] = s.v
      BY <2>4, StreamIsChain
    <3>2. <<>> = [j \in 1 .. 0 |-> vs[j]]
      OBVIOUS
    <3> QED
      BY <2>4, <3>1, <3>2
  <2>5. Drawn(d, n, 0, d)
    BY <2>3, <2>4 DEF Drawn
  <2> QED
    BY <2>2, <2>5
<1>4. ASSUME NEW i \in S PROVE i + 1 \in S
  <2>0. i \in Nat
    OBVIOUS
  <2> SUFFICES ASSUME i + 1 <= n PROVE Drawn(d, n, i + 1, done[i + 1])
    BY <2>0
  <2>1. PICK q : q = done[i]
    OBVIOUS
  <2>2. PICK r : r = done[i + 1]
    OBVIOUS
  <2>3. Drawn(d, n, i, q) /\ IsRecord(q)
    <3>1. Drawn(d, n, i, q)
      BY <2>0, <2>1
    <3> QED
      BY <3>1 DEF Drawn, Onward
  <2>4. PICK next : next = NextV(q)
    OBVIOUS
  <2>5. r = IF next.ok THEN [next EXCEPT !.out = Append(@, next.members.v_)] ELSE next
    <3>1. i + 1 \in 0 .. n /\ i + 1 # 0 /\ (i + 1) - 1 = i
      BY <2>0
    <3>2. r = BlockAfter(q)
      BY <1>2, <2>1, <2>2, <3>1
    <3> QED
      BY <2>4, <3>2 DEF BlockAfter
  <2>6. PICK v, piece : v = q.members.v_ /\ piece = <<v>>
    OBVIOUS
  <2>7. MacMade(q, "v_", piece, next)
    BY <2>3, <2>4, <2>6, MacIntoMakes DEF NextV
  <2>8. Onward(q, next) /\ IsRecord(next)
    BY <2>7 DEF MacMade, Onward
  <2>9. Onward(d, next)
    BY <2>3, <2>8, OnwardOn DEF Drawn
  <2>10. CASE ~next.ok
    BY <2>2, <2>5, <2>9, <2>10 DEF Drawn
  <2>11. CASE next.ok
    <3>1. PICK out : out = Append(q.out, next.members.v_)
      OBVIOUS
    <3>2. /\ r.members = next.members /\ r.macs = next.macs /\ r.ok /\ r.out = out
          /\ IsRecord(r)
      <4>1. r = [next EXCEPT !.out = out]
        BY <2>5, <2>7, <2>11, <3>1 DEF MacMade
      <4>2. /\ r.members = next.members /\ r.macs = next.macs /\ r.ok = next.ok /\ r.out = out
            /\ r \in [members : {r.members}, macs : {r.macs}, out : {r.out}, left : Nat, ok : BOOLEAN]
        BY <2>8, <4>1 DEF IsRecord
      <4> QED
        BY <2>8, <2>11, <4>2 DEF IsRecord
    <3>3. Onward(d, r)
      BY <2>9, <2>11, <3>2 DEF Onward
    <3>4. /\ q.ok /\ r.members.key = d.members.key /\ r.members.key_ = d.members.key_
          /\ q.members.key = d.members.key
      BY <2>3, <2>7, <2>8, <2>11, <3>2 DEF MacMade, Onward, Drawn
    <3>5. ASSUME NEW terms, NEW s, NEW vs, ToCome(r, terms), s.key = d.members.key,
                 s.v = d.members.v_, vs = Stream(terms, s, n)
          PROVE  r.members.v_ = vs[i + 1] /\ r.out = [j \in 1 .. i + 1 |-> vs[j]]
      <4>1. ToCome(next, terms)
        BY <3>2, <3>5 DEF ToCome
      <4>2. ToCome(q, terms)
        BY <2>3, <2>8, <4>1, ToComeFrom
      <4>3. v = vs[i] /\ q.out = [j \in 1 .. i |-> vs[j]]
        BY <2>3, <2>6, <3>4, <3>5, <4>2 DEF Drawn
      <4>4. next.members.v_ = MacAt(terms, s.key, <<vs[i]>>)
        BY <2>6, <2>7, <2>11, <3>4, <3>5, <4>1, <4>3 DEF MacMade
      <4>5. vs[i + 1] = MacAt(terms, s.key, <<vs[i]>>)
        <5>1. i + 1 \in 1 .. n /\ (i + 1) - 1 = i
          BY <2>0
        <5>2. \A j \in 1 .. n : vs[j] = MacAt(terms, s.key, <<vs[j - 1]>>)
          BY <3>5, StreamIsChain
        <5> QED
          BY <5>1, <5>2
      <4>6. next.members.v_ = vs[i + 1]
        BY <4>4, <4>5
      <4>7. Append([j \in 1 .. i |-> vs[j]], vs[i + 1]) = [j \in 1 .. i + 1 |-> vs[j]]
        BY <2>0, OneMore
      <4> QED
        BY <3>1, <3>2, <4>3, <4>6, <4>7
    <3>6. Drawn(d, n, i + 1, r)
      BY <3>3, <3>4, <3>5 DEF Drawn
    <3> QED
      BY <2>2, <3>6
  <2>12. next.ok \in BOOLEAN
    BY <2>8 DEF IsRecord
  <2> QED
    BY <2>10, <2>11, <2>12
<1> HIDE DEF S
<1>5. S \in SUBSET Nat
  BY DEF S
<1>6. S = Nat
  BY <1>3, <1>4, <1>5, SetInduction
<1> QED
  BY <1>1, <1>6 DEF S

-----------------------------------------------------------------------------
(* The invariant of HMACDRBG. *)

\* While no call has failed since init(), the members are the standard's state.
HmacDrbgInv ==
  /\ IsDrbg(drbg) /\ IsList(macs) /\ intact \in BOOLEAN
  /\ standard \in [key : {standard.key}, v : {standard.v}, out : {standard.out}]
  /\ HmacDrbgAsStandard

LEMMA SameIsRecord ==
  ASSUME NEW m, IsDrbg(m), IsList(macs), NEW n \in Nat, NEW d, d = [Same(m) EXCEPT !.left = n]
  PROVE  IsRecord(d) /\ d.members = m /\ d.macs = macs /\ d.out = <<>> /\ d.ok
BY DEF Same, IsRecord

LEMMA IsListToCome ==
  ASSUME NEW d, IsRecord(d)
  PROVE  ToCome(d, d.macs)
BY ListLength DEF ToCome, IsRecord, Grows

\* What a call leaves when it returns: members is drbg after a call that succeeds.
LEMMA ReturnKeeps ==
  ASSUME NEW d, IsRecord(d), NEW members, NEW std, Return(d, members, std),
         d.ok => IsDrbg(members),
         HmacDrbgInv, intact' \in BOOLEAN, intact' => d.ok,
         d.ok => std \in [key : {std.key}, v : {std.v}, out : {std.out}],
         intact' => /\ members.key = members.key_ /\ members.initialized_
                    /\ std = [key |-> members.key_, v |-> members.v_, out |-> d.out]
  PROVE  HmacDrbgInv'
<1>1. CASE d.ok
  <2>1. drbg' = members /\ macs' = d.macs /\ output' = d.out /\ standard' = std
    BY <1>1 DEF Return
  <2> QED
    BY <1>1, <2>1 DEF HmacDrbgInv, HmacDrbgAsStandard, IsRecord, IsDrbg
<1>2. CASE ~d.ok
  <2>1. drbg' = d.members /\ macs' = d.macs /\ standard' = [standard EXCEPT !.out = <<>>]
    BY <1>2 DEF Return
  <2> QED
    BY <1>2, <2>1 DEF HmacDrbgInv, HmacDrbgAsStandard, IsRecord, IsDrbg
<1> QED
  BY <1>1, <1>2 DEF IsRecord

LEMMA StandardUpdated ==
  ASSUME NEW terms, NEW s, NEW data
  PROVE  LET u == UpdateOf(terms, s, data)
         IN u \in [key : {u.key}, v : {u.v}, out : {u.out}]
BY DEF UpdateOf

LEMMA MdInitKeeps ==
  ASSUME HmacDrbgInv, NEW extra, NEW n \in Nat, MdInit(extra, n)
  PROVE  HmacDrbgInv'
<1>1. PICK m : m = [drbg EXCEPT !.key_ = ZeroBytes, !.v_ = OneBytes]
  OBVIOUS
<1>2. IsDrbg(m) /\ m.key_ = ZeroBytes /\ m.v_ = OneBytes
  BY <1>1 DEF HmacDrbgInv, IsDrbg
<1>3. PICK start : start = [Same(m) EXCEPT !.left = n]
  OBVIOUS
<1>4. IsRecord(start) /\ start.members = m /\ start.out = <<>>
  BY <1>2, <1>3, SameIsRecord DEF HmacDrbgInv
<1>5. PICK data : data = Data(<<MdEntropy, extra>>)
  OBVIOUS
<1>6. PICK a : a = Rekey(start)
  OBVIOUS
<1>7. PICK d : d = MdUpdate(a, data)
  OBVIOUS
<1>8. Rekeyed(start, a)
  BY <1>4, <1>6, RekeyRekeys
<1>9. Updated(a, data, d)
  BY <1>7, <1>8, UpdateUpdates DEF Rekeyed, Onward
<1>10. PICK s : s = [key |-> ZeroBytes, v |-> OneBytes, out |-> <<>>]
  OBVIOUS
<1>11. PICK u : u = UpdateOf(d.macs, s, data)
  OBVIOUS
<1>12. PICK members : members = [d.members EXCEPT !.reseedCounter_ = 1, !.initialized_ = TRUE]
  OBVIOUS
<1>13. Return(d, members, u) /\ intact' = d.ok
  BY <1>1, <1>3, <1>5, <1>6, <1>7, <1>10, <1>11, <1>12 DEF MdInit
<1>14. IsRecord(d) /\ d.out = <<>> /\ (d.ok => a.ok)
  BY <1>4, <1>8, <1>9 DEF Updated, Onward, Rekeyed
<1>15. /\ IsDrbg(members) /\ members.initialized_ = TRUE /\ members.key = d.members.key
       /\ members.key_ = d.members.key_ /\ members.v_ = d.members.v_
  BY <1>12, <1>14 DEF IsRecord, IsDrbg
<1>16. d.ok => /\ members.key = members.key_
               /\ u = [key |-> members.key_, v |-> members.v_, out |-> d.out]
  <2>1. d.ok => s.key = a.members.key /\ s.v = a.members.v_
    BY <1>2, <1>4, <1>8, <1>10, <1>14 DEF Rekeyed
  <2>2. ToCome(d, d.macs)
    BY <1>14, IsListToCome
  <2> QED
    BY <1>9, <1>11, <1>14, <1>15, <2>1, <2>2 DEF Updated
<1>17. u \in [key : {u.key}, v : {u.v}, out : {u.out}]
  BY <1>11, StandardUpdated
<1>18. intact' \in BOOLEAN /\ (intact' => d.ok)
  BY <1>13, <1>14 DEF IsRecord
<1> QED
  BY <1>13, <1>14, <1>15, <1>16, <1>17, <1>18, ReturnKeeps

LEMMA MdReseedKeeps ==
  ASSUME HmacDrbgInv, NEW extra, NEW n \in Nat, MdReseed(extra, n)
  PROVE  HmacDrbgInv'
<1>1. PICK m : m = drbg
  OBVIOUS
<1>2. PICK start : start = [Same(m) EXCEPT !.left = n]
  OBVIOUS
<1>3. IsRecord(start) /\ start.members = m /\ start.out = <<>>
  BY <1>1, <1>2, SameIsRecord DEF HmacDrbgInv
<1>4. PICK data : data = Data(<<MdEntropy, extra>>)
  OBVIOUS
<1>5. PICK d : d = MdUpdate(start, data)
  OBVIOUS
<1>6. Updated(start, data, d)
  BY <1>3, <1>5, UpdateUpdates
<1>7. PICK s : s = standard
  OBVIOUS
<1>8. PICK u : u = UpdateOf(d.macs, s, data)
  OBVIOUS
<1>9. PICK members : members = [d.members EXCEPT !.reseedCounter_ = 1]
  OBVIOUS
<1>10. Return(d, members, u) /\ intact' = (intact /\ d.ok)
  BY <1>1, <1>2, <1>4, <1>5, <1>7, <1>8, <1>9 DEF MdReseed
<1>11. IsRecord(d) /\ d.out = <<>> /\ (d.ok => d.members.initialized_ = m.initialized_)
  BY <1>3, <1>6 DEF Updated, Onward
<1>12. /\ IsDrbg(members) /\ members.initialized_ = d.members.initialized_
       /\ members.key = d.members.key
       /\ members.key_ = d.members.key_ /\ members.v_ = d.members.v_
  BY <1>9, <1>11 DEF IsRecord, IsDrbg
<1>13. intact /\ d.ok => /\ members.key = members.key_ /\ members.initialized_
                         /\ u = [key |-> members.key_, v |-> members.v_, out |-> d.out]
  <2>1. intact => s.key = start.members.key /\ s.v = start.members.v_ /\ m.initialized_
    BY <1>1, <1>3, <1>7 DEF HmacDrbgInv, HmacDrbgAsStandard
  <2>2. ToCome(d, d.macs)
    BY <1>11, IsListToCome
  <2> QED
    BY <1>6, <1>8, <1>11, <1>12, <2>1, <2>2 DEF Updated
<1>14. u \in [key : {u.key}, v : {u.v}, out : {u.out}]
  BY <1>8, StandardUpdated
<1>15. intact' \in BOOLEAN /\ (intact' => intact /\ d.ok)
  BY <1>10, <1>11 DEF IsRecord, HmacDrbgInv
<1> QED
  BY <1>10, <1>11, <1>12, <1>13, <1>14, <1>15, ReturnKeeps

LEMMA MdGenerateKeeps ==
  ASSUME HmacDrbgInv, NEW extra, NEW blocks \in Nat, NEW n \in Nat, MdGenerate(extra, blocks, n)
  PROVE  HmacDrbgInv'
<1>1. PICK m : m = drbg
  OBVIOUS
<1>2. PICK start : start = [Same(m) EXCEPT !.left = n]
  OBVIOUS
<1>3. IsRecord(start) /\ start.members = m /\ start.out = <<>>
  BY <1>1, <1>2, SameIsRecord DEF HmacDrbgInv
<1>4. PICK data : data = Data(<<extra>>)
  OBVIOUS
<1>5. PICK mixed : mixed = IF data = <<>> THEN start ELSE MdUpdate(start, data)
  OBVIOUS
<1>6. PICK drawn : drawn = Blocks(mixed, blocks)
  OBVIOUS
<1>7. PICK d : d = MdUpdate(drawn, data)
  OBVIOUS
<1>8. PICK s : s = standard
  OBVIOUS
<1>9. PICK u : u = GenerateOf(d.macs, s, data, blocks)
  OBVIOUS
<1>10. PICK members : members = [d.members EXCEPT !.reseedCounter_ = @ + 1]
  OBVIOUS
<1>11. Return(d, members, u) /\ intact' = (intact /\ d.ok)
  BY <1>1, <1>2, <1>4, <1>5, <1>6, <1>7, <1>8, <1>9, <1>10 DEF MdGenerate
<1>12. /\ Onward(start, mixed) /\ IsRecord(mixed) /\ mixed.out = <<>>
       /\ data # <<>> => Updated(start, data, mixed)
  <2>1. CASE data = <<>>
    BY <1>3, <1>5, <2>1, ListLength DEF Onward, IsRecord, Grows
  <2>2. CASE data # <<>>
    <3>1. Updated(start, data, mixed)
      BY <1>3, <1>5, <2>2, UpdateUpdates
    <3> QED
      BY <1>3, <3>1, <2>2 DEF Updated, Onward
  <2> QED
    BY <2>1, <2>2
<1>13. Drawn(mixed, blocks, blocks, drawn)
  BY <1>6, <1>12, BlocksDraw
<1>14. IsRecord(drawn) /\ Onward(mixed, drawn)
  BY <1>13 DEF Drawn, Onward
<1>15. Updated(drawn, data, d)
  BY <1>7, <1>14, UpdateUpdates
<1>16. IsRecord(d) /\ Onward(drawn, d) /\ d.out = drawn.out /\ Onward(start, d)
  <2>1. IsRecord(d) /\ Onward(drawn, d) /\ d.out = drawn.out
    BY <1>15 DEF Updated, Onward
  <2>2. Onward(start, drawn)
    BY <1>3, <1>12, <1>14, OnwardOn
  <2> QED
    BY <1>3, <2>1, <2>2, OnwardOn
<1>17. /\ IsDrbg(members) /\ members.initialized_ = d.members.initialized_
       /\ members.key = d.members.key
       /\ members.key_ = d.members.key_ /\ members.v_ = d.members.v_
  BY <1>10, <1>16 DEF IsRecord, IsDrbg
<1>18. PICK s1 : s1 = IF data = <<>> THEN s ELSE UpdateOf(d.macs, s, data)
  OBVIOUS
<1>19. PICK vs : vs = Stream(d.macs, s1, blocks)
  OBVIOUS
<1>20. PICK s2 : s2 = [s1 EXCEPT !.v = vs[blocks]]
  OBVIOUS
<1>21. u = [UpdateOf(d.macs, s2, data) EXCEPT !.out = [i \in 1 .. blocks |-> vs[i]]]
  BY <1>9, <1>18, <1>19, <1>20 DEF GenerateOf
<1>22. u \in [key : {u.key}, v : {u.v}, out : {u.out}]
  <2>1. PICK w : w = UpdateOf(d.macs, s2, data)
    OBVIOUS
  <2>2. w \in [key : {w.key}, v : {w.v}, out : {w.out}]
    BY <2>1, StandardUpdated
  <2> QED
    BY <1>21, <2>1, <2>2
<1>23. ASSUME intact, d.ok
       PROVE  /\ members.key = members.key_ /\ members.initialized_
              /\ u = [key |-> members.key_, v |-> members.v_, out |-> d.out]
  <2>1. s.key = start.members.key /\ s.v = start.members.v_ /\ m.initialized_
    BY <1>1, <1>3, <1>8, <1>23 DEF HmacDrbgInv, HmacDrbgAsStandard
  <2>2. ToCome(d, d.macs)
    BY <1>16, IsListToCome
  <2>3. ToCome(drawn, d.macs)
    BY <1>14, <1>16, <2>2, ToComeFrom
  <2>4. ToCome(mixed, d.macs)
    BY <1>12, <1>14, <2>3, ToComeFrom
  <2>5. drawn.ok /\ mixed.ok /\ d.members.initialized_ = m.initialized_
    BY <1>3, <1>14, <1>16, <1>23 DEF Onward
  <2>6. s1.key = mixed.members.key /\ s1.v = mixed.members.v_
        /\ s1 \in [key : {s1.key}, v : {s1.v}, out : {s1.out}]
    <3>1. CASE data = <<>>
      BY <1>5, <1>8, <1>18, <2>1, <3>1 DEF HmacDrbgInv
    <3>2. CASE data # <<>>
      <4>1. UpdateOf(d.macs, s, data)
              = [key |-> mixed.members.key_, v |-> mixed.members.v_, out |-> <<>>]
        BY <1>12, <2>1, <2>4, <2>5, <3>2 DEF Updated
      <4>2. mixed.members.key = mixed.members.key_
        BY <1>12, <2>5, <3>2 DEF Updated
      <4> QED
        BY <1>18, <3>2, <4>1, <4>2
    <3> QED
      BY <3>1, <3>2
  <2>7. /\ drawn.members.v_ = vs[blocks] /\ drawn.out = [j \in 1 .. blocks |-> vs[j]]
        /\ drawn.members.key = mixed.members.key
    BY <1>13, <1>19, <2>3, <2>5, <2>6 DEF Drawn
  <2>8. s2.key = drawn.members.key /\ s2.v = drawn.members.v_
    BY <1>20, <2>6, <2>7
  <2>9. /\ members.key = members.key_
        /\ UpdateOf(d.macs, s2, data) = [key |-> d.members.key_, v |-> d.members.v_, out |-> <<>>]
    BY <1>15, <1>17, <1>23, <2>2, <2>8 DEF Updated
  <2>10. u = [key |-> d.members.key_, v |-> d.members.v_, out |-> d.out]
    <3>1. PICK out : out = [j \in 1 .. blocks |-> vs[j]]
      OBVIOUS
    <3>2. d.out = out
      BY <1>16, <2>7, <3>1
    <3>3. u = [[key |-> d.members.key_, v |-> d.members.v_, out |-> <<>>] EXCEPT !.out = out]
      BY <1>21, <2>9, <3>1
    <3> QED
      BY <3>2, <3>3
  <2> QED
    BY <1>17, <2>1, <2>5, <2>9, <2>10
<1>24. intact' \in BOOLEAN /\ (intact' => intact /\ d.ok)
  BY <1>11, <1>16 DEF IsRecord, HmacDrbgInv
<1> QED
  BY <1>11, <1>16, <1>17, <1>22, <1>23, <1>24, ReturnKeeps

LEMMA HmacDrbgNextInv == HmacDrbgInv /\ [HmacDrbgNext]_drbgVars => HmacDrbgInv'
<1> SUFFICES ASSUME HmacDrbgInv, [HmacDrbgNext]_drbgVars PROVE HmacDrbgInv'
  OBVIOUS
<1>1. CASE UNCHANGED drbgVars
  BY <1>1 DEF drbgVars, HmacDrbgInv, HmacDrbgAsStandard, IsDrbg, IsList
<1>2. \A n \in 0 .. HmacCalls : n \in Nat
  OBVIOUS
<1>3. \A blocks \in 0 .. MaxOutBlocks : blocks \in Nat
  OBVIOUS
<1> QED
  BY <1>1, <1>2, <1>3, MdInitKeeps, MdReseedKeeps, MdGenerateKeeps DEF HmacDrbgNext, MdRefuse

\* From a seeding on, and while no call fails, the members are the state of the standard's
\* HMAC_DRBG and what is given out are its blocks, over any sequence of seedings and draws
\* (HMACDRBG.cpp).
THEOREM DrbgIsStandard == HmacDrbgSpec => []HmacDrbgAsStandard
<1>1. HmacDrbgInit => HmacDrbgInv
  <2> SUFFICES ASSUME HmacDrbgInit PROVE HmacDrbgInv
    OBVIOUS
  <2>1. IsList(macs)
    <3>1. <<>> \in Seq({}) /\ Len(<<>>) = 0
      OBVIOUS
    <3>2. macs = <<>>
      BY DEF HmacDrbgInit
    <3> QED
      BY <3>1, <3>2 DEF IsList
  <2> QED
    BY <2>1 DEF HmacDrbgInit, HmacDrbgInv, HmacDrbgAsStandard, IsDrbg
<1>2. HmacDrbgInv => HmacDrbgAsStandard
  BY DEF HmacDrbgInv
<1> QED
  BY <1>1, <1>2, HmacDrbgNextInv, PTL DEF HmacDrbgSpec

=============================================================================
