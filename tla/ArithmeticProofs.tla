-------------------------- MODULE ArithmeticProofs --------------------------
(***************************************************************************)
(* What RandomRange, AddTo and Base32 compute, for words and bytes of      *)
(* every width, and for texts of every length.                             *)
(***************************************************************************)
EXTENDS RandomRange, AddTo, Base32,
        FunctionTheorems, FiniteSetTheorems, SequenceTheorems, WellFoundedInduction, TLAPS

-----------------------------------------------------------------------------
(* The range. *)

\* The high part of a product of a word and a range is below the range: the
\* quotient times the word size is at most the product.
LEMMA HighBelowRange ==
  ASSUME NEW n \in Word \ {0}, NEW r \in Word
  PROVE  High(n, r) \in 0 .. n - 1
<1> DEFINE q == (r * n) \div WordSize
<1>1. WordSize \in Nat /\ WordSize > 0 /\ n \in Nat /\ n > 0 /\ r \in Nat /\ r < WordSize
  BY RangeAssumption DEF Word
<1>2. r * n \in Nat
  BY <1>1
<1>3. q \in Nat /\ q * WordSize <= r * n
  BY <1>1, <1>2
<1>4. r * n < n * WordSize
  BY <1>1
<1>5. q * WordSize < n * WordSize
  <2>1. q * WordSize \in Nat /\ n * WordSize \in Nat
    BY <1>1, <1>3
  <2> HIDE DEF q
  <2>2. QED
    BY <1>2, <1>3, <1>4, <2>1
<1>6. q < n
  <2> HIDE DEF q
  <2>1. SUFFICES ASSUME q >= n PROVE FALSE
    BY <1>1, <1>3
  <2>2. q * WordSize >= n * WordSize
    BY <1>1, <1>3, <2>1
  <2>3. QED
    BY <1>1, <1>3, <1>5, <2>2
<1>7. QED
  BY <1>1, <1>3, <1>6 DEF High

\* Both ways to make a value give one below the range.
LEMMA ValueBelowRange ==
  ASSUME NEW n \in Word \ {0}, NEW r \in Word
  PROVE  Value(n, r) \in 0 .. n - 1
<1>1. CASE IsPowerOf2(n)
  <2>1. n \in Nat /\ n > 0 /\ r \in Nat
    BY RangeAssumption DEF Word
  <2>2. r % n \in 0 .. n - 1
    BY <2>1
  <2>3. QED
    BY <1>1, <2>2 DEF Value
<1>2. CASE ~IsPowerOf2(n)
  BY <1>2, HighBelowRange DEF Value
<1>3. QED
  BY <1>1, <1>2

\* A draw is only made for a range that is not zero.
RangeInv ==
  /\ range \in Word
  /\ pc \in {"first", "again"} => range # 0
  /\ pc # "done" => ~success
  /\ RangeAnswer

\* For every width of the words, the value that entropy_random_range() returns is in
\* [0, range), and a call that fails leaves the caller's variable alone.
THEOREM AnswerIsTrue == RangeSpec => []RangeAnswer
<1>1. RangeInit => RangeInv
  BY RangeAssumption DEF RangeInit, RangeInv, RangeAnswer, Word
<1>2. RangeInv /\ [RangeNext]_rangeVars => RangeInv'
  <2> SUFFICES ASSUME RangeInv, [RangeNext]_rangeVars PROVE RangeInv'
    OBVIOUS
  <2>1. ASSUME NEW n \in Word, RangeBegin(n) PROVE RangeInv'
    BY <2>1 DEF RangeBegin, RangeInv, RangeAnswer
  <2>2. ASSUME NEW r \in Word, Draw(r) PROVE RangeInv'
    <3>1. Value(range, r) \in 0 .. range - 1
      BY <2>2, ValueBelowRange DEF Draw, RangeInv
    <3>2. QED
      BY <2>2, <3>1 DEF Draw, RangeInv, RangeAnswer
  <2>3. CASE DrawFails
    BY <2>3 DEF DrawFails, RangeInv, RangeAnswer
  <2>4. CASE UNCHANGED rangeVars
    BY <2>4 DEF rangeVars, RangeInv, RangeAnswer
  <2>5. QED
    BY <2>1, <2>2, <2>3, <2>4 DEF RangeNext
<1>3. RangeInv => RangeAnswer
  BY DEF RangeInv
<1>4. QED
  BY <1>1, <1>2, <1>3, PTL DEF RangeSpec
-----------------------------------------------------------------------------
(* No value is favoured. *)

\* Quotient and remainder.
Divided(a, n, q, r) == q \in Nat /\ r \in 0 .. n - 1 /\ a = q * n + r

LEMMA Division ==
  ASSUME NEW a \in Nat, NEW n \in Nat \ {0}, NEW q, NEW r, q = a \div n, r = a % n
  PROVE  Divided(a, n, q, r)
<1>1. q \in Nat /\ q * n <= a /\ a < q * n + n /\ r = a - q * n
  OBVIOUS
<1>2. q * n \in Nat
  BY <1>1
<1>3. PICK m : m = q * n
  OBVIOUS
<1>4. r \in 0 .. n - 1 /\ a = m + r
  <2>1. m \in Nat /\ m <= a /\ a < m + n /\ r = a - m
    BY <1>1, <1>2, <1>3
  <2> QED
    BY <2>1
<1> QED
  BY <1>1, <1>3, <1>4 DEF Divided

LEMMA TimesIsMonotone ==
  ASSUME NEW x \in Int, NEW y \in Int, NEW n \in Nat \ {0}
  PROVE  x * n <= y * n <=> x <= y
<1>1. x <= y => x * n <= y * n
  OBVIOUS
<1>2. y < x => y * n < x * n
  OBVIOUS
<1>3. x * n \in Int /\ y * n \in Int
  OBVIOUS
<1> QED
  BY <1>1, <1>2, <1>3

LEMMA DivisionIsUnique ==
  ASSUME NEW a, NEW n \in Nat \ {0}, NEW q, NEW r, Divided(a, n, q, r),
         NEW p, NEW s, p = a \div n, s = a % n
  PROVE  p = q /\ s = r
<1>0. q \in Nat /\ r \in 0 .. n - 1 /\ a = q * n + r
  BY DEF Divided
<1>1. q * n \in Nat /\ a \in Nat
  BY <1>0
<1>2. p \in Nat /\ s \in 0 .. n - 1 /\ a = p * n + s
  <2>1. Divided(a, n, p, s)
    BY <1>1, Division
  <2> QED
    BY <2>1 DEF Divided
<1>3. p * n \in Nat /\ (p + 1) * n = p * n + n /\ (q + 1) * n = q * n + n
  BY <1>0, <1>2
<1>4. ~(q + 1 <= p)
  <2>1. q + 1 <= p => (q + 1) * n <= p * n
    BY <1>0, <1>2, TimesIsMonotone
  <2> QED
    BY <1>0, <1>1, <1>2, <1>3, <2>1
<1>5. ~(p + 1 <= q)
  <2>1. p + 1 <= q => (p + 1) * n <= q * n
    BY <1>0, <1>2, TimesIsMonotone
  <2> QED
    BY <1>0, <1>1, <1>2, <1>3, <2>1
<1>6. p = q
  BY <1>0, <1>2, <1>4, <1>5
<1> QED
  BY <1>0, <1>1, <1>2, <1>6

\* The words whose product with n falls on v and is accepted are as many in a row as the
\* range goes into the words: from the first whose product is past the rejected ones.
LEMMA AcceptedInARow ==
  ASSUME NEW n \in Word \ {0}, ~IsPowerOf2(n), NEW v \in 0 .. n - 1
  PROVE  \E c \in Nat : {r \in Word : Accepts(n, r) /\ Value(n, r) = v}
                          = c .. c + (WordSize \div n) - 1
<1>0. WordSize \in Nat \ {0} /\ n \in Nat \ {0} /\ n < WordSize /\ v \in Nat
  BY RangeAssumption DEF Word
<1>1. PICK q, t : q = WordSize \div n /\ t = WordSize % n
  OBVIOUS
<1>2. q \in Nat /\ t \in 0 .. n - 1 /\ WordSize = q * n + t /\ q * n \in Nat
  <2>1. Divided(WordSize, n, q, t)
    BY <1>0, <1>1, Division
  <2>2. q \in Nat /\ t \in 0 .. n - 1 /\ WordSize = q * n + t
    BY <2>1 DEF Divided
  <2> QED
    BY <1>0, <2>2
<1>3. Threshold(n) = t
  <2>1. q # 0
    BY <1>0, <1>2
  <2>2. q - 1 \in Nat /\ (q - 1) * n = q * n - n
    BY <1>0, <1>2, <2>1
  <2>3. WordSize - n = (q - 1) * n + t
    BY <1>0, <1>2, <2>2
  <2>4. PICK a, p, s : a = WordSize - n /\ p = a \div n /\ s = a % n
    OBVIOUS
  <2>5. s = t
    <3>1. PICK k : k = q - 1
      OBVIOUS
    <3>2. Divided(a, n, k, t)
      BY <1>2, <2>2, <2>3, <2>4, <3>1 DEF Divided
    <3> QED
      BY <1>0, <2>4, <3>2, DivisionIsUnique
  <2> QED
    BY <2>4, <2>5 DEF Threshold
<1>4. PICK w : w = v * WordSize
  OBVIOUS
<1>5. w \in Nat /\ (v + 1) * WordSize = w + WordSize
  BY <1>0, <1>4
<1>6. PICK c \in Nat : \A r \in Nat : w + t <= r * n <=> c <= r
  <2>1. PICK c, s : c = (w + t + n - 1) \div n /\ s = (w + t + n - 1) % n
    OBVIOUS
  <2>2. c \in Nat /\ s \in 0 .. n - 1 /\ w + t + n - 1 = c * n + s /\ c * n \in Nat
    <3>1. PICK a : a = w + t + n - 1
      OBVIOUS
    <3>2. a \in Nat
      BY <1>0, <1>2, <1>5, <3>1
    <3>3. Divided(a, n, c, s)
      BY <1>0, <2>1, <3>1, <3>2, Division
    <3>4. c \in Nat /\ s \in 0 .. n - 1 /\ a = c * n + s
      BY <3>3 DEF Divided
    <3> QED
      BY <1>0, <3>1, <3>4
  <2>3. ASSUME NEW r \in Nat PROVE w + t <= r * n <=> c <= r
    <3>1. r * n \in Nat /\ (r + 1) * n = r * n + n
      BY <1>0
    <3>2. c <= r => c * n <= r * n
      BY <1>0, <2>2, TimesIsMonotone
    <3>3. c <= r => w + t <= r * n
      BY <1>0, <1>2, <1>5, <2>2, <3>1, <3>2
    <3>4. r + 1 <= c => (r + 1) * n <= c * n
      BY <1>0, <2>2, TimesIsMonotone
    <3>5. r + 1 <= c => r * n < w + t
      BY <1>0, <1>2, <1>5, <2>2, <3>1, <3>4
    <3> QED
      BY <1>2, <1>5, <2>2, <3>1, <3>3, <3>5
  <2> QED
    BY <2>2, <2>3
<1>7. ASSUME NEW r \in Nat
      PROVE  r * n < w + WordSize <=> r < c + q
  <2>1. CASE r < q
    <3>1. (r + 1) * n <= q * n /\ (r + 1) * n = r * n + n /\ r * n \in Nat
      BY <1>0, <1>2, <2>1, TimesIsMonotone
    <3> QED
      BY <1>0, <1>2, <1>5, <1>6, <2>1, <3>1
  <2>2. CASE q <= r
    <3>1. PICK p \in Nat : p = r - q
      BY <1>2, <2>2
    <3>2. p * n = r * n - q * n /\ p * n \in Nat /\ r * n \in Nat
      BY <1>0, <1>2, <3>1
    <3>3. w + t <= p * n <=> c <= p
      BY <1>6
    <3> QED
      BY <1>0, <1>2, <1>5, <1>6, <3>1, <3>2, <3>3
  <2> QED
    BY <1>2, <2>1, <2>2
<1>8. ASSUME NEW r \in Word
      PROVE  Accepts(n, r) /\ Value(n, r) = v <=> w + t <= r * n /\ r * n < w + WordSize
  <2>0. r \in Nat /\ r * n \in Nat
    BY <1>0 DEF Word
  <2>1. PICK h, l : h = High(n, r) /\ l = Low(n, r)
    OBVIOUS
  <2>2. h \in Nat /\ l \in 0 .. WordSize - 1 /\ r * n = h * WordSize + l /\ h * WordSize \in Nat
    <3>1. PICK a : a = r * n
      OBVIOUS
    <3>2. h = a \div WordSize /\ l = a % WordSize /\ a \in Nat
      BY <2>0, <2>1, <3>1 DEF High, Low
    <3>3. Divided(a, WordSize, h, l)
      BY <1>0, <3>2, Division
    <3>4. h \in Nat /\ l \in 0 .. WordSize - 1 /\ a = h * WordSize + l
      BY <3>3 DEF Divided
    <3> QED
      BY <1>0, <3>1, <3>4
  <2>3. Accepts(n, r) <=> l >= t
    BY <1>0, <1>2, <1>3, <2>1, <2>2 DEF Accepts
  <2>4. Value(n, r) = h
    BY <2>1 DEF Value
  <2>5. CASE h = v
    BY <1>0, <1>2, <1>4, <1>5, <2>0, <2>2, <2>3, <2>4, <2>5
  <2>6. CASE h + 1 <= v
    <3>1. (h + 1) * WordSize <= v * WordSize /\ (h + 1) * WordSize = h * WordSize + WordSize
      BY <1>0, <2>2, <2>6, TimesIsMonotone
    <3> QED
      BY <1>0, <1>2, <1>4, <1>5, <2>0, <2>2, <2>4, <2>6, <3>1
  <2>7. CASE v + 1 <= h
    <3>1. (v + 1) * WordSize <= h * WordSize
      BY <1>0, <2>2, <2>7, TimesIsMonotone
    <3> QED
      BY <1>0, <1>2, <1>4, <1>5, <2>0, <2>2, <2>4, <2>7, <3>1
  <2> QED
    BY <1>0, <2>2, <2>5, <2>6, <2>7
<1>9. ASSUME NEW r \in Nat, r * n < w + WordSize PROVE r \in Word
  <2>1. (v + 1) * WordSize <= n * WordSize
    BY <1>0, TimesIsMonotone
  <2>2. n * WordSize = WordSize * n /\ r * n \in Nat /\ WordSize * n \in Nat
    BY <1>0
  <2>3. ~(WordSize * n <= r * n)
    BY <1>0, <1>5, <1>9, <2>1, <2>2
  <2>4. ~(WordSize <= r)
    BY <1>0, <2>3, TimesIsMonotone
  <2> QED
    BY <1>0, <2>4 DEF Word
<1>10. ASSUME NEW r
       PROVE  r \in {x \in Word : Accepts(n, x) /\ Value(n, x) = v} <=> r \in c .. c + q - 1
  <2>1. r \in Word => r \in Nat
    BY DEF Word
  <2>2. r \in c .. c + q - 1 => r \in Nat /\ c <= r /\ r < c + q
    BY <1>2
  <2>3. r \in Nat /\ c <= r /\ r < c + q => r \in c .. c + q - 1
    BY <1>2
  <2> QED
    BY <1>6, <1>7, <1>8, <1>9, <2>1, <2>2, <2>3
<1> QED
  BY <1>1, <1>10

\* A range that divides the words evenly meets each value as many times.
LEMMA DividedEvenly ==
  ASSUME NEW n \in Word \ {0}, IsPowerOf2(n), NEW v \in 0 .. n - 1
  PROVE  ExistsBijection(1 .. WordSize \div n,
                         {r \in Word : Accepts(n, r) /\ Value(n, r) = v})
<1>0. WordSize \in Nat \ {0} /\ n \in Nat \ {0} /\ n < WordSize /\ v \in Nat
  BY RangeAssumption DEF Word
<1>1. PICK q : q = WordSize \div n
  OBVIOUS
<1>2. q \in Nat /\ WordSize = q * n /\ q * n \in Nat
  <2>1. PICK t : t = WordSize % n
    OBVIOUS
  <2>2. t = 0
    BY <2>1 DEF IsPowerOf2
  <2>3. q \in Nat /\ WordSize = q * n + t
    <3>1. Divided(WordSize, n, q, t)
      BY <1>0, <1>1, <2>1, Division
    <3> QED
      BY <3>1 DEF Divided
  <2>4. q * n \in Nat
    BY <1>0, <2>3
  <2> QED
    BY <2>2, <2>3, <2>4
<1>3. PICK S : S = {r \in Word : r % n = v}
  OBVIOUS
<1>4. S = {r \in Word : Accepts(n, r) /\ Value(n, r) = v}
  BY <1>3 DEF Accepts, Value
<1>5. PICK f : f = [i \in 1 .. q |-> (i - 1) * n + v]
  OBVIOUS
<1>6. ASSUME NEW i \in 1 .. q
      PROVE  f[i] \in S /\ f[i] \div n = i - 1
  <2>1. PICK p \in Nat : p = i - 1
    BY <1>2
  <2>2. f[i] = p * n + v /\ p * n \in Nat
    BY <1>0, <1>5, <2>1
  <2>3. f[i] \div n = p /\ f[i] % n = v
    <3>1. PICK a, p1, v1 : a = f[i] /\ p1 = a \div n /\ v1 = a % n
      OBVIOUS
    <3>2. Divided(a, n, p, v)
      BY <2>1, <2>2, <3>1 DEF Divided
    <3>3. p1 = p /\ v1 = v
      BY <1>0, <3>1, <3>2, DivisionIsUnique
    <3> QED
      BY <3>1, <3>3
  <2>4. (p + 1) * n <= q * n /\ (p + 1) * n = p * n + n
    BY <1>0, <1>2, <2>1, TimesIsMonotone
  <2>5. f[i] \in Word
    BY <1>0, <1>2, <2>2, <2>4 DEF Word
  <2> QED
    BY <1>3, <2>1, <2>3, <2>5
<1>7. ASSUME NEW r \in S
      PROVE  \E i \in 1 .. q : f[i] = r
  <2>1. r \in Nat /\ r < WordSize /\ r % n = v
    BY <1>0, <1>3 DEF Word
  <2>2. PICK p : p = r \div n
    OBVIOUS
  <2>3. p \in Nat /\ r = p * n + v /\ p * n \in Nat
    <3>1. PICK s : s = r % n
      OBVIOUS
    <3>2. p \in Nat /\ r = p * n + s
      <4>1. Divided(r, n, p, s)
        BY <1>0, <2>1, <2>2, <3>1, Division
      <4> QED
        BY <4>1 DEF Divided
    <3>3. p * n \in Nat
      BY <1>0, <3>2
    <3> QED
      BY <2>1, <3>1, <3>2, <3>3
  <2>4. ~(q <= p)
    <3>1. q <= p => q * n <= p * n
      BY <1>0, <1>2, <2>3, TimesIsMonotone
    <3> QED
      BY <1>0, <1>2, <2>1, <2>3, <3>1
  <2>5. p + 1 \in 1 .. q /\ (p + 1) - 1 = p
    BY <1>2, <2>3, <2>4
  <2>6. f[p + 1] = r
    BY <1>5, <2>3, <2>5
  <2> QED
    BY <2>5, <2>6
<1>8. f \in Bijection(1 .. q, S)
  <2>1. f \in [1 .. q -> S]
    BY <1>5, <1>6
  <2>2. \A i, j \in 1 .. q : f[i] = f[j] => i = j
    <3>1. ASSUME NEW i \in 1 .. q, NEW j \in 1 .. q, f[i] = f[j] PROVE i = j
      <4>1. i - 1 = j - 1
        BY <1>6, <3>1
      <4> QED
        BY <1>2, <4>1
    <3> QED
      BY <3>1
  <2> QED
    BY <1>7, <2>1, <2>2, Fun_IsBij
<1> QED
  BY <1>1, <1>4, <1>8 DEF ExistsBijection

\* Of the words, as many are accepted for each value of the range as the range goes
\* into them.
LEMMA AsManyEach ==
  ASSUME NEW n \in Word \ {0}, NEW v \in 0 .. n - 1
  PROVE  Cardinality({r \in Word : Accepts(n, r) /\ Value(n, r) = v}) = WordSize \div n
<1>0. WordSize \in Nat /\ n \in Nat \ {0}
  BY RangeAssumption DEF Word
<1>1. PICK q : q = WordSize \div n
  OBVIOUS
<1>2. q \in Nat
  BY <1>0, <1>1
<1>3. PICK S : S = {r \in Word : Accepts(n, r) /\ Value(n, r) = v}
  OBVIOUS
<1>4. CASE IsPowerOf2(n)
  <2>1. ExistsBijection(1 .. q, S)
    BY <1>1, <1>3, <1>4, DividedEvenly
  <2>2. IsFiniteSet(1 .. q) /\ Cardinality(1 .. q) = q
    BY <1>2, FS_Interval
  <2>3. Cardinality(S) = q
    BY <2>1, <2>2, FS_Bijection
  <2> QED
    BY <1>1, <1>3, <2>3
<1>5. CASE ~IsPowerOf2(n)
  <2>1. PICK c \in Nat : S = c .. c + q - 1
    BY <1>1, <1>3, <1>5, AcceptedInARow
  <2>2. PICK z \in Int : z = c + q - 1
    BY <1>2
  <2>3. PICK d \in Int : d = c
    OBVIOUS
  <2>4. Cardinality(d .. z) = IF d > z THEN 0 ELSE z - d + 1
    BY FS_Interval
  <2>5. Cardinality(S) = q
    BY <1>2, <2>1, <2>2, <2>3, <2>4
  <2> QED
    BY <1>1, <1>3, <2>5
<1> QED
  BY <1>4, <1>5

\* "This uses an unbiased algorithm" (entropy.h): for every width of the words and every
\* range, each value of the range is drawn from equally many words.
THEOREM DrawsAreUnbiased == RangeSpec => []Unbiased
<1>1. RangeInit => range \in Word
  BY RangeAssumption DEF RangeInit, Word
<1>2. range \in Word /\ [RangeNext]_rangeVars => (range \in Word)'
  BY DEF RangeNext, RangeBegin, Draw, DrawFails, rangeVars
<1>3. range \in Word => Unbiased
  BY AsManyEach DEF Unbiased
<1> QED
  BY <1>1, <1>2, <1>3, PTL DEF RangeSpec

-----------------------------------------------------------------------------
(* Sums of bytes. *)

\* The library's theorem on least elements, as induction over a set of numbers.
LEMMA SetInduction ==
  ASSUME NEW S \in SUBSET Nat, 0 \in S, \A n \in S : n + 1 \in S
  PROVE  S = Nat
<1> DEFINE R == OpToRel(<, Nat)
<1>1. IsWellFoundedOn(R, Nat)
  BY NatLessThanWellFounded
<1>2. \A m, n \in Nat : m < n => <<m, n>> \in R
  BY DEF OpToRel
<1> HIDE DEF R
<1> SUFFICES ASSUME Nat \ S # {} PROVE FALSE
  OBVIOUS
<1>3. PICK rest : rest = Nat \ S
  OBVIOUS
<1>4. PICK n \in rest : \A m \in rest : <<m, n>> \notin R
  BY <1>1, <1>3, WFMin
<1>5. n # 0 /\ n \in Nat /\ n - 1 \in Nat /\ n - 1 < n
  BY <1>3, <1>4
<1>6. n - 1 \notin rest
  BY <1>2, <1>4, <1>5
<1> QED
  BY <1>3, <1>4, <1>5, <1>6

\* A function that is given by its first value and by what follows each value.
Recursively(f, n, first, next) ==
  f = [i \in 0 .. n |-> IF i = 0 THEN first ELSE next[i][f[i - 1]]]

LEMMA RecursionWorks ==
  ASSUME NEW V, NEW n \in Nat, NEW first \in V, NEW next \in [1 .. n -> [V -> V]]
  PROVE  \E f \in [0 .. n -> V] : Recursively(f, n, first, next)
<1> DEFINE S == {m \in Nat : m <= n => \E f \in [0 .. m -> V] : Recursively(f, m, first, next)}
<1>1. 0 \in S
  <2>1. PICK f : f = [i \in 0 .. 0 |-> first]
    OBVIOUS
  <2>2. f \in [0 .. 0 -> V] /\ Recursively(f, 0, first, next)
    BY <2>1 DEF Recursively
  <2> QED
    BY <2>2
<1>2. ASSUME NEW m \in S PROVE m + 1 \in S
  <2>1. SUFFICES ASSUME m + 1 <= n
                 PROVE  \E f \in [0 .. m + 1 -> V] : Recursively(f, m + 1, first, next)
    OBVIOUS
  <2>2. PICK f \in [0 .. m -> V] : Recursively(f, m, first, next)
    BY <1>2, <2>1
  <2>3. m \in Nat /\ m + 1 \in 1 .. n /\ f[m] \in V /\ next[m + 1] \in [V -> V]
    BY <1>2, <2>1, <2>2
  <2>4. PICK g : g = [i \in 0 .. m + 1 |-> IF i <= m THEN f[i] ELSE next[m + 1][f[m]]]
    OBVIOUS
  <2>5. g \in [0 .. m + 1 -> V]
    BY <2>2, <2>3, <2>4
  <2>6. \A i \in 0 .. m + 1 : g[i] = IF i = 0 THEN first ELSE next[i][g[i - 1]]
    <3>1. TAKE i \in 0 .. m + 1
    <3>2. CASE i = 0
      BY <2>2, <2>3, <2>4, <3>2 DEF Recursively
    <3>3. CASE i # 0 /\ i <= m
      <4>1. g[i] = f[i] /\ g[i - 1] = f[i - 1] /\ f[i] = next[i][f[i - 1]]
        BY <2>2, <2>3, <2>4, <3>3 DEF Recursively
      <4> QED
        BY <3>3, <4>1
    <3>4. CASE i = m + 1
      <4>1. g[i] = next[i][f[m]] /\ g[i - 1] = f[m] /\ i # 0
        BY <2>3, <2>4, <3>4
      <4> QED
        BY <4>1
    <3> QED
      BY <2>3, <3>2, <3>3, <3>4
  <2>7. Recursively(g, m + 1, first, next)
    BY <2>5, <2>6 DEF Recursively
  <2> QED
    BY <2>5, <2>7
<1>3. S \in SUBSET Nat
  OBVIOUS
<1>4. S = Nat
  <2> HIDE DEF S
  <2> QED
    BY <1>1, <1>2, <1>3, SetInduction
<1> QED
  BY <1>4

\* The powers of the base.
LEMMA PowerIsPower ==
  /\ Power \in [0 .. SumSize -> Nat \ {0}] /\ Power[0] = 1
  /\ \A i \in 1 .. SumSize : Power[i] = Power[i - 1] * Base
<1> DEFINE V == Nat \ {0}
<1>0. SumSize \in Nat /\ Base \in Nat \ {0, 1}
  BY AddToAssumption
<1>1. PICK next : next = [i \in 1 .. SumSize |-> [k \in V |-> k * Base]]
  OBVIOUS
<1>2. ASSUME NEW k \in V PROVE k * Base \in V
  BY <1>0
<1>3. next \in [1 .. SumSize -> [V -> V]]
  <2> HIDE DEF V
  <2> QED
    BY <1>1, <1>2
<1>4. PICK f \in [0 .. SumSize -> V] : Recursively(f, SumSize, 1, next)
  <2>1. 1 \in V
    OBVIOUS
  <2> HIDE DEF V
  <2> QED
    BY <1>0, <1>3, <2>1, RecursionWorks
<1>5. \A i \in 1 .. SumSize : next[i][f[i - 1]] = f[i - 1] * Base
  <2> HIDE DEF V
  <2>1. TAKE i \in 1 .. SumSize
  <2>2. i - 1 \in 0 .. SumSize
    BY <1>0
  <2> QED
    BY <1>1, <1>4, <2>2
<1>6. f = [i \in 0 .. SumSize |-> IF i = 0 THEN 1 ELSE f[i - 1] * Base]
  <2> HIDE DEF V
  <2> QED
    BY <1>0, <1>4, <1>5 DEF Recursively
<1>7. Power = [i \in 0 .. SumSize |-> IF i = 0 THEN 1 ELSE Power[i - 1] * Base]
  BY <1>6 DEF Power
<1> DEFINE T == {i \in Nat : i <= SumSize => Power[i] \in V}
<1>8. \A i \in 0 .. SumSize : Power[i] = IF i = 0 THEN 1 ELSE Power[i - 1] * Base
  BY <1>7
<1>9. 0 \in T
  BY <1>0, <1>8
<1>10. ASSUME NEW i \in T PROVE i + 1 \in T
  <2>1. SUFFICES ASSUME i + 1 <= SumSize PROVE Power[i + 1] \in V
    BY <1>10
  <2>2. i \in Nat /\ Power[i] \in V /\ Power[i + 1] = Power[i] * Base
    BY <1>0, <1>8, <1>10, <2>1
  <2> QED
    BY <1>2, <2>2
<1>11. T = Nat
  <2>1. T \in SUBSET Nat
    OBVIOUS
  <2> HIDE DEF T
  <2> QED
    BY <1>9, <1>10, <2>1, SetInduction
<1>12. \A i \in 0 .. SumSize : Power[i] \in V
  BY <1>0, <1>11
<1> QED
  BY <1>0, <1>7, <1>8, <1>12

Byte == 0 .. Base - 1

ByteSeq(n) == [1 .. n -> Byte]

\* The values of the prefixes of n bytes.
ArePrefixes(value, s, n) ==
  /\ value \in [0 .. n -> Nat] /\ value[0] = 0
  /\ \A i \in 1 .. n : value[i] = value[i - 1] * Base + s[i]

LEMMA PrefixesArePrefixes ==
  ASSUME NEW n \in Nat, NEW s \in ByteSeq(n), NEW value, value = PrefixValues(s)
  PROVE  Len(s) = n /\ ArePrefixes(value, s, n)
<1>0. Base \in Nat \ {0, 1} /\ s \in [1 .. n -> Byte] /\ Byte \subseteq Nat
  BY AddToAssumption DEF ByteSeq, Byte
<1>1. Len(s) = n
  BY <1>0
<1>2. PICK next : next = [i \in 1 .. n |-> [k \in Nat |-> k * Base + s[i]]]
  OBVIOUS
<1>3. ASSUME NEW i \in 1 .. n, NEW k \in Nat PROVE k * Base + s[i] \in Nat
  <2>1. s[i] \in Nat
    BY <1>0
  <2>2. k * Base \in Nat
    BY <1>0
  <2> QED
    BY <2>1, <2>2
<1>4. next \in [1 .. n -> [Nat -> Nat]]
  BY <1>2, <1>3
<1>5. PICK f \in [0 .. n -> Nat] : Recursively(f, n, 0, next)
  BY <1>4, RecursionWorks
<1>6. \A i \in 1 .. n : next[i][f[i - 1]] = f[i - 1] * Base + s[i]
  <2>1. TAKE i \in 1 .. n
  <2>2. f[i - 1] \in Nat
    BY <1>5
  <2> QED
    BY <1>2, <2>2
<1>7. f = [i \in 0 .. n |-> IF i = 0 THEN 0 ELSE f[i - 1] * Base + s[i]]
  BY <1>5, <1>6 DEF Recursively
<1>8. value = [i \in 0 .. n |-> IF i = 0 THEN 0 ELSE value[i - 1] * Base + s[i]]
  BY <1>1, <1>7 DEF PrefixValues
<1>9. \A i \in 0 .. n : value[i] = IF i = 0 THEN 0 ELSE value[i - 1] * Base + s[i]
  BY <1>8
<1> DEFINE T == {i \in Nat : i <= n => value[i] \in Nat}
<1>10. 0 \in T
  BY <1>9
<1>11. ASSUME NEW i \in T PROVE i + 1 \in T
  <2>1. SUFFICES ASSUME i + 1 <= n PROVE value[i + 1] \in Nat
    BY <1>11
  <2>2. value[i] \in Nat /\ value[i + 1] = value[i] * Base + s[i + 1] /\ i + 1 \in 1 .. n
    BY <1>9, <1>11, <2>1
  <2> QED
    BY <1>3, <2>2
<1>12. T = Nat
  <2>1. T \in SUBSET Nat
    OBVIOUS
  <2> HIDE DEF T
  <2> QED
    BY <1>10, <1>11, <2>1, SetInduction
<1>13. \A i \in 0 .. n : value[i] \in Nat
  BY <1>12
<1>14. value = [i \in 0 .. n |-> value[i]]
  BY <1>8
<1>15. value \in [0 .. n -> Nat]
  BY <1>13, <1>14
<1>16. value[0] = 0 /\ \A i \in 1 .. n : value[i] = value[i - 1] * Base + s[i]
  BY <1>9
<1> QED
  BY <1>1, <1>15, <1>16 DEF ArePrefixes

\* A string of bytes is less than the power of its length.
LEMMA PrefixBelowPower ==
  ASSUME NEW n \in Nat, n <= SumSize, NEW s \in ByteSeq(n), NEW value, ArePrefixes(value, s, n)
  PROVE  \A i \in 0 .. n : value[i] < Power[i]
<1> DEFINE T == {i \in Nat : i <= n => value[i] < Power[i]}
<1>0. Base \in Nat \ {0, 1} /\ SumSize \in Nat
  BY AddToAssumption
<1>1. 0 \in T
  BY PowerIsPower DEF ArePrefixes
<1>2. ASSUME NEW i \in T PROVE i + 1 \in T
  <2>1. SUFFICES ASSUME i + 1 <= n PROVE value[i + 1] < Power[i + 1]
    BY <1>2
  <2>2. PICK x \in Nat : x = value[i]
    BY <1>2, <2>1 DEF ArePrefixes
  <2>3. PICK p \in Nat : p = Power[i]
    BY <1>0, <1>2, <2>1, PowerIsPower
  <2>4. PICK d \in Nat : d = s[i + 1] /\ d <= Base - 1
    BY <1>0, <1>2, <2>1 DEF ByteSeq, Byte
  <2>5. x + 1 <= p
    BY <1>2, <2>1, <2>2, <2>3
  <2>6. (x + 1) * Base <= p * Base
    BY <1>0, <2>5, TimesIsMonotone
  <2>7. (x + 1) * Base = x * Base + Base /\ x * Base \in Nat /\ p * Base \in Nat
    BY <1>0
  <2>8. x * Base + d < p * Base
    BY <1>0, <2>4, <2>6, <2>7
  <2>9. value[i + 1] = x * Base + d
    BY <1>2, <2>1, <2>2, <2>4 DEF ArePrefixes
  <2>10. Power[i + 1] = p * Base
    BY <1>0, <1>2, <2>1, <2>3, PowerIsPower
  <2> QED
    BY <2>8, <2>9, <2>10
<1>3. T = Nat
  <2>1. T \in SUBSET Nat
    OBVIOUS
  <2> HIDE DEF T
  <2> QED
    BY <1>1, <1>2, <2>1, SetInduction
<1> QED
  BY <1>3

\* A prefix depends on its own bytes only.
LEMMA PrefixOfPrefix ==
  ASSUME NEW n \in Nat, NEW k \in 0 .. n,
         NEW s, NEW value, ArePrefixes(value, s, n),
         NEW t, NEW other, ArePrefixes(other, t, n),
         \A i \in 1 .. k : s[i] = t[i]
  PROVE  \A i \in 0 .. k : value[i] = other[i]
<1> DEFINE T == {i \in Nat : i <= k => value[i] = other[i]}
<1>1. 0 \in T
  BY DEF ArePrefixes
<1>2. ASSUME NEW i \in T PROVE i + 1 \in T
  <2>1. SUFFICES ASSUME i + 1 <= k PROVE value[i + 1] = other[i + 1]
    BY <1>2
  <2>2. i + 1 \in 1 .. n /\ i + 1 \in 1 .. k /\ (i + 1) - 1 = i
    BY <1>2, <2>1
  <2>3. value[i + 1] = value[i] * Base + s[i + 1] /\ other[i + 1] = other[i] * Base + t[i + 1]
    BY <2>2 DEF ArePrefixes
  <2> QED
    BY <1>2, <2>1, <2>2, <2>3
<1>3. T = Nat
  <2>1. T \in SUBSET Nat
    OBVIOUS
  <2> HIDE DEF T
  <2> QED
    BY <1>1, <1>2, <2>1, SetInduction
<1> QED
  BY <1>3

\* A prefix has become one more, or zero if it was at its largest.
OneMore(new, value, k) == \E o \in {0, 1} : new[k] + o * Power[k] = value[k] + 1

SameBeyond(t, s, k, n) == \A j \in 1 .. n : j <= k \/ t[j] = s[j]

\* Carry() adds one to the prefix, modulo the power of its length.
LEMMA CarryCarries ==
  ASSUME NEW n \in Nat, n <= SumSize, NEW s \in ByteSeq(n), NEW value, value = PrefixValues(s),
         NEW k \in 0 .. n, NEW next, next = k + 1,
         NEW sum, sum = Carry(s, next), NEW new, new = PrefixValues(sum)
  PROVE  /\ sum \in ByteSeq(n)
         /\ SameBeyond(sum, s, k, n)
         /\ OneMore(new, value, k)
<1>0. Base \in Nat \ {0, 1} /\ SumSize \in Nat /\ s \in [1 .. n -> Byte] /\ Byte = 0 .. Base - 1
  BY AddToAssumption DEF ByteSeq, Byte
<1>1. Len(s) = n /\ ArePrefixes(value, s, n)
  BY PrefixesArePrefixes
<1>2. ASSUME NEW m \in 0 .. n, NEW t, t = Carry(s, m + 1)
      PROVE  /\ t \in ByteSeq(n)
             /\ \A j \in 1 .. n :
                  t[j] = IF j <= m /\ \A i \in j + 1 .. m : s[i] = Base - 1
                         THEN (s[j] + 1) % Base ELSE s[j]
  <2>1. t = [j \in 1 .. n |->
               IF j < m + 1 /\ \A i \in j + 1 .. (m + 1) - 1 : s[i] = Base - 1
               THEN (s[j] + 1) % Base ELSE s[j]]
    BY <1>1, <1>2 DEF Carry
  <2>2. \A j \in 1 .. n : s[j] \in Byte /\ (s[j] + 1) % Base \in Byte
    BY <1>0
  <2>3. \A j \in 1 .. n :
           t[j] = IF j <= m /\ \A i \in j + 1 .. m : s[i] = Base - 1
                  THEN (s[j] + 1) % Base ELSE s[j]
    <3>1. m + 1 \in Int /\ (m + 1) - 1 = m /\ \A j \in 1 .. n : j < m + 1 <=> j <= m
      OBVIOUS
    <3> QED
      BY <2>1, <3>1
  <2>4. t \in [1 .. n -> Byte]
    BY <2>1, <2>2
  <2> QED
    BY <2>3, <2>4 DEF ByteSeq
<1> DEFINE Carried(m) ==
      \A t, other : t = Carry(s, m + 1) /\ other = PrefixValues(t) =>
        \E o \in {0, 1} : other[m] + o * Power[m] = value[m] + 1
<1> DEFINE T == {m \in Nat : m <= n => Carried(m)}
<1>3. 0 \in T
  <2>1. SUFFICES ASSUME NEW t, NEW other, t = Carry(s, 0 + 1), other = PrefixValues(t)
                 PROVE  other[0] + 1 * Power[0] = value[0] + 1
    OBVIOUS
  <2>2. t \in ByteSeq(n)
    BY <1>2, <2>1
  <2>3. ArePrefixes(other, t, n)
    BY <2>1, <2>2, PrefixesArePrefixes
  <2> QED
    BY <1>1, <2>3, PowerIsPower DEF ArePrefixes
<1>4. ASSUME NEW m \in T PROVE m + 1 \in T
  <2>0. SUFFICES ASSUME m + 1 <= n PROVE Carried(m + 1)
    BY <1>4
  <2>1. SUFFICES ASSUME NEW t, NEW other, t = Carry(s, (m + 1) + 1), other = PrefixValues(t)
                 PROVE  \E o \in {0, 1} : other[m + 1] + o * Power[m + 1] = value[m + 1] + 1
    OBVIOUS
  <2>2. m \in Nat /\ m \in 0 .. n /\ m + 1 \in 0 .. n /\ m + 1 \in 1 .. n
    BY <1>4, <2>0
  <2>3. /\ t \in ByteSeq(n)
        /\ \A j \in 1 .. n :
             t[j] = IF j <= m + 1 /\ \A i \in j + 1 .. m + 1 : s[i] = Base - 1
                    THEN (s[j] + 1) % Base ELSE s[j]
    <3>1. PICK l \in 0 .. n : l = m + 1
      BY <2>2
    <3>2. t = Carry(s, l + 1)
      BY <2>1, <3>1
    <3>3. /\ t \in ByteSeq(n)
          /\ \A j \in 1 .. n :
               t[j] = IF j <= l /\ \A i \in j + 1 .. l : s[i] = Base - 1
                      THEN (s[j] + 1) % Base ELSE s[j]
      BY <1>2, <3>2
    <3> QED
      BY <3>1, <3>3
  <2>4. ArePrefixes(other, t, n)
    BY <2>1, <2>3, PrefixesArePrefixes
  <2>5. PICK x \in Nat : x = value[m]
    BY <1>1, <2>2 DEF ArePrefixes
  <2>6. PICK p \in Nat : p = Power[m]
    BY <1>0, <2>2, PowerIsPower
  <2>7. PICK d \in Byte : d = s[m + 1]
    BY <1>0, <2>2
  <2>8. value[m + 1] = x * Base + d
    BY <1>1, <2>2, <2>5, <2>7 DEF ArePrefixes
  <2>9. Power[m + 1] = p * Base
    BY <1>0, <2>2, <2>6, PowerIsPower
  <2>10. t[m + 1] = (d + 1) % Base
    <3>1. m + 1 <= m + 1 /\ (m + 1) + 1 .. m + 1 = {}
      BY <2>2
    <3> QED
      BY <2>2, <2>3, <2>7, <3>1
  <2>11. PICK y \in Nat : y = other[m]
    BY <2>2, <2>4 DEF ArePrefixes
  <2>12. other[m + 1] = y * Base + t[m + 1]
    BY <2>2, <2>4, <2>11 DEF ArePrefixes
  <2>13. x * Base \in Nat /\ y * Base \in Nat /\ p * Base \in Nat /\ d \in Nat /\ Base \in Nat
    BY <1>0, <2>7
  <2>14. CASE d = Base - 1
    <3>1. t[m + 1] = 0
      BY <1>0, <2>10, <2>14
    <3>2. PICK u, old : u = Carry(s, m + 1) /\ old = PrefixValues(u)
      OBVIOUS
    <3>3. /\ u \in ByteSeq(n)
          /\ \A j \in 1 .. n :
               u[j] = IF j <= m /\ \A i \in j + 1 .. m : s[i] = Base - 1
                      THEN (s[j] + 1) % Base ELSE s[j]
      BY <1>2, <2>2, <3>2
    <3>4. ArePrefixes(old, u, n)
      BY <3>2, <3>3, PrefixesArePrefixes
    <3>5. \A j \in 1 .. m : t[j] = u[j]
      <4>1. TAKE j \in 1 .. m
      <4>2. (\A i \in j + 1 .. m + 1 : s[i] = Base - 1) <=> (\A i \in j + 1 .. m : s[i] = Base - 1)
        <5>1. \A i \in j + 1 .. m + 1 : i \in j + 1 .. m \/ i = m + 1
          BY <2>2
        <5>2. j + 1 .. m \subseteq j + 1 .. m + 1
          BY <2>2
        <5> QED
          BY <2>7, <2>14, <5>1, <5>2
      <4>3. j \in 1 .. n /\ j <= m /\ j <= m + 1
        BY <2>2
      <4> QED
        BY <2>3, <3>3, <4>2, <4>3
    <3>6. y = old[m]
      <4>1. \A i \in 0 .. m : other[i] = old[i]
        BY <2>2, <2>4, <3>4, <3>5, PrefixOfPrefix
      <4> QED
        BY <2>2, <2>11, <4>1
    <3>7. PICK o \in {0, 1} : y + o * p = x + 1
      <4>1. Carried(m)
        BY <1>4, <2>2
      <4> QED
        BY <2>5, <2>6, <3>2, <3>6, <4>1
    <3>8. (y + o * p) * Base = (x + 1) * Base
      BY <3>7
    <3>9. (x + 1) * Base = x * Base + Base
      BY <2>13
    <3>10. (y + o * p) * Base = y * Base + o * (p * Base)
      <4>1. CASE o = 0
        BY <2>13, <4>1
      <4>2. CASE o = 1
        <5>1. (y + p) * Base = y * Base + p * Base
          BY <2>13
        <5> QED
          BY <2>13, <4>2, <5>1
      <4> QED
        BY <4>1, <4>2
    <3>11. y * Base + o * (p * Base) = x * Base + Base
      BY <3>8, <3>9, <3>10
    <3>12. PICK z \in Nat : z = y * Base
      BY <2>13
    <3>13. PICK w \in Nat : w = x * Base
      BY <2>13
    <3>14. PICK q \in Nat : q = p * Base
      BY <2>13
    <3>15. (z + 0) + o * q = (w + d) + 1
      <4>1. z + o * q = w + Base
        BY <3>11, <3>12, <3>13, <3>14
      <4> QED
        BY <1>0, <2>14, <4>1
    <3>16. other[m + 1] + o * Power[m + 1] = value[m + 1] + 1
      BY <2>8, <2>9, <2>12, <3>1, <3>12, <3>13, <3>14, <3>15
    <3> QED
      BY <3>16
  <2>15. CASE d # Base - 1
    <3>1. t[m + 1] = d + 1
      <4>1. d + 1 \in 0 .. Base - 1
        BY <1>0, <2>7, <2>15
      <4>2. (d + 1) % Base = d + 1
        BY <1>0, <4>1
      <4> QED
        BY <2>10, <4>2
    <3>2. \A j \in 1 .. m : t[j] = s[j]
      <4>1. TAKE j \in 1 .. m
      <4>2. m + 1 \in j + 1 .. m + 1 /\ j \in 1 .. n
        BY <2>2
      <4> QED
        BY <2>3, <2>7, <2>15, <4>2
    <3>3. y = x
      <4>1. \A i \in 0 .. m : other[i] = value[i]
        BY <1>1, <2>2, <2>4, <3>2, PrefixOfPrefix
      <4> QED
        BY <2>2, <2>5, <2>11, <4>1
    <3>4. other[m + 1] = x * Base + (d + 1)
      BY <2>12, <3>1, <3>3
    <3>5. (x * Base + (d + 1)) + 0 * (p * Base) = (x * Base + d) + 1
      <4>1. PICK w \in Nat : w = x * Base
        BY <2>13
      <4>2. 0 * (p * Base) = 0
        BY <2>13
      <4> QED
        BY <2>13, <4>1, <4>2
    <3> QED
      BY <2>8, <2>9, <3>4, <3>5
  <2> QED
    BY <2>14, <2>15
<1>5. T = Nat
  <2>1. T \in SUBSET Nat
    OBVIOUS
  <2> HIDE DEF T
  <2> QED
    BY <1>3, <1>4, <2>1, SetInduction
<1>6. \A m \in 0 .. n : Carried(m)
  BY <1>5
<1>7. Carried(k)
  BY <1>6
<1>8. sum \in ByteSeq(n) /\ \A j \in 1 .. n : j <= k \/ sum[j] = s[j]
  BY <1>2
<1>9. OneMore(new, value, k) /\ SameBeyond(sum, s, k, n)
  BY <1>7, <1>8 DEF OneMore, SameBeyond
<1> QED
  BY <1>8, <1>9

\* What was added to a prefix is there, times a power, when the same bytes follow.
LEMMA ShiftedUp ==
  ASSUME NEW n \in Nat, n <= SumSize, NEW k \in 0 .. n, NEW d \in Nat, NEW o \in {0, 1},
         NEW s \in ByteSeq(n), NEW value, ArePrefixes(value, s, n),
         NEW t \in ByteSeq(n), NEW other, ArePrefixes(other, t, n),
         \A j \in k + 1 .. n : t[j] = s[j],
         other[k] + o * Power[k] = value[k] + d
  PROVE  other[n] + o * Power[n] = value[n] + d * Power[n - k]
<1>0. Base \in Nat \ {0, 1} /\ SumSize \in Nat
  BY AddToAssumption
<1> DEFINE T == {i \in Nat : k + i <= n =>
                   other[k + i] + o * Power[k + i] = value[k + i] + d * Power[i]}
<1>1. 0 \in T
  <2>1. k + 0 = k /\ d * Power[0] = d
    BY PowerIsPower
  <2> QED
    BY <2>1
<1>2. ASSUME NEW i \in T PROVE i + 1 \in T
  <2>1. SUFFICES ASSUME k + (i + 1) <= n
                 PROVE  other[k + (i + 1)] + o * Power[k + (i + 1)]
                          = value[k + (i + 1)] + d * Power[i + 1]
    BY <1>2
  <2>2. i \in Nat /\ k + i \in 0 .. n
    BY <1>2, <2>1
  <2>3. PICK l : l = k + (i + 1)
    OBVIOUS
  <2>4. l \in k + 1 .. n /\ l \in 1 .. n /\ l \in 1 .. SumSize /\ l - 1 = k + i
    BY <1>0, <2>1, <2>2, <2>3
  <2>5. PICK x, y, p, q, e \in Nat :
          x = value[k + i] /\ y = other[k + i] /\ p = Power[k + i] /\ q = Power[i] /\ e = s[l]
    <3>1. value[k + i] \in Nat /\ other[k + i] \in Nat
      BY <2>2 DEF ArePrefixes
    <3>2. Power[k + i] \in Nat /\ Power[i] \in Nat
      <4>1. k + i \in 0 .. SumSize /\ i \in 0 .. SumSize
        BY <1>0, <2>2
      <4> QED
        BY <4>1, PowerIsPower
    <3>3. s[l] \in Nat
      BY <1>0, <2>4 DEF ByteSeq, Byte
    <3> QED
      BY <3>1, <3>2, <3>3
  <2>6. value[l] = x * Base + e
    BY <2>4, <2>5 DEF ArePrefixes
  <2>7. other[l] = y * Base + e
    BY <2>4, <2>5 DEF ArePrefixes
  <2>8. Power[l] = p * Base
    BY <2>4, <2>5, PowerIsPower
  <2>9. Power[i + 1] = q * Base
    <3>1. i + 1 \in 1 .. SumSize /\ (i + 1) - 1 = i
      BY <1>0, <2>1, <2>2
    <3> QED
      BY <2>5, <3>1, PowerIsPower
  <2>10. y + o * p = x + d * q
    BY <1>2, <2>2, <2>5
  <2>11. (y + o * p) * Base = y * Base + o * (p * Base)
    <3>1. CASE o = 0
      BY <1>0, <3>1
    <3>2. CASE o = 1
      <4>1. (y + p) * Base = y * Base + p * Base
        BY <1>0
      <4> QED
        BY <1>0, <3>2, <4>1
    <3> QED
      BY <3>1, <3>2
  <2>12. (x + d * q) * Base = x * Base + d * (q * Base)
    BY <1>0
  <2>13. y * Base + o * (p * Base) = x * Base + d * (q * Base)
    BY <2>10, <2>11, <2>12
  <2>14. PICK a1, a2, a3, a4 \in Nat :
           a1 = y * Base /\ a2 = o * (p * Base) /\ a3 = x * Base /\ a4 = d * (q * Base)
    <3>1. y * Base \in Nat /\ x * Base \in Nat
      BY <1>0
    <3>2. p * Base \in Nat /\ q * Base \in Nat
      BY <1>0
    <3>3. o * (p * Base) \in Nat /\ d * (q * Base) \in Nat
      BY <3>2
    <3> QED
      BY <3>1, <3>3
  <2>15. (a1 + e) + a2 = (a3 + e) + a4
    BY <2>13, <2>14
  <2>16. other[l] + o * Power[l] = value[l] + d * Power[i + 1]
    BY <2>6, <2>7, <2>8, <2>9, <2>14, <2>15
  <2> QED
    BY <2>3, <2>16
<1>3. T = Nat
  <2>1. T \in SUBSET Nat
    OBVIOUS
  <2> HIDE DEF T
  <2> QED
    BY <1>1, <1>2, <2>1, SetInduction
<1>4. n - k \in T /\ k + (n - k) = n
  <2> HIDE DEF T
  <2> QED
    BY <1>3
<1> QED
  BY <1>4

LEMMA RemainderOfCarry ==
  ASSUME NEW m \in Nat \ {0}, NEW x \in Nat, m <= x, x <= 2 * m - 2
  PROVE  x % m = x - m
<1>1. PICK q, r, p, rem : q = 1 /\ r = x - m /\ p = x \div m /\ rem = x % m
  OBVIOUS
<1>2. q \in Nat /\ r \in 0 .. m - 1 /\ q * m = m
  BY <1>1
<1>3. Divided(x, m, q, r)
  BY <1>1, <1>2 DEF Divided
<1>4. r = rem
  BY <1>1, <1>3, DivisionIsUnique
<1> QED
  BY <1>1, <1>4

\* e has been added, but for an overflow of the whole.
IsAdded(t, s, e) == \E o \in {0, 1} : ValueOf(t) + o * Power[SumSize] = ValueOf(s) + e

\* One byte is added with its weight.
LEMMA AddByteAdds ==
  ASSUME NEW n \in Nat, n = SumSize, NEW k \in 1 .. n, NEW i \in Nat, i = n - k, NEW d \in Byte,
         NEW s \in ByteSeq(n), NEW t, t = AddByte(d, k, s)
  PROVE  t \in ByteSeq(n) /\ IsAdded(t, s, d * Power[i])
<1>0. Base \in Nat \ {0, 1} /\ SumSize \in Nat /\ s \in [1 .. n -> Byte] /\ Byte = 0 .. Base - 1
  BY AddToAssumption DEF ByteSeq, Byte
<1> n <= SumSize
  BY <1>0
<1>1. PICK digits \in Nat : digits = d + s[k] /\ digits <= 2 * Base - 2
  BY <1>0
<1>2. PICK w : w = [s EXCEPT ![k] = digits % Base]
  OBVIOUS
<1>3. t = IF digits >= Base THEN Carry(w, k) ELSE w
  BY <1>1, <1>2 DEF AddByte
<1>4. w \in ByteSeq(n)
  <2>1. digits % Base \in Byte
    BY <1>0, <1>1
  <2> QED
    BY <1>0, <1>2, <2>1 DEF ByteSeq
<1>5. PICK value : value = PrefixValues(s)
  OBVIOUS
<1>6. Len(s) = n /\ ArePrefixes(value, s, n)
  BY <1>5, PrefixesArePrefixes
<1>7. PICK m \in 0 .. n : m = k - 1 /\ k = m + 1 /\ m \in 0 .. m
  OBVIOUS
<1>8. PICK x, e \in Nat : x = value[m] /\ e = s[k] /\ value[k] = x * Base + e
  BY <1>0, <1>6, <1>7 DEF ArePrefixes
<1>9. SUFFICES ASSUME NEW other, other = PrefixValues(t)
               PROVE  t \in ByteSeq(n) /\ \E o \in {0, 1} : other[k] + o * Power[k] = value[k] + d
                                                       /\ \A j \in k + 1 .. n : t[j] = s[j]
  <2>1. t \in ByteSeq(n) /\ \E o \in {0, 1} : PrefixValues(t)[k] + o * Power[k] = value[k] + d
                                                /\ \A j \in k + 1 .. n : t[j] = s[j]
    BY <1>9
  <2>2. Len(t) = n /\ ArePrefixes(PrefixValues(t), t, n)
    BY <2>1, PrefixesArePrefixes
  <2>3. PICK other : other = PrefixValues(t)
    OBVIOUS
  <2>4. ValueOf(t) = other[n] /\ ValueOf(s) = value[n]
    BY <1>5, <1>6, <2>2, <2>3 DEF ValueOf
  <2>5. PICK o \in {0, 1} : other[k] + o * Power[k] = value[k] + d
    BY <2>1, <2>3
  <2>6. other[n] + o * Power[n] = value[n] + d * Power[n - k]
    <3>1. d \in Nat /\ k \in 0 .. n /\ \A j \in k + 1 .. n : t[j] = s[j]
      BY <1>0, <2>1
    <3> QED
      BY <1>6, <2>1, <2>2, <2>3, <2>5, <3>1, ShiftedUp
  <2> QED
    BY <2>1, <2>4, <2>6 DEF IsAdded
<1>10. PICK p \in Nat : p = Power[m] /\ Power[k] = p * Base
  BY <1>0, <1>7, PowerIsPower
<1>11. x * Base \in Nat /\ p * Base \in Nat
  BY <1>0
<1>12. CASE digits < Base
  <2>1. t = w /\ w[k] = digits
    <3>1. digits % Base = digits
      <4>1. digits \in 0 .. Base - 1
        BY <1>0, <1>1, <1>12
      <4> QED
        BY <1>0, <4>1
    <3> QED
      BY <1>0, <1>2, <1>3, <1>12, <3>1
  <2>2. ArePrefixes(other, t, n)
    BY <1>4, <1>9, <2>1, PrefixesArePrefixes
  <2>3. \A j \in 1 .. m : t[j] = s[j]
    BY <1>0, <1>2, <1>7, <2>1
  <2>4. other[m] = x
    BY <1>6, <1>7, <1>8, <2>2, <2>3, PrefixOfPrefix
  <2>5. other[k] = x * Base + digits
    BY <1>7, <2>1, <2>2, <2>4 DEF ArePrefixes
  <2>6. other[k] + 0 * Power[k] = value[k] + d
    <3>1. PICK y \in Nat : y = x * Base
      BY <1>11
    <3>2. 0 * Power[k] = 0
      BY <1>10, <1>11
    <3>3. (y + digits) + 0 = (y + e) + d
      BY <1>0, <1>1, <1>8
    <3> QED
      BY <1>8, <2>5, <3>1, <3>2, <3>3
  <2>7. \A j \in k + 1 .. n : t[j] = s[j]
    BY <1>0, <1>2, <2>1
  <2> QED
    BY <1>4, <2>1, <2>6, <2>7
<1>13. CASE digits >= Base
  <2>1. w[k] = digits - Base /\ t = Carry(w, k)
    <3>1. digits % Base = digits - Base
      BY <1>0, <1>1, <1>13, RemainderOfCarry
    <3> QED
      BY <1>0, <1>2, <1>3, <1>7, <1>13, <3>1
  <2>2. PICK old : old = PrefixValues(w)
    OBVIOUS
  <2>3. ArePrefixes(old, w, n)
    BY <1>4, <2>2, PrefixesArePrefixes
  <2>4. /\ t \in ByteSeq(n)
        /\ \A j \in k .. n : t[j] = w[j]
        /\ OneMore(other, old, m)
    <3>1. k \in Int /\ m \in 0 .. n /\ k = m + 1
      BY <1>7
    <3>2. w \in ByteSeq(n) /\ old = PrefixValues(w) /\ t = Carry(w, k) /\ other = PrefixValues(t)
      BY <1>4, <1>9, <2>1, <2>2
    <3>3. t \in ByteSeq(n)
      BY <3>1, <3>2, CarryCarries
    <3>4. OneMore(other, old, m)
      BY <3>1, <3>2, CarryCarries
    <3>5. SameBeyond(t, w, m, n)
      BY <3>1, <3>2, CarryCarries
    <3>6. \A j \in k .. n : t[j] = w[j]
      <4>1. \A j \in k .. n : j \in 1 .. n /\ ~(j <= m)
        BY <3>1
      <4> QED
        BY <3>5, <4>1 DEF SameBeyond
    <3> QED
      BY <3>3, <3>4, <3>6
  <2>5. ArePrefixes(other, t, n)
    BY <1>9, <2>4, PrefixesArePrefixes
  <2>6. old[m] = x
    <3>1. \A j \in 1 .. m : w[j] = s[j]
      BY <1>0, <1>2, <1>7
    <3>2. \A l \in 0 .. m : old[l] = value[l]
      BY <1>6, <2>3, <3>1, PrefixOfPrefix
    <3> QED
      BY <1>7, <1>8, <3>2
  <2>7. PICK o \in {0, 1} : other[m] + o * p = x + 1
    BY <1>10, <2>4, <2>6 DEF OneMore
  <2>8. PICK y \in Nat : y = other[m] /\ other[k] = y * Base + (digits - Base)
    <3>1. t[k] = digits - Base
      BY <1>7, <2>1, <2>4
    <3> QED
      BY <1>7, <2>5, <3>1 DEF ArePrefixes
  <2>9. (y + o * p) * Base = (x + 1) * Base
    BY <2>7, <2>8
  <2>10. (x + 1) * Base = x * Base + Base
    BY <1>0
  <2>11. (y + o * p) * Base = y * Base + o * (p * Base)
    <3>1. CASE o = 0
      BY <1>0, <3>1
    <3>2. CASE o = 1
      <4>1. (y + p) * Base = y * Base + p * Base
        BY <1>0
      <4> QED
        BY <1>0, <3>2, <4>1
    <3> QED
      BY <3>1, <3>2
  <2>12. PICK a1, a2, a3 \in Nat : a1 = y * Base /\ a2 = o * (p * Base) /\ a3 = x * Base
    <3>1. y * Base \in Nat /\ o * (p * Base) \in Nat
      BY <1>0, <1>11
    <3> QED
      BY <1>11, <3>1
  <2>13. (a1 + (digits - Base)) + a2 = (a3 + e) + d
    <3>1. a1 + a2 = a3 + Base
      BY <2>9, <2>10, <2>11, <2>12
    <3> QED
      <4>1. digits = d + e /\ d \in Nat /\ Base \in Nat
        BY <1>0, <1>1, <1>8
      <4> QED
        BY <3>1, <4>1
  <2>14. other[k] + o * Power[k] = value[k] + d
    BY <1>8, <1>10, <2>8, <2>12, <2>13
  <2>15. \A j \in k + 1 .. n : t[j] = s[j]
    <3>1. \A j \in k + 1 .. n : j \in k .. n /\ j # k /\ j \in 1 .. n
      BY <1>7
    <3> QED
      BY <1>0, <1>2, <2>4, <3>1
  <2> QED
    BY <2>4, <2>14, <2>15
<1> QED
  BY <1>0, <1>1, <1>12, <1>13

\* The sums of Plus(): one more byte of the addend in each.
AreSums(sum, a, s, n) ==
  /\ sum[0] = s
  /\ \A i \in 1 .. n : sum[i] = AddByte(a[Len(a) - i + 1], Len(s) - i + 1, sum[i - 1])

\* The bytes that an addend of k bytes and the sum both have.
Common(k) == IF k < SumSize THEN k ELSE SumSize

LEMMA PlusSums ==
  ASSUME NEW k \in Nat, NEW a \in ByteSeq(k), NEW s \in ByteSeq(SumSize),
         NEW n \in Nat, n = Common(k)
  PROVE  \E sum \in [0 .. n -> ByteSeq(SumSize)] : AreSums(sum, a, s, n) /\ Plus(a, s) = sum[n]
<1>0. /\ SumSize \in Nat /\ n \in Nat /\ n <= SumSize /\ n <= k
      /\ Len(a) = k /\ Len(s) = SumSize
      /\ n = IF Len(a) < Len(s) THEN Len(a) ELSE Len(s)
  BY AddToAssumption DEF ByteSeq, Common
<1>1. PICK next : next = [i \in 1 .. n |-> [t \in ByteSeq(SumSize) |->
                            AddByte(a[Len(a) - i + 1], Len(s) - i + 1, t)]]
  OBVIOUS
<1>2. ASSUME NEW i \in 1 .. n, NEW t \in ByteSeq(SumSize)
      PROVE  AddByte(a[Len(a) - i + 1], Len(s) - i + 1, t) \in ByteSeq(SumSize)
  <2>1. PICK d, l : d = a[Len(a) - i + 1] /\ l = Len(s) - i + 1
    OBVIOUS
  <2>2. d \in Byte /\ l \in 1 .. SumSize
    <3>1. Len(a) - i + 1 \in 1 .. k /\ Len(s) - i + 1 \in 1 .. SumSize
      BY <1>0
    <3> QED
      BY <2>1, <3>1 DEF ByteSeq
  <2>3. AddByte(d, l, t) \in ByteSeq(SumSize)
    <3>1. PICK w \in Nat : w = SumSize - l
      BY <1>0, <2>2
    <3> QED
      BY <1>0, <2>2, <3>1, AddByteAdds
  <2> QED
    BY <2>1, <2>3
<1>3. next \in [1 .. n -> [ByteSeq(SumSize) -> ByteSeq(SumSize)]]
  BY <1>1, <1>2
<1>4. PICK f \in [0 .. n -> ByteSeq(SumSize)] : Recursively(f, n, s, next)
  BY <1>0, <1>3, RecursionWorks
<1>5. \A i \in 1 .. n : next[i][f[i - 1]] = AddByte(a[Len(a) - i + 1], Len(s) - i + 1, f[i - 1])
  <2>1. TAKE i \in 1 .. n
  <2>2. f[i - 1] \in ByteSeq(SumSize)
    BY <1>0, <1>4
  <2> QED
    BY <1>1, <2>2
<1> DEFINE Equation(sum) ==
      sum = [i \in 0 .. n |->
               IF i = 0 THEN s ELSE AddByte(a[Len(a) - i + 1], Len(s) - i + 1, sum[i - 1])]
<1>6. Equation(f)
  <2>1. \A i \in 0 .. n : i # 0 => i \in 1 .. n
    BY <1>0
  <2>2. \A i \in 0 .. n : (IF i = 0 THEN s ELSE next[i][f[i - 1]])
                       = (IF i = 0 THEN s ELSE AddByte(a[Len(a) - i + 1], Len(s) - i + 1, f[i - 1]))
    BY <1>5, <2>1
  <2>3. f = [i \in 0 .. n |-> IF i = 0 THEN s ELSE next[i][f[i - 1]]]
    BY <1>4 DEF Recursively
  <2> QED
    BY <2>2, <2>3
<1>7. PICK sum : sum = CHOOSE g : Equation(g)
  OBVIOUS
<1>8. Equation(sum)
  <2> HIDE DEF Equation
  <2> QED
    BY <1>6, <1>7
<1>9. Plus(a, s) = sum[n]
  BY <1>0, <1>7 DEF Plus
<1>10. AreSums(sum, a, s, n) /\ sum = [i \in 0 .. n |-> sum[i]]
  <2>1. \A i \in 0 .. n :
          sum[i] = IF i = 0 THEN s ELSE AddByte(a[Len(a) - i + 1], Len(s) - i + 1, sum[i - 1])
    BY <1>8
  <2>2. \A i \in 1 .. n : i \in 0 .. n /\ i # 0
    BY <1>0
  <2>3. 0 \in 0 .. n
    BY <1>0
  <2>4. AreSums(sum, a, s, n)
    BY <2>1, <2>2, <2>3 DEF AreSums
  <2> QED
    BY <1>8, <2>4
<1> HIDE DEF Equation
<1> DEFINE T == {i \in Nat : i <= n => sum[i] \in ByteSeq(SumSize)}
<1>11. 0 \in T
  BY <1>10 DEF AreSums
<1>12. ASSUME NEW i \in T PROVE i + 1 \in T
  <2>1. SUFFICES ASSUME i + 1 <= n PROVE sum[i + 1] \in ByteSeq(SumSize)
    BY <1>12
  <2>2. PICK l \in 1 .. n : l = i + 1 /\ l - 1 = i
    BY <1>0, <1>12, <2>1
  <2>3. sum[l - 1] \in ByteSeq(SumSize)
    BY <1>0, <1>12, <2>1, <2>2
  <2>4. sum[l] \in ByteSeq(SumSize)
    BY <1>2, <1>10, <2>2, <2>3 DEF AreSums
  <2> QED
    BY <2>2, <2>4
<1>13. T = Nat
  <2>1. T \in SUBSET Nat
    OBVIOUS
  <2> HIDE DEF T
  <2> QED
    BY <1>11, <1>12, <2>1, SetInduction
<1>14. \A i \in 0 .. n : sum[i] \in ByteSeq(SumSize)
  BY <1>0, <1>13
<1>15. sum \in [0 .. n -> ByteSeq(SumSize)]
  BY <1>10, <1>14
<1> QED
  BY <1>9, <1>10, <1>15

\* The addend in two parts: what the first bytes are, with the weight that is left to
\* them, and the others, which have been added.
LEMMA PlusAdds ==
  ASSUME NEW k \in Nat, NEW a \in ByteSeq(k), NEW s \in ByteSeq(SumSize)
  PROVE  /\ Plus(a, s) \in ByteSeq(SumSize)
         /\ \E o \in Nat : ValueOf(Plus(a, s)) + o * Power[SumSize] = ValueOf(s) + ValueOf(a)
<1>0. SumSize \in Nat /\ Base \in Nat \ {0, 1} /\ SumSize <= SumSize
  BY AddToAssumption
<1>14. PICK n \in Nat : n = Common(k)
  BY <1>0 DEF Common
<1>1. PICK sum \in [0 .. n -> ByteSeq(SumSize)] : AreSums(sum, a, s, n) /\ Plus(a, s) = sum[n]
  BY <1>14, PlusSums
<1>2. PICK high : high = PrefixValues(a)
  OBVIOUS
<1>3. Len(a) = k /\ ArePrefixes(high, a, k)
  BY <1>2, PrefixesArePrefixes
<1>4. \A t \in ByteSeq(SumSize) : Len(t) = SumSize /\ ValueOf(t) \in Nat
  <2>1. TAKE t \in ByteSeq(SumSize)
  <2>2. PICK value : value = PrefixValues(t)
    OBVIOUS
  <2>3. Len(t) = SumSize /\ ArePrefixes(value, t, SumSize)
    BY <1>0, <2>2, PrefixesArePrefixes
  <2>4. SumSize \in 0 .. SumSize
    BY <1>0
  <2> QED
    BY <2>2, <2>3, <2>4 DEF ValueOf, ArePrefixes
<1>5. PICK sumPower \in Nat : sumPower = Power[SumSize]
  BY <1>0, PowerIsPower
<1>6. n <= k /\ n <= SumSize /\ \A i \in 0 .. n : i \in 0 .. SumSize /\ k - i \in 0 .. k
  BY <1>0, <1>14 DEF Common
<1> DEFINE Added(i) ==
      \E o \in Nat : ValueOf(sum[i]) + o * sumPower + high[k - i] * Power[i] = ValueOf(s) + high[k]
<1> DEFINE T == {i \in Nat : i <= n => Added(i)}
<1>7. 0 \in T
  <2>1. sum[0] = s /\ k - 0 = k /\ Power[0] = 1 /\ high[k] \in Nat
    BY <1>1, <1>3, PowerIsPower DEF AreSums, ArePrefixes
  <2>2. ValueOf(sum[0]) + 0 * sumPower + high[k - 0] * Power[0] = ValueOf(s) + high[k]
    BY <1>4, <2>1
  <2> QED
    BY <2>2
<1>8. ASSUME NEW i \in T PROVE i + 1 \in T
  <2>1. SUFFICES ASSUME i + 1 <= n PROVE Added(i + 1)
    BY <1>8
  <2>2. PICK l \in 1 .. n : l = i + 1 /\ l - 1 = i /\ i \in 0 .. n
    BY <1>1, <1>8, <2>1
  <2>3. PICK o \in Nat :
          ValueOf(sum[i]) + o * sumPower + high[k - i] * Power[i] = ValueOf(s) + high[k]
    BY <1>8, <2>1
  <2>4. PICK at : at = k - i /\ at = Len(a) - l + 1 /\ at - 1 = k - l /\ at \in 1 .. k
    BY <1>3, <1>6, <2>2
  <2>5. PICK d \in Nat : d = a[at] /\ d \in Byte
    BY <2>4, AddToAssumption DEF ByteSeq, Byte
  <2>6. PICK place \in 1 .. SumSize : place = Len(s) - l + 1 /\ i = SumSize - place
    BY <1>0, <1>4, <1>6, <2>2
  <2>7. PICK t, r \in ByteSeq(SumSize) : t = sum[i] /\ r = sum[l] /\ r = AddByte(d, place, t)
    <3>1. sum[i] \in ByteSeq(SumSize) /\ sum[l] \in ByteSeq(SumSize)
      BY <2>2
    <3>2. sum[l] = AddByte(d, place, sum[i])
      BY <1>1, <2>2, <2>4, <2>5, <2>6 DEF AreSums
    <3> QED
      BY <3>1, <3>2
  <2>8. PICK o2 \in {0, 1} : ValueOf(r) + o2 * sumPower = ValueOf(t) + d * Power[i]
    <3>1. IsAdded(r, t, d * Power[i])
      BY <1>0, <2>2, <2>5, <2>6, <2>7, AddByteAdds
    <3> QED
      BY <1>5, <3>1 DEF IsAdded
  <2>9. PICK h \in Nat : h = high[k - l] /\ high[k - i] = h * Base + d
    <3>1. /\ high \in [0 .. k -> Nat] /\ k - l \in 0 .. k /\ at = k - i
          /\ high[at] = high[at - 1] * Base + a[at]
      BY <1>3, <1>6, <2>2, <2>4 DEF ArePrefixes
    <3> QED
      BY <2>4, <2>5, <3>1
  <2>10. PICK p \in Nat : p = Power[i] /\ Power[l] = p * Base
    <3>1. i \in 0 .. SumSize /\ l \in 1 .. SumSize
      BY <1>0, <1>6, <2>2
    <3>2. Power[i] \in Nat /\ Power[l] = Power[l - 1] * Base
      BY <3>1, PowerIsPower
    <3> QED
      BY <2>2, <3>2
  <2>11. (h * Base + d) * p = h * (p * Base) + d * p
    BY <1>0
  <2>12. PICK v, w, c, e, y, z, g \in Nat :
           /\ v = ValueOf(t) /\ w = ValueOf(r) /\ c = o * sumPower /\ e = o2 * sumPower
           /\ y = h * (p * Base) /\ z = d * p /\ g = ValueOf(s) + high[k]
    <3>1. ValueOf(t) \in Nat /\ ValueOf(r) \in Nat /\ ValueOf(s) \in Nat /\ high[k] \in Nat
      BY <1>3, <1>4, <2>7 DEF ArePrefixes
    <3>2. o * sumPower \in Nat /\ o2 * sumPower \in Nat /\ d * p \in Nat /\ p * Base \in Nat
      BY <1>0
    <3>3. h * (p * Base) \in Nat
      BY <3>2
    <3>4. ValueOf(s) + high[k] \in Nat
      BY <3>1
    <3> QED
      BY <3>1, <3>2, <3>3, <3>4
  <2>13. v + c + (y + z) = g
    BY <2>3, <2>7, <2>9, <2>10, <2>11, <2>12
  <2>14. w + e = v + z
    BY <2>8, <2>10, <2>12
  <2>15. w + (c + e) + y = g
    BY <2>13, <2>14
  <2>16. (o + o2) * sumPower = c + e
    BY <2>12
  <2>17. ValueOf(sum[l]) + (o + o2) * sumPower + high[k - l] * Power[l] = ValueOf(s) + high[k]
    BY <2>7, <2>9, <2>10, <2>12, <2>15, <2>16
  <2>18. o + o2 \in Nat
    OBVIOUS
  <2> QED
    BY <2>2, <2>17, <2>18
<1>9. T = Nat
  <2>1. T \in SUBSET Nat
    OBVIOUS
  <2> HIDE DEF T
  <2> QED
    BY <1>7, <1>8, <2>1, SetInduction
<1>10. PICK o \in Nat :
         ValueOf(sum[n]) + o * sumPower + high[k - n] * Power[n] = ValueOf(s) + high[k]
  <2>1. n \in T /\ n <= n
    <3> HIDE DEF T
    <3> QED
      BY <1>9
  <2>2. Added(n)
    <3> HIDE DEF Added
    <3> QED
      BY <2>1
  <2> QED
    BY <2>2
<1>11. ValueOf(a) = high[k] /\ sum[n] \in ByteSeq(SumSize)
  BY <1>1, <1>2, <1>3 DEF ValueOf
<1>12. CASE n = k
  <2>1. high[k - n] = 0
    BY <1>3, <1>12 DEF ArePrefixes
  <2>2. high[k - n] * Power[n] = 0
    <3>1. Power[n] \in Nat
      BY <1>0, <1>6, PowerIsPower
    <3> QED
      BY <2>1, <3>1
  <2>3. ValueOf(sum[n]) + o * sumPower + 0 = ValueOf(sum[n]) + o * sumPower
    <3>1. PICK x, y \in Nat : x = ValueOf(sum[n]) /\ y = o * sumPower
      BY <1>4, <1>11
    <3> QED
      BY <3>1
  <2> QED
    BY <1>1, <1>5, <1>10, <1>11, <2>2, <2>3
<1>13. CASE n = SumSize
  <2>1. PICK h \in Nat : h = high[k - n]
    BY <1>3, <1>6 DEF ArePrefixes
  <2>2. (o + h) * sumPower = o * sumPower + h * sumPower
    OBVIOUS
  <2>3. ValueOf(sum[n]) + o * sumPower + h * sumPower = ValueOf(sum[n]) + (o + h) * sumPower
    <3>1. PICK x, y, z \in Nat : x = ValueOf(sum[n]) /\ y = o * sumPower /\ z = h * sumPower
      BY <1>4, <1>11
    <3> QED
      BY <2>2, <3>1
  <2>4. o + h \in Nat
    OBVIOUS
  <2> QED
    BY <1>1, <1>5, <1>10, <1>11, <1>13, <2>1, <2>3, <2>4
<1> QED
  BY <1>14, <1>12, <1>13 DEF Common

AddInv == b \in ByteSeq(SumSize) /\ total = ValueOf(b)

\* Addition modulo 2^(8 * length(b)), for every base, every length of the sum and of
\* the addends, shorter or longer, and every chain of carries (HashDRBG.cpp, addTo()).
THEOREM AdditionAdds == AddSpec => []AddToAdds
<1>0. SumSize \in Nat /\ Base \in Nat \ {0, 1} /\ SumSize <= SumSize /\ MaxAddend \in Nat
  BY AddToAssumption
<1>1. AddInit => AddInv
  <2>1. SUFFICES ASSUME AddInit PROVE AddInv
    OBVIOUS
  <2>2. b \in ByteSeq(SumSize) /\ \A i \in 1 .. SumSize : b[i] = 0
    BY <1>0, <2>1 DEF AddInit, ByteSeq, Byte
  <2>3. PICK value : value = PrefixValues(b)
    OBVIOUS
  <2>4. Len(b) = SumSize /\ ArePrefixes(value, b, SumSize)
    BY <1>0, <2>2, <2>3, PrefixesArePrefixes
  <2> DEFINE T == {i \in Nat : i <= SumSize => value[i] = 0}
  <2>5. 0 \in T
    BY <2>4 DEF ArePrefixes
  <2>6. ASSUME NEW i \in T PROVE i + 1 \in T
    <3>1. SUFFICES ASSUME i + 1 <= SumSize PROVE value[i + 1] = 0
      BY <2>6
    <3>2. PICK l \in 1 .. SumSize : l = i + 1 /\ l - 1 = i
      BY <1>0, <2>6, <3>1
    <3>3. value[i] = 0
      BY <1>0, <2>6, <3>1, <3>2
    <3>4. value[l] = 0 * Base + 0
      BY <2>2, <2>4, <3>2, <3>3 DEF ArePrefixes
    <3> QED
      BY <1>0, <3>2, <3>4
  <2>7. T = Nat
    <3>1. T \in SUBSET Nat
      OBVIOUS
    <3> HIDE DEF T
    <3> QED
      BY <2>5, <2>6, <3>1, SetInduction
  <2>8. value[SumSize] = 0
    BY <1>0, <2>7
  <2> QED
    BY <2>1, <2>2, <2>3, <2>4, <2>8 DEF AddInv, AddInit, ValueOf
<1>2. AddInv /\ [AddNext]_addVars => AddInv'
  <2>1. SUFFICES ASSUME AddInv, AddNext PROVE AddInv'
    BY DEF AddInv, addVars
  <2>2. PICK k \in 0 .. MaxAddend : \E a \in [1 .. k -> 0 .. Base - 1] : Add(a)
    BY <2>1 DEF AddNext
  <2>3. PICK a \in ByteSeq(k) : Add(a)
    BY <2>2 DEF ByteSeq, Byte
  <2>4. PICK s, sum : s = b /\ sum = Plus(a, b)
    OBVIOUS
  <2>5. s \in ByteSeq(SumSize) /\ k \in Nat
    BY <1>0, <2>1, <2>2, <2>4 DEF AddInv
  <2>6. PICK o \in Nat : /\ sum \in ByteSeq(SumSize)
                         /\ ValueOf(sum) + o * Power[SumSize] = ValueOf(s) + ValueOf(a)
    BY <2>3, <2>4, <2>5, PlusAdds
  <2>7. PICK value : value = PrefixValues(sum)
    OBVIOUS
  <2>8. Len(sum) = SumSize /\ ArePrefixes(value, sum, SumSize)
    BY <1>0, <2>6, <2>7, PrefixesArePrefixes
  <2>9. PICK v \in Nat : v = ValueOf(sum) /\ v < Power[SumSize]
    <3>1. SumSize \in 0 .. SumSize
      BY <1>0
    <3>2. value[SumSize] \in Nat /\ value[SumSize] < Power[SumSize]
      BY <1>0, <2>6, <2>8, <3>1, PrefixBelowPower DEF ArePrefixes
    <3> QED
      BY <2>7, <2>8, <3>2 DEF ValueOf
  <2>10. PICK p \in Nat \ {0} : p = Power[SumSize]
    BY <1>0, PowerIsPower
  <2>11. PICK x : x = total + ValueOf(a)
    OBVIOUS
  <2>12. x = o * p + v
    <3>1. PICK y \in Nat : y = o * p
      BY <2>10
    <3>2. v + y = x
      BY <2>1, <2>4, <2>6, <2>9, <2>10, <2>11, <3>1 DEF AddInv
    <3> QED
      BY <3>1, <3>2
  <2>13. Divided(x, p, o, v)
    BY <2>9, <2>10, <2>12 DEF Divided
  <2>14. PICK q, r : q = x \div p /\ r = x % p
    OBVIOUS
  <2>15. r = v
    BY <2>10, <2>13, <2>14, DivisionIsUnique
  <2>16. b' = sum /\ total' = r
    BY <2>3, <2>4, <2>10, <2>11, <2>14 DEF Add
  <2> QED
    <3>1. b' \in ByteSeq(SumSize)
      BY <2>6, <2>16
    <3>2. total' = ValueOf(sum)
      BY <2>9, <2>15, <2>16
    <3>3. ValueOf(b)' = ValueOf(sum)
      BY <2>16 DEF ValueOf
    <3> QED
      BY <3>1, <3>2, <3>3 DEF AddInv, ByteSeq, Byte
<1>3. AddInv => AddToAdds
  BY DEF AddInv, AddToAdds
<1> QED
  BY <1>1, <1>2, <1>3, PTL DEF AddSpec

-----------------------------------------------------------------------------
(* Base32: bit f of byte k is bit f - 8 * k + 5 * i of character i. *)

CharBits == 0 .. 4
ByteBits == 0 .. 7

\* The bits that a byte takes from n characters, and a character from m bytes.
BitsOfByte(chars, n, k) == {f \in ByteBits : \E i \in 1 .. n : f - 8 * k + 5 * i \in chars[i]}

BitsOfChar(rest, m, k) == {e \in CharBits : \E i \in 1 .. m : e - 5 * k + 8 * i \in rest[i]}

LEMMA ShlIs ==
  ASSUME NEW x \in SUBSET Int, NEW n \in Int, NEW i
  PROVE  i \in Shl(x, n) <=> i \in Nat /\ i - n \in x
<1>1. ASSUME i \in Shl(x, n) PROVE i \in Nat /\ i - n \in x
  <2>1. PICK j \in x : i = j + n /\ i \in Nat
    BY <1>1 DEF Shl
  <2>2. i - n = j
    BY <2>1
  <2> QED
    BY <2>1, <2>2
<1>2. ASSUME i \in Nat, i - n \in x PROVE i \in Shl(x, n)
  <2>1. PICK j \in x : j = i - n
    BY <1>2
  <2>2. i = j + n
    BY <1>2, <2>1
  <2> QED
    BY <1>2, <2>1, <2>2 DEF Shl
<1> QED
  BY <1>1, <1>2

\* The table of shifts, as a formula.
LEMMA ShiftsAre ==
  ASSUME NEW n \in {2, 4, 5, 7, 8}, NEW i \in 1 .. n
  PROVE  Shifts(n)[i] = 8 * ((n * 5) \div 8) - 5 * i
<1>1. CASE n = 2
  <2>1. Shifts(n) = <<3, -2>> /\ (n * 5) \div 8 = 1 /\ i \in {1, 2}
    BY <1>1 DEF Shifts
  <2> QED
    BY <2>1
<1>2. CASE n = 4
  <2>1. Shifts(n) = <<11, 6, 1, -4>> /\ (n * 5) \div 8 = 2 /\ i \in {1, 2, 3, 4}
    BY <1>2 DEF Shifts
  <2> QED
    BY <2>1
<1>3. CASE n = 5
  <2>1. Shifts(n) = <<19, 14, 9, 4, -1>> /\ (n * 5) \div 8 = 3 /\ i \in {1, 2, 3, 4, 5}
    BY <1>3 DEF Shifts
  <2> QED
    BY <2>1
<1>4. CASE n = 7
  <2>1. /\ Shifts(n) = <<27, 22, 17, 12, 7, 2, -3>> /\ (n * 5) \div 8 = 4
        /\ i \in {1, 2, 3, 4, 5, 6, 7}
    BY <1>4 DEF Shifts
  <2> QED
    BY <2>1
<1>5. CASE n = 8
  <2>1. /\ Shifts(n) = <<35, 30, 25, 20, 15, 10, 5, 0>> /\ (n * 5) \div 8 = 5
        /\ i \in {1, 2, 3, 4, 5, 6, 7, 8}
    BY <1>5 DEF Shifts
  <2> QED
    BY <2>1
<1> QED
  BY <1>1, <1>2, <1>3, <1>4, <1>5

LEMMA DecodeGroupBits ==
  ASSUME NEW n \in {2, 4, 5, 7, 8}, NEW chars \in [1 .. n -> SUBSET CharBits],
         NEW k \in 1 .. (n * 5) \div 8
  PROVE  DecodeGroup(chars)[k] = BitsOfByte(chars, n, k)
<1>0. n \in Nat /\ Len(chars) = n
  OBVIOUS
<1>1. PICK length \in Nat : length = (n * 5) \div 8 /\ k \in 1 .. length
  BY <1>0
<1>2. PICK block : block = UNION {Shl(chars[i], Shifts(n)[i]) : i \in 1 .. n}
  OBVIOUS
<1>3. DecodeGroup(chars)[k] = Mask(Shl(block, -8 * (length - k)), 8)
  BY <1>0, <1>1, <1>2 DEF DecodeGroup
<1>4. \A i \in 1 .. n : Shifts(n)[i] = 8 * length - 5 * i /\ chars[i] \subseteq Int
  <2>1. TAKE i \in 1 .. n
  <2>2. chars[i] \in SUBSET CharBits
    OBVIOUS
  <2>3. Shifts(n)[i] = 8 * ((n * 5) \div 8) - 5 * i
    BY ShiftsAre
  <2> QED
    BY <1>1, <2>2, <2>3 DEF CharBits
<1>5. \A t : t \in block <=> (t \in Nat /\ \E i \in 1 .. n : t - (8 * length - 5 * i) \in chars[i])
  <2>1. TAKE t
  <2>2. t \in block <=> \E i \in 1 .. n : t \in Shl(chars[i], Shifts(n)[i])
    BY <1>2
  <2>3. ASSUME NEW i \in 1 .. n
        PROVE  t \in Shl(chars[i], Shifts(n)[i])
                 <=> (t \in Nat /\ t - (8 * length - 5 * i) \in chars[i])
    <3>1. PICK x, d : x = chars[i] /\ d = Shifts(n)[i] /\ d = 8 * length - 5 * i
      BY <1>4
    <3>2. x \in SUBSET Int /\ d \in Int
      BY <1>1, <1>4, <3>1
    <3>3. t \in Shl(x, d) <=> (t \in Nat /\ t - d \in x)
      BY <3>2, ShlIs
    <3> QED
      BY <3>1, <3>3
  <2> QED
    BY <2>2, <2>3
<1>6. block \in SUBSET Int
  BY <1>5
<1>7. ASSUME NEW f
      PROVE  f \in Mask(Shl(block, -8 * (length - k)), 8)
               <=> (f \in ByteBits /\ \E i \in 1 .. n : f - 8 * k + 5 * i \in chars[i])
  <2>1. PICK d \in Int : d = -8 * (length - k) /\ d <= 0
    BY <1>1
  <2>2. f \in Shl(block, d) <=> (f \in Nat /\ f - d \in block)
    BY <1>6, ShlIs
  <2>3. SUFFICES ASSUME f \in ByteBits
                 PROVE  f - d \in block <=> \E i \in 1 .. n : f - 8 * k + 5 * i \in chars[i]
    BY <2>1, <2>2 DEF Mask, ByteBits
  <2>4. PICK t \in Nat : t = f - d
    BY <2>1, <2>3 DEF ByteBits
  <2>5. \A i \in 1 .. n : t - (8 * length - 5 * i) = f - 8 * k + 5 * i
    BY <1>1, <2>1, <2>3, <2>4 DEF ByteBits
  <2> QED
    BY <1>5, <2>4, <2>5
<1> QED
  BY <1>3, <1>7 DEF BitsOfByte

LEMMA EncodeFiveBits ==
  ASSUME NEW rest \in [1 .. 5 -> SUBSET ByteBits], NEW k \in 1 .. 8
  PROVE  EncodeFive(rest)[k] = BitsOfChar(rest, 5, k)
<1>1. PICK block : block = UNION {Shl(rest[i], 8 * (5 - i)) : i \in 1 .. 5}
  OBVIOUS
<1>2. EncodeFive(rest)[k] = Mask(Shl(block, -(40 - 5 * k)), 5)
  BY <1>1 DEF EncodeFive
<1>3. \A t : t \in block <=> (t \in Nat /\ \E i \in 1 .. 5 : t - 8 * (5 - i) \in rest[i])
  <2>1. TAKE t
  <2>2. t \in block <=> \E i \in 1 .. 5 : t \in Shl(rest[i], 8 * (5 - i))
    BY <1>1
  <2>3. ASSUME NEW i \in 1 .. 5
        PROVE  t \in Shl(rest[i], 8 * (5 - i)) <=> (t \in Nat /\ t - 8 * (5 - i) \in rest[i])
    <3>1. PICK x, d : x = rest[i] /\ d = 8 * (5 - i)
      OBVIOUS
    <3>2. x \in SUBSET Int /\ d \in Int
      BY <3>1 DEF ByteBits
    <3>3. t \in Shl(x, d) <=> (t \in Nat /\ t - d \in x)
      BY <3>2, ShlIs
    <3> QED
      BY <3>1, <3>3
  <2> QED
    BY <2>2, <2>3
<1>4. block \in SUBSET Int
  BY <1>3
<1>5. ASSUME NEW e
      PROVE  e \in Mask(Shl(block, -(40 - 5 * k)), 5)
               <=> (e \in CharBits /\ \E i \in 1 .. 5 : e - 5 * k + 8 * i \in rest[i])
  <2>1. PICK d \in Int : d = -(40 - 5 * k) /\ d <= 0
    OBVIOUS
  <2>2. e \in Shl(block, d) <=> (e \in Nat /\ e - d \in block)
    BY <1>4, ShlIs
  <2>3. SUFFICES ASSUME e \in CharBits
                 PROVE  e - d \in block <=> \E i \in 1 .. 5 : e - 5 * k + 8 * i \in rest[i]
    BY <2>1, <2>2 DEF Mask, CharBits
  <2>4. PICK t \in Nat : t = e - d
    BY <2>1, <2>3 DEF CharBits
  <2>5. \A i \in 1 .. 5 : t - 8 * (5 - i) = e - 5 * k + 8 * i
    BY <2>1, <2>3, <2>4 DEF CharBits
  <2> QED
    BY <1>3, <2>4, <2>5
<1> QED
  BY <1>2, <1>5 DEF BitsOfChar

LEMMA RightIs ==
  ASSUME NEW x \in SUBSET ByteBits, NEW n \in Nat, NEW width \in Nat, NEW e
  PROVE  e \in Right(x, n, width) <=> (e \in 0 .. width - 1 /\ e + n \in x)
<1>1. PICK d \in Int : d = -n
  OBVIOUS
<1>2. e \in Shl(x, d) <=> (e \in Nat /\ e - d \in x)
  BY ShlIs DEF ByteBits
<1>3. e \in Right(x, n, width) <=> (e \in Shl(x, d) /\ e \in 0 .. width - 1)
  BY <1>1 DEF Right, Mask
<1>4. e \in Nat => e - d = e + n
  BY <1>1
<1> QED
  BY <1>2, <1>3, <1>4

LEMMA ShlMaskIs ==
  ASSUME NEW x \in SUBSET ByteBits, NEW n \in Nat, NEW width \in Nat, NEW e
  PROVE  e \in Shl(Mask(x, width), n) <=> (e \in n .. n + width - 1 /\ e - n \in x)
<1>1. PICK y : y = Mask(x, width)
  OBVIOUS
<1>2. y \in SUBSET Int /\ \A i : i \in y <=> (i \in x /\ i \in 0 .. width - 1)
  BY <1>1 DEF Mask, ByteBits
<1>3. e \in Shl(y, n) <=> (e \in Nat /\ e - n \in y)
  BY <1>2, ShlIs
<1>4. (e \in Nat /\ e - n \in 0 .. width - 1) <=> e \in n .. n + width - 1
  OBVIOUS
<1> QED
  BY <1>1, <1>2, <1>3, <1>4

\* Every character of the last group.
LEMMA RestCharsBits ==
  ASSUME NEW rest \in [1 .. 4 -> SUBSET ByteBits], NEW k \in 1 .. 7
  PROVE  RestChars(rest)[k] = BitsOfChar(rest, 4, k)
<1>0. PICK b1, b2, b3, b4 \in SUBSET ByteBits :
        b1 = rest[1] /\ b2 = rest[2] /\ b3 = rest[3] /\ b4 = rest[4]
  OBVIOUS
<1>1. \A e : e \in BitsOfChar(rest, 4, k) <=>
        /\ e \in CharBits
        /\ \/ e - 5 * k + 8 \in b1
           \/ e - 5 * k + 16 \in b2
           \/ e - 5 * k + 24 \in b3
           \/ e - 5 * k + 32 \in b4
  <2>1. TAKE e
  <2>2. \A i \in 1 .. 4 : i \in {1, 2, 3, 4}
    OBVIOUS
  <2>3. /\ 8 * 1 = 8 /\ 8 * 2 = 16 /\ 8 * 3 = 24 /\ 8 * 4 = 32
        /\ 1 \in 1 .. 4 /\ 2 \in 1 .. 4 /\ 3 \in 1 .. 4 /\ 4 \in 1 .. 4
    OBVIOUS
  <2> QED
    BY <1>0, <2>2, <2>3 DEF BitsOfChar
<1>2. \A i \in Int : (i \in b1 \/ i \in b2 \/ i \in b3 \/ i \in b4) => 0 <= i /\ i <= 7
  BY DEF ByteBits
<1>3. CASE k = 1
  <2>1. RestChars(rest)[k] = Right(b1, 3, 5)
    BY <1>0, <1>3 DEF RestChars
  <2>2. \A e : e \in Right(b1, 3, 5) <=> (e \in 0 .. 4 /\ e + 3 \in b1)
    BY RightIs
  <2>3. \A e \in CharBits : /\ e - 5 * k + 8 = e + 3 /\ ~(e - 5 * k + 16 \in b2)
                            /\ ~(e - 5 * k + 24 \in b3) /\ ~(e - 5 * k + 32 \in b4)
    BY <1>2, <1>3 DEF CharBits
  <2> QED
    BY <1>1, <2>1, <2>2, <2>3 DEF CharBits
<1>4. CASE k = 2
  <2>1. RestChars(rest)[k] = Shl(Mask(b1, 3), 2) \cup Right(b2, 6, 2)
    BY <1>0, <1>4 DEF RestChars
  <2>2. \A e : e \in Right(b2, 6, 2) <=> (e \in 0 .. 1 /\ e + 6 \in b2)
    BY RightIs
  <2>3. \A e : e \in Shl(Mask(b1, 3), 2) <=> (e \in 2 .. 4 /\ e - 2 \in b1)
    BY ShlMaskIs
  <2>4. \A e \in CharBits : /\ e - 5 * k + 8 = e - 2 /\ e - 5 * k + 16 = e + 6
                            /\ ~(e - 5 * k + 24 \in b3) /\ ~(e - 5 * k + 32 \in b4)
    BY <1>2, <1>4 DEF CharBits
  <2>5. \A e \in CharBits : (e - 2 \in b1 => e \in 2 .. 4) /\ (e + 6 \in b2 => e \in 0 .. 1)
    BY <1>2 DEF CharBits
  <2> QED
    BY <1>1, <2>1, <2>2, <2>3, <2>4, <2>5 DEF CharBits
<1>5. CASE k = 3
  <2>1. RestChars(rest)[k] = Right(b2, 1, 5)
    BY <1>0, <1>5 DEF RestChars
  <2>2. \A e : e \in Right(b2, 1, 5) <=> (e \in 0 .. 4 /\ e + 1 \in b2)
    BY RightIs
  <2>3. \A e \in CharBits : /\ ~(e - 5 * k + 8 \in b1) /\ e - 5 * k + 16 = e + 1
                            /\ ~(e - 5 * k + 24 \in b3) /\ ~(e - 5 * k + 32 \in b4)
    BY <1>2, <1>5 DEF CharBits
  <2> QED
    BY <1>1, <2>1, <2>2, <2>3 DEF CharBits
<1>6. CASE k = 4
  <2>1. RestChars(rest)[k] = Shl(Mask(b2, 1), 4) \cup Right(b3, 4, 4)
    BY <1>0, <1>6 DEF RestChars
  <2>2. \A e : e \in Right(b3, 4, 4) <=> (e \in 0 .. 3 /\ e + 4 \in b3)
    BY RightIs
  <2>3. \A e : e \in Shl(Mask(b2, 1), 4) <=> (e \in 4 .. 4 /\ e - 4 \in b2)
    BY ShlMaskIs
  <2>4. \A e \in CharBits : /\ ~(e - 5 * k + 8 \in b1) /\ e - 5 * k + 16 = e - 4
                            /\ e - 5 * k + 24 = e + 4 /\ ~(e - 5 * k + 32 \in b4)
    BY <1>2, <1>6 DEF CharBits
  <2>5. \A e \in CharBits : (e - 4 \in b2 => e \in 4 .. 4) /\ (e + 4 \in b3 => e \in 0 .. 3)
    BY <1>2 DEF CharBits
  <2> QED
    BY <1>1, <2>1, <2>2, <2>3, <2>4, <2>5 DEF CharBits
<1>7. CASE k = 5
  <2>1. RestChars(rest)[k] = Shl(Mask(b3, 4), 1) \cup Right(b4, 7, 1)
    BY <1>0, <1>7 DEF RestChars
  <2>2. \A e : e \in Right(b4, 7, 1) <=> (e \in 0 .. 0 /\ e + 7 \in b4)
    BY RightIs
  <2>3. \A e : e \in Shl(Mask(b3, 4), 1) <=> (e \in 1 .. 4 /\ e - 1 \in b3)
    BY ShlMaskIs
  <2>4. \A e \in CharBits : /\ ~(e - 5 * k + 8 \in b1) /\ ~(e - 5 * k + 16 \in b2)
                            /\ e - 5 * k + 24 = e - 1 /\ e - 5 * k + 32 = e + 7
    BY <1>2, <1>7 DEF CharBits
  <2>5. \A e \in CharBits : (e - 1 \in b3 => e \in 1 .. 4) /\ (e + 7 \in b4 => e \in 0 .. 0)
    BY <1>2 DEF CharBits
  <2> QED
    BY <1>1, <2>1, <2>2, <2>3, <2>4, <2>5 DEF CharBits
<1>8. CASE k = 6
  <2>1. RestChars(rest)[k] = Right(b4, 2, 5)
    BY <1>0, <1>8 DEF RestChars
  <2>2. \A e : e \in Right(b4, 2, 5) <=> (e \in 0 .. 4 /\ e + 2 \in b4)
    BY RightIs
  <2>3. \A e \in CharBits : /\ ~(e - 5 * k + 8 \in b1) /\ ~(e - 5 * k + 16 \in b2)
                            /\ ~(e - 5 * k + 24 \in b3) /\ e - 5 * k + 32 = e + 2
    BY <1>2, <1>8 DEF CharBits
  <2> QED
    BY <1>1, <2>1, <2>2, <2>3 DEF CharBits
<1>9. CASE k = 7
  <2>1. RestChars(rest)[k] = Shl(Mask(b4, 2), 3)
    BY <1>0, <1>9 DEF RestChars
  <2>2. \A e : e \in Shl(Mask(b4, 2), 3) <=> (e \in 3 .. 4 /\ e - 3 \in b4)
    BY ShlMaskIs
  <2>3. \A e \in CharBits : /\ ~(e - 5 * k + 8 \in b1) /\ ~(e - 5 * k + 16 \in b2)
                            /\ ~(e - 5 * k + 24 \in b3) /\ e - 5 * k + 32 = e - 3
    BY <1>2, <1>9 DEF CharBits
  <2>4. \A e \in CharBits : e - 3 \in b4 => e \in 3 .. 4
    BY <1>2 DEF CharBits
  <2> QED
    BY <1>1, <2>1, <2>2, <2>3, <2>4 DEF CharBits
<1> QED
  BY <1>3, <1>4, <1>5, <1>6, <1>7, <1>8, <1>9

\* A group of m bytes: what is a character of theirs, and what is a pad.
LEMMA EncodeGroupBits ==
  ASSUME NEW m \in 1 .. 5, NEW bs \in [1 .. m -> SUBSET ByteBits], NEW k \in 1 .. 8
  PROVE  EncodeGroup(bs)[k] = IF 5 * k - 4 <= 8 * m THEN BitsOfChar(bs, m, k) ELSE Pad
<1>0. Len(bs) = m
  OBVIOUS
<1>1. CASE m = 5
  <2>1. EncodeGroup(bs) = EncodeFive(bs) /\ 5 * k - 4 <= 8 * m
    BY <1>0, <1>1 DEF EncodeGroup
  <2> QED
    BY <1>1, <2>1, EncodeFiveBits
<1>2. CASE m # 5
  <2>1. PICK rest : rest = [i \in 1 .. 4 |-> IF i <= Len(bs) THEN bs[i] ELSE {}]
    OBVIOUS
  <2>2. /\ rest \in [1 .. 4 -> SUBSET ByteBits]
        /\ \A i \in 1 .. 4 : rest[i] = IF i <= m THEN bs[i] ELSE {}
    BY <1>0, <2>1
  <2>3. EncodeGroup(bs)[k] = IF k <= RestSize(m) THEN RestChars(rest)[k] ELSE Pad
    BY <1>0, <1>2, <2>1 DEF EncodeGroup, EncodeRest
  <2>4. RestSize(m) \in Nat /\ (k <= RestSize(m) <=> 5 * k - 4 <= 8 * m) /\ RestSize(m) <= 7
    <3>1. CASE m = 1
      BY <3>1 DEF RestSize
    <3>2. CASE m = 2
      BY <3>2 DEF RestSize
    <3>3. CASE m = 3
      BY <3>3 DEF RestSize
    <3>4. CASE m = 4
      BY <3>4 DEF RestSize
    <3> QED
      BY <1>2, <3>1, <3>2, <3>3, <3>4
  <2>5. ASSUME k <= RestSize(m) PROVE RestChars(rest)[k] = BitsOfChar(bs, m, k)
    <3>1. RestChars(rest)[k] = BitsOfChar(rest, 4, k)
      BY <2>2, <2>4, <2>5, RestCharsBits
    <3>2. \A e : (\E i \in 1 .. 4 : e - 5 * k + 8 * i \in rest[i])
                   <=> (\E i \in 1 .. m : e - 5 * k + 8 * i \in bs[i])
      <4>1. \A i \in 1 .. m : i \in 1 .. 4 /\ i <= m
        BY <1>2
      <4>2. \A i \in 1 .. 4 : i <= m => i \in 1 .. m
        OBVIOUS
      <4> QED
        BY <2>2, <4>1, <4>2
    <3> QED
      BY <3>1, <3>2 DEF BitsOfChar
  <2> QED
    BY <2>3, <2>4, <2>5
<1> QED
  BY <1>1, <1>2

IsGroup(first, count, group, seq, size, n, g) ==
  /\ first = size * g
  /\ count = IF first + size < n THEN size ELSE n - first
  /\ group = GroupOf(seq, size, n, g)

IsPart(first, count, group, seq, size, n, S) ==
  /\ count \in 1 .. size /\ first + count <= n
  /\ group \in [1 .. count -> S] /\ \A i \in 1 .. count : group[i] = seq[first + i]

\* A group is what follows the groups before it.
LEMMA GroupIs ==
  ASSUME NEW S, NEW seq \in Seq(S), NEW size \in Nat \ {0}, NEW n \in 0 .. Len(seq), NEW g \in Nat,
         NEW first \in 0 .. n - 1, NEW count, NEW group,
         IsGroup(first, count, group, seq, size, n, g)
  PROVE  IsPart(first, count, group, seq, size, n, S)
<1>0. /\ n \in Nat /\ first \in Nat /\ Len(seq) \in Nat /\ n <= Len(seq)
      /\ first = size * g /\ count = (IF first + size < n THEN size ELSE n - first)
      /\ group = GroupOf(seq, size, n, g)
  BY DEF IsGroup
<1>1. count \in 1 .. size /\ first + count <= n
  BY <1>0
<1>2. PICK m, l \in Int : m = first + 1 /\ l = first + count
  BY <1>0, <1>1
<1>3. group = SubSeq(seq, m, l)
  <2>1. l = IF first + size < n THEN first + size ELSE n
    BY <1>0, <1>2
  <2>2. group = SubSeq(seq, first + 1, IF first + size < n THEN first + size ELSE n)
    BY <1>0 DEF GroupOf
  <2> QED
    BY <1>2, <2>1, <2>2
<1>4. \A i \in m .. l : seq[i] \in S
  <2>1. \A i \in m .. l : i \in 1 .. Len(seq)
    BY <1>0, <1>1, <1>2
  <2> QED
    BY <2>1
<1>5. /\ group \in Seq(S) /\ Len(group) = IF m <= l THEN l - m + 1 ELSE 0
      /\ \A i \in 1 .. l - m + 1 : group[i] = seq[m + i - 1]
  BY <1>3, <1>4, SubSeqProperties
<1>6. Len(group) = count /\ l - m + 1 = count
  <2>1. m <= l /\ l - m + 1 = count
    BY <1>0, <1>1, <1>2
  <2> QED
    BY <1>5, <2>1
<1>7. group \in [1 .. count -> S]
  BY <1>5, <1>6
<1>8. \A i \in 1 .. count : m + i - 1 = first + i
  BY <1>0, <1>1, <1>2
<1>9. \A i \in 1 .. count : group[i] = seq[first + i]
  BY <1>5, <1>6, <1>8
<1> QED
  BY <1>1, <1>7, <1>9 DEF IsPart

\* A text of n values before its pads.
IsText(s, n) ==
  /\ s \in Seq((SUBSET CharBits) \cup {Pad}) /\ n \in 0 .. Len(s)
  /\ \A i \in 1 .. n : s[i] \in SUBSET CharBits
  /\ \A i \in n + 1 .. Len(s) : s[i] = Pad

\* What is decoded, bit by bit, across the groups.
LEMMA DecodedBits ==
  ASSUME NEW s, NEW n, IsText(s, n), n = ValueCount(s), n % 8 \in {0, 2, 4, 5, 7},
         NEW k \in 1 .. (n * 5) \div 8
  PROVE  Decoded(s)[k] = BitsOfByte(s, n, k)
<1>0. n \in Nat /\ s \in Seq((SUBSET CharBits) \cup {Pad}) /\ n \in 0 .. Len(s)
  BY DEF IsText
<1>1. PICK length \in Nat : length = (n * 5) \div 8 /\ k \in 1 .. length /\ 8 * k <= 5 * n
  BY <1>0
<1>2. PICK g \in Nat, j \in 1 .. 5 : /\ g = (k - 1) \div 5 /\ j = ((k - 1) % 5) + 1
                                     /\ k = 5 * g + j
  BY <1>1
<1>3. Decoded(s)[k] = DecodeGroup(GroupOf(s, 8, n, g))[j]
  BY <1>1, <1>2 DEF Decoded
<1>4. PICK first \in Nat : first = 8 * g /\ first \in 0 .. n - 1
  BY <1>0, <1>1, <1>2
<1>5. PICK count \in Nat : count = IF first + 8 < n THEN 8 ELSE n - first
  BY <1>0, <1>4
<1>6. PICK group : group = GroupOf(s, 8, n, g)
  OBVIOUS
<1>7. /\ count \in 1 .. 8 /\ first + count <= n
      /\ group \in [1 .. count -> (SUBSET CharBits) \cup {Pad}]
      /\ \A i \in 1 .. count : group[i] = s[first + i]
  <2>0. PICK S : S = (SUBSET CharBits) \cup {Pad}
    OBVIOUS
  <2>1. PICK size \in Nat \ {0} : size = 8
    OBVIOUS
  <2>2. s \in Seq(S) /\ n \in 0 .. Len(s) /\ first \in 0 .. n - 1 /\ first = size * g
    BY <1>0, <1>4, <2>0, <2>1
  <2>3. IsGroup(first, count, group, s, size, n, g)
    BY <1>4, <1>5, <1>6, <2>1 DEF IsGroup
  <2>4. IsPart(first, count, group, s, size, n, S)
    BY <2>2, <2>3, GroupIs
  <2> QED
    BY <2>0, <2>1, <2>4 DEF IsPart
<1>8. group \in [1 .. count -> SUBSET CharBits]
  <2>1. \A i \in 1 .. count : first + i \in 1 .. n
    BY <1>0, <1>4, <1>7
  <2>2. \A i \in 1 .. count : group[i] \in SUBSET CharBits
    BY <1>7, <2>1 DEF IsText
  <2> QED
    BY <1>7, <2>2
<1>9. count \in {2, 4, 5, 7, 8} /\ j \in 1 .. (count * 5) \div 8
  <2>1. CASE first + 8 < n
    BY <1>2, <1>4, <1>5, <2>1
  <2>2. CASE ~(first + 8 < n)
    <3>1. n = 8 * g + count /\ count \in 1 .. 8
      BY <1>0, <1>4, <1>5, <1>7, <2>2
    <3>2. count = 8 \/ count = n % 8
      BY <1>0, <3>1
    <3>3. count \in {2, 4, 5, 7, 8}
      BY <3>1, <3>2
    <3>4. 8 * j <= 5 * count
      BY <1>0, <1>1, <1>2, <3>1
    <3> QED
      BY <3>3, <3>4
  <2> QED
    BY <2>1, <2>2
<1>10. Decoded(s)[k] = BitsOfByte(group, count, j)
  BY <1>3, <1>6, <1>8, <1>9, DecodeGroupBits
<1>11. ASSUME NEW f \in ByteBits
       PROVE  (\E i \in 1 .. count : f - 8 * j + 5 * i \in group[i])
                <=> (\E i \in 1 .. n : f - 8 * k + 5 * i \in s[i])
  <2>1. ASSUME NEW i \in 1 .. count, f - 8 * j + 5 * i \in group[i]
        PROVE  \E l \in 1 .. n : f - 8 * k + 5 * l \in s[l]
    <3>1. PICK l \in 1 .. n : l = first + i
      BY <1>0, <1>4, <1>7
    <3>2. f - 8 * k + 5 * l = f - 8 * j + 5 * i
      BY <1>2, <1>4, <3>1 DEF ByteBits
    <3> QED
      BY <1>7, <2>1, <3>1, <3>2
  <2>2. ASSUME NEW l \in 1 .. n, f - 8 * k + 5 * l \in s[l]
        PROVE  \E i \in 1 .. count : f - 8 * j + 5 * i \in group[i]
    <3>1. f - 8 * k + 5 * l \in CharBits
      BY <1>0, <2>2 DEF IsText
    <3>2. PICK i \in Int : i = l - first
      BY <1>0, <1>4
    <3>3. i \in 1 .. 8
      BY <1>0, <1>2, <1>4, <3>1, <3>2 DEF CharBits, ByteBits
    <3>4. i \in 1 .. count /\ l = first + i
      BY <1>0, <1>4, <1>5, <3>2, <3>3
    <3>5. f - 8 * k + 5 * l = f - 8 * j + 5 * i
      BY <1>2, <1>4, <3>4 DEF ByteBits
    <3> QED
      BY <1>7, <2>2, <3>4, <3>5
  <2> QED
    BY <2>1, <2>2
<1> QED
  BY <1>10, <1>11 DEF BitsOfByte

\* What is encoded, in the same way, and where the pads are.
LEMMA EncodedBits ==
  ASSUME NEW m \in Nat, NEW bs \in Seq(SUBSET ByteBits), Len(bs) = m,
         NEW k \in 1 .. 8 * ((m + 4) \div 5)
  PROVE  Encoded(bs)[k] = IF 5 * k - 4 <= 8 * m THEN BitsOfChar(bs, m, k) ELSE Pad
<1>1. PICK g \in Nat, j \in 1 .. 8 : /\ g = (k - 1) \div 8 /\ j = ((k - 1) % 8) + 1
                                     /\ k = 8 * g + j
  OBVIOUS
<1>2. PICK q \in Nat : q = (m + 4) \div 5 /\ 5 * q <= m + 4 /\ k <= 8 * q
  OBVIOUS
<1>3. Encoded(bs)[k] = EncodeGroup(GroupOf(bs, 5, m, g))[j]
  BY <1>1 DEF Encoded
<1>4. PICK first \in Nat : first = 5 * g /\ first \in 0 .. m - 1
  BY <1>1, <1>2
<1>5. PICK count \in Nat : count = IF first + 5 < m THEN 5 ELSE m - first
  <2>1. first \in Nat /\ first < m /\ m - first \in Nat
    BY <1>4
  <2> QED
    BY <2>1
<1>6. PICK group : group = GroupOf(bs, 5, m, g)
  OBVIOUS
<1>7. /\ count \in 1 .. 5 /\ first + count <= m
      /\ group \in [1 .. count -> SUBSET ByteBits]
      /\ \A i \in 1 .. count : group[i] = bs[first + i]
  <2>0. PICK S : S = SUBSET ByteBits
    OBVIOUS
  <2>1. PICK size \in Nat \ {0} : size = 5
    OBVIOUS
  <2>2. bs \in Seq(S) /\ m \in 0 .. Len(bs) /\ first \in 0 .. m - 1 /\ first = size * g
    BY <1>4, <2>0, <2>1
  <2>3. IsGroup(first, count, group, bs, size, m, g)
    BY <1>4, <1>5, <1>6, <2>1 DEF IsGroup
  <2>4. IsPart(first, count, group, bs, size, m, S)
    BY <2>2, <2>3, GroupIs
  <2> QED
    BY <2>0, <2>1, <2>4 DEF IsPart
<1>8. Encoded(bs)[k] = IF 5 * j - 4 <= 8 * count THEN BitsOfChar(group, count, j) ELSE Pad
  BY <1>3, <1>6, <1>7, EncodeGroupBits
<1>9. 5 * j - 4 <= 8 * count <=> 5 * k - 4 <= 8 * m
  <2>1. CASE first + 5 < m
    BY <1>1, <1>4, <1>5, <2>1
  <2>2. CASE ~(first + 5 < m)
    BY <1>1, <1>4, <1>5, <2>2
  <2> QED
    BY <2>1, <2>2
<1>10. ASSUME NEW e \in CharBits
       PROVE  (\E i \in 1 .. count : e - 5 * j + 8 * i \in group[i])
                <=> (\E i \in 1 .. m : e - 5 * k + 8 * i \in bs[i])
  <2>1. ASSUME NEW i \in 1 .. count, e - 5 * j + 8 * i \in group[i]
        PROVE  \E l \in 1 .. m : e - 5 * k + 8 * l \in bs[l]
    <3>1. PICK l \in 1 .. m : l = first + i
      BY <1>4, <1>7
    <3>2. e - 5 * k + 8 * l = e - 5 * j + 8 * i
      BY <1>1, <1>4, <3>1 DEF CharBits
    <3> QED
      BY <1>7, <2>1, <3>1, <3>2
  <2>2. ASSUME NEW l \in 1 .. m, e - 5 * k + 8 * l \in bs[l]
        PROVE  \E i \in 1 .. count : e - 5 * j + 8 * i \in group[i]
    <3>1. e - 5 * k + 8 * l \in ByteBits
      <4>1. bs[l] \in SUBSET ByteBits
        OBVIOUS
      <4> QED
        BY <2>2, <4>1
    <3>2. PICK i \in Int : i = l - first
      BY <1>4
    <3>3. i \in 1 .. 5
      BY <1>1, <1>4, <3>1, <3>2 DEF CharBits, ByteBits
    <3>4. i \in 1 .. count /\ l = first + i
      BY <1>4, <1>5, <3>2, <3>3
    <3>5. e - 5 * k + 8 * l = e - 5 * j + 8 * i
      BY <1>1, <1>4, <3>4 DEF CharBits
    <3> QED
      BY <1>7, <2>2, <3>4, <3>5
  <2> QED
    BY <2>1, <2>2
<1> QED
  BY <1>8, <1>9, <1>10 DEF BitsOfChar

\* The values are counted.
LEMMA CountOfText ==
  ASSUME NEW s, NEW n, IsText(s, n)
  PROVE  ValueCount(s) = n
<1>0. n \in Nat /\ Len(s) \in Nat /\ n <= Len(s)
  BY DEF IsText
<1>1. PICK places : places = {i \in 1 .. Len(s) : IsValue(s[i])}
  OBVIOUS
<1>2. \A i \in 1 .. Len(s) : i \in places <=> i <= n
  <2>1. TAKE i \in 1 .. Len(s)
  <2>2. CASE i <= n
    <3>1. s[i] \in SUBSET CharBits
      BY <1>0, <2>2 DEF IsText
    <3> QED
      BY <1>1, <2>2, <3>1 DEF IsValue, CharBits
  <2>3. CASE ~(i <= n)
    <3>1. s[i] = Pad
      BY <1>0, <2>3 DEF IsText
    <3>2. -1 \in Pad /\ ~(-1 \in 0 .. 4)
      BY DEF Pad
    <3> QED
      BY <1>1, <2>3, <3>1, <3>2 DEF IsValue
  <2> QED
    BY <2>2, <2>3
<1>3. places = 1 .. n
  BY <1>0, <1>1, <1>2
<1>4. Cardinality(1 .. n) = n
  BY <1>0, FS_Interval
<1> QED
  BY <1>1, <1>3, <1>4 DEF ValueCount

\* Of n values and m bytes: the values that hold the bytes, and the bits they leave.
IsLength(n, m) == /\ n = (8 * m + 4) \div 5 /\ m = (n * 5) \div 8
                  /\ n % 8 \in {0, 2, 4, 5, 7}
                  /\ 5 * n - 8 * m \in 0 .. 4

\* How many pads there are, and how many bits the last value must leave.
ArePads(n, m, pads) ==
  /\ pads \in {0, 1, 3, 4, 6} /\ 8 * ((m + 4) \div 5) = n + pads
  /\ pads = 0 => 5 * n = 8 * m
  /\ pads # 0 => n % 8 = LastValues(pads) /\ 5 * n - 8 * m = LastBits(pads) /\ n > 0

LEMMA EncodedLength ==
  ASSUME NEW m \in Nat, NEW n, n = (8 * m + 4) \div 5
  PROVE  n \in Nat /\ IsLength(n, m) /\ \E pads : ArePads(n, m, pads)
<1>1. PICK a \in Nat, r \in 0 .. 4 : m = 5 * a + r
  <2>1. PICK a, r : a = m \div 5 /\ r = m - 5 * a
    OBVIOUS
  <2>2. a \in Nat /\ r \in 0 .. 4 /\ m = 5 * a + r
    BY <2>1
  <2> QED
    BY <2>2
<1>2. PICK x, z \in Nat :
        /\ x = IF r = 0 THEN 0 ELSE IF r = 1 THEN 2 ELSE IF r = 2 THEN 4 ELSE IF r = 3 THEN 5 ELSE 7
        /\ z = 5 * x - 8 * r
  OBVIOUS
<1>3. n = 8 * a + x
  BY <1>1, <1>2
<1>4. (m + 4) \div 5 = IF r = 0 THEN a ELSE a + 1
  BY <1>1
<1>5. IsLength(n, m) /\ n \in Nat
  BY <1>1, <1>2, <1>3 DEF IsLength
<1>6. PICK pads : pads = IF r = 0 THEN 0 ELSE 8 - x
  OBVIOUS
<1>7. ArePads(n, m, pads)
  <2>1. pads \in {0, 1, 3, 4, 6} /\ (pads = 0 <=> r = 0)
    BY <1>2, <1>6
  <2>2. 8 * ((m + 4) \div 5) = n + pads
    BY <1>2, <1>3, <1>4, <1>6
  <2>3. pads = 0 => 5 * n = 8 * m
    BY <1>1, <1>2, <1>3, <2>1
  <2>4. 5 * n - 8 * m = z /\ (r # 0 => n % 8 = x /\ n > 0)
    BY <1>1, <1>2, <1>3
  <2>5. r # 0 => x = LastValues(pads) /\ z = LastBits(pads)
    <3>1. CASE r = 1
      BY <1>2, <1>6, <3>1 DEF LastValues, LastBits
    <3>2. CASE r = 2
      BY <1>2, <1>6, <3>2 DEF LastValues, LastBits
    <3>3. CASE r = 3
      BY <1>2, <1>6, <3>3 DEF LastValues, LastBits
    <3>4. CASE r = 4
      BY <1>2, <1>6, <3>4 DEF LastValues, LastBits
    <3> QED
      BY <3>1, <3>2, <3>3, <3>4
  <2> QED
    BY <2>1, <2>2, <2>3, <2>4, <2>5 DEF ArePads
<1> QED
  BY <1>5, <1>7

\* What is encoded is a text, and is accepted.
LEMMA EncodedText ==
  ASSUME NEW m \in Nat, NEW bs \in Seq(SUBSET ByteBits), Len(bs) = m,
         NEW n \in Nat, n = (8 * m + 4) \div 5, NEW s, s = Encoded(bs)
  PROVE  /\ IsText(s, n) /\ Len(s) = 8 * ((m + 4) \div 5)
         /\ \A i \in 1 .. n : s[i] = BitsOfChar(bs, m, i)
<1>1. PICK l \in Nat, pads \in Nat : /\ l = 8 * ((m + 4) \div 5) /\ l = n + pads
                                     /\ IsLength(n, m)
  <2>1. PICK pads : ArePads(n, m, pads) /\ IsLength(n, m)
    BY EncodedLength
  <2> QED
    BY <2>1 DEF ArePads
<1>2. Len(s) = l /\ s = [k \in 1 .. l |-> s[k]]
  <2>1. DOMAIN s = 1 .. 8 * ((m + 4) \div 5) /\ s = [k \in DOMAIN s |-> s[k]]
    BY DEF Encoded
  <2>2. DOMAIN s = 1 .. l
    BY <1>1, <2>1
  <2> QED
    BY <2>1, <2>2
<1>3. ASSUME NEW k \in 1 .. l
      PROVE  s[k] = IF k <= n THEN BitsOfChar(bs, m, k) ELSE Pad
  <2>1. k \in 1 .. 8 * ((m + 4) \div 5) /\ k \in Nat
    BY <1>1
  <2>2. 5 * k - 4 <= 8 * m <=> k <= n
    OBVIOUS
  <2> QED
    BY <2>1, <2>2, EncodedBits
<1>4. \A k : BitsOfChar(bs, m, k) \in SUBSET CharBits
  BY DEF BitsOfChar
<1>5. s \in [1 .. l -> (SUBSET CharBits) \cup {Pad}]
  BY <1>2, <1>3, <1>4
<1>6. s \in Seq((SUBSET CharBits) \cup {Pad})
  BY <1>5
<1>7. IsText(s, n)
  <2>1. n \in 0 .. l /\ \A i \in 1 .. n : i \in 1 .. l /\ i <= n
    BY <1>1
  <2>2. \A i \in n + 1 .. l : i \in 1 .. l /\ ~(i <= n)
    BY <1>1
  <2> QED
    BY <1>2, <1>3, <1>4, <1>6, <2>1, <2>2 DEF IsText
<1>8. \A i \in 1 .. n : i \in 1 .. l /\ i <= n
  BY <1>1
<1> QED
  BY <1>1, <1>2, <1>3, <1>7, <1>8

LEMMA EncodedAccepted ==
  ASSUME NEW m \in Nat, NEW bs \in Seq(SUBSET ByteBits), Len(bs) = m, NEW s, s = Encoded(bs)
  PROVE  IsBase32(s)
<1>1. PICK n \in Nat, pads \in Nat :
        n = (8 * m + 4) \div 5 /\ IsLength(n, m) /\ ArePads(n, m, pads)
  <2>1. PICK n : n = (8 * m + 4) \div 5
    OBVIOUS
  <2>2. PICK pads : n \in Nat /\ IsLength(n, m) /\ ArePads(n, m, pads)
    BY <2>1, EncodedLength
  <2>3. pads \in Nat
    BY <2>2 DEF ArePads
  <2> QED
    BY <2>1, <2>2, <2>3
<1>2. /\ IsText(s, n) /\ Len(s) = 8 * ((m + 4) \div 5)
      /\ \A i \in 1 .. n : s[i] = BitsOfChar(bs, m, i)
  BY <1>1, EncodedText
<1>3. ValueCount(s) = n
  BY <1>2, CountOfText
<1>4. pads \in {0, 1, 3, 4, 6} /\ Len(s) = n + pads /\ Len(s) % 8 = 0
  <2>1. PICK q \in Nat : q = (m + 4) \div 5 /\ 8 * q = n + pads
    BY <1>1 DEF ArePads
  <2>2. (8 * q) % 8 = 0
    OBVIOUS
  <2> QED
    BY <1>1, <1>2, <2>1, <2>2 DEF ArePads
<1>5. Len(s) - n = pads
  BY <1>4
<1>6. \A i \in 1 .. Len(s) : s[i] = Pad \/ (IsValue(s[i]) /\ \A j \in 1 .. i : s[j] # Pad)
  <2>1. \A i \in 1 .. n : IsValue(s[i]) /\ s[i] # Pad
    <3>1. TAKE i \in 1 .. n
    <3>2. s[i] \in SUBSET CharBits
      BY <1>2 DEF IsText
    <3>3. -1 \in Pad /\ ~(-1 \in 0 .. 4)
      BY DEF Pad
    <3> QED
      BY <3>2, <3>3 DEF IsValue, CharBits
  <2>2. \A i \in 1 .. Len(s) : i \in 1 .. n \/ i \in n + 1 .. Len(s)
    BY <1>1
  <2>3. \A i \in 1 .. n : \A j \in 1 .. i : j \in 1 .. n
    BY <1>1
  <2>4. \A i \in n + 1 .. Len(s) : s[i] = Pad
    BY <1>2 DEF IsText
  <2> QED
    BY <2>1, <2>2, <2>3, <2>4
<1>7. ASSUME pads # 0
      PROVE  n % 8 = LastValues(pads) /\ Mask(s[n], LastBits(pads)) = {}
  <2>1. PICK z \in 0 .. 4 : z = 5 * n - 8 * m /\ z = LastBits(pads)
    BY <1>1, <1>7 DEF ArePads, IsLength
  <2>2. n > 0 /\ n % 8 = LastValues(pads)
    BY <1>1, <1>7 DEF ArePads
  <2>3. s[n] = BitsOfChar(bs, m, n)
    BY <1>1, <1>2, <2>2
  <2>4. ASSUME NEW e \in s[n], e \in 0 .. z - 1 PROVE FALSE
    <3>1. PICK i \in 1 .. m : e - 5 * n + 8 * i \in bs[i]
      BY <2>3, <2>4 DEF BitsOfChar
    <3>2. e - 5 * n + 8 * i \in 0 .. 7
      BY <3>1 DEF ByteBits
    <3>3. e \in 0 .. 3 /\ e < z
      BY <2>1, <2>4
    <3> QED
      BY <2>1, <3>2, <3>3
  <2> QED
    BY <2>1, <2>2, <2>4 DEF Mask
<1> QED
  BY <1>3, <1>4, <1>5, <1>6, <1>7 DEF IsBase32

\* A byte is made of the bits that it gave to the characters.
LEMMA BytesComeBack ==
  ASSUME NEW m \in Nat, NEW bs \in Seq(SUBSET ByteBits), Len(bs) = m, NEW s, s = Encoded(bs)
  PROVE  Decoded(s) = bs
<1>1. PICK n \in Nat : n = (8 * m + 4) \div 5 /\ IsLength(n, m)
  <2>1. PICK n : n = (8 * m + 4) \div 5
    OBVIOUS
  <2> QED
    BY <2>1, EncodedLength
<1>2. IsText(s, n) /\ \A i \in 1 .. n : s[i] = BitsOfChar(bs, m, i)
  BY <1>1, EncodedText
<1>3. ValueCount(s) = n
  BY <1>2, CountOfText
<1>4. (n * 5) \div 8 = m /\ n % 8 \in {0, 2, 4, 5, 7}
  BY <1>1 DEF IsLength
<1>5. ASSUME NEW k \in 1 .. m PROVE Decoded(s)[k] = bs[k]
  <2>1. k \in 1 .. (n * 5) \div 8
    BY <1>4
  <2>2. Decoded(s)[k] = BitsOfByte(s, n, k)
    BY <1>2, <1>3, <1>4, <2>1, DecodedBits
  <2>3. bs[k] \in SUBSET ByteBits /\ \A l \in 1 .. m : bs[l] \in SUBSET ByteBits
    OBVIOUS
  <2>4. ASSUME NEW f \in ByteBits, NEW i \in 1 .. n, f - 8 * k + 5 * i \in s[i]
        PROVE  f \in bs[k]
    <3>1. PICK e : e = f - 8 * k + 5 * i
      OBVIOUS
    <3>2. PICK l \in 1 .. m : e - 5 * i + 8 * l \in bs[l]
      BY <1>2, <2>4, <3>1 DEF BitsOfChar
    <3>3. e - 5 * i + 8 * l \in ByteBits
      BY <2>3, <3>2
    <3>4. e - 5 * i + 8 * l = f - 8 * k + 8 * l
      BY <1>1, <3>1 DEF ByteBits
    <3>5. l = k
      BY <3>3, <3>4 DEF ByteBits
    <3>6. e - 5 * i + 8 * l = f
      BY <3>4, <3>5 DEF ByteBits
    <3> QED
      BY <3>2, <3>5, <3>6
  <2>5. ASSUME NEW f \in bs[k]
        PROVE  \E i \in 1 .. n : f - 8 * k + 5 * i \in s[i]
    <3>1. PICK x \in 0 .. 7 : x = f
      BY <2>3 DEF ByteBits
    <3>2. PICK t \in Nat : t = 8 * k - x /\ t >= 1 /\ t <= 8 * m
      <4>1. 8 * k - x \in Nat /\ 8 * k - x >= 1 /\ 8 * k - x <= 8 * m
        BY <3>1
      <4> QED
        BY <4>1
    <3>3. PICK i \in Nat : i = (t + 4) \div 5 /\ 5 * i <= t + 4 /\ t <= 5 * i
      OBVIOUS
    <3>4. i \in 1 .. n
      BY <1>1, <3>2, <3>3
    <3>5. PICK e \in Int : e = 5 * i - t
      <4>1. 5 * i - t \in Int
        BY <3>3
      <4> QED
        BY <4>1
    <3>6. e \in CharBits
      BY <3>3, <3>5 DEF CharBits
    <3>7. e - 5 * i + 8 * k = x /\ x - 8 * k + 5 * i = e
      BY <3>2, <3>5
    <3>8. e \in BitsOfChar(bs, m, i)
      BY <3>1, <3>6, <3>7 DEF BitsOfChar
    <3> QED
      BY <1>2, <3>1, <3>4, <3>7, <3>8
  <2>6. \A f : f \in BitsOfByte(s, n, k) <=> f \in bs[k]
    BY <2>3, <2>4, <2>5 DEF BitsOfByte
  <2> QED
    BY <2>2, <2>6
<1>6. Decoded(s) = [k \in 1 .. m |-> Decoded(s)[k]]
  <2>1. /\ DOMAIN Decoded(s) = 1 .. (n * 5) \div 8
        /\ Decoded(s) = [k \in DOMAIN Decoded(s) |-> Decoded(s)[k]]
    BY <1>3 DEF Decoded
  <2>2. DOMAIN Decoded(s) = 1 .. m
    BY <1>4, <2>1
  <2> QED
    BY <2>1, <2>2
<1>7. bs = [k \in 1 .. m |-> bs[k]]
  OBVIOUS
<1> QED
  BY <1>5, <1>6, <1>7

Chars == (SUBSET CharBits) \cup {Pad, Other}

\* What is accepted is a text: its values are the first of its characters.
LEMMA AcceptedText ==
  ASSUME NEW s \in Seq(Chars), IsBase32(s)
  PROVE  \E n : n = ValueCount(s) /\ IsText(s, n)
<1>0. PICK l \in Nat : l = Len(s) /\ s \in [1 .. l -> Chars]
  OBVIOUS
<1>1. \A i \in 1 .. l : s[i] = Pad \/ (IsValue(s[i]) /\ \A j \in 1 .. i : s[j] # Pad)
  BY <1>0 DEF IsBase32
<1>2. \A i \in 1 .. l : (s[i] = Pad \/ s[i] \in SUBSET CharBits)
  BY <1>1 DEF IsValue, CharBits
<1>3. \A i \in 1 .. l : s[i] # Pad => \A j \in 1 .. i : s[j] # Pad
  BY <1>1
\* The longest prefix without a pad.
<1>4. PICK n \in 0 .. l : /\ \A i \in 1 .. n : s[i] # Pad
                          /\ n # l => s[n + 1] = Pad
  <2>1. SUFFICES ASSUME \A n \in 0 .. l : (\A i \in 1 .. n : s[i] # Pad)
                                             => n # l /\ s[n + 1] # Pad
                 PROVE  FALSE
    OBVIOUS
  <2>2. PICK S : S = {n \in Nat : n <= l /\ \A i \in 1 .. n : s[i] # Pad}
    OBVIOUS
  <2>3. S \in SUBSET Nat /\ 0 \in S
    BY <2>2
  <2>4. ASSUME NEW n \in S PROVE n + 1 \in S
    <3>1. n \in 0 .. l /\ \A i \in 1 .. n : s[i] # Pad
      BY <2>2
    <3>2. n # l /\ s[n + 1] # Pad
      BY <2>1, <3>1
    <3>3. \A i \in 1 .. n + 1 : i \in 1 .. n \/ i = n + 1
      BY <3>1
    <3>4. n + 1 \in Nat /\ n + 1 <= l
      BY <3>1, <3>2
    <3> QED
      BY <2>2, <3>1, <3>2, <3>3, <3>4
  <2>5. S = Nat
    BY <2>3, <2>4, SetInduction
  <2>6. l + 1 \in S
    BY <2>5
  <2> QED
    BY <2>2, <2>6
<1>5. \A i \in n + 1 .. l : s[i] = Pad
  <2>1. SUFFICES ASSUME NEW i \in n + 1 .. l, s[i] # Pad PROVE FALSE
    OBVIOUS
  <2>2. n # l /\ i \in 1 .. l /\ n + 1 \in 1 .. i
    BY <2>1
  <2> QED
    BY <1>3, <1>4, <2>1, <2>2
<1>6. s \in Seq((SUBSET CharBits) \cup {Pad})
  <2>1. s \in [1 .. l -> (SUBSET CharBits) \cup {Pad}]
    BY <1>0, <1>2
  <2> QED
    BY <2>1
<1>7. \A i \in 1 .. n : s[i] \in SUBSET CharBits
  <2>1. \A i \in 1 .. n : i \in 1 .. l
    OBVIOUS
  <2> QED
    BY <1>2, <1>4, <2>1
<1>8. IsText(s, n)
  BY <1>0, <1>5, <1>6, <1>7 DEF IsText
<1> QED
  BY <1>8, CountOfText

\* How many bytes it holds.
LEMMA AcceptedLength ==
  ASSUME NEW s \in Seq(Chars), IsBase32(s), NEW n \in Nat, n = ValueCount(s), n <= Len(s),
         NEW m, m = (n * 5) \div 8
  PROVE  m \in Nat /\ IsLength(n, m) /\ ArePads(n, m, Len(s) - n)
<1>1. PICK pads, l \in Int : pads = Len(s) - n /\ l = Len(s)
  OBVIOUS
<1>2. /\ l % 8 = 0 /\ pads \in {0, 1, 3, 4, 6}
      /\ pads # 0 => n % 8 = LastValues(pads)
  BY <1>1 DEF IsBase32
<1>3. PICK q \in Nat : l = 8 * q
  <2>1. PICK q, r \in Int : q = l \div 8 /\ r = l % 8
    <3>1. l \div 8 \in Int /\ l % 8 \in Int
      BY <1>1
    <3> QED
      BY <3>1
  <2>2. l = 8 * q + r /\ r = 0
    BY <1>2, <2>1
  <2>3. q \in Nat
    BY <1>1, <2>1, <2>2
  <2> QED
    BY <2>2, <2>3
<1>4. n = 8 * q - pads /\ m \in Nat
  BY <1>1, <1>3
<1>5. CASE pads = 0
  <2>1. m = 5 * q /\ n = 8 * q
    BY <1>4, <1>5
  <2> QED
    BY <1>1, <1>5, <2>1 DEF IsLength, ArePads
<1>6. CASE pads = 1
  <2>1. n = 8 * q - 1 /\ q > 0
    BY <1>4, <1>6
  <2>2. m = 5 * q - 1
    BY <2>1
  <2>3. LastValues(1) = 7 /\ LastBits(1) = 3
    BY DEF LastValues, LastBits
  <2> QED
    BY <1>1, <1>6, <2>1, <2>2, <2>3 DEF IsLength, ArePads
<1>7. CASE pads = 3
  <2>1. n = 8 * q - 3 /\ q > 0
    BY <1>4, <1>7
  <2>2. m = 5 * q - 2
    BY <2>1
  <2>3. LastValues(3) = 5 /\ LastBits(3) = 1
    BY DEF LastValues, LastBits
  <2> QED
    BY <1>1, <1>7, <2>1, <2>2, <2>3 DEF IsLength, ArePads
<1>8. CASE pads = 4
  <2>1. n = 8 * q - 4 /\ q > 0
    BY <1>4, <1>8
  <2>2. m = 5 * q - 3
    BY <2>1
  <2>3. LastValues(4) = 4 /\ LastBits(4) = 4
    BY DEF LastValues, LastBits
  <2> QED
    BY <1>1, <1>8, <2>1, <2>2, <2>3 DEF IsLength, ArePads
<1>9. CASE pads = 6
  <2>1. n = 8 * q - 6 /\ q > 0
    BY <1>4, <1>9
  <2>2. m = 5 * q - 4
    BY <2>1
  <2>3. LastValues(6) = 2 /\ LastBits(6) = 2
    BY DEF LastValues, LastBits
  <2> QED
    BY <1>1, <1>9, <2>1, <2>2, <2>3 DEF IsLength, ArePads
<1> QED
  BY <1>2, <1>5, <1>6, <1>7, <1>8, <1>9

\* A character is made of the bits that it gave to the bytes.
LEMMA CharsComeBack ==
  ASSUME NEW s \in Seq(Chars), IsBase32(s), NEW bs, bs = Decoded(s)
  PROVE  Encoded(bs) = s
<1>1. PICK n \in Nat : n = ValueCount(s) /\ IsText(s, n)
  <2>1. PICK n : n = ValueCount(s) /\ IsText(s, n)
    BY AcceptedText
  <2>2. n \in Nat
    BY <2>1 DEF IsText
  <2> QED
    BY <2>1, <2>2
<1>2. PICK m \in Nat, l \in Nat, pads \in Int : /\ m = (n * 5) \div 8 /\ l = Len(s) /\ pads = l - n
                                              /\ IsLength(n, m) /\ ArePads(n, m, pads)
  <2>0. Len(s) \in Nat /\ n <= Len(s) /\ (n * 5) \div 8 \in Nat
    BY <1>1 DEF IsText
  <2>1. PICK m, l \in Nat : m = (n * 5) \div 8 /\ l = Len(s) /\ n <= l
    BY <2>0
  <2>2. m \in Nat /\ IsLength(n, m) /\ ArePads(n, m, l - n)
    BY <1>1, <2>1, AcceptedLength
  <2>3. PICK pads \in Int : pads = l - n
    OBVIOUS
  <2> QED
    BY <2>1, <2>2, <2>3
<1>3. /\ n = (8 * m + 4) \div 5 /\ n % 8 \in {0, 2, 4, 5, 7}
      /\ l = n + pads /\ l = 8 * ((m + 4) \div 5) /\ n <= l
  <2>1. n = (8 * m + 4) \div 5 /\ n % 8 \in {0, 2, 4, 5, 7}
    BY <1>2 DEF IsLength
  <2>2. n \in 0 .. Len(s) /\ l = n + pads
    BY <1>1, <1>2 DEF IsText
  <2>3. l = 8 * ((m + 4) \div 5)
    <3>1. 8 * ((m + 4) \div 5) = n + pads
      BY <1>2 DEF ArePads
    <3> QED
      BY <2>2, <3>1
  <2> QED
    BY <1>2, <2>1, <2>2, <2>3
<1>4. \A k \in 1 .. m : bs[k] = BitsOfByte(s, n, k)
  <2>1. \A k \in 1 .. m : k \in 1 .. (n * 5) \div 8
    BY <1>2
  <2> QED
    BY <1>1, <1>3, <2>1, DecodedBits
<1>5. bs \in Seq(SUBSET ByteBits) /\ Len(bs) = m
  <2>1. \A k : BitsOfByte(s, n, k) \in SUBSET ByteBits
    BY DEF BitsOfByte
  <2>2. DOMAIN bs = 1 .. (n * 5) \div 8 /\ bs = [k \in DOMAIN bs |-> bs[k]]
    BY <1>1 DEF Decoded
  <2>3. bs = [k \in 1 .. m |-> bs[k]]
    BY <1>2, <2>2
  <2>4. bs \in [1 .. m -> SUBSET ByteBits]
    BY <1>4, <2>1, <2>3
  <2> QED
    BY <2>4
\* The bits of the last character that belong to no byte are 0.
<1>6. ASSUME NEW k \in 1 .. n, NEW e \in s[k]
      PROVE  e \in CharBits /\ 5 * k - e <= 8 * m
  <2>1. e \in CharBits
    BY <1>1 DEF IsText
  <2>2. PICK z \in 0 .. 4 : z = 5 * n - 8 * m
    BY <1>2 DEF IsLength
  <2>3. CASE k < n
    BY <2>1, <2>2, <2>3 DEF CharBits
  <2>4. CASE pads = 0
    <3>1. 5 * n = 8 * m
      BY <1>2, <2>4 DEF ArePads
    <3> QED
      BY <2>1, <3>1 DEF CharBits
  <2>5. CASE k = n /\ pads # 0
    <3>1. Mask(s[n], LastBits(pads)) = {}
      BY <1>1, <1>2, <2>5 DEF IsBase32
    <3>2. z = LastBits(pads)
      BY <1>2, <2>2, <2>5 DEF ArePads
    <3>3. ~(e \in 0 .. z - 1)
      BY <2>5, <3>1, <3>2 DEF Mask
    <3> QED
      BY <2>1, <2>2, <2>5, <3>3 DEF CharBits
  <2> QED
    BY <2>1, <2>3, <2>4, <2>5
<1>7. ASSUME NEW k \in 1 .. n PROVE BitsOfChar(bs, m, k) = s[k]
  <2>1. ASSUME NEW e \in CharBits, NEW i \in 1 .. m, e - 5 * k + 8 * i \in bs[i]
        PROVE  e \in s[k]
    <3>1. PICK f : f = e - 5 * k + 8 * i
      OBVIOUS
    <3>2. PICK j \in 1 .. n : f - 8 * i + 5 * j \in s[j]
      BY <1>4, <2>1, <3>1 DEF BitsOfByte
    <3>3. f - 8 * i + 5 * j \in CharBits
      BY <1>6, <3>2
    <3>4. f - 8 * i + 5 * j = e - 5 * k + 5 * j
      BY <3>1 DEF CharBits
    <3>5. j = k
      BY <3>3, <3>4 DEF CharBits
    <3>6. f - 8 * i + 5 * j = e
      BY <3>4, <3>5 DEF CharBits
    <3> QED
      BY <3>2, <3>5, <3>6
  <2>2. ASSUME NEW e \in s[k]
        PROVE  \E i \in 1 .. m : e - 5 * k + 8 * i \in bs[i]
    <3>1. PICK x \in 0 .. 4 : x = e /\ 5 * k - x <= 8 * m
      BY <1>6 DEF CharBits
    <3>2. PICK t \in Nat : t = 5 * k - x /\ t >= 1 /\ t <= 8 * m
      <4>1. 5 * k - x \in Nat /\ 5 * k - x >= 1
        BY <3>1
      <4> QED
        BY <3>1, <4>1
    <3>3. PICK i \in Nat : i = (t + 7) \div 8 /\ 8 * i <= t + 7 /\ t <= 8 * i
      OBVIOUS
    <3>4. i \in 1 .. m
      BY <3>2, <3>3
    <3>5. PICK f \in Int : f = 8 * i - t
      <4>1. 8 * i - t \in Int
        BY <3>3
      <4> QED
        BY <4>1
    <3>6. f \in ByteBits
      BY <3>3, <3>5 DEF ByteBits
    <3>7. f - 8 * i + 5 * k = x /\ x - 5 * k + 8 * i = f
      BY <3>2, <3>5
    <3>8. f \in BitsOfByte(s, n, i)
      BY <3>1, <3>6, <3>7 DEF BitsOfByte
    <3> QED
      BY <1>4, <3>1, <3>4, <3>7, <3>8
  <2>3. \A e : e \in BitsOfChar(bs, m, k) <=> e \in s[k]
    BY <1>6, <2>1, <2>2 DEF BitsOfChar
  <2> QED
    BY <2>3
<1>8. PICK t : t = Encoded(bs)
  OBVIOUS
<1>9. IsText(t, n) /\ Len(t) = l /\ \A i \in 1 .. n : t[i] = BitsOfChar(bs, m, i)
  BY <1>3, <1>5, <1>8, EncodedText
<1>10. ASSUME NEW i \in 1 .. l PROVE t[i] = s[i]
  <2>1. CASE i \in 1 .. n
    BY <1>7, <1>9, <2>1
  <2>2. CASE i \in n + 1 .. l
    BY <1>1, <1>2, <1>9, <2>2 DEF IsText
  <2> QED
    BY <1>3, <2>1, <2>2
<1>11. t = [i \in 1 .. l |-> t[i]] /\ s = [i \in 1 .. l |-> s[i]]
  <2>1. t \in Seq((SUBSET CharBits) \cup {Pad})
    BY <1>9 DEF IsText
  <2> QED
    BY <1>2, <1>9, <2>1
<1> QED
  BY <1>8, <1>10, <1>11

\* The codec's state is that of the last call.
Base32Inv ==
  \/ base32 \in {"idle", "refused"}
  \/ base32 = "decoded" /\ text \in Texts /\ IsBase32(text) /\ bytes = Decoded(text)
  \/ base32 = "encoded" /\ bytes \in ByteSeqs /\ text = Encoded(bytes)

LEMMA CodecInvariant == Base32Spec => []Base32Inv
<1>1. Base32Init => Base32Inv
  BY DEF Base32Init, Base32Inv
<1>2. Base32Inv /\ [Base32Next]_base32Vars => Base32Inv'
  BY DEF Base32Inv, Base32Next, base32Vars, DecodeBase32, EncodeBase32, NextText
<1> QED
  BY <1>1, <1>2, PTL DEF Base32Spec

\* Base32RoundTrip, for texts and byte strings of every length: the code's groups,
\* shifts and masks lose no bit, and the pads and the low bits that it refuses are
\* all that could make two texts of one byte string (src/decept/util/codecs.cpp).
THEOREM CodecsAreInverse == Base32Spec => []Base32RoundTrip
<1>1. Base32Inv => Base32RoundTrip
  <2>1. SUFFICES ASSUME Base32Inv PROVE Base32RoundTrip
    OBVIOUS
  <2>2. ASSUME base32 = "encoded" PROVE IsBase32(text) /\ Decoded(text) = bytes
    <3>1. bytes \in Seq(SUBSET ByteBits) /\ text = Encoded(bytes)
      BY <2>1, <2>2, Base32Assumption DEF Base32Inv, ByteBits
    <3>2. PICK m \in Nat : m = Len(bytes)
      BY <3>1
    <3> QED
      BY <3>1, <3>2, EncodedAccepted, BytesComeBack
  <2>3. ASSUME base32 = "decoded" PROVE Encoded(bytes) = text
    <3>1. text \in Seq(Chars) /\ IsBase32(text) /\ bytes = Decoded(text)
      BY <2>1, <2>3, Base32Assumption DEF Base32Inv, Chars, CharBits
    <3> QED
      BY <3>1, CharsComeBack
  <2> QED
    BY <2>2, <2>3 DEF Base32RoundTrip
<1> QED
  BY <1>1, CodecInvariant, PTL

=============================================================================
