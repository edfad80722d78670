----------------------------- MODULE RandomRange -----------------------------
(***************************************************************************)
(* entropy_random_range() (src/decept/entropy/entropy.cpp): a value below  *)
(* range, drawn without bias by Lemire's multiplication method with        *)
(* rejection. Every draw of a word may fail.                               *)
(***************************************************************************)
EXTENDS Integers, FiniteSets

CONSTANT WordSize   \* how many values a word has: 2^32

ASSUME RangeAssumption == WordSize \in Nat \ {0}

VARIABLES pc,      \* "idle", "first" or "again": about to draw; "done"
          range,
          word,    \* r
          out,     \* what the caller's *out holds
          before,  \* history: what it held before the call
          errno,
          success  \* what the call returned

rangeVars == <<pc, range, word, out, before, errno, success>>

Word == 0 .. WordSize - 1

-----------------------------------------------------------------------------
\* WordSize is a power of 2, so its divisors are the others.
IsPowerOf2(n) == n > 0 /\ WordSize % n = 0

Low(n, r)  == (r * n) % WordSize
High(n, r) == (r * n) \div WordSize

\* -range % range, in words.
Threshold(n) == (WordSize - n) % n

\* Mutant: the word is never rejected.
AcceptsAny(n, r) == TRUE

\* The threshold is computed only if low < range.
Accepts(n, r) == IsPowerOf2(n) \/ Low(n, r) >= n \/ Low(n, r) >= Threshold(n)

\* Mutant: the mask of a power of 2 is the power itself, not one less.
ValueMaskOff(n, r) == IF IsPowerOf2(n) THEN r % (n + 1) ELSE High(n, r)

Value(n, r) == IF IsPowerOf2(n) THEN r % n ELSE High(n, r)

-----------------------------------------------------------------------------
RangeInit ==
  /\ pc = "idle" /\ range = 0 /\ word = 0
  /\ out \in Word /\ before = out /\ errno = "none" /\ success = FALSE

RangeBegin(n) ==
  /\ pc = "idle"
  /\ range' = n
  /\ IF n = 0 THEN pc' = "done" /\ errno' = "EDOM" ELSE pc' = "first" /\ UNCHANGED errno
  /\ UNCHANGED <<word, out, before, success>>

\* random32() returned true.
Draw(r) ==
  /\ pc \in {"first", "again"}
  /\ word' = r
  /\ IF Accepts(range, r)
     THEN pc' = "done" /\ out' = Value(range, r) /\ success' = TRUE
     ELSE pc' = "again" /\ UNCHANGED <<out, success>>
  /\ UNCHANGED <<range, before, errno>>

\* random32() returned false, with errno set.
DrawFails ==
  /\ pc \in {"first", "again"}
  /\ pc' = "done" /\ errno' = "EIO"
  /\ UNCHANGED <<range, word, out, before, success>>

RangeNext ==
  \/ \E n \in Word : RangeBegin(n)
  \/ \E r \in Word : Draw(r)
  \/ DrawFails

RangeSpec == RangeInit /\ [][RangeNext]_rangeVars

-----------------------------------------------------------------------------
(* Properties. *)

\* What a call says is so: if it returns true the value is in [0, range), for a power
\* of 2, a range that divides the words unevenly, and after rejections; if it returns
\* false errno says why, and *out is untouched, also after words were drawn
\* (entropy.h).
RangeAnswer ==
  IF success THEN out \in 0 .. range - 1
  ELSE out = before /\ (pc = "done" => errno # "none")

\* "This uses an unbiased algorithm" (entropy.h): as many words are accepted for
\* each value of the range.
Unbiased ==
  range # 0 =>
    \A v \in 0 .. range - 1 :
      Cardinality({r \in Word : Accepts(range, r) /\ Value(range, r) = v})
        = WordSize \div range
=============================================================================
