----------------------------- MODULE TrngProofs -----------------------------
(* Theorems about Trng, for every size of the pool and of a request. *)
EXTENDS Trng, SequenceTheorems, TLAPS

USE TrngAssumption DEF TrngAssumption

-----------------------------------------------------------------------------
(* The types. *)

LEMMA InitTypes == TInit => TypeOK
<1>1. TInit => FlagTypes
  BY DEF TInit, FlagTypes
<1>2. TInit => CountTypes
  BY DEF TInit, CountTypes
<1>3. TInit => DataTypes
  BY DEF TInit, DataTypes
<1>4. QED
  BY <1>1, <1>2, <1>3 DEF TypeOK

LEMMA NextFlags ==
  ASSUME FlagTypes, [Next]_vars
  PROVE  FlagTypes'
<1> USE DEF FlagTypes, hwVars, poolVars, callVars, history, bounds
<1>1. CASE HwStart
  BY <1>1 DEF HwStart
<1>2. CASE HwValid
  BY <1>2 DEF HwValid
<1>3. CASE HwError
  BY <1>3 DEF HwError
<1>4. CASE HwStop
  BY <1>4 DEF HwStop
<1>5. CASE DeepSleep
  BY <1>5 DEF DeepSleep
<1>6. CASE TrngInit
  BY <1>6 DEF TrngInit, Configure
<1>7. CASE DeinitBegin
  BY <1>7 DEF DeinitBegin
<1>8. CASE DeinitEnd
  BY <1>8 DEF DeinitEnd
<1>9. CASE RandomDevice
  BY <1>9 DEF RandomDevice, Configure
<1>10. CASE TrngAvailable
  BY <1>10 DEF TrngAvailable, Fill, FillFails
<1>11. CASE DataFill
  BY <1>11 DEF DataFill, Fill
<1>12. CASE DataFail
  BY <1>12 DEF DataFail, FillFails
<1>13. CASE DataCopy
  BY <1>13 DEF DataCopy, Lesser
<1>14. CASE DataEnd
  BY <1>14 DEF DataEnd
<1>15. ASSUME NEW n \in 0 .. MaxRequest, DataBegin(n) PROVE FlagTypes'
  BY <1>15 DEF DataBegin, Enter
<1>16. CASE UNCHANGED vars
  BY <1>16 DEF vars
<1>17. QED
  BY <1>1, <1>2, <1>3, <1>4, <1>5, <1>6, <1>7, <1>8, <1>9, <1>10, <1>11, <1>12, <1>13, <1>14, <1>15, <1>16
  DEF Next, HwStep, ProgramStep, DataStep, Finished

LEMMA NextCounts ==
  ASSUME CountTypes, [Next]_vars
  PROVE  CountTypes'
<1> USE DEF CountTypes, hwVars, poolVars, callVars, history, bounds
<1>1. CASE HwStart
  BY <1>1 DEF HwStart
<1>2. CASE HwValid
  BY <1>2 DEF HwValid
<1>3. CASE HwError
  BY <1>3 DEF HwError
<1>4. CASE HwStop
  BY <1>4 DEF HwStop
<1>5. CASE DeepSleep
  BY <1>5 DEF DeepSleep
<1>6. CASE TrngInit
  BY <1>6 DEF TrngInit, Configure
<1>7. CASE DeinitBegin
  BY <1>7 DEF DeinitBegin
<1>8. CASE DeinitEnd
  BY <1>8 DEF DeinitEnd
<1>9. CASE RandomDevice
  BY <1>9 DEF RandomDevice, Configure
<1>10. CASE TrngAvailable
  BY <1>10 DEF TrngAvailable, Fill, FillFails
<1>11. CASE DataFill
  BY <1>11 DEF DataFill, Fill
<1>12. CASE DataFail
  BY <1>12 DEF DataFail, FillFails
<1>13. CASE DataCopy
  BY <1>13 DEF DataCopy, Lesser
<1>14. CASE DataEnd
  BY <1>14 DEF DataEnd
<1>15. ASSUME NEW n \in 0 .. MaxRequest, DataBegin(n) PROVE CountTypes'
  BY <1>15 DEF DataBegin, Enter
<1>16. CASE UNCHANGED vars
  BY <1>16 DEF vars
<1>17. QED
  BY <1>1, <1>2, <1>3, <1>4, <1>5, <1>6, <1>7, <1>8, <1>9, <1>10, <1>11, <1>12, <1>13, <1>14, <1>15, <1>16
  DEF Next, HwStep, ProgramStep, DataStep, Finished

\* The bytes that a copy draws follow one another in the pool.
LEMMA CopyData ==
  ASSUME CountTypes, DataTypes, DataCopy
  PROVE  LET n == Lesser(rem, avail) IN
         /\ n \in Nat /\ n > 0 /\ n <= rem /\ n <= avail
         /\ avail' = avail - n
         /\ DOMAIN out = 1 .. Len(out) /\ DOMAIN out' = 1 .. Len(out) + n
         /\ \A i \in 1 .. Len(out) : out'[i] = out[i]
         /\ \A i \in Len(out) + 1 .. Len(out) + n :
              out'[i] = <<pool, PoolSize - avail + (i - Len(out))>>
         /\ DataTypes'
<1> DEFINE n == Lesser(rem, avail)
           new == Drawn(n)
<1>1. n \in Nat /\ n > 0 /\ n <= rem /\ n <= avail
  BY DEF CountTypes, DataCopy, Lesser
<1>2. /\ out' = out \o new /\ avail' = avail - n /\ rem' = rem - n
      /\ UNCHANGED <<size, given>>
  BY DEF DataCopy, history
<1>3. \A i \in 1 .. n : <<pool, PoolSize - avail + i>> \in Bytes
  BY <1>1 DEF CountTypes, Bytes
<1>4. new \in [1 .. n -> Bytes] /\ \A i \in 1 .. n : new[i] = <<pool, PoolSize - avail + i>>
  BY <1>3 DEF Drawn
<1> HIDE DEF n, new
<1>5. new \in Seq(Bytes) /\ Len(new) = n
  BY <1>1, <1>4
<1>6. out \in Seq(Bytes) /\ Len(out) \in Nat /\ DOMAIN out = 1 .. Len(out)
  BY DEF DataTypes
<1>7. out' \in Seq(Bytes) /\ Len(out') = Len(out) + n /\ DOMAIN out' = 1 .. Len(out) + n
  <2>1. out' \in Seq(Bytes) /\ Len(out') = Len(out) + n
    BY <1>2, <1>5, <1>6, ConcatProperties
  <2>2. DOMAIN out' = 1 .. Len(out')
    BY <2>1
  <2>3. QED
    BY <2>1, <2>2
<1>8. \A i \in 1 .. Len(out) : out'[i] = out[i]
  BY <1>1, <1>2, <1>5, <1>6
<1>9. ASSUME NEW i \in Len(out) + 1 .. Len(out) + n
      PROVE  out'[i] = <<pool, PoolSize - avail + (i - Len(out))>>
  <2>1. out'[i] = new[i - Len(out)]
    BY <1>1, <1>2, <1>5, <1>6
  <2>2. i - Len(out) \in 1 .. n
    BY <1>1, <1>6
  <2>3. QED
    BY <1>4, <2>1, <2>2
<1>10. DataTypes'
  BY <1>1, <1>2, <1>6, <1>7 DEF DataTypes, CountTypes
<1>11. QED
  BY <1>1, <1>2, <1>6, <1>7, <1>8, <1>9, <1>10 DEF n

LEMMA NextData ==
  ASSUME CountTypes, DataTypes, [Next]_vars
  PROVE  DataTypes'
<1> USE DEF DataTypes, hwVars, poolVars, callVars, history, bounds
<1>1. CASE HwStart
  BY <1>1 DEF HwStart
<1>2. CASE HwValid
  BY <1>2 DEF HwValid
<1>3. CASE HwError
  BY <1>3 DEF HwError
<1>4. CASE HwStop
  BY <1>4 DEF HwStop
<1>5. CASE DeepSleep
  BY <1>5 DEF DeepSleep
<1>6. CASE TrngInit
  BY <1>6 DEF TrngInit, Configure
<1>7. CASE DeinitBegin
  BY <1>7 DEF DeinitBegin
<1>8. CASE DeinitEnd
  BY <1>8 DEF DeinitEnd
<1>9. CASE RandomDevice
  BY <1>9 DEF RandomDevice, Configure
<1>10. CASE TrngAvailable
  BY <1>10 DEF TrngAvailable, Fill, FillFails
<1>11. CASE DataFill
  BY <1>11 DEF DataFill, Fill
<1>12. CASE DataFail
  BY <1>12 DEF DataFail, FillFails
<1>13. CASE DataCopy
  BY <1>13, CopyData
<1>14. CASE DataEnd
  BY <1>14 DEF DataEnd
<1>15. ASSUME NEW n \in 0 .. MaxRequest, DataBegin(n) PROVE DataTypes'
  BY <1>15 DEF DataBegin, Enter, Elements
<1>16. CASE UNCHANGED vars
  BY <1>16 DEF vars
<1>17. QED
  BY <1>1, <1>2, <1>3, <1>4, <1>5, <1>6, <1>7, <1>8, <1>9, <1>10, <1>11, <1>12, <1>13, <1>14, <1>15, <1>16
  DEF Next, HwStep, ProgramStep, DataStep, Finished

LEMMA NextTypes == TypeOK /\ [Next]_vars => TypeOK'
  BY NextFlags, NextCounts, NextData DEF TypeOK

\* The pool never holds more than it has place for, and trng_data() has always
\* written exactly the bytes it counts as written.
THEOREM PoolWithinBounds == Spec => []TypeOK
  BY InitTypes, NextTypes, PTL DEF Spec

-----------------------------------------------------------------------------
(* No byte twice. *)

\* A byte that was handed out is of an earlier generation than the pool's, or lies
\* before the part of the pool that is left.
Spent(u, p, a) == u[1] < p \/ (u[1] = p /\ u[2] <= PoolSize - a)

\* What NoByteTwice needs to be inductive: entropy that is valid is newer than the
\* pool, so that a fill never brings back what was handed out.
PoolInv ==
  /\ entVal => pool < generation
  /\ \A i \in DOMAIN out : Spent(out[i], pool, avail)
  /\ \A u \in given : Spent(u, pool, avail)
  /\ NoByteTwice

LEMMA InitPool == TInit => PoolInv
  BY DEF TInit, PoolInv, NoByteTwice

\* Steps that leave the pool and what was handed out alone.
LEMMA QuietPool ==
  ASSUME PoolInv, UNCHANGED <<pool, avail, out, given>>, entVal' => pool < generation'
  PROVE  PoolInv'
  BY DEF PoolInv, NoByteTwice

\* Emptying or refilling the pool leaves spent what was spent.
LEMMA StaysSpent ==
  ASSUME TypeOK, NEW u \in Bytes, Spent(u, pool, avail),
         NEW a \in 0 .. PoolSize, NEW p \in Nat, p > pool \/ (p = pool /\ a <= avail)
  PROVE  Spent(u, p, a)
<1>1. u[1] \in Nat /\ u[2] \in 1 .. PoolSize
  BY DEF Bytes
<1>2. QED
  BY <1>1 DEF Spent, TypeOK, CountTypes

\* Steps that empty or refill the pool.
LEMMA RefillPool ==
  ASSUME TypeOK, TypeOK', PoolInv, UNCHANGED <<out, given, generation>>, ~entVal',
         \/ pool' = pool /\ avail' = 0
         \/ pool' = generation /\ pool < generation
  PROVE  PoolInv'
<1>1. /\ avail' \in 0 .. PoolSize /\ pool' \in Nat
      /\ pool' > pool \/ (pool' = pool /\ avail' <= avail)
  BY DEF TypeOK, CountTypes
<1>2. (\A i \in DOMAIN out : out[i] \in Bytes) /\ given \subseteq Bytes
  BY DEF TypeOK, DataTypes
<1>3. \A i \in DOMAIN out : Spent(out[i], pool', avail')
  BY <1>1, <1>2, StaysSpent DEF PoolInv
<1>4. \A u \in given : Spent(u, pool', avail')
  BY <1>1, <1>2, StaysSpent DEF PoolInv
<1>5. QED
  BY <1>3, <1>4 DEF PoolInv, NoByteTwice

\* A call that starts adds what the last one drew to what was given.
LEMMA BeginPool ==
  ASSUME TypeOK, TypeOK', PoolInv, NEW n \in 0 .. MaxRequest, DataBegin(n)
  PROVE  PoolInv'
<1>1. pool' = pool /\ avail' \in {0, avail} /\ out' = <<>>
  BY DEF DataBegin, Enter
<1>2. \A u \in given' : u \in Bytes /\ Spent(u, pool, avail)
  BY DEF TypeOK, DataTypes, PoolInv, DataBegin, Enter, Elements
<1>3. avail' \in 0 .. PoolSize /\ avail' <= avail /\ pool' \in Nat
  BY <1>1 DEF TypeOK, CountTypes
<1>4. \A u \in given' : Spent(u, pool', avail')
  BY <1>1, <1>2, <1>3, StaysSpent
<1>5. entVal' => pool' < generation'
  BY DEF PoolInv, DataBegin
<1>6. QED
  BY <1>1, <1>4, <1>5 DEF PoolInv, NoByteTwice

\* The bytes that a copy draws lie behind all that were handed out.
LEMMA CopyPool ==
  ASSUME TypeOK, TypeOK', PoolInv, DataCopy
  PROVE  PoolInv'
<1> DEFINE n == Lesser(rem, avail)
<1>1. /\ n \in Nat /\ n > 0 /\ n <= avail /\ avail' = avail - n
      /\ DOMAIN out = 1 .. Len(out) /\ DOMAIN out' = 1 .. Len(out) + n
      /\ \A i \in 1 .. Len(out) : out'[i] = out[i]
      /\ \A i \in Len(out) + 1 .. Len(out) + n :
           out'[i] = <<pool, PoolSize - avail + (i - Len(out))>>
  BY CopyData DEF TypeOK
<1> HIDE DEF n
<1>2. UNCHANGED <<pool, generation, entVal, given>>
  BY DEF DataCopy, hwVars, history
<1>3. pool \in Nat /\ avail \in 0 .. PoolSize /\ avail' \in 0 .. PoolSize /\ Len(out) \in Nat
  BY DEF TypeOK, CountTypes, DataTypes
<1>4. (\A i \in DOMAIN out : out[i] \in Bytes) /\ given \subseteq Bytes
  BY DEF TypeOK, DataTypes
<1>5. ASSUME NEW i \in 1 .. Len(out)
      PROVE  /\ out'[i] = out[i] /\ out'[i] \notin given
             /\ Spent(out'[i], pool, avail) /\ Spent(out'[i], pool', avail')
  <2>1. out'[i] = out[i] /\ out[i] \in Bytes /\ out[i] \notin given /\ Spent(out[i], pool, avail)
    BY <1>1, <1>4 DEF PoolInv, NoByteTwice
  <2>2. avail' <= avail
    BY <1>1, <1>3
  <2>3. QED
    BY <1>2, <1>3, <2>1, <2>2, StaysSpent
<1>6. ASSUME NEW i \in Len(out) + 1 .. Len(out) + n
      PROVE  /\ ~Spent(out'[i], pool, avail) /\ Spent(out'[i], pool', avail')
             /\ out'[i] \notin given
  <2>1. out'[i] = <<pool, PoolSize - avail + (i - Len(out))>>
    BY <1>1
  <2>2. i - Len(out) \in 1 .. n
    BY <1>1, <1>3
  <2>3. ~Spent(out'[i], pool, avail)
    BY <1>3, <2>1, <2>2 DEF Spent
  <2>4. Spent(out'[i], pool', avail')
    BY <1>1, <1>2, <1>3, <2>1, <2>2 DEF Spent
  <2>5. QED
    BY <2>3, <2>4 DEF PoolInv
<1>7. \A i \in DOMAIN out' : i \in 1 .. Len(out) \/ i \in Len(out) + 1 .. Len(out) + n
  BY <1>1, <1>3
<1>8. ASSUME NEW i \in DOMAIN out', NEW j \in DOMAIN out', out'[i] = out'[j]
      PROVE  i = j
  <2>1. CASE i \in 1 .. Len(out) /\ j \in 1 .. Len(out)
    BY <1>1, <1>5, <1>8, <2>1 DEF PoolInv, NoByteTwice
  <2>2. CASE i \in Len(out) + 1 .. Len(out) + n /\ j \in Len(out) + 1 .. Len(out) + n
    BY <1>1, <1>3, <1>8, <2>2
  <2>3. QED
    BY <1>5, <1>6, <1>7, <1>8, <2>1, <2>2
<1>9. \A i \in DOMAIN out' : Spent(out'[i], pool', avail') /\ out'[i] \notin given'
  BY <1>2, <1>5, <1>6, <1>7
<1>10. \A u \in given' : Spent(u, pool', avail')
  <2>1. avail' <= avail
    BY <1>1, <1>3
  <2>2. QED
    BY <1>2, <1>3, <1>4, <2>1, StaysSpent DEF PoolInv
<1>11. QED
  BY <1>2, <1>8, <1>9, <1>10 DEF PoolInv, NoByteTwice

LEMMA NextPool ==
  ASSUME TypeOK, TypeOK', PoolInv, [Next]_vars
  PROVE  PoolInv'
<1> USE DEF hwVars, poolVars, callVars, history, bounds
<1>1. CASE HwStep
  <2>1. UNCHANGED <<pool, avail, out, given>>
    BY <1>1 DEF HwStep, HwStart, HwValid, HwError, HwStop
  <2>2. entVal' => pool < generation'
    <3>1. UNCHANGED <<entVal, generation>> \/ generation' = generation + 1 \/ ~entVal'
      BY <1>1 DEF HwStep, HwStart, HwValid, HwError, HwStop
    <3>2. pool \in Nat /\ generation \in Nat /\ pool <= generation
      BY DEF TypeOK, CountTypes
    <3>3. ASSUME generation' = generation + 1 PROVE pool' < generation'
      BY <2>1, <3>2, <3>3
    <3>4. QED
      BY <2>1, <3>1, <3>3 DEF PoolInv
  <2>3. QED
    BY <2>1, <2>2, QuietPool
<1>2. CASE DeepSleep
  BY <1>2, QuietPool DEF DeepSleep, PoolInv
<1>3. CASE TrngInit
  BY <1>3, RefillPool DEF TrngInit, Configure
<1>4. CASE DeinitBegin
  BY <1>4, QuietPool DEF DeinitBegin, PoolInv
<1>5. CASE DeinitEnd
  BY <1>5, QuietPool DEF DeinitEnd, PoolInv
<1>6. CASE RandomDevice
  <2>1. CASE ~initialized /\ ~TrngIsStarted
    BY <1>6, <2>1, RefillPool DEF RandomDevice, Configure
  <2>2. CASE ~(~initialized /\ ~TrngIsStarted)
    BY <1>6, <2>2, QuietPool DEF RandomDevice, PoolInv
  <2>3. QED
    BY <2>1, <2>2
<1>7. CASE TrngAvailable
  <2>1. CASE entVal /\ Fill
    BY <1>7, <2>1, RefillPool DEF TrngAvailable, Fill, PoolInv
  <2>2. CASE UNCHANGED <<entVal, pool, avail>>
    BY <1>7, <2>2, QuietPool DEF TrngAvailable, PoolInv
  <2>3. QED
    BY <1>7, <2>1, <2>2 DEF TrngAvailable, FillFails
<1>8. ASSUME NEW n \in 0 .. MaxRequest, DataBegin(n) PROVE PoolInv'
  BY <1>8, BeginPool
<1>9. CASE DataFill
  BY <1>9, RefillPool DEF DataFill, Fill, PoolInv
<1>10. CASE DataFail
  BY <1>10, QuietPool DEF DataFail, FillFails, PoolInv
<1>11. CASE DataCopy
  BY <1>11, CopyPool
<1>12. CASE DataEnd
  BY <1>12, QuietPool DEF DataEnd, PoolInv
<1>13. CASE UNCHANGED vars
  BY <1>13, QuietPool DEF vars, PoolInv
<1>14. QED
  BY <1>1, <1>2, <1>3, <1>4, <1>5, <1>6, <1>7, <1>8, <1>9, <1>10, <1>11, <1>12, <1>13
  DEF Next, ProgramStep, DataStep, Finished

\* trng_data() writes no byte of entropy twice, whatever the requests are and
\* whenever the TRNG fails, restarts or sleeps.
THEOREM EntropyUsedOnce == Spec => []NoByteTwice
<1>1. TypeOK /\ PoolInv /\ [Next]_vars => TypeOK' /\ PoolInv'
  BY NextTypes, NextPool
<1>2. PoolInv => NoByteTwice
  BY DEF PoolInv
<1>3. QED
  BY <1>1, <1>2, InitTypes, InitPool, PTL DEF Spec

-----------------------------------------------------------------------------
(* Stopping the oscillator, and what a short answer means. *)

\* While trng_deinit() waits, the TRNG is in programming mode: once stopped, the
\* oscillator is not started again before the clock is turned off.
Stopping ==
  /\ pc = "stopping" => clockOn /\ prgm
  /\ StoppedBeforeOff

\* During a call an error bit is one of the call, since its start clears older ones.
\* What is left of a call that has returned stays the mark of a failure until the next.
Blamed ==
  /\ pc = "data" /\ err => failed
  /\ pc # "data" /\ rem # 0 => failed

LEMMA NextStopping ==
  ASSUME FlagTypes, Stopping, [Next]_vars
  PROVE  Stopping'
<1> USE DEF Stopping, StoppedBeforeOff, FlagTypes, hwVars, poolVars, callVars, history, bounds
<1>1. CASE HwStep
  BY <1>1 DEF HwStep, HwStart, HwValid, HwError, HwStop
<1>2. CASE DeepSleep
  BY <1>2 DEF DeepSleep
<1>3. CASE TrngInit
  BY <1>3 DEF TrngInit, Configure, Call
<1>4. CASE DeinitBegin
  BY <1>4 DEF DeinitBegin
<1>5. CASE DeinitEnd
  BY <1>5 DEF DeinitEnd
<1>6. CASE RandomDevice
  BY <1>6 DEF RandomDevice, Configure, Call
<1>7. CASE TrngAvailable
  BY <1>7 DEF TrngAvailable
<1>8. ASSUME NEW n \in 0 .. MaxRequest, DataBegin(n) PROVE Stopping'
  BY <1>8 DEF DataBegin, Enter
<1>9. CASE DataStep
  BY <1>9 DEF DataStep, DataFill, DataFail, DataCopy, DataEnd, Fill, FillFails
<1>10. CASE UNCHANGED vars
  BY <1>10 DEF vars
<1>11. QED
  BY <1>1, <1>2, <1>3, <1>4, <1>5, <1>6, <1>7, <1>8, <1>9, <1>10
  DEF Next, ProgramStep, Finished

LEMMA NextBlamed ==
  ASSUME FlagTypes, Blamed, [Next]_vars
  PROVE  Blamed'
<1> USE DEF Blamed, FlagTypes, hwVars, poolVars, callVars, history, bounds
<1>1. CASE HwStep
  BY <1>1 DEF HwStep, HwStart, HwValid, HwError, HwStop
<1>2. CASE DeepSleep
  BY <1>2 DEF DeepSleep
<1>3. CASE TrngInit
  BY <1>3 DEF TrngInit, Configure, Call
<1>4. CASE DeinitBegin
  BY <1>4 DEF DeinitBegin, Call
<1>5. CASE DeinitEnd
  BY <1>5 DEF DeinitEnd
<1>6. CASE RandomDevice
  BY <1>6 DEF RandomDevice, Configure, Call
<1>7. CASE TrngAvailable
  BY <1>7 DEF TrngAvailable, Call
<1>8. ASSUME NEW n \in 0 .. MaxRequest, DataBegin(n) PROVE Blamed'
  BY <1>8 DEF DataBegin, Enter
<1>9. CASE DataStep
  BY <1>9 DEF DataStep, DataFill, DataFail, DataCopy, DataEnd, Fill, FillFails
<1>10. CASE UNCHANGED vars
  BY <1>10 DEF vars
<1>11. QED
  BY <1>1, <1>2, <1>3, <1>4, <1>5, <1>6, <1>7, <1>8, <1>9, <1>10
  DEF Next, ProgramStep, Finished

\* trng_deinit() turns the clock off only when the oscillator has stopped, whatever
\* the TRNG does meanwhile.
THEOREM ClockOffWhenStopped == Spec => []StoppedBeforeOff
<1>1. TInit => Stopping
  BY DEF TInit, Stopping, StoppedBeforeOff
<1>2. TypeOK /\ Stopping /\ [Next]_vars => TypeOK' /\ Stopping'
  BY NextTypes, NextStopping DEF TypeOK
<1>3. Stopping => StoppedBeforeOff
  BY DEF Stopping
<1>4. QED
  BY <1>1, <1>2, <1>3, InitTypes, PTL DEF Spec

\* trng_data() writes less than it was asked for only if the TRNG failed in the call,
\* never because of an error bit that a deep sleep or an earlier call has left.
THEOREM ShortAnswerIsTruthful == Spec => []ShortMeansFailed
<1>1. TInit => Blamed
  BY DEF TInit, Blamed
<1>2. TypeOK /\ Blamed /\ [Next]_vars => TypeOK' /\ Blamed'
  BY NextTypes, NextBlamed DEF TypeOK
<1>3. Blamed => ShortMeansFailed
  BY DEF Blamed, ShortMeansFailed
<1>4. QED
  BY <1>1, <1>2, <1>3, InitTypes, PTL DEF Spec

-----------------------------------------------------------------------------
(* Entropy of after a deep sleep. *)

\* After a deep sleep the error bit stays until trng_data() or trng_init() clears it,
\* and either discards what is of before the sleep. Otherwise what the TRNG or the
\* pool holds is newer than the sleep.
Awake ==
  /\ asleep => pc # "data"
  /\ ~err \/ ~asleep =>
       /\ entVal => lastSleep < generation
       /\ avail # 0 => lastSleep < pool
  /\ FreshAfterSleep

\* A step that neither sleeps nor hands out: what FreshAfterSleep says stays.
LEMMA OutStays ==
  ASSUME FreshAfterSleep, UNCHANGED <<out, asleep, lastSleep>>
  PROVE  FreshAfterSleep'
  BY DEF FreshAfterSleep

LEMMA CopyFresh ==
  ASSUME TypeOK, Awake, DataCopy
  PROVE  FreshAfterSleep'
<1>1. UNCHANGED <<asleep, lastSleep>> /\ ~asleep /\ lastSleep < pool
  BY DEF DataCopy, history, Awake
<1> DEFINE n == Lesser(rem, avail)
<1>2. /\ DOMAIN out = 1 .. Len(out) /\ DOMAIN out' = 1 .. Len(out) + n
      /\ \A i \in 1 .. Len(out) : out'[i] = out[i]
      /\ \A i \in Len(out) + 1 .. Len(out) + n :
           out'[i] = <<pool, PoolSize - avail + (i - Len(out))>>
      /\ n \in Nat
  BY CopyData DEF TypeOK
<1> HIDE DEF n
<1>3. Len(out) \in Nat
  BY DEF TypeOK, DataTypes
<1>4. ASSUME NEW i \in DOMAIN out' PROVE out'[i][1] > lastSleep
  <2>1. CASE i \in 1 .. Len(out)
    BY <1>1, <1>2, <2>1 DEF Awake, FreshAfterSleep
  <2>2. CASE i \in Len(out) + 1 .. Len(out) + n
    <3>1. out'[i][1] = pool
      BY <1>2, <2>2
    <3>2. QED
      BY <1>1, <3>1 DEF TypeOK, CountTypes
  <2>3. QED
    BY <1>2, <1>3, <2>1, <2>2
<1>5. QED
  BY <1>1, <1>4 DEF FreshAfterSleep

LEMMA NextAwake ==
  ASSUME ~AsksAfterSleep, TypeOK, Awake, [Next]_vars
  PROVE  Awake'
<1> USE DEF hwVars, poolVars, callVars, history, bounds
<1> USE DEF TypeOK, FlagTypes, CountTypes
<1>1. CASE HwStep
  BY <1>1, OutStays DEF Awake, HwStep, HwStart, HwValid, HwError, HwStop, Generating
<1>2. CASE DeepSleep
  BY <1>2 DEF Awake, DeepSleep, FreshAfterSleep
<1>3. CASE TrngInit
  BY <1>3, OutStays DEF Awake, TrngInit, Configure
<1>4. CASE DeinitBegin
  BY <1>4, OutStays DEF Awake, DeinitBegin
<1>5. CASE DeinitEnd
  BY <1>5, OutStays DEF Awake, DeinitEnd
<1>6. CASE RandomDevice
  BY <1>6, OutStays DEF Awake, RandomDevice, Configure
<1>7. CASE TrngAvailable
  BY <1>7, OutStays DEF Awake, TrngAvailable, Fill, FillFails
<1>8. ASSUME NEW n \in 0 .. MaxRequest, DataBegin(n) PROVE Awake'
  BY <1>8 DEF Awake, DataBegin, Enter, FreshAfterSleep
<1>9. CASE DataFill
  BY <1>9, OutStays DEF Awake, DataFill, Fill
<1>10. CASE DataFail
  BY <1>10, OutStays DEF Awake, DataFail, FillFails
<1>11. CASE DataCopy
  BY <1>11, CopyFresh DEF Awake, DataCopy
<1>12. CASE DataEnd
  BY <1>12, OutStays DEF Awake, DataEnd
<1>13. CASE UNCHANGED vars
  BY <1>13, OutStays DEF Awake, vars
<1>14. QED
  BY <1>1, <1>2, <1>3, <1>4, <1>5, <1>6, <1>7, <1>8, <1>9, <1>10, <1>11, <1>12, <1>13
  DEF Next, ProgramStep, DataStep, Finished

\* A program that does not call trng_available() between a deep sleep and the next
\* trng_data() is never given entropy of before the sleep.
THEOREM EntropyIsFresh == ~AsksAfterSleep => (Spec => []FreshAfterSleep)
<1>1. TInit => Awake
  BY DEF TInit, Awake, FreshAfterSleep
<1>2. Awake => FreshAfterSleep
  BY DEF Awake
<1> SUFFICES ASSUME ~AsksAfterSleep PROVE Spec => []FreshAfterSleep
  OBVIOUS
<1>3. TypeOK /\ Awake /\ [Next]_vars => TypeOK' /\ Awake'
  BY NextTypes, NextAwake
<1> QED
  BY <1>1, <1>2, <1>3, InitTypes, PTL DEF Spec
=============================================================================
