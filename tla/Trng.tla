-------------------------------- MODULE Trng --------------------------------
(***************************************************************************)
(* The entropy functions (src/decept/entropy/entropy.cpp) and              *)
(* random_device on top of them: a pool that is filled from the TRNG's     *)
(* entropy registers, with the TRNG running beside the program.            *)
(*                                                                         *)
(* A byte of entropy is the generation it comes from and its place in it.  *)
(* One context of the program draws entropy.                               *)
(***************************************************************************)
EXTENDS Integers, Sequences

CONSTANTS PoolSize,   \* kEntropyCountBytes
          MaxRequest, \* bound: the bytes asked for in a call
          MaxCalls,   \* bound: the calls of a behaviour
          MaxSleeps,  \* bound: the deep sleeps of a behaviour
          AsksAfterSleep
                      \* whether the program may call trng_available() between
                      \* a deep sleep and the next trng_data()

ASSUME TrngAssumption ==
  /\ PoolSize \in Nat \ {0}
  /\ MaxRequest \in Nat /\ MaxCalls \in Nat /\ MaxSleeps \in Nat
  /\ AsksAfterSleep \in BOOLEAN

VARIABLES clockOn, prgm, err, entVal, stopped,
                       \* CCGR6.TRNG; MCTL: PRGM, ERR, ENT_VAL, TSTOP_OK
          generation,  \* the generation that ENT holds, or held last
          pool, avail, \* s_entropy (its generation), s_entropySizeBytes
          initialized, \* the static flag of ensureInitialized()
          pc,          \* where the program is: "idle", "data", "stopping"
          size, rem,   \* of the trng_data() call
          out,         \* what the call has written to its data
          given,       \* history: what earlier calls have written
          promised,    \* history: what trng_available() has just returned
          failed,      \* history: the TRNG failed during the call
          lastSleep,   \* history: the generation at the last deep sleep
          asleep,      \* history: no trng_data() since the last deep sleep
             calls, sleeps

hwVars   == <<clockOn, prgm, err, entVal, stopped, generation>>
poolVars == <<pool, avail>>
callVars == <<pc, size, rem, out>>
history  == <<given, promised, failed, lastSleep, asleep>>
bounds   == <<calls, sleeps>>
vars     == <<hwVars, poolVars, initialized, callVars, history, bounds>>

Lesser(a, b)    == IF a < b THEN a ELSE b
Elements(s)     == {s[i] : i \in DOMAIN s}
TrngIsStarted   == clockOn /\ ~stopped
Call            == pc = "idle" /\ calls < MaxCalls /\ calls' = calls + 1

TInit ==
  /\ clockOn = FALSE /\ prgm = TRUE /\ err = FALSE /\ entVal = FALSE
  /\ stopped = TRUE /\ generation = 0
  /\ pool = 0 /\ avail = 0 /\ initialized = FALSE
  /\ pc = "idle" /\ size = 0 /\ rem = 0 /\ out = <<>>
  /\ given = {} /\ promised = 0 /\ failed = FALSE
  /\ lastSleep = 0 /\ asleep = FALSE
  /\ calls = 0 /\ sleeps = 0

-----------------------------------------------------------------------------
(* The TRNG. It generates until it has entropy or an error. *)

Generating == clockOn /\ ~prgm /\ ~stopped /\ ~entVal /\ ~err

HwStart ==
  /\ clockOn /\ ~prgm /\ stopped
  /\ stopped' = FALSE
  /\ UNCHANGED <<clockOn, prgm, err, entVal, generation, poolVars, initialized,
                 callVars, history, bounds>>

HwValid ==
  /\ Generating
  /\ entVal' = TRUE /\ generation' = generation + 1
  /\ UNCHANGED <<clockOn, prgm, err, stopped, poolVars, initialized, callVars,
                 history, bounds>>

HwError ==
  /\ Generating
  /\ err' = TRUE /\ failed' = TRUE
  /\ UNCHANGED <<clockOn, prgm, entVal, stopped, generation, poolVars, initialized,
                 callVars, given, promised, lastSleep, asleep, bounds>>

\* In programming mode the oscillator stops and what was generated is lost.
HwStop ==
  /\ clockOn /\ prgm /\ ~stopped
  /\ stopped' = TRUE /\ entVal' = FALSE
  /\ UNCHANGED <<clockOn, prgm, err, generation, poolVars, initialized, callVars,
                 history, bounds>>

\* The chip's deep sleep between two calls: error bits are set when it ends. The code
\* does not say whether ENT_VAL stays.
DeepSleep ==
  /\ pc = "idle" /\ clockOn /\ ~prgm
  /\ sleeps < MaxSleeps /\ sleeps' = sleeps + 1
  /\ err' = TRUE
  /\ UNCHANGED entVal \/ entVal' = FALSE
  /\ lastSleep' = generation /\ asleep' = TRUE /\ promised' = 0
  /\ UNCHANGED <<clockOn, prgm, stopped, generation, poolVars, initialized,
                 callVars, given, failed, calls>>

-----------------------------------------------------------------------------
(* trng_init(), trng_deinit(), random_device(). *)

\* The state trng_init() leaves: configured, no error, stale data discarded.
Configure ==
  /\ clockOn' = TRUE /\ prgm' = FALSE /\ err' = FALSE /\ entVal' = FALSE
  /\ avail' = 0
  /\ UNCHANGED <<stopped, generation, pool>>

TrngInit ==
  /\ Call /\ Configure
  /\ promised' = 0
  /\ UNCHANGED <<initialized, callVars, given, failed, lastSleep, asleep, sleeps>>

\* trng_deinit() keeps the pool.
DeinitBegin ==
  /\ Call /\ clockOn
  /\ prgm' = TRUE /\ pc' = "stopping"
  /\ UNCHANGED <<clockOn, err, entVal, stopped, generation, poolVars, initialized,
                 size, rem, out, history, sleeps>>

\* Mutant: the clock is turned off without waiting for the oscillator.
DeinitWithoutWait ==
  /\ pc = "stopping"
  /\ clockOn' = FALSE /\ pc' = "idle"
  /\ UNCHANGED <<prgm, err, entVal, stopped, generation, poolVars, initialized,
                 size, rem, out, given, promised, failed, lastSleep, asleep, bounds>>

DeinitEnd ==
  /\ pc = "stopping" /\ stopped
  /\ clockOn' = FALSE /\ pc' = "idle"
  /\ UNCHANGED <<prgm, err, entVal, stopped, generation, poolVars, initialized,
                 size, rem, out, given, promised, failed, lastSleep, asleep, bounds>>

\* The constructor: ensureInitialized() runs its function once, ever.
RandomDevice ==
  /\ Call
  /\ IF ~initialized /\ ~TrngIsStarted
     THEN Configure /\ promised' = 0
     ELSE UNCHANGED <<hwVars, poolVars, promised>>
  /\ initialized' = TRUE
  /\ UNCHANGED <<callVars, given, failed, lastSleep, asleep, sleeps>>

-----------------------------------------------------------------------------
(* trng_available(). *)

\* Mutant: the pool is filled, but ENT[15] is not read.
FillWithoutLast ==
  /\ ~err
  /\ pool' = generation /\ avail' = PoolSize
  /\ UNCHANGED <<err, entVal>>

\* fillEntropyBuf() that returns true. Reading ENT[15] starts the next generation.
Fill ==
  /\ ~err
  /\ pool' = generation /\ avail' = PoolSize /\ entVal' = FALSE
  /\ UNCHANGED err

\* fillEntropyBuf() that returns false.
FillFails ==
  /\ err
  /\ err' = FALSE
  /\ UNCHANGED <<pool, avail, entVal>>

TrngAvailable ==
  /\ Call
  /\ asleep => AsksAfterSleep
  /\ \/ avail # 0 /\ UNCHANGED <<err, entVal, pool, avail>>
     \/ avail = 0 /\ clockOn /\ ~entVal /\ UNCHANGED <<err, entVal, pool, avail>>
     \/ avail = 0 /\ clockOn /\ entVal /\ (Fill \/ FillFails)
  /\ promised' = avail'
  /\ UNCHANGED <<clockOn, prgm, stopped, generation, initialized, callVars, given,
                 failed, lastSleep, asleep, sleeps>>

-----------------------------------------------------------------------------
(* trng_data(). *)

\* What every start of a call does to the call's own variables.
Enter(n) ==
  /\ size' = n /\ rem' = n /\ out' = <<>> /\ pc' = "data"
  /\ given' = given \cup Elements(out)
  /\ failed' = FALSE /\ asleep' = FALSE

\* Mutant: an error that is there at the start of the call is left.
BeginKeepsError(n) ==
  /\ Call /\ clockOn /\ n \in 0 .. MaxRequest
  /\ Enter(n)
  /\ UNCHANGED <<hwVars, poolVars, initialized, promised, lastSleep, sleeps>>

\* Mutant: an error is cleared, but generation is not restarted.
BeginWithoutRestart(n) ==
  /\ Call /\ clockOn /\ n \in 0 .. MaxRequest
  /\ err' = FALSE
  /\ Enter(n)
  /\ UNCHANGED <<clockOn, prgm, entVal, stopped, generation, poolVars, initialized,
                 promised, lastSleep, sleeps>>

\* An error is cleared and generation restarted: restartEntropy().
DataBegin(n) ==
  /\ Call /\ clockOn /\ n \in 0 .. MaxRequest
  /\ IF err THEN err' = FALSE /\ entVal' = FALSE /\ avail' = 0
            ELSE UNCHANGED <<err, entVal, avail>>
  /\ Enter(n)
  /\ UNCHANGED <<clockOn, prgm, stopped, generation, pool, initialized, promised,
                 lastSleep, sleeps>>

\* fillEntropy(): wait for ENT_VAL or ERR, then fill the pool.
DataFill ==
  /\ pc = "data" /\ rem # 0 /\ avail = 0
  /\ entVal \/ err
  /\ Fill
  /\ UNCHANGED <<clockOn, prgm, stopped, generation, initialized, callVars, history, bounds>>

\* Mutant: fillEntropy() waits for ENT_VAL only.
FailWaitsForValid ==
  /\ pc = "data" /\ rem # 0 /\ avail = 0
  /\ entVal /\ FillFails
  /\ pc' = "idle" /\ promised' = 0
  /\ UNCHANGED <<clockOn, prgm, stopped, generation, initialized, size, rem, out,
                 given, failed, lastSleep, asleep, bounds>>

\* It returns false: trng_data() returns what it has written so far.
DataFail ==
  /\ pc = "data" /\ rem # 0 /\ avail = 0
  /\ FillFails
  /\ pc' = "idle" /\ promised' = 0
  /\ UNCHANGED <<clockOn, prgm, stopped, generation, initialized, size, rem, out,
                 given, failed, lastSleep, asleep, bounds>>

\* The next n bytes of the pool.
Drawn(n) == [i \in 1 .. n |-> <<pool, PoolSize - avail + i>>]

\* Mutant: the amount is not limited to what the pool still has.
CopyUnlimited ==
  /\ pc = "data" /\ rem # 0 /\ avail # 0
  /\ LET n == Lesser(rem, PoolSize) IN
       /\ out' = out \o Drawn(n)
       /\ avail' = avail - n /\ rem' = rem - n
  /\ UNCHANGED <<hwVars, pool, initialized, pc, size, history, bounds>>

\* The pool's bytes are copied, then counted off.
DataCopy ==
  /\ pc = "data" /\ rem # 0 /\ avail # 0
  /\ LET n == Lesser(rem, avail) IN
       /\ out' = out \o Drawn(n)
       /\ avail' = avail - n /\ rem' = rem - n
  /\ UNCHANGED <<hwVars, pool, initialized, pc, size, history, bounds>>

DataEnd ==
  /\ pc = "data" /\ rem = 0
  /\ pc' = "idle" /\ promised' = 0
  /\ UNCHANGED <<hwVars, poolVars, initialized, size, rem, out, given, failed,
                 lastSleep, asleep, bounds>>

-----------------------------------------------------------------------------
HwStep      == HwStart \/ HwValid \/ HwError \/ HwStop
DataStep    == DataFill \/ DataFail \/ DataCopy \/ DataEnd
ProgramStep ==
  \/ TrngInit \/ DeinitBegin \/ RandomDevice \/ TrngAvailable
  \/ \E n \in 0 .. MaxRequest : DataBegin(n)
Finished    == pc = "idle" /\ calls = MaxCalls /\ UNCHANGED vars
Next        == HwStep \/ DeepSleep \/ ProgramStep \/ DataStep \/ DeinitEnd \/ Finished

Spec     == TInit /\ [][Next]_vars

\* The TRNG goes on while its clock runs, and the program while it is not waiting.
FairSpec == Spec /\ WF_vars(HwStep) /\ WF_vars(DataStep \/ DeinitEnd)

-----------------------------------------------------------------------------
(* Properties. *)

Bytes == Nat \X (1 .. PoolSize)

FlagTypes ==
  /\ clockOn \in BOOLEAN /\ prgm \in BOOLEAN /\ err \in BOOLEAN /\ entVal \in BOOLEAN
  /\ stopped \in BOOLEAN /\ initialized \in BOOLEAN /\ failed \in BOOLEAN
  /\ asleep \in BOOLEAN
  /\ pc \in {"idle", "data", "stopping"}

CountTypes ==
  /\ generation \in Nat /\ pool \in 0 .. generation /\ lastSleep \in 0 .. generation
  /\ avail \in 0 .. PoolSize /\ promised \in 0 .. PoolSize
  /\ size \in 0 .. MaxRequest /\ rem \in 0 .. size

DataTypes ==
  /\ out \in Seq(Bytes) /\ Len(out) = size - rem
  /\ given \subseteq Bytes

\* The types: the pool never holds more than its size or less than nothing, and a
\* call has filled as much of its data as it counts (trng_data()).
TypeOK == FlagTypes /\ CountTypes /\ DataTypes

\* No byte of entropy is written twice: not in a call, not by two calls, across
\* every refill, error, restart of the TRNG and deep sleep.
NoByteTwice ==
  /\ \A i, j \in DOMAIN out : out[i] = out[j] => i = j
  /\ \A i \in DOMAIN out : out[i] \notin given

\* trng_data() returns less than it was asked for only if the TRNG failed during
\* that call: an error from before the call is not the call's.
ShortMeansFailed == pc = "idle" /\ rem # 0 => failed

\* What trng_available() returned can be drawn by the next trng_data() without
\* waiting for the TRNG (random_device::available()). It does not hold: while the
\* program has the pool, the TRNG generates again and may fail, and trng_data()
\* throws the pool away with the error.
AvailableIsThere ==
  pc = "data" /\ size <= promised => rem <= avail

\* After a deep sleep trng_data() hands out entropy generated after it. It holds if
\* the program does not ask trng_available() first, which clears the error without
\* restarting the TRNG.
FreshAfterSleep ==
  \A i \in DOMAIN out : ~asleep => out[i][1] > lastSleep

\* The module's clock is turned off only when the oscillator has stopped
\* (trng_deinit(): "Check this bit before stopping the clock").
StoppedBeforeOff == ~clockOn => stopped

\* trng_data() and trng_deinit() return.
DataReturns == pc # "idle" ~> pc = "idle"
=============================================================================
