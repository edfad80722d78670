--------------------------- MODULE PlatformProofs ---------------------------
(***************************************************************************)
(* What SnvsKeys, DataCache and Registers promise, for every number of     *)
(* words, lines and bytes: the master key is whole at every write, a job's *)
(* data is coherent, and an assignment reaches its field alone.            *)
(***************************************************************************)
EXTENDS SnvsKeys, DataCache, Registers, FiniteSetTheorems, TLAPS

-----------------------------------------------------------------------------
(* The master key. *)

KeyWords == [1 .. WordCount -> Keys \cup {InitialKey}]

KeyCalls == [fn : {"none", "set", "select", "low", "high"},
             key : Keys \cup {InitialKey}, at : Nat]

SnvsTypeOK ==
  /\ lpzmkr \in KeyWords
  /\ lpmkcr \in [val : BOOLEAN, ecc : BOOLEAN, eccOf : KeyWords, sel : {OtpKey, "zmk"}]
  /\ hp \in [mksEn : BOOLEAN, half : {"low", "high"}, fromOtp : BOOLEAN, eccFail : BOOLEAN]
  /\ keyCall \in KeyCalls

\* The key is valid, and its ECC on, only while the words are of one key.
Consistent ==
  /\ lpmkcr.val => \A i, j \in 1 .. WordCount : lpzmkr[i] = lpzmkr[j]
  /\ lpmkcr.ecc => lpmkcr.eccOf = lpzmkr
  /\ ~hp.eccFail

\* How far setSNVSZeroizableMasterKey() is.
Setting ==
  keyCall.fn = "set" =>
    /\ keyCall.at <= 4 + WordCount
    /\ keyCall.at >= 1 => ~lpmkcr.ecc
    /\ keyCall.at \in 2 .. 3 + WordCount => ~lpmkcr.val
    /\ \A i \in 1 .. WordCount : i + 3 <= keyCall.at => lpzmkr[i] = keyCall.key

SnvsInv == SnvsTypeOK /\ Consistent /\ Setting

LEMMA SnvsInitInv == SnvsInit => SnvsInv
BY SnvsAssumption DEF SnvsInit, SnvsInv, SnvsTypeOK, KeyWords, KeyCalls, Consistent, Setting, Idle, HpReset

LEMMA Advanced == ASSUME SnvsTypeOK, Advance
                  PROVE  /\ keyCall' \in KeyCalls
                         /\ keyCall'.fn = keyCall.fn /\ keyCall'.key = keyCall.key
                         /\ keyCall'.at = keyCall.at + 1 /\ keyCall.at \in Nat
BY DEF SnvsTypeOK, KeyCalls, Advance

LEMMA Returned == ASSUME ReturnFn
                  PROVE  keyCall' \in KeyCalls /\ keyCall'.fn = "none"
BY DEF ReturnFn, Idle, KeyCalls

LEMMA SnvsNextInv == SnvsInv /\ [SnvsNext]_snvsVars => SnvsInv'
<1> USE SnvsAssumption DEF SnvsInv
<1> SUFFICES ASSUME SnvsInv, [SnvsNext]_snvsVars PROVE SnvsInv'
  OBVIOUS
<1>0. Advance => /\ keyCall' \in KeyCalls
                 /\ keyCall'.fn = keyCall.fn /\ keyCall'.key = keyCall.key
                 /\ keyCall'.at = keyCall.at + 1 /\ keyCall.at \in Nat
  BY Advanced
<1>1. CASE \E k \in Keys : CallFn("set", k)
  BY <1>1 DEF CallFn, KeyCalls, SnvsTypeOK, Consistent, Setting, Idle
<1>2. ASSUME NEW fn \in {"select", "low", "high"}, CallFn(fn, InitialKey) PROVE SnvsInv'
  BY <1>2 DEF CallFn, KeyCalls, SnvsTypeOK, Consistent, Setting, Idle
<1>3. CASE EccOff
  <2>1. SnvsTypeOK'
    BY <1>0, <1>3 DEF EccOff, SnvsTypeOK
  <2>2. Consistent' /\ Setting'
    BY <1>0, <1>3 DEF EccOff, At, SnvsTypeOK, Consistent, Setting
  <2> QED
    BY <2>1, <2>2
<1>4. CASE ValidOff
  <2>1. SnvsTypeOK'
    BY <1>0, <1>4 DEF ValidOff, SnvsTypeOK
  <2>2. Consistent' /\ Setting'
    BY <1>0, <1>4 DEF ValidOff, At, SnvsTypeOK, Consistent, Setting
  <2> QED
    BY <2>1, <2>2
<1>5. CASE ClearEccFail
  <2>1. SnvsTypeOK'
    BY <1>0, <1>5 DEF ClearEccFail, SnvsTypeOK
  <2>2. Consistent' /\ Setting'
    BY <1>0, <1>5 DEF ClearEccFail, At, SnvsTypeOK, Consistent, Setting
  <2> QED
    BY <2>1, <2>2
<1>6. CASE ValidOn
  <2>1. SnvsTypeOK'
    BY <1>0, <1>6 DEF ValidOn, SnvsTypeOK
  <2>2. Consistent' /\ Setting'
    BY <1>0, <1>6 DEF ValidOn, At, SnvsTypeOK, Consistent, Setting
  <2> QED
    BY <2>1, <2>2
<1>7. CASE EccOn
  BY <1>7, Returned DEF EccOn, At, SnvsTypeOK, Consistent, Setting
<1>8. ASSUME NEW i \in 1 .. WordCount, WriteWord(i) PROVE SnvsInv'
  <2>1. ~lpmkcr.ecc /\ ~lpmkcr.val
    BY <1>8 DEF WriteWord, At, SnvsTypeOK, Setting
  <2>2. /\ lpzmkr' = [lpzmkr EXCEPT ![i] = keyCall.key]
        /\ hp' = hp
    BY <1>8, <2>1 DEF WriteWord, EccViolation, SnvsTypeOK, Consistent
  <2>3. SnvsTypeOK'
    BY <1>8, <2>2, Advanced DEF WriteWord, At, SnvsTypeOK, KeyWords, KeyCalls
  <2>4. Consistent'
    BY <1>8, <2>1, <2>2 DEF WriteWord, Consistent
  <2>5. Setting'
    BY <1>8, <2>1, <2>2, Advanced DEF WriteWord, At, Setting, SnvsTypeOK, KeyWords
  <2> QED
    BY <2>3, <2>4, <2>5
<1>9. CASE EnableSelection
  <2>1. SnvsTypeOK'
    BY <1>0, <1>9 DEF EnableSelection, SnvsTypeOK
  <2>2. Consistent' /\ Setting'
    BY <1>0, <1>9 DEF EnableSelection, At, SnvsTypeOK, Consistent, Setting
  <2> QED
    BY <2>1, <2>2
<1>10. CASE SelectZmk
  BY <1>10, Returned DEF SelectZmk, At, SnvsTypeOK, Consistent, Setting
<1>11. ASSUME NEW half \in {"low", "high"}, SelectHalf(half) PROVE SnvsInv'
  <2>1. SnvsTypeOK'
    BY <1>0, <1>11 DEF SelectHalf, SnvsTypeOK
  <2>2. Consistent' /\ Setting'
    BY <1>0, <1>11 DEF SelectHalf, At, SnvsTypeOK, Consistent, Setting
  <2> QED
    BY <2>1, <2>2
<1>12. ASSUME NEW half \in {"low", "high"}, FromKeyMux(half) PROVE SnvsInv'
  BY <1>12, Returned DEF FromKeyMux, At, SnvsTypeOK, Consistent, Setting
<1>13. CASE Reset
  BY <1>13 DEF Reset, KeyCalls, Idle, HpReset, SnvsTypeOK, Consistent, Setting
<1>14. CASE UNCHANGED snvsVars
  BY <1>14 DEF snvsVars, SnvsTypeOK, Consistent, Setting
<1> QED
  BY <1>1, <1>2, <1>3, <1>4, <1>5, <1>6, <1>7, <1>8, <1>9, <1>10, <1>11, <1>12, <1>13, <1>14
     DEF SnvsNext

\* Both halves have a word.
LEMMA HalfHasAWord == ASSUME NEW half \in {"low", "high"}
                      PROVE  Half(half) \subseteq 1 .. WordCount /\ Half(half) # {}
<1>1. WordCount \div 2 \in Nat /\ 1 <= WordCount \div 2 /\ WordCount \div 2 + 1 <= WordCount
  BY SnvsAssumption
<1>2. CASE half = "low"
  BY <1>1, <1>2, SnvsAssumption, 1 \in 1 .. WordCount \div 2 DEF Half
<1>3. CASE half = "high"
  BY <1>1, <1>3, SnvsAssumption, WordCount \in WordCount \div 2 + 1 .. WordCount DEF Half
<1> QED
  BY <1>2, <1>3

LEMMA SnvsInvWhole == SnvsInv => ZmkWhole
<1> SUFFICES ASSUME SnvsInv PROVE Cardinality(DcpKeyWords) = 1
  BY DEF SnvsInv, Consistent, ZmkWhole
<1>1. PICK w : DcpKeyWords = {w}
  <2>1. CASE hp.fromOtp \/ ~hp.mksEn \/ lpmkcr.sel # "zmk" \/ ~lpmkcr.val
    BY <2>1 DEF DcpKeyWords
  <2>2. CASE ~(hp.fromOtp \/ ~hp.mksEn \/ lpmkcr.sel # "zmk" \/ ~lpmkcr.val)
    <3>1. hp.half \in {"low", "high"}
      BY DEF SnvsInv, SnvsTypeOK
    <3>2. PICK i \in Half(hp.half) : i \in 1 .. WordCount
      BY <3>1, HalfHasAWord
    <3>3. \A j \in Half(hp.half) : lpzmkr[j] = lpzmkr[i]
      BY <2>2, <3>1, <3>2, HalfHasAWord DEF SnvsInv, Consistent
    <3> QED
      BY <2>2, <3>2, <3>3 DEF DcpKeyWords
  <2> QED
    BY <2>1, <2>2
<1> QED
  BY <1>1, FS_Singleton

\* Whatever write a reset cuts setting or selecting the master key off after, the
\* coprocessor is given one whole key, and no ECC violation clears it (keys.cpp).
THEOREM MasterKeyIsWhole == SnvsSpec => []ZmkWhole
BY SnvsInitInv, SnvsNextInv, SnvsInvWhole, PTL DEF SnvsSpec

-----------------------------------------------------------------------------
(* Lines of the cache. *)

LEMMA StartOfLine ==
  ASSUME NEW i \in Nat
  PROVE  /\ LineStart(i) \in Nat /\ LineStart(i) <= i /\ i < LineStart(i) + CacheLineSize
         /\ LineStart(i) % CacheLineSize = 0
<1> DEFINE q == i \div CacheLineSize
           s == q * CacheLineSize
<1>1. CacheLineSize \in Nat /\ CacheLineSize > 0
  BY CacheAssumption
<1>2. q \in Nat /\ s <= i /\ i < s + CacheLineSize /\ LineStart(i) = s
  BY <1>1 DEF LineStart
<1>3. s \in Nat /\ s % CacheLineSize = 0
  BY <1>1, <1>2
<1> QED
  BY <1>2, <1>3

LEMMA OneStart ==
  ASSUME NEW i \in Nat, NEW s \in Nat, s % CacheLineSize = 0, s <= i, i < s + CacheLineSize
  PROVE  LineStart(i) = s
<1> DEFINE p == s \div CacheLineSize
           q == i \div CacheLineSize
<1>1. CacheLineSize \in Nat /\ CacheLineSize > 0
  BY CacheAssumption
<1>2. p \in Nat /\ s = p * CacheLineSize
  BY <1>1
<1>3. q \in Nat /\ q * CacheLineSize <= i /\ i < q * CacheLineSize + CacheLineSize
      /\ LineStart(i) = q * CacheLineSize
  BY <1>1 DEF LineStart
<1>4. ~(p < q)
  <2>1. SUFFICES ASSUME p < q PROVE FALSE
    OBVIOUS
  <2>2. (p + 1) * CacheLineSize <= q * CacheLineSize
    BY <1>1, <1>2, <1>3, <2>1
  <2> QED
    BY <1>1, <1>2, <1>3, <2>2
<1>5. ~(q < p)
  <2>1. SUFFICES ASSUME q < p PROVE FALSE
    OBVIOUS
  <2>2. (q + 1) * CacheLineSize <= p * CacheLineSize
    BY <1>1, <1>2, <1>3, <2>1
  <2> QED
    BY <1>1, <1>2, <1>3, <2>2
<1> QED
  BY <1>2, <1>3, <1>4, <1>5

Starts == {LineStart(i) : i \in Addresses}

\* A byte is in the line at s if its line starts at s.
LEMMA InLine ==
  ASSUME NEW i \in Addresses, NEW s \in Starts
  PROVE  i \in LineOf(s) <=> LineStart(i) = s
<1>1. CacheLineSize \in Nat /\ CacheLineSize > 0 /\ Addresses \subseteq Nat
  BY CacheAssumption DEF Addresses
<1>2. PICK j \in Nat : s = LineStart(j)
  BY <1>1 DEF Starts
<1>3. s \in Nat /\ s % CacheLineSize = 0
  BY <1>2, StartOfLine
<1>4. LineStart(s) = s
  BY <1>1, <1>3, OneStart
<1>5. i \in LineOf(s) <=> s <= i /\ i < s + CacheLineSize
  BY <1>1, <1>3, <1>4 DEF LineOf
<1>6. i \in Nat
  BY <1>1
<1>7. s <= i /\ i < s + CacheLineSize => LineStart(i) = s
  BY <1>3, <1>6, OneStart
<1>8. LineStart(i) = s => s <= i /\ i < s + CacheLineSize
  BY <1>6, StartOfLine
<1> QED
  BY <1>5, <1>7, <1>8

LEMMA StartsAreAligned ==
  /\ CacheLineSize \in Nat \ {0}
  /\ Addresses \subseteq Nat
  /\ \A s \in Starts : s \in Addresses /\ LineStart(s) = s
  /\ \A i \in Addresses : LineStart(i) \in Starts /\ LineStart(i) <= i
<1>1. CacheLineSize \in Nat \ {0} /\ Lines * CacheLineSize \in Nat
  BY CacheAssumption
<1>2. \A i \in Addresses : i \in Nat /\ i < Lines * CacheLineSize
  BY <1>1 DEF Addresses
<1>3. ASSUME NEW i \in Addresses PROVE LineStart(i) \in Addresses /\ LineStart(LineStart(i)) = LineStart(i)
                                       /\ LineStart(i) <= i
  <2>1. i \in Nat
    BY <1>2
  <2>2. LineStart(i) \in Nat /\ LineStart(i) <= i /\ LineStart(i) % CacheLineSize = 0
    BY <2>1, StartOfLine
  <2>3. LineStart(LineStart(i)) = LineStart(i)
    BY <1>1, <2>2, OneStart
  <2> QED
    BY <1>1, <1>2, <2>1, <2>2, <2>3 DEF Addresses
<1> QED
  BY <1>1, <1>2, <1>3 DEF Starts

\* The next line: what it starts with, and what is before it.
LEMMA NextStart ==
  ASSUME NEW s \in Starts, NEW i \in Addresses
  PROVE  /\ s + CacheLineSize \in Addresses => s + CacheLineSize \in Starts
         /\ i < s + CacheLineSize <=> i < s \/ LineStart(i) = s
<1>1. CacheLineSize \in Nat /\ CacheLineSize > 0 /\ i \in Nat /\ s \in Nat /\ LineStart(s) = s
  <2>1. s \in Addresses /\ LineStart(s) = s
    BY StartsAreAligned
  <2>2. CacheLineSize \in Nat \ {0} /\ Addresses \subseteq Nat
    BY StartsAreAligned
  <2> QED
    BY <2>1, <2>2
<1>2. s % CacheLineSize = 0
  BY <1>1, StartOfLine
<1>3. (s + CacheLineSize) % CacheLineSize = 0
  <2> DEFINE p == s \div CacheLineSize
  <2>1. p \in Nat /\ s = p * CacheLineSize
    BY <1>1, <1>2
  <2>2. s + CacheLineSize = (p + 1) * CacheLineSize /\ p + 1 \in Nat
    BY <1>1, <2>1
  <2>3. \A n \in Nat : (n * CacheLineSize) % CacheLineSize = 0
    BY <1>1
  <2> QED
    BY <2>2, <2>3
<1>4. LineStart(s + CacheLineSize) = s + CacheLineSize
  <2>1. s + CacheLineSize \in Nat
    BY <1>1
  <2> QED
    BY <1>1, <1>3, <2>1, OneStart
<1>5. LineStart(i) = s => i < s + CacheLineSize
  BY <1>1, StartOfLine
<1>6. s <= i /\ i < s + CacheLineSize => LineStart(i) = s
  BY <1>1, <1>2, OneStart
<1> QED
  BY <1>1, <1>4, <1>5, <1>6 DEF Starts

\* A byte is before a line if its own line is.
LEMMA LineBefore ==
  ASSUME NEW s \in Starts, NEW i \in Addresses
  PROVE  i < s <=> LineStart(i) < s
<1>1. /\ LineStart(i) \in Starts /\ LineStart(i) <= i
      /\ s \in Addresses /\ LineStart(s) = s
      /\ CacheLineSize \in Nat /\ i \in Nat /\ s \in Nat
  BY StartsAreAligned
<1>2. PICK t \in Starts : t = LineStart(i)
  BY <1>1
<1>3. t \in Nat
  BY <1>2, StartsAreAligned
<1>4. i < s => t < s
  BY <1>1, <1>2, <1>3
<1>5. ASSUME t < s PROVE i < s
  <2>1. i < t + CacheLineSize
    BY <1>2, NextStart
  <2>2. ~(s < t + CacheLineSize)
    <3>1. s < t + CacheLineSize <=> s < t \/ LineStart(s) = t
      BY <1>1, NextStart
    <3> QED
      BY <1>1, <1>3, <1>5, <3>1
  <2> QED
    BY <1>1, <1>3, <2>1, <2>2
<1> QED
  BY <1>2, <1>4, <1>5

-----------------------------------------------------------------------------
(* A job's data. *)

Values == CpuValues \cup {DmaValue}

Loops == {"flushSrc", "flushDst", "deleteDst"}

CacheTypeOK ==
  /\ ram \in [Addresses -> Values] /\ expect \in [Addresses -> Values]
  /\ cached \in [Addresses -> Values \cup {Empty}]
  /\ dirty \subseteq Starts
  /\ job \in Jobs
  /\ phase \in Loops \cup {"idle", "srcFlushed", "scheduled", "complete"}
  /\ a \in Nat
  /\ phase \in Loops => a \in Starts
  /\ phase = "flushSrc" => Bytes(job.src) # {}
  /\ phase = "flushDst" => Bytes(job.dst) # {}
  /\ phase = "deleteDst" => \E i \in Bytes(job.dst) : LineStart(i) = a
  /\ risked \subseteq Addresses

\* Lines are loaded whole, and only a loaded one is dirty.
WholeLines ==
  /\ \A i \in Addresses : cached[i] = Empty <=> cached[LineStart(i)] = Empty
  /\ \A s \in dirty : cached[s] # Empty

\* The bytes of the source that are flushed, and those of the destination that the
\* coprocessor has written behind the cache and that are not deleted yet.
SrcDone(i) ==
  /\ i \in Bytes(job.src)
  /\ phase \in {"srcFlushed", "flushDst", "scheduled"} \/ (phase = "flushSrc" /\ i < a)

ToDelete(i) ==
  /\ i \in Bytes(job.dst)
  /\ phase = "complete" \/ (phase = "deleteDst" /\ ~(i < a))

\* A byte of a line in flight is in memory and, if it is the destination's, will stay
\* there; of a byte that is not to be deleted the cache has what was written last, or
\* memory has it, and a clean line agrees with memory.
ByteOK(i) ==
  /\ InFlight(LineStart(i)) => ram[i] = expect[i]
  /\ InFlight(LineStart(i)) /\ i \in Bytes(job.dst) => LineStart(i) \notin dirty
  /\ ~ToDelete(i) => View(i) = expect[i]
  /\ ~ToDelete(i) /\ LineStart(i) \notin dirty /\ cached[i] # Empty => cached[i] = ram[i]
  /\ SrcDone(i) => ram[i] = expect[i]

CacheInv ==
  /\ CacheTypeOK /\ WholeLines /\ dmaRead
  /\ \A i \in Addresses \ risked : ByteOK(i)

LEMMA BufferBytes ==
  ASSUME NEW j \in Jobs, NEW b \in {j.src, j.dst}
  PROVE  /\ b.from \in Nat /\ b.size \in Nat /\ Bytes(b) \subseteq Addresses
         /\ \A i : i \in Bytes(b) <=> i \in Nat /\ b.from <= i /\ i < b.from + b.size
<1>1. b.from \in Nat /\ b.size \in Nat /\ Bytes(b) \subseteq Addresses
  BY CacheAssumption
<1> QED
  BY <1>1 DEF Bytes

\* What is to be deleted is in flight.
LEMMA ToDeleteInFlight ==
  ASSUME CacheTypeOK, NEW i \in Addresses, ToDelete(i)
  PROVE  InFlight(LineStart(i))
<1>1. phase = "deleteDst" => a \in Starts
  BY DEF CacheTypeOK, Loops
<1>2. phase = "deleteDst" => (i < a <=> LineStart(i) < a)
  BY <1>1, LineBefore
<1> QED
  BY <1>2 DEF ToDelete, InFlight

LEMMA CacheInitInv == CacheInit => CacheInv
<1> SUFFICES ASSUME CacheInit PROVE CacheInv
  OBVIOUS
<1>1. (CHOOSE v \in CpuValues : TRUE) \in CpuValues
  BY CacheAssumption
<1>2. CacheTypeOK
  BY <1>1 DEF CacheInit, CacheTypeOK, Values, Loops
<1>3. WholeLines
  BY StartsAreAligned DEF CacheInit, WholeLines
<1>4. ASSUME NEW i \in Addresses, i \notin risked PROVE ByteOK(i)
  BY <1>1 DEF CacheInit, ByteOK, ToDelete, SrcDone, InFlight, View
<1> QED
  BY <1>2, <1>3, <1>4 DEF CacheInv, CacheInit

-----------------------------------------------------------------------------
(* What the cache does on its own, and the CPU. *)

LEMMA LoadLineInv == ASSUME CacheInv, NEW s \in Starts, LoadLine(s) PROVE CacheInv'
<1> USE DEF CacheInv
<1>1. \A i \in Addresses : cached'[i] = IF LineStart(i) = s THEN ram[i] ELSE cached[i]
  BY InLine DEF LoadLine
<1>2. \A i \in Addresses : LineStart(i) = s => cached[i] = Empty
  BY DEF LoadLine, WholeLines
<1>3. CacheTypeOK'
  BY DEF LoadLine, CacheTypeOK
<1>4. \A i \in Addresses : ram[i] # Empty
  BY CacheAssumption DEF CacheTypeOK, Values
<1>5. WholeLines'
  BY <1>1, <1>2, <1>4, StartsAreAligned DEF LoadLine, WholeLines, CacheTypeOK
<1>6. ASSUME NEW i \in Addresses, i \notin risked' PROVE ByteOK(i)'
  <2>1. /\ SrcDone(i)' = SrcDone(i) /\ ToDelete(i)' = ToDelete(i)
        /\ InFlight(LineStart(i))' = InFlight(LineStart(i))
    BY DEF LoadLine, SrcDone, ToDelete, InFlight
  <2>2. ByteOK(i) /\ (ToDelete(i) => InFlight(LineStart(i)))
    BY <1>6, ToDeleteInFlight DEF LoadLine
  <2> QED
    BY <1>1, <1>2, <1>4, <2>1, <2>2 DEF LoadLine, ByteOK, View
<1> QED
  BY <1>3, <1>5, <1>6 DEF LoadLine

\* Cleaning a line changes no view.
LEMMA CleanedBytes ==
  ASSUME CacheInv, NEW s \in Starts
  PROVE  /\ Cleaned(s) \in [Addresses -> Values]
         /\ \A i \in Addresses :
              Cleaned(s)[i] = IF s \in dirty /\ LineStart(i) = s THEN cached[i] ELSE ram[i]
         /\ \A i \in Addresses : LineStart(i) \in dirty => cached[i] # Empty
<1>1. \A i \in Addresses :
        Cleaned(s)[i] = IF s \in dirty /\ LineStart(i) = s THEN cached[i] ELSE ram[i]
  BY InLine DEF Cleaned
<1>2. \A i \in Addresses : LineStart(i) \in dirty => cached[i] # Empty
  BY DEF CacheInv, WholeLines
<1>3. \A i \in Addresses : Cleaned(s)[i] \in Values
  BY <1>1, <1>2 DEF CacheInv, CacheTypeOK
<1> QED
  BY <1>1, <1>2, <1>3 DEF Cleaned

LEMMA EvictLineInv == ASSUME CacheInv, NEW s \in Starts, EvictLine(s) PROVE CacheInv'
<1> USE DEF CacheInv
<1>1. \A i \in Addresses : cached'[i] = IF LineStart(i) = s THEN Empty ELSE cached[i]
  BY InLine DEF EvictLine
<1>2. /\ ram' \in [Addresses -> Values]
      /\ \A i \in Addresses : ram'[i] = IF s \in dirty /\ LineStart(i) = s THEN cached[i] ELSE ram[i]
      /\ \A i \in Addresses : LineStart(i) \in dirty => cached[i] # Empty
  BY CleanedBytes DEF EvictLine
<1>3. CacheTypeOK'
  BY <1>2 DEF EvictLine, CacheTypeOK
<1>4. WholeLines'
  BY <1>1, StartsAreAligned DEF EvictLine, WholeLines, CacheTypeOK
<1>5. ASSUME NEW i \in Addresses, i \notin risked' PROVE ByteOK(i)'
  <2>1. /\ SrcDone(i)' = SrcDone(i) /\ ToDelete(i)' = ToDelete(i)
        /\ InFlight(LineStart(i))' = InFlight(LineStart(i))
    BY DEF EvictLine, SrcDone, ToDelete, InFlight
  <2>2. ByteOK(i) /\ (ToDelete(i) => InFlight(LineStart(i)))
    BY <1>5, ToDeleteInFlight DEF EvictLine
  <2>3. ToDelete(i) => i \in Bytes(job.dst) /\ ~SrcDone(i)
    BY DEF ToDelete, SrcDone
  <2> QED
    BY <1>1, <1>2, <2>1, <2>2, <2>3 DEF EvictLine, ByteOK, View
<1> QED
  BY <1>3, <1>4, <1>5 DEF EvictLine

LEMMA CpuWriteInv ==
  ASSUME CacheInv, NEW k \in Addresses, NEW v \in CpuValues, CpuWrite(k, v)
  PROVE  CacheInv'
<1> USE DEF CacheInv
<1>1. v \in Values /\ v # Empty
  BY CacheAssumption DEF Values
<1>2. CacheTypeOK'
  <2>1. risked' \subseteq Addresses
    <3>1. Bytes(job.dst) \subseteq Addresses
      BY BufferBytes DEF CacheTypeOK
    <3> QED
      BY <3>1 DEF CpuWrite, CacheTypeOK
  <2> QED
    BY <1>1, <2>1, StartsAreAligned DEF CpuWrite, CacheTypeOK
<1>3. WholeLines'
  BY <1>1, StartsAreAligned DEF CpuWrite, WholeLines, CacheTypeOK
<1>4. ASSUME NEW i \in Addresses, i \notin risked' PROVE ByteOK(i)'
  <2>1. /\ SrcDone(i)' = SrcDone(i) /\ ToDelete(i)' = ToDelete(i)
        /\ InFlight(LineStart(i))' = InFlight(LineStart(i))
    BY DEF CpuWrite, SrcDone, ToDelete, InFlight
  <2>2. cached' = [cached EXCEPT ![k] = v] /\ expect' = [expect EXCEPT ![k] = v]
        /\ dirty' = dirty \cup {LineStart(k)} /\ ram' = ram
    BY DEF CpuWrite
  <2>3. cached \in [Addresses -> Values \cup {Empty}] /\ expect \in [Addresses -> Values]
    BY DEF CacheTypeOK
  <2>4. CASE i = k
    <3>1. ~InFlight(LineStart(k))
      BY <1>4, <2>4 DEF CpuWrite
    <3>2. ~SrcDone(k)
      BY DEF SrcDone, CpuWrite
    <3> QED
      BY <1>1, <2>1, <2>2, <2>3, <2>4, <3>1, <3>2 DEF ByteOK, View
  <2>5. CASE i # k
    <3>1. i \notin risked
      BY <1>4, <2>5 DEF CpuWrite
    <3>2. ByteOK(i)
      BY <3>1
    <3>3. LineStart(i) = LineStart(k) /\ InFlight(LineStart(i)) => i \notin Bytes(job.dst)
      <4> SUFFICES ASSUME LineStart(i) = LineStart(k), InFlight(LineStart(k)) PROVE i \notin Bytes(job.dst)
        OBVIOUS
      <4>1. i \in LineOf(LineStart(k)) /\ LineStart(LineStart(k)) = LineStart(k)
        BY InLine, StartsAreAligned
      <4>2. i \in LineOf(k)
        BY <4>1 DEF LineOf
      <4> QED
        BY <1>4, <4>2 DEF CpuWrite
    <3>4. cached'[i] = cached[i] /\ expect'[i] = expect[i] /\ ram'[i] = ram[i]
      BY <2>2, <2>3, <2>5
    <3>5. View(i)' = View(i) /\ Bytes(job.dst)' = Bytes(job.dst)
      BY <3>4 DEF View, CpuWrite, Bytes
    <3>6. LineStart(i) \notin dirty' <=> LineStart(i) \notin dirty /\ LineStart(i) # LineStart(k)
      BY <2>2
    <3> QED
      BY <2>1, <3>2, <3>3, <3>4, <3>5, <3>6 DEF ByteOK
  <2> QED
    BY <2>4, <2>5
<1> QED
  BY <1>2, <1>3, <1>4 DEF CpuWrite

-----------------------------------------------------------------------------
(* The steps of a job. *)

\* The loop of dcacheOp() starts at the line of the buffer's first byte, if any.
LEMMA Entered ==
  ASSUME CacheTypeOK, NEW b \in {job.src, job.dst}, NEW loop, NEW next, Enter(b, loop, next)
  PROVE  \/ b.size = 0 /\ Bytes(b) = {} /\ phase' = next /\ a' = a
         \/ /\ phase' = loop /\ a' \in Starts /\ a' \in Nat
            /\ \A i \in Bytes(b) : ~(i < a')
            /\ LineStart(b.from) = a' /\ b.from \in Bytes(b)
<1>1. /\ b.from \in Nat /\ b.size \in Nat /\ Bytes(b) \subseteq Addresses
      /\ \A i : i \in Bytes(b) <=> i \in Nat /\ b.from <= i /\ i < b.from + b.size
  BY BufferBytes DEF CacheTypeOK
<1>2. CASE b.size = 0
  BY <1>1, <1>2 DEF Enter
<1>3. CASE b.size # 0
  <2>1. b.from \in Bytes(b) /\ b.from \in Addresses
    BY <1>1, <1>3
  <2>2. phase' = loop /\ a' = LineStart(b.from)
    BY <1>3 DEF Enter
  <2>3. a' \in Starts /\ a' \in Nat /\ a' <= b.from
    BY <2>1, <2>2, StartsAreAligned
  <2> QED
    BY <1>1, <2>1, <2>2, <2>3
<1> QED
  BY <1>2, <1>3

\* The loop goes on with the next line as long as it has bytes of the buffer; then
\* all of them have been before its end.
LEMMA WentOn ==
  ASSUME CacheTypeOK, a \in Starts, NEW b \in {job.src, job.dst}, Bytes(b) # {},
         NEW loop, NEW next, NextLine(b, loop, next)
  PROVE  \/ /\ phase' = loop /\ a' \in Starts /\ a' \in Nat
            /\ \A i \in Addresses : i < a' <=> i < a \/ LineStart(i) = a
            /\ (\E i \in Bytes(b) : LineStart(i) = a) => a' \in Bytes(b)
         \/ /\ phase' = next /\ a' = a
            /\ \A i \in Bytes(b) : i < a \/ LineStart(i) = a
<1>1. /\ b.from \in Nat /\ b.size \in Nat /\ Bytes(b) \subseteq Addresses
      /\ \A i : i \in Bytes(b) <=> i \in Nat /\ b.from <= i /\ i < b.from + b.size
  BY BufferBytes DEF CacheTypeOK
<1>2. a \in Nat /\ CacheLineSize \in Nat \ {0}
  BY StartsAreAligned DEF CacheTypeOK
<1>3. \A i \in Addresses : i < a + CacheLineSize <=> i < a \/ LineStart(i) = a
  BY NextStart
<1>4. CASE a + CacheLineSize < b.from + b.size
  <2>1. phase' = loop /\ a' = a + CacheLineSize /\ a' \in Nat
    BY <1>2, <1>4 DEF NextLine
  <2>2. ASSUME NEW i \in Bytes(b), LineStart(i) = a PROVE a' \in Bytes(b)
    <3>1. i \in Nat /\ b.from <= i /\ i < a + CacheLineSize
      BY <1>1, <2>2, StartOfLine
    <3> QED
      BY <1>1, <1>2, <1>4, <2>1, <3>1
  <2>4. a + CacheLineSize \in Addresses
    <3>1. b.from + b.size - 1 \in Bytes(b)
      <4>1. PICK k \in Bytes(b) : k \in Nat /\ b.from <= k /\ k < b.from + b.size
        BY <1>1
      <4>2. b.from + b.size - 1 \in Nat /\ b.from <= b.from + b.size - 1
            /\ b.from + b.size - 1 < b.from + b.size
        BY <1>1, <4>1
      <4> QED
        BY <1>1, <4>2
    <3>2. PICK n \in Nat : n = Lines * CacheLineSize
      BY CacheAssumption
    <3>3. b.from + b.size - 1 < n
      BY <1>1, <3>1, <3>2 DEF Addresses
    <3> QED
      BY <1>1, <1>2, <1>4, <3>2, <3>3 DEF Addresses
  <2>5. a' \in Starts
    BY <2>1, <2>4, NextStart
  <2> QED
    BY <1>3, <2>1, <2>2, <2>5
<1>5. CASE ~(a + CacheLineSize < b.from + b.size)
  <2>1. phase' = next /\ a' = a
    BY <1>5 DEF NextLine
  <2>2. ASSUME NEW i \in Bytes(b) PROVE i < a + CacheLineSize /\ i \in Addresses
    BY <1>1, <1>2, <1>5
  <2> QED
    BY <1>3, <2>1, <2>2
<1> QED
  BY <1>4, <1>5

LEMMA BeginJobInv == ASSUME CacheInv, BeginJob PROVE CacheInv'
<1> USE DEF CacheInv
<1>1. CacheTypeOK /\ Enter(job.src, "flushSrc", "srcFlushed")
  BY DEF BeginJob
<1>2. \/ Bytes(job.src) = {} /\ phase' = "srcFlushed" /\ a' = a
      \/ /\ phase' = "flushSrc" /\ a' \in Starts /\ a' \in Nat
         /\ \A i \in Bytes(job.src) : ~(i < a')
         /\ Bytes(job.src) # {}
  BY <1>1, Entered
<1>3. CacheTypeOK'
  BY <1>2 DEF BeginJob, CacheTypeOK, Loops
<1>4. WholeLines'
  BY DEF BeginJob, WholeLines
<1>5. ASSUME NEW i \in Addresses, i \notin risked' PROVE ByteOK(i)'
  <2>1. ~SrcDone(i)' /\ ~ToDelete(i)' /\ ~ToDelete(i) /\ ~InFlight(LineStart(i))'
    BY <1>2 DEF BeginJob, SrcDone, ToDelete, InFlight
  <2>2. ByteOK(i)
    BY <1>5 DEF BeginJob
  <2> QED
    BY <2>1, <2>2 DEF BeginJob, ByteOK, View
<1> QED
  BY <1>3, <1>4, <1>5 DEF BeginJob

\* One line is cleaned while nothing is to be deleted.
LEMMA FlushLineInv ==
  ASSUME CacheInv, a \in Starts, FlushLine(a), UNCHANGED <<expect, job>>, CacheTypeOK',
         NEW i \in Addresses, i \notin risked, ~ToDelete(i), ~ToDelete(i)',
         SrcDone(i)' => SrcDone(i) \/ LineStart(i) = a,
         InFlight(LineStart(i))' => InFlight(LineStart(i)) \/ LineStart(i) = a
  PROVE  ByteOK(i)'
<1>1. /\ ram'[i] = IF a \in dirty /\ LineStart(i) = a THEN cached[i] ELSE ram[i]
      /\ LineStart(i) \in dirty => cached[i] # Empty
  BY CleanedBytes DEF FlushLine
<1>2. ByteOK(i)
  BY DEF CacheInv
<1>3. cached' = cached /\ expect' = expect /\ dirty' = dirty \ {a}
      /\ Bytes(job.dst)' = Bytes(job.dst)
  BY DEF FlushLine, Bytes
<1>4. View(i)' = View(i) /\ View(i) = expect[i]
  BY <1>1, <1>2, <1>3 DEF ByteOK, View
<1>5. SrcDone(i)' => ram'[i] = expect[i]
  BY <1>1, <1>2, <1>4 DEF ByteOK, View
<1>6. InFlight(LineStart(i))' => ram'[i] = expect[i]
  BY <1>1, <1>2, <1>4 DEF ByteOK, View
<1>7. InFlight(LineStart(i))' /\ i \in Bytes(job.dst) => LineStart(i) \notin dirty'
  BY <1>2, <1>3 DEF ByteOK
<1>8. LineStart(i) \notin dirty' /\ cached[i] # Empty => cached[i] = ram'[i]
  BY <1>1, <1>2, <1>3 DEF ByteOK
<1> QED
  BY <1>3, <1>4, <1>5, <1>6, <1>7, <1>8 DEF ByteOK

LEMMA FlushSrcInv == ASSUME CacheInv, FlushSrc PROVE CacheInv'
<1> USE DEF CacheInv
<1>1. CacheTypeOK /\ a \in Starts /\ NextLine(job.src, "flushSrc", "srcFlushed") /\ FlushLine(a)
      /\ Bytes(job.src) # {}
  BY DEF FlushSrc, CacheTypeOK, Loops
<1>2. \/ /\ phase' = "flushSrc" /\ a' \in Starts /\ a' \in Nat
         /\ \A i \in Addresses : i < a' <=> i < a \/ LineStart(i) = a
      \/ /\ phase' = "srcFlushed" /\ a' = a
         /\ \A i \in Bytes(job.src) : i < a \/ LineStart(i) = a
  BY <1>1, WentOn
<1>3. ram' \in [Addresses -> Values]
  BY <1>1, CleanedBytes DEF FlushLine
<1>4. CacheTypeOK'
  BY <1>1, <1>2, <1>3 DEF FlushSrc, FlushLine, CacheTypeOK, Loops
<1>5. WholeLines'
  BY DEF FlushSrc, FlushLine, WholeLines
<1>6. ASSUME NEW i \in Addresses, i \notin risked' PROVE ByteOK(i)'
  <2>1. /\ ~ToDelete(i) /\ ~ToDelete(i)' /\ ~InFlight(LineStart(i))'
        /\ SrcDone(i)' => SrcDone(i) \/ LineStart(i) = a
    BY <1>2 DEF FlushSrc, SrcDone, InFlight, ToDelete
  <2>2. UNCHANGED <<expect, job>> /\ i \notin risked
    BY <1>6 DEF FlushSrc
  <2> QED
    BY <1>1, <1>4, <2>1, <2>2, FlushLineInv
<1> QED
  BY <1>4, <1>5, <1>6 DEF FlushSrc

LEMMA SrcFlushedInv == ASSUME CacheInv, SrcFlushed PROVE CacheInv'
<1> USE DEF CacheInv
<1>1. CacheTypeOK /\ Enter(job.dst, "flushDst", "scheduled")
  BY DEF SrcFlushed
<1>2. \/ Bytes(job.dst) = {} /\ phase' = "scheduled" /\ a' = a
      \/ /\ phase' = "flushDst" /\ a' \in Starts /\ a' \in Nat
         /\ \A i \in Bytes(job.dst) : ~(i < a')
         /\ Bytes(job.dst) # {}
  BY <1>1, Entered
<1>3. CacheTypeOK'
  BY <1>2 DEF SrcFlushed, CacheTypeOK, Loops
<1>4. WholeLines'
  BY DEF SrcFlushed, WholeLines
<1>5. ASSUME NEW i \in Addresses, i \notin risked' PROVE ByteOK(i)'
  <2>1. (SrcDone(i)' <=> SrcDone(i)) /\ ~ToDelete(i)' /\ ~ToDelete(i)
    BY <1>2 DEF SrcFlushed, SrcDone, ToDelete, Bytes
  <2>2. ByteOK(i)
    BY <1>5 DEF SrcFlushed
  <2>3. ~InFlight(LineStart(i))'
    <3>1. job' = job
      BY DEF SrcFlushed
    <3>2. ASSUME phase' = "flushDst", NEW k \in Bytes(job.dst) PROVE ~(LineStart(k) < a')
      <4>1. k \in Addresses /\ ~(k < a') /\ a' \in Starts
        BY <1>1, <1>2, <3>2, BufferBytes DEF CacheTypeOK
      <4> QED
        BY <4>1, LineBefore
    <3> QED
      BY <1>2, <3>1, <3>2 DEF InFlight, Bytes
  <2> QED
    BY <2>1, <2>2, <2>3 DEF SrcFlushed, ByteOK, View
<1> QED
  BY <1>3, <1>4, <1>5 DEF SrcFlushed

LEMMA FlushDstInv == ASSUME CacheInv, FlushDst PROVE CacheInv'
<1> USE DEF CacheInv
<1>1. CacheTypeOK /\ a \in Starts /\ NextLine(job.dst, "flushDst", "scheduled") /\ FlushLine(a)
      /\ Bytes(job.dst) # {}
  BY DEF FlushDst, CacheTypeOK, Loops
<1>2. \/ /\ phase' = "flushDst" /\ a' \in Starts /\ a' \in Nat
         /\ \A i \in Addresses : i < a' <=> i < a \/ LineStart(i) = a
      \/ /\ phase' = "scheduled" /\ a' = a
         /\ \A i \in Bytes(job.dst) : i < a \/ LineStart(i) = a
  BY <1>1, WentOn
<1>3. ram' \in [Addresses -> Values]
  BY <1>1, CleanedBytes DEF FlushLine
<1>4. CacheTypeOK'
  BY <1>1, <1>2, <1>3 DEF FlushDst, FlushLine, CacheTypeOK, Loops
<1>5. WholeLines'
  BY DEF FlushDst, FlushLine, WholeLines
<1>6. ASSUME NEW i \in Addresses, i \notin risked' PROVE ByteOK(i)'
  <2>1. /\ ~ToDelete(i) /\ ~ToDelete(i)'
        /\ SrcDone(i)' => SrcDone(i) \/ LineStart(i) = a
    BY <1>2 DEF FlushDst, SrcDone, ToDelete
  <2>2. UNCHANGED <<expect, job>> /\ i \notin risked
    BY <1>6 DEF FlushDst
  <2>3. ASSUME InFlight(LineStart(i))' PROVE InFlight(LineStart(i)) \/ LineStart(i) = a
    <3>1. PICK k \in Bytes(job.dst) : LineStart(k) = LineStart(i)
      BY <2>2, <2>3 DEF InFlight, Bytes
    <3>2. k \in Addresses /\ (k < a <=> LineStart(k) < a)
      BY <1>1, <3>1, BufferBytes, LineBefore DEF CacheTypeOK
    <3>3. LineStart(k) < a \/ LineStart(k) = a
      <4>1. CASE phase' = "scheduled"
        BY <1>2, <3>2, <4>1
      <4>2. CASE phase' = "flushDst"
        <5>1. a' \in Starts /\ (k < a' <=> k < a \/ LineStart(k) = a)
          BY <1>2, <3>2, <4>2
        <5>2. LineStart(k) < a'
          BY <2>3, <3>1, <4>2 DEF InFlight
        <5>3. k < a'
          BY <3>2, <5>1, <5>2, LineBefore
        <5> QED
          BY <3>2, <5>1, <5>3
      <4> QED
        BY <1>2, <4>1, <4>2
    <3> QED
      BY <3>1, <3>3 DEF FlushDst, InFlight
  <2> QED
    BY <1>1, <1>4, <2>1, <2>2, <2>3, FlushLineInv
<1> QED
  BY <1>4, <1>5, <1>6 DEF FlushDst

LEMMA DmaInv == ASSUME CacheInv, Dma PROVE CacheInv'
<1> USE DEF CacheInv
<1>1. /\ \A i \in Addresses : ram'[i] = IF i \in Bytes(job.dst) THEN DmaValue ELSE ram[i]
      /\ \A i \in Addresses : expect'[i] = IF i \in Bytes(job.dst) THEN DmaValue ELSE expect[i]
  BY DEF Dma
<1>2. CacheTypeOK'
  <2>1. ram' \in [Addresses -> Values] /\ expect' \in [Addresses -> Values]
    BY DEF Dma, CacheTypeOK, Values
  <2> QED
    BY <2>1 DEF Dma, CacheTypeOK, Loops
<1>3. WholeLines'
  BY DEF Dma, WholeLines
<1>4. ASSUME NEW i \in Addresses, i \notin risked' PROVE ByteOK(i)'
  <2>1. /\ ~SrcDone(i)' /\ ~ToDelete(i)
        /\ ToDelete(i)' <=> i \in Bytes(job.dst)
        /\ InFlight(LineStart(i))' <=> InFlight(LineStart(i))
        /\ i \in Bytes(job.dst) => InFlight(LineStart(i))
        /\ Bytes(job.dst)' = Bytes(job.dst)
    BY DEF Dma, SrcDone, InFlight, ToDelete, Bytes
  <2>2. ByteOK(i)
    BY <1>4 DEF Dma
  <2> QED
    BY <1>1, <2>1, <2>2 DEF Dma, ByteOK, View
<1>5. dmaRead'
  <2>1. \A i \in Bytes(job.src) \ risked : i \in Addresses /\ i \notin risked /\ SrcDone(i)
    <3>1. job \in Jobs /\ phase = "scheduled"
      BY DEF Dma, CacheTypeOK
    <3>2. Bytes(job.src) \subseteq Addresses
      BY <3>1, CacheAssumption
    <3>3. ASSUME NEW i \in Bytes(job.src) \ risked PROVE SrcDone(i)
      BY <3>1 DEF SrcDone
    <3> QED
      BY <3>2, <3>3
  <2> QED
    BY <2>1 DEF Dma, ByteOK
<1> QED
  BY <1>2, <1>3, <1>4, <1>5

LEMMA CompleteInv == ASSUME CacheInv, Complete PROVE CacheInv'
<1> USE DEF CacheInv
<1>1. CacheTypeOK /\ Enter(job.dst, "deleteDst", "idle") /\ job \in Jobs
  BY DEF Complete, CacheTypeOK
<1>2. \/ Bytes(job.dst) = {} /\ phase' = "idle" /\ a' = a
      \/ /\ phase' = "deleteDst" /\ a' \in Starts /\ a' \in Nat
         /\ \A i \in Bytes(job.dst) : ~(i < a')
         /\ LineStart(job.dst.from) = a' /\ job.dst.from \in Bytes(job.dst)
  BY <1>1, Entered
<1>3. phase' = "deleteDst" => \E i \in Bytes(job.dst) : LineStart(i) = a'
  BY <1>2
<1>4. CacheTypeOK'
  BY <1>2, <1>3 DEF Complete, CacheTypeOK, Loops
<1>5. WholeLines'
  BY DEF Complete, WholeLines
<1>6. ASSUME NEW i \in Addresses, i \notin risked' PROVE ByteOK(i)'
  <2>1. /\ ~SrcDone(i)' /\ (ToDelete(i)' <=> ToDelete(i)) /\ Bytes(job.dst)' = Bytes(job.dst)
        /\ InFlight(LineStart(i))' => InFlight(LineStart(i))
    BY <1>2 DEF Complete, SrcDone, InFlight, ToDelete, Bytes
  <2>2. ByteOK(i)
    BY <1>6 DEF Complete
  <2> QED
    BY <2>1, <2>2 DEF Complete, ByteOK, View
<1> QED
  BY <1>4, <1>5, <1>6 DEF Complete

\* The line is in flight: its bytes are in memory, and what the cache gives up of them
\* is not needed.
LEMMA DeleteDstInv == ASSUME CacheInv, DeleteDst PROVE CacheInv'
<1> USE DEF CacheInv
<1>1. CacheTypeOK /\ a \in Starts /\ NextLine(job.dst, "deleteDst", "idle") /\ DeleteLine(a)
      /\ job \in Jobs /\ a \in Nat
  BY DEF DeleteDst, CacheTypeOK, Loops
<1>2. (\E i \in Bytes(job.dst) : LineStart(i) = a) /\ Bytes(job.dst) \subseteq Addresses
  BY <1>1, BufferBytes DEF DeleteDst, CacheTypeOK
<1>3. \/ /\ phase' = "deleteDst" /\ a' \in Starts /\ a' \in Nat
         /\ \A i \in Addresses : i < a' <=> i < a \/ LineStart(i) = a
         /\ a' \in Bytes(job.dst)
      \/ /\ phase' = "idle" /\ a' = a
         /\ \A i \in Bytes(job.dst) : i < a \/ LineStart(i) = a
  BY <1>1, <1>2, WentOn
<1>4. \A i \in Addresses : cached'[i] = IF LineStart(i) = a THEN Empty ELSE cached[i]
  BY <1>1, InLine DEF DeleteLine
<1>5. CacheTypeOK'
  <2>1. phase' = "deleteDst" => LineStart(a') = a'
    BY <1>3, StartsAreAligned
  <2> QED
    BY <1>1, <1>3, <2>1 DEF DeleteDst, DeleteLine, CacheTypeOK, Loops
<1>6. WholeLines'
  BY <1>1, <1>4, StartsAreAligned DEF DeleteLine, WholeLines, CacheTypeOK
<1>7. ASSUME NEW i \in Addresses, i \notin risked' PROVE ByteOK(i)'
  <2>1. ~SrcDone(i)' /\ Bytes(job.dst)' = Bytes(job.dst)
    BY <1>3 DEF DeleteDst, SrcDone, Bytes
  <2>2. i \in Nat /\ (LineStart(i) = a => ~(i < a))
    BY <1>1, StartsAreAligned
  <2>3. LineStart(i) = a => InFlight(LineStart(i))
    BY <1>1, <1>2 DEF DeleteDst, InFlight
  <2>4. ToDelete(i) <=> i \in Bytes(job.dst) /\ ~(i < a)
    BY DEF DeleteDst, ToDelete
  <2>5. ToDelete(i)' <=> ToDelete(i) /\ LineStart(i) # a
    BY <1>3, <2>4 DEF DeleteDst, ToDelete
  <2>6. ByteOK(i)
    BY <1>7 DEF DeleteDst
  <2>7. ram' = ram /\ expect' = expect /\ dirty' = dirty \ {a}
    BY <1>1 DEF DeleteDst, DeleteLine
  <2>8. ASSUME InFlight(LineStart(i))' PROVE InFlight(LineStart(i))
    <3>1. phase' = "deleteDst" /\ ~(LineStart(i) < a') /\ job' = job
      BY <1>3, <2>8 DEF InFlight, DeleteDst
    <3>2. a' \in Starts /\ ~(i < a')
      BY <1>3, <3>1, LineBefore
    <3>3. ~(i < a) /\ ~(LineStart(i) < a)
      BY <1>1, <1>3, <3>1, <3>2, LineBefore
    <3> QED
      BY <2>8, <3>1, <3>3 DEF InFlight, DeleteDst, Bytes
  <2> QED
    BY <1>4, <2>1, <2>2, <2>3, <2>4, <2>5, <2>6, <2>7, <2>8 DEF ByteOK, View
<1> QED
  BY <1>5, <1>6, <1>7 DEF DeleteDst

LEMMA CacheNextInv == CacheInv /\ [CacheNext]_cacheVars => CacheInv'
<1> SUFFICES ASSUME CacheInv, [CacheNext]_cacheVars PROVE CacheInv'
  OBVIOUS
<1>1. CASE UNCHANGED cacheVars
  <2>1. CacheTypeOK' /\ WholeLines' /\ dmaRead'
    BY <1>1 DEF cacheVars, CacheInv, CacheTypeOK, WholeLines
  <2>2. ASSUME NEW i \in Addresses, i \notin risked' PROVE ByteOK(i)'
    <3>1. InFlight(LineStart(i))' = InFlight(LineStart(i)) /\ Bytes(job.dst)' = Bytes(job.dst)
      BY <1>1 DEF cacheVars, InFlight, Bytes
    <3>2. SrcDone(i)' = SrcDone(i) /\ ToDelete(i)' = ToDelete(i)
      BY <1>1 DEF cacheVars, SrcDone, ToDelete
    <3>3. ByteOK(i)
      BY <1>1, <2>2 DEF cacheVars, CacheInv
    <3> QED
      BY <1>1, <3>1, <3>2, <3>3 DEF cacheVars, ByteOK, View
  <2> QED
    BY <2>1, <2>2 DEF CacheInv
<1>2. ASSUME NEW s \in Starts, LoadLine(s) \/ EvictLine(s) PROVE CacheInv'
  BY <1>2, LoadLineInv, EvictLineInv
<1>3. ASSUME NEW i \in Addresses, NEW v \in CpuValues, CpuWrite(i, v) PROVE CacheInv'
  BY <1>3, CpuWriteInv
<1> QED
  BY <1>1, <1>2, <1>3, BeginJobInv, FlushSrcInv, SrcFlushedInv, FlushDstInv, DmaInv,
     CompleteInv, DeleteDstInv DEF CacheNext, Starts

LEMMA CacheInvCoherent == CacheInv => JobDataCoherent
BY DEF CacheInv, JobDataCoherent, ByteOK, ToDelete

\* For every size and number of lines, and buffers anywhere in them: the coprocessor
\* reads what the CPU wrote, the CPU then sees what it wrote, and no variable beside
\* them loses a write, but for what was written into a line of the destination between
\* its flush and its deletion (dcache.h, Cipher.cpp).
THEOREM DataIsCoherent == CacheSpec => []JobDataCoherent
BY CacheInitInv, CacheNextInv, CacheInvCoherent, PTL DEF CacheSpec

WholeLineDestinations ==
  \A j \in Jobs : \A i \in Bytes(j.dst) : LineOf(i) \subseteq Bytes(j.dst)

\* Nothing is at risk where destinations have their lines to themselves: then no write
\* of the program is lost at all (dcache.h).
THEOREM NothingAtRisk == WholeLineDestinations => (CacheSpec => [](risked = {}))
<1> SUFFICES ASSUME WholeLineDestinations PROVE CacheSpec => [](risked = {})
  OBVIOUS
<1>1. CacheInit => risked = {}
  BY DEF CacheInit
<1>2. ASSUME CacheInv, NEW k \in Addresses, NEW v \in CpuValues, CpuWrite(k, v)
      PROVE  ~InFlight(LineStart(k))
  <2> SUFFICES ASSUME InFlight(LineStart(k)) PROVE FALSE
    OBVIOUS
  <2>1. PICK i \in Bytes(job.dst) : LineStart(i) = LineStart(k)
    BY DEF InFlight
  <2>2. i \in Addresses /\ job \in Jobs
    BY <1>2, <2>1, BufferBytes DEF CacheInv, CacheTypeOK
  <2>3. k \in LineOf(LineStart(i)) /\ LineStart(LineStart(i)) = LineStart(i)
    BY <2>1, <2>2, InLine, StartsAreAligned
  <2>4. k \in Bytes(job.dst)
    BY <2>1, <2>2, <2>3 DEF LineOf, WholeLineDestinations
  <2> QED
    BY <1>2, <2>4 DEF CpuWrite, InFlight
<1>3. risked = {} /\ CacheInv /\ [CacheNext]_cacheVars => (risked = {})'
  <2> SUFFICES ASSUME risked = {}, CacheInv, [CacheNext]_cacheVars PROVE risked' = {}
    OBVIOUS
  <2>1. ASSUME NEW k \in Addresses, NEW v \in CpuValues, CpuWrite(k, v) PROVE risked' = {}
    BY <1>2, <2>1 DEF CpuWrite
  <2>2. ASSUME NEW s \in Starts, LoadLine(s) \/ EvictLine(s) PROVE risked' = {}
    BY <2>2 DEF LoadLine, EvictLine
  <2> QED
    BY <2>1, <2>2 DEF CacheNext, Starts, cacheVars, BeginJob, FlushSrc, SrcFlushed, FlushDst,
                      Dma, Complete, DeleteDst
<1> QED
  BY <1>1, <1>3, CacheInitInv, CacheNextInv, PTL DEF CacheSpec

-----------------------------------------------------------------------------
(* The masks of the registers. *)

\* No bit is of two kinds; a field is of one kind; a mask takes in its field, all flags
\* and commands and the key's field, and no other field; an assignment that reads
\* nothing has nothing to keep; what every assignment sets is the reserved ones and,
\* unless it is to the key's field, the key.
FieldOK(l, f) ==
  /\ \/ f.bits \subseteq l.rw \/ f.bits \subseteq l.w1c \/ f.bits \subseteq l.wo
     \/ f.bits \subseteq l.keyField
  /\ f.mask = {} => l.rw = {} /\ l.one = {}
  /\ f.mask # {} => /\ f.bits \cup l.w1c \cup l.wo \cup l.keyField \subseteq f.mask
                    /\ f.mask \cap (l.rw \ f.bits) = {}
  /\ l.one \subseteq f.set
  /\ f.bits \cap l.keyField = {} => f.set \cap l.keyField = l.key
  /\ f.set \cap (l.rw \cup l.w1c \cup l.wo) = {}

LayoutOK(l) ==
  /\ l.rw \cap l.w1c = {} /\ l.rw \cap l.wo = {} /\ l.w1c \cap l.wo = {}
  /\ l.one \cap (l.rw \cup l.w1c \cup l.wo) = {}
  /\ l.keyField \cap (l.rw \cup l.w1c \cup l.wo \cup l.one) = {}
  /\ \A f \in l.fields : FieldOK(l, f)

LEMMA PlainOK == ASSUME NEW fields, {} \notin fields PROVE LayoutOK(Plain(fields))
<1> DEFINE l == Plain(fields)
<1>1. l.rw = UNION fields /\ l.w1c = {} /\ l.wo = {} /\ l.keyField = {} /\ l.key = {} /\ l.one = {}
      /\ l.fields = {[bits |-> f, mask |-> f, set |-> {}] : f \in fields}
  BY DEF Plain
<1>2. ASSUME NEW g \in l.fields PROVE FieldOK(l, g)
  <2>1. PICK f \in fields : g = [bits |-> f, mask |-> f, set |-> {}]
    BY <1>1, <1>2
  <2> HIDE DEF l
  <2> QED
    BY <1>1, <2>1 DEF FieldOK
<1> HIDE DEF l
<1>3. LayoutOK(l)
  BY <1>1, <1>2 DEF LayoutOK
<1> QED
  BY <1>3 DEF l

LEMMA WithOneOK ==
  ASSUME NEW fields, NEW one, {} \notin fields, one \cap UNION fields = {}
  PROVE  LayoutOK(WithOne(fields, one))
<1> DEFINE l == WithOne(fields, one)
<1>1. l.rw = UNION fields /\ l.w1c = {} /\ l.wo = {} /\ l.keyField = {} /\ l.key = {} /\ l.one = one
      /\ l.fields = {[bits |-> f, mask |-> f, set |-> one] : f \in fields}
  BY DEF WithOne, Plain
<1>2. ASSUME NEW g \in l.fields PROVE FieldOK(l, g)
  <2>1. PICK f \in fields : g = [bits |-> f, mask |-> f, set |-> one]
    BY <1>1, <1>2
  <2> HIDE DEF l
  <2> QED
    BY <1>1, <2>1 DEF FieldOK
<1> HIDE DEF l
<1>3. LayoutOK(l)
  BY <1>1, <1>2 DEF LayoutOK
<1> QED
  BY <1>3 DEF l

LEMMA GuardedOK ==
  ASSUME NEW fields, NEW w1c, NEW wo, {} \notin fields \cup w1c \cup wo,
         NEW R, NEW C, NEW O, UNION fields = R, UNION w1c = C, UNION wo = O,
         R \cap C = {}, R \cap O = {}, C \cap O = {}
  PROVE  LayoutOK(Guarded(fields, w1c, wo))
<1> DEFINE l == Guarded(fields, w1c, wo)
<1>1. l.rw = R /\ l.w1c = C /\ l.wo = O /\ l.keyField = {} /\ l.key = {} /\ l.one = {}
      /\ l.fields = {[bits |-> f, mask |-> f \cup UNION (w1c \cup wo), set |-> {}]
                       : f \in fields \cup w1c \cup wo}
  BY DEF Guarded
<1>2. UNION (w1c \cup wo) = C \cup O
  <2>1. \A x : x \in UNION (w1c \cup wo) <=> x \in UNION w1c \/ x \in UNION wo
    OBVIOUS
  <2> QED
    BY <2>1
<1>3. ASSUME NEW g \in l.fields PROVE FieldOK(l, g)
  <2>1. PICK f \in fields \cup w1c \cup wo : g = [bits |-> f, mask |-> f \cup C \cup O, set |-> {}]
    BY <1>1, <1>2, <1>3
  <2>2. f # {} /\ (f \subseteq R \/ f \subseteq C \/ f \subseteq O)
    OBVIOUS
  <2> HIDE DEF l
  <2>3. g.bits = f /\ g.mask = f \cup C \cup O /\ g.set = {}
    BY <2>1
  <2> QED
    BY <1>1, <2>2, <2>3 DEF FieldOK
<1> HIDE DEF l
<1>4. LayoutOK(l)
  BY <1>1, <1>3 DEF LayoutOK
<1> QED
  BY <1>4 DEF l

LEMMA DirectOK ==
  ASSUME NEW w1c, NEW wo, NEW C, NEW O, UNION w1c = C, UNION wo = O, C \cap O = {}
  PROVE  LayoutOK(Direct(w1c, wo))
<1> DEFINE l == Direct(w1c, wo)
<1>1. l.rw = {} /\ l.w1c = C /\ l.wo = O /\ l.keyField = {} /\ l.key = {} /\ l.one = {}
      /\ l.fields = {[bits |-> f, mask |-> {}, set |-> {}] : f \in w1c \cup wo}
  BY DEF Direct
<1>2. ASSUME NEW g \in l.fields PROVE FieldOK(l, g)
  <2>1. PICK f \in w1c \cup wo : g = [bits |-> f, mask |-> {}, set |-> {}]
    BY <1>1, <1>2
  <2> HIDE DEF l
  <2> QED
    BY <1>1, <2>1 DEF FieldOK
<1> HIDE DEF l
<1>3. LayoutOK(l)
  BY <1>1, <1>2 DEF LayoutOK
<1> QED
  BY <1>3 DEF l

LEMMA KeyedOK ==
  ASSUME NEW fields, NEW wo, NEW keyField, NEW key, {} \notin fields \cup wo,
         NEW R, NEW O, UNION fields = R, UNION wo = O, R \cap O = {},
         key \subseteq keyField, keyField # {}, keyField \cap R = {}, keyField \cap O = {}
  PROVE  LayoutOK(Keyed(fields, wo, keyField, key))
<1> DEFINE l == Keyed(fields, wo, keyField, key)
<1>1. l.rw = R /\ l.w1c = {} /\ l.wo = O /\ l.keyField = keyField /\ l.key = key /\ l.one = {}
      /\ l.fields = {[bits |-> f, mask |-> f \cup keyField \cup O, set |-> key]
                       : f \in fields \cup wo}
                    \cup {[bits |-> keyField, mask |-> keyField \cup O, set |-> {}]}
  BY DEF Keyed
<1>2. ASSUME NEW g \in l.fields PROVE FieldOK(l, g)
  <2>1. CASE g = [bits |-> keyField, mask |-> keyField \cup O, set |-> {}]
    <3> HIDE DEF l
    <3>1. g.bits = keyField /\ g.mask = keyField \cup O /\ g.set = {}
      BY <2>1
    <3> QED
      BY <1>1, <3>1 DEF FieldOK
  <2>2. CASE g # [bits |-> keyField, mask |-> keyField \cup O, set |-> {}]
    <3>1. PICK f \in fields \cup wo : g = [bits |-> f, mask |-> f \cup keyField \cup O, set |-> key]
      BY <1>1, <1>2, <2>2
    <3>2. f # {} /\ (f \subseteq R \/ f \subseteq O)
      OBVIOUS
    <3> HIDE DEF l
    <3>3. g.bits = f /\ g.mask = f \cup keyField \cup O /\ g.set = key
      BY <3>1
    <3> QED
      BY <1>1, <3>2, <3>3 DEF FieldOK
  <2> QED
    BY <2>1, <2>2
<1> HIDE DEF l
<1>3. LayoutOK(l)
  BY <1>1, <1>2 DEF LayoutOK
<1> QED
  BY <1>3 DEF l

LEMMA SingleBits ==
  ASSUME NEW bits PROVE {} \notin Single(bits) /\ UNION Single(bits) = bits
BY DEF Single

LEMMA FieldBits ==
  ASSUME NEW high \in Nat, NEW low \in Nat, low <= high
  PROVE  F(high, low) # {} /\ \A i : i \in F(high, low) <=> i \in Nat /\ low <= i /\ i <= high
BY low \in low .. high DEF F

\* Every register has the masks its fields need.
LEMMA LayoutsOK == \A r \in DOMAIN Layout : LayoutOK(Layout[r])
<1>1. \A n \in Nat, m \in Nat : m <= n => F(n, m) # {}
  BY FieldBits
<1>2. \A bits : {} \notin Single(bits)
  BY SingleBits
<1>3. \A x : LayoutOK(Direct(x, {})) /\ LayoutOK(Direct({}, x))
  <2> SUFFICES ASSUME NEW x PROVE LayoutOK(Direct(x, {})) /\ LayoutOK(Direct({}, x))
    OBVIOUS
  <2>1. PICK S : UNION x = S
    OBVIOUS
  <2>2. UNION {} = {} /\ S \cap {} = {} /\ {} \cap S = {}
    OBVIOUS
  <2> QED
    BY <2>1, <2>2, DirectOK
<1>4. LayoutOK(SCMISC)
  BY <1>1, <1>2, PlainOK DEF SCMISC
<1>5. LayoutOK(SDCTL)
  BY <1>1, <1>2, PlainOK DEF SDCTL
<1>6. LayoutOK(SCML)
  BY <1>1, <1>2, PlainOK DEF SCML
<1>7. LayoutOK(SCR1L)
  BY <1>1, <1>2, PlainOK DEF SCR1L
<1>8. LayoutOK(SCR2L)
  BY <1>1, <1>2, PlainOK DEF SCR2L
<1>9. LayoutOK(SCR3L)
  BY <1>1, <1>2, PlainOK DEF SCR3L
<1>10. LayoutOK(SCR4L)
  BY <1>1, <1>2, PlainOK DEF SCR4L
<1>11. LayoutOK(SCR5L)
  BY <1>1, <1>2, PlainOK DEF SCR5L
<1>12. LayoutOK(SCR6PL)
  BY <1>1, <1>2, PlainOK DEF SCR6PL
<1>13. LayoutOK(HPCR)
  BY <1>1, <1>2, PlainOK DEF HPCR
<1>14. LayoutOK(HPSICR)
  BY <1>1, <1>2, PlainOK DEF HPSICR
<1>15. LayoutOK(HPSVCR)
  BY <1>1, <1>2, PlainOK DEF HPSVCR
<1>16. LayoutOK(LPMKCR)
  BY <1>1, <1>2, PlainOK DEF LPMKCR
<1>17. LayoutOK(GPR3)
  BY <1>1, <1>2, PlainOK DEF GPR3
<1>18. LayoutOK(GPR10)
  BY <1>1, <1>2, PlainOK DEF GPR10
<1>19. LayoutOK(HPSR)
  BY <1>3 DEF HPSR
<1>20. LayoutOK(HPSVSR)
  BY <1>3 DEF HPSVSR
<1>21. LayoutOK(LPSR)
  BY <1>3 DEF LPSR
<1>22. LayoutOK(ICSR)
  BY <1>3 DEF ICSR
<1>23. LayoutOK(CFSR)
  BY <1>3 DEF CFSR
<1>24. LayoutOK(HFSR)
  BY <1>3 DEF HFSR
<1>25. LayoutOK(DFSR)
  BY <1>3 DEF DFSR
<1>26. LayoutOK(CISR)
  BY <1>3 DEF CISR
<1>27. LayoutOK(CCGR0) /\ LayoutOK(CCGR6)
  <2>1. {} \notin {F(2 * k + 1, 2 * k) : k \in 0 .. 15}
    <3>1. ASSUME NEW k \in 0 .. 15 PROVE F(2 * k + 1, 2 * k) # {}
      <4>1. 2 * k + 1 \in Nat /\ 2 * k \in Nat /\ 2 * k <= 2 * k + 1
        OBVIOUS
      <4> QED
        BY <1>1, <4>1
    <3> QED
      BY <3>1
  <2> QED
    BY <2>1, PlainOK DEF CCGR0, CCGR6
<1>28. LayoutOK(CGPR)
  <2>1. {1} \cap UNION (Single({17, 16, 4, 0}) \cup {F(15, 14)}) = {}
    BY DEF Single, F
  <2> QED
    BY <1>1, <1>2, <2>1, WithOneOK DEF CGPR
<1>29. LayoutOK(MCTL)
  <2> DEFINE fields == Single({16, 14, 7}) \cup {F(3, 2), F(1, 0)}
  <2>1. UNION fields = {16, 14, 7} \cup F(3, 2) \cup F(1, 0)
    <3>1. \A x : x \in UNION fields <=> x \in UNION Single({16, 14, 7}) \/ x \in F(3, 2) \/ x \in F(1, 0)
      OBVIOUS
    <3> QED
      BY <3>1, SingleBits
  <2>2. F(3, 2) # {} /\ F(1, 0) # {} /\ {} \notin Single({16, 14, 7})
    BY <1>1, SingleBits
  <2>3. PICK R : UNION fields = R /\ 12 \notin R /\ 6 \notin R
    <3>1. 12 \notin F(3, 2) \cup F(1, 0) /\ 6 \notin F(3, 2) \cup F(1, 0)
      BY DEF F
    <3>2. 12 \notin {16, 14, 7} \cup F(3, 2) \cup F(1, 0) /\ 6 \notin {16, 14, 7} \cup F(3, 2) \cup F(1, 0)
      BY <3>1
    <3> HIDE DEF fields
    <3> QED
      BY <2>1, <3>2
  <2>4. {} \notin fields
    BY <2>2
  <2> HIDE DEF fields
  <2>5. PICK w1c : w1c = {{12}}
    OBVIOUS
  <2>6. PICK wo : wo = {{6}}
    OBVIOUS
  <2>7. UNION w1c = {12} /\ UNION wo = {6} /\ {} \notin fields \cup w1c \cup wo
    BY <2>4, <2>5, <2>6
  <2>8. R \cap {12} = {} /\ R \cap {6} = {} /\ {12} \cap {6} = {}
    BY <2>3
  <2>9. LayoutOK(Guarded(fields, w1c, wo))
    BY <2>3, <2>7, <2>8, GuardedOK
  <2> QED
    BY <2>5, <2>6, <2>9 DEF MCTL, fields
<1>30. LayoutOK(HPCOMR)
  <2> DEFINE R == {31, 19, 16, 13, 10, 9, 8, 5, 2, 1}
             O == {18, 17, 12, 4, 0}
  <2>1. R \cap O = {}
    OBVIOUS
  <2> HIDE DEF R, O
  <2>2. LayoutOK(Guarded(Single(R), {}, Single(O)))
    <3>1. UNION Single(R) = R /\ UNION Single(O) = O /\ {} \notin Single(R) \cup {} \cup Single(O)
      BY SingleBits
    <3>2. UNION {} = {} /\ R \cap {} = {} /\ {} \cap O = {}
      OBVIOUS
    <3> QED
      BY <2>1, <3>1, <3>2, GuardedOK
  <2> QED
    BY <2>2 DEF HPCOMR, R, O
<1>31. LayoutOK(AIRCR)
  <2> DEFINE key == {17, 19, 20, 21, 22, 23, 24, 26}
             fields == {F(10, 8)}
             O == {2, 1, 0}
  <2>1. UNION fields = F(10, 8) /\ {} \notin fields \cup Single(O) /\ UNION Single(O) = O
    BY <1>1, SingleBits
  <2>2. F(10, 8) \cap O = {} /\ key \subseteq F(31, 16) /\ F(31, 16) \cap F(10, 8) = {}
        /\ F(31, 16) \cap O = {}
    BY DEF F
  <2>4. F(31, 16) # {}
    BY <1>1
  <2> HIDE DEF key, fields, O
  <2>3. LayoutOK(Keyed(fields, Single(O), F(31, 16), key))
    BY <2>1, <2>2, <2>4, KeyedOK
  <2> QED
    BY <2>3 DEF AIRCR, key, fields, O
<1>32. DOMAIN Layout = {"MCTL", "SCMISC", "SDCTL", "SCML", "SCR1L", "SCR2L", "SCR3L", "SCR4L", "SCR5L",
                        "SCR6PL", "HPCOMR", "HPCR", "HPSICR", "HPSVCR", "HPSR", "HPSVSR", "LPMKCR",
                        "LPSR", "ICSR", "AIRCR", "CFSR", "HFSR", "DFSR", "CGPR", "CCGR0", "CCGR6",
                        "CISR", "GPR3", "GPR10"}
  BY DEF Layout
<1>33. Layout.MCTL = MCTL /\ Layout.SCMISC = SCMISC /\ Layout.SDCTL = SDCTL
      /\ Layout.SCML = SCML /\ Layout.SCR1L = SCR1L /\ Layout.SCR2L = SCR2L
      /\ Layout.SCR3L = SCR3L /\ Layout.SCR4L = SCR4L /\ Layout.SCR5L = SCR5L
      /\ Layout.SCR6PL = SCR6PL /\ Layout.HPCOMR = HPCOMR /\ Layout.HPCR = HPCR
      /\ Layout.HPSICR = HPSICR /\ Layout.HPSVCR = HPSVCR /\ Layout.HPSR = HPSR
      /\ Layout.HPSVSR = HPSVSR /\ Layout.LPMKCR = LPMKCR /\ Layout.LPSR = LPSR
      /\ Layout.ICSR = ICSR /\ Layout.AIRCR = AIRCR /\ Layout.CFSR = CFSR
      /\ Layout.HFSR = HFSR /\ Layout.DFSR = DFSR /\ Layout.CGPR = CGPR
      /\ Layout.CCGR0 = CCGR0 /\ Layout.CCGR6 = CCGR6 /\ Layout.CISR = CISR
      /\ Layout.GPR3 = GPR3 /\ Layout.GPR10 = GPR10
  BY DEF Layout
<1> QED
  BY <1>4, <1>5, <1>6, <1>7, <1>8, <1>9, <1>10, <1>11, <1>12, <1>13, <1>14, <1>15,
     <1>16, <1>17, <1>18, <1>19, <1>20, <1>21, <1>22, <1>23, <1>24, <1>25, <1>26,
     <1>27, <1>28, <1>29, <1>30, <1>31, <1>32, <1>33

-----------------------------------------------------------------------------
(* An assignment. *)

\* What an assignment has read is what the bits that are kept are now: the hardware
\* only raises flags in between.
Assigning ==
  /\ access.field \in Layout[reg].fields
  /\ access.op \in Operators(reg, access.field)
  /\ access.v \subseteq access.field.bits
  /\ access.field.mask # {} =>
       read \cap (Layout[reg].rw \cup Layout[reg].one)
         = val \cap (Layout[reg].rw \cup Layout[reg].one)

RegisterInv ==
  /\ reg \in DOMAIN Layout
  /\ Layout[reg].one \subseteq val
  /\ access = None \/ Assigning

LEMMA RegisterInitInv == RegisterInit => RegisterInv
<1> SUFFICES ASSUME RegisterInit PROVE RegisterInv
  OBVIOUS
<1>1. reg \in DOMAIN Layout /\ access = None
  BY RegistersAssumption DEF RegisterInit
<1>2. Layout[reg].one \subseteq val
  BY DEF RegisterInit
<1> QED
  BY <1>1, <1>2 DEF RegisterInv

\* What is written, x, for a field, an operator and an operand of it, and r read.
WrittenOK(l, f, op, v, r, x) ==
  /\ l.one \subseteq x
  /\ f.bits \cap l.keyField = {} => x \cap l.keyField = l.key
  /\ f.mask = {} => x \cap (l.rw \ f.bits) = {}
  /\ f.mask # {} => x \cap (l.rw \ f.bits) = r \cap (l.rw \ f.bits)
  /\ x \cap l.w1c \subseteq f.bits
  /\ x \cap l.wo \subseteq f.bits \cap v
  /\ op = "=" => \A i \in l.rw \cup l.w1c \cup l.wo : i \in f.bits => (i \in x <=> i \in v)

LEMMA OperandBits ==
  ASSUME NEW l, LayoutOK(l), NEW f, f \in l.fields, NEW v, v \subseteq f.bits, NEW r,
         NEW op, op \in {"=", "&=", "|=", "^="}, op # "=" => f.bits \subseteq l.rw,
         f.mask # {} => l.one \subseteq r
  PROVE  WrittenOK(l, f, op, v, r, Operand(f, op, v, r))
<1> SUFFICES ASSUME NEW x, x = Operand(f, op, v, r) PROVE WrittenOK(l, f, op, v, r, x)
  OBVIOUS
<1> USE DEF WrittenOK
<1> DEFINE new == CASE op = "="  -> v
                    [] op = "&=" -> (r \cap f.bits) \cap v
                    [] op = "|=" -> (r \cap f.bits) \cup v
                    [] op = "^=" -> ((r \cap f.bits) \ v) \cup (v \ (r \cap f.bits))
           w == IF f.mask = {} THEN v \cup f.set ELSE (r \ f.mask) \cup new \cup f.set
<1>1. w = x
  BY DEF Operand
<1>2. FieldOK(l, f)
  BY DEF LayoutOK
<1>3. new \subseteq f.bits /\ (op = "=" => new = v)
  BY DEF new
<1> HIDE DEF new
<1>4. new \cap l.wo \subseteq v /\ (f.mask = {} => f.bits \cap l.rw = {})
  BY <1>2, <1>3 DEF FieldOK, LayoutOK
<1>5. CASE f.mask = {}
  <2>1. w = v \cup f.set
    BY <1>5
  <2> QED
    BY <1>1, <1>2, <1>5, <2>1 DEF FieldOK, LayoutOK
<1>6. CASE f.mask # {}
  <2>1. w = (r \ f.mask) \cup new \cup f.set
    BY <1>6
  <2> HIDE DEF w
  <2>2. /\ f.bits \cup l.w1c \cup l.wo \cup l.keyField \subseteq f.mask
        /\ f.mask \cap (l.rw \ f.bits) = {}
        /\ l.one \subseteq f.set /\ f.set \cap (l.rw \cup l.w1c \cup l.wo) = {}
    BY <1>2, <1>6 DEF FieldOK
  <2>3. /\ w \cap (l.rw \ f.bits) = r \cap (l.rw \ f.bits)
        /\ l.one \subseteq w
    BY <1>3, <2>1, <2>2
  <2>6. f.bits \cap l.keyField = {} => w \cap l.keyField = l.key
    <3> SUFFICES ASSUME f.bits \cap l.keyField = {} PROVE w \cap l.keyField = l.key
      OBVIOUS
    <3>1. f.set \cap l.keyField = l.key /\ new \cap l.keyField = {}
      BY <1>2, <1>3 DEF FieldOK
    <3> QED
      BY <2>1, <2>2, <3>1
  <2>4. w \cap l.w1c \subseteq f.bits /\ w \cap l.wo \subseteq f.bits \cap v
    BY <1>3, <1>4, <2>1, <2>2
  <2>5. op = "=" => \A i \in l.rw \cup l.w1c \cup l.wo : i \in f.bits => (i \in w <=> i \in v)
    BY <1>3, <2>1, <2>2
  <2> QED
    BY <1>1, <1>6, <2>3, <2>4, <2>5, <2>6
<1> QED
  BY <1>5, <1>6

\* What OnlyThatField says of a step that ends an assignment, and that the reserved
\* bits stay.
LEMMA EndAssignReaches ==
  ASSUME RegisterInv, EndAssign
  PROVE  LET l == Layout[reg]
             f == access.field
             others == (l.rw \cup l.w1c) \ f.bits
         IN /\ val' \cap others = val \cap others
            /\ written' \cap l.wo \subseteq f.bits \cap access.v
            /\ (access.op = "=" /\ f.bits \cap l.keyField = {}) =>
                 /\ (val' \cap l.rw \cap f.bits) \cup (written' \cap l.wo \cap f.bits)
                      = access.v \ l.w1c
                 /\ val' \cap l.w1c \cap access.v = {}
            /\ l.one \subseteq val'
<1>1. PICK l : l = Layout[reg]
  OBVIOUS
<1>2. PICK f : f = access.field
  OBVIOUS
<1>3. PICK v : v = access.v
  OBVIOUS
<1>4. PICK w : w = Operand(f, access.op, v, read)
  OBVIOUS
<1>5. /\ Assigning /\ l.one \subseteq val
      /\ LayoutOK(l)
  BY <1>1, LayoutsOK DEF RegisterInv, EndAssign
<1>6. f \in l.fields /\ v \in SUBSET f.bits
  BY <1>1, <1>2, <1>3, <1>5 DEF Assigning
<1>7. access.op \in {"=", "&=", "|=", "^="} /\ (access.op # "=" => f.bits \subseteq l.rw)
  BY <1>1, <1>2, <1>5 DEF Assigning, Operators
<1>8. f.mask # {} => read \cap (l.rw \cup l.one) = val \cap (l.rw \cup l.one)
  BY <1>1, <1>2, <1>5 DEF Assigning
<1>9. f.mask # {} => l.one \subseteq read
  BY <1>5, <1>8
<1>10. WrittenOK(l, f, access.op, v, read, w)
  <2>1. LayoutOK(l) /\ f \in l.fields /\ v \subseteq f.bits
    BY <1>5, <1>6
  <2> QED
    BY <1>4, <1>7, <1>9, <2>1, OperandBits
<1>11. w \cap (l.rw \ f.bits) = val \cap (l.rw \ f.bits)
  <2>1. CASE f.mask = {}
    BY <1>5, <1>6, <1>10, <2>1 DEF WrittenOK, LayoutOK, FieldOK
  <2>2. CASE f.mask # {}
    BY <1>8, <1>10, <2>2 DEF WrittenOK
  <2> QED
    BY <2>1, <2>2
<1> DEFINE all == (val \ (l.rw \cup l.one \cup (l.w1c \cap w))) \cup (w \cap (l.rw \cup l.one))
<1>12. IF w \cap l.keyField = l.key THEN val' = all /\ written' = w
                                    ELSE val' = val /\ written' = {}
  BY <1>1, <1>2, <1>3, <1>4 DEF EndAssign
<1> HIDE DEF all
<1>13. /\ l.rw \cap l.w1c = {} /\ l.rw \cap l.wo = {} /\ l.w1c \cap l.wo = {}
       /\ l.one \cap l.rw = {} /\ l.one \cap l.w1c = {} /\ l.one \cap l.wo = {}
       /\ f.bits \cap l.keyField = {} => f.bits \subseteq l.rw \cup l.w1c \cup l.wo
  BY <1>5, <1>6 DEF LayoutOK, FieldOK
<1>14. PICK x, z : x = val' /\ z = written'
  OBVIOUS
<1>15. CASE w \cap l.keyField = l.key
  <2>1. /\ x = (val \ (l.rw \cup l.one \cup (l.w1c \cap w))) \cup (w \cap (l.rw \cup l.one))
        /\ z = w
    BY <1>12, <1>14, <1>15 DEF all
  <2>2. x \cap ((l.rw \cup l.w1c) \ f.bits) = val \cap ((l.rw \cup l.w1c) \ f.bits)
    <3>1. ASSUME NEW i \in l.rw, i \notin f.bits PROVE i \in x <=> i \in val
      BY <1>11, <2>1, <3>1
    <3>2. ASSUME NEW i \in l.w1c, i \notin f.bits PROVE i \in x <=> i \in val
      BY <1>10, <1>13, <2>1, <3>2 DEF WrittenOK
    <3> QED
      BY <3>1, <3>2
  <2>3. w \cap l.wo \subseteq f.bits \cap v /\ l.one \subseteq x
    BY <1>10, <2>1 DEF WrittenOK
  <2>4. ASSUME access.op = "=", f.bits \cap l.keyField = {}
        PROVE  /\ (x \cap l.rw \cap f.bits) \cup (w \cap l.wo \cap f.bits) = v \ l.w1c
               /\ x \cap l.w1c \cap v = {}
    <3>1. \A i \in f.bits : i \in w <=> i \in v
      BY <1>10, <1>13, <2>4 DEF WrittenOK
    <3>2. \A i \in l.rw : i \in x <=> i \in w
      BY <1>13, <2>1
    <3>3. \A i : i \in (x \cap l.rw \cap f.bits) \cup (w \cap l.wo \cap f.bits) <=> i \in v \ l.w1c
      BY <1>6, <1>13, <2>4, <3>1, <3>2
    <3>4. ASSUME NEW i \in l.w1c, i \in v PROVE i \notin x
      BY <1>6, <1>13, <2>1, <3>1, <3>4
    <3> QED
      BY <3>3, <3>4
  <2> QED
    BY <1>1, <1>2, <1>3, <1>14, <2>1, <2>2, <2>3, <2>4
<1>16. CASE w \cap l.keyField # l.key
  <2>1. x = val /\ z = {} /\ l.one \subseteq val
    BY <1>5, <1>12, <1>14, <1>16
  <2>2. f.bits \cap l.keyField # {}
    BY <1>10, <1>16 DEF WrittenOK
  <2> QED
    BY <1>1, <1>2, <1>3, <1>14, <2>1, <2>2
<1> QED
  BY <1>15, <1>16

LEMMA RegisterNextInv == RegisterInv /\ [RegisterNext]_registerVars => RegisterInv'
<1> SUFFICES ASSUME RegisterInv, [RegisterNext]_registerVars PROVE RegisterInv'
  OBVIOUS
<1> USE DEF RegisterInv
<1>1. ASSUME NEW f \in Layout[reg].fields, NEW op \in Operators(reg, f),
             NEW v \in {{}, f.bits, f.bits \cap Layout[reg].key},
             NEW unkept \in Unkept(Layout[reg]), BeginAssign(f, op, v, unkept)
      PROVE  RegisterInv'
  <2>1. access' = [field |-> f, op |-> op, v |-> v] /\ reg' = reg /\ val' = val
    BY <1>1 DEF BeginAssign
  <2>2. access'.field = f /\ access'.op = op /\ access'.v = v
    BY <2>1
  <2>3. f.mask # {} => read' = val \cup unkept
    BY <1>1 DEF BeginAssign
  <2>6. unkept \cap (Layout[reg].rw \cup Layout[reg].one) = {}
    <3>1. PICK l : l = Layout[reg] /\ LayoutOK(l)
      BY LayoutsOK
    <3>2. unkept \subseteq l.wo \cup l.keyField
      BY <3>1 DEF Unkept
    <3> QED
      BY <3>1, <3>2 DEF LayoutOK
  <2>4. Operators(reg, f)' = Operators(reg, f)
    BY <2>1 DEF Operators
  <2>5. Assigning'
    BY <2>1, <2>2, <2>3, <2>4, <2>6 DEF Assigning, Operators
  <2> QED
    BY <2>1, <2>5
<1>2. CASE EndAssign
  <2>1. reg' = reg /\ access' = None
    BY <1>2 DEF EndAssign
  <2>2. Layout[reg].one \subseteq val'
    BY <1>2, EndAssignReaches
  <2> QED
    BY <2>1, <2>2
<1>3. ASSUME NEW i \in 0 .. 31, RaiseFlag(i) PROVE RegisterInv'
  <2>1. LayoutOK(Layout[reg])
    BY LayoutsOK
  <2>2. val' = val \cup {i} /\ i \in Layout[reg].w1c /\ reg' = reg /\ access' = access
        /\ read' = read
    BY <1>3 DEF RaiseFlag
  <2>3. i \notin Layout[reg].rw \cup Layout[reg].one
    BY <2>1, <2>2 DEF LayoutOK
  <2>4. Assigning => Assigning'
    BY <2>2, <2>3 DEF Assigning, Operators
  <2> QED
    BY <2>2, <2>4
<1>4. CASE UNCHANGED registerVars
  BY <1>4 DEF registerVars, Assigning, Operators
<1> QED
  BY <1>1, <1>2, <1>3, <1>4 DEF RegisterNext

\* Whatever flag the hardware raises between the read and the write, an assignment
\* to a field of any of the registers reaches that field and no other, clears no
\* other flag and gives no other command (regs.h, and the masks of the headers).
THEOREM AssignmentReachesItsField == RegisterSpec => OnlyThatField
<1>1. RegisterInv /\ [RegisterNext]_registerVars =>
        [access # None /\ access' = None =>
           LET l == Layout[reg]
               f == access.field
               others == (l.rw \cup l.w1c) \ f.bits
           IN /\ val' \cap others = val \cap others
              /\ written' \cap l.wo \subseteq f.bits \cap access.v
              /\ (access.op = "=" /\ f.bits \cap l.keyField = {}) =>
                   /\ (val' \cap l.rw \cap f.bits) \cup (written' \cap l.wo \cap f.bits)
                        = access.v \ l.w1c
                   /\ val' \cap l.w1c \cap access.v = {}
              /\ l.one \subseteq val']_registerVars
  <2> SUFFICES ASSUME RegisterInv, [RegisterNext]_registerVars,
                      access # None, access' = None, ~UNCHANGED registerVars
               PROVE  EndAssign
    BY EndAssignReaches
  <2>1. ASSUME NEW f, NEW op, NEW v, NEW unkept, BeginAssign(f, op, v, unkept) PROVE FALSE
    BY <2>1 DEF BeginAssign
  <2>2. ASSUME NEW i, RaiseFlag(i) PROVE FALSE
    BY <2>2 DEF RaiseFlag
  <2> QED
    BY <2>1, <2>2 DEF RegisterNext
<1> QED
  BY <1>1, RegisterInitInv, RegisterNextInv, PTL DEF RegisterSpec, OnlyThatField

=============================================================================
