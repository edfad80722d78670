----------------------------- MODULE DataCache -----------------------------
(***************************************************************************)
(* Data cache maintenance (src/decept/util/dcache.h) around a job of the   *)
(* coprocessor, as Cipher::trySchedule() and tryCrypt() do it: source and  *)
(* destination are flushed line by line, the coprocessor reads and writes  *)
(* memory behind the cache, and the destination's lines are deleted.       *)
(*                                                                         *)
(* The cache may load a line or write a dirty one back at any moment, and  *)
(* other tasks write to their own variables all the while.                 *)
(***************************************************************************)
EXTENDS Naturals, FiniteSets

CONSTANTS CacheLineSize,  \* kCacheLineSize
          Lines,          \* bound: how many lines the memory has
          Jobs,           \* source and destination, [from, size] each
          CpuValues,      \* what the CPU writes
          DmaValue,       \* what the coprocessor writes
          Empty           \* no data: the address is not cached

Addresses == 0 .. Lines * CacheLineSize - 1
Bytes(b)  == b.from .. b.from + b.size - 1

LineStart(i) == i - (i % CacheLineSize)
LineOf(i)    == LineStart(i) .. LineStart(i) + CacheLineSize - 1

\* Buffers may start and end anywhere in a line.
ASSUME CacheAssumption ==
  /\ CacheLineSize \in Nat \ {0} /\ Lines \in Nat \ {0}
  /\ \A j \in Jobs : \A b \in {j.src, j.dst} : b.from \in Nat /\ b.size \in Nat
  /\ \A j \in Jobs : Bytes(j.src) \cup Bytes(j.dst) \subseteq Addresses
  /\ CpuValues # {} /\ DmaValue \notin CpuValues /\ Empty \notin CpuValues \cup {DmaValue}

VARIABLES ram,
          cached,   \* what the cache holds of each address, Empty if nothing,
          dirty,    \* and the lines that were written there: their first addresses
          expect,   \* history: what was written last, by the CPU or the coprocessor
          job,      \* the job's buffers,
          phase,    \* where the job is,
          a,        \* the line the loop of dcacheOp() is at,
          risked,   \* history: what a write into a line in flight may have lost
          dmaRead   \* history: the coprocessor has read what the CPU wrote

cacheVars == <<ram, cached, dirty, expect, job, phase, a, risked, dmaRead>>

View(i) == IF cached[i] = Empty THEN ram[i] ELSE cached[i]

-----------------------------------------------------------------------------
CacheInit ==
  /\ ram = [i \in Addresses |-> CHOOSE v \in CpuValues : TRUE]
  /\ cached = [i \in Addresses |-> Empty] /\ dirty = {}
  /\ expect = ram
  /\ job \in Jobs
  /\ phase = "idle" /\ a = 0 /\ risked = {} /\ dmaRead = TRUE

\* A line is loaded, also by speculation.
LoadLine(s) ==
  /\ cached[s] = Empty
  /\ cached' = [i \in Addresses |-> IF i \in LineOf(s) THEN ram[i] ELSE cached[i]]
  /\ UNCHANGED <<ram, dirty, expect, job, phase, a, risked, dmaRead>>

\* What cleaning the line at s leaves in memory.
Cleaned(s) == [i \in Addresses |-> IF s \in dirty /\ i \in LineOf(s) THEN cached[i] ELSE ram[i]]

\* A line is written back if it is dirty, and given up.
EvictLine(s) ==
  /\ cached[s] # Empty
  /\ ram' = Cleaned(s)
  /\ cached' = [i \in Addresses |-> IF i \in LineOf(s) THEN Empty ELSE cached[i]]
  /\ dirty' = dirty \ {s}
  /\ UNCHANGED <<expect, job, phase, a, risked, dmaRead>>

\* The line at s has bytes of the destination, and is flushed and not deleted yet.
InFlight(s) ==
  /\ \E i \in Bytes(job.dst) : LineStart(i) = s
  /\ \/ phase = "flushDst" /\ s < a
     \/ phase \in {"scheduled", "complete"}
     \/ phase = "deleteDst" /\ ~(s < a)

\* A write of the CPU, to a loaded line. The job's buffers are left alone while it
\* runs; the variables beside them are not. In a line in flight, the deletion may drop
\* the write, and writing the line back may undo the coprocessor's.
CpuWrite(i, v) ==
  /\ cached[i] # Empty
  /\ phase # "idle" => i \notin Bytes(job.src) \cup Bytes(job.dst)
  /\ cached' = [cached EXCEPT ![i] = v]
  /\ dirty' = dirty \cup {LineStart(i)}
  /\ expect' = [expect EXCEPT ![i] = v]
  /\ risked' = IF InFlight(LineStart(i))
               THEN risked \cup {i} \cup (LineOf(i) \cap Bytes(job.dst))
               ELSE risked \ {i}
  /\ UNCHANGED <<ram, job, phase, a, dmaRead>>

-----------------------------------------------------------------------------
(* dcacheOp(): nothing for size 0, else the lines from the one that holds the *)
(* first byte up to the end.                                                  *)

\* The loop starts for buffer b, or goes to phase "next" at once.
Enter(b, loop, next) ==
  IF b.size = 0 THEN phase' = next /\ UNCHANGED a
  ELSE phase' = loop /\ a' = LineStart(b.from)

\* Mutant: the loop counts lines from the first byte, not from its line's start.
NextLineUnaligned(b, loop, next) ==
  IF a + CacheLineSize < LineStart(b.from) + b.size
  THEN phase' = loop /\ a' = a + CacheLineSize
  ELSE phase' = next /\ UNCHANGED a

\* One line is done: "while (a < end)".
NextLine(b, loop, next) ==
  IF a + CacheLineSize < b.from + b.size
  THEN phase' = loop /\ a' = a + CacheLineSize
  ELSE phase' = next /\ UNCHANGED a

\* DCCMVAC
FlushLine(s) == ram' = Cleaned(s) /\ dirty' = dirty \ {s} /\ UNCHANGED cached

\* DCIMVAC
DeleteLine(s) ==
  /\ cached' = [i \in Addresses |-> IF i \in LineOf(s) THEN Empty ELSE cached[i]]
  /\ dirty' = dirty \ {s}
  /\ UNCHANGED ram

BeginJob ==
  /\ phase = "idle"
  /\ Enter(job.src, "flushSrc", "srcFlushed")
  /\ UNCHANGED <<ram, cached, dirty, expect, job, risked, dmaRead>>

FlushSrc ==
  /\ phase = "flushSrc"
  /\ FlushLine(a)
  /\ NextLine(job.src, "flushSrc", "srcFlushed")
  /\ UNCHANGED <<expect, job, risked, dmaRead>>

SrcFlushed ==
  /\ phase = "srcFlushed"
  /\ Enter(job.dst, "flushDst", "scheduled")
  /\ UNCHANGED <<ram, cached, dirty, expect, job, risked, dmaRead>>

FlushDst ==
  /\ phase = "flushDst"
  /\ FlushLine(a)
  /\ NextLine(job.dst, "flushDst", "scheduled")
  /\ UNCHANGED <<expect, job, risked, dmaRead>>

\* The coprocessor reads the source, then writes the destination.
Dma ==
  /\ phase = "scheduled"
  /\ dmaRead' = \A i \in Bytes(job.src) \ risked : ram[i] = expect[i]
  /\ ram' = [i \in Addresses |-> IF i \in Bytes(job.dst) THEN DmaValue ELSE ram[i]]
  /\ expect' = [i \in Addresses |-> IF i \in Bytes(job.dst) THEN DmaValue ELSE expect[i]]
  /\ phase' = "complete"
  /\ UNCHANGED <<cached, dirty, job, a, risked>>

\* isChannelComplete() has said kComplete.
Complete ==
  /\ phase = "complete"
  /\ Enter(job.dst, "deleteDst", "idle")
  /\ UNCHANGED <<ram, cached, dirty, expect, job, risked, dmaRead>>

DeleteDst ==
  /\ phase = "deleteDst"
  /\ DeleteLine(a)
  /\ NextLine(job.dst, "deleteDst", "idle")
  /\ UNCHANGED <<expect, job, risked, dmaRead>>

CacheNext ==
  \/ BeginJob \/ FlushSrc \/ SrcFlushed \/ FlushDst \/ Dma \/ Complete \/ DeleteDst
  \/ \E s \in {LineStart(i) : i \in Addresses} : LoadLine(s) \/ EvictLine(s)
  \/ \E i \in Addresses, v \in CpuValues : CpuWrite(i, v)

CacheSpec == CacheInit /\ [][CacheNext]_cacheVars

-----------------------------------------------------------------------------
\* The coprocessor reads what the CPU wrote, and once the job is done the CPU sees
\* what the coprocessor wrote, whatever the cache loads and writes back on its own,
\* and wherever in their lines the buffers start and end; and no variable beside the
\* buffers loses a write. The exception is a write into a line of the destination
\* after its flush and before its deletion: it may be lost, and so may the bytes of
\* the destination in that line, but nothing else (dcache.h, Cipher.cpp).
JobDataCoherent ==
  /\ dmaRead
  /\ \A i \in Addresses \ risked :
       phase = "idle" \/ i \notin Bytes(job.dst) => View(i) = expect[i]
=============================================================================
