-------------------------------- MODULE Hash --------------------------------
(***************************************************************************)
(* The Hash class (src/decept/Hash.cpp) on top of the DCP driver.          *)
(*                                                                         *)
(* update() and finalize() are split at every point where another task or  *)
(* the coprocessor may run: each phase of a call is an action, and between *)
(* two phases the call is inside the driver, whose steps Dcp gives.        *)
(*                                                                         *)
(* A message byte is its position in the message of its object, so a run   *)
(* of bytes is an interval.  A hash value says which message it digests,   *)
(* and how much of it; everything else is Garbage.                         *)
(***************************************************************************)
EXTENDS Dcp

CONSTANTS Objects,     \* the Hash objects
          Owner,       \* the task that calls each object's functions
          CrcObjects,  \* those that compute CRC32: no padding, so that the
                       \* running value is the digest
          Channel0,    \* what a zeroed context holds for its channel
          BlockSize,   \* blockSize()
          SizeMod,     \* one more than the largest size_t
          MaxMessage,  \* bound: the length of a message
          MaxChunk,    \* bound: the size of one update()
          Garbage,     \* a hash value that digests no message
          NoOutput     \* an output buffer that was not written

ASSUME HashAssumption ==
  /\ Objects # {}
  /\ Owner \in [Objects -> Tasks]
  /\ CrcObjects \subseteq Objects
  /\ Garbage \notin [obj: Objects, session: {0, 1}, len: Nat, final: BOOLEAN]
  /\ Channel0 \in Channels
  /\ BlockSize \in Nat \ {0}
  /\ SizeMod \in Nat \ {0}
  /\ MaxMessage \in Nat
  /\ MaxChunk \in Nat

VARIABLES ctx,      \* Hash::Context of each object
          context,  \* the hash part of each channel's context switching buffer
          call,     \* each task's current update() or finalize(), with the
                    \* WorkPacket it built last
          open,     \* between init() and the end of the calculation
          session,  \* history: which of an object's messages is hashed now
          sent,     \* history: how much of it update() has accepted
          out       \* the output buffer of the last finalize()

hashVars == <<ctx, context, call, open, session, sent, out>>
vars     == <<dcpVars, hashVars>>

\* The hash of the first n bytes of o's message, running or final.
Running(o, n) == [obj |-> o, session |-> session[o], len |-> n, final |-> FALSE]
Digest(o, n)  == [Running(o, n) EXCEPT !.final = o \notin CrcObjects]

\* A zeroed context, as reallyClear() leaves it.
Cleared == [channel       |-> Channel0,
            runningHash   |-> Garbage,
            isStarted     |-> FALSE,
            blockFrom     |-> 0,      \* ctx_.block holds the bytes from here
            currBlockSize |-> 0,
            totalSize     |-> 0,
            workScheduled |-> FALSE]

NoPacket == [init |-> FALSE, term |-> FALSE, from |-> 0, size |-> 0]
NoCall   == [phase |-> "none", obj |-> CHOOSE o \in Objects : TRUE,
             pIn |-> 0, rem |-> 0, workPacket |-> NoPacket]

HInit ==
  /\ Init
  /\ ctx = [o \in Objects |-> Cleared]
  /\ context = [c \in Channels |-> Garbage]
  /\ call = [t \in Tasks |-> NoCall]
  /\ open = [o \in Objects |-> FALSE]
  /\ session = [o \in Objects |-> 0]
  /\ sent = [o \in Objects |-> 0]
  /\ out = [o \in Objects |-> NoOutput]

Idle(t) == pc[t] = "idle" /\ call[t].phase = "none"
NoCalls == \A t \in Tasks : call[t].phase = "none"

\* "If this returns false ... then the calculation must be restarted": an
\* object is used only between init() and the end of its calculation.
Usable(t, o) == Idle(t) /\ Owner[o] = t /\ open[o] /\ clockOn

-----------------------------------------------------------------------------
(* Pieces of update() and finalize(). *)

\* Mutant: the running hash is never restored.
NotRestored(o) == context

\* restoreRunningHashAsGoodAsNew(), called if ctx_.isStarted.
Restored(o) ==
  IF ctx[o].isStarted
  THEN [context EXCEPT ![ctx[o].channel] = ctx[o].runningHash]
  ELSE context

\* Hash::update(States) and trySchedule(): build the packet and hand it to
\* the channel, or go on polling if work is scheduled already.
Schedule(t, o) ==
  IF ctx[o].workScheduled THEN Await(t, ctx[o].channel) ELSE Submit(t, ctx[o].channel)

Packet(t, o, term, from, size) ==
  IF ctx[o].workScheduled
  THEN call[t].workPacket
  ELSE [init |-> ~ctx[o].isStarted, term |-> term, from |-> from, size |-> size]

Sum(m, n) == (m + n) % SizeMod  \* addition of two size_t

\* The calculation is over, whatever came of it: reallyClear(&ctx_).
EndCalculation(o) ==
  /\ ctx' = [ctx EXCEPT ![o] = Cleared]
  /\ open' = [open EXCEPT ![o] = FALSE]

-----------------------------------------------------------------------------
(* init() and setChannel(). *)

HashInit(t, o, c) ==
  /\ Idle(t) /\ Owner[o] = t /\ c \in ChannelsOf[t]
  /\ ctx' = [ctx EXCEPT ![o] = [Cleared EXCEPT !.channel = c]]
  /\ open' = [open EXCEPT ![o] = TRUE]
  /\ session' = [session EXCEPT ![o] = 1 - @]
  /\ sent' = [sent EXCEPT ![o] = 0]
  /\ out' = [out EXCEPT ![o] = NoOutput]
  /\ UNCHANGED <<dcpVars, context, call>>

SetChannel(t, o, c) ==
  /\ Usable(t, o) /\ c \in ChannelsOf[t]
  /\ ctx' = [ctx EXCEPT ![o].channel = c]
  /\ UNCHANGED <<dcpVars, context, call, open, session, sent, out>>

-----------------------------------------------------------------------------
(* update(msg, msgSize): the next n bytes of the object's message. *)

UpdateBegin(t, o, n) ==
  /\ Usable(t, o) /\ sent[o] + n <= MaxMessage
  /\ context' = Restored(o)
  /\ call' = [call EXCEPT ![t] = [NoCall EXCEPT !.phase = "fill", !.obj = o,
                                               !.pIn = sent[o], !.rem = n]]
  /\ UNCHANGED <<dcpVars, ctx, open, session, sent, out>>

\* Mutant: the copy into the block buffer is not limited to its size.
FillUnbounded(t) ==
  LET o == call[t].obj
      x == ctx[o]
  IN /\ call[t].phase = "fill"
     /\ x.currBlockSize # 0
     /\ ctx' = [ctx EXCEPT ![o].currBlockSize = @ + call[t].rem,
                           ![o].totalSize = Sum(@, call[t].rem)]
     /\ sent' = [sent EXCEPT ![o] = @ + call[t].rem]
     /\ call' = [call EXCEPT ![t] = NoCall]
     /\ UNCHANGED <<dcpVars, context, open, session, out>>

\* The first bytes top up a partial block that is still not full: return.
FillPartial(t) ==
  LET o == call[t].obj
      x == ctx[o]
  IN /\ call[t].phase = "fill"
     /\ x.currBlockSize # 0
     /\ x.currBlockSize + call[t].rem < BlockSize
     /\ ctx' = [ctx EXCEPT ![o].currBlockSize = @ + call[t].rem,
                           ![o].totalSize = Sum(@, call[t].rem)]
     /\ sent' = [sent EXCEPT ![o] = @ + call[t].rem]
     /\ call' = [call EXCEPT ![t] = NoCall]
     /\ UNCHANGED <<dcpVars, context, open, session, out>>

\* The first bytes complete the partial block: hash it.
FillBlock(t) ==
  LET o    == call[t].obj
      x    == ctx[o]
      take == BlockSize - x.currBlockSize
  IN /\ call[t].phase = "fill"
     /\ x.currBlockSize # 0
     /\ take <= call[t].rem
     /\ ctx' = [ctx EXCEPT ![o].currBlockSize = BlockSize,
                           ![o].totalSize = Sum(@, take)]
     /\ call' = [call EXCEPT ![t].phase = "block",
                             ![t].pIn = @ + take,
                             ![t].rem = @ - take,
                             ![t].workPacket = Packet(t, o, FALSE, x.blockFrom, BlockSize)]
     /\ Schedule(t, o)
     /\ UNCHANGED <<context, open, session, sent, out>>

\* Mutant: workScheduled stays set when the job is complete.
BlockStaysScheduled(t) ==
  /\ call[t].phase = "block"
  /\ pc[t] = "complete"
  /\ Retire(t)
  /\ ctx' = [ctx EXCEPT ![call[t].obj].isStarted = TRUE,
                        ![call[t].obj].currBlockSize = 0]
  /\ call' = [call EXCEPT ![t].phase = "bulk"]
  /\ UNCHANGED <<context, open, session, sent, out>>

BlockDone(t) ==
  /\ call[t].phase = "block"
  /\ pc[t] = "complete"
  /\ Retire(t)
  /\ ctx' = [ctx EXCEPT ![call[t].obj].workScheduled = FALSE,
                        ![call[t].obj].isStarted = TRUE,
                        ![call[t].obj].currBlockSize = 0]
  /\ call' = [call EXCEPT ![t].phase = "bulk"]
  /\ UNCHANGED <<context, open, session, sent, out>>

FillNothing(t) ==
  /\ call[t].phase = "fill"
  /\ ctx[call[t].obj].currBlockSize = 0
  /\ call' = [call EXCEPT ![t].phase = "bulk"]
  /\ UNCHANGED <<dcpVars, ctx, context, open, session, sent, out>>

\* All whole blocks of the rest, in one job.
BulkSize(t) == (call[t].rem \div BlockSize) * BlockSize

Bulk(t) ==
  /\ call[t].phase = "bulk"
  /\ BulkSize(t) # 0
  /\ Schedule(t, call[t].obj)
  /\ call' = [call EXCEPT ![t].phase = "bulkJob",
                          ![t].workPacket = Packet(t, call[t].obj, FALSE, call[t].pIn,
                                                   BulkSize(t))]
  /\ UNCHANGED <<ctx, context, open, session, sent, out>>

BulkDone(t) ==
  LET o == call[t].obj
  IN /\ call[t].phase = "bulkJob"
     /\ pc[t] = "complete"
     /\ Retire(t)
     /\ ctx' = [ctx EXCEPT ![o].workScheduled = FALSE,
                           ![o].isStarted = TRUE,
                           ![o].totalSize = Sum(@, BulkSize(t))]
     /\ call' = [call EXCEPT ![t].phase = "bulk",
                             ![t].pIn = @ + BulkSize(t),
                             ![t].rem = @ - BulkSize(t)]
     /\ UNCHANGED <<context, open, session, sent, out>>

\* Mutant: the running hash is not saved.
TailWithoutSave(t) ==
  LET o == call[t].obj
  IN /\ call[t].phase = "bulk"
     /\ BulkSize(t) = 0
     /\ ctx' = [ctx EXCEPT ![o].blockFrom = call[t].pIn,
                           ![o].currBlockSize = call[t].rem,
                           ![o].totalSize = Sum(@, call[t].rem)]
     /\ sent' = [sent EXCEPT ![o] = call[t].pIn + call[t].rem]
     /\ call' = [call EXCEPT ![t] = NoCall]
     /\ UNCHANGED <<dcpVars, context, open, session, out>>

\* Keep what is left in the block buffer, save the running hash and return:
\* saveRunningHashFromTheCausticMist().
Tail(t) ==
  LET o == call[t].obj
  IN /\ call[t].phase = "bulk"
     /\ BulkSize(t) = 0
     /\ ctx' = [ctx EXCEPT ![o].blockFrom = call[t].pIn,
                           ![o].currBlockSize = call[t].rem,
                           ![o].totalSize = Sum(@, call[t].rem),
                           ![o].runningHash = context[ctx[o].channel]]
     /\ sent' = [sent EXCEPT ![o] = call[t].pIn + call[t].rem]
     /\ call' = [call EXCEPT ![t] = NoCall]
     /\ UNCHANGED <<dcpVars, context, open, session, out>>

\* Mutant: a failed job is scheduled again, for ever.
UpdateRetry(t) ==
  /\ call[t].phase \in {"block", "bulkJob"}
  /\ pc[t] = "notScheduled"
  /\ pc' = [pc EXCEPT ![t] = "check"]
  /\ UNCHANGED <<clockOn, hwVars, chan, outcome, hashVars>>

\* A job failed: clear the context and return false.
UpdateFail(t) ==
  /\ call[t].phase \in {"block", "bulkJob"}
  /\ pc[t] = "notScheduled"
  /\ Retire(t)
  /\ EndCalculation(call[t].obj)
  /\ call' = [call EXCEPT ![t] = NoCall]
  /\ UNCHANGED <<context, session, sent, out>>

-----------------------------------------------------------------------------
(* finalize(out, outSize). *)

\* An output size of zero asks for nothing.
FinalizeNothing(t, o) ==
  /\ Usable(t, o)
  /\ EndCalculation(o)
  /\ UNCHANGED <<dcpVars, context, call, session, sent, out>>

\* The empty message has a constant for its digest.
FinalizeEmpty(t, o) ==
  /\ Usable(t, o)
  /\ ctx[o].totalSize = 0
  /\ out' = [out EXCEPT ![o] = Digest(o, 0)]
  /\ EndCalculation(o)
  /\ UNCHANGED <<dcpVars, context, call, session, sent>>

\* For CRC32 with nothing left in the block buffer there is no job to run:
\* the saved running hash is the digest.
NoJobLeft(o) == o \in CrcObjects /\ ctx[o].currBlockSize = 0

FinalizeCrc(t, o) ==
  /\ Usable(t, o)
  /\ ctx[o].totalSize # 0
  /\ NoJobLeft(o)
  /\ context' = Restored(o)
  /\ out' = [out EXCEPT ![o] = ctx[o].runningHash]
  /\ EndCalculation(o)
  /\ UNCHANGED <<dcpVars, call, session, sent>>

FinalizeBegin(t, o) ==
  /\ Usable(t, o)
  /\ ctx[o].totalSize # 0
  /\ ~NoJobLeft(o)
  /\ context' = Restored(o)
  /\ Schedule(t, o)
  /\ call' = [call EXCEPT ![t] =
                [NoCall EXCEPT !.phase = "final", !.obj = o,
                               !.workPacket = Packet(t, o, TRUE, ctx[o].blockFrom,
                                                     ctx[o].currBlockSize)]]
  /\ UNCHANGED <<ctx, open, session, sent, out>>

FinalizeDone(t) ==
  LET o == call[t].obj
  IN /\ call[t].phase = "final"
     /\ pc[t] = "complete"
     /\ Retire(t)
     /\ out' = [out EXCEPT ![o] = ctx[o].runningHash]
     /\ EndCalculation(o)
     /\ call' = [call EXCEPT ![t] = NoCall]
     /\ UNCHANGED <<context, session, sent>>

\* Mutant: the output is written even if the last job failed.
FinalizeFailWrites(t) ==
  LET o == call[t].obj
  IN /\ call[t].phase = "final"
     /\ pc[t] = "notScheduled"
     /\ Retire(t)
     /\ out' = [out EXCEPT ![o] = ctx[o].runningHash]
     /\ EndCalculation(o)
     /\ call' = [call EXCEPT ![t] = NoCall]
     /\ UNCHANGED <<context, session, sent>>

FinalizeFail(t) ==
  /\ call[t].phase = "final"
  /\ pc[t] = "notScheduled"
  /\ Retire(t)
  /\ EndCalculation(call[t].obj)
  /\ call' = [call EXCEPT ![t] = NoCall]
  /\ UNCHANGED <<context, session, sent, out>>

-----------------------------------------------------------------------------
(* The driver's and the coprocessor's steps, and what they do to a hash. *)

\* Until a call's job starts nothing of the object changes; the step that
\* starts it is followed by workScheduled = true.
Drive(t) ==
  \/ /\ ScheduleWorkStart(t)
     /\ ctx' = [ctx EXCEPT ![call[t].obj].workScheduled = TRUE]
     /\ UNCHANGED <<context, call, open, session, sent, out>>
  \/ /\ \/ ScheduleWorkCheck(t)
        \/ ScheduleWorkTaken(t)
        \/ Poll(t)
        \/ Status(t)
        \/ ClearStatus(t)
     /\ UNCHANGED hashVars

\* What the coprocessor computes: it goes on from the state in the context
\* buffer, or anew.  A job's bytes must be the next ones of the message, and
\* only the last job of a message may have a partial block.
Hashed(c, o, p) ==
  LET base == IF p.init THEN Running(o, 0) ELSE context[c]
  IN IF p.size = 0 THEN base
     ELSE IF base = Running(o, p.from) /\ (p.term \/ p.size % BlockSize = 0)
          THEN Running(o, p.from + p.size)
          ELSE Garbage

\* A job that ends the message writes the digest to its payload pointer,
\* any other leaves its state in the channel's context buffer.
HashHwDone(c) ==
  LET o == call[cmd[c]].obj
      p == call[cmd[c]].workPacket
      h == Hashed(c, o, p)
  IN /\ HwDone(c)
     /\ IF p.term
        THEN /\ ctx' = [ctx EXCEPT ![o].runningHash =
                          IF h = Garbage THEN Garbage
                          ELSE [h EXCEPT !.final = o \notin CrcObjects]]
             /\ context' = [context EXCEPT ![c] = Garbage]
        ELSE /\ context' = [context EXCEPT ![c] = h]
             /\ UNCHANGED ctx
     /\ UNCHANGED <<call, open, session, sent, out>>

HashHwError(c) ==
  /\ HwError(c)
  /\ context' = [context EXCEPT ![c] = Garbage]
  /\ UNCHANGED <<ctx, call, open, session, sent, out>>

\* The context switching buffer and the objects are in RAM: they survive.
HashDcpInit   == NoCalls /\ DcpInit /\ UNCHANGED hashVars
HashDcpDeinit == NoCalls /\ DcpDeinit /\ UNCHANGED hashVars

-----------------------------------------------------------------------------

CallStep(t) ==
  \/ FillPartial(t)
  \/ FillBlock(t)
  \/ BlockDone(t)
  \/ FillNothing(t)
  \/ Bulk(t)
  \/ BulkDone(t)
  \/ Tail(t)
  \/ UpdateFail(t)
  \/ FinalizeDone(t)
  \/ FinalizeFail(t)
  \/ Drive(t)

HashHwStep(c) == HashHwDone(c) \/ HashHwError(c)

HNext ==
  \/ HashDcpInit
  \/ HashDcpDeinit
  \/ \E t \in Tasks : \E o \in {x \in Objects : Owner[x] = t} :
       \/ \E c \in ChannelsOf[t] : HashInit(t, o, c) \/ SetChannel(t, o, c)
       \/ \E n \in 1 .. MaxChunk : UpdateBegin(t, o, n)
       \/ FinalizeNothing(t, o)
       \/ FinalizeEmpty(t, o)
       \/ FinalizeCrc(t, o)
       \/ FinalizeBegin(t, o)
  \/ \E t \in Tasks : CallStep(t)
  \/ \E c \in Channels : HashHwStep(c)

HSpec == HInit /\ [][HNext]_vars

HFairness ==
  /\ \A t \in Tasks : WF_vars(CallStep(t))
  /\ \A c \in Channels : WF_vars(HashHwStep(c))

HFairSpec == HSpec /\ HFairness

-----------------------------------------------------------------------------
(* Properties. *)

HashValues == {Garbage} \cup
  [obj: Objects, session: {0, 1}, len: Nat, final: BOOLEAN]

HTypeOK ==
  /\ TypeOK
  /\ ctx \in [Objects -> [channel: Channels, runningHash: HashValues,
                          isStarted: BOOLEAN, blockFrom: Nat,
                          currBlockSize: 0 .. BlockSize,
                          totalSize: 0 .. SizeMod - 1, workScheduled: BOOLEAN]]
  /\ context \in [Channels -> HashValues]
  /\ call \in [Tasks -> [phase: {"none", "fill", "block", "bulk", "bulkJob", "final"},
                         obj: Objects, pIn: Nat, rem: Nat,
                         workPacket: [init: BOOLEAN, term: BOOLEAN, from: Nat, size: Nat]]]
  /\ open \in [Objects -> BOOLEAN]
  /\ session \in [Objects -> {0, 1}]
  /\ sent \in [Objects -> 0 .. MaxMessage]
  /\ out \in [Objects -> HashValues \cup {NoOutput}]

\* Whatever finalize() wrote is the digest of exactly the bytes that the
\* update() calls since init() accepted: for every way to cut the message,
\* every interleaving with other objects on the same channel, every change
\* of channel, and failed calls and DCP restarts in between.  (For the objects
\* of a task that owns its channels: between tasks that share one, a job may
\* report another's outcome and a context buffer is anybody's.)
DigestCorrect ==
  \A o \in Objects :
    Owner[o] \in Owners /\ out[o] # NoOutput => out[o] = Digest(o, sent[o])

\* Between its calls an object depends on its own context only: what it
\* saved, with the bytes of its block buffer, is the whole message so far,
\* so any other object may use the channel's context buffer meanwhile.
ContextHoldsMessage ==
  \A o \in Objects :
    (/\ Owner[o] \in Owners /\ open[o]
     /\ \A t \in Tasks : call[t].phase # "none" => call[t].obj # o) =>
      LET x      == ctx[o]
          hashed == sent[o] - x.currBlockSize
      IN /\ x.totalSize = sent[o] /\ ~x.workScheduled
         /\ x.isStarted <=> hashed # 0
         /\ x.isStarted => x.runningHash = Running(o, hashed)
         /\ x.currBlockSize # 0 => x.blockFrom = hashed

\* The coprocessor reads the packet and writes the running hash of an object
\* by DMA: nothing the program does changes that object while its job runs.
JobDataStable ==
  [][\A c \in Channels :
       busy[c] /\ busy'[c] =>
         LET t == cmd[c]
         IN call'[t] = call[t] /\ ctx'[call[t].obj] = ctx[call[t].obj]]_vars

\* The promise to the caller: seen through open, session, sent and out, every
\* call is one step of HashSpec, taken when it returns.
Abstract == INSTANCE HashSpec
ImplementsHashSpec == Abstract!Spec

\* Hash uses the driver as it is meant to be used: seen through the driver's
\* variables its steps are those of Dcp, so that no poll answers for a job
\* that the same call has not scheduled.
FollowsDriver == Spec

\* Every update() and every finalize() returns.
HashCallReturns ==
  \A t \in Tasks : call[t].phase # "none" ~> call[t].phase = "none"

=============================================================================
