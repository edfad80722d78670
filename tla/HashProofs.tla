----------------------------- MODULE HashProofs -----------------------------
(***************************************************************************)
(* Proofs about Hash, for any objects, tasks and channels, any block size  *)
(* and any cut of the messages.                                            *)
(*                                                                         *)
(* HashInv holds however the channels are shared.  Kept is about what an   *)
(* object's context and the coprocessor's hold of its message: for that    *)
(* the object's task has to own its channels, and messages have to be      *)
(* shorter than a size_t counts.                                           *)
(***************************************************************************)
EXTENDS Hash, DcpProofs

Jobs    == {"block", "bulkJob", "final"}
Updates == {"fill", "block", "bulk", "bulkJob"}

\* A call is inside the driver exactly while it has a job.  It works on an
\* object of its task, on that object's channel, and an update() goes on from
\* what earlier ones accepted.
CallShape(t) ==
  LET k == call[t]
      o == k.obj
  IN /\ pc[t] = "idle" <=> k.phase \notin Jobs
     /\ k.phase # "none" => Owner[o] = t /\ open[o]
     /\ k.phase \in Jobs => chan[t] = ctx[o].channel
     /\ k.phase = "fill" => k.pIn = sent[o]
     /\ k.phase \in Updates => sent[o] < k.pIn + k.rem /\ k.pIn + k.rem <= MaxMessage

\* Work is scheduled for an object only within the call that scheduled it.
OwnWork(o) ==
  ctx[o].workScheduled => /\ call[Owner[o]].phase \in Jobs
                          /\ call[Owner[o]].obj = o

HashInv ==
  /\ Owned
  /\ HTypeOK
  /\ \A t \in Tasks : CallShape(t)
  /\ \A o \in Objects : OwnWork(o)

-----------------------------------------------------------------------------
(* The pieces of the calls. *)

\* All whole blocks of n bytes: a multiple of the block size that leaves less
\* than a block.
LEMMA WholeBlocks ==
  ASSUME NEW n \in Nat
  PROVE  LET w == (n \div BlockSize) * BlockSize
         IN /\ w \in 0 .. n
            /\ n - w < BlockSize
            /\ w % BlockSize = 0
<1> DEFINE q == n \div BlockSize
           w == q * BlockSize
<1>1. BlockSize \in Nat /\ BlockSize > 0
  BY HashAssumption
<1>2. q \in Nat /\ w <= n /\ n < w + BlockSize
  BY <1>1
<1>3. w \in Nat
  BY <1>1, <1>2
<1>4. w % BlockSize = 0
  BY <1>1, <1>2
<1> QED
  BY <1>1, <1>2, <1>3, <1>4

LEMMA SumType ==
  ASSUME NEW m \in Nat, NEW n \in Nat
  PROVE  Sum(m, n) \in 0 .. SizeMod - 1 /\ (m + n < SizeMod => Sum(m, n) = m + n)
BY HashAssumption DEF Sum

-----------------------------------------------------------------------------
(* HashInv. *)

LEMMA NoCallType ==
  NoCall \in [phase: {"none"}, obj: Objects, pIn: {0}, rem: {0}, workPacket: {NoPacket}]
BY HashAssumption DEF NoCall

LEMMA ClearedType ==
  Cleared \in [channel: Channels, runningHash: HashValues, isStarted: {FALSE},
               blockFrom: {0}, currBlockSize: {0}, totalSize: {0}, workScheduled: {FALSE}]
BY HashAssumption DEF Cleared, HashValues

LEMMA RunningType ==
  ASSUME HTypeOK, NEW o \in Objects, NEW n \in Nat
  PROVE  /\ Running(o, n) \in [obj: Objects, session: {0, 1}, len: Nat, final: BOOLEAN]
         /\ Digest(o, n) \in [obj: Objects, session: {0, 1}, len: Nat, final: BOOLEAN]
         /\ Running(o, n) # Garbage
         /\ {Running(o, n), Digest(o, n)} \subseteq HashValues
<1>1. session[o] \in {0, 1}
  BY DEF HTypeOK
<1>2. Running(o, n) \in [obj: Objects, session: {0, 1}, len: Nat, final: BOOLEAN]
  BY <1>1 DEF Running
<1>3. Digest(o, n) \in [obj: Objects, session: {0, 1}, len: Nat, final: BOOLEAN]
  BY <1>1 DEF Running, Digest
<1> QED
  BY <1>2, <1>3, HashAssumption DEF HashValues

LEMMA InitHashInv == HInit => HashInv
<1> SUFFICES ASSUME HInit PROVE HashInv
  OBVIOUS
<1>1. Owned
  BY InitOwned DEF HInit
<1>2. HTypeOK
  <2>1. ctx \in [Objects -> [channel: Channels, runningHash: HashValues,
                             isStarted: BOOLEAN, blockFrom: Nat,
                             currBlockSize: 0 .. BlockSize,
                             totalSize: 0 .. SizeMod - 1, workScheduled: BOOLEAN]]
    <3>1. 0 \in 0 .. BlockSize /\ 0 \in 0 .. SizeMod - 1
      BY HashAssumption
    <3>2. Cleared \in [channel: Channels, runningHash: HashValues,
                       isStarted: BOOLEAN, blockFrom: Nat,
                       currBlockSize: 0 .. BlockSize,
                       totalSize: 0 .. SizeMod - 1, workScheduled: BOOLEAN]
      BY <3>1, HashAssumption DEF Cleared, HashValues
    <3> QED
      BY <3>2 DEF HInit
  <2>2. call \in [Tasks -> [phase: {"none", "fill", "block", "bulk", "bulkJob", "final"},
                            obj: Objects, pIn: Nat, rem: Nat,
                            workPacket: [init: BOOLEAN, term: BOOLEAN, from: Nat, size: Nat]]]
    <3>1. NoCall \in [phase: {"none", "fill", "block", "bulk", "bulkJob", "final"},
                      obj: Objects, pIn: Nat, rem: Nat,
                      workPacket: [init: BOOLEAN, term: BOOLEAN, from: Nat, size: Nat]]
      <4>1. NoPacket \in [init: BOOLEAN, term: BOOLEAN, from: Nat, size: Nat]
        BY DEF NoPacket
      <4> QED
        BY <4>1, NoCallType
    <3> QED
      BY <3>1 DEF HInit
  <2>3. /\ context \in [Channels -> HashValues]
        /\ open \in [Objects -> BOOLEAN]
        /\ session \in [Objects -> {0, 1}]
        /\ sent \in [Objects -> 0 .. MaxMessage]
        /\ out \in [Objects -> HashValues \cup {NoOutput}]
    BY HashAssumption DEF HInit, HashValues
  <2> QED
    BY <1>1, <2>1, <2>2, <2>3 DEF HTypeOK, Owned
<1>3. ASSUME NEW t \in Tasks PROVE CallShape(t)
  BY NoCallType DEF HInit, Init, CallShape, Jobs, Updates
<1>4. ASSUME NEW o \in Objects PROVE OwnWork(o)
  BY ClearedType DEF HInit, OwnWork
<1> QED
  BY <1>1, <1>2, <1>3, <1>4 DEF HashInv

\* A call that has no job yet schedules one: none is left from another call.
LEMMA ScheduleSubmits ==
  ASSUME HashInv, NEW t \in Tasks, NEW o \in Objects, Owner[o] = t,
         pc[t] = "idle", Schedule(t, o)
  PROVE  /\ ~ctx[o].workScheduled
         /\ ctx[o].channel \in ChannelsOf[t]
         /\ Submit(t, ctx[o].channel)
         /\ \A term \in BOOLEAN, from, size \in Nat :
              Packet(t, o, term, from, size) =
                [init |-> ~ctx[o].isStarted, term |-> term, from |-> from, size |-> size]
<1>1. ~ctx[o].workScheduled
  BY DEF HashInv, CallShape, OwnWork
<1> QED
  BY <1>1 DEF Schedule, Submit, Enter, Packet

\* Every step of Hash is one of the driver, or none.
LEMMA NextFollows == HashInv /\ [HNext]_vars => [Next]_dcpVars
<1> SUFFICES ASSUME HashInv, HNext PROVE Next \/ UNCHANGED dcpVars
  BY DEF vars
<1>1. CASE HashDcpInit \/ HashDcpDeinit
  BY <1>1 DEF HashDcpInit, HashDcpDeinit, Next
<1>2. ASSUME NEW t \in Tasks, NEW o \in Objects, FinalizeBegin(t, o)
      PROVE  Next
  <2>1. ctx[o].channel \in ChannelsOf[t] /\ Submit(t, ctx[o].channel)
    BY <1>2, ScheduleSubmits DEF FinalizeBegin, Usable, Idle
  <2> QED
    BY <2>1 DEF Next
<1>3. ASSUME NEW t \in Tasks, FillBlock(t) \/ Bulk(t)
      PROVE  Next
  <2>1. call[t].obj \in Objects /\ Owner[call[t].obj] = t /\ pc[t] = "idle"
        /\ Schedule(t, call[t].obj)
    BY <1>3 DEF FillBlock, Bulk, HashInv, HTypeOK, CallShape, Jobs
  <2>2. \E c \in ChannelsOf[t] : Submit(t, c)
    BY <2>1, ScheduleSubmits
  <2> QED
    BY <2>2 DEF Next
<1>4. ASSUME NEW t \in Tasks,
             BlockDone(t) \/ BulkDone(t) \/ UpdateFail(t) \/ FinalizeDone(t) \/ FinalizeFail(t)
      PROVE  Next
  BY <1>4 DEF BlockDone, BulkDone, UpdateFail, FinalizeDone, FinalizeFail, Next
<1>5. ASSUME NEW t \in Tasks, Drive(t) PROVE Next
  BY <1>5 DEF Drive, Next, TaskStep
<1>6. ASSUME NEW c \in Channels, HashHwStep(c) PROVE Next
  BY <1>6 DEF HashHwStep, HashHwDone, HashHwError, Next, HwStep
<1>7. ASSUME NEW t \in Tasks, FillPartial(t) \/ FillNothing(t) \/ Tail(t)
      PROVE  UNCHANGED dcpVars
  BY <1>7 DEF FillPartial, FillNothing, Tail
<1>8. ASSUME NEW t \in Tasks, NEW o \in Objects,
             \/ \E c \in ChannelsOf[t] : HashInit(t, o, c) \/ SetChannel(t, o, c)
             \/ \E n \in 1 .. MaxChunk : UpdateBegin(t, o, n)
             \/ FinalizeNothing(t, o) \/ FinalizeEmpty(t, o) \/ FinalizeCrc(t, o)
      PROVE  UNCHANGED dcpVars
  BY <1>8 DEF HashInit, SetChannel, UpdateBegin, FinalizeNothing, FinalizeEmpty, FinalizeCrc
<1> QED
  BY <1>1, <1>2, <1>3, <1>4, <1>5, <1>6, <1>7, <1>8 DEF HNext, CallStep

\* The sets that HTypeOK is made of.
Contexts   == [channel: Channels, runningHash: HashValues, isStarted: BOOLEAN, blockFrom: Nat,
               currBlockSize: 0 .. BlockSize, totalSize: 0 .. SizeMod - 1,
               workScheduled: BOOLEAN]
CallStates == [phase: {"none", "fill", "block", "bulk", "bulkJob", "final"},
               obj: Objects, pIn: Nat, rem: Nat,
               workPacket: [init: BOOLEAN, term: BOOLEAN, from: Nat, size: Nat]]

HistoryOK ==
  /\ open \in [Objects -> BOOLEAN]
  /\ session \in [Objects -> {0, 1}]
  /\ sent \in [Objects -> 0 .. MaxMessage]
  /\ out \in [Objects -> HashValues \cup {NoOutput}]

LEMMA HTypes ==
  HTypeOK <=> /\ TypeOK
              /\ ctx \in [Objects -> Contexts]
              /\ context \in [Channels -> HashValues]
              /\ call \in [Tasks -> CallStates]
              /\ HistoryOK
BY DEF HTypeOK, Contexts, CallStates, HistoryOK

LEMMA InitialTypes == NoCall \in CallStates /\ Cleared \in Contexts
<1>1. NoPacket \in [init: BOOLEAN, term: BOOLEAN, from: Nat, size: Nat]
  BY DEF NoPacket
<1>2. 0 \in 0 .. BlockSize /\ 0 \in 0 .. SizeMod - 1
  BY HashAssumption
<1> QED
  BY <1>1, <1>2, NoCallType, HashAssumption DEF CallStates, Contexts, Cleared, HashValues

\* A context, a call and a packet, field by field.
LEMMA ContextFields ==
  ASSUME NEW x \in Contexts
  PROVE  /\ x.channel \in Channels /\ x.runningHash \in HashValues
         /\ x.isStarted \in BOOLEAN /\ x.workScheduled \in BOOLEAN
         /\ x.blockFrom \in Nat /\ x.currBlockSize \in Nat /\ x.currBlockSize <= BlockSize
         /\ x.totalSize \in Nat /\ BlockSize \in Nat
BY HashAssumption DEF Contexts

LEMMA CallFields ==
  ASSUME NEW k \in CallStates
  PROVE  k.obj \in Objects /\ k.pIn \in Nat /\ k.rem \in Nat
         /\ k.workPacket \in [init: BOOLEAN, term: BOOLEAN, from: Nat, size: Nat]
BY DEF CallStates

LEMMA PacketType ==
  ASSUME NEW x \in Contexts, NEW from \in Nat, NEW size \in Nat, NEW term \in BOOLEAN
  PROVE  [init |-> ~x.isStarted, term |-> term, from |-> from, size |-> size]
           \in [init: BOOLEAN, term: BOOLEAN, from: Nat, size: Nat]
<1>1. x.isStarted \in BOOLEAN
  BY ContextFields
<1>2. CASE x.isStarted = TRUE
  BY <1>2
<1>3. CASE x.isStarted = FALSE
  BY <1>3
<1> QED
  BY <1>1, <1>2, <1>3

LEMMA ContextChanges ==
  ASSUME NEW x \in Contexts
  PROVE  /\ \A v \in 0 .. SizeMod - 1 :
              [x EXCEPT !.workScheduled = FALSE, !.isStarted = TRUE, !.totalSize = v] \in Contexts
         /\ \A v \in 0 .. SizeMod - 1, n \in 0 .. BlockSize :
              [x EXCEPT !.currBlockSize = n, !.totalSize = v] \in Contexts
         /\ \A n \in 0 .. BlockSize :
              [x EXCEPT !.workScheduled = FALSE, !.isStarted = TRUE, !.currBlockSize = n]
                \in Contexts
BY DEF Contexts

LEMMA CallChanges ==
  ASSUME NEW k \in CallStates, NEW m \in Nat, NEW n \in Nat,
         NEW w \in [init: BOOLEAN, term: BOOLEAN, from: Nat, size: Nat],
         NEW phase \in {"none", "fill", "block", "bulk", "bulkJob", "final"}
  PROVE  /\ [k EXCEPT !.phase = phase] \in CallStates
         /\ [k EXCEPT !.phase = phase, !.workPacket = w] \in CallStates
         /\ [k EXCEPT !.phase = phase, !.pIn = m, !.rem = n] \in CallStates
         /\ [k EXCEPT !.phase = phase, !.pIn = m, !.rem = n, !.workPacket = w] \in CallStates
BY DEF CallStates

\* A step that touches one object and the call of its task keeps HashInv if it
\* does for them.
LEMMA LocalStep ==
  ASSUME HashInv, Owned', NEW t \in Tasks, NEW o \in Objects, Owner[o] = t,
         call[t].phase = "none" \/ call[t].obj = o,
         ctx' \in [Objects -> Contexts],
         context' \in [Channels -> HashValues],
         call' \in [Tasks -> CallStates],
         HistoryOK',
         \A p \in Objects \ {o} : ctx'[p] = ctx[p] /\ open'[p] = open[p] /\ sent'[p] = sent[p],
         \A u \in Tasks \ {t} : call'[u] = call[u] /\ pc'[u] = pc[u] /\ chan'[u] = chan[u],
         CallShape(t)', OwnWork(o)'
  PROVE  HashInv'
<1>1. call \in [Tasks -> CallStates] /\ ctx \in [Objects -> Contexts]
  BY HTypes DEF HashInv
<1>2. HTypeOK'
  BY HTypes DEF Owned, HTypeOK, Contexts, CallStates, HistoryOK
<1>3. ASSUME NEW u \in Tasks PROVE CallShape(u)'
  <2>1. CASE u = t
    BY <2>1
  <2>2. CASE u # t
    <3>1. CallShape(u) /\ call[u].obj \in Objects
      BY <1>1 DEF HashInv, CallStates
    <3>2. call[u].phase # "none" => call[u].obj # o
      BY <2>2, <3>1 DEF CallShape
    <3> QED
      BY <2>2, <3>1, <3>2 DEF CallShape, Jobs, Updates
  <2> QED
    BY <2>1, <2>2
<1>4. ASSUME NEW p \in Objects PROVE OwnWork(p)'
  <2>1. CASE p = o
    BY <2>1
  <2>2. CASE p # o /\ Owner[p] # t
    <3>1. Owner[p] \in Tasks /\ OwnWork(p)
      BY HashAssumption DEF HashInv
    <3> QED
      BY <2>2, <3>1 DEF OwnWork
  <2>3. CASE p # o /\ Owner[p] = t
    BY <2>3 DEF OwnWork, HashInv, Jobs
  <2> QED
    BY <2>1, <2>2, <2>3
<1> QED
  BY <1>2, <1>3, <1>4 DEF HashInv

\* What HashInv says of a task in a call.
LEMMA InCallFacts ==
  ASSUME HashInv, NEW t \in Tasks
  PROVE  /\ call[t] \in CallStates /\ call[t].obj \in Objects
         /\ ctx[call[t].obj] \in Contexts
         /\ CallShape(t)
         /\ call[t].pIn \in Nat /\ call[t].rem \in Nat /\ BulkSize(t) \in 0 .. call[t].rem
         /\ call[t].rem - BulkSize(t) < BlockSize
         /\ \A p \in Objects : sent[p] \in 0 .. MaxMessage
<1>1. call \in [Tasks -> CallStates] /\ ctx \in [Objects -> Contexts]
  BY HTypes DEF HashInv
<1>2. call[t].obj \in Objects /\ call[t].pIn \in Nat /\ call[t].rem \in Nat
  BY <1>1 DEF CallStates
<1>3. BulkSize(t) \in 0 .. call[t].rem /\ call[t].rem - BulkSize(t) < BlockSize
  BY <1>2, WholeBlocks DEF BulkSize
<1> QED
  BY <1>1, <1>2, <1>3 DEF HashInv, HTypeOK

LEMMA NoWork ==
  ASSUME HashInv, NEW o \in Objects, call[Owner[o]].phase \notin Jobs \/ call[Owner[o]].obj # o
  PROVE  ~ctx[o].workScheduled
BY DEF HashInv, OwnWork

\* A call that begins, and one that has ended.
LEMMA CallBegins ==
  ASSUME NEW o \in Objects
  PROVE  /\ \A m, n \in Nat :
              [NoCall EXCEPT !.phase = "fill", !.obj = o, !.pIn = m, !.rem = n] \in CallStates
         /\ \A w \in [init: BOOLEAN, term: BOOLEAN, from: Nat, size: Nat] :
              [NoCall EXCEPT !.phase = "final", !.obj = o, !.workPacket = w] \in CallStates
BY InitialTypes DEF CallStates

LEMMA BetweenCalls ==
  ASSUME NEW t \in Tasks, pc'[t] = "idle", call'[t] = NoCall
  PROVE  CallShape(t)'
<1>1. NoCall.phase = "none"
  BY NoCallType
<1> QED
  BY <1>1 DEF CallShape, Jobs, Updates

LEMMA BeginKeeps ==
  ASSUME HashInv, Owned', NEW t \in Tasks, NEW o \in Objects, NEW n \in 1 .. MaxChunk,
         UpdateBegin(t, o, n)
  PROVE  HashInv'
<1>1. ctx \in [Objects -> Contexts] /\ context \in [Channels -> HashValues]
      /\ call \in [Tasks -> CallStates] /\ HistoryOK /\ HistoryOK'
  BY HTypes DEF HashInv, UpdateBegin, HistoryOK
<1>2. sent[o] \in Nat /\ n \in Nat /\ n > 0 /\ sent[o] + n <= MaxMessage
  BY <1>1, HashAssumption DEF HistoryOK, UpdateBegin
<1> DEFINE k == [NoCall EXCEPT !.phase = "fill", !.obj = o, !.pIn = sent[o], !.rem = n]
<1>3. k \in CallStates
  BY <1>2, CallBegins
<1>4. call' = [call EXCEPT ![t] = k] /\ UNCHANGED <<dcpVars, ctx, open, session, sent, out>>
  BY DEF UpdateBegin
<1>5. call' \in [Tasks -> CallStates] /\ call'[t] = k
  BY <1>1, <1>3, <1>4
<1>6. k.phase = "fill" /\ k.obj = o /\ k.pIn = sent[o] /\ k.rem = n
  BY NoCallType
<1>7. context' \in [Channels -> HashValues]
  <2>1. ctx[o].runningHash \in HashValues
    BY <1>1 DEF Contexts
  <2> QED
    BY <1>1, <2>1 DEF UpdateBegin, Restored
<1>8. CallShape(t)'
  BY <1>2, <1>4, <1>5, <1>6 DEF UpdateBegin, Usable, Idle, CallShape, Jobs, Updates, dcpVars
<1>9. OwnWork(o)'
  BY <1>4, NoWork DEF UpdateBegin, Usable, Idle, OwnWork, Jobs
<1> QED
  <2>1. Owner[o] = t /\ call[t].phase = "none"
    BY DEF UpdateBegin, Usable, Idle
  <2> HIDE DEF k
  <2> QED
    BY <1>1, <1>4, <1>5, <1>7, <1>8, <1>9, <2>1, LocalStep DEF dcpVars

LEMMA FillKeeps ==
  ASSUME HashInv, Owned', NEW t \in Tasks, NEW o \in Objects, call[t].obj = o,
         FillPartial(t) \/ FillNothing(t)
  PROVE  HashInv'
<1>1. ctx \in [Objects -> Contexts] /\ context \in [Channels -> HashValues]
      /\ call \in [Tasks -> CallStates] /\ HistoryOK
  BY HTypes DEF HashInv
<1>2. CallShape(t) /\ call[t].phase = "fill" /\ Owner[o] = t
      /\ call[t].rem \in Nat /\ call[t].pIn = sent[o] /\ sent[o] \in 0 .. MaxMessage
      /\ sent[o] + call[t].rem <= MaxMessage /\ MaxMessage \in Nat
  BY InCallFacts, HashAssumption DEF FillPartial, FillNothing, CallShape, Updates
<1>3. CASE FillNothing(t)
  <2>1. call' = [call EXCEPT ![t].phase = "bulk"]
        /\ UNCHANGED <<dcpVars, ctx, context, open, session, sent, out>>
    BY <1>3 DEF FillNothing
  <2>2. call' \in [Tasks -> CallStates] /\ call'[t] = [call[t] EXCEPT !.phase = "bulk"]
    BY <1>1, <2>1 DEF CallStates
  <2>3. CallShape(t)'
    BY <1>2, <2>1, <2>2 DEF CallShape, Jobs, Updates, dcpVars
  <2>4. OwnWork(o)'
    BY <1>2, <2>1, NoWork DEF OwnWork, Jobs
  <2> QED
    BY <1>1, <1>2, <2>1, <2>2, <2>3, <2>4, LocalStep DEF dcpVars, HistoryOK
<1>4. CASE FillPartial(t)
  <2> DEFINE x == [ctx[o] EXCEPT !.currBlockSize = @ + call[t].rem,
                                 !.totalSize = Sum(@, call[t].rem)]
  <2>1. ctx' = [ctx EXCEPT ![o] = x] /\ call' = [call EXCEPT ![t] = NoCall]
        /\ sent' = [sent EXCEPT ![o] = @ + call[t].rem]
        /\ UNCHANGED <<dcpVars, context, open, session, out>>
    BY <1>4 DEF FillPartial
  <2>2. ctx[o] \in Contexts /\ ctx[o].currBlockSize + call[t].rem \in 0 .. BlockSize
        /\ Sum(ctx[o].totalSize, call[t].rem) \in 0 .. SizeMod - 1
    BY <1>1, <1>2, <1>4, SumType, HashAssumption DEF FillPartial, Contexts
  <2>3. x \in Contexts /\ x.workScheduled = ctx[o].workScheduled
    BY <2>2 DEF Contexts
  <2> HIDE DEF x
  <2>4. ctx' \in [Objects -> Contexts] /\ ctx'[o] = x
    BY <1>1, <2>1, <2>3
  <2>5. call' \in [Tasks -> CallStates] /\ call'[t] = NoCall
    BY <1>1, <2>1, InitialTypes
  <2>6. HistoryOK'
    BY <1>1, <1>2, <2>1 DEF HistoryOK
  <2>7. CallShape(t)'
    BY <1>2, <2>1, <2>5, BetweenCalls DEF CallShape, Jobs, dcpVars
  <2>8. OwnWork(o)'
    <3>1. ~ctx[o].workScheduled
      BY <1>2, NoWork DEF Jobs
    <3> QED
      BY <2>3, <2>4, <3>1 DEF OwnWork
  <2> QED
    BY <1>1, <1>2, <2>1, <2>4, <2>5, <2>6, <2>7, <2>8, LocalStep DEF dcpVars, HistoryOK
<1> QED
  BY <1>3, <1>4

\* What the driver's variables do when a call enters and leaves it.
LEMMA Entered ==
  ASSUME TypeOK, NEW t \in Tasks, NEW c \in Channels, Submit(t, c)
  PROVE  /\ pc'[t] = "check" /\ chan'[t] = c /\ outcome'[t] = "none"
         /\ \A u \in Tasks \ {t} : /\ pc'[u] = pc[u] /\ chan'[u] = chan[u]
                                   /\ outcome'[u] = outcome[u]
BY DEF Submit, Enter, TypeOK

LEMMA Left ==
  ASSUME TypeOK, NEW t \in Tasks, Retire(t)
  PROVE  /\ pc'[t] = "idle" /\ chan' = chan
         /\ \A u \in Tasks \ {t} : pc'[u] = pc[u] /\ outcome'[u] = outcome[u]
BY DEF Retire, TypeOK

LEMMA ChannelType == ASSUME HashInv, NEW o \in Objects PROVE ctx[o].channel \in Channels
<1>1. ctx \in [Objects -> Contexts]
  BY HTypes DEF HashInv
<1> QED
  BY <1>1 DEF Contexts

LEMMA FillBlockKeeps ==
  ASSUME HashInv, Owned', NEW t \in Tasks, NEW o \in Objects, call[t].obj = o, FillBlock(t)
  PROVE  HashInv'
<1>1. ctx \in [Objects -> Contexts] /\ context \in [Channels -> HashValues]
      /\ call \in [Tasks -> CallStates] /\ HistoryOK /\ TypeOK
  BY HTypes DEF HashInv, HTypeOK
<1>0. ctx[o] \in Contexts /\ call[t] \in CallStates
  BY <1>1
<1>2. CallShape(t) /\ call[t].phase = "fill" /\ Owner[o] = t /\ pc[t] = "idle"
      /\ call[t].rem \in Nat /\ call[t].pIn \in Nat
      /\ sent[o] \in Nat /\ sent[o] < call[t].pIn + call[t].rem
      /\ call[t].pIn + call[t].rem <= MaxMessage /\ open[o]
  BY InCallFacts, HashAssumption DEF FillBlock, CallShape, Updates, Jobs
<1> DEFINE take == BlockSize - ctx[o].currBlockSize
           x == [ctx[o] EXCEPT !.currBlockSize = BlockSize, !.totalSize = Sum(@, take)]
           p == Packet(t, o, FALSE, ctx[o].blockFrom, BlockSize)
           k == [call[t] EXCEPT !.phase = "block", !.pIn = @ + take, !.rem = @ - take,
                                !.workPacket = p]
<1>3. /\ ctx' = [ctx EXCEPT ![o] = x] /\ call' = [call EXCEPT ![t] = k]
      /\ Schedule(t, o) /\ UNCHANGED <<context, open, session, sent, out>>
      /\ take <= call[t].rem
  BY DEF FillBlock
<1>4. Submit(t, ctx[o].channel) /\ ~ctx[o].workScheduled
  BY <1>2, ScheduleSubmits DEF FillBlock
<1>5. p = [init |-> ~ctx[o].isStarted, term |-> FALSE, from |-> ctx[o].blockFrom,
           size |-> BlockSize]
  BY <1>4 DEF Packet
<1>6. take \in Nat /\ BlockSize \in Nat /\ BlockSize \in 0 .. BlockSize /\ ctx[o].blockFrom \in Nat
  BY <1>0, ContextFields
<1>7. x \in Contexts /\ x.workScheduled = ctx[o].workScheduled /\ x.channel = ctx[o].channel
  <2> HIDE DEF take
  <2>1. Sum(ctx[o].totalSize, take) \in 0 .. SizeMod - 1
    BY <1>0, <1>6, ContextFields, SumType
  <2>2. x \in Contexts
    BY <1>0, <1>6, <2>1, ContextChanges
  <2>3. x.workScheduled = ctx[o].workScheduled /\ x.channel = ctx[o].channel
    BY <1>0 DEF Contexts
  <2> QED
    BY <2>2, <2>3
<1>8. k \in CallStates /\ k.phase = "block" /\ k.obj = o /\ k.pIn + k.rem = call[t].pIn + call[t].rem
  <2>1. p \in [init: BOOLEAN, term: BOOLEAN, from: Nat, size: Nat]
    <3> HIDE DEF p
    <3>1. FALSE \in BOOLEAN
      OBVIOUS
    <3> QED
      BY <1>0, <1>5, <1>6, <3>1, PacketType, Zenon
  <2>2. take <= call[t].rem
    BY DEF FillBlock
  <2> HIDE DEF take, p
  <2>3. call[t].pIn + take \in Nat /\ call[t].rem - take \in Nat
        /\ (call[t].pIn + take) + (call[t].rem - take) = call[t].pIn + call[t].rem
    BY <1>2, <1>6, <2>2
  <2>4. k \in CallStates
    BY <1>0, <2>1, <2>3, CallChanges
  <2> QED
    BY <1>0, <2>3, <2>4 DEF CallStates
<1> HIDE DEF k, take, x, p
<1>9. ctx' \in [Objects -> Contexts] /\ ctx'[o] = x /\ call' \in [Tasks -> CallStates] /\ call'[t] = k
  BY <1>1, <1>3, <1>7, <1>8
<1>10. CallShape(t)'
  BY <1>1, <1>2, <1>3, <1>4, <1>7, <1>8, <1>9, Entered, ChannelType DEF CallShape, Jobs, Updates
<1>11. OwnWork(o)'
  BY <1>4, <1>7, <1>9 DEF OwnWork
<1>12. \A u \in Tasks \ {t} : pc'[u] = pc[u] /\ chan'[u] = chan[u]
  BY <1>1, <1>4, Entered, ChannelType
<1> QED
  BY <1>1, <1>2, <1>3, <1>9, <1>10, <1>11, <1>12, LocalStep DEF HistoryOK

LEMMA BulkKeeps ==
  ASSUME HashInv, Owned', NEW t \in Tasks, NEW o \in Objects, call[t].obj = o, Bulk(t)
  PROVE  HashInv'
<1>1. ctx \in [Objects -> Contexts] /\ context \in [Channels -> HashValues]
      /\ call \in [Tasks -> CallStates] /\ HistoryOK /\ TypeOK
  BY HTypes DEF HashInv, HTypeOK
<1>2. CallShape(t) /\ call[t].phase = "bulk" /\ Owner[o] = t /\ pc[t] = "idle"
      /\ call[t].pIn \in Nat /\ BulkSize(t) \in Nat
  BY InCallFacts DEF Bulk, CallShape, Updates, Jobs
<1> DEFINE p == Packet(t, o, FALSE, call[t].pIn, BulkSize(t))
           k == [call[t] EXCEPT !.phase = "bulkJob", !.workPacket = p]
<1>3. /\ call' = [call EXCEPT ![t] = k]
      /\ Schedule(t, o) /\ UNCHANGED <<ctx, context, open, session, sent, out>>
  BY DEF Bulk
<1>4. Submit(t, ctx[o].channel) /\ ~ctx[o].workScheduled
      /\ p = [init |-> ~ctx[o].isStarted, term |-> FALSE, from |-> call[t].pIn,
              size |-> BulkSize(t)]
  <2>1. Schedule(t, o)
    BY DEF Bulk
  <2> QED
    BY <1>2, <2>1, ScheduleSubmits
<1>5. p \in [init: BOOLEAN, term: BOOLEAN, from: Nat, size: Nat]
  <2>1. ctx[o] \in Contexts
    BY <1>1
  <2> QED
    <3> HIDE DEF p
    <3>1. FALSE \in BOOLEAN
      OBVIOUS
    <3> QED
      BY <1>2, <1>4, <2>1, <3>1, PacketType, Zenon
<1> HIDE DEF p
<1>6. k \in CallStates /\ k.phase = "bulkJob" /\ k.obj = o
      /\ k.pIn = call[t].pIn /\ k.rem = call[t].rem
  <2>1. call[t] \in CallStates
    BY <1>1
  <2> QED
    BY <1>5, <2>1 DEF CallStates
<1> HIDE DEF k
<1>7. call' \in [Tasks -> CallStates] /\ call'[t] = k
  BY <1>1, <1>3, <1>6
<1>8. CallShape(t)'
  BY <1>1, <1>2, <1>3, <1>4, <1>6, <1>7, Entered, ChannelType DEF CallShape, Jobs, Updates
<1>9. OwnWork(o)'
  BY <1>3, <1>4 DEF OwnWork
<1>10. \A u \in Tasks \ {t} : pc'[u] = pc[u] /\ chan'[u] = chan[u]
  BY <1>1, <1>4, Entered, ChannelType
<1> QED
  BY <1>1, <1>2, <1>3, <1>7, <1>8, <1>9, <1>10, LocalStep DEF HistoryOK

LEMMA JobDoneKeeps ==
  ASSUME HashInv, Owned', NEW t \in Tasks, NEW o \in Objects, call[t].obj = o,
         BlockDone(t) \/ BulkDone(t)
  PROVE  HashInv'
<1>1. ctx \in [Objects -> Contexts] /\ context \in [Channels -> HashValues]
      /\ call \in [Tasks -> CallStates] /\ HistoryOK /\ TypeOK
  BY HTypes DEF HashInv, HTypeOK
<1>0. ctx[o] \in Contexts /\ call[t] \in CallStates
  BY <1>1
<1>2. CallShape(t) /\ Owner[o] = t /\ open[o] /\ Retire(t)
      /\ call[t].rem \in Nat /\ call[t].pIn \in Nat /\ BulkSize(t) \in 0 .. call[t].rem
      /\ sent[o] \in Nat /\ sent[o] < call[t].pIn + call[t].rem
      /\ call[t].pIn + call[t].rem <= MaxMessage
      /\ UNCHANGED <<context, open, session, sent, out>>
  BY InCallFacts, HashAssumption DEF BlockDone, BulkDone, CallShape, Updates, Jobs
<1>3. ASSUME NEW x \in Contexts, ~x.workScheduled,
             NEW k \in CallStates, k.phase = "bulk", k.obj = o,
             k.pIn + k.rem = call[t].pIn + call[t].rem,
             ctx' = [ctx EXCEPT ![o] = x], call' = [call EXCEPT ![t] = k]
      PROVE  HashInv'
  <2>1. ctx' \in [Objects -> Contexts] /\ ctx'[o] = x
        /\ call' \in [Tasks -> CallStates] /\ call'[t] = k
    BY <1>1, <1>3
  <2>2. CallShape(t)'
    BY <1>1, <1>2, <1>3, <2>1, Left DEF CallShape, Jobs, Updates
  <2>3. OwnWork(o)'
    BY <1>3, <2>1 DEF OwnWork
  <2> QED
    BY <1>1, <1>2, <1>3, <2>1, <2>2, <2>3, Left, LocalStep DEF HistoryOK
<1>4. CASE BlockDone(t)
  <2> DEFINE x == [ctx[o] EXCEPT !.workScheduled = FALSE, !.isStarted = TRUE, !.currBlockSize = 0]
             k == [call[t] EXCEPT !.phase = "bulk"]
  <2>1. ctx' = [ctx EXCEPT ![o] = x] /\ call' = [call EXCEPT ![t] = k]
    BY <1>4 DEF BlockDone
  <2>2. x \in Contexts /\ ~x.workScheduled
    <3>1. 0 \in 0 .. BlockSize
      BY HashAssumption
    <3>2. x \in Contexts
      BY <1>0, <3>1, ContextChanges
    <3>3. ~x.workScheduled
      BY <1>0 DEF Contexts
    <3> QED
      BY <3>2, <3>3
  <2>3. k \in CallStates /\ k.phase = "bulk" /\ k.obj = o /\ k.pIn + k.rem = call[t].pIn + call[t].rem
    BY <1>0 DEF CallStates
  <2> QED
    BY <1>3, <2>1, <2>2, <2>3
<1>5. CASE BulkDone(t)
  <2> DEFINE x == [ctx[o] EXCEPT !.workScheduled = FALSE, !.isStarted = TRUE,
                                 !.totalSize = Sum(@, BulkSize(t))]
             k == [call[t] EXCEPT !.phase = "bulk", !.pIn = @ + BulkSize(t),
                                  !.rem = @ - BulkSize(t)]
  <2>1. ctx' = [ctx EXCEPT ![o] = x] /\ call' = [call EXCEPT ![t] = k]
    BY <1>5 DEF BulkDone
  <2>3. x \in Contexts /\ ~x.workScheduled
    <3>1. Sum(ctx[o].totalSize, BulkSize(t)) \in 0 .. SizeMod - 1
      <4>1. BulkSize(t) \in Nat /\ ctx[o].totalSize \in Nat
        BY <1>0, <1>2, ContextFields
      <4> QED
        BY <4>1, SumType
    <3>2. x \in Contexts
      BY <1>0, <3>1, ContextChanges
    <3>3. ~x.workScheduled
      BY <1>0 DEF Contexts
    <3> QED
      BY <3>2, <3>3
  <2>4. k \in CallStates /\ k.phase = "bulk" /\ k.obj = o /\ k.pIn + k.rem = call[t].pIn + call[t].rem
    <3>1. call[t].pIn + BulkSize(t) \in Nat /\ call[t].rem - BulkSize(t) \in Nat
          /\ (call[t].pIn + BulkSize(t)) + (call[t].rem - BulkSize(t)) = call[t].pIn + call[t].rem
      BY <1>2
    <3> QED
      BY <1>0, <3>1 DEF CallStates
  <2> QED
    BY <1>3, <2>1, <2>3, <2>4
<1> QED
  BY <1>4, <1>5

\* A step after which the task is in no call and the object has no work scheduled.
LEMMA IdleStep ==
  ASSUME HashInv, Owned', NEW t \in Tasks, NEW o \in Objects, Owner[o] = t,
         call[t].phase = "none" \/ call[t].obj = o,
         NEW x \in Contexts, ~x.workScheduled, ctx' = [ctx EXCEPT ![o] = x],
         context' \in [Channels -> HashValues],
         call' \in [Tasks -> CallStates], call'[t].phase = "none", pc'[t] = "idle",
         HistoryOK',
         \A p \in Objects \ {o} : open'[p] = open[p] /\ sent'[p] = sent[p],
         \A u \in Tasks \ {t} : call'[u] = call[u] /\ pc'[u] = pc[u] /\ chan'[u] = chan[u]
  PROVE  HashInv'
<1>1. ctx \in [Objects -> Contexts]
  BY HTypes DEF HashInv
<1>2. ctx' \in [Objects -> Contexts] /\ ctx'[o] = x
      /\ \A p \in Objects \ {o} : ctx'[p] = ctx[p]
  BY <1>1
<1>3. CallShape(t)'
  BY DEF CallShape, Jobs, Updates
<1>4. OwnWork(o)'
  BY <1>2 DEF OwnWork
<1> QED
  BY <1>2, <1>3, <1>4, LocalStep

LEMMA ClearedFields == Cleared \in Contexts /\ ~Cleared.workScheduled
BY InitialTypes DEF Cleared

LEMMA TailKeeps ==
  ASSUME HashInv, Owned', NEW t \in Tasks, NEW o \in Objects, call[t].obj = o, Tail(t)
  PROVE  HashInv'
<1>1. ctx \in [Objects -> Contexts] /\ context \in [Channels -> HashValues]
      /\ call \in [Tasks -> CallStates] /\ HistoryOK /\ TypeOK
  BY HTypes DEF HashInv, HTypeOK
<1>2. CallShape(t) /\ Owner[o] = t /\ pc[t] = "idle" /\ call[t].phase = "bulk"
      /\ call[t].pIn \in Nat /\ call[t].rem \in Nat
      /\ call[t].pIn + call[t].rem <= MaxMessage /\ call[t].rem < BlockSize
  BY InCallFacts, HashAssumption DEF Tail, CallShape, Updates, Jobs
<1> DEFINE x == [ctx[o] EXCEPT !.blockFrom = call[t].pIn, !.currBlockSize = call[t].rem,
                               !.totalSize = Sum(@, call[t].rem),
                               !.runningHash = context[ctx[o].channel]]
<1>3. ctx' = [ctx EXCEPT ![o] = x]
  BY DEF Tail
<1>4. x \in Contexts /\ ~x.workScheduled
  <2>1. ctx[o] \in Contexts /\ call[t].rem \in 0 .. BlockSize
    BY <1>1, <1>2, HashAssumption
  <2>2. ctx[o].totalSize \in Nat /\ context[ctx[o].channel] \in HashValues
    BY <1>1, <2>1, ContextFields
  <2>3. Sum(ctx[o].totalSize, call[t].rem) \in 0 .. SizeMod - 1
    BY <1>2, <2>2, SumType
  <2>4. x \in Contexts
    BY <1>2, <2>1, <2>2, <2>3 DEF Contexts
  <2>5. ~ctx[o].workScheduled
    BY <1>2, NoWork DEF Jobs
  <2> QED
    BY <2>1, <2>4, <2>5 DEF Contexts
<1>5. HistoryOK' /\ \A p \in Objects \ {o} : open'[p] = open[p] /\ sent'[p] = sent[p]
  <2>1. call[t].pIn + call[t].rem \in 0 .. MaxMessage
    BY <1>2, HashAssumption
  <2> QED
    BY <1>1, <2>1 DEF Tail, HistoryOK
<1>6. call' \in [Tasks -> CallStates] /\ call'[t].phase = "none"
      /\ \A u \in Tasks \ {t} : call'[u] = call[u]
  BY <1>1, NoCallType, InitialTypes DEF Tail
<1>7. UNCHANGED <<pc, chan, context>>
  BY DEF Tail, dcpVars
<1> HIDE DEF x
<1> QED
  BY <1>1, <1>2, <1>3, <1>4, <1>5, <1>6, <1>7, IdleStep

\* The calculation ends, with a call that had a job or without one.
LEMMA EndKeeps ==
  ASSUME HashInv, Owned', NEW t \in Tasks, NEW o \in Objects,
         \/ /\ call[t].obj = o
            /\ UpdateFail(t) \/ FinalizeDone(t) \/ FinalizeFail(t)
         \/ FinalizeNothing(t, o) \/ FinalizeEmpty(t, o) \/ FinalizeCrc(t, o)
  PROVE  HashInv'
<1>1. ctx \in [Objects -> Contexts] /\ context \in [Channels -> HashValues]
      /\ call \in [Tasks -> CallStates] /\ HistoryOK /\ TypeOK /\ ctx[o] \in Contexts
  BY HTypes DEF HashInv, HTypeOK
<1>2. ctx' = [ctx EXCEPT ![o] = Cleared] /\ open' = [open EXCEPT ![o] = FALSE]
      /\ UNCHANGED <<session, sent>>
  BY DEF UpdateFail, FinalizeDone, FinalizeFail, FinalizeNothing, FinalizeEmpty, FinalizeCrc,
         EndCalculation
<1>3. context' \in [Channels -> HashValues]
  BY <1>1, ContextFields
  DEF UpdateFail, FinalizeDone, FinalizeFail, FinalizeNothing, FinalizeEmpty, FinalizeCrc, Restored
<1>4. HistoryOK'
  <2>1. out' \in [Objects -> HashValues \cup {NoOutput}]
    <3>1. ctx[o].runningHash \in HashValues /\ Digest(o, 0) \in HashValues
      BY <1>1, ContextFields, RunningType DEF HashInv
    <3> QED
      BY <1>1, <3>1
      DEF UpdateFail, FinalizeDone, FinalizeFail, FinalizeNothing, FinalizeEmpty, FinalizeCrc,
          HistoryOK
  <2> QED
    BY <1>1, <1>2, <2>1 DEF HistoryOK
<1>5. \A p \in Objects \ {o} : open'[p] = open[p] /\ sent'[p] = sent[p]
  BY <1>1, <1>2 DEF HistoryOK
<1>6. CASE call[t].obj = o /\ (UpdateFail(t) \/ FinalizeDone(t) \/ FinalizeFail(t))
  <2>1. Owner[o] = t /\ Retire(t) /\ call' = [call EXCEPT ![t] = NoCall]
    BY <1>6, InCallFacts DEF UpdateFail, FinalizeDone, FinalizeFail, CallShape
  <2>2. call' \in [Tasks -> CallStates] /\ call'[t].phase = "none"
        /\ \A u \in Tasks \ {t} : call'[u] = call[u]
    BY <1>1, <2>1, NoCallType, InitialTypes
  <2>3. pc'[t] = "idle" /\ \A u \in Tasks \ {t} : pc'[u] = pc[u] /\ chan'[u] = chan[u]
    BY <1>1, <2>1, Left
  <2> QED
    BY <1>2, <1>3, <1>4, <1>5, <1>6, <2>1, <2>2, <2>3, ClearedFields, IdleStep
<1>7. CASE FinalizeNothing(t, o) \/ FinalizeEmpty(t, o) \/ FinalizeCrc(t, o)
  <2>1. Owner[o] = t /\ call[t].phase = "none" /\ pc[t] = "idle" /\ UNCHANGED <<pc, chan, call>>
    BY <1>7 DEF FinalizeNothing, FinalizeEmpty, FinalizeCrc, Usable, Idle, dcpVars
  <2> QED
    BY <1>1, <1>2, <1>3, <1>4, <1>5, <2>1, ClearedFields, IdleStep
<1> QED
  BY <1>6, <1>7

LEMMA SetUpKeeps ==
  ASSUME HashInv, Owned', NEW t \in Tasks, NEW o \in Objects, NEW c \in ChannelsOf[t],
         HashInit(t, o, c) \/ SetChannel(t, o, c)
  PROVE  HashInv'
<1>1. ctx \in [Objects -> Contexts] /\ context \in [Channels -> HashValues]
      /\ call \in [Tasks -> CallStates] /\ HistoryOK /\ ctx[o] \in Contexts /\ c \in Channels
  BY HTypes, DcpAssumption DEF HashInv
<1>2. Owner[o] = t /\ call[t].phase = "none" /\ pc[t] = "idle"
      /\ UNCHANGED <<pc, chan, call, context>>
  BY DEF HashInit, SetChannel, Usable, Idle, dcpVars
<1>3. CASE HashInit(t, o, c)
  <2> DEFINE x == [Cleared EXCEPT !.channel = c]
  <2>1. x \in Contexts /\ ~x.workScheduled
    BY <1>1, ClearedFields DEF Contexts
  <2>2. ctx' = [ctx EXCEPT ![o] = x]
    BY <1>3 DEF HashInit
  <2>3. HistoryOK' /\ \A p \in Objects \ {o} : open'[p] = open[p] /\ sent'[p] = sent[p]
    <3>1. 0 \in 0 .. MaxMessage
      BY HashAssumption
    <3> QED
      BY <1>1, <1>3, <3>1 DEF HashInit, HistoryOK
  <2> HIDE DEF x
  <2> QED
    BY <1>1, <1>2, <2>1, <2>2, <2>3, IdleStep
<1>4. CASE SetChannel(t, o, c)
  <2> DEFINE x == [ctx[o] EXCEPT !.channel = c]
  <2>1. x \in Contexts /\ ~x.workScheduled
    <3>1. ~ctx[o].workScheduled
      BY <1>2, NoWork DEF Jobs
    <3> QED
      BY <1>1, <3>1 DEF Contexts
  <2>2. ctx' = [ctx EXCEPT ![o] = x]
    BY <1>4 DEF SetChannel
  <2>3. HistoryOK' /\ UNCHANGED <<open, sent>>
    BY <1>1, <1>4 DEF SetChannel, HistoryOK
  <2> HIDE DEF x
  <2> QED
    BY <1>1, <1>2, <2>1, <2>2, <2>3, IdleStep
<1> QED
  BY <1>3, <1>4

LEMMA FinalizeBeginKeeps ==
  ASSUME HashInv, Owned', NEW t \in Tasks, NEW o \in Objects, FinalizeBegin(t, o)
  PROVE  HashInv'
<1>1. ctx \in [Objects -> Contexts] /\ context \in [Channels -> HashValues]
      /\ call \in [Tasks -> CallStates] /\ HistoryOK /\ TypeOK /\ ctx[o] \in Contexts
  BY HTypes DEF HashInv, HTypeOK
<1>2. Owner[o] = t /\ call[t].phase = "none" /\ pc[t] = "idle" /\ open[o]
  BY DEF FinalizeBegin, Usable, Idle
<1> DEFINE p == Packet(t, o, TRUE, ctx[o].blockFrom, ctx[o].currBlockSize)
           k == [NoCall EXCEPT !.phase = "final", !.obj = o, !.workPacket = p]
<1>3. call' = [call EXCEPT ![t] = k] /\ UNCHANGED <<ctx, open, session, sent, out>>
  BY DEF FinalizeBegin
<1>4. Submit(t, ctx[o].channel) /\ ~ctx[o].workScheduled
  BY <1>2, ScheduleSubmits DEF FinalizeBegin
<1>5. k \in CallStates
  <2>1. p = [init |-> ~ctx[o].isStarted, term |-> TRUE, from |-> ctx[o].blockFrom,
             size |-> ctx[o].currBlockSize]
    BY <1>4 DEF Packet
  <2>2. ctx[o].blockFrom \in Nat /\ ctx[o].currBlockSize \in Nat
    BY <1>1, ContextFields
  <2> HIDE DEF p
  <2>3. TRUE \in BOOLEAN
    OBVIOUS
  <2>4. p \in [init: BOOLEAN, term: BOOLEAN, from: Nat, size: Nat]
    BY <1>1, <2>1, <2>2, <2>3, PacketType, Zenon
  <2> QED
    BY <2>4, CallBegins
<1>6. k.phase = "final" /\ k.obj = o
  BY NoCallType
<1> HIDE DEF k
<1>7. call' \in [Tasks -> CallStates] /\ call'[t] = k /\ \A u \in Tasks \ {t} : call'[u] = call[u]
  BY <1>1, <1>3, <1>5
<1>8. context' \in [Channels -> HashValues]
  BY <1>1, ContextFields DEF FinalizeBegin, Restored
<1>9. pc'[t] = "check" /\ chan'[t] = ctx[o].channel
      /\ \A u \in Tasks \ {t} : pc'[u] = pc[u] /\ chan'[u] = chan[u]
  BY <1>1, <1>4, Entered, ChannelType
<1>10. CallShape(t)'
  BY <1>2, <1>3, <1>6, <1>7, <1>9 DEF CallShape, Jobs, Updates
<1>11. OwnWork(o)'
  BY <1>3, <1>4 DEF OwnWork
<1>12. HistoryOK'
  BY <1>1, <1>3 DEF HistoryOK
<1> QED
  BY <1>1, <1>2, <1>3, <1>7, <1>8, <1>9, <1>10, <1>11, <1>12, LocalStep

\* The driver's own steps: only the one that starts the job tells the object.
LEMMA DriveKeeps ==
  ASSUME HashInv, Owned', NEW t \in Tasks, NEW o \in Objects, call[t].obj = o, Drive(t)
  PROVE  HashInv'
<1>1. ctx \in [Objects -> Contexts] /\ context \in [Channels -> HashValues]
      /\ call \in [Tasks -> CallStates] /\ HistoryOK /\ TypeOK /\ ctx[o] \in Contexts
  BY HTypes DEF HashInv, HTypeOK
<1>2. /\ pc[t] # "idle" /\ pc'[t] # "idle" /\ chan' = chan
      /\ \A u \in Tasks \ {t} : pc'[u] = pc[u]
      /\ UNCHANGED <<context, call, open, session, sent, out>>
  BY <1>1 DEF Drive, ScheduleWorkStart, ScheduleWorkCheck, ScheduleWorkTaken, Poll, Status,
              ClearStatus, TypeOK, hashVars
<1>3. CallShape(t) /\ call[t].phase \in Jobs /\ Owner[o] = t
  BY <1>2, InCallFacts DEF CallShape, Jobs
<1>4. \E x \in Contexts : x.channel = ctx[o].channel /\ ctx' = [ctx EXCEPT ![o] = x]
  <2>1. CASE UNCHANGED ctx
    BY <1>1, <2>1
  <2>2. CASE ctx' = [ctx EXCEPT ![o].workScheduled = TRUE]
    <3> DEFINE x == [ctx[o] EXCEPT !.workScheduled = TRUE]
    <3>1. x \in Contexts /\ x.channel = ctx[o].channel
      BY <1>1 DEF Contexts
    <3>2. ctx' = [ctx EXCEPT ![o] = x]
      BY <2>2
    <3> QED
      BY <3>1, <3>2
  <2> QED
    BY <2>1, <2>2 DEF Drive, hashVars
<1>5. ctx' \in [Objects -> Contexts] /\ ctx'[o].channel = ctx[o].channel
      /\ \A p \in Objects \ {o} : ctx'[p] = ctx[p]
  BY <1>1, <1>4
<1>6. CallShape(t)'
  BY <1>2, <1>3, <1>5 DEF CallShape, Jobs, Updates
<1>7. OwnWork(o)'
  BY <1>2, <1>3 DEF OwnWork
<1> QED
  BY <1>1, <1>2, <1>3, <1>5, <1>6, <1>7, LocalStep DEF HistoryOK

\* Whose job a channel runs: a task that polls in a call of Hash.
LEMMA JobsCall ==
  ASSUME HashInv, NEW c \in Channels, busy[c]
  PROVE  /\ cmd[c] \in Tasks /\ pc[cmd[c]] = "poll" /\ chan[cmd[c]] = c
         /\ call[cmd[c]].phase \in Jobs /\ call[cmd[c]].obj \in Objects
         /\ Owner[call[cmd[c]].obj] = cmd[c]
         /\ ctx[call[cmd[c]].obj].channel = c
<1>1. cmd[c] \in Tasks /\ pc[cmd[c]] = "poll" /\ chan[cmd[c]] = c
  BY DEF HashInv, Owned, NoReturnWhileRunning
<1>2. CallShape(cmd[c]) /\ call[cmd[c]].obj \in Objects
  BY <1>1, InCallFacts
<1> QED
  BY <1>1, <1>2 DEF CallShape, Jobs

LEMMA HashedType ==
  ASSUME HashInv, NEW c \in Channels, NEW o \in Objects,
         NEW p \in [init: BOOLEAN, term: BOOLEAN, from: Nat, size: Nat]
  PROVE  Hashed(c, o, p) \in HashValues
<1>1. context[c] \in HashValues /\ Garbage \in HashValues /\ HTypeOK
  BY DEF HashInv, HTypeOK, HashValues
<1>2. \A n \in Nat : Running(o, n) \in HashValues
  BY <1>1, RunningType
<1>3. p.from \in Nat /\ p.size \in Nat /\ p.from + p.size \in Nat
  OBVIOUS
<1> QED
  BY <1>1, <1>2, <1>3 DEF Hashed

\* The value of a digest that the coprocessor writes at the end of a message.
FinalValue(o, h) == IF h = Garbage THEN Garbage ELSE [h EXCEPT !.final = o \notin CrcObjects]

LEMMA FinalValueType ==
  ASSUME NEW o \in Objects, NEW h \in HashValues
  PROVE  FinalValue(o, h) \in HashValues
<1>1. CASE o \in CrcObjects
  BY <1>1 DEF FinalValue, HashValues
<1>2. CASE o \notin CrcObjects
  BY <1>2 DEF FinalValue, HashValues
<1> QED
  BY <1>1, <1>2

LEMMA HwKeeps ==
  ASSUME HashInv, Owned', NEW c \in Channels, HashHwStep(c)
  PROVE  HashInv'
<1>1. ctx \in [Objects -> Contexts] /\ context \in [Channels -> HashValues]
      /\ call \in [Tasks -> CallStates] /\ HistoryOK /\ TypeOK
  BY HTypes DEF HashInv, HTypeOK
<1>2. busy[c] /\ UNCHANGED <<pc, chan, call, open, session, sent, out>>
  BY DEF HashHwStep, HashHwDone, HashHwError, HwDone, HwError
<1>3. PICK t \in Tasks, o \in Objects : t = cmd[c] /\ o = call[t].obj
  BY <1>2, JobsCall
<1>4. call[t].phase \in Jobs /\ Owner[o] = t /\ CallShape(t) /\ call[t] \in CallStates
  BY <1>2, <1>3, JobsCall, InCallFacts
<1>5. /\ \E x \in Contexts : /\ ctx' = [ctx EXCEPT ![o] = x]
                             /\ x.channel = ctx[o].channel
      /\ context' \in [Channels -> HashValues]
  <2>1. Garbage \in HashValues /\ ctx[o] \in Contexts
    BY <1>1 DEF HashValues
  <2>2. CASE HashHwError(c)
    BY <1>1, <2>1, <2>2 DEF HashHwError
  <2>3. CASE HashHwDone(c)
    <3> DEFINE h == Hashed(c, o, call[t].workPacket)
               v == FinalValue(o, h)
               x == [ctx[o] EXCEPT !.runningHash = v]
    <3>1. h \in HashValues /\ v \in HashValues
      BY <1>4, CallFields, HashedType, FinalValueType
    <3>2. IF call[t].workPacket.term
          THEN ctx' = [ctx EXCEPT ![o].runningHash = v] /\ context' = [context EXCEPT ![c] = Garbage]
          ELSE ctx' = ctx /\ context' = [context EXCEPT ![c] = h]
      BY <1>3, <2>3 DEF HashHwDone, FinalValue
    <3> HIDE DEF v, h
    <3>3. x \in Contexts /\ x.channel = ctx[o].channel
      BY <2>1, <3>1 DEF Contexts
    <3> QED
      BY <1>1, <2>1, <3>1, <3>2, <3>3
  <2> QED
    BY <2>2, <2>3 DEF HashHwStep
<1>6. ctx' \in [Objects -> Contexts] /\ ctx'[o].channel = ctx[o].channel
      /\ \A p \in Objects \ {o} : ctx'[p] = ctx[p]
  BY <1>1, <1>5
<1>7. CallShape(t)'
  BY <1>2, <1>3, <1>4, <1>6 DEF CallShape
<1>8. OwnWork(o)'
  BY <1>2, <1>3, <1>4 DEF OwnWork
<1> QED
  BY <1>1, <1>2, <1>3, <1>4, <1>5, <1>6, <1>7, <1>8, LocalStep DEF HistoryOK

\* A call begins, or does all it does at once, for an object of an idle task.
Entry(t, o) ==
  \/ \E c \in ChannelsOf[t] : HashInit(t, o, c) \/ SetChannel(t, o, c)
  \/ \E n \in 1 .. MaxChunk : UpdateBegin(t, o, n)
  \/ FinalizeNothing(t, o) \/ FinalizeEmpty(t, o) \/ FinalizeCrc(t, o)
  \/ FinalizeBegin(t, o)

LEMMA NextHashInv == HashInv /\ [HNext]_vars => HashInv'
<1> SUFFICES ASSUME HashInv, [HNext]_vars PROVE HashInv'
  OBVIOUS
<1>0. Owned'
  BY NextFollows, NextOwned DEF HashInv
<1>1. CASE HashDcpInit \/ HashDcpDeinit \/ UNCHANGED vars
  <2>1. UNCHANGED hashVars /\ UNCHANGED <<pc, chan>>
    BY <1>1 DEF HashDcpInit, HashDcpDeinit, DcpInit, DcpDeinit, vars, dcpVars
  <2>2. HTypeOK'
    BY <1>0, <2>1, HTypes DEF HashInv, Owned, hashVars, HTypeOK
  <2>3. (\A t \in Tasks : CallShape(t)') /\ \A o \in Objects : OwnWork(o)'
    BY <2>1 DEF HashInv, hashVars, CallShape, OwnWork
  <2> QED
    BY <1>0, <2>2, <2>3 DEF HashInv
<1>2. ASSUME NEW t \in Tasks, CallStep(t) PROVE HashInv'
  <2>1. PICK o \in Objects : call[t].obj = o
    BY InCallFacts
  <2> QED
    BY <1>0, <1>2, <2>1, FillKeeps, FillBlockKeeps, BulkKeeps, JobDoneKeeps, TailKeeps, EndKeeps,
       DriveKeeps
    DEF CallStep
<1>3. ASSUME NEW t \in Tasks, NEW o \in Objects, Entry(t, o) PROVE HashInv'
  BY <1>0, <1>3, SetUpKeeps, BeginKeeps, EndKeeps, FinalizeBeginKeeps DEF Entry
<1>4. ASSUME NEW c \in Channels, HashHwStep(c) PROVE HashInv'
  BY <1>0, <1>4, HwKeeps
<1> QED
  BY <1>1, <1>2, <1>3, <1>4 DEF HNext, Entry

LEMMA AlwaysHashInv == HSpec => []HashInv
BY InitHashInv, NextHashInv, PTL DEF HSpec

\* However update() cuts the message and whoever shares the channels, the state of
\* every object keeps its type: no partial block outgrows its buffer.
THEOREM HashTypeCorrect == HSpec => []HTypeOK
<1>1. HashInv => HTypeOK
  BY DEF HashInv
<1> QED
  BY <1>1, AlwaysHashInv, PTL

\* The functions of Hash use the driver as it is meant to be used, so that everything
\* proved of the driver's calls is true of theirs: no call goes to the poll for
\* a job that it has not scheduled itself.
THEOREM HashFollowsDriver == HSpec => FollowsDriver
<1>1. HInit => Init
  BY DEF HInit
<1> QED
  BY <1>1, NextFollows, AlwaysHashInv, PTL DEF HSpec, Spec, FollowsDriver

\* No call of Hash returns while its packet runs, and no job is scheduled over a
\* running one, even if tasks share a channel (scheduleWork() in dcp.cpp).
THEOREM HashPacketOutlivesJob == HSpec => []NoReturnWhileRunning /\ NoClobber
BY HashFollowsDriver, PacketOutlivesJob, RunningChannelUntouched, PTL DEF FollowsDriver

-----------------------------------------------------------------------------
(* What the steps of one task leave alone. *)

\* A step of a call touches the call's task and object only.
LEMMA CallStepFrame ==
  ASSUME HashInv, NEW u \in Tasks, NEW p \in Objects, p = call[u].obj, CallStep(u)
  PROVE  /\ call[u].phase # "none" /\ Owner[p] = u /\ open[p]
         /\ \A o \in Objects \ {p} : /\ ctx'[o] = ctx[o] /\ open'[o] = open[o]
                                     /\ sent'[o] = sent[o] /\ out'[o] = out[o]
         /\ \A t \in Tasks \ {u} : /\ call'[t] = call[t] /\ pc'[t] = pc[t]
                                   /\ chan'[t] = chan[t] /\ outcome'[t] = outcome[t]
         /\ UNCHANGED <<context, session>>
<1>1. ctx \in [Objects -> Contexts] /\ call \in [Tasks -> CallStates] /\ HistoryOK /\ TypeOK
  BY HTypes DEF HashInv
<1>2. CallShape(u)
  BY InCallFacts
<1> USE DEF TypeOK, HistoryOK, dcpVars
<1>3. CASE FillPartial(u) \/ FillNothing(u) \/ Tail(u)
  BY <1>1, <1>2, <1>3 DEF FillPartial, FillNothing, Tail, CallShape
<1>4. CASE FillBlock(u) \/ Bulk(u)
  <2>1. pc[u] = "idle" /\ Owner[p] = u /\ Schedule(u, p) /\ open[p] /\ call[u].phase # "none"
    BY <1>2, <1>4 DEF FillBlock, Bulk, CallShape, Jobs
  <2>2. \A t \in Tasks \ {u} : pc'[t] = pc[t] /\ chan'[t] = chan[t] /\ outcome'[t] = outcome[t]
    <3>1. Submit(u, ctx[p].channel) /\ ctx[p].channel \in Channels
      BY <2>1, ScheduleSubmits, ChannelType
    <3> QED
      BY <1>1, <3>1, Entered
  <2> QED
    BY <1>1, <1>4, <2>1, <2>2 DEF FillBlock, Bulk
<1>5. CASE BlockDone(u) \/ BulkDone(u) \/ UpdateFail(u) \/ FinalizeDone(u) \/ FinalizeFail(u)
  BY <1>1, <1>2, <1>5
  DEF BlockDone, BulkDone, UpdateFail, FinalizeDone, FinalizeFail, CallShape, Retire, EndCalculation
<1>6. CASE Drive(u)
  <2>1. pc[u] # "idle" /\ \A t \in Tasks \ {u} : pc'[t] = pc[t] /\ outcome'[t] = outcome[t]
    BY <1>1, <1>6 DEF Drive, ScheduleWorkStart, ScheduleWorkCheck, ScheduleWorkTaken, Poll,
                      Status, ClearStatus
  <2>2. UNCHANGED <<chan, context, call, open, session, sent, out>>
    BY <1>6 DEF Drive, ScheduleWorkStart, ScheduleWorkCheck, ScheduleWorkTaken, Poll,
                Status, ClearStatus, hashVars
  <2>3. \A o \in Objects \ {p} : ctx'[o] = ctx[o]
    BY <1>1, <1>6 DEF Drive, hashVars
  <2> QED
    BY <1>2, <2>1, <2>2, <2>3 DEF CallShape, Jobs
<1> QED
  BY <1>3, <1>4, <1>5, <1>6 DEF CallStep

\* A call goes on with its object, or has ended.
LEMMA CallStepObject ==
  ASSUME HashInv, NEW u \in Tasks, NEW p \in Objects, p = call[u].obj, CallStep(u)
  PROVE  call'[u].phase # "none" => call'[u].obj = p
<1>1. call \in [Tasks -> CallStates] /\ NoCall.phase = "none"
  BY HTypes, NoCallType DEF HashInv
<1>2. CASE FillPartial(u) \/ Tail(u) \/ UpdateFail(u) \/ FinalizeDone(u) \/ FinalizeFail(u)
  BY <1>1, <1>2 DEF FillPartial, Tail, UpdateFail, FinalizeDone, FinalizeFail
<1>3. CASE FillBlock(u)
  BY <1>1, <1>3 DEF FillBlock, CallStates
<1>4. CASE Bulk(u)
  BY <1>1, <1>4 DEF Bulk, CallStates
<1>5. CASE BlockDone(u) \/ FillNothing(u)
  BY <1>1, <1>5 DEF BlockDone, FillNothing, CallStates
<1>6. CASE BulkDone(u)
  BY <1>1, <1>6 DEF BulkDone, CallStates
<1>7. CASE Drive(u)
  BY <1>7 DEF Drive, hashVars
<1> QED
  BY <1>2, <1>3, <1>4, <1>5, <1>6, <1>7 DEF CallStep

LEMMA EntryFrame ==
  ASSUME HashInv, NEW u \in Tasks, NEW p \in Objects, Entry(u, p)
  PROVE  /\ call[u].phase = "none" /\ pc[u] = "idle" /\ Owner[p] = u
         /\ \A o \in Objects \ {p} : /\ ctx'[o] = ctx[o] /\ open'[o] = open[o]
                                     /\ session'[o] = session[o]
                                     /\ sent'[o] = sent[o] /\ out'[o] = out[o]
         /\ \A t \in Tasks \ {u} : /\ call'[t] = call[t] /\ pc'[t] = pc[t]
                                   /\ chan'[t] = chan[t] /\ outcome'[t] = outcome[t]
         /\ \A c \in Channels : c # ctx[p].channel => context'[c] = context[c]
         /\ open[p] \/ context' = context
         /\ call'[u].phase # "none" => call'[u].obj = p
<1>1. ctx \in [Objects -> Contexts] /\ call \in [Tasks -> CallStates] /\ HistoryOK /\ TypeOK
      /\ context \in [Channels -> HashValues]
  BY HTypes DEF HashInv
<1> USE DEF TypeOK, HistoryOK, dcpVars, Usable, Idle, Restored, EndCalculation
<1>2. CASE \E c \in ChannelsOf[u] : HashInit(u, p, c) \/ SetChannel(u, p, c)
  BY <1>1, <1>2 DEF HashInit, SetChannel
<1>3. CASE \E n \in 1 .. MaxChunk : UpdateBegin(u, p, n)
  BY <1>1, <1>3, NoCallType DEF UpdateBegin
<1>4. CASE FinalizeNothing(u, p) \/ FinalizeEmpty(u, p) \/ FinalizeCrc(u, p)
  BY <1>1, <1>4 DEF FinalizeNothing, FinalizeEmpty, FinalizeCrc
<1>5. CASE FinalizeBegin(u, p)
  <2>1. \A t \in Tasks \ {u} : pc'[t] = pc[t] /\ chan'[t] = chan[t] /\ outcome'[t] = outcome[t]
    BY <1>1, <1>5, ScheduleSubmits, Entered, ChannelType DEF FinalizeBegin
  <2> QED
    BY <1>1, <1>5, <2>1, NoCallType DEF FinalizeBegin
<1> QED
  BY <1>2, <1>3, <1>4, <1>5 DEF Entry

\* The coprocessor touches the object whose job it ran, and its channel.
LEMMA HwFrame ==
  ASSUME HashInv, NEW c \in Channels, HashHwStep(c),
         NEW t \in Tasks, NEW o \in Objects, t = cmd[c], o = call[t].obj
  PROVE  /\ busy[c] /\ ~busy'[c]
         /\ UNCHANGED <<pc, chan, call, open, session, sent, out>>
         /\ \A p \in Objects \ {o} : ctx'[p] = ctx[p]
         /\ \A d \in Channels \ {c} : context'[d] = context[d]
         /\ \A u \in Tasks \ {t} : outcome'[u] = outcome[u]
<1>1. ctx \in [Objects -> Contexts] /\ context \in [Channels -> HashValues] /\ TypeOK
  BY HTypes DEF HashInv
<1> QED
  BY <1>1 DEF HashHwStep, HashHwDone, HashHwError, HwDone, HwError, TypeOK

\* Nothing the program does, in that call or in another task, changes an object while
\* the coprocessor works on its job, even if tasks share a channel.
THEOREM JobDataUntouched == HSpec => JobDataStable
<1> DEFINE Stable(c) == busy[c] /\ busy'[c] =>
                          LET t == cmd[c]
                          IN call'[t] = call[t] /\ ctx'[call[t].obj] = ctx[call[t].obj]
<1>1. HashInv /\ [HNext]_vars => [\A c \in Channels : Stable(c)]_vars
  <2> SUFFICES ASSUME HashInv, HNext, NEW c \in Channels, busy[c], busy'[c]
               PROVE  LET t == cmd[c]
                      IN call'[t] = call[t] /\ ctx'[call[t].obj] = ctx[call[t].obj]
    OBVIOUS
  <2>1. PICK t \in Tasks, o \in Objects : t = cmd[c] /\ o = call[t].obj
    BY JobsCall
  <2>2. pc[t] = "poll" /\ chan[t] = c /\ call[t].phase \in Jobs /\ Owner[o] = t
    BY <2>1, JobsCall
  <2>3. ctx \in [Objects -> Contexts] /\ call \in [Tasks -> CallStates] /\ TypeOK
    BY HTypes DEF HashInv
  <2> SUFFICES call'[t] = call[t] /\ ctx'[o] = ctx[o]
    BY <2>1
  <2>4. CASE HashDcpInit \/ HashDcpDeinit
    BY <2>4 DEF HashDcpInit, HashDcpDeinit, hashVars
  <2>5. ASSUME NEW u \in Tasks, CallStep(u) PROVE call'[t] = call[t] /\ ctx'[o] = ctx[o]
    <3>1. PICK p \in Objects : p = call[u].obj
      BY InCallFacts
    <3>2. u # t
      BY <2>2, <2>5
      DEF CallStep, FillPartial, FillBlock, BlockDone, FillNothing, Bulk, BulkDone, Tail,
          UpdateFail, FinalizeDone, FinalizeFail, Drive, ScheduleWorkStart, ScheduleWorkCheck,
          ScheduleWorkTaken, Poll, Status, ClearStatus, Jobs
    <3>3. Owner[p] = u
      BY <2>5, <3>1, CallStepFrame
    <3> QED
      BY <2>2, <2>5, <3>1, <3>2, <3>3, CallStepFrame
  <2>6. ASSUME NEW u \in Tasks, NEW p \in Objects, Entry(u, p)
        PROVE  call'[t] = call[t] /\ ctx'[o] = ctx[o]
    <3>1. u # t /\ Owner[p] = u
      BY <2>2, <2>6, EntryFrame
    <3> QED
      BY <2>2, <2>6, <3>1, EntryFrame
  <2>7. ASSUME NEW d \in Channels, HashHwStep(d) PROVE call'[t] = call[t] /\ ctx'[o] = ctx[o]
    <3>1. busy[d]
      BY <2>7 DEF HashHwStep, HashHwDone, HashHwError, HwDone, HwError
    <3>2. PICK u \in Tasks, p \in Objects : u = cmd[d] /\ p = call[u].obj
      BY <3>1, JobsCall
    <3>3. d # c /\ u # t /\ p # o
      BY <2>2, <2>7, <3>1, <3>2, JobsCall, HwFrame
    <3> QED
      BY <2>7, <3>2, <3>3, HwFrame
  <2> QED
    BY <2>4, <2>5, <2>6, <2>7 DEF HNext, Entry
<1> QED
  BY <1>1, AlwaysHashInv, PTL DEF HSpec, JobDataStable

-----------------------------------------------------------------------------
(* What is kept of an object's message. *)

\* The object's task owns its channels, and no message wraps totalSize.
Undisturbed(o) == Owner[o] \in Owners /\ MaxMessage < SizeMod

Working(o) == call[Owner[o]].phase # "none" /\ call[Owner[o]].obj = o

\* The object's context holds what was accepted: the hash of the bytes before
\* its block buffer, and the rest in it.
Saved(o) ==
  LET x == ctx[o]
      h == sent[o] - x.currBlockSize
  IN /\ x.totalSize = sent[o]
     /\ x.isStarted <=> h # 0
     /\ x.isStarted => x.runningHash = Running(o, h)
     /\ x.currBlockSize # 0 => x.blockFrom = h

\* The coprocessor can go on after h bytes of the object's message.
Ready(o, h) ==
  /\ ctx[o].isStarted <=> h # 0
  /\ ctx[o].isStarted => context[ctx[o].channel] = Running(o, h)

\* The job of the object's call hashes the bytes after the first h.
Hashing(o, h) ==
  LET t == Owner[o]
      p == call[t].workPacket
  IN /\ outcome[t] = "none" => /\ Ready(o, h)
                               /\ p.init <=> ~ctx[o].isStarted
                               /\ p.size # 0 => p.from = h
     /\ outcome[t] = "done" =>
          IF p.term THEN ctx[o].runningHash = Digest(o, h + p.size)
                    ELSE context[ctx[o].channel] = Running(o, h + p.size)

\* From phase to phase the bytes hashed, those in the block buffer and those
\* still to come are the message.
InPhase(o) ==
  LET x == ctx[o]
      t == Owner[o]
      k == call[t]
      p == k.workPacket
  IN /\ k.phase = "fill"    => Saved(o) /\ Ready(o, sent[o] - x.currBlockSize)
     /\ k.phase = "block"   => /\ ~p.term /\ p.size = BlockSize /\ BlockSize <= k.pIn
                               /\ x.totalSize = k.pIn
                               /\ Hashing(o, k.pIn - BlockSize)
     /\ k.phase = "bulk"    => /\ x.currBlockSize = 0 /\ x.totalSize = k.pIn
                               /\ Ready(o, k.pIn)
     /\ k.phase = "bulkJob" => /\ ~p.term /\ p.size = BulkSize(t) /\ p.size # 0
                               /\ x.currBlockSize = 0 /\ x.totalSize = k.pIn
                               /\ Hashing(o, k.pIn)
     /\ k.phase = "final"   => /\ p.term /\ sent[o] # 0
                               /\ Hashing(o, sent[o] - p.size)

Kept(o) ==
  /\ open[o] => /\ out[o] = NoOutput
                /\ ctx[o].channel \in ChannelsOf[Owner[o]]
                /\ ~Working(o) => Saved(o)
                /\ Working(o) => InPhase(o)
  /\ ~open[o] /\ out[o] # NoOutput => out[o] = Digest(o, sent[o])

\* The whole of an object's context but the flag of its call.
SameContext(o) ==
  /\ ctx'[o].channel = ctx[o].channel         /\ ctx'[o].runningHash = ctx[o].runningHash
  /\ ctx'[o].isStarted = ctx[o].isStarted     /\ ctx'[o].blockFrom = ctx[o].blockFrom
  /\ ctx'[o].totalSize = ctx[o].totalSize     /\ ctx'[o].currBlockSize = ctx[o].currBlockSize

\* Nothing changes for an object whose own state stays as it is, if either its
\* task is not in a call for it, or neither that call's state nor the
\* coprocessor's on the task's channels changes.
LEMMA FrameKept ==
  ASSUME NEW o \in Objects, Kept(o),
         SameContext(o), open'[o] = open[o], session'[o] = session[o],
         sent'[o] = sent[o], out'[o] = out[o],
         \/ ~Working(o) /\ ~Working(o)'
         \/ /\ call'[Owner[o]] = call[Owner[o]] /\ outcome'[Owner[o]] = outcome[Owner[o]]
            /\ \A c \in ChannelsOf[Owner[o]] : context'[c] = context[c]
  PROVE  Kept(o)'
<1>1. \A n : Running(o, n)' = Running(o, n) /\ Digest(o, n)' = Digest(o, n)
  BY DEF Running, Digest
<1> USE DEF SameContext
<1>2. Saved(o)' <=> Saved(o)
  BY <1>1 DEF Saved
<1>3. CASE ~Working(o) /\ ~Working(o)'
  BY <1>1, <1>2, <1>3 DEF Kept
<1>4. CASE /\ call'[Owner[o]] = call[Owner[o]] /\ outcome'[Owner[o]] = outcome[Owner[o]]
           /\ \A c \in ChannelsOf[Owner[o]] : context'[c] = context[c]
  <2>1. Working(o)' <=> Working(o)
    BY <1>4 DEF Working
  <2>2. ASSUME ctx[o].channel \in ChannelsOf[Owner[o]], InPhase(o)
        PROVE  InPhase(o)'
    <3>1. context'[ctx'[o].channel] = context[ctx[o].channel]
      BY <1>4, <2>2
    <3>2. \A h : (Ready(o, h)' <=> Ready(o, h)) /\ (Hashing(o, h)' <=> Hashing(o, h))
      BY <1>1, <1>4, <3>1 DEF Ready, Hashing
    <3>3. BulkSize(Owner[o])' = BulkSize(Owner[o])
      BY <1>4 DEF BulkSize
    <3> QED
      BY <1>2, <1>4, <2>2, <3>2, <3>3 DEF InPhase
  <2> QED
    BY <1>1, <1>2, <2>1, <2>2 DEF Kept
<1> QED
  BY <1>3, <1>4

-----------------------------------------------------------------------------
(* Every step of a call keeps what is kept of the call's own object. *)

\* Sizes within a message do not wrap.
LEMMA SumExact ==
  ASSUME NEW o \in Objects, Undisturbed(o), NEW m \in Nat, NEW n \in Nat, m + n <= MaxMessage
  PROVE  Sum(m, n) = m + n
BY SumType, HashAssumption DEF Undisturbed

LEMMA SetUpKept ==
  ASSUME HashInv, NEW t \in Tasks, NEW o \in Objects, NEW c \in ChannelsOf[t], Kept(o),
         HashInit(t, o, c) \/ SetChannel(t, o, c)
  PROVE  Kept(o)'
<1>1. ctx \in [Objects -> Contexts] /\ HistoryOK /\ Owner[o] = t /\ call'[t].phase = "none"
      /\ ~Working(o) /\ c \in Channels
  BY HTypes, DcpAssumption DEF HashInv, HashInit, SetChannel, Usable, Idle, Working
<1>2. CASE HashInit(t, o, c)
  <2>1. ctx'[o] = [Cleared EXCEPT !.channel = c] /\ open'[o] /\ sent'[o] = 0 /\ out'[o] = NoOutput
    BY <1>1, <1>2 DEF HashInit, HistoryOK
  <2>2. ctx'[o].channel = c /\ ctx'[o].totalSize = 0 /\ ctx'[o].currBlockSize = 0
        /\ ~ctx'[o].isStarted
    BY <2>1 DEF Cleared
  <2> QED
    BY <1>1, <2>1, <2>2 DEF Kept, Working, Saved
<1>3. CASE SetChannel(t, o, c)
  <2>1. ctx'[o] = [ctx[o] EXCEPT !.channel = c] /\ open[o] /\ UNCHANGED <<open, session, sent, out>>
    BY <1>1, <1>3 DEF SetChannel, Usable
  <2>2. ctx[o] \in Contexts
    BY <1>1
  <2>3. /\ ctx'[o].channel = c /\ ctx'[o].totalSize = ctx[o].totalSize
        /\ ctx'[o].currBlockSize = ctx[o].currBlockSize /\ ctx'[o].isStarted = ctx[o].isStarted
        /\ ctx'[o].runningHash = ctx[o].runningHash /\ ctx'[o].blockFrom = ctx[o].blockFrom
    BY <2>1, <2>2 DEF Contexts
  <2>4. Saved(o)'
    BY <1>1, <2>1, <2>3 DEF Kept, Saved, Running
  <2> QED
    BY <1>1, <2>1, <2>3, <2>4 DEF Kept, Working
<1> QED
  BY <1>2, <1>3

LEMMA BeginKept ==
  ASSUME HashInv, NEW t \in Tasks, NEW o \in Objects, NEW n \in 1 .. MaxChunk, Kept(o),
         UpdateBegin(t, o, n)
  PROVE  Kept(o)'
<1>1. Owner[o] = t /\ ~Working(o) /\ open[o] /\ UNCHANGED <<ctx, open, session, sent, out>>
      /\ Saved(o)
  BY DEF UpdateBegin, Usable, Idle, Working, Kept
<1>2. call'[t].phase = "fill" /\ call'[t].obj = o
  <2>1. call \in [Tasks -> CallStates]
    BY HTypes DEF HashInv
  <2> QED
    BY <2>1, NoCallType DEF UpdateBegin
<1>3. Ready(o, sent[o] - ctx[o].currBlockSize)'
  <2>1. context \in [Channels -> HashValues] /\ ctx[o].channel \in Channels
    BY HTypes, ChannelType DEF HashInv
  <2> QED
    BY <1>1, <2>1 DEF UpdateBegin, Restored, Ready, Saved, Running
<1>4. Saved(o)'
  BY <1>1 DEF Saved, Running
<1> QED
  BY <1>1, <1>2, <1>3, <1>4 DEF Kept, Working, InPhase

LEMMA FillKept ==
  ASSUME HashInv, NEW t \in Tasks, NEW o \in Objects, o = call[t].obj,
         Undisturbed(o), Kept(o),
         FillPartial(t) \/ FillNothing(t)
  PROVE  Kept(o)'
<1>1. ctx \in [Objects -> Contexts] /\ call \in [Tasks -> CallStates] /\ HistoryOK
      /\ ctx[o] \in Contexts
  BY HTypes DEF HashInv
<1>2. /\ Owner[o] = t /\ open[o] /\ call[t].phase = "fill" /\ call[t].pIn = sent[o]
      /\ call[t].rem \in Nat /\ sent[o] \in Nat /\ sent[o] + call[t].rem <= MaxMessage
  BY InCallFacts DEF FillPartial, FillNothing, CallShape, Updates
<1>3. Saved(o) /\ Ready(o, sent[o] - ctx[o].currBlockSize)
      /\ out[o] = NoOutput /\ ctx[o].channel \in ChannelsOf[t]
  BY <1>2 DEF Kept, Working, InPhase
<1>4. ctx[o].currBlockSize \in Nat /\ ctx[o].totalSize = sent[o]
  BY <1>1, <1>3, ContextFields DEF Saved
<1>5. CASE FillNothing(t)
  <2>1. UNCHANGED <<ctx, context, open, session, sent, out>> /\ ctx[o].currBlockSize = 0
    BY <1>5 DEF FillNothing
  <2>2. call'[t].phase = "bulk" /\ call'[t].obj = o /\ call'[t].pIn = call[t].pIn
    BY <1>1, <1>5 DEF FillNothing, CallStates
  <2>3. Ready(o, sent[o])'
    <3>1. sent[o] - ctx[o].currBlockSize = sent[o]
      BY <1>2, <2>1
    <3>2. Ready(o, sent[o])
      BY <1>3, <3>1
    <3> QED
      BY <2>1, <3>2 DEF Ready, Running
  <2> QED
    BY <1>2, <1>3, <1>4, <2>1, <2>2, <2>3 DEF Kept, Working, InPhase
<1>6. CASE FillPartial(t)
  <2>1. /\ call'[t].phase = "none" /\ sent'[o] = sent[o] + call[t].rem
        /\ UNCHANGED <<context, open, session, out>>
        /\ ctx'[o] = [ctx[o] EXCEPT !.currBlockSize = @ + call[t].rem,
                                    !.totalSize = Sum(@, call[t].rem)]
    BY <1>1, <1>6, NoCallType DEF FillPartial, HistoryOK
  <2>2. Sum(ctx[o].totalSize, call[t].rem) = sent'[o]
    BY <1>2, <1>4, <2>1, SumExact
  <2>3. /\ ctx'[o].channel = ctx[o].channel /\ ctx'[o].totalSize = sent'[o]
        /\ ctx'[o].currBlockSize = ctx[o].currBlockSize + call[t].rem
        /\ ctx'[o].isStarted = ctx[o].isStarted
        /\ ctx'[o].runningHash = ctx[o].runningHash /\ ctx'[o].blockFrom = ctx[o].blockFrom
    BY <1>1, <2>1, <2>2 DEF Contexts
  <2>4. sent'[o] - ctx'[o].currBlockSize = sent[o] - ctx[o].currBlockSize
        /\ ctx[o].currBlockSize # 0
    BY <1>2, <1>4, <1>6, <2>1, <2>3 DEF FillPartial
  <2>5. Saved(o)'
    BY <1>3, <2>1, <2>3, <2>4 DEF Saved, Running
  <2> QED
    BY <1>2, <1>3, <2>1, <2>3, <2>5 DEF Kept, Working
<1> QED
  BY <1>5, <1>6

\* A call gets its job: the packet says how to go on.
LEMMA PacketFields ==
  ASSUME NEW s \in BOOLEAN, NEW term \in BOOLEAN, NEW from, NEW size, NEW w,
         w = [init |-> ~s, term |-> term, from |-> from, size |-> size]
  PROVE  (w.init <=> ~s) /\ w.term = term /\ w.from = from /\ w.size = size
OBVIOUS

LEMMA StartsHashing ==
  ASSUME NEW t \in Tasks, NEW o \in Objects, Owner[o] = t, ~ctx[o].workScheduled,
         ctx[o] \in Contexts,
         NEW h \in Int, NEW term \in BOOLEAN, NEW from \in Nat, NEW size \in Nat,
         call'[t].workPacket = Packet(t, o, term, from, size),
         ctx'[o].isStarted = ctx[o].isStarted, outcome'[t] = "none",
         Ready(o, h)', size # 0 => from = h
  PROVE  /\ Hashing(o, h)'
         /\ call'[t].workPacket.term = term
         /\ call'[t].workPacket.size = size
<1>1. call'[t].workPacket = [init |-> ~ctx[o].isStarted, term |-> term, from |-> from,
                             size |-> size]
  BY DEF Packet
<1>2. PICK w : w = call'[t].workPacket
  OBVIOUS
<1>3. (w.init <=> ~ctx[o].isStarted) /\ w.term = term /\ w.from = from /\ w.size = size
  BY <1>1, <1>2, ContextFields, PacketFields
<1> QED
  BY <1>2, <1>3 DEF Hashing

LEMMA FillBlockKept ==
  ASSUME HashInv, NEW t \in Tasks, NEW o \in Objects, o = call[t].obj,
         Undisturbed(o), Kept(o),
         FillBlock(t)
  PROVE  Kept(o)'
<1>1. ctx \in [Objects -> Contexts] /\ call \in [Tasks -> CallStates] /\ HistoryOK
      /\ ctx[o] \in Contexts /\ TypeOK
  BY HTypes DEF HashInv
<1>2. /\ Owner[o] = t /\ open[o] /\ call[t].phase = "fill" /\ call[t].pIn = sent[o]
      /\ call[t].rem \in Nat /\ sent[o] \in Nat /\ sent[o] + call[t].rem <= MaxMessage
      /\ pc[t] = "idle"
  BY InCallFacts DEF FillBlock, CallShape, Updates, Jobs
<1>3. Saved(o) /\ Ready(o, sent[o] - ctx[o].currBlockSize)
      /\ out[o] = NoOutput /\ ctx[o].channel \in ChannelsOf[t]
  BY <1>2 DEF Kept, Working, InPhase
<1> PICK h \in Int : h = sent[o] - ctx[o].currBlockSize
  BY <1>1, <1>2, ContextFields
<1> PICK take \in Int : take = BlockSize - ctx[o].currBlockSize
  BY <1>1, ContextFields
<1>4. /\ take \in Nat /\ take <= call[t].rem /\ BlockSize \in Nat /\ ctx[o].totalSize = sent[o]
      /\ ctx[o].currBlockSize \in Nat /\ h = ctx[o].blockFrom /\ ctx[o].blockFrom \in Nat
  BY <1>1, <1>2, <1>3, ContextFields DEF Saved, FillBlock
<1>5. Submit(t, ctx[o].channel) /\ ~ctx[o].workScheduled
  BY <1>2, ScheduleSubmits DEF FillBlock
<1>6. outcome'[t] = "none" /\ UNCHANGED <<context, open, session, sent, out>>
  BY <1>1, <1>5, Entered, ChannelType DEF FillBlock
<1>7. /\ call'[t].phase = "block" /\ call'[t].obj = o /\ call'[t].pIn = sent[o] + take
      /\ call'[t].workPacket = Packet(t, o, FALSE, ctx[o].blockFrom, BlockSize)
  <2>1. call'[t] = [call[t] EXCEPT !.phase = "block", !.pIn = @ + take, !.rem = @ - take,
                      !.workPacket = Packet(t, o, FALSE, ctx[o].blockFrom, BlockSize)]
    BY <1>1 DEF FillBlock
  <2>2. call[t] \in CallStates
    BY <1>1
  <2> QED
    BY <1>2, <2>1, <2>2 DEF CallStates
<1>8. /\ ctx'[o].channel = ctx[o].channel /\ ctx'[o].totalSize = sent[o] + take
      /\ ctx'[o].isStarted = ctx[o].isStarted
  <2>1. sent[o] + take <= MaxMessage
    BY <1>2, <1>4, HashAssumption
  <2>2. Sum(ctx[o].totalSize, take) = sent[o] + take
    BY <1>2, <1>4, <2>1, SumExact
  <2>3. ctx'[o] = [ctx[o] EXCEPT !.currBlockSize = BlockSize, !.totalSize = Sum(@, take)]
    BY <1>1 DEF FillBlock
  <2> QED
    BY <1>1, <2>2, <2>3 DEF Contexts
<1>9. Ready(o, h)'
  BY <1>3, <1>6, <1>8 DEF Ready, Running
<1>10. call'[t].pIn - BlockSize = h /\ BlockSize <= call'[t].pIn
  BY <1>2, <1>4, <1>7
<1>11. Hashing(o, h)' /\ ~call'[t].workPacket.term /\ call'[t].workPacket.size = BlockSize
  <2>1. PICK term \in BOOLEAN : term = FALSE
    OBVIOUS
  <2>2. call'[t].workPacket = Packet(t, o, term, ctx[o].blockFrom, BlockSize)
    BY <1>7, <2>1
  <2>3. /\ Hashing(o, h)'
        /\ call'[t].workPacket.term = term
        /\ call'[t].workPacket.size = BlockSize
    BY <1>1, <1>2, <1>4, <1>5, <1>6, <1>8, <1>9, <2>2, StartsHashing
  <2> QED
    BY <2>1, <2>3
<1>12. Hashing(o, call[t].pIn - BlockSize)'
  BY <1>10, <1>11
<1> QED
  BY <1>2, <1>3, <1>6, <1>7, <1>8, <1>10, <1>11, <1>12 DEF Kept, Working, InPhase

\* What is known of the object of a call in progress.
LEMMA CallKept ==
  ASSUME HashInv, NEW t \in Tasks, NEW o \in Objects, o = call[t].obj, call[t].phase # "none",
         Kept(o)
  PROVE  /\ ctx[o] \in Contexts /\ call[t] \in CallStates /\ CallShape(t)
         /\ Owner[o] = t /\ open[o] /\ Working(o) /\ InPhase(o)
         /\ out[o] = NoOutput /\ ctx[o].channel \in ChannelsOf[t]
         /\ call[t].pIn \in Nat /\ call[t].rem \in Nat /\ sent[o] \in Nat
         /\ BulkSize(t) \in 0 .. call[t].rem
         /\ call[t].phase \in Updates => call[t].pIn + call[t].rem <= MaxMessage
<1>1. /\ ctx[o] \in Contexts /\ call[t] \in CallStates /\ CallShape(t)
      /\ call[t].pIn \in Nat /\ call[t].rem \in Nat /\ sent[o] \in Nat
      /\ BulkSize(t) \in 0 .. call[t].rem
  BY InCallFacts
<1>2. Owner[o] = t /\ open[o] /\ Working(o)
  BY <1>1 DEF CallShape, Working
<1> QED
  BY <1>1, <1>2 DEF Kept, CallShape

\* What has to be shown when a call reaches the loop over whole blocks.
LEMMA InBulk ==
  ASSUME NEW t \in Tasks, NEW o \in Objects, NEW n \in Nat, Owner[o] = t, open'[o],
         call'[t].phase = "bulk", call'[t].obj = o, call'[t].pIn = n,
         out'[o] = NoOutput, ctx'[o].channel \in ChannelsOf[t],
         ctx'[o].currBlockSize = 0, ctx'[o].totalSize = n, Ready(o, n)'
  PROVE  Kept(o)'
<1>1. Ready(o, call[t].pIn)'
  OBVIOUS
<1> QED
  BY <1>1 DEF Kept, Working, InPhase

\* The job of an update() is complete: the channel holds the hash of one more run of
\* blocks.
LEMMA JobDoneKept ==
  ASSUME HashInv, Truthful, NEW t \in Tasks, NEW o \in Objects, o = call[t].obj,
         Undisturbed(o), Kept(o), BlockDone(t) \/ BulkDone(t)
  PROVE  Kept(o)'
<1>1. /\ ctx \in [Objects -> Contexts] /\ ctx[o] \in Contexts
      /\ call \in [Tasks -> CallStates] /\ call[t] \in CallStates
      /\ pc[t] = "complete" /\ UNCHANGED <<context, open, session, sent, out>>
  BY HTypes DEF HashInv, BlockDone, BulkDone
<1>2. /\ Owner[o] = t /\ open[o] /\ InPhase(o) /\ out[o] = NoOutput
      /\ ctx[o].channel \in ChannelsOf[t] /\ call[t].pIn \in Nat /\ call[t].rem \in Nat
      /\ BulkSize(t) \in 0 .. call[t].rem
      /\ call[t].pIn + call[t].rem <= MaxMessage
  <2>1. call[t].phase # "none" /\ call[t].phase \in Updates
    BY DEF BlockDone, BulkDone, Updates
  <2> QED
    BY <2>1, CallKept
<1>3. outcome[t] = "done"
  BY <1>1, <1>2 DEF Truthful, Undisturbed
<1>4. BlockSize \in Nat /\ BlockSize # 0
  BY HashAssumption
<1>5. CASE BlockDone(t)
  <2>1. PICK h \in Int : h = call[t].pIn - BlockSize
    BY <1>2, <1>4
  <2>2. /\ ~call[t].workPacket.term /\ call[t].workPacket.size = BlockSize
        /\ BlockSize <= call[t].pIn /\ ctx[o].totalSize = call[t].pIn /\ Hashing(o, h)
    BY <1>2, <1>5, <2>1 DEF InPhase, BlockDone
  <2>3. context[ctx[o].channel] = Running(o, h + BlockSize) /\ h + BlockSize = call[t].pIn
    BY <1>2, <1>3, <1>4, <2>1, <2>2 DEF Hashing
  <2>4. /\ ctx'[o].channel = ctx[o].channel /\ ctx'[o].totalSize = call[t].pIn
        /\ ctx'[o].isStarted /\ ctx'[o].currBlockSize = 0
    <3>1. ctx'[o] = [ctx[o] EXCEPT !.workScheduled = FALSE, !.isStarted = TRUE,
                                   !.currBlockSize = 0]
      BY <1>1, <1>5 DEF BlockDone
    <3> QED
      BY <1>1, <2>2, <3>1 DEF Contexts
  <2>5. call'[t].phase = "bulk" /\ call'[t].obj = o /\ call'[t].pIn = call[t].pIn
    BY <1>1, <1>5 DEF BlockDone, CallStates
  <2>6. PICK n \in Nat : n = call[t].pIn
    BY <1>2
  <2>7. context[ctx[o].channel] = Running(o, n) /\ n # 0
    BY <1>2, <1>4, <2>2, <2>3, <2>6
  <2>8. Ready(o, n)'
    BY <1>1, <2>4, <2>7 DEF Ready, Running
  <2> QED
    BY <1>1, <1>2, <2>4, <2>5, <2>6, <2>8, InBulk
<1>6. CASE BulkDone(t)
  <2>1. PICK h \in Nat : h = call[t].pIn
    BY <1>2
  <2>2. PICK n \in Nat : n = h + BulkSize(t)
    BY <1>2, <2>1
  <2>3. /\ ~call[t].workPacket.term /\ call[t].workPacket.size = BulkSize(t)
        /\ call[t].workPacket.size # 0 /\ ctx[o].currBlockSize = 0
        /\ ctx[o].totalSize = h /\ Hashing(o, h)
    BY <1>2, <1>6, <2>1 DEF InPhase, BulkDone
  <2>4. context[ctx[o].channel] = Running(o, n) /\ n # 0
    BY <1>2, <1>3, <2>1, <2>2, <2>3 DEF Hashing
  <2>5. Sum(h, BulkSize(t)) = n
    <3>1. BulkSize(t) \in Nat /\ h + BulkSize(t) <= MaxMessage
      BY <1>2, <2>1, HashAssumption
    <3> QED
      BY <2>2, <3>1, SumExact
  <2>6. /\ ctx'[o].channel = ctx[o].channel /\ ctx'[o].totalSize = n
        /\ ctx'[o].isStarted /\ ctx'[o].currBlockSize = 0
    <3>1. ctx'[o] = [ctx[o] EXCEPT !.workScheduled = FALSE, !.isStarted = TRUE,
                                   !.totalSize = Sum(@, BulkSize(t))]
      BY <1>1, <1>6 DEF BulkDone
    <3> QED
      BY <1>1, <2>3, <2>5, <3>1 DEF Contexts
  <2>7. call'[t].phase = "bulk" /\ call'[t].obj = o /\ call'[t].pIn = n
    <3>1. call'[t] = [call[t] EXCEPT !.phase = "bulk", !.pIn = @ + BulkSize(t),
                                     !.rem = @ - BulkSize(t)]
      BY <1>1, <1>6 DEF BulkDone
    <3> QED
      BY <1>1, <2>1, <2>2, <3>1 DEF CallStates
  <2>8. Ready(o, n)'
    BY <1>1, <2>4, <2>6 DEF Ready, Running
  <2> QED
    BY <1>1, <1>2, <2>6, <2>7, <2>8, InBulk
<1> QED
  BY <1>5, <1>6

LEMMA BulkKept ==
  ASSUME HashInv, NEW t \in Tasks, NEW o \in Objects, o = call[t].obj, Kept(o), Bulk(t)
  PROVE  Kept(o)'
<1>1. /\ ctx[o] \in Contexts /\ call \in [Tasks -> CallStates] /\ call[t] \in CallStates
      /\ TypeOK /\ call[t].phase = "bulk" /\ UNCHANGED <<ctx, context, open, session, sent, out>>
  BY HTypes DEF HashInv, Bulk
<1>2. /\ Owner[o] = t /\ open[o] /\ InPhase(o) /\ out[o] = NoOutput /\ pc[t] = "idle"
      /\ ctx[o].channel \in ChannelsOf[t] /\ BulkSize(t) \in Nat /\ BulkSize(t) # 0
  BY <1>1, CallKept DEF Bulk, CallShape, Jobs
<1>3. PICK h \in Nat : h = call[t].pIn
  BY <1>1, CallFields
<1>4. Ready(o, h) /\ ctx[o].currBlockSize = 0 /\ ctx[o].totalSize = h
  BY <1>1, <1>2, <1>3 DEF InPhase
<1>5. Submit(t, ctx[o].channel) /\ ~ctx[o].workScheduled
  BY <1>2, ScheduleSubmits DEF Bulk
<1>6. outcome'[t] = "none"
  BY <1>1, <1>5, Entered, ChannelType
<1>7. PICK term \in BOOLEAN : term = FALSE
  OBVIOUS
<1>8. PICK size \in Nat : size = BulkSize(t)
  BY <1>2
<1>9. call'[t] = [call[t] EXCEPT !.phase = "bulkJob", !.workPacket = Packet(t, o, term, h, size)]
  BY <1>1, <1>3, <1>7, <1>8 DEF Bulk
<1>10. /\ call'[t].phase = "bulkJob" /\ call'[t].obj = o /\ call'[t].pIn = h
       /\ call'[t].rem = call[t].rem /\ call'[t].workPacket = Packet(t, o, term, h, size)
  BY <1>1, <1>3, <1>9 DEF CallStates
<1>11. Ready(o, h)'
  BY <1>1, <1>4 DEF Ready, Running
<1>12. Hashing(o, h)' /\ call'[t].workPacket.term = term /\ call'[t].workPacket.size = size
  BY <1>1, <1>2, <1>5, <1>6, <1>10, <1>11, StartsHashing
<1>13. BulkSize(t)' = size
  BY <1>8, <1>10 DEF BulkSize
<1>14. Hashing(o, call[t].pIn)'
  BY <1>10, <1>12
<1> QED
  BY <1>1, <1>2, <1>4, <1>7, <1>8, <1>10, <1>12, <1>13, <1>14 DEF Kept, Working, InPhase
\* update() returns: what is left goes to the block buffer, the hash of the rest to the
\* context.
LEMMA TailKept ==
  ASSUME HashInv, NEW t \in Tasks, NEW o \in Objects, o = call[t].obj,
         Undisturbed(o), Kept(o),
         Tail(t)
  PROVE  Kept(o)'
<1>1. /\ ctx \in [Objects -> Contexts] /\ ctx[o] \in Contexts /\ HistoryOK
      /\ call \in [Tasks -> CallStates] /\ call[t].phase = "bulk"
      /\ UNCHANGED <<context, open, session, out>>
  BY HTypes DEF HashInv, Tail
<1>2. /\ Owner[o] = t /\ open[o] /\ InPhase(o) /\ out[o] = NoOutput
      /\ ctx[o].channel \in ChannelsOf[t] /\ call[t].pIn \in Nat /\ call[t].rem \in Nat
      /\ call[t].pIn + call[t].rem <= MaxMessage
  BY <1>1, CallKept DEF Updates
<1>3. PICK h \in Nat : h = call[t].pIn
  BY <1>2
<1>4. PICK r \in Nat : r = call[t].rem
  BY <1>2
<1>5. ctx[o].totalSize = h /\ Ready(o, h)
  BY <1>1, <1>2, <1>3 DEF InPhase
<1>6. Sum(h, r) = h + r
  BY <1>2, <1>3, <1>4, SumExact
<1>7. /\ ctx'[o].channel = ctx[o].channel /\ ctx'[o].totalSize = h + r
      /\ ctx'[o].currBlockSize = r /\ ctx'[o].blockFrom = h
      /\ ctx'[o].isStarted = ctx[o].isStarted
      /\ ctx'[o].runningHash = context[ctx[o].channel]
  <2>1. ctx'[o] = [ctx[o] EXCEPT !.blockFrom = h, !.currBlockSize = r, !.totalSize = Sum(@, r),
                                 !.runningHash = context[ctx[o].channel]]
    BY <1>1, <1>3, <1>4 DEF Tail
  <2> QED
    BY <1>1, <1>5, <1>6, <2>1 DEF Contexts
<1>8. sent'[o] = h + r /\ call'[t].phase = "none"
  BY <1>1, <1>3, <1>4, NoCallType DEF Tail, HistoryOK
<1>9. sent'[o] - ctx'[o].currBlockSize = h
  BY <1>7, <1>8
<1>10. Saved(o)'
  BY <1>1, <1>5, <1>7, <1>8, <1>9 DEF Saved, Ready, Running
<1> QED
  BY <1>1, <1>2, <1>7, <1>8, <1>10 DEF Kept, Working

LEMMA CrcDigest ==
  ASSUME NEW o \in CrcObjects, NEW n
  PROVE  Digest(o, n) = Running(o, n)
<1>1. PICK f : f = (o \notin CrcObjects)
  OBVIOUS
<1>2. f = FALSE /\ Digest(o, n) = [Running(o, n) EXCEPT !.final = f]
  BY <1>1 DEF Digest
<1> QED
  BY <1>2 DEF Running

\* A finalize() that writes to its output writes the digest of what was accepted.
LEMMA FinalizeWrites ==
  ASSUME HashInv, Truthful, NEW t \in Tasks, NEW o \in Objects,
         Undisturbed(o), Kept(o),
         \/ call[t].obj = o /\ FinalizeDone(t)
         \/ FinalizeEmpty(t, o) \/ FinalizeCrc(t, o)
  PROVE  out' = [out EXCEPT ![o] = Digest(o, sent[o])]
<1>1. ctx[o] \in Contexts /\ ctx[o].currBlockSize \in Nat /\ sent[o] \in Nat
  BY ContextFields, InCallFacts, HTypes DEF HashInv
<1>2. CASE call[t].obj = o /\ FinalizeDone(t)
  <2>1. call[t].phase = "final" /\ pc[t] = "complete"
        /\ out' = [out EXCEPT ![o] = ctx[o].runningHash]
    BY <1>2 DEF FinalizeDone
  <2>2. Owner[o] = t /\ InPhase(o) /\ call[t] \in CallStates
    BY <1>2, <2>1, CallKept
  <2>3. outcome[t] = "done"
    BY <2>1, <2>2 DEF Truthful, Undisturbed
  <2>4. PICK h \in Int : h = sent[o] - call[t].workPacket.size
    BY <1>1, <2>2, CallFields
  <2>5. h + call[t].workPacket.size = sent[o]
    BY <1>1, <2>2, <2>4, CallFields
  <2>6. Hashing(o, h) /\ call[t].workPacket.term
    BY <2>1, <2>2, <2>4 DEF InPhase
  <2> QED
    BY <2>1, <2>2, <2>3, <2>5, <2>6 DEF Hashing
<1>3. CASE FinalizeEmpty(t, o) \/ FinalizeCrc(t, o)
  <2>1. Saved(o)
    BY <1>3 DEF FinalizeEmpty, FinalizeCrc, Usable, Idle, Kept, Working
  <2>2. CASE FinalizeEmpty(t, o)
    BY <2>1, <2>2 DEF FinalizeEmpty, Saved
  <2>3. CASE FinalizeCrc(t, o)
    <3>1. o \in CrcObjects /\ out' = [out EXCEPT ![o] = ctx[o].runningHash]
          /\ ctx[o].currBlockSize = 0 /\ sent[o] # 0
      BY <2>1, <2>3 DEF FinalizeCrc, NoJobLeft, Saved
    <3>2. sent[o] - ctx[o].currBlockSize = sent[o]
      BY <1>1, <3>1
    <3>3. ctx[o].runningHash = Running(o, sent[o])
      BY <2>1, <3>1, <3>2 DEF Saved
    <3> QED
      BY <3>1, <3>3, CrcDigest
  <2> QED
    BY <1>3, <2>2, <2>3
<1> QED
  BY <1>2, <1>3

\* The end of a calculation: nothing is written, or the digest of what was accepted.
LEMMA EndKept ==
  ASSUME HashInv, Truthful, NEW t \in Tasks, NEW o \in Objects,
         Undisturbed(o), Kept(o),
         \/ /\ call[t].obj = o
            /\ UpdateFail(t) \/ FinalizeDone(t) \/ FinalizeFail(t)
         \/ FinalizeNothing(t, o) \/ FinalizeEmpty(t, o) \/ FinalizeCrc(t, o)
  PROVE  Kept(o)'
<1>1. HistoryOK
  BY HTypes DEF HashInv
<1>2. ~open'[o] /\ UNCHANGED <<session, sent>>
  BY <1>1 DEF UpdateFail, FinalizeDone, FinalizeFail, FinalizeNothing, FinalizeEmpty, FinalizeCrc,
              EndCalculation, HistoryOK
<1> SUFFICES out'[o] = NoOutput \/ out'[o] = Digest(o, sent[o])
  BY <1>2 DEF Kept, Digest, Running
<1>3. CASE call[t].obj = o /\ (UpdateFail(t) \/ FinalizeFail(t))
  <2>1. call[t].phase # "none"
    BY <1>3 DEF UpdateFail, FinalizeFail
  <2> QED
    BY <1>3, <2>1, CallKept DEF UpdateFail, FinalizeFail
<1>4. CASE FinalizeNothing(t, o)
  BY <1>4 DEF FinalizeNothing, Usable, Kept
<1>5. CASE \/ call[t].obj = o /\ FinalizeDone(t)
           \/ FinalizeEmpty(t, o) \/ FinalizeCrc(t, o)
  BY <1>1, <1>5, FinalizeWrites DEF HistoryOK
<1> QED
  BY <1>3, <1>4, <1>5

LEMMA FinalizeBeginKept ==
  ASSUME HashInv, NEW t \in Tasks, NEW o \in Objects, Kept(o), FinalizeBegin(t, o)
  PROVE  Kept(o)'
<1>1. /\ ctx[o] \in Contexts /\ call \in [Tasks -> CallStates] /\ TypeOK
      /\ context \in [Channels -> HashValues] /\ ctx[o].channel \in Channels
      /\ UNCHANGED <<ctx, open, session, sent, out>> /\ sent[o] \in Nat
  BY HTypes, ChannelType, InCallFacts DEF HashInv, FinalizeBegin
<1>2. /\ Owner[o] = t /\ open[o] /\ ~Working(o) /\ Saved(o) /\ out[o] = NoOutput
      /\ pc[t] = "idle" /\ ctx[o].channel \in ChannelsOf[t]
  BY DEF FinalizeBegin, Usable, Idle, Kept, Working
<1>3. PICK size \in Nat : size = ctx[o].currBlockSize
  BY <1>1, ContextFields
<1>4. PICK h \in Int : h = sent[o] - size
  BY <1>1
<1>5. PICK from \in Nat : from = ctx[o].blockFrom
  BY <1>1, ContextFields
<1>6. PICK term \in BOOLEAN : term = TRUE
  OBVIOUS
<1>7. Submit(t, ctx[o].channel) /\ ~ctx[o].workScheduled
  BY <1>2, ScheduleSubmits DEF FinalizeBegin
<1>8. outcome'[t] = "none"
  BY <1>1, <1>7, Entered
<1>9. /\ call'[t].phase = "final" /\ call'[t].obj = o
      /\ call'[t].workPacket = Packet(t, o, term, from, size)
  <2>1. call'[t] = [NoCall EXCEPT !.phase = "final", !.obj = o,
                                  !.workPacket = Packet(t, o, term, from, size)]
    BY <1>1, <1>3, <1>5, <1>6 DEF FinalizeBegin
  <2> QED
    BY <2>1, NoCallType
<1>10. Ready(o, h)'
  BY <1>1, <1>2, <1>3, <1>4 DEF FinalizeBegin, Restored, Ready, Saved, Running
<1>11. size # 0 => from = h
  BY <1>2, <1>3, <1>4, <1>5 DEF Saved
<1>12. Hashing(o, h)' /\ call'[t].workPacket.term = term /\ call'[t].workPacket.size = size
  BY <1>1, <1>2, <1>7, <1>8, <1>9, <1>10, <1>11, StartsHashing
<1>13. Hashing(o, sent[o] - call[t].workPacket.size)'
  BY <1>1, <1>4, <1>12
<1>14. sent'[o] # 0
  BY <1>1, <1>2 DEF Saved, FinalizeBegin
<1> QED
  BY <1>1, <1>2, <1>6, <1>9, <1>12, <1>13, <1>14 DEF Kept, Working, InPhase

LEMMA DriveKept ==
  ASSUME HashInv, NEW t \in Tasks, NEW o \in Objects, o = call[t].obj, Kept(o), Drive(t)
  PROVE  Kept(o)'
<1>1. ctx \in [Objects -> Contexts] /\ ctx[o] \in Contexts
  BY HTypes DEF HashInv
<1>2. UNCHANGED <<outcome, context, call, open, session, sent, out>>
  BY DEF Drive, ScheduleWorkStart, ScheduleWorkCheck, ScheduleWorkTaken, Poll, Status,
         ClearStatus, hashVars
<1>3. SameContext(o)
  <2>1. ctx'[o] = ctx[o] \/ ctx'[o] = [ctx[o] EXCEPT !.workScheduled = TRUE]
    BY <1>1 DEF Drive, hashVars
  <2> QED
    BY <1>1, <2>1 DEF SameContext, Contexts
<1> QED
  BY <1>2, <1>3, FrameKept

\* The job of a call ends: if it went well, the channel or the object holds the hash of
\* its bytes too.
LEMMA JobHashed ==
  ASSUME HashInv, Pending, NEW c \in Channels, HashHwStep(c),
         NEW t \in Tasks, NEW o \in Objects, t = cmd[c], o = call[t].obj,
         NEW h \in Int, Hashing(o, h), h + call[t].workPacket.size \in Nat,
         call[t].workPacket.term \/ call[t].workPacket.size % BlockSize = 0
  PROVE  Hashing(o, h)'
<1>1. /\ ctx \in [Objects -> Contexts] /\ ctx[o] \in Contexts /\ TypeOK
      /\ context \in [Channels -> HashValues] /\ call[t] \in CallStates
      /\ busy[c] /\ UNCHANGED <<call, session>>
  BY HTypes, HwFrame DEF HashInv
<1>2. Owner[o] = t /\ ctx[o].channel = c /\ outcome[t] = "none"
  BY <1>1, JobsCall DEF Pending
<1>3. CASE HashHwError(c)
  <2>1. outcome'[t] = "error"
    BY <1>1, <1>3 DEF HashHwError, HwError, TypeOK
  <2> QED
    BY <1>1, <1>2, <2>1 DEF Hashing
<1>4. CASE HashHwDone(c)
  <2>1. outcome'[t] = "done"
    BY <1>1, <1>4 DEF HashHwDone, HwDone, TypeOK
  <2>2. PICK p : p = call[t].workPacket
    OBVIOUS
  <2>3. p \in [init: BOOLEAN, term: BOOLEAN, from: Nat, size: Nat] /\ p.size \in Nat
    BY <1>1, <2>2, CallFields
  <2>4. Ready(o, h) /\ (p.init <=> ~ctx[o].isStarted) /\ (p.size # 0 => p.from = h)
    BY <1>2, <2>2 DEF Hashing
  <2>5. (IF p.init THEN Running(o, 0) ELSE context[c]) = Running(o, h)
    BY <1>2, <2>4 DEF Ready
  <2>6. PICK n \in Nat : n = h + p.size
    BY <2>2
  <2>7. Hashed(c, o, p) = Running(o, n)
    <3>1. CASE p.size = 0
      BY <2>5, <2>6, <3>1 DEF Hashed
    <3>2. CASE p.size # 0
      BY <2>2, <2>4, <2>5, <2>6, <3>2 DEF Hashed
    <3> QED
      BY <3>1, <3>2
  <2>8. Running(o, n) # Garbage
    BY RunningType DEF HashInv
  <2>9. IF p.term THEN ctx'[o].runningHash = Digest(o, n)
                  ELSE ctx'[o] = ctx[o] /\ context'[c] = Running(o, n)
    BY <1>1, <1>4, <2>2, <2>7, <2>8 DEF HashHwDone, Digest, Contexts
  <2> QED
    BY <1>1, <1>2, <2>1, <2>2, <2>6, <2>9 DEF Hashing, Digest, Running
<1> QED
  BY <1>3, <1>4 DEF HashHwStep

LEMMA HwKept ==
  ASSUME HashInv, Pending, NEW c \in Channels, HashHwStep(c),
         NEW t \in Tasks, NEW o \in Objects, t = cmd[c], o = call[t].obj, Kept(o)
  PROVE  Kept(o)'
<1>1. /\ ctx \in [Objects -> Contexts] /\ ctx[o] \in Contexts /\ call[t] \in CallStates
      /\ busy[c] /\ UNCHANGED <<call, open, session, sent, out>>
  BY HTypes, HwFrame DEF HashInv
<1>2. call[t].phase \in Jobs
  BY <1>1, JobsCall
<1>3. /\ Owner[o] = t /\ open[o] /\ InPhase(o) /\ out[o] = NoOutput
      /\ ctx[o].channel \in ChannelsOf[t] /\ call[t].pIn \in Nat /\ sent[o] \in Nat
  BY <1>2, CallKept DEF Jobs
<1>4. /\ ctx'[o].channel = ctx[o].channel /\ ctx'[o].totalSize = ctx[o].totalSize
      /\ ctx'[o].currBlockSize = ctx[o].currBlockSize
  BY <1>1 DEF HashHwStep, HashHwDone, HashHwError, Contexts
<1>5. BlockSize \in Nat /\ BlockSize # 0 /\ BlockSize % BlockSize = 0
  BY HashAssumption
<1> SUFFICES InPhase(o)'
  BY <1>1, <1>2, <1>3, <1>4 DEF Kept, Working, Jobs
<1>6. CASE call[t].phase = "block"
  <2>1. PICK h \in Nat : h = call[t].pIn - BlockSize
    BY <1>3, <1>5, <1>6 DEF InPhase
  <2>2. Hashing(o, h) /\ call[t].workPacket.size = BlockSize
    BY <1>3, <1>6, <2>1 DEF InPhase
  <2>3. Hashing(o, h)'
    BY <1>5, <2>1, <2>2, JobHashed
  <2>4. Hashing(o, call[t].pIn - BlockSize)'
    BY <1>1, <2>1, <2>3
  <2> QED
    BY <1>1, <1>3, <1>4, <1>6, <2>4 DEF InPhase
<1>7. CASE call[t].phase = "bulkJob"
  <2>1. PICK h \in Nat : h = call[t].pIn
    BY <1>3
  <2>2. Hashing(o, h) /\ call[t].workPacket.size = BulkSize(t)
    BY <1>3, <1>7, <2>1 DEF InPhase
  <2>3. BulkSize(t) \in Nat /\ BulkSize(t) % BlockSize = 0
    BY <1>1, CallFields, WholeBlocks DEF BulkSize
  <2>4. Hashing(o, h)'
    BY <2>1, <2>2, <2>3, JobHashed
  <2>5. Hashing(o, call[t].pIn)' /\ BulkSize(t)' = BulkSize(t)
    BY <1>1, <2>1, <2>4 DEF BulkSize
  <2> QED
    BY <1>1, <1>3, <1>4, <1>7, <2>5 DEF InPhase
<1>8. CASE call[t].phase = "final"
  <2>1. PICK h \in Int : h = sent[o] - call[t].workPacket.size
    BY <1>1, <1>3, CallFields
  <2>2. Hashing(o, h) /\ call[t].workPacket.term /\ h + call[t].workPacket.size \in Nat
    BY <1>1, <1>3, <1>8, <2>1, CallFields DEF InPhase
  <2>3. Hashing(o, h)'
    BY <2>2, JobHashed
  <2>4. Hashing(o, sent[o] - call[t].workPacket.size)'
    BY <1>1, <2>1, <2>3
  <2> QED
    BY <1>1, <1>3, <1>4, <1>8, <2>4 DEF InPhase
<1> QED
  BY <1>2, <1>6, <1>7, <1>8 DEF Jobs

-----------------------------------------------------------------------------
(* Every step keeps what is kept of every object. *)

\* A step of a call and one between calls, for the object that it is about.
LEMMA CallStepKept ==
  ASSUME HashInv, Truthful, NEW t \in Tasks, NEW o \in Objects, o = call[t].obj,
         Undisturbed(o), Kept(o), CallStep(t)
  PROVE  Kept(o)'
BY FillKept, FillBlockKept, JobDoneKept, BulkKept, TailKept, EndKept, DriveKept DEF CallStep

LEMMA EntryKept ==
  ASSUME HashInv, Truthful, NEW t \in Tasks, NEW o \in Objects, Undisturbed(o), Kept(o),
         Entry(t, o)
  PROVE  Kept(o)'
BY SetUpKept, BeginKept, EndKept, FinalizeBeginKept DEF Entry

LEMMA DisjointChannels ==
  ASSUME NEW o \in Objects, Undisturbed(o), NEW u \in Tasks, Owner[o] # u, NEW c \in ChannelsOf[u]
  PROVE  c \notin ChannelsOf[Owner[o]]
BY DEF Undisturbed, Owners

\* Every object in use is on a channel of its task.
OwnChannels == \A o \in Objects : open[o] => ctx[o].channel \in ChannelsOf[Owner[o]]

LEMMA NextOwnChannels ==
  ASSUME HashInv, OwnChannels, [HNext]_vars
  PROVE  OwnChannels'
<1> SUFFICES ASSUME NEW o \in Objects, open'[o]
             PROVE  ctx'[o].channel \in ChannelsOf[Owner[o]]
  BY DEF OwnChannels
<1>0. ctx \in [Objects -> Contexts] /\ ctx[o] \in Contexts /\ open \in [Objects -> BOOLEAN]
  BY HTypes DEF HashInv, HistoryOK
<1>1. CASE HashDcpInit \/ HashDcpDeinit \/ UNCHANGED vars
  BY <1>1 DEF HashDcpInit, HashDcpDeinit, vars, hashVars, OwnChannels
<1>2. ASSUME NEW t \in Tasks, CallStep(t) PROVE ctx'[o].channel = ctx[o].channel /\ open[o]
  <2>1. PICK p \in Objects : p = call[t].obj
    BY InCallFacts
  <2>2. CASE o # p
    BY <1>2, <2>1, <2>2, CallStepFrame
  <2>3. CASE o = p
    <3>1. open[o]
      BY <1>2, <2>1, <2>3, CallStepFrame
    <3>2. CASE FillPartial(t) \/ FillBlock(t) \/ BlockDone(t) \/ BulkDone(t) \/ Tail(t)
      <4>1. CASE FillPartial(t)
        BY <1>0, <2>1, <2>3, <3>1, <4>1 DEF FillPartial, Contexts
      <4>2. CASE FillBlock(t)
        BY <1>0, <2>1, <2>3, <3>1, <4>2 DEF FillBlock, Contexts
      <4>3. CASE BlockDone(t) \/ BulkDone(t)
        BY <1>0, <2>1, <2>3, <3>1, <4>3 DEF BlockDone, BulkDone, Contexts
      <4>4. CASE Tail(t)
        BY <1>0, <2>1, <2>3, <3>1, <4>4 DEF Tail, Contexts
      <4> QED
        BY <3>2, <4>1, <4>2, <4>3, <4>4
    <3>3. CASE FillNothing(t) \/ Bulk(t)
      BY <3>1, <3>3 DEF FillNothing, Bulk
    <3>4. CASE UpdateFail(t) \/ FinalizeDone(t) \/ FinalizeFail(t)
      BY <1>0, <2>1, <2>3, <3>4 DEF UpdateFail, FinalizeDone, FinalizeFail, EndCalculation
    <3>5. CASE Drive(t)
      BY <1>0, <2>1, <2>3, <3>1, <3>5 DEF Drive, hashVars, Contexts
    <3> QED
      BY <1>2, <3>2, <3>3, <3>4, <3>5 DEF CallStep
  <2> QED
    BY <2>2, <2>3
<1>3. ASSUME NEW t \in Tasks, NEW p \in Objects, Entry(t, p)
      PROVE  ctx'[o].channel \in ChannelsOf[Owner[o]]
  <2>1. CASE o # p
    BY <1>3, <2>1, EntryFrame DEF OwnChannels
  <2>2. ASSUME NEW c \in ChannelsOf[t], HashInit(t, p, c) \/ SetChannel(t, p, c), o = p
        PROVE  ctx'[o].channel \in ChannelsOf[Owner[o]]
    <3>1. Owner[o] = t
      BY <2>2 DEF HashInit, SetChannel, Usable
    <3>2. CASE HashInit(t, p, c)
      BY <1>0, <2>2, <3>1, <3>2 DEF HashInit, Cleared
    <3>3. CASE SetChannel(t, p, c)
      BY <1>0, <2>2, <3>1, <3>3 DEF SetChannel, Contexts
    <3> QED
      BY <2>2, <3>2, <3>3
  <2>3. CASE o = p /\ (FinalizeNothing(t, p) \/ FinalizeEmpty(t, p) \/ FinalizeCrc(t, p))
    BY <1>0, <2>3 DEF FinalizeNothing, FinalizeEmpty, FinalizeCrc, EndCalculation
  <2>4. CASE FinalizeBegin(t, p) \/ \E n \in 1 .. MaxChunk : UpdateBegin(t, p, n)
    BY <2>4 DEF FinalizeBegin, UpdateBegin, OwnChannels
  <2> QED
    BY <1>3, <2>1, <2>2, <2>3, <2>4 DEF Entry
<1>4. ASSUME NEW c \in Channels, HashHwStep(c) PROVE ctx'[o].channel = ctx[o].channel /\ open[o]
  BY <1>0, <1>4 DEF HashHwStep, HashHwDone, HashHwError, Contexts
<1>5. ctx'[o].channel = ctx[o].channel /\ open[o] => ctx'[o].channel \in ChannelsOf[Owner[o]]
  BY DEF OwnChannels
<1> QED
  BY <1>1, <1>2, <1>3, <1>4, <1>5 DEF HNext, Entry

LEMMA NextKept ==
  ASSUME HashInv, Pending, Truthful, OwnChannels, NEW o \in Objects, Undisturbed(o), Kept(o),
         [HNext]_vars
  PROVE  Kept(o)'
<1>1. Kept(o) /\ Owner[o] \in Tasks /\ ChannelsOf[Owner[o]] \subseteq Channels
  BY HashAssumption, DcpAssumption
<1>2. CASE HashDcpInit \/ HashDcpDeinit \/ UNCHANGED vars
  BY <1>1, <1>2, FrameKept
  DEF HashDcpInit, HashDcpDeinit, DcpInit, DcpDeinit, vars, dcpVars, hashVars, SameContext
<1>3. ASSUME NEW u \in Tasks, CallStep(u) PROVE Kept(o)'
  <2>1. PICK p \in Objects : p = call[u].obj
    BY InCallFacts
  <2>2. CASE o = p
    BY <1>1, <1>3, <2>1, <2>2, CallStepKept
  <2>3. CASE o # p
    <3>1. /\ ctx'[o] = ctx[o] /\ open'[o] = open[o] /\ session'[o] = session[o]
          /\ sent'[o] = sent[o] /\ out'[o] = out[o] /\ context' = context
      BY <1>3, <2>1, <2>3, CallStepFrame
    <3>2. CASE Owner[o] = u
      <4>1. ~Working(o) /\ ~Working(o)'
        BY <1>3, <2>1, <2>3, <3>2, CallStepObject DEF Working
      <4> QED
        BY <1>1, <3>1, <4>1, FrameKept DEF SameContext
    <3>3. CASE Owner[o] # u
      <4>1. call'[Owner[o]] = call[Owner[o]] /\ outcome'[Owner[o]] = outcome[Owner[o]]
        BY <1>1, <1>3, <2>1, <3>3, CallStepFrame
      <4> QED
        BY <1>1, <3>1, <4>1, FrameKept DEF SameContext
    <3> QED
      BY <3>2, <3>3
  <2> QED
    BY <2>2, <2>3
<1>4. ASSUME NEW u \in Tasks, NEW p \in Objects, Entry(u, p) PROVE Kept(o)'
  <2>1. CASE o = p
    BY <1>1, <1>4, <2>1, EntryKept
  <2>2. CASE o # p
    <3>1. /\ ctx'[o] = ctx[o] /\ open'[o] = open[o] /\ session'[o] = session[o]
          /\ sent'[o] = sent[o] /\ out'[o] = out[o] /\ Owner[p] = u
      BY <1>4, <2>2, EntryFrame
    <3>2. CASE Owner[o] = u
      <4>1. ~Working(o) /\ ~Working(o)'
        BY <1>4, <2>2, <3>2, EntryFrame DEF Working
      <4> QED
        BY <1>1, <3>1, <4>1, FrameKept DEF SameContext
    <3>3. CASE Owner[o] # u
      <4>1. call'[Owner[o]] = call[Owner[o]] /\ outcome'[Owner[o]] = outcome[Owner[o]]
        BY <1>1, <1>4, <3>3, EntryFrame
      <4>2. \A c \in ChannelsOf[Owner[o]] : context'[c] = context[c]
        <5>1. CASE open[p]
          <6>1. ctx[p].channel \in ChannelsOf[u]
            BY <3>1, <5>1 DEF OwnChannels
          <6>2. ctx[p].channel \notin ChannelsOf[Owner[o]]
            BY <3>3, <6>1, DisjointChannels
          <6> QED
            BY <1>1, <1>4, <6>2, EntryFrame
        <5>2. CASE ~open[p]
          BY <1>4, <5>2, EntryFrame
        <5> QED
          BY <5>1, <5>2
      <4> QED
        BY <1>1, <3>1, <4>1, <4>2, FrameKept DEF SameContext
    <3> QED
      BY <3>2, <3>3
  <2> QED
    BY <2>1, <2>2
<1>5. ASSUME NEW c \in Channels, HashHwStep(c) PROVE Kept(o)'
  <2>1. busy[c]
    BY <1>5 DEF HashHwStep, HashHwDone, HashHwError, HwDone, HwError
  <2>2. PICK t \in Tasks, p \in Objects : t = cmd[c] /\ p = call[t].obj
    BY <2>1, JobsCall
  <2>3. CASE o = p
    BY <1>1, <1>5, <2>2, <2>3, HwKept
  <2>4. CASE o # p
    <3>1. /\ ctx'[o] = ctx[o] /\ UNCHANGED <<call, open, session, sent, out>>
      BY <1>5, <2>2, <2>4, HwFrame
    <3>2. CASE Owner[o] = t
      <4>1. ~Working(o) /\ ~Working(o)'
        BY <2>2, <2>4, <3>1, <3>2 DEF Working
      <4> QED
        BY <1>1, <3>1, <4>1, FrameKept DEF SameContext
    <3>3. CASE Owner[o] # t
      <4>1. outcome'[Owner[o]] = outcome[Owner[o]]
        BY <1>1, <1>5, <2>2, <3>3, HwFrame
      <4>2. c \in ChannelsOf[t]
        BY <2>1, <2>2, JobsCall DEF HashInv, Owned, TypeOK
      <4>3. \A d \in ChannelsOf[Owner[o]] : context'[d] = context[d]
        BY <1>1, <1>5, <2>2, <3>3, <4>2, DisjointChannels, HwFrame
      <4> QED
        BY <1>1, <3>1, <4>1, <4>3, FrameKept DEF SameContext
    <3> QED
      BY <3>2, <3>3
  <2> QED
    BY <2>3, <2>4
<1> QED
  BY <1>2, <1>3, <1>4, <1>5 DEF HNext, Entry

\* What has to hold of the driver and the channels for the messages to be kept, and that
\* they are.
Correct == /\ HashInv /\ Pending /\ Truthful /\ OwnChannels
           /\ \A o \in Objects : Undisturbed(o) => Kept(o)

LEMMA AlwaysCorrect == HSpec => []Correct
<1>1. HInit => OwnChannels /\ \A o \in Objects : Undisturbed(o) => Kept(o)
  BY DEF HInit, Kept, OwnChannels
<1>2. /\ (\A o \in Objects : Undisturbed(o) => Kept(o)) /\ OwnChannels
      /\ HashInv /\ Pending /\ Truthful /\ [HNext]_vars
      => OwnChannels' /\ (\A o \in Objects : Undisturbed(o) => Kept(o))'
  <2> SUFFICES ASSUME \A o \in Objects : Undisturbed(o) => Kept(o), OwnChannels,
                      HashInv, Pending, Truthful, [HNext]_vars
               PROVE  OwnChannels' /\ (\A o \in Objects : Undisturbed(o) => Kept(o))'
    OBVIOUS
  <2>1. ASSUME NEW o \in Objects, Undisturbed(o) PROVE Kept(o)'
    BY <2>1, NextKept
  <2> QED
    BY <2>1, NextOwnChannels DEF Undisturbed
<1>3. /\ HashInv /\ Pending /\ Truthful /\ OwnChannels
      /\ (\A o \in Objects : Undisturbed(o) => Kept(o))
      => Correct
  BY DEF Correct
<1>4. HSpec => [](Pending /\ Truthful)
  BY HashFollowsDriver, AlwaysPending, CompletionIsTruthful, PTL DEF FollowsDriver
<1> QED
  BY <1>1, <1>2, <1>3, <1>4, AlwaysHashInv, PTL DEF HSpec

\* Where no message wraps the size, what finalize() writes on an object whose task owns
\* its channels is the digest of exactly the bytes that update() accepted, for every cut
\* of the message, every change of channel, every failed call and every restart of the
\* DCP, and whatever other objects and tasks do.
THEOREM DigestIsCorrect == MaxMessage < SizeMod => (HSpec => []DigestCorrect)
<1> SUFFICES ASSUME MaxMessage < SizeMod PROVE HSpec => []DigestCorrect
  OBVIOUS
<1>1. Correct => DigestCorrect
  BY DEF Correct, Kept, DigestCorrect, Undisturbed
<1> QED
  BY <1>1, AlwaysCorrect, PTL

\* On the same terms: between its calls the object's own context is all that it needs.
THEOREM ContextKeepsMessage == MaxMessage < SizeMod => (HSpec => []ContextHoldsMessage)
<1> SUFFICES ASSUME MaxMessage < SizeMod PROVE HSpec => []ContextHoldsMessage
  OBVIOUS
<1>1. Correct => ContextHoldsMessage
  <2> SUFFICES ASSUME Correct, NEW o \in Objects, open[o], Owner[o] \in Owners,
                      \A t \in Tasks : call[t].phase # "none" => call[t].obj # o
               PROVE  Saved(o) /\ ~ctx[o].workScheduled
    BY DEF ContextHoldsMessage, Saved
  <2>1. Owner[o] \in Tasks /\ HashInv /\ Kept(o)
    BY HashAssumption DEF Correct, Undisturbed
  <2>2. ~Working(o)
    BY <2>1 DEF Working
  <2>3. ~ctx[o].workScheduled
    BY <2>1, <2>2, NoWork DEF Working, Jobs
  <2> QED
    BY <2>1, <2>2, <2>3 DEF Kept
<1> QED
  BY <1>1, AlwaysCorrect, PTL

-----------------------------------------------------------------------------
(* Hash does what HashSpec promises. *)

AllUndisturbed == \A o \in Objects : Undisturbed(o)

LEMMA DigestOfSent ==
  ASSUME NEW o \in Objects
  PROVE  Abstract!DigestOf(o) = Digest(o, sent[o])
<1>1. PICK f : f = (o \notin CrcObjects)
  OBVIOUS
<1>2. Digest(o, sent[o]) = [Running(o, sent[o]) EXCEPT !.final = f]
  BY <1>1 DEF Digest
<1> QED
  BY <1>1, <1>2 DEF Running, Abstract!DigestOf

\* A step that the caller does not see, one that accepts bytes, and one that ends the
\* calculation.
LEMMA SpecSteps ==
  ASSUME Correct, NEW o \in Objects
  PROVE  /\ UNCHANGED <<open, session, sent, out>> => UNCHANGED Abstract!specVars
         /\ \A n \in 1 .. MaxMessage :
              /\ open[o] /\ sent[o] + n <= MaxMessage
              /\ sent' = [sent EXCEPT ![o] = @ + n] /\ UNCHANGED <<open, session, out>>
              => Abstract!Next
         /\ /\ open[o] /\ open' = [open EXCEPT ![o] = FALSE] /\ UNCHANGED <<session, sent>>
            /\ out' = out \/ out' = [out EXCEPT ![o] = Digest(o, sent[o])]
            => Abstract!Next
<1>1. UNCHANGED <<open, session, sent, out>> => UNCHANGED Abstract!specVars
  BY DEF Abstract!specVars
<1>2. ASSUME NEW n \in 1 .. MaxMessage, open[o], sent[o] + n <= MaxMessage,
             sent' = [sent EXCEPT ![o] = @ + n], UNCHANGED <<open, session, out>>
      PROVE  Abstract!Next
  BY <1>2 DEF Abstract!Next, Abstract!Accept
<1>3. ASSUME open[o], open' = [open EXCEPT ![o] = FALSE], UNCHANGED <<session, sent>>,
             out' = out \/ out' = [out EXCEPT ![o] = Digest(o, sent[o])]
      PROVE  Abstract!Next
  BY <1>3, DigestOfSent DEF Abstract!Next, Abstract!Abandon, Abstract!Finish
<1> QED
  BY <1>1, <1>2, <1>3

LEMMA AcceptStep ==
  ASSUME Correct, NEW t \in Tasks, FillPartial(t) \/ Tail(t)
  PROVE  Abstract!Next
<1>1. PICK o \in Objects : o = call[t].obj
  BY InCallFacts DEF Correct
<1>2. /\ open[o] /\ call[t].pIn \in Nat /\ call[t].rem \in Nat /\ sent[o] \in Nat
      /\ sent[o] < call[t].pIn + call[t].rem /\ call[t].pIn + call[t].rem <= MaxMessage
      /\ call[t].phase = "fill" => call[t].pIn = sent[o]
  <2>1. /\ CallShape(t) /\ call[t].pIn \in Nat /\ call[t].rem \in Nat
        /\ sent[o] \in 0 .. MaxMessage
    BY <1>1, InCallFacts DEF Correct
  <2>2. call[t].phase \in {"fill", "bulk"}
    BY DEF FillPartial, Tail
  <2> QED
    BY <1>1, <2>1, <2>2, HashAssumption DEF CallShape, Updates
<1>3. PICK n \in Int : n = (call[t].pIn + call[t].rem) - sent[o]
  BY <1>2
<1>4. n \in 1 .. MaxMessage /\ sent[o] + n = call[t].pIn + call[t].rem
  BY <1>2, <1>3, HashAssumption
<1>5. CASE FillPartial(t)
  <2>1. n = call[t].rem
    BY <1>2, <1>3, <1>5 DEF FillPartial
  <2>2. sent' = [sent EXCEPT ![o] = @ + n] /\ UNCHANGED <<open, session, out>>
    BY <1>1, <1>5, <2>1 DEF FillPartial
  <2> QED
    BY <1>2, <1>4, <2>2, SpecSteps
<1>6. CASE Tail(t)
  <2>1. sent' = [sent EXCEPT ![o] = @ + n] /\ UNCHANGED <<open, session, out>>
    BY <1>1, <1>4, <1>6 DEF Tail
  <2> QED
    BY <1>2, <1>4, <2>1, SpecSteps
<1> QED
  BY <1>5, <1>6

LEMMA EndStep ==
  ASSUME AllUndisturbed, Correct, NEW t \in Tasks, NEW o \in Objects,
         \/ /\ call[t].obj = o
            /\ UpdateFail(t) \/ FinalizeDone(t) \/ FinalizeFail(t)
         \/ FinalizeNothing(t, o) \/ FinalizeEmpty(t, o) \/ FinalizeCrc(t, o)
  PROVE  Abstract!Next
<1>1. open[o]
  <2>1. CASE call[t].phase # "none" /\ call[t].obj = o
    BY <2>1, InCallFacts DEF Correct, CallShape
  <2> QED
    BY <2>1 DEF UpdateFail, FinalizeDone, FinalizeFail, FinalizeNothing, FinalizeEmpty,
                FinalizeCrc, Usable
<1>2. open' = [open EXCEPT ![o] = FALSE] /\ UNCHANGED <<session, sent>>
  BY DEF UpdateFail, FinalizeDone, FinalizeFail, FinalizeNothing, FinalizeEmpty, FinalizeCrc,
         EndCalculation
<1>3. out' = out \/ out' = [out EXCEPT ![o] = Digest(o, sent[o])]
  BY FinalizeWrites DEF UpdateFail, FinalizeFail, FinalizeNothing, Correct, AllUndisturbed
<1> QED
  BY <1>1, <1>2, <1>3, SpecSteps

LEMMA SetUpStep ==
  ASSUME NEW t \in Tasks, NEW o \in Objects, NEW c \in ChannelsOf[t], HashInit(t, o, c)
  PROVE  Abstract!Next
BY DEF HashInit, Abstract!Next, Abstract!Restart

LEMMA NextRefines ==
  ASSUME AllUndisturbed, Correct, [HNext]_vars
  PROVE  [Abstract!Next]_(Abstract!specVars)
<1> SUFFICES Abstract!Next \/ UNCHANGED <<open, session, sent, out>>
  BY DEF Abstract!specVars
<1>1. CASE HashDcpInit \/ HashDcpDeinit \/ UNCHANGED vars
  BY <1>1 DEF HashDcpInit, HashDcpDeinit, vars, hashVars
<1>2. ASSUME NEW t \in Tasks, CallStep(t)
      PROVE  Abstract!Next \/ UNCHANGED <<open, session, sent, out>>
  <2>1. PICK o \in Objects : call[t].obj = o
    BY InCallFacts DEF Correct
  <2>2. CASE FillPartial(t) \/ Tail(t)
    BY <2>2, AcceptStep
  <2>3. CASE UpdateFail(t) \/ FinalizeDone(t) \/ FinalizeFail(t)
    BY <2>1, <2>3, EndStep
  <2>4. CASE FillBlock(t) \/ BlockDone(t) \/ FillNothing(t) \/ Bulk(t) \/ BulkDone(t) \/ Drive(t)
    BY <2>4 DEF FillBlock, BlockDone, FillNothing, Bulk, BulkDone, Drive, hashVars
  <2> QED
    BY <1>2, <2>2, <2>3, <2>4 DEF CallStep
<1>3. ASSUME NEW t \in Tasks, NEW o \in Objects, Entry(t, o)
      PROVE  Abstract!Next \/ UNCHANGED <<open, session, sent, out>>
  <2>1. ASSUME NEW c \in ChannelsOf[t], HashInit(t, o, c) \/ SetChannel(t, o, c)
        PROVE  Abstract!Next \/ UNCHANGED <<open, session, sent, out>>
    BY <2>1, SetUpStep DEF SetChannel
  <2>2. CASE FinalizeNothing(t, o) \/ FinalizeEmpty(t, o) \/ FinalizeCrc(t, o)
    BY <2>2, EndStep
  <2> QED
    BY <1>3, <2>1, <2>2 DEF Entry, UpdateBegin, FinalizeBegin
<1>4. ASSUME NEW c \in Channels, HashHwStep(c) PROVE UNCHANGED <<open, session, sent, out>>
  BY <1>4 DEF HashHwStep, HashHwDone, HashHwError
<1> QED
  BY <1>1, <1>2, <1>3, <1>4 DEF HNext, Entry

\* Where every object's task owns its channels and no message wraps the size, Hash is
\* what its interface promises: every update() that returns
\* true appends its bytes, every finalize() that returns true writes the digest of the
\* message, and a call that fails ends the calculation and writes nothing.
THEOREM HashImplementsSpec == AllUndisturbed => (HSpec => ImplementsHashSpec)
<1> SUFFICES ASSUME AllUndisturbed PROVE HSpec => ImplementsHashSpec
  OBVIOUS
<1>1. HInit => Abstract!Init
  BY DEF HInit, Abstract!Init
<1>2. Correct /\ [HNext]_vars => [Abstract!Next]_(Abstract!specVars)
  BY NextRefines
<1> QED
  BY <1>1, <1>2, AlwaysCorrect, PTL DEF HSpec, ImplementsHashSpec, Abstract!Spec

=============================================================================
