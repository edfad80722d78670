------------------------------- MODULE Cipher -------------------------------
(***************************************************************************)
(* The Cipher class (src/decept/Cipher.cpp) on top of the DCP driver:      *)
(* where the key of a job comes from, the word by word write of a key to   *)
(* the coprocessor's key RAM, and the retry state of crypt().              *)
(*                                                                         *)
(* A block operation is known by its inputs: key, IV, source, direction.   *)
(***************************************************************************)
EXTENDS Dcp

CONSTANTS Objects,   \* the Cipher objects
          Owner,     \* the task that calls each object's functions
          SlotsOf,   \* the key RAM slots each object uses, no two the same
          SramSlots, \* kSlot0 .. kSlot3
          Slot0,     \* kSlot0: what a zeroed context names
          OtpSlots,  \* kOTPKey, kOTPUniqueKey: known by their key
          Payload,   \* kPayload
          Keys, Sources, IVs,
          NoKey, NoIV,
          Channel0,  \* the channel of a context never initialized
          KeyWords,  \* the words of a key: algo_.keySize/4
          RestartAfterFailure,
                     \* whether the program calls init() after a crypt()
                     \* that returned false, as Hash's comments ask for
          Garbage    \* what an operation that did not complete leaves

ASSUME CipherAssumption ==
  /\ Objects # {}
  /\ Channel0 \in Channels
  /\ Owner \in [Objects -> Tasks]
  /\ SlotsOf \in [Objects -> SUBSET SramSlots]
  /\ \A o, p \in Objects : o # p => SlotsOf[o] \cap SlotsOf[p] = {}
  /\ Slot0 \in SramSlots
  /\ Payload \notin SramSlots \cup OtpSlots
  /\ SramSlots \cap OtpSlots = {}
  /\ NoKey \notin Keys \cup OtpSlots
  /\ NoIV \notin IVs
  /\ KeyWords \in Nat \ {0}
  /\ RestartAfterFailure \in BOOLEAN

VARIABLES ctx,       \* Cipher::Context of each object
          keyIndex,  \* KEY.INDEX and KEY.SUBWORD, one pair for everybody
          keyRam,    \* the words of the key RAM
          call,      \* each task's current setKey() or crypt()
          usable,    \* init() was called (and again after a failure)
          keyOf,     \* history: the key that setKey() last reported as set
          asked,     \* history: the inputs of the last crypt()
          returned,  \* history: that crypt() has returned true
          dst        \* the destination buffer

cipherVars == <<ctx, keyIndex, keyRam, call, usable, keyOf, asked, returned, dst>>
vars       == <<dcpVars, cipherVars>>

KeySlots == SramSlots \cup OtpSlots \cup {Payload}
AllKeys  == Keys \cup OtpSlots

Operation(k, v, s, e) == [key |-> k, iv |-> v, src |-> s, encrypt |-> e]
Operations == [key: AllKeys \cup {NoKey, Garbage}, iv: IVs \cup {NoIV},
               src: Sources, encrypt: BOOLEAN] \cup {Garbage}

NoCall == [phase |-> "none", obj |-> CHOOSE o \in Objects : TRUE, word |-> 1,
           key |-> NoKey, cbc |-> FALSE, op |-> Garbage]

CInit ==
  /\ Init
  /\ ctx = [o \in Objects |-> [channel |-> Channel0, keySlot |-> Slot0,
                               keyData |-> NoKey, iv |-> NoIV,
                               workScheduled |-> FALSE]]
  /\ keyIndex \in [slot: SramSlots, word: {1}]
  /\ keyRam = [s \in SramSlots |-> [w \in 1 .. KeyWords |-> NoKey]]
  /\ call = [t \in Tasks |-> NoCall]
  /\ usable = [o \in Objects |-> FALSE]
  /\ keyOf = [o \in Objects |-> NoKey]
  /\ asked = [o \in Objects |-> Garbage]
  /\ returned = [o \in Objects |-> FALSE]
  /\ dst = [o \in Objects |-> Garbage]

Idle(t, o) == pc[t] = "idle" /\ call[t].phase = "none" /\ Owner[o] = t
NoCalls    == \A t \in Tasks : call[t].phase = "none"

-----------------------------------------------------------------------------
(* init() saves and restores the key slot and keyData: the key, and the IV *)
(* of the last CBC call.                                                   *)

\* Mutant: init() does not reset workScheduled.
InitKeepsScheduled(t, o, c) ==
  /\ Idle(t, o) /\ c \in ChannelsOf[t]
  /\ ctx' = [ctx EXCEPT ![o].channel = c]
  /\ usable' = [usable EXCEPT ![o] = TRUE]
  /\ UNCHANGED <<dcpVars, keyIndex, keyRam, call, keyOf, asked, returned, dst>>

CipherInit(t, o, c) ==
  /\ Idle(t, o) /\ c \in ChannelsOf[t]
  /\ ctx' = [ctx EXCEPT ![o].channel = c, ![o].workScheduled = FALSE]
  /\ usable' = [usable EXCEPT ![o] = TRUE]
  /\ UNCHANGED <<dcpVars, keyIndex, keyRam, call, keyOf, asked, returned, dst>>

-----------------------------------------------------------------------------
(* setKey(). *)

\* The fuses may not have been read: then setKey() returns false.
SetKeyOtp(t, o, s) ==
  /\ Idle(t, o) /\ clockOn
  /\ s \in OtpSlots
  /\ ctx' = [ctx EXCEPT ![o].keySlot = s, ![o].keyData = NoKey, ![o].iv = NoIV]
  /\ \E ready \in BOOLEAN : keyOf' = [keyOf EXCEPT ![o] = IF ready THEN s ELSE NoKey]
  /\ UNCHANGED <<dcpVars, keyIndex, keyRam, call, usable, asked, returned, dst>>

SetKeyPayload(t, o, k) ==
  /\ Idle(t, o)
  /\ ctx' = [ctx EXCEPT ![o].keySlot = Payload, ![o].keyData = k]
  /\ keyOf' = [keyOf EXCEPT ![o] = k]
  /\ UNCHANGED <<dcpVars, keyIndex, keyRam, call, usable, asked, returned, dst>>

\* A key RAM slot: point KEY at it, ...
SetKeyIndex(t, o, s, k) ==
  /\ Idle(t, o) /\ clockOn
  /\ s \in SlotsOf[o]
  /\ ctx' = [ctx EXCEPT ![o].keySlot = s, ![o].keyData = k]
  /\ keyIndex' = [slot |-> s, word |-> 1]
  /\ call' = [call EXCEPT ![t] = [NoCall EXCEPT !.phase = "setKey", !.obj = o, !.key = k]]
  /\ keyOf' = [keyOf EXCEPT ![o] = NoKey]
  /\ UNCHANGED <<dcpVars, keyRam, usable, asked, returned, dst>>

\* Mutant: one word too many.
SetKeyWordTooMany(t) ==
  /\ call[t].phase = "setKey"
  /\ call[t].word <= KeyWords + 1
  /\ keyRam' = [keyRam EXCEPT ![keyIndex.slot][keyIndex.word] = ctx[call[t].obj].keyData]
  /\ keyIndex' = [keyIndex EXCEPT !.word = (@ % KeyWords) + 1]
  /\ call' = [call EXCEPT ![t].word = @ + 1]
  /\ UNCHANGED <<dcpVars, ctx, usable, keyOf, asked, returned, dst>>

\* ... write KEYDATA once for each word (the subword pointer advances), ...
SetKeyWord(t) ==
  /\ call[t].phase = "setKey"
  /\ call[t].word <= KeyWords
  /\ keyRam' = [keyRam EXCEPT ![keyIndex.slot][keyIndex.word] = ctx[call[t].obj].keyData]
  /\ keyIndex' = [keyIndex EXCEPT !.word = (@ % KeyWords) + 1]
  /\ call' = [call EXCEPT ![t].word = @ + 1]
  /\ UNCHANGED <<dcpVars, ctx, usable, keyOf, asked, returned, dst>>

\* Mutant: the last word is not written.
SetKeyEndEarly(t) ==
  /\ call[t].phase = "setKey"
  /\ call[t].word >= KeyWords
  /\ ctx' = [ctx EXCEPT ![call[t].obj].keyData = NoKey, ![call[t].obj].iv = NoIV]
  /\ call' = [call EXCEPT ![t] = NoCall]
  /\ keyOf' = [keyOf EXCEPT ![call[t].obj] = call[t].key]
  /\ UNCHANGED <<dcpVars, keyIndex, keyRam, usable, asked, returned, dst>>

\* ... and forget the copy in the context.
SetKeyEnd(t) ==
  /\ call[t].phase = "setKey"
  /\ call[t].word > KeyWords
  /\ ctx' = [ctx EXCEPT ![call[t].obj].keyData = NoKey, ![call[t].obj].iv = NoIV]
  /\ call' = [call EXCEPT ![t] = NoCall]
  /\ keyOf' = [keyOf EXCEPT ![call[t].obj] = call[t].key]
  /\ UNCHANGED <<dcpVars, keyIndex, keyRam, usable, asked, returned, dst>>

-----------------------------------------------------------------------------
(* crypt(): ECB without an IV, CBC with one.  (Sizes that are zero or no    *)
(* multiple of the block size change nothing.)                              *)

\* Mutant: the IV of an earlier call is used.
CryptKeepsIV(t, o, s, v, e) ==
  /\ Idle(t, o)
  /\ usable[o]
  /\ keyOf[o] # NoKey
  /\ ctx' = IF v # NoIV /\ ctx[o].iv = NoIV THEN [ctx EXCEPT ![o].iv = v] ELSE ctx
  /\ asked' = [asked EXCEPT ![o] = Operation(keyOf[o], v, s, e)]
  /\ returned' = [returned EXCEPT ![o] = FALSE]
  /\ Submit(t, ctx[o].channel)
  /\ call' = [call EXCEPT ![t] =
                [NoCall EXCEPT !.phase = "crypt", !.obj = o, !.cbc = (v # NoIV),
                               !.op = Operation(ctx[o].keySlot, NoIV, s, e)]]
  /\ UNCHANGED <<keyIndex, keyRam, usable, keyOf, dst>>

Crypt(t, o, s, v, e) ==
  /\ Idle(t, o)
  /\ usable[o]
  /\ keyOf[o] # NoKey
  /\ ctx' = IF v # NoIV THEN [ctx EXCEPT ![o].iv = v] ELSE ctx
  /\ asked' = [asked EXCEPT ![o] = Operation(keyOf[o], v, s, e)]
  /\ returned' = [returned EXCEPT ![o] = FALSE]
  /\ IF ctx[o].workScheduled
     THEN /\ Await(t, ctx[o].channel)
          /\ call' = [call EXCEPT ![t] = [NoCall EXCEPT !.phase = "crypt", !.obj = o]]
     ELSE /\ Submit(t, ctx[o].channel)
          /\ call' = [call EXCEPT ![t] =
                        [NoCall EXCEPT !.phase = "crypt", !.obj = o, !.cbc = (v # NoIV),
                                       !.op = Operation(ctx[o].keySlot, NoIV, s, e)]]
  /\ UNCHANGED <<keyIndex, keyRam, usable, keyOf, dst>>

CryptDone(t) ==
  LET o == call[t].obj
  IN /\ call[t].phase = "crypt"
     /\ pc[t] = "complete"
     /\ Retire(t)
     /\ ctx' = [ctx EXCEPT ![o].workScheduled = FALSE]
     /\ returned' = [returned EXCEPT ![o] = TRUE]
     /\ call' = [call EXCEPT ![t] = NoCall]
     /\ UNCHANGED <<keyIndex, keyRam, usable, keyOf, asked, dst>>

\* Mutant: a failed job is scheduled again, for ever.
CryptRetry(t) ==
  /\ call[t].phase = "crypt"
  /\ pc[t] = "notScheduled"
  /\ pc' = [pc EXCEPT ![t] = "check"]
  /\ UNCHANGED <<clockOn, hwVars, chan, outcome, cipherVars>>

\* The job failed: return false, with workScheduled still set.
CryptFail(t) ==
  /\ call[t].phase = "crypt"
  /\ pc[t] = "notScheduled"
  /\ Retire(t)
  /\ usable' = [usable EXCEPT ![call[t].obj] = ~RestartAfterFailure]
  /\ call' = [call EXCEPT ![t] = NoCall]
  /\ UNCHANGED <<ctx, keyIndex, keyRam, keyOf, asked, returned, dst>>

-----------------------------------------------------------------------------
(* The driver's and the coprocessor's steps. *)

Drive(t) ==
  \/ /\ ScheduleWorkStart(t)
     /\ ctx' = [ctx EXCEPT ![call[t].obj].workScheduled = TRUE]
     /\ UNCHANGED <<keyIndex, keyRam, call, usable, keyOf, asked, returned, dst>>
  \/ /\ \/ ScheduleWorkCheck(t)
        \/ ScheduleWorkTaken(t)
        \/ Poll(t)
        \/ Status(t)
        \/ ClearStatus(t)
     /\ UNCHANGED cipherVars

\* The key the coprocessor finds when it runs the job: in the payload, in
\* the fuses, or in the key RAM, where it may not be whole.
KeyUsed(o, slot) ==
  IF slot = Payload THEN ctx[o].keyData
  ELSE IF slot \in OtpSlots THEN slot
  ELSE IF \E k \in Keys : \A w \in 1 .. KeyWords : keyRam[slot][w] = k
       THEN keyRam[slot][1]
       ELSE Garbage

CipherHwDone(c) ==
  LET t == cmd[c]
      o == call[t].obj
      p == call[t].op
  IN /\ HwDone(c)
     /\ dst' = [dst EXCEPT ![o] =
                  Operation(KeyUsed(o, p.key), IF call[t].cbc THEN ctx[o].iv ELSE NoIV,
                            p.src, p.encrypt)]
     /\ UNCHANGED <<ctx, keyIndex, keyRam, call, usable, keyOf, asked, returned>>

CipherHwError(c) ==
  /\ HwError(c)
  /\ dst' = [dst EXCEPT ![call[cmd[c]].obj] = Garbage]
  /\ UNCHANGED <<ctx, keyIndex, keyRam, call, usable, keyOf, asked, returned>>

\* The key RAM is not kept over a reset: every key has to be set again.
CipherDcpInit ==
  /\ NoCalls /\ DcpInit
  /\ keyRam' = [s \in SramSlots |-> [w \in 1 .. KeyWords |-> NoKey]]
  /\ keyOf' = [o \in Objects |-> IF ctx[o].keySlot \in SramSlots THEN NoKey ELSE keyOf[o]]
  /\ UNCHANGED <<ctx, keyIndex, call, usable, asked, returned, dst>>

CipherDcpDeinit == NoCalls /\ DcpDeinit /\ UNCHANGED cipherVars

-----------------------------------------------------------------------------

CallStep(t) ==
  \/ SetKeyWord(t)
  \/ SetKeyEnd(t)
  \/ CryptDone(t)
  \/ CryptFail(t)
  \/ Drive(t)

CipherHwStep(c) == CipherHwDone(c) \/ CipherHwError(c)

CNext ==
  \/ CipherDcpInit
  \/ CipherDcpDeinit
  \/ \E t \in Tasks, o \in Objects :
       \/ \E c \in ChannelsOf[t] : CipherInit(t, o, c)
       \/ \E s \in OtpSlots : SetKeyOtp(t, o, s)
       \/ \E k \in Keys : \/ SetKeyPayload(t, o, k)
                          \/ \E s \in SramSlots : SetKeyIndex(t, o, s, k)
       \/ \E s \in Sources, v \in IVs \cup {NoIV}, e \in BOOLEAN : Crypt(t, o, s, v, e)
  \/ \E t \in Tasks : CallStep(t)
  \/ \E c \in Channels : CipherHwStep(c)

CSpec == CInit /\ [][CNext]_vars

CFairness ==
  /\ \A t \in Tasks : WF_vars(CallStep(t))
  /\ \A c \in Channels : WF_vars(CipherHwStep(c))

CFairSpec == CSpec /\ CFairness

-----------------------------------------------------------------------------
(* Properties. *)

CTypeOK ==
  /\ TypeOK
  /\ ctx \in [Objects -> [channel: Channels, keySlot: KeySlots,
                          keyData: Keys \cup {NoKey}, iv: IVs \cup {NoIV},
                          workScheduled: BOOLEAN]]
  /\ keyIndex \in [slot: SramSlots, word: 1 .. KeyWords]
  /\ keyRam \in [SramSlots -> [1 .. KeyWords -> Keys \cup {NoKey}]]
  /\ \A t \in Tasks : call[t].phase \in {"none", "setKey", "crypt"}
                      /\ call[t].word \in 1 .. KeyWords + 1
  /\ usable \in [Objects -> BOOLEAN]
  /\ keyOf \in [Objects -> AllKeys \cup {NoKey}]
  /\ asked \in [Objects -> Operations]
  /\ returned \in [Objects -> BOOLEAN]
  /\ dst \in [Objects -> Operations]

\* "This will return whether successful": when crypt() has returned true the
\* destination holds this call's operation: with the key that setKey() set,
\* this call's IV and direction, on this call's source, and not what an
\* earlier or a failed job left there.  (For the objects of a task that owns
\* its channels: between tasks that share one, a job may report another's.)
CryptCorrect ==
  \A o \in Objects : Owner[o] \in Owners /\ returned[o] => dst[o] = asked[o]

\* A key in the key RAM is never half written while it can be used: all the
\* words of the slot are those of the key that setKey() reported as set.
\* KEY is one index register for the whole program, so this needs that the
\* objects with key RAM slots belong to one task.
KeySlotWhole ==
  \A o \in Objects :
    keyOf[o] # NoKey /\ ctx[o].keySlot \in SramSlots =>
      \A w \in 1 .. KeyWords : keyRam[ctx[o].keySlot][w] = keyOf[o]

\* The coprocessor reads packet, key and IV of a running job by DMA from the
\* object: nothing the program does changes them, nor the slot of its key.
CryptDataStable ==
  [][\A c \in Channels :
       busy[c] /\ busy'[c] =>
         LET o == call[cmd[c]].obj
         IN /\ call'[cmd[c]] = call[cmd[c]]
            /\ ctx'[o] = ctx[o]
            /\ KeyUsed(o, ctx[o].keySlot)' = KeyUsed(o, ctx[o].keySlot)]_vars

\* Cipher uses the driver as it is meant to be used: no poll answers for a
\* job that the same crypt() has not scheduled.  Needs RestartAfterFailure.
FollowsDriver == Spec

\* Every setKey() and every crypt() returns.
CipherCallReturns ==
  \A t \in Tasks : call[t].phase # "none" ~> call[t].phase = "none"

=============================================================================
