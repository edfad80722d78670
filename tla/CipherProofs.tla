---------------------------- MODULE CipherProofs ----------------------------
(***************************************************************************)
(* Proofs about Cipher, for any objects, tasks, channels, keys and key     *)
(* sizes.                                                                  *)
(*                                                                         *)
(* KeyInv, about the keys, holds of any program.  Whole needs one task     *)
(* that writes to the key RAM; CipherInv, about the driver's calls, needs  *)
(* an init() after every failure; Operated, about what is computed, needs  *)
(* both.                                                                   *)
(***************************************************************************)
EXTENDS Cipher, DcpProofs

\* There is one KEY register: one task writes to the key RAM.
OneKeyWriter ==
  \A o, p \in Objects : SlotsOf[o] # {} /\ SlotsOf[p] # {} => Owner[o] = Owner[p]

Contexts   == [channel: Channels, keySlot: KeySlots, keyData: Keys \cup {NoKey},
               iv: IVs \cup {NoIV}, workScheduled: BOOLEAN]
Packets    == [key: KeySlots, iv: {NoIV}, src: Sources, encrypt: BOOLEAN]
CallStates == [phase: {"none", "setKey", "crypt"}, obj: Objects, word: 1 .. KeyWords + 1,
               key: Keys \cup {NoKey}, cbc: BOOLEAN, op: Packets \cup {Garbage}]

KeyTypes ==
  /\ ctx \in [Objects -> Contexts]
  /\ keyIndex \in [slot: SramSlots, word: 1 .. KeyWords]
  /\ keyRam \in [SramSlots -> [1 .. KeyWords -> Keys \cup {NoKey}]]
  /\ call \in [Tasks -> CallStates]
  /\ keyOf \in [Objects -> AllKeys \cup {NoKey}]

\* Where an object's key is, and that it is the one that was set.
KeyPlace(o) ==
  LET slot == ctx[o].keySlot
  IN keyOf[o] # NoKey => /\ slot = Payload => keyOf[o] = ctx[o].keyData
                         /\ slot \in OtpSlots => keyOf[o] = slot
                         /\ slot \in SramSlots => slot \in SlotsOf[o] /\ keyOf[o] \in Keys

\* A setKey() in progress has a slot of its object, and no key is set meanwhile; a
\* crypt() has a key.
CallKey(t) ==
  LET k == call[t]
      x == ctx[k.obj]
  IN /\ k.phase # "none" => Owner[k.obj] = t
     /\ k.phase = "setKey" => /\ x.keySlot \in SlotsOf[k.obj]
                              /\ x.keyData = k.key /\ k.key \in Keys
                              /\ keyOf[k.obj] = NoKey
     /\ k.phase = "crypt" => keyOf[k.obj] # NoKey

KeyInv ==
  /\ KeyTypes
  /\ \A o \in Objects : KeyPlace(o)
  /\ \A t \in Tasks : CallKey(t)

\* The words written so far; KEY points at the next one.
Written(t) ==
  LET k == call[t]
      slot == ctx[k.obj].keySlot
  IN k.phase = "setKey" =>
       /\ keyIndex.slot = slot
       /\ k.word <= KeyWords => keyIndex.word = k.word
       /\ \A w \in 1 .. KeyWords : w < k.word => keyRam[slot][w] = k.key

Whole == KeySlotWhole /\ \A t \in Tasks : Written(t)

\* A task is inside the driver exactly while it is in crypt(), whose packet names the
\* object's key.
CallShape(t) ==
  LET k == call[t]
  IN /\ pc[t] = "idle" <=> k.phase # "crypt"
     /\ k.phase = "crypt" => k.op \in Packets /\ k.op.key = ctx[k.obj].keySlot

\* Work is scheduled for a usable object only within the call that scheduled it.
OwnWork(o) ==
  ctx[o].workScheduled /\ usable[o] => /\ call[Owner[o]].phase = "crypt"
                                       /\ call[Owner[o]].obj = o

CipherInv ==
  /\ Owned
  /\ usable \in [Objects -> BOOLEAN]
  /\ asked \in [Objects -> Operations]
  /\ returned \in [Objects -> BOOLEAN]
  /\ dst \in [Objects -> Operations]
  /\ \A t \in Tasks : CallShape(t)
  /\ \A o \in Objects : OwnWork(o)

\* What a crypt() was asked for is what its packet and its object say, and what its job
\* leaves in the destination; after the call it is still there.
Operated(o) ==
  LET t == Owner[o]
      k == call[t]
  IN /\ t \in Owners /\ returned[o] => dst[o] = asked[o]
     /\ k.phase = "crypt" /\ k.obj = o =>
          /\ ~returned[o] /\ keyOf[o] # NoKey
          /\ asked[o] = Operation(keyOf[o], IF k.cbc THEN ctx[o].iv ELSE NoIV,
                                  k.op.src, k.op.encrypt)
          /\ outcome[t] = "done" => dst[o] = asked[o]

-----------------------------------------------------------------------------
(* KeyInv. *)

LEMMA Slots ==
  /\ KeyWords \in Nat \ {0} /\ 1 \in 1 .. KeyWords /\ 1 \in 1 .. KeyWords + 1
  /\ \A o \in Objects : SlotsOf[o] \subseteq SramSlots /\ Owner[o] \in Tasks
  /\ OtpSlots \cup {Payload} \subseteq KeySlots /\ SramSlots \subseteq KeySlots
  /\ SramSlots \cap OtpSlots = {} /\ Payload \notin SramSlots /\ Payload \notin OtpSlots
BY CipherAssumption DEF KeySlots

LEMMA NoCallType ==
  NoCall \in [phase: {"none"}, obj: Objects, word: {1}, key: {NoKey}, cbc: {FALSE}, op: {Garbage}]
BY CipherAssumption DEF NoCall

LEMMA CallBegins ==
  ASSUME NEW o \in Objects
  PROVE  /\ NoCall \in CallStates /\ NoCall.phase = "none"
         /\ \A cbc \in BOOLEAN, p \in Packets :
              LET b == [NoCall EXCEPT !.phase = "crypt", !.obj = o, !.cbc = cbc, !.op = p]
              IN b \in CallStates /\ b.phase = "crypt" /\ b.obj = o /\ b.cbc = cbc /\ b.op = p
         /\ LET b == [NoCall EXCEPT !.phase = "crypt", !.obj = o]
            IN b \in CallStates /\ b.phase = "crypt" /\ b.obj = o
BY NoCallType, Slots DEF CallStates

\* A step that touches one object and the call of its task keeps KeyInv if it
\* does for them.
LEMMA LocalKey ==
  ASSUME KeyInv, NEW t \in Tasks, NEW o \in Objects, Owner[o] = t,
         call[t].phase = "none" \/ call[t].obj = o,
         NEW x \in Contexts, ctx' = [ctx EXCEPT ![o] = x],
         NEW k \in CallStates, call' = [call EXCEPT ![t] = k],
         keyIndex' \in [slot: SramSlots, word: 1 .. KeyWords],
         keyRam' \in [SramSlots -> [1 .. KeyWords -> Keys \cup {NoKey}]],
         keyOf' \in [Objects -> AllKeys \cup {NoKey}],
         \A p \in Objects \ {o} : keyOf'[p] = keyOf[p],
         KeyPlace(o)', CallKey(t)'
  PROVE  KeyInv'
<1>1. KeyTypes' /\ KeyTypes
  BY DEF KeyInv, KeyTypes
<1>2. ASSUME NEW p \in Objects PROVE KeyPlace(p)'
  <2>1. CASE p # o
    BY <1>1, <2>1 DEF KeyInv, KeyTypes, KeyPlace
  <2> QED
    BY <2>1
<1>3. ASSUME NEW u \in Tasks PROVE CallKey(u)'
  <2>1. CASE u # t
    <3>1. CallKey(u) /\ call'[u] = call[u] /\ call[u].obj \in Objects
      BY <1>1, <2>1 DEF KeyInv, KeyTypes, CallStates
    <3>2. call[u].phase # "none" => call[u].obj # o
      BY <2>1, <3>1 DEF CallKey
    <3>3. \A p \in Objects \ {o} : ctx'[p] = ctx[p]
      BY <1>1 DEF KeyTypes
    <3> QED
      BY <3>1, <3>2, <3>3 DEF CallKey
  <2> QED
    BY <2>1
<1> QED
  BY <1>1, <1>2, <1>3 DEF KeyInv

\* A step that leaves the object's key where it is.
LEMMA SameKey ==
  ASSUME KeyInv, NEW t \in Tasks, NEW o \in Objects, Owner[o] = t,
         call[t].phase = "none" \/ call[t].obj = o,
         NEW x \in Contexts, ctx' = [ctx EXCEPT ![o] = x],
         x.keySlot = ctx[o].keySlot, x.keyData = ctx[o].keyData,
         NEW k \in CallStates, call' = [call EXCEPT ![t] = k],
         k.phase # "none" => k.obj = o, k.phase # "setKey", k.phase = "crypt" => keyOf[o] # NoKey,
         UNCHANGED <<keyIndex, keyRam, keyOf>>
  PROVE  KeyInv'
<1>1. KeyTypes /\ KeyPlace(o)
  BY DEF KeyInv
<1>2. ctx'[o] = x /\ call'[t] = k
  BY <1>1 DEF KeyTypes
<1>3. KeyPlace(o)'
  BY <1>1, <1>2 DEF KeyPlace
<1>4. CallKey(t)'
  BY <1>2 DEF CallKey
<1> QED
  BY <1>1, <1>3, <1>4, LocalKey DEF KeyTypes

LEMMA InitKeyInv == CInit => KeyInv
<1> SUFFICES ASSUME CInit PROVE KeyInv
  OBVIOUS
<1>1. KeyTypes
  BY CipherAssumption, CallBegins, Slots DEF CInit, KeyTypes, Contexts, KeySlots
<1>2. \A o \in Objects : KeyPlace(o)
  BY DEF CInit, KeyPlace
<1>3. \A t \in Tasks : CallKey(t)
  BY NoCallType DEF CInit, CallKey
<1> QED
  BY <1>1, <1>2, <1>3 DEF KeyInv

LEMMA SetKeyKeeps ==
  ASSUME KeyInv, NEW t \in Tasks, NEW o \in Objects,
         \/ \E s \in OtpSlots : SetKeyOtp(t, o, s)
         \/ \E k \in Keys : \/ SetKeyPayload(t, o, k)
                            \/ \E s \in SramSlots : SetKeyIndex(t, o, s, k)
  PROVE  KeyInv'
<1>1. KeyTypes /\ Owner[o] = t /\ call[t].phase = "none" /\ ctx[o] \in Contexts /\ KeyPlace(o)
  BY DEF KeyInv, KeyTypes, SetKeyOtp, SetKeyPayload, SetKeyIndex, Idle
<1>2. ASSUME NEW s \in OtpSlots, SetKeyOtp(t, o, s) PROVE KeyInv'
  <2> DEFINE x == [ctx[o] EXCEPT !.keySlot = s, !.keyData = NoKey, !.iv = NoIV]
  <2>0. s \in KeySlots
    BY DEF KeySlots
  <2>1. x \in Contexts /\ x.keySlot = s /\ ctx' = [ctx EXCEPT ![o] = x]
    <3>1. x \in Contexts /\ x.keySlot = s
      BY <1>1, <2>0 DEF Contexts
    <3>2. ctx' = [ctx EXCEPT ![o] = x]
      BY <1>1, <1>2 DEF SetKeyOtp, KeyTypes
    <3> QED
      BY <3>1, <3>2
  <2>2. /\ keyOf' \in [Objects -> AllKeys \cup {NoKey}] /\ keyOf'[o] \in {s, NoKey}
        /\ \A p \in Objects \ {o} : keyOf'[p] = keyOf[p]
    BY <1>1, <1>2 DEF SetKeyOtp, KeyTypes, AllKeys
  <2> HIDE DEF x
  <2>3. KeyPlace(o)'
    <3>1. ctx'[o].keySlot = s
      BY <1>1, <2>1 DEF KeyTypes
    <3> QED
      BY <2>2, <3>1, Slots DEF KeyPlace
  <2>4. CallKey(t)' /\ UNCHANGED <<keyIndex, keyRam, call>>
    BY <1>1, <1>2 DEF SetKeyOtp, CallKey
  <2>5. call[t] \in CallStates /\ call' = [call EXCEPT ![t] = call[t]]
    BY <1>1, <2>4 DEF KeyTypes
  <2> QED
    BY <1>1, <2>1, <2>2, <2>3, <2>4, <2>5, LocalKey DEF KeyTypes
<1>3. ASSUME NEW k \in Keys, SetKeyPayload(t, o, k) PROVE KeyInv'
  <2> DEFINE x == [ctx[o] EXCEPT !.keySlot = Payload, !.keyData = k]
  <2>1. x \in Contexts /\ x.keySlot = Payload /\ x.keyData = k /\ ctx' = [ctx EXCEPT ![o] = x]
    BY <1>1, <1>3, Slots DEF SetKeyPayload, Contexts
  <2>2. /\ keyOf' \in [Objects -> AllKeys \cup {NoKey}] /\ keyOf'[o] = k
        /\ \A p \in Objects \ {o} : keyOf'[p] = keyOf[p]
    BY <1>1, <1>3 DEF SetKeyPayload, KeyTypes, AllKeys
  <2> HIDE DEF x
  <2>3. KeyPlace(o)'
    <3>1. ctx'[o] = x
      BY <1>1, <2>1 DEF KeyTypes
    <3> QED
      BY <2>1, <2>2, <3>1, Slots DEF KeyPlace
  <2>4. CallKey(t)' /\ UNCHANGED <<keyIndex, keyRam, call>>
    BY <1>1, <1>3 DEF SetKeyPayload, CallKey
  <2>5. call[t] \in CallStates /\ call' = [call EXCEPT ![t] = call[t]]
    BY <1>1, <2>4 DEF KeyTypes
  <2> QED
    BY <1>1, <2>1, <2>2, <2>3, <2>4, <2>5, LocalKey DEF KeyTypes
<1>4. ASSUME NEW k \in Keys, NEW s \in SramSlots, SetKeyIndex(t, o, s, k) PROVE KeyInv'
  <2> DEFINE x == [ctx[o] EXCEPT !.keySlot = s, !.keyData = k]
             b == [NoCall EXCEPT !.phase = "setKey", !.obj = o, !.key = k]
  <2>0. s \in KeySlots
    BY DEF KeySlots
  <2>1. x \in Contexts /\ x.keySlot = s /\ x.keyData = k /\ ctx' = [ctx EXCEPT ![o] = x]
        /\ s \in SlotsOf[o]
    <3>1. x \in Contexts /\ x.keySlot = s /\ x.keyData = k
      BY <1>1, <2>0 DEF Contexts
    <3>2. ctx' = [ctx EXCEPT ![o] = x] /\ s \in SlotsOf[o]
      BY <1>1, <1>4 DEF SetKeyIndex, KeyTypes
    <3> QED
      BY <3>1, <3>2
  <2>2. /\ keyOf' \in [Objects -> AllKeys \cup {NoKey}] /\ keyOf'[o] = NoKey
        /\ \A p \in Objects \ {o} : keyOf'[p] = keyOf[p]
    BY <1>1, <1>4 DEF SetKeyIndex, KeyTypes, AllKeys
  <2>3. b \in CallStates /\ b.phase = "setKey" /\ b.obj = o /\ b.key = k
        /\ call' = [call EXCEPT ![t] = b]
    <3>1. call' = [call EXCEPT ![t] = b]
      BY <1>4 DEF SetKeyIndex
    <3>2. b \in CallStates /\ b.phase = "setKey" /\ b.obj = o /\ b.key = k
      BY NoCallType, Slots DEF CallStates
    <3> QED
      BY <3>1, <3>2
  <2> HIDE DEF x, b
  <2>4. ctx'[o] = x /\ call'[t] = b
    BY <1>1, <2>1, <2>3 DEF KeyTypes
  <2>5. KeyPlace(o)' /\ CallKey(t)'
    BY <1>1, <2>1, <2>2, <2>3, <2>4 DEF KeyPlace, CallKey
  <2>6. keyIndex' \in [slot: SramSlots, word: 1 .. KeyWords] /\ keyRam' = keyRam
    BY <1>4, Slots DEF SetKeyIndex
  <2> QED
    BY <1>1, <2>1, <2>2, <2>3, <2>5, <2>6, LocalKey DEF KeyTypes
<1> QED
  BY <1>2, <1>3, <1>4

LEMMA WriteKeeps ==
  ASSUME KeyInv, NEW t \in Tasks, NEW o \in Objects, o = call[t].obj,
         SetKeyWord(t) \/ SetKeyEnd(t)
  PROVE  KeyInv'
<1>1. /\ KeyTypes /\ Owner[o] = t /\ call[t].phase = "setKey"
      /\ ctx[o] \in Contexts /\ KeyPlace(o) /\ CallKey(t) /\ call[t] \in CallStates
  BY DEF KeyInv, KeyTypes, SetKeyWord, SetKeyEnd, CallKey
<1>2. /\ ctx[o].keySlot \in SlotsOf[o] /\ ctx[o].keyData = call[t].key /\ call[t].key \in Keys
      /\ keyOf[o] = NoKey /\ call[t].word \in Nat
  BY <1>1 DEF CallKey, CallStates
<1>3. CASE SetKeyWord(t)
  <2> DEFINE b == [call[t] EXCEPT !.word = @ + 1]
  <2>1. /\ b \in CallStates /\ b.phase = "setKey" /\ b.obj = o /\ b.key = call[t].key
        /\ call' = [call EXCEPT ![t] = b]
    BY <1>1, <1>2, <1>3, Slots DEF SetKeyWord, CallStates
  <2> HIDE DEF b
  <2>2. UNCHANGED <<ctx, keyOf>> /\ ctx' = [ctx EXCEPT ![o] = ctx[o]] /\ call'[t] = b
    BY <1>1, <1>3, <2>1 DEF SetKeyWord, KeyTypes
  <2>3. keyIndex' \in [slot: SramSlots, word: 1 .. KeyWords]
    <3>1. keyIndex.word \in Nat /\ (keyIndex.word % KeyWords) + 1 \in 1 .. KeyWords
      BY <1>1, Slots DEF KeyTypes
    <3> QED
      BY <1>1, <1>3, <3>1 DEF SetKeyWord, KeyTypes
  <2>4. keyRam' \in [SramSlots -> [1 .. KeyWords -> Keys \cup {NoKey}]]
    BY <1>1, <1>2, <1>3 DEF SetKeyWord, KeyTypes
  <2>5. KeyPlace(o)' /\ CallKey(t)'
    BY <1>1, <1>2, <2>1, <2>2 DEF KeyPlace, CallKey
  <2> QED
    BY <1>1, <2>1, <2>2, <2>3, <2>4, <2>5, LocalKey DEF KeyTypes
<1>4. CASE SetKeyEnd(t)
  <2> DEFINE x == [ctx[o] EXCEPT !.keyData = NoKey, !.iv = NoIV]
  <2>1. x \in Contexts /\ x.keySlot = ctx[o].keySlot /\ ctx' = [ctx EXCEPT ![o] = x]
    BY <1>1, <1>4 DEF SetKeyEnd, Contexts
  <2>2. /\ keyOf' \in [Objects -> AllKeys \cup {NoKey}] /\ keyOf'[o] = call[t].key
        /\ \A p \in Objects \ {o} : keyOf'[p] = keyOf[p]
    BY <1>1, <1>2, <1>4 DEF SetKeyEnd, KeyTypes, AllKeys
  <2> HIDE DEF x
  <2>3. KeyPlace(o)'
    <3>1. ctx'[o].keySlot \in SlotsOf[o]
      BY <1>1, <1>2, <2>1 DEF KeyTypes
    <3> QED
      BY <1>2, <2>2, <3>1, Slots DEF KeyPlace
  <2>4. NoCall \in CallStates /\ NoCall.phase = "none" /\ call' = [call EXCEPT ![t] = NoCall]
        /\ UNCHANGED <<keyIndex, keyRam>>
    BY <1>4, CallBegins DEF SetKeyEnd
  <2>5. CallKey(t)'
    BY <1>1, <2>4 DEF CallKey, KeyTypes
  <2> QED
    BY <1>1, <2>1, <2>2, <2>3, <2>4, <2>5, LocalKey DEF KeyTypes
<1> QED
  BY <1>3, <1>4

LEMMA CryptCall ==
  ASSUME KeyTypes, NEW t \in Tasks, NEW o \in Objects,
         NEW s \in Sources, NEW v \in IVs \cup {NoIV}, NEW e \in BOOLEAN, Crypt(t, o, s, v, e)
  PROVE  \E x \in Contexts, k \in CallStates :
           /\ ctx' = [ctx EXCEPT ![o] = x] /\ x.keySlot = ctx[o].keySlot
           /\ x.keyData = ctx[o].keyData /\ x.channel = ctx[o].channel
           /\ x.workScheduled = ctx[o].workScheduled /\ (v # NoIV => x.iv = v)
           /\ call' = [call EXCEPT ![t] = k] /\ k.phase = "crypt" /\ k.obj = o
           /\ ~ctx[o].workScheduled => /\ k.op = Operation(ctx[o].keySlot, NoIV, s, e)
                                       /\ k.op \in Packets /\ k.cbc = (v # NoIV)
<1>1. ctx[o] \in Contexts
  BY DEF KeyTypes
<1>2. \E x \in Contexts :
        /\ ctx' = [ctx EXCEPT ![o] = x] /\ x.keySlot = ctx[o].keySlot
        /\ x.keyData = ctx[o].keyData /\ x.channel = ctx[o].channel
        /\ x.workScheduled = ctx[o].workScheduled /\ (v # NoIV => x.iv = v)
  <2>1. CASE v = NoIV
    BY <1>1, <2>1 DEF Crypt, KeyTypes
  <2>2. CASE v # NoIV
    <3> DEFINE x == [ctx[o] EXCEPT !.iv = v]
    <3>1. x \in Contexts /\ x.iv = v /\ x.keySlot = ctx[o].keySlot
          /\ x.keyData = ctx[o].keyData /\ x.channel = ctx[o].channel
          /\ x.workScheduled = ctx[o].workScheduled
      BY <1>1 DEF Contexts
    <3>2. ctx' = [ctx EXCEPT ![o] = x]
      BY <2>2 DEF Crypt, KeyTypes
    <3> HIDE DEF x
    <3> QED
      BY <3>1, <3>2
  <2> QED
    BY <2>1, <2>2
<1>3. \E k \in CallStates :
        /\ call' = [call EXCEPT ![t] = k] /\ k.phase = "crypt" /\ k.obj = o
        /\ ~ctx[o].workScheduled => /\ k.op = Operation(ctx[o].keySlot, NoIV, s, e)
                                    /\ k.op \in Packets /\ k.cbc = (v # NoIV)
  <2>1. PICK p : p = Operation(ctx[o].keySlot, NoIV, s, e)
    OBVIOUS
  <2>2. p \in Packets
    BY <1>1, <2>1 DEF Operation, Packets, Contexts
  <2>3. PICK cbc \in BOOLEAN : cbc = (v # NoIV)
    OBVIOUS
  <2>4. CASE ctx[o].workScheduled
    <3> DEFINE k == [NoCall EXCEPT !.phase = "crypt", !.obj = o]
    <3>1. k \in CallStates /\ k.phase = "crypt" /\ k.obj = o /\ call' = [call EXCEPT ![t] = k]
      BY <2>4, CallBegins DEF Crypt
    <3> QED
      BY <2>4, <3>1
  <2>5. CASE ~ctx[o].workScheduled
    <3> DEFINE k == [NoCall EXCEPT !.phase = "crypt", !.obj = o, !.cbc = cbc, !.op = p]
    <3>1. k \in CallStates /\ k.phase = "crypt" /\ k.obj = o /\ k.cbc = cbc /\ k.op = p
      BY <2>2, NoCallType, Slots DEF CallStates
    <3>2. call' = [call EXCEPT ![t] = k]
      BY <2>1, <2>3, <2>5 DEF Crypt
    <3> HIDE DEF k
    <3> QED
      BY <2>1, <2>2, <2>3, <3>1, <3>2
  <2> QED
    BY <2>4, <2>5
<1> QED
  BY <1>2, <1>3

LEMMA CallKeeps ==
  ASSUME KeyInv, NEW t \in Tasks, NEW o \in Objects,
         \/ \E c \in ChannelsOf[t] : CipherInit(t, o, c)
         \/ \E s \in Sources, v \in IVs \cup {NoIV}, e \in BOOLEAN : Crypt(t, o, s, v, e)
         \/ o = call[t].obj /\ (CryptDone(t) \/ CryptFail(t))
  PROVE  KeyInv'
<1>1. KeyTypes /\ ctx[o] \in Contexts /\ call[t] \in CallStates /\ CallKey(t)
  BY DEF KeyInv, KeyTypes
<1>2. CASE \E c \in ChannelsOf[t] : CipherInit(t, o, c)
  <2>1. PICK c \in ChannelsOf[t] : CipherInit(t, o, c)
    BY <1>2
  <2> DEFINE x == [ctx[o] EXCEPT !.channel = c, !.workScheduled = FALSE]
  <2>2. x \in Contexts /\ x.keySlot = ctx[o].keySlot /\ x.keyData = ctx[o].keyData
    <3>1. c \in Channels
      BY DcpAssumption
    <3> QED
      BY <1>1, <3>1 DEF Contexts
  <2>3. ctx' = [ctx EXCEPT ![o] = x]
    BY <1>1, <2>1 DEF CipherInit, KeyTypes
  <2>4. /\ Owner[o] = t /\ call[t].phase = "none" /\ call' = [call EXCEPT ![t] = call[t]]
        /\ UNCHANGED <<keyIndex, keyRam, keyOf>>
    BY <1>1, <2>1 DEF CipherInit, Idle, KeyTypes
  <2> HIDE DEF x
  <2> QED
    BY <1>1, <2>2, <2>3, <2>4, SameKey
<1>3. ASSUME NEW s \in Sources, NEW v \in IVs \cup {NoIV}, NEW e \in BOOLEAN, Crypt(t, o, s, v, e)
      PROVE  KeyInv'
  <2>1. PICK x \in Contexts, k \in CallStates :
           /\ ctx' = [ctx EXCEPT ![o] = x] /\ x.keySlot = ctx[o].keySlot
           /\ x.keyData = ctx[o].keyData
           /\ call' = [call EXCEPT ![t] = k] /\ k.phase = "crypt" /\ k.obj = o
    BY <1>1, <1>3, CryptCall
  <2>2. Owner[o] = t /\ call[t].phase = "none" /\ UNCHANGED <<keyIndex, keyRam, keyOf>>
        /\ keyOf[o] # NoKey
    BY <1>3 DEF Crypt, Idle
  <2> QED
    BY <2>1, <2>2, SameKey
<1>4. CASE o = call[t].obj /\ (CryptDone(t) \/ CryptFail(t))
  <2>1. /\ Owner[o] = t /\ call' = [call EXCEPT ![t] = NoCall]
        /\ UNCHANGED <<keyIndex, keyRam, keyOf>>
    BY <1>1, <1>4 DEF CryptDone, CryptFail, CallKey
  <2>2. PICK x \in Contexts : /\ ctx' = [ctx EXCEPT ![o] = x] /\ x.keySlot = ctx[o].keySlot
                              /\ x.keyData = ctx[o].keyData
    <3>1. CASE CryptDone(t)
      <4> DEFINE x == [ctx[o] EXCEPT !.workScheduled = FALSE]
      <4>1. x \in Contexts /\ x.keySlot = ctx[o].keySlot /\ x.keyData = ctx[o].keyData
        BY <1>1 DEF Contexts
      <4>2. ctx' = [ctx EXCEPT ![o] = x]
        BY <1>1, <1>4, <3>1 DEF CryptDone, KeyTypes
      <4> HIDE DEF x
      <4> QED
        BY <4>1, <4>2
    <3>2. CASE CryptFail(t)
      <4>1. ctx' = [ctx EXCEPT ![o] = ctx[o]]
        BY <1>1, <3>2 DEF CryptFail, KeyTypes
      <4> QED
        BY <1>1, <4>1
    <3> QED
      BY <1>4, <3>1, <3>2
  <2>3. NoCall \in CallStates /\ NoCall.phase = "none"
    BY CallBegins
  <2> QED
    BY <1>4, <2>1, <2>2, <2>3, SameKey
<1> QED
  BY <1>2, <1>3, <1>4

LEMMA DriveKeeps ==
  ASSUME KeyInv, NEW t \in Tasks, NEW o \in Objects, o = call[t].obj, Drive(t)
  PROVE  /\ \E x \in Contexts : /\ ctx' = [ctx EXCEPT ![o] = x] /\ x.keySlot = ctx[o].keySlot
                                /\ x.keyData = ctx[o].keyData /\ x.iv = ctx[o].iv
                                /\ x.channel = ctx[o].channel
         /\ KeyInv'
<1>1. KeyTypes /\ ctx[o] \in Contexts
  BY DEF KeyInv, KeyTypes
<1>2. UNCHANGED <<keyIndex, keyRam, call, keyOf>>
  BY DEF Drive, cipherVars
<1>3. \E x \in Contexts : /\ ctx' = [ctx EXCEPT ![o] = x] /\ x.keySlot = ctx[o].keySlot
                          /\ x.keyData = ctx[o].keyData /\ x.iv = ctx[o].iv
                          /\ x.channel = ctx[o].channel
  <2>1. CASE ctx' = ctx
    BY <1>1, <2>1 DEF KeyTypes
  <2>2. CASE ctx' = [ctx EXCEPT ![o].workScheduled = TRUE]
    <3> DEFINE x == [ctx[o] EXCEPT !.workScheduled = TRUE]
    <3>1. /\ x \in Contexts /\ x.keySlot = ctx[o].keySlot /\ x.keyData = ctx[o].keyData
          /\ x.iv = ctx[o].iv /\ x.channel = ctx[o].channel
      BY <1>1 DEF Contexts
    <3>2. ctx' = [ctx EXCEPT ![o] = x]
      BY <2>2
    <3> HIDE DEF x
    <3> QED
      BY <3>1, <3>2
  <2> QED
    BY <2>1, <2>2 DEF Drive, cipherVars
<1>4. \A p \in Objects : /\ ctx'[p].keySlot = ctx[p].keySlot /\ ctx'[p].keyData = ctx[p].keyData
  BY <1>1, <1>3 DEF KeyTypes
<1>5. KeyTypes'
  BY <1>1, <1>2, <1>3 DEF KeyTypes
<1>6. (\A p \in Objects : KeyPlace(p)') /\ \A u \in Tasks : CallKey(u)'
  <2>1. \A u \in Tasks : call[u].obj \in Objects
    BY <1>1 DEF KeyTypes, CallStates
  <2> QED
    BY <1>2, <1>4, <2>1 DEF KeyInv, KeyPlace, CallKey
<1> QED
  BY <1>3, <1>5, <1>6 DEF KeyInv

LEMMA RestartKeeps == ASSUME KeyInv, CipherDcpInit PROVE KeyInv'
<1>1. UNCHANGED <<ctx, keyIndex, call>> /\ KeyTypes
      /\ \A p \in Objects : keyOf'[p] = IF ctx[p].keySlot \in SramSlots THEN NoKey ELSE keyOf[p]
  BY DEF CipherDcpInit, KeyInv, KeyTypes
<1>2. KeyTypes'
  BY <1>1 DEF CipherDcpInit, KeyTypes
<1>3. (\A p \in Objects : KeyPlace(p)') /\ \A u \in Tasks : CallKey(u)'
  <2>1. \A u \in Tasks : call[u].obj \in Objects
    BY <1>1 DEF KeyTypes, CallStates
  <2>2. \A u \in Tasks : call[u].phase = "none" \/ call[u].phase = "setKey"
    BY DEF CipherDcpInit, NoCalls
  <2> QED
    BY <1>1, <2>1, <2>2 DEF KeyInv, KeyPlace, CallKey
<1> QED
  BY <1>2, <1>3 DEF KeyInv

LEMMA NextKeyInv == KeyInv /\ [CNext]_vars => KeyInv'
<1> SUFFICES ASSUME KeyInv, [CNext]_vars PROVE KeyInv'
  OBVIOUS
<1>1. CASE UNCHANGED <<ctx, keyIndex, keyRam, call, keyOf>>
  BY <1>1 DEF KeyInv, KeyTypes, KeyPlace, CallKey
<1>2. ASSUME NEW t \in Tasks, CallStep(t) PROVE KeyInv'
  <2>1. PICK o \in Objects : o = call[t].obj
    BY DEF KeyInv, KeyTypes, CallStates
  <2> QED
    BY <1>2, <2>1, WriteKeeps, CallKeeps, DriveKeeps DEF CallStep
<1>3. ASSUME NEW c \in Channels, CipherHwStep(c) PROVE KeyInv'
  BY <1>1, <1>3 DEF CipherHwStep, CipherHwDone, CipherHwError
<1>4. CASE CipherDcpDeinit \/ UNCHANGED vars
  BY <1>1, <1>4 DEF CipherDcpDeinit, vars, cipherVars
<1> QED
  BY <1>2, <1>3, <1>4, RestartKeeps, SetKeyKeeps, CallKeeps DEF CNext

-----------------------------------------------------------------------------
(* A key in the key RAM is whole. *)

LEMMA InitWhole == CInit => Whole
<1> SUFFICES ASSUME CInit PROVE Whole
  OBVIOUS
<1>1. KeySlotWhole
  BY DEF CInit, KeySlotWhole
<1>2. \A t \in Tasks : Written(t)
  BY NoCallType DEF CInit, Written
<1> QED
  BY <1>1, <1>2 DEF Whole

\* While a task writes to the key RAM no other one does.
LEMMA OneWrites ==
  ASSUME OneKeyWriter, KeyInv, NEW t \in Tasks, NEW u \in Tasks,
         NEW o \in Objects, Owner[o] = t, SlotsOf[o] # {}, call[u].phase = "setKey"
  PROVE  u = t
<1>1. call[u].obj \in Objects /\ CallKey(u)
  BY DEF KeyInv, KeyTypes, CallStates
<1> QED
  BY <1>1 DEF OneKeyWriter, CallKey

\* A step that has nothing to do with the key RAM.
LEMMA SameWhole ==
  ASSUME KeyInv, Whole, UNCHANGED <<keyIndex, keyRam, keyOf>>,
         \A p \in Objects : ctx'[p].keySlot = ctx[p].keySlot,
         \A u \in Tasks : call'[u] = call[u] \/ call'[u].phase # "setKey"
  PROVE  Whole'
<1>1. KeySlotWhole'
  BY DEF Whole, KeySlotWhole
<1>2. ASSUME NEW u \in Tasks PROVE Written(u)'
  <2>1. call[u].obj \in Objects /\ Written(u)
    BY DEF KeyInv, KeyTypes, CallStates, Whole
  <2> QED
    BY <2>1 DEF Written
<1> QED
  BY <1>1, <1>2 DEF Whole

\* A key that is not in the key RAM, or no longer, does not depend on it.
LEMMA ElsewhereWhole ==
  ASSUME KeyInv, Whole, NEW t \in Tasks, NEW o \in Objects,
         \/ \E s \in OtpSlots : SetKeyOtp(t, o, s)
         \/ \E k \in Keys : SetKeyPayload(t, o, k)
  PROVE  Whole'
<1>1. /\ KeyTypes /\ Owner[o] = t /\ call[t].phase = "none"
      /\ UNCHANGED <<keyIndex, keyRam, call>>
      /\ \A p \in Objects \ {o} : ctx'[p] = ctx[p] /\ keyOf'[p] = keyOf[p]
      /\ ctx'[o].keySlot \notin SramSlots
  <2>1. KeyTypes
    BY DEF KeyInv
  <2>2. ASSUME NEW s \in OtpSlots, SetKeyOtp(t, o, s) PROVE ctx'[o].keySlot \notin SramSlots
    <3>1. ctx'[o] = [ctx[o] EXCEPT !.keySlot = s, !.keyData = NoKey, !.iv = NoIV]
      BY <2>1, <2>2 DEF SetKeyOtp, KeyTypes
    <3>2. ctx[o] \in Contexts
      BY <2>1 DEF KeyTypes
    <3> QED
      BY <3>1, <3>2, Slots DEF Contexts
  <2>3. ASSUME NEW k \in Keys, SetKeyPayload(t, o, k) PROVE ctx'[o].keySlot \notin SramSlots
    <3>1. ctx'[o] = [ctx[o] EXCEPT !.keySlot = Payload, !.keyData = k]
      BY <2>1, <2>3 DEF SetKeyPayload, KeyTypes
    <3>2. ctx[o] \in Contexts
      BY <2>1 DEF KeyTypes
    <3> QED
      BY <3>1, <3>2, Slots DEF Contexts
  <2> QED
    BY <2>1, <2>2, <2>3 DEF SetKeyOtp, SetKeyPayload, Idle, KeyTypes
<1>2. KeySlotWhole'
  <2> SUFFICES ASSUME NEW p \in Objects, keyOf'[p] # NoKey, ctx'[p].keySlot \in SramSlots
               PROVE  \A w \in 1 .. KeyWords : keyRam'[ctx'[p].keySlot][w] = keyOf'[p]
    BY DEF KeySlotWhole
  <2>1. p # o
    BY <1>1
  <2> QED
    BY <1>1, <2>1 DEF Whole, KeySlotWhole
<1>3. ASSUME NEW u \in Tasks PROVE Written(u)'
  <2>1. call[u].obj \in Objects /\ Written(u) /\ CallKey(u)
    BY DEF KeyInv, KeyTypes, CallStates, Whole
  <2>2. call[u].phase = "setKey" => call[u].obj # o
    BY <1>1, <2>1 DEF CallKey
  <2> QED
    BY <1>1, <2>1, <2>2 DEF Written
<1> QED
  BY <1>2, <1>3 DEF Whole

LEMMA IndexWhole ==
  ASSUME OneKeyWriter, KeyInv, Whole, NEW t \in Tasks, NEW o \in Objects,
         NEW k \in Keys, NEW s \in SramSlots, SetKeyIndex(t, o, s, k)
  PROVE  Whole'
<1>1. /\ KeyTypes /\ Owner[o] = t /\ call[t].phase = "none" /\ s \in SlotsOf[o]
      /\ keyIndex' = [slot |-> s, word |-> 1] /\ keyRam' = keyRam
      /\ \A p \in Objects \ {o} : ctx'[p] = ctx[p] /\ keyOf'[p] = keyOf[p]
      /\ keyOf'[o] = NoKey
      /\ \A u \in Tasks \ {t} : call'[u] = call[u]
  BY DEF KeyInv, KeyTypes, SetKeyIndex, Idle
<1>2. ctx'[o].keySlot = s
  <2>1. ctx'[o] = [ctx[o] EXCEPT !.keySlot = s, !.keyData = k] /\ ctx[o] \in Contexts
    BY <1>1 DEF SetKeyIndex, KeyTypes
  <2> QED
    BY <2>1 DEF Contexts
<1>3. call'[t].obj = o /\ call'[t].word = 1
  BY <1>1, NoCallType DEF SetKeyIndex, KeyTypes
<1>4. KeySlotWhole'
  BY <1>1 DEF Whole, KeySlotWhole
<1>5. ASSUME NEW u \in Tasks PROVE Written(u)'
  <2>1. CASE u = t
    <3>1. \A w \in 1 .. KeyWords : ~(w < 1)
      OBVIOUS
    <3> QED
      BY <1>1, <1>2, <1>3, <2>1, <3>1 DEF Written
  <2>2. CASE u # t
    <3>1. call[u].phase # "setKey"
      BY <1>1, <2>2, OneWrites
    <3> QED
      BY <1>1, <2>2, <3>1 DEF Written
  <2> QED
    BY <2>1, <2>2
<1> QED
  BY <1>4, <1>5 DEF Whole

LEMMA WordWhole ==
  ASSUME OneKeyWriter, KeyInv, Whole, NEW t \in Tasks, NEW o \in Objects, o = call[t].obj,
         SetKeyWord(t)
  PROVE  Whole'
<1>1. /\ KeyTypes /\ call[t].phase = "setKey" /\ call[t].word <= KeyWords
      /\ call[t] \in CallStates /\ CallKey(t) /\ Written(t)
      /\ UNCHANGED <<ctx, keyOf>> /\ \A u \in Tasks \ {t} : call'[u] = call[u]
  BY DEF KeyInv, KeyTypes, SetKeyWord, Whole
<1>2. PICK slot \in SramSlots : slot = ctx[o].keySlot /\ slot \in SlotsOf[o]
  BY <1>1, Slots DEF CallKey
<1>3. PICK n \in 1 .. KeyWords : n = call[t].word
  BY <1>1, Slots DEF CallStates
<1>4. /\ Owner[o] = t /\ keyOf[o] = NoKey /\ ctx[o].keyData = call[t].key
      /\ keyIndex.slot = slot /\ keyIndex.word = n
      /\ \A w \in 1 .. KeyWords : w < n => keyRam[slot][w] = call[t].key
  BY <1>1, <1>2, <1>3, Slots DEF CallKey, Written
<1>5. keyRam' = [keyRam EXCEPT ![slot][n] = call[t].key]
  BY <1>4 DEF SetKeyWord
<1>6. /\ keyRam'[slot][n] = call[t].key
      /\ \A w \in 1 .. KeyWords : w < n => keyRam'[slot][w] = call[t].key
      /\ \A other \in SramSlots \ {slot} : keyRam'[other] = keyRam[other]
  BY <1>1, <1>4, <1>5 DEF KeyTypes
<1>7. call'[t].phase = "setKey" /\ call'[t].obj = o /\ call'[t].key = call[t].key
      /\ call'[t].word = n + 1
  BY <1>1, <1>3 DEF SetKeyWord, KeyTypes, CallStates
<1>8. keyIndex'.slot = slot /\ (n + 1 <= KeyWords => keyIndex'.word = n + 1)
  <2>1. keyIndex' = [keyIndex EXCEPT !.word = (n % KeyWords) + 1]
    BY <1>4 DEF SetKeyWord
  <2>2. n < KeyWords => n % KeyWords = n
    BY Slots
  <2>3. KeyWords \in Nat /\ n \in Nat
    BY Slots
  <2>4. keyIndex'.slot = slot /\ keyIndex'.word = (n % KeyWords) + 1
    BY <1>1, <1>4, <2>1 DEF KeyTypes
  <2> QED
    BY <2>2, <2>3, <2>4
<1>9. KeySlotWhole'
  <2> SUFFICES ASSUME NEW p \in Objects, keyOf[p] # NoKey, ctx[p].keySlot \in SramSlots
               PROVE  \A w \in 1 .. KeyWords : keyRam'[ctx[p].keySlot][w] = keyOf[p]
    BY <1>1 DEF KeySlotWhole
  <2>1. ctx[p].keySlot \in SlotsOf[p]
    BY Slots DEF KeyInv, KeyPlace
  <2>2. p # o
    BY <1>4
  <2>3. ctx[p].keySlot # slot
    BY <1>2, <2>1, <2>2, CipherAssumption
  <2> QED
    BY <1>6, <2>3 DEF Whole, KeySlotWhole
<1>10. ASSUME NEW u \in Tasks PROVE Written(u)'
  <2>1. CASE u = t
    <3>1. ctx'[o].keySlot = slot
      BY <1>1, <1>2
    <3>2. ASSUME NEW w \in 1 .. KeyWords, w < n + 1 PROVE keyRam'[slot][w] = call[t].key
      BY <1>6, <3>2
    <3> QED
      BY <1>7, <1>8, <2>1, <3>1, <3>2 DEF Written
  <2>2. CASE u # t
    <3>1. call[u].phase # "setKey"
      BY <1>2, <1>4, <2>2, OneWrites
    <3> QED
      BY <1>1, <2>2, <3>1 DEF Written
  <2> QED
    BY <2>1, <2>2
<1> QED
  BY <1>9, <1>10 DEF Whole

LEMMA EndWhole ==
  ASSUME KeyInv, Whole, NEW t \in Tasks, NEW o \in Objects, o = call[t].obj, SetKeyEnd(t)
  PROVE  Whole'
<1>1. /\ KeyTypes /\ call[t].phase = "setKey" /\ call[t].word > KeyWords
      /\ call[t] \in CallStates /\ CallKey(t) /\ Written(t) /\ ctx[o] \in Contexts
      /\ UNCHANGED <<keyIndex, keyRam>> /\ \A u \in Tasks \ {t} : call'[u] = call[u]
      /\ call'[t].phase = "none" /\ keyOf'[o] = call[t].key
      /\ \A p \in Objects \ {o} : keyOf'[p] = keyOf[p]
  BY NoCallType DEF KeyInv, KeyTypes, SetKeyEnd, Whole
<1>2. \A p \in Objects : ctx'[p].keySlot = ctx[p].keySlot
  <2>1. ctx'[o] = [ctx[o] EXCEPT !.keyData = NoKey, !.iv = NoIV]
        /\ \A p \in Objects \ {o} : ctx'[p] = ctx[p]
    BY <1>1 DEF SetKeyEnd, KeyTypes
  <2>2. ctx'[o].keySlot = ctx[o].keySlot
    BY <1>1, <2>1 DEF Contexts
  <2> QED
    BY <2>1, <2>2
<1>3. \A w \in 1 .. KeyWords : keyRam[ctx[o].keySlot][w] = call[t].key
  <2>1. call[t].word \in Nat /\ KeyWords \in Nat
    BY <1>1, Slots DEF CallStates
  <2>2. \A w \in 1 .. KeyWords : w < call[t].word
    BY <1>1, <2>1
  <2> QED
    BY <1>1, <2>2 DEF Written
<1>4. KeySlotWhole'
  BY <1>1, <1>2, <1>3 DEF Whole, KeySlotWhole
<1>5. ASSUME NEW u \in Tasks PROVE Written(u)'
  <2>1. call[u].obj \in Objects /\ Written(u)
    BY DEF KeyInv, KeyTypes, CallStates, Whole
  <2> QED
    BY <1>1, <1>2, <2>1 DEF Written
<1> QED
  BY <1>4, <1>5 DEF Whole

LEMMA NextWhole ==
  ASSUME OneKeyWriter, KeyInv, Whole, [CNext]_vars
  PROVE  Whole'
<1>0. KeyTypes
  BY DEF KeyInv
<1>1. CASE UNCHANGED <<ctx, keyIndex, keyRam, call, keyOf>>
  BY <1>1, SameWhole
<1>2. ASSUME NEW t \in Tasks, CallStep(t) PROVE Whole'
  <2>1. PICK o \in Objects : o = call[t].obj
    BY <1>0 DEF KeyTypes, CallStates
  <2>2. CASE Drive(t)
    <3>1. \A p \in Objects : ctx'[p].keySlot = ctx[p].keySlot
      BY <1>0, <2>1, <2>2, DriveKeeps DEF KeyTypes
    <3>2. UNCHANGED <<keyIndex, keyRam, call, keyOf>>
      BY <2>2 DEF Drive, cipherVars
    <3> QED
      BY <3>1, <3>2, SameWhole
  <2>3. CASE CryptDone(t) \/ CryptFail(t)
    <3>1. \A p \in Objects : ctx'[p].keySlot = ctx[p].keySlot
      <4>1. CASE CryptDone(t)
        <5>1. ctx[o] \in Contexts /\ ctx'[o] = [ctx[o] EXCEPT !.workScheduled = FALSE]
              /\ \A p \in Objects \ {o} : ctx'[p] = ctx[p]
          BY <1>0, <2>1, <4>1 DEF CryptDone, KeyTypes
        <5>2. ctx'[o].keySlot = ctx[o].keySlot
          BY <5>1 DEF Contexts
        <5> QED
          BY <5>1, <5>2
      <4>2. CASE CryptFail(t)
        BY <4>2 DEF CryptFail
      <4> QED
        BY <2>3, <4>1, <4>2
    <3>2. UNCHANGED <<keyIndex, keyRam, keyOf>> /\ call' = [call EXCEPT ![t] = NoCall]
      BY <2>3 DEF CryptDone, CryptFail
    <3>3. \A u \in Tasks : call'[u] = call[u] \/ call'[u].phase # "setKey"
      BY <1>0, <3>2, NoCallType DEF KeyTypes
    <3> QED
      BY <3>1, <3>2, <3>3, SameWhole
  <2> QED
    BY <1>2, <2>1, <2>2, <2>3, WordWhole, EndWhole DEF CallStep
<1>3. ASSUME NEW t \in Tasks, NEW o \in Objects, NEW c \in ChannelsOf[t], CipherInit(t, o, c)
      PROVE  Whole'
  <2> DEFINE x == [ctx[o] EXCEPT !.channel = c, !.workScheduled = FALSE]
  <2>1. x.keySlot = ctx[o].keySlot
    <3>1. c \in Channels /\ ctx[o] \in Contexts
      BY <1>0, DcpAssumption DEF KeyTypes
    <3> QED
      BY <3>1 DEF Contexts
  <2>2. ctx' = [ctx EXCEPT ![o] = x]
    BY <1>0, <1>3 DEF CipherInit, KeyTypes
  <2> HIDE DEF x
  <2>3. \A p \in Objects : ctx'[p].keySlot = ctx[p].keySlot
    BY <1>0, <2>1, <2>2 DEF KeyTypes
  <2> QED
    BY <1>3, <2>3, SameWhole DEF CipherInit
<1>4. ASSUME NEW t \in Tasks, NEW o \in Objects,
             NEW s \in Sources, NEW v \in IVs \cup {NoIV}, NEW e \in BOOLEAN, Crypt(t, o, s, v, e)
      PROVE  Whole'
  <2>1. PICK x \in Contexts, k \in CallStates :
           /\ ctx' = [ctx EXCEPT ![o] = x] /\ x.keySlot = ctx[o].keySlot
           /\ call' = [call EXCEPT ![t] = k] /\ k.phase = "crypt"
    BY <1>0, <1>4, CryptCall
  <2>2. /\ \A p \in Objects : ctx'[p].keySlot = ctx[p].keySlot
        /\ \A u \in Tasks : call'[u] = call[u] \/ call'[u].phase # "setKey"
    BY <1>0, <2>1 DEF KeyTypes
  <2>3. UNCHANGED <<keyIndex, keyRam, keyOf>>
    BY <1>4 DEF Crypt
  <2> QED
    BY <2>2, <2>3, SameWhole
<1>5. CASE CipherDcpInit
  <2>1. \A t \in Tasks : call'[t].phase = "none"
    BY <1>5 DEF CipherDcpInit, NoCalls
  <2>2. KeySlotWhole'
    BY <1>0, <1>5 DEF CipherDcpInit, KeyTypes, KeySlotWhole
  <2> QED
    BY <2>1, <2>2 DEF Whole, Written
<1>6. ASSUME NEW c \in Channels, CipherHwStep(c) PROVE Whole'
  BY <1>1, <1>6 DEF CipherHwStep, CipherHwDone, CipherHwError
<1>7. CASE CipherDcpDeinit \/ UNCHANGED vars
  BY <1>1, <1>7 DEF CipherDcpDeinit, vars, cipherVars
<1> QED
  BY <1>2, <1>3, <1>4, <1>5, <1>6, <1>7, ElsewhereWhole, IndexWhole DEF CNext

LEMMA AlwaysKeyInv == CSpec => []KeyInv
BY InitKeyInv, NextKeyInv, PTL DEF CSpec

LEMMA AlwaysWhole ==
  ASSUME OneKeyWriter
  PROVE  CSpec => []Whole
<1>1. KeyInv /\ Whole /\ [CNext]_vars => Whole'
  BY NextWhole
<1> QED
  BY <1>1, InitWhole, AlwaysKeyInv, PTL DEF CSpec

\* Where one task writes the keys, whatever the others do between its writes, with their
\* own jobs and with keys of other kinds: a key that setKey() reported as set is in its
\* slot whole, until it is replaced or the DCP restarted.
THEOREM KeySlotIsWhole == OneKeyWriter => (CSpec => []KeySlotWhole)
<1> SUFFICES ASSUME OneKeyWriter PROVE CSpec => []KeySlotWhole
  OBVIOUS
<1>1. Whole => KeySlotWhole
  BY DEF Whole
<1> QED
  BY <1>1, AlwaysWhole, PTL

-----------------------------------------------------------------------------
(* The driver's calls. *)

\* What the steps of setKey() leave alone.
LEMMA SetKeyEffect ==
  ASSUME KeyInv, NEW t \in Tasks, NEW o \in Objects,
         \/ \E s \in OtpSlots : SetKeyOtp(t, o, s)
         \/ \E k \in Keys : \/ SetKeyPayload(t, o, k)
                            \/ \E s \in SramSlots : SetKeyIndex(t, o, s, k)
         \/ o = call[t].obj /\ (SetKeyWord(t) \/ SetKeyEnd(t))
  PROVE  /\ Owner[o] = t /\ call[t].phase # "crypt"
         /\ call[t].phase = "none" \/ call[t].obj = o
         /\ UNCHANGED <<dcpVars, usable, asked, returned, dst>>
         /\ \E x \in Contexts : ctx' = [ctx EXCEPT ![o] = x]
                                /\ x.workScheduled = ctx[o].workScheduled
         /\ \E k \in CallStates : call' = [call EXCEPT ![t] = k] /\ k.phase # "crypt"
         /\ \A p \in Objects \ {o} : keyOf'[p] = keyOf[p]
<1>1. KeyTypes /\ ctx[o] \in Contexts /\ call[t] \in CallStates /\ CallKey(t)
  BY DEF KeyInv, KeyTypes
<1>2. ASSUME NEW s \in OtpSlots, SetKeyOtp(t, o, s)
      PROVE  \E x \in Contexts : ctx' = [ctx EXCEPT ![o] = x]
                                 /\ x.workScheduled = ctx[o].workScheduled
  <2> DEFINE x == [ctx[o] EXCEPT !.keySlot = s, !.keyData = NoKey, !.iv = NoIV]
  <2>1. s \in KeySlots
    BY DEF KeySlots
  <2>2. x \in Contexts /\ x.workScheduled = ctx[o].workScheduled
    BY <1>1, <2>1 DEF Contexts
  <2>3. ctx' = [ctx EXCEPT ![o] = x]
    BY <1>1, <1>2 DEF SetKeyOtp, KeyTypes
  <2> HIDE DEF x
  <2> QED
    BY <2>2, <2>3
<1>3. ASSUME NEW k \in Keys, SetKeyPayload(t, o, k)
      PROVE  \E x \in Contexts : ctx' = [ctx EXCEPT ![o] = x]
                                 /\ x.workScheduled = ctx[o].workScheduled
  <2> DEFINE x == [ctx[o] EXCEPT !.keySlot = Payload, !.keyData = k]
  <2>1. x \in Contexts /\ x.workScheduled = ctx[o].workScheduled
    BY <1>1, Slots DEF Contexts
  <2>2. ctx' = [ctx EXCEPT ![o] = x]
    BY <1>1, <1>3 DEF SetKeyPayload, KeyTypes
  <2> HIDE DEF x
  <2> QED
    BY <2>1, <2>2
<1>4. ASSUME NEW k \in Keys, NEW s \in SramSlots, SetKeyIndex(t, o, s, k)
      PROVE  /\ \E x \in Contexts : ctx' = [ctx EXCEPT ![o] = x]
                                    /\ x.workScheduled = ctx[o].workScheduled
             /\ \E b \in CallStates : call' = [call EXCEPT ![t] = b] /\ b.phase # "crypt"
  <2> DEFINE x == [ctx[o] EXCEPT !.keySlot = s, !.keyData = k]
             b == [NoCall EXCEPT !.phase = "setKey", !.obj = o, !.key = k]
  <2>1. s \in KeySlots
    BY DEF KeySlots
  <2>2. x \in Contexts /\ x.workScheduled = ctx[o].workScheduled
    BY <1>1, <2>1 DEF Contexts
  <2>3. ctx' = [ctx EXCEPT ![o] = x]
    BY <1>1, <1>4 DEF SetKeyIndex, KeyTypes
  <2>4. b \in CallStates /\ b.phase = "setKey"
    BY NoCallType, Slots DEF CallStates
  <2>5. call' = [call EXCEPT ![t] = b]
    BY <1>4 DEF SetKeyIndex
  <2> HIDE DEF x, b
  <2> QED
    BY <2>2, <2>3, <2>4, <2>5
<1>5. ASSUME SetKeyWord(t)
      PROVE  \E b \in CallStates : call' = [call EXCEPT ![t] = b] /\ b.phase # "crypt"
  <2> DEFINE b == [call[t] EXCEPT !.word = @ + 1]
  <2>1. call[t].word \in Nat
    BY <1>1 DEF CallStates
  <2>2. b \in CallStates /\ b.phase = "setKey" /\ call' = [call EXCEPT ![t] = b]
    BY <1>1, <1>5, <2>1, Slots DEF SetKeyWord, CallStates
  <2> HIDE DEF b
  <2> QED
    BY <2>2
<1>6. ASSUME SetKeyEnd(t), o = call[t].obj
      PROVE  \E x \in Contexts : ctx' = [ctx EXCEPT ![o] = x]
                                 /\ x.workScheduled = ctx[o].workScheduled
  <2> DEFINE x == [ctx[o] EXCEPT !.keyData = NoKey, !.iv = NoIV]
  <2>1. x \in Contexts /\ x.workScheduled = ctx[o].workScheduled
    BY <1>1 DEF Contexts
  <2>2. ctx' = [ctx EXCEPT ![o] = x]
    BY <1>1, <1>6 DEF SetKeyEnd, KeyTypes
  <2> HIDE DEF x
  <2> QED
    BY <2>1, <2>2
<1>7. /\ Owner[o] = t /\ call[t].phase # "crypt"
      /\ call[t].phase = "none" \/ call[t].obj = o
      /\ UNCHANGED <<dcpVars, usable, asked, returned, dst>>
      /\ \A p \in Objects \ {o} : keyOf'[p] = keyOf[p]
  BY <1>1 DEF SetKeyOtp, SetKeyPayload, SetKeyIndex, SetKeyWord, SetKeyEnd, Idle, CallKey, KeyTypes
<1>8. \E x \in Contexts : ctx' = [ctx EXCEPT ![o] = x]
                          /\ x.workScheduled = ctx[o].workScheduled
  <2>1. CASE ctx' = ctx
    <3>1. ctx' = [ctx EXCEPT ![o] = ctx[o]]
      BY <1>1, <2>1 DEF KeyTypes
    <3> QED
      BY <1>1, <3>1
  <2> QED
    BY <1>2, <1>3, <1>4, <1>6, <2>1 DEF SetKeyWord
<1>9. \E k \in CallStates : call' = [call EXCEPT ![t] = k] /\ k.phase # "crypt"
  <2>1. CASE call' = call
    <3>1. call' = [call EXCEPT ![t] = call[t]]
      BY <1>1, <2>1 DEF KeyTypes
    <3> QED
      BY <1>1, <1>7, <3>1
  <2>2. CASE SetKeyEnd(t)
    BY <2>2, CallBegins DEF SetKeyEnd
  <2> QED
    BY <1>4, <1>5, <2>1, <2>2 DEF SetKeyOtp, SetKeyPayload
<1> QED
  BY <1>7, <1>8, <1>9

\* A step that touches one object and the call of its task keeps CipherInv if it does
\* for them.
LEMMA LocalStep ==
  ASSUME KeyInv, CipherInv, Owned', NEW t \in Tasks, NEW o \in Objects, Owner[o] = t,
         call[t].phase = "none" \/ call[t].obj = o,
         NEW x \in Contexts, ctx' = [ctx EXCEPT ![o] = x],
         NEW k \in CallStates, call' = [call EXCEPT ![t] = k],
         usable' \in [Objects -> BOOLEAN], asked' \in [Objects -> Operations],
         returned' \in [Objects -> BOOLEAN], dst' \in [Objects -> Operations],
         \A p \in Objects \ {o} : usable'[p] = usable[p],
         \A u \in Tasks \ {t} : pc'[u] = pc[u],
         CallShape(t)', OwnWork(o)'
  PROVE  CipherInv'
<1>1. KeyTypes
  BY DEF KeyInv
<1>2. \A p \in Objects \ {o} : ctx'[p] = ctx[p]
  BY <1>1 DEF KeyTypes
<1>3. ASSUME NEW u \in Tasks PROVE CallShape(u)'
  <2>1. CASE u # t
    <3>1. CallShape(u) /\ CallKey(u) /\ call'[u] = call[u] /\ call[u].obj \in Objects
      BY <1>1, <2>1 DEF CipherInv, KeyInv, KeyTypes, CallStates
    <3>2. call[u].phase # "none" => call[u].obj # o
      BY <2>1, <3>1 DEF CallKey
    <3> QED
      BY <1>2, <2>1, <3>1, <3>2 DEF CallShape
  <2> QED
    BY <2>1
<1>4. ASSUME NEW p \in Objects PROVE OwnWork(p)'
  <2>1. CASE p # o
    <3>1. OwnWork(p) /\ Owner[p] \in Tasks /\ \A u \in Tasks \ {t} : call'[u] = call[u]
      BY <1>1, Slots DEF CipherInv, KeyTypes
    <3> QED
      BY <1>2, <2>1, <3>1 DEF OwnWork
  <2> QED
    BY <2>1
<1> QED
  BY <1>3, <1>4 DEF CipherInv

LEMMA InitCipherInv == CInit => CipherInv
<1> SUFFICES ASSUME CInit PROVE CipherInv
  OBVIOUS
<1>1. Owned
  BY InitOwned DEF CInit
<1>2. /\ usable \in [Objects -> BOOLEAN] /\ asked \in [Objects -> Operations]
      /\ returned \in [Objects -> BOOLEAN] /\ dst \in [Objects -> Operations]
  BY DEF CInit, Operations
<1>3. \A t \in Tasks : CallShape(t)
  BY NoCallType DEF CInit, Init, CallShape
<1>4. \A o \in Objects : OwnWork(o)
  BY DEF CInit, OwnWork
<1> QED
  BY <1>1, <1>2, <1>3, <1>4 DEF CipherInv

\* crypt() on a usable object starts with a job of its own.
LEMMA CryptSubmits ==
  ASSUME KeyInv, CipherInv, NEW t \in Tasks, NEW o \in Objects,
         NEW s \in Sources, NEW v \in IVs \cup {NoIV}, NEW e \in BOOLEAN, Crypt(t, o, s, v, e)
  PROVE  ~ctx[o].workScheduled /\ Submit(t, ctx[o].channel)
<1>1. ~ctx[o].workScheduled
  BY DEF CipherInv, OwnWork, Crypt, Idle
<1> QED
  BY <1>1 DEF Crypt

LEMMA SetKeyShape ==
  ASSUME KeyInv, CipherInv, Owned', NEW t \in Tasks, NEW o \in Objects,
         \/ \E s \in OtpSlots : SetKeyOtp(t, o, s)
         \/ \E k \in Keys : \/ SetKeyPayload(t, o, k)
                            \/ \E s \in SramSlots : SetKeyIndex(t, o, s, k)
         \/ o = call[t].obj /\ (SetKeyWord(t) \/ SetKeyEnd(t))
  PROVE  CipherInv'
<1>1. KeyTypes /\ CallShape(t) /\ OwnWork(o)
  BY DEF KeyInv, CipherInv
<1>2. /\ Owner[o] = t /\ call[t].phase # "crypt"
      /\ call[t].phase = "none" \/ call[t].obj = o
      /\ UNCHANGED <<dcpVars, usable, asked, returned, dst>>
  BY SetKeyEffect
<1>3. PICK x \in Contexts : ctx' = [ctx EXCEPT ![o] = x] /\ x.workScheduled = ctx[o].workScheduled
  BY SetKeyEffect
<1>4. PICK k \in CallStates : call' = [call EXCEPT ![t] = k] /\ k.phase # "crypt"
  BY SetKeyEffect
<1>5. ctx'[o] = x /\ call'[t] = k
  BY <1>1, <1>3, <1>4 DEF KeyTypes
<1>6. CallShape(t)' /\ OwnWork(o)'
  BY <1>1, <1>2, <1>3, <1>4, <1>5 DEF CallShape, OwnWork, dcpVars
<1>7. /\ usable' \in [Objects -> BOOLEAN] /\ asked' \in [Objects -> Operations]
      /\ returned' \in [Objects -> BOOLEAN] /\ dst' \in [Objects -> Operations]
      /\ \A u \in Tasks \ {t} : pc'[u] = pc[u]
      /\ \A p \in Objects \ {o} : usable'[p] = usable[p]
  BY <1>2 DEF CipherInv, dcpVars
<1> QED
  BY <1>2, <1>3, <1>4, <1>6, <1>7, LocalStep

LEMMA InitShape ==
  ASSUME KeyInv, CipherInv, Owned', NEW t \in Tasks, NEW o \in Objects,
         NEW c \in ChannelsOf[t], CipherInit(t, o, c)
  PROVE  CipherInv'
<1> DEFINE x == [ctx[o] EXCEPT !.channel = c, !.workScheduled = FALSE]
<1>1. KeyTypes /\ CallShape(t) /\ call[t].phase = "none" /\ Owner[o] = t /\ ctx[o] \in Contexts
      /\ c \in Channels /\ call[t] \in CallStates
  BY DcpAssumption DEF KeyInv, KeyTypes, CipherInv, CipherInit, Idle
<1>2. x \in Contexts /\ x.workScheduled = FALSE
  BY <1>1 DEF Contexts
<1>3. ctx' = [ctx EXCEPT ![o] = x]
  BY <1>1 DEF CipherInit, KeyTypes
<1> HIDE DEF x
<1>4. call' = [call EXCEPT ![t] = call[t]] /\ call' = call
  BY <1>1 DEF CipherInit, KeyTypes
<1>5. ctx'[o] = x
  BY <1>1, <1>3 DEF KeyTypes
<1>6. CallShape(t)' /\ OwnWork(o)'
  BY <1>1, <1>2, <1>4, <1>5 DEF CallShape, OwnWork, CipherInit, dcpVars
<1>7. /\ usable' \in [Objects -> BOOLEAN] /\ asked' \in [Objects -> Operations]
      /\ returned' \in [Objects -> BOOLEAN] /\ dst' \in [Objects -> Operations]
      /\ \A u \in Tasks \ {t} : pc'[u] = pc[u]
      /\ \A p \in Objects \ {o} : usable'[p] = usable[p]
  BY DEF CipherInv, CipherInit, dcpVars
<1> QED
  BY <1>1, <1>2, <1>3, <1>4, <1>6, <1>7, LocalStep

LEMMA CryptShape ==
  ASSUME KeyInv, CipherInv, Owned', NEW t \in Tasks, NEW o \in Objects,
         NEW s \in Sources, NEW v \in IVs \cup {NoIV}, NEW e \in BOOLEAN, Crypt(t, o, s, v, e)
  PROVE  CipherInv'
<1>1. KeyTypes /\ CallShape(t) /\ call[t].phase = "none" /\ Owner[o] = t /\ TypeOK /\ usable[o]
  BY DEF KeyInv, CipherInv, Owned, Crypt, Idle
<1>2. ~ctx[o].workScheduled /\ Submit(t, ctx[o].channel)
  BY CryptSubmits
<1>3. PICK x \in Contexts, k \in CallStates :
        /\ ctx' = [ctx EXCEPT ![o] = x] /\ x.keySlot = ctx[o].keySlot
        /\ x.workScheduled = ctx[o].workScheduled
        /\ call' = [call EXCEPT ![t] = k] /\ k.phase = "crypt" /\ k.obj = o
        /\ ~ctx[o].workScheduled => /\ k.op = Operation(ctx[o].keySlot, NoIV, s, e)
                                    /\ k.op \in Packets
  BY <1>1, CryptCall
<1>4. ctx'[o] = x /\ call'[t] = k
  BY <1>1, <1>3 DEF KeyTypes
<1>5. pc'[t] = "check" /\ \A u \in Tasks \ {t} : pc'[u] = pc[u]
  BY <1>1, <1>2 DEF Submit, Enter, TypeOK
<1>6. CallShape(t)'
  <2>1. k.op.key = ctx[o].keySlot
    BY <1>2, <1>3 DEF Operation
  <2> QED
    BY <1>2, <1>3, <1>4, <1>5, <2>1 DEF CallShape
<1>7. OwnWork(o)'
  BY <1>2, <1>3, <1>4 DEF OwnWork
<1>8. /\ usable' \in [Objects -> BOOLEAN] /\ dst' \in [Objects -> Operations]
      /\ returned' \in [Objects -> BOOLEAN]
      /\ \A p \in Objects \ {o} : usable'[p] = usable[p]
  BY DEF CipherInv, Crypt
<1>9. asked' \in [Objects -> Operations]
  <2>1. Operation(keyOf[o], v, s, e) \in Operations
    BY <1>1 DEF KeyTypes, Operation, Operations
  <2> QED
    BY <2>1 DEF CipherInv, Crypt
<1> QED
  BY <1>1, <1>3, <1>5, <1>6, <1>7, <1>8, <1>9, LocalStep

\* A crypt() that returns leaves no work behind, or an object that is not used until
\* init().
LEMMA ReturnShape ==
  ASSUME RestartAfterFailure, KeyInv, CipherInv, Owned', NEW t \in Tasks, NEW o \in Objects,
         o = call[t].obj, CryptDone(t) \/ CryptFail(t)
  PROVE  CipherInv'
<1>1. /\ KeyTypes /\ CallShape(t) /\ call[t].phase = "crypt" /\ Owner[o] = t /\ TypeOK
      /\ ctx[o] \in Contexts /\ Retire(t) /\ call' = [call EXCEPT ![t] = NoCall]
      /\ usable \in [Objects -> BOOLEAN]
  BY DEF KeyInv, KeyTypes, CallKey, CipherInv, Owned, CryptDone, CryptFail
<1>2. NoCall \in CallStates /\ NoCall.phase = "none"
  BY CallBegins
<1>3. PICK x \in Contexts : /\ ctx' = [ctx EXCEPT ![o] = x]
                            /\ x.workScheduled /\ usable'[o] => FALSE
  <2>1. CASE CryptDone(t)
    <3> DEFINE x == [ctx[o] EXCEPT !.workScheduled = FALSE]
    <3>1. x \in Contexts /\ x.workScheduled = FALSE
      BY <1>1 DEF Contexts
    <3>2. ctx' = [ctx EXCEPT ![o] = x]
      BY <1>1, <2>1 DEF CryptDone, KeyTypes
    <3> HIDE DEF x
    <3> QED
      BY <3>1, <3>2
  <2>2. CASE CryptFail(t)
    <3>1. ctx' = [ctx EXCEPT ![o] = ctx[o]] /\ ~usable'[o]
      BY <1>1, <2>2 DEF CryptFail, KeyTypes
    <3> QED
      BY <1>1, <3>1
  <2> QED
    BY <2>1, <2>2
<1>4. ctx'[o] = x /\ call'[t] = NoCall
  BY <1>1, <1>3 DEF KeyTypes
<1>5. pc'[t] = "idle" /\ \A u \in Tasks \ {t} : pc'[u] = pc[u]
  BY <1>1 DEF Retire, TypeOK
<1>6. CallShape(t)' /\ OwnWork(o)'
  BY <1>2, <1>3, <1>4, <1>5 DEF CallShape, OwnWork
<1>7. /\ usable' \in [Objects -> BOOLEAN] /\ asked' \in [Objects -> Operations]
      /\ returned' \in [Objects -> BOOLEAN] /\ dst' \in [Objects -> Operations]
      /\ \A p \in Objects \ {o} : usable'[p] = usable[p]
  <2>1. (~RestartAfterFailure) \in BOOLEAN
    OBVIOUS
  <2> QED
    BY <1>1, <2>1 DEF CipherInv, CryptDone, CryptFail
<1> QED
  BY <1>1, <1>2, <1>3, <1>5, <1>6, <1>7, LocalStep

LEMMA DriveShape ==
  ASSUME KeyInv, CipherInv, Owned', NEW t \in Tasks, NEW o \in Objects, o = call[t].obj, Drive(t)
  PROVE  CipherInv'
<1>1. /\ KeyTypes /\ CallShape(t) /\ OwnWork(o) /\ CallKey(t) /\ TypeOK /\ call[t] \in CallStates
      /\ UNCHANGED <<call, usable, asked, returned, dst>>
  BY DEF KeyInv, KeyTypes, CipherInv, Owned, Drive, cipherVars
<1>2. PICK x \in Contexts : ctx' = [ctx EXCEPT ![o] = x] /\ x.keySlot = ctx[o].keySlot
  BY DriveKeeps
<1>3. pc[t] # "idle" /\ pc'[t] # "idle" /\ \A u \in Tasks \ {t} : pc'[u] = pc[u]
  BY <1>1 DEF Drive, ScheduleWorkStart, ScheduleWorkCheck, ScheduleWorkTaken, Poll, Status,
              ClearStatus, TypeOK
<1>4. call[t].phase = "crypt" /\ Owner[o] = t
  BY <1>1, <1>3 DEF CallShape, CallKey
<1>5. ctx'[o] = x /\ call' = [call EXCEPT ![t] = call[t]]
  BY <1>1, <1>2 DEF KeyTypes
<1>6. CallShape(t)' /\ OwnWork(o)'
  BY <1>1, <1>2, <1>3, <1>4, <1>5 DEF CallShape, OwnWork
<1>7. /\ usable' \in [Objects -> BOOLEAN] /\ asked' \in [Objects -> Operations]
      /\ returned' \in [Objects -> BOOLEAN] /\ dst' \in [Objects -> Operations]
      /\ \A p \in Objects \ {o} : usable'[p] = usable[p]
  BY <1>1 DEF CipherInv
<1> QED
  BY <1>1, <1>2, <1>3, <1>4, <1>5, <1>6, <1>7, LocalStep

\* The job that runs is the one of its task's crypt().
LEMMA JobsCrypt ==
  ASSUME KeyInv, CipherInv, NEW c \in Channels, busy[c]
  PROVE  /\ cmd[c] \in Tasks /\ call[cmd[c]].phase = "crypt" /\ call[cmd[c]].obj \in Objects
         /\ Owner[call[cmd[c]].obj] = cmd[c] /\ chan[cmd[c]] = c
         /\ call[cmd[c]].op \in Packets
         /\ call[cmd[c]].op.key = ctx[call[cmd[c]].obj].keySlot
<1>1. cmd[c] \in Tasks /\ pc[cmd[c]] = "poll" /\ chan[cmd[c]] = c
  BY DEF CipherInv, Owned, NoReturnWhileRunning
<1>2. CallShape(cmd[c]) /\ CallKey(cmd[c]) /\ call[cmd[c]] \in CallStates
  BY <1>1 DEF CipherInv, KeyInv, KeyTypes
<1> QED
  BY <1>1, <1>2 DEF CallShape, CallKey, CallStates

LEMMA KeyUsedType ==
  ASSUME KeyInv, NEW o \in Objects, NEW slot \in KeySlots
  PROVE  KeyUsed(o, slot) \in AllKeys \cup {NoKey, Garbage}
<1>1. ctx[o].keyData \in Keys \cup {NoKey}
  BY DEF KeyInv, KeyTypes, Contexts
<1>2. CASE slot \in SramSlots
  <2>1. keyRam[slot][1] \in Keys \cup {NoKey}
    BY <1>2, Slots DEF KeyInv, KeyTypes
  <2> QED
    BY <1>2, <2>1, Slots DEF KeyUsed, AllKeys
<1>3. CASE slot \notin SramSlots
  BY <1>1, <1>3 DEF KeyUsed, AllKeys, KeySlots
<1> QED
  BY <1>2, <1>3

LEMMA HwShape ==
  ASSUME KeyInv, CipherInv, Owned', NEW c \in Channels, CipherHwStep(c)
  PROVE  CipherInv'
<1>1. busy[c] /\ UNCHANGED <<ctx, call, usable, asked, returned, pc>>
  BY DEF CipherHwStep, CipherHwDone, CipherHwError, HwDone, HwError
<1>2. PICK o \in Objects : o = call[cmd[c]].obj
  BY <1>1, JobsCrypt
<1>3. dst' \in [Objects -> Operations]
  <2>1. CASE CipherHwDone(c)
    <3>1. PICK p \in Packets : p = call[cmd[c]].op
      BY <1>1, JobsCrypt
    <3>2. p.key \in KeySlots /\ p.src \in Sources /\ p.encrypt \in BOOLEAN
      BY DEF Packets
    <3>3. PICK iv \in IVs \cup {NoIV} : iv = IF call[cmd[c]].cbc THEN ctx[o].iv ELSE NoIV
      BY DEF KeyInv, KeyTypes, Contexts
    <3>4. Operation(KeyUsed(o, p.key), iv, p.src, p.encrypt) \in Operations
      BY <3>2, KeyUsedType DEF Operation, Operations
    <3>5. dst' = [dst EXCEPT ![o] = Operation(KeyUsed(o, p.key), iv, p.src, p.encrypt)]
      BY <1>2, <2>1, <3>1, <3>3 DEF CipherHwDone
    <3> QED
      BY <3>4, <3>5 DEF CipherInv
  <2>2. CASE CipherHwError(c)
    BY <2>2 DEF CipherInv, CipherHwError, Operations
  <2> QED
    BY <2>1, <2>2 DEF CipherHwStep
<1> QED
  BY <1>1, <1>3 DEF CipherInv, CallShape, OwnWork

LEMMA DcpShape ==
  ASSUME KeyInv, CipherInv, Owned', CipherDcpInit \/ CipherDcpDeinit \/ UNCHANGED vars
  PROVE  CipherInv'
<1>1. UNCHANGED <<ctx, call, usable, asked, returned, dst, pc>>
  BY DEF CipherDcpInit, CipherDcpDeinit, DcpInit, DcpDeinit, vars, dcpVars, cipherVars
<1> QED
  BY <1>1 DEF CipherInv, CallShape, OwnWork

\* Every step of Cipher is a step of the driver, or leaves it alone.
LEMMA NextFollows ==
  ASSUME KeyInv, CipherInv, [CNext]_vars
  PROVE  [Next]_dcpVars
<1>1. KeyTypes /\ TypeOK
  BY DEF KeyInv, CipherInv, Owned
<1>2. ASSUME NEW t \in Tasks, CallStep(t) PROVE [Next]_dcpVars
  <2>1. CASE SetKeyWord(t) \/ SetKeyEnd(t)
    BY <2>1 DEF SetKeyWord, SetKeyEnd
  <2>2. CASE CryptDone(t) \/ CryptFail(t)
    BY <2>2 DEF CryptDone, CryptFail, Next
  <2>3. CASE Drive(t)
    BY <2>3 DEF Drive, Next, TaskStep
  <2> QED
    BY <1>2, <2>1, <2>2, <2>3 DEF CallStep
<1>3. ASSUME NEW t \in Tasks, NEW o \in Objects,
             \/ \E c \in ChannelsOf[t] : CipherInit(t, o, c)
             \/ \E s \in OtpSlots : SetKeyOtp(t, o, s)
             \/ \E k \in Keys : \/ SetKeyPayload(t, o, k)
                                \/ \E s \in SramSlots : SetKeyIndex(t, o, s, k)
      PROVE  [Next]_dcpVars
  BY <1>3 DEF CipherInit, SetKeyOtp, SetKeyPayload, SetKeyIndex
<1>4. ASSUME NEW t \in Tasks, NEW o \in Objects, NEW s \in Sources, NEW v \in IVs \cup {NoIV},
             NEW e \in BOOLEAN, Crypt(t, o, s, v, e)
      PROVE  [Next]_dcpVars
  <2>1. Submit(t, ctx[o].channel)
    BY <1>4, CryptSubmits
  <2>2. ctx[o].channel \in ChannelsOf[t]
    BY <2>1 DEF Submit, Enter
  <2> QED
    BY <2>1, <2>2 DEF Next
<1>5. ASSUME NEW c \in Channels, CipherHwStep(c) PROVE [Next]_dcpVars
  BY <1>5 DEF CipherHwStep, CipherHwDone, CipherHwError, Next, HwStep
<1>6. CASE CipherDcpInit \/ CipherDcpDeinit \/ UNCHANGED vars
  BY <1>6 DEF CipherDcpInit, CipherDcpDeinit, Next, vars
<1> QED
  BY <1>2, <1>3, <1>4, <1>5, <1>6 DEF CNext

LEMMA NextCipherInv ==
  ASSUME RestartAfterFailure, KeyInv, CipherInv, [CNext]_vars
  PROVE  CipherInv'
<1>1. Owned'
  BY NextFollows, NextOwned DEF CipherInv
<1>2. ASSUME NEW t \in Tasks, CallStep(t) PROVE CipherInv'
  <2>1. PICK o \in Objects : o = call[t].obj
    BY DEF KeyInv, KeyTypes, CallStates
  <2> QED
    BY <1>1, <1>2, <2>1, SetKeyShape, ReturnShape, DriveShape DEF CallStep
<1> QED
  BY <1>1, <1>2, SetKeyShape, InitShape, CryptShape, HwShape, DcpShape DEF CNext

LEMMA AlwaysCipherInv ==
  ASSUME RestartAfterFailure
  PROVE  CSpec => []CipherInv
<1>1. KeyInv /\ CipherInv /\ [CNext]_vars => CipherInv'
  BY NextCipherInv
<1> QED
  BY <1>1, InitCipherInv, AlwaysKeyInv, PTL DEF CSpec

\* Where init() follows every failure: contexts, key RAM, calls and the destination are
\* of their types, so KEY never points past a key's last word.
THEOREM CipherTypeCorrect == RestartAfterFailure => (CSpec => []CTypeOK)
<1> SUFFICES ASSUME RestartAfterFailure PROVE CSpec => []CTypeOK
  OBVIOUS
<1>1. KeyInv /\ CipherInv => CTypeOK
  BY DEF KeyInv, KeyTypes, CipherInv, Owned, CTypeOK, Contexts, CallStates
<1> QED
  BY <1>1, AlwaysKeyInv, AlwaysCipherInv, PTL

\* Where init() follows every failure, no crypt() polls for a job that it has not
\* scheduled itself: all that is proved of the driver holds under Cipher.
THEOREM CipherFollowsDriver == RestartAfterFailure => (CSpec => FollowsDriver)
<1> SUFFICES ASSUME RestartAfterFailure PROVE CSpec => FollowsDriver
  OBVIOUS
<1>1. CInit => Init
  BY DEF CInit
<1>2. KeyInv /\ CipherInv /\ [CNext]_vars => [Next]_dcpVars
  BY NextFollows
<1> QED
  BY <1>1, <1>2, AlwaysKeyInv, AlwaysCipherInv, PTL DEF CSpec, FollowsDriver, Spec

-----------------------------------------------------------------------------
(* What a step leaves alone. *)

\* A step that the program takes for an object, within a call or at its beginning.
SetKeyStep(t, o) ==
  \/ \E s \in OtpSlots : SetKeyOtp(t, o, s)
  \/ \E k \in Keys : \/ SetKeyPayload(t, o, k)
                     \/ \E s \in SramSlots : SetKeyIndex(t, o, s, k)
  \/ o = call[t].obj /\ (SetKeyWord(t) \/ SetKeyEnd(t))

ProgramStep(t, o) ==
  \/ SetKeyStep(t, o)
  \/ \E c \in ChannelsOf[t] : CipherInit(t, o, c)
  \/ \E s \in Sources, v \in IVs \cup {NoIV}, e \in BOOLEAN : Crypt(t, o, s, v, e)
  \/ o = call[t].obj /\ (CryptDone(t) \/ CryptFail(t) \/ Drive(t))

LEMMA Steps ==
  ASSUME KeyInv, CNext
  PROVE  \/ CipherDcpInit \/ CipherDcpDeinit
         \/ \E t \in Tasks, o \in Objects : ProgramStep(t, o)
         \/ \E c \in Channels : CipherHwStep(c)
<1>1. \A t \in Tasks : call[t].obj \in Objects
  BY DEF KeyInv, KeyTypes, CallStates
<1> QED
  BY <1>1 DEF CNext, CallStep, ProgramStep, SetKeyStep

\* The objects, the calls and the driver's calls that a step of the program leaves alone.
LEMMA ProgramFrame ==
  ASSUME KeyInv, CipherInv, NEW u \in Tasks, NEW p \in Objects, ProgramStep(u, p)
  PROVE  /\ Owner[p] = u
         /\ call[u].phase = "none" \/ call[u].obj = p
         /\ call'[u].phase = "crypt" => call'[u].obj = p
         /\ \A o \in Objects \ {p} : /\ ctx'[o] = ctx[o] /\ keyOf'[o] = keyOf[o]
                                     /\ asked'[o] = asked[o] /\ returned'[o] = returned[o]
         /\ dst' = dst
         /\ \A t \in Tasks \ {u} : call'[t] = call[t] /\ outcome'[t] = outcome[t]
<1>1. /\ KeyTypes /\ TypeOK /\ CallKey(u) /\ CallShape(u)
      /\ asked \in [Objects -> Operations] /\ returned \in [Objects -> BOOLEAN]
      /\ ctx \in [Objects -> Contexts] /\ call \in [Tasks -> CallStates] /\ call[u].obj \in Objects
  BY DEF KeyInv, KeyTypes, CallStates, CipherInv, Owned
<1>2. CASE SetKeyStep(u, p)
  <2>1. /\ Owner[p] = u
        /\ call[u].phase = "none" \/ call[u].obj = p
        /\ UNCHANGED <<dcpVars, usable, asked, returned, dst>>
        /\ \A o \in Objects \ {p} : keyOf'[o] = keyOf[o]
    BY <1>2, SetKeyEffect DEF SetKeyStep
  <2>2. PICK x \in Contexts : ctx' = [ctx EXCEPT ![p] = x]
    BY <1>2, SetKeyEffect DEF SetKeyStep
  <2>3. PICK k \in CallStates : call' = [call EXCEPT ![u] = k] /\ k.phase # "crypt"
    BY <1>2, SetKeyEffect DEF SetKeyStep
  <2> QED
    BY <1>1, <2>1, <2>2, <2>3 DEF dcpVars
<1>3. ASSUME NEW c \in ChannelsOf[u], CipherInit(u, p, c)
      PROVE  /\ Owner[p] = u /\ call[u].phase = "none" /\ call' = call
             /\ UNCHANGED <<outcome, keyOf, asked, returned, dst>>
             /\ \A o \in Objects \ {p} : ctx'[o] = ctx[o]
  BY <1>1, <1>3 DEF CipherInit, Idle, dcpVars
<1>4. ASSUME NEW s \in Sources, NEW v \in IVs \cup {NoIV}, NEW e \in BOOLEAN,
             Crypt(u, p, s, v, e)
      PROVE  /\ Owner[p] = u /\ call[u].phase = "none" /\ call'[u].obj = p
             /\ UNCHANGED <<keyOf, dst>>
             /\ \A o \in Objects \ {p} : /\ ctx'[o] = ctx[o] /\ asked'[o] = asked[o]
                                         /\ returned'[o] = returned[o]
             /\ \A t \in Tasks \ {u} : call'[t] = call[t] /\ outcome'[t] = outcome[t]
  <2>1. PICK x \in Contexts, k \in CallStates : /\ ctx' = [ctx EXCEPT ![p] = x]
                                                /\ call' = [call EXCEPT ![u] = k] /\ k.obj = p
    <3>1. KeyTypes
      BY <1>1
    <3> QED
      BY <1>4, <3>1, CryptCall
  <2>2. Submit(u, ctx[p].channel)
    BY <1>4, CryptSubmits
  <2> QED
    BY <1>1, <1>4, <2>1, <2>2 DEF Crypt, Idle, Submit, Enter, TypeOK
<1>5. ASSUME p = call[u].obj, CryptDone(u) \/ CryptFail(u)
      PROVE  /\ Owner[p] = u /\ call'[u].phase = "none"
             /\ UNCHANGED <<keyOf, asked, dst>>
             /\ \A o \in Objects \ {p} : ctx'[o] = ctx[o] /\ returned'[o] = returned[o]
             /\ \A t \in Tasks \ {u} : call'[t] = call[t] /\ outcome'[t] = outcome[t]
  BY <1>1, <1>5, NoCallType DEF CryptDone, CryptFail, CallKey, Retire, TypeOK
<1>6. ASSUME p = call[u].obj, Drive(u)
      PROVE  /\ Owner[p] = u /\ UNCHANGED <<call, outcome, keyOf, asked, returned, dst>>
             /\ \A o \in Objects \ {p} : ctx'[o] = ctx[o]
  <2>1. UNCHANGED <<call, outcome, keyOf, asked, returned, dst>> /\ pc[u] # "idle"
    BY <1>6 DEF Drive, ScheduleWorkStart, ScheduleWorkCheck, ScheduleWorkTaken, Poll, Status,
                ClearStatus, cipherVars
  <2>2. Owner[p] = u
    BY <1>1, <1>6, <2>1 DEF CallShape, CallKey
  <2>3. \A o \in Objects \ {p} : ctx'[o] = ctx[o]
    BY <1>1, <1>6 DEF Drive, cipherVars
  <2> QED
    BY <2>1, <2>2, <2>3
<1> QED
  BY <1>2, <1>3, <1>4, <1>5, <1>6 DEF ProgramStep

\* It writes to no slot of the key RAM but its object's own.
LEMMA SlotFrame ==
  ASSUME KeyInv, CipherInv, Whole, NEW u \in Tasks, NEW p \in Objects, ProgramStep(u, p),
         NEW slot \in SramSlots \ SlotsOf[p]
  PROVE  keyRam'[slot] = keyRam[slot]
<1>1. CASE p = call[u].obj /\ SetKeyWord(u)
  <2>1. Written(u) /\ CallKey(u) /\ call[u].phase = "setKey" /\ KeyTypes
    BY <1>1 DEF Whole, KeyInv, SetKeyWord
  <2>2. keyIndex.slot \in SlotsOf[p]
    BY <1>1, <2>1 DEF Written, CallKey
  <2> QED
    BY <1>1, <2>1, <2>2 DEF SetKeyWord, KeyTypes
<1>2. CASE keyRam' = keyRam
  BY <1>2
<1> QED
  BY <1>1, <1>2
  DEF ProgramStep, SetKeyStep, SetKeyOtp, SetKeyPayload, SetKeyIndex, SetKeyEnd, CipherInit, Crypt,
      CryptDone, CryptFail, Drive, cipherVars

LEMMA KeyUsedSame ==
  ASSUME NEW o \in Objects, NEW slot \in KeySlots, ctx'[o].keyData = ctx[o].keyData,
         slot \in SramSlots => keyRam'[slot] = keyRam[slot]
  PROVE  KeyUsed(o, slot)' = KeyUsed(o, slot)
BY DEF KeyUsed, KeySlots

\* Where one task writes the keys and init() follows every failure, nothing the program
\* does, in that call, in another object or in another task, changes the packet, the IV or
\* the key of a running job, wherever the key is.
THEOREM CryptDataUntouched ==
  OneKeyWriter /\ RestartAfterFailure => (CSpec => CryptDataStable)
<1> SUFFICES ASSUME OneKeyWriter, RestartAfterFailure PROVE CSpec => CryptDataStable
  OBVIOUS
<1> DEFINE Stable(c) == busy[c] /\ busy'[c] =>
                          LET o == call[cmd[c]].obj
                          IN /\ call'[cmd[c]] = call[cmd[c]]
                             /\ ctx'[o] = ctx[o]
                             /\ KeyUsed(o, ctx[o].keySlot)' = KeyUsed(o, ctx[o].keySlot)
<1>1. KeyInv /\ CipherInv /\ Whole /\ [CNext]_vars => [\A c \in Channels : Stable(c)]_vars
  <2> SUFFICES ASSUME KeyInv, CipherInv, Whole, CNext, NEW c \in Channels, busy[c], busy'[c]
               PROVE  LET o == call[cmd[c]].obj
                      IN /\ call'[cmd[c]] = call[cmd[c]]
                         /\ ctx'[o] = ctx[o]
                         /\ KeyUsed(o, ctx[o].keySlot)' = KeyUsed(o, ctx[o].keySlot)
    OBVIOUS
  <2>1. PICK t \in Tasks, o \in Objects : t = cmd[c] /\ o = call[t].obj
    BY JobsCrypt
  <2>2. /\ Owner[o] = t /\ chan[t] = c /\ call[t].phase = "crypt" /\ pc[t] = "poll"
        /\ KeyPlace(o) /\ keyOf[o] # NoKey /\ KeyTypes /\ TypeOK
    BY <2>1, JobsCrypt DEF CipherInv, Owned, NoReturnWhileRunning, KeyInv, CallKey
  <2>3. PICK slot \in KeySlots : slot = ctx[o].keySlot
    BY <2>2 DEF KeyTypes, Contexts
  <2>4. /\ call'[t] = call[t] /\ ctx'[o] = ctx[o]
        /\ slot \in SramSlots => keyRam'[slot] = keyRam[slot]
    <3>1. CASE CipherDcpInit \/ CipherDcpDeinit
      BY <2>2, <3>1 DEF CipherDcpInit, CipherDcpDeinit, NoCalls
    <3>2. ASSUME NEW u \in Tasks, NEW p \in Objects, ProgramStep(u, p)
          PROVE  /\ call'[t] = call[t] /\ ctx'[o] = ctx[o]
                 /\ slot \in SramSlots => keyRam'[slot] = keyRam[slot]
      <4>1. u # t
        BY <2>1, <2>2, <3>2
        DEF ProgramStep, SetKeyStep, SetKeyOtp, SetKeyPayload, SetKeyIndex, SetKeyWord, SetKeyEnd,
            CipherInit, Crypt, CryptDone, CryptFail, Drive, Idle, Retire, Returned,
            ScheduleWorkStart, ScheduleWorkCheck, ScheduleWorkTaken, Poll, Status, ClearStatus
      <4>2. Owner[p] = u /\ p # o
        BY <2>2, <3>2, <4>1, ProgramFrame
      <4>3. slot \in SramSlots => slot \notin SlotsOf[p]
        BY <2>2, <2>3, <4>2, Slots, CipherAssumption DEF KeyPlace
      <4> QED
        BY <3>2, <4>1, <4>2, <4>3, ProgramFrame, SlotFrame
    <3>3. ASSUME NEW d \in Channels, CipherHwStep(d) PROVE UNCHANGED <<call, ctx, keyRam>>
      BY <3>3 DEF CipherHwStep, CipherHwDone, CipherHwError
    <3> QED
      BY <3>1, <3>2, <3>3, Steps
  <2>5. cmd'[c] = cmd[c]
    <3>1. [Next]_dcpVars
      BY NextFollows
    <3> QED
      BY <2>2, <3>1 DEF Next, DcpInit, DcpDeinit, Submit, Enter, TaskStep, ScheduleWorkStart,
                        ScheduleWorkCheck, ScheduleWorkTaken, Poll, Status, ClearStatus, Retire,
                        HwStep, HwDone, HwError, dcpVars, TypeOK
  <2>6. KeyUsed(o, slot)' = KeyUsed(o, slot)
    BY <2>4, KeyUsedSame
  <2>7. /\ call[cmd[c]].obj = o /\ ctx[call[cmd[c]].obj].keySlot = slot
        /\ call'[cmd'[c]].obj = o /\ ctx'[call'[cmd'[c]].obj].keySlot = slot
    BY <2>1, <2>3, <2>4, <2>5
  <2>8. KeyUsed(call[cmd[c]].obj, ctx[call[cmd[c]].obj].keySlot) = KeyUsed(o, slot)
    BY <2>7, Zenon DEF KeyUsed
  <2>9. KeyUsed(call[cmd[c]].obj, ctx[call[cmd[c]].obj].keySlot)' = KeyUsed(o, slot)'
    BY <2>7, Zenon DEF KeyUsed
  <2>10. KeyUsed(call[cmd[c]].obj, ctx[call[cmd[c]].obj].keySlot)'
          = KeyUsed(call[cmd[c]].obj, ctx[call[cmd[c]].obj].keySlot)
    BY <2>6, <2>8, <2>9
  <2> QED
    BY <2>1, <2>4, <2>10
<1> QED
  BY <1>1, AlwaysKeyInv, AlwaysCipherInv, AlwaysWhole, PTL DEF CSpec, CryptDataStable

-----------------------------------------------------------------------------
(* What crypt() computes. *)

\* A step that changes nothing that Operated(o) is about, or not while o's crypt() runs.
LEMMA OperatedSame ==
  ASSUME NEW o \in Objects, Operated(o),
         asked'[o] = asked[o], returned'[o] = returned[o], dst'[o] = dst[o],
         LET t == Owner[o]
         IN \/ /\ ctx'[o].iv = ctx[o].iv /\ keyOf'[o] = keyOf[o]
               /\ call'[t] = call[t] /\ outcome'[t] = outcome[t]
            \/ ~(call'[t].phase = "crypt" /\ call'[t].obj = o)
  PROVE  Operated(o)'
BY DEF Operated

LEMMA CryptOperated ==
  ASSUME KeyInv, CipherInv, NEW t \in Tasks, NEW o \in Objects, Operated(o),
         NEW s \in Sources, NEW v \in IVs \cup {NoIV}, NEW e \in BOOLEAN, Crypt(t, o, s, v, e)
  PROVE  Operated(o)'
<1>1. /\ KeyTypes /\ TypeOK /\ Owner[o] = t /\ keyOf[o] # NoKey /\ keyOf' = keyOf
      /\ asked \in [Objects -> Operations] /\ returned \in [Objects -> BOOLEAN]
  BY DEF KeyInv, CipherInv, Owned, Crypt, Idle
<1>2. ~ctx[o].workScheduled /\ Submit(t, ctx[o].channel)
  BY CryptSubmits
<1>3. PICK x \in Contexts, k \in CallStates :
        /\ ctx' = [ctx EXCEPT ![o] = x] /\ (v # NoIV => x.iv = v)
        /\ call' = [call EXCEPT ![t] = k] /\ k.phase = "crypt" /\ k.obj = o
        /\ ~ctx[o].workScheduled => /\ k.op = Operation(ctx[o].keySlot, NoIV, s, e)
                                    /\ k.cbc = (v # NoIV)
  <2>1. KeyTypes
    BY <1>1
  <2> QED
    BY <2>1, CryptCall
<1>4. ctx'[o] = x /\ call'[t] = k /\ k.op.src = s /\ k.op.encrypt = e
  BY <1>1, <1>2, <1>3 DEF KeyTypes, Operation
<1>5. outcome'[t] = "none" /\ ~returned'[o] /\ asked'[o] = Operation(keyOf[o], v, s, e)
  BY <1>1, <1>2 DEF Crypt, Submit, Enter, TypeOK
<1>6. (IF k.cbc THEN x.iv ELSE NoIV) = v
  BY <1>2, <1>3
<1> QED
  BY <1>1, <1>3, <1>4, <1>5, <1>6 DEF Operated

LEMMA ReturnOperated ==
  ASSUME KeyInv, CipherInv, Truthful, NEW t \in Tasks, NEW o \in Objects,
         o = call[t].obj, Operated(o), CryptDone(t) \/ CryptFail(t)
  PROVE  Operated(o)'
<1>1. /\ KeyTypes /\ Owner[o] = t /\ call[t].phase = "crypt" /\ NoCall.phase = "none"
      /\ call' = [call EXCEPT ![t] = NoCall] /\ UNCHANGED <<asked, dst>>
      /\ returned \in [Objects -> BOOLEAN]
  BY NoCallType DEF KeyInv, CallKey, CipherInv, CryptDone, CryptFail
<1>2. call'[t].phase = "none"
  BY <1>1 DEF KeyTypes
<1>3. t \in Owners /\ returned'[o] => dst[o] = asked[o]
  <2>1. CASE CryptDone(t)
    <3>1. pc[t] = "complete"
      BY <2>1 DEF CryptDone
    <3> QED
      BY <1>1, <3>1 DEF Truthful, Operated
  <2>2. CASE CryptFail(t)
    BY <1>1, <2>2 DEF CryptFail, Operated
  <2> QED
    BY <2>1, <2>2
<1> QED
  BY <1>1, <1>2, <1>3 DEF Operated

\* The key of the object is the one that the coprocessor finds.
LEMMA KeyFound ==
  ASSUME KeyInv, KeySlotWhole, NEW o \in Objects, keyOf[o] # NoKey
  PROVE  KeyUsed(o, ctx[o].keySlot) = keyOf[o]
<1>1. KeyPlace(o) /\ ctx[o].keySlot \in KeySlots
  BY DEF KeyInv, KeyTypes, Contexts
<1>2. CASE ctx[o].keySlot \in SramSlots
  <2>1. PICK k \in Keys : k = keyOf[o]
    BY <1>1, <1>2 DEF KeyPlace
  <2>2. \A w \in 1 .. KeyWords : keyRam[ctx[o].keySlot][w] = k
    BY <1>2, <2>1 DEF KeySlotWhole
  <2>3. keyRam[ctx[o].keySlot][1] = k
    BY <2>2, Slots
  <2> QED
    BY <1>2, <2>1, <2>2, <2>3, Slots DEF KeyUsed
<1>3. CASE ctx[o].keySlot \notin SramSlots
  BY <1>1, <1>3, Slots DEF KeyPlace, KeyUsed, KeySlots
<1> QED
  BY <1>2, <1>3

LEMMA HwOperated ==
  ASSUME KeyInv, CipherInv, KeySlotWhole, Pending, NEW c \in Channels, CipherHwStep(c),
         NEW o \in Objects, Operated(o)
  PROVE  Operated(o)'
<1>1. /\ busy[c] /\ TypeOK /\ dst \in [Objects -> Operations] /\ Owner[o] \in Tasks
      /\ UNCHANGED <<ctx, call, keyOf, asked, returned>>
  BY Slots DEF CipherInv, Owned, CipherHwStep, CipherHwDone, CipherHwError, HwDone, HwError
<1>2. PICK t \in Tasks, p \in Objects : t = cmd[c] /\ p = call[t].obj
  BY <1>1, JobsCrypt
<1>3. Owner[p] = t /\ call[t].phase = "crypt" /\ call[t].op.key = ctx[p].keySlot
  BY <1>1, <1>2, JobsCrypt
<1>4. CASE o # p
  <2>1. dst'[o] = dst[o] /\ \A u \in Tasks \ {t} : outcome'[u] = outcome[u]
    BY <1>1, <1>2, <1>4 DEF CipherHwStep, CipherHwDone, CipherHwError, HwDone, HwError, TypeOK
  <2>2. CASE Owner[o] = t
    <3>1. ~(call'[Owner[o]].phase = "crypt" /\ call'[Owner[o]].obj = o)
      BY <1>1, <1>2, <1>4, <2>2
    <3> QED
      BY <1>1, <2>1, <3>1, OperatedSame
  <2>3. CASE Owner[o] # t
    <3>1. outcome'[Owner[o]] = outcome[Owner[o]]
      BY <1>1, <2>1, <2>3
    <3> QED
      BY <1>1, <2>1, <3>1, OperatedSame
  <2> QED
    BY <2>2, <2>3
<1>5. CASE o = p
  <2>1. ~returned[o] /\ keyOf[o] # NoKey
        /\ asked[o] = Operation(keyOf[o], IF call[t].cbc THEN ctx[o].iv ELSE NoIV,
                                call[t].op.src, call[t].op.encrypt)
    BY <1>2, <1>3, <1>5 DEF Operated
  <2>2. outcome'[t] = "done" => dst'[o] = asked[o]
    <3>1. CASE CipherHwError(c)
      BY <1>1, <1>2, <3>1 DEF CipherHwError, HwError, TypeOK
    <3>2. CASE CipherHwDone(c)
      <4>1. KeyUsed(o, call[t].op.key) = keyOf[o]
        BY <1>3, <1>5, <2>1, KeyFound
      <4>2. dst'[o] = Operation(KeyUsed(o, call[t].op.key),
                                IF call[t].cbc THEN ctx[o].iv ELSE NoIV,
                                call[t].op.src, call[t].op.encrypt)
        BY <1>1, <1>2, <1>5, <3>2 DEF CipherHwDone
      <4> QED
        BY <2>1, <4>1, <4>2
    <3> QED
      BY <3>1, <3>2 DEF CipherHwStep
  <2> QED
    BY <1>1, <1>3, <1>5, <2>1, <2>2 DEF Operated
<1> QED
  BY <1>4, <1>5

LEMMA ProgramOperated ==
  ASSUME KeyInv, CipherInv, Truthful, NEW u \in Tasks, NEW p \in Objects,
         ProgramStep(u, p), NEW o \in Objects, Operated(o)
  PROVE  Operated(o)'
<1>1. Owner[o] \in Tasks /\ Owner[p] = u /\ dst' = dst
  BY Slots, ProgramFrame
<1>2. CASE o # p
  <2>1. asked'[o] = asked[o] /\ returned'[o] = returned[o] /\ ctx'[o] = ctx[o] /\ keyOf'[o] = keyOf[o]
    BY <1>2, ProgramFrame
  <2>2. CASE Owner[o] = u
    <3>1. ~(call'[u].phase = "crypt" /\ call'[u].obj = o)
      BY <1>2, ProgramFrame
    <3> QED
      BY <1>1, <2>1, <2>2, <3>1, OperatedSame
  <2>3. CASE Owner[o] # u
    <3>1. call'[Owner[o]] = call[Owner[o]] /\ outcome'[Owner[o]] = outcome[Owner[o]]
      BY <1>1, <2>3, ProgramFrame
    <3> QED
      BY <1>1, <2>1, <3>1, OperatedSame
  <2> QED
    BY <2>2, <2>3
<1>3. CASE o = p
  <2>1. CASE SetKeyStep(u, p)
    <3>1. UNCHANGED <<asked, returned>>
      BY <2>1, SetKeyEffect DEF SetKeyStep
    <3>2. PICK k \in CallStates : call' = [call EXCEPT ![u] = k] /\ k.phase # "crypt"
      BY <2>1, SetKeyEffect DEF SetKeyStep
    <3>3. call'[u].phase # "crypt"
      BY <3>2 DEF KeyInv, KeyTypes
    <3> QED
      BY <1>1, <1>3, <3>1, <3>3, OperatedSame
  <2>2. ASSUME NEW c \in ChannelsOf[u], CipherInit(u, p, c) PROVE Operated(o)'
    <3>1. UNCHANGED <<call, asked, returned>> /\ call[u].phase = "none"
      BY <2>2 DEF CipherInit, Idle
    <3> QED
      BY <1>1, <1>3, <3>1, OperatedSame
  <2>3. CASE o = call[u].obj /\ Drive(u)
    <3>1. UNCHANGED <<call, outcome, keyOf, asked, returned>>
      BY <2>3 DEF Drive, ScheduleWorkStart, ScheduleWorkCheck, ScheduleWorkTaken, Poll, Status,
                  ClearStatus, cipherVars
    <3>2. PICK x \in Contexts : ctx' = [ctx EXCEPT ![o] = x] /\ x.iv = ctx[o].iv
      BY <2>3, DriveKeeps
    <3>3. ctx'[o].iv = ctx[o].iv
      BY <3>2 DEF KeyInv, KeyTypes
    <3> QED
      BY <1>1, <3>1, <3>3, OperatedSame
  <2> QED
    BY <1>3, <2>1, <2>2, <2>3, CryptOperated, ReturnOperated DEF ProgramStep
<1> QED
  BY <1>2, <1>3

LEMMA NextOperated ==
  ASSUME KeyInv, CipherInv, KeySlotWhole, Pending, Truthful,
         \A o \in Objects : Operated(o), [CNext]_vars
  PROVE  \A o \in Objects : Operated(o)'
<1> SUFFICES ASSUME NEW o \in Objects PROVE Operated(o)'
  OBVIOUS
<1>1. Operated(o) /\ Owner[o] \in Tasks
  BY Slots
<1>2. CASE CipherDcpInit \/ CipherDcpDeinit
  <2>1. UNCHANGED <<call, asked, returned, dst>> /\ call[Owner[o]].phase = "none"
    BY <1>1, <1>2 DEF CipherDcpInit, CipherDcpDeinit, NoCalls, cipherVars
  <2> QED
    BY <1>1, <2>1, OperatedSame
<1>3. CASE UNCHANGED vars
  BY <1>1, <1>3, OperatedSame DEF vars, dcpVars, cipherVars
<1> QED
  BY <1>1, <1>2, <1>3, Steps, ProgramOperated, HwOperated

\* Where one task writes the key RAM and init() follows every failure: when crypt() has
\* returned true on an object whose task owns its channels, the destination holds this
\* call's operation with the key last set and this call's IV.  The other objects and
\* tasks may share channels with one another and be at any point of their calls.
THEOREM CryptIsCorrect ==
  OneKeyWriter /\ RestartAfterFailure => (CSpec => []CryptCorrect)
<1> SUFFICES ASSUME OneKeyWriter, RestartAfterFailure PROVE CSpec => []CryptCorrect
  OBVIOUS
<1>1. CInit => \A o \in Objects : Operated(o)
  BY NoCallType, Slots DEF CInit, Operated
<1>2. (\A o \in Objects : Operated(o)) /\ KeyInv /\ CipherInv /\ KeySlotWhole /\ Pending /\ Truthful
        /\ [CNext]_vars => (\A o \in Objects : Operated(o))'
  BY NextOperated
<1>3. (\A o \in Objects : Operated(o)) => CryptCorrect
  BY DEF Operated, CryptCorrect
<1>4. CSpec => [](Pending /\ Truthful)
  BY CipherFollowsDriver, AlwaysPending, CompletionIsTruthful, PTL DEF FollowsDriver
<1> QED
  BY <1>1, <1>2, <1>3, <1>4, AlwaysKeyInv, AlwaysCipherInv, KeySlotIsWhole, PTL DEF CSpec

=============================================================================
