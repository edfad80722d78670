-------------------------------- MODULE Hmac --------------------------------
(***************************************************************************)
(* The HMAC class (src/decept/hmac/HMAC.cpp) on three Hash objects: the    *)
(* running one, and two contexts that have digested the padded key.        *)
(*                                                                         *)
(* A Hash object is what HashSpec promises: it holds the pieces it has     *)
(* digested and the channel its jobs go to.  A call makes several hash     *)
(* calls, and any of them may fail: "left" is how many succeed before      *)
(* that.  A hash call that fails zeroes its object, channel included.      *)
(***************************************************************************)
EXTENDS Naturals, Sequences

CONSTANTS HmacKeys,      \* the keys,
          LongKeys,      \* those longer than a block,
          Pieces,        \* and the inputs of update(); one is empty:
          NoPiece,
          MaxPieces,     \* bound: the pieces of a message
          HmacChannels,
          ZeroChannel,   \* what a zeroed context holds for its channel
          NoKey,         \* no key was accepted
          NoTag          \* an output that was not written

ASSUME HmacAssumption ==
  /\ LongKeys \subseteq HmacKeys
  /\ NoPiece \in Pieces
  /\ ZeroChannel \in HmacChannels
  /\ MaxPieces \in Nat
  /\ NoKey \notin HmacKeys

VARIABLES hmac,      \* the members: hash, iCtx, oCtx and digest; how many hash
                     \* calls are left, and whether all have succeeded yet
          keyed,     \* history: the key initKey() accepted last
          wanted,    \* history: the channels that were chosen for the key, and
                     \* for the message
          fed,       \* history: the pieces update() has accepted
          isOpen,    \* between init() and the end of the calculation
          tag,       \* the caller's output
          jobs       \* the channels the hash calls of the last call ran on

hmacVars == <<hmac, keyed, wanted, fed, isOpen, tag, jobs>>

-----------------------------------------------------------------------------
(* Hash objects. m is the members' record: every operator is a hash call on *)
(* its object o, and does nothing once a call before it has failed.         *)

Digest(pieces) == <<"H", pieces>>

ClearedHash == [pieces |-> <<>>, channel |-> ZeroChannel]

\* The call's outcome: a failing hash call ends the HMAC call.
HashCall(m, o, done) ==
  IF ~m.ok THEN m
  ELSE IF m.left = 0 THEN [m EXCEPT ![o] = ClearedHash, !.ok = FALSE]
  ELSE [done EXCEPT !.left = @ - 1, !.ran = @ \cup {m[o].channel}]

Restart(m, o, c) == IF m.ok THEN [m EXCEPT ![o] = [pieces |-> <<>>, channel |-> c]] ELSE m
Copy(m, o, from) == IF m.ok THEN [m EXCEPT ![o] = m[from]] ELSE m

Feed(m, o, x) == HashCall(m, o, [m EXCEPT ![o].pieces = Append(@, x)])

\* An input of the caller's: there is no job for an empty one.
FeedInput(m, x) == IF x = NoPiece THEN m ELSE Feed(m, "hash", x)

\* The inputs one by one, up to one that fails.
FeedAll(m, pieces) ==
  LET done[i \in 0 .. Len(pieces)] == IF i = 0 THEN m ELSE FeedInput(done[i - 1], pieces[i])
  IN done[Len(pieces)]

\* finalize() writes the digest to field d and zeroes the object.
Finalize(m, o, d) ==
  HashCall(m, o, [m EXCEPT ![d] = Digest(m[o].pieces), ![o] = ClearedHash])

-----------------------------------------------------------------------------
\* digest_ after the key was copied, or hashed, into a zeroed block.
KeyBlock(k) == IF k \in LongKeys THEN Digest(<<k>>) ELSE k

\* HMAC takes a long key and its digest for one key: none of the keys is the digest
\* of another.
ASSUME HmacKeysAssumption == \A k, l \in HmacKeys : KeyBlock(k) = KeyBlock(l) => k = l

\* The second pass over digest_ turns the first pad into the second:
\* x ^ kIPad ^ (kIPad ^ kOPad).
IPad(k) == <<"ipad", KeyBlock(k)>>
OPad(k) == <<"opad", KeyBlock(k)>>

\* The inner half of initKey(): a long key is hashed first.
InnerKeyed(m, k, c) ==
  LET hashed == Finalize(Feed(Restart(m, "hash", c), "hash", k), "hash", "digest")
      block  == IF k \in LongKeys THEN hashed ELSE m
  IN Feed(Restart(block, "iCtx", c), "iCtx", IPad(k))

\* Mutant: the second pass over digest_ is left out.
KeyUpPadTwice(m, k, c) == Feed(Restart(InnerKeyed(m, k, c), "oCtx", c), "oCtx", IPad(k))

\* initKey(). A failure leaves the contexts the steps before it have made.
KeyUp(m, k, c) == Feed(Restart(InnerKeyed(m, k, c), "oCtx", c), "oCtx", OPad(k))

\* finalize(): the outer context comes with the channel of the key, and takes the
\* place of the channel of the message.
Outer(m) ==
  LET inner == Finalize(m, "hash", "digest")
      outer == Copy(inner, "hash", "oCtx")
  IN Finalize(Feed(outer, "hash", inner.digest), "hash", "out")

\* calculate(), on one input or on a sequence of them.
Calculate(m, pieces) == Outer(FeedAll(Copy(m, "hash", "iCtx"), pieces))

-----------------------------------------------------------------------------
HmacInit ==
  /\ hmac = [hash |-> ClearedHash, iCtx |-> ClearedHash, oCtx |-> ClearedHash,
             digest |-> NoTag, out |-> NoTag, left |-> 0, ok |-> TRUE, ran |-> {}]
  /\ keyed = NoKey /\ wanted = [key |-> ZeroChannel, message |-> ZeroChannel]
  /\ fed = <<>> /\ isOpen = FALSE /\ tag = NoTag /\ jobs = {}

\* A call in which n hash calls succeed: HashCalls is more than any call makes.
HashCalls == MaxPieces + 5
Call(n) == [hmac EXCEPT !.left = n, !.ok = TRUE, !.ran = {}, !.out = NoTag]

\* The call returns: m is what it made of the members.
Returned(m) ==
  /\ hmac' = [m EXCEPT !.left = 0, !.ok = TRUE, !.ran = {}, !.out = NoTag, !.digest = NoTag]
  /\ tag' = m.out
  /\ jobs' = m.ran

InitKey(k, c, n) ==
  LET m == KeyUp(Call(n), k, c)
  IN /\ Returned(m)
     /\ keyed' = IF m.ok THEN k ELSE NoKey
     /\ wanted' = [key |-> c, message |-> c]
     /\ fed' = <<>> /\ isOpen' = FALSE

\* Mutant: the running hash starts empty.
StartMessageEmpty(c) ==
  /\ keyed # NoKey
  /\ Returned(Restart(Call(0), "hash", c))
  /\ wanted' = [wanted EXCEPT !.message = c]
  /\ fed' = <<>> /\ isOpen' = TRUE
  /\ UNCHANGED keyed

\* init(): "A key must have been set with initKey()".
StartMessage(c) ==
  /\ keyed # NoKey
  /\ Returned([Copy(Call(0), "hash", "iCtx") EXCEPT !.hash.channel = c])
  /\ wanted' = [wanted EXCEPT !.message = c]
  /\ fed' = <<>> /\ isOpen' = TRUE
  /\ UNCHANGED keyed

SetChannel(c) ==
  /\ isOpen
  /\ Returned([Call(0) EXCEPT !.hash.channel = c])
  /\ wanted' = [wanted EXCEPT !.message = c]
  /\ UNCHANGED <<keyed, fed, isOpen>>

Update(x, n) ==
  LET m == FeedInput(Call(n), x)
  IN /\ isOpen /\ Len(fed) < MaxPieces
     /\ Returned(m)
     /\ isOpen' = m.ok
     /\ fed' = IF m.ok THEN fed \o (IF x = NoPiece THEN <<>> ELSE <<x>>) ELSE <<>>
     /\ UNCHANGED <<keyed, wanted>>

FinalizeMessage(n) ==
  /\ isOpen
  /\ Returned(Outer(Call(n)))
  /\ isOpen' = FALSE /\ fed' = <<>>
  /\ UNCHANGED <<keyed, wanted>>

CalculateAll(pieces, n) ==
  /\ keyed # NoKey
  /\ Returned(Calculate(Call(n), pieces))
  /\ wanted' = [wanted EXCEPT !.message = wanted.key]
  /\ isOpen' = FALSE /\ fed' = <<>>
  /\ UNCHANGED keyed

HmacNext ==
  \E n \in 0 .. HashCalls :
    \/ \E k \in HmacKeys, c \in HmacChannels : InitKey(k, c, n)
    \/ \E c \in HmacChannels : StartMessage(c)
    \/ \E c \in HmacChannels : SetChannel(c)
    \/ \E x \in Pieces : Update(x, n)
    \/ FinalizeMessage(n)
    \/ \E pieces \in UNION {[1 .. i -> Pieces] : i \in 0 .. MaxPieces} : CalculateAll(pieces, n)

HmacSpec == HmacInit /\ [][HmacNext]_hmacVars

-----------------------------------------------------------------------------
(* Properties. *)

\* The authenticator of FIPS 198-1, of pieces none of which is empty.
HmacOf(k, pieces) == Digest(<<OPad(k), Digest(<<IPad(k)>> \o pieces)>>)

\* The key is what the two contexts have digested, the message what the running
\* hash has digested after the padded key.
Accepted == {k \in HmacKeys : hmac.iCtx.pieces = <<IPad(k)>> /\ hmac.oCtx.pieces = <<OPad(k)>>}
KeyHeld  == IF Accepted = {} THEN NoKey ELSE CHOOSE k \in Accepted : TRUE

Abstract == INSTANCE MacSpec
  WITH MacKeys <- HmacKeys, MacPieces <- Pieces \ {NoPiece}, MaxMacPieces <- MaxPieces,
       NoMacKey <- NoKey, NoMac <- NoTag, Mac <- HmacOf,
       key <- KeyHeld, running <- isOpen, mac <- tag,
       message <- IF isOpen THEN Tail(hmac.hash.pieces) ELSE <<>>

\* HMAC implements MacSpec: whichever hash call fails, and in whatever order keys,
\* messages and channels are set, an output is the authenticator of the message
\* under the key, and a key that initKey() could not set is never used in part
\* (HMAC.cpp).
ImplementsMacSpec == Abstract!Spec

\* What the class holds is what the caller was told: the key it accepted and the
\* pieces it was fed, over any sequence of calls and failures.
HmacHoldsKey ==
  /\ keyed # NoKey => KeyHeld = keyed
  /\ isOpen => hmac.hash.pieces = <<IPad(keyed)>> \o fed

\* "Sets the calculation channel" (HMAC.h:81): the hash calls of a message run on
\* the channel that init() or setChannel() chose for it.  finalize() does not
\* keep to it: its second hash goes to the channel of initKey() (HMAC.cpp:102).
JobsOnMessageChannel == jobs \subseteq {wanted.message}
=============================================================================
