------------------------------ MODULE MacSpec ------------------------------
(***************************************************************************)
(* What HMAC promises its caller (the comments of src/decept/hmac/HMAC.h,  *)
(* and FIPS 198-1), without pads, contexts or channels: an authenticator   *)
(* of exactly the message, under exactly the key that was last accepted,   *)
(* or nothing.  Each call is one step.                                     *)
(***************************************************************************)
EXTENDS Naturals, Sequences

CONSTANTS MacKeys, MacPieces, MaxMacPieces, NoMacKey, NoMac,
          Mac(_, _)   \* the authenticator of a sequence of pieces under a key

VARIABLES key, running, message, mac

specVars == <<key, running, message, mac>>

Init == key = NoMacKey /\ ~running /\ message = <<>> /\ mac = NoMac

\* initKey() returns true, or false: a key that was replaced in part is no key.
SetKey ==
  /\ key' \in MacKeys \cup {key, NoMacKey}
  /\ running' = FALSE /\ message' = <<>> /\ mac' = NoMac

Start ==
  /\ key # NoMacKey
  /\ running' = TRUE /\ message' = <<>> /\ mac' = NoMac
  /\ UNCHANGED key

Add(x) ==
  /\ running /\ Len(message) < MaxMacPieces
  /\ message' = Append(message, x)
  /\ UNCHANGED <<key, running, mac>>

Finish ==
  /\ running
  /\ running' = FALSE /\ message' = <<>> /\ mac' = Mac(key, message)
  /\ UNCHANGED key

\* calculate(): all of it at once, and the end of a calculation that runs.
Whole(pieces) ==
  /\ key # NoMacKey
  /\ running' = FALSE /\ message' = <<>> /\ mac' = Mac(key, pieces)
  /\ UNCHANGED key

\* "If this returns false then 'output' will not have been modified."
Abandon ==
  /\ running' = FALSE /\ message' = <<>> /\ mac' = NoMac
  /\ UNCHANGED key

Next ==
  \/ SetKey \/ Start \/ Finish \/ Abandon
  \/ \E x \in MacPieces : Add(x)
  \/ \E n \in 0 .. MaxMacPieces : \E pieces \in [1 .. n -> MacPieces] : Whole(pieces)

Spec == Init /\ [][Next]_specVars
=============================================================================
