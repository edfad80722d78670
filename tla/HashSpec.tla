------------------------------ MODULE HashSpec ------------------------------
(***************************************************************************)
(* What Hash promises its caller (the comments of src/decept/Hash.h),      *)
(* without blocks, jobs, channels or contexts: update() appends bytes to   *)
(* the message or ends the calculation, finalize() ends it and writes the  *)
(* digest of exactly those bytes, or nothing.  Each call is one step.      *)
(***************************************************************************)
EXTENDS Integers

CONSTANTS Objects, CrcObjects, MaxMessage, NoOutput

VARIABLES open, session, sent, out

specVars == <<open, session, sent, out>>

DigestOf(o) == [obj |-> o, session |-> session[o], len |-> sent[o],
                final |-> o \notin CrcObjects]

Init ==
  /\ open = [o \in Objects |-> FALSE]
  /\ session = [o \in Objects |-> 0]
  /\ sent = [o \in Objects |-> 0]
  /\ out = [o \in Objects |-> NoOutput]

\* init(): a new message.
Restart(o) ==
  /\ open' = [open EXCEPT ![o] = TRUE]
  /\ session' = [session EXCEPT ![o] = 1 - @]
  /\ sent' = [sent EXCEPT ![o] = 0]
  /\ out' = [out EXCEPT ![o] = NoOutput]

\* update() returns true.
Accept(o, n) ==
  /\ open[o]
  /\ sent[o] + n <= MaxMessage
  /\ sent' = [sent EXCEPT ![o] = @ + n]
  /\ UNCHANGED <<open, session, out>>

\* finalize() returns true.
Finish(o) ==
  /\ open[o]
  /\ open' = [open EXCEPT ![o] = FALSE]
  /\ out' = [out EXCEPT ![o] = DigestOf(o)]
  /\ UNCHANGED <<session, sent>>

\* update() or finalize() returns false, or no output was asked for: "The
\* output is not modified".
Abandon(o) ==
  /\ open[o]
  /\ open' = [open EXCEPT ![o] = FALSE]
  /\ UNCHANGED <<session, sent, out>>

Next ==
  \E o \in Objects :
    \/ Restart(o)
    \/ \E n \in 1 .. MaxMessage : Accept(o, n)
    \/ Finish(o)
    \/ Abandon(o)

Spec == Init /\ [][Next]_specVars
=============================================================================
