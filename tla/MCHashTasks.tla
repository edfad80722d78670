----------------------------- MODULE MCHashTasks -----------------------------
(* Hash with three tasks for TLC.  The main loop has two objects and two    *)
(* channels to itself; two interrupt handlers, with an object each, share a *)
(* third channel.                                                           *)
EXTENDS Hash, TLC

CONSTANTS main, isr, isr2, ch0, ch1, ch2, sha, crc, sha2, sha3

TheirChannelsOf == main :> {ch0, ch1} @@ isr :> {ch2} @@ isr2 :> {ch2}
TheirOwner      == sha :> main @@ crc :> main @@ sha2 :> isr @@ sha3 :> isr2

\* The task has made no call, or left nothing of it.
Untouched(t) ==
  /\ \A o \in Objects : Owner[o] = t =>
       ctx[o] = Cleared /\ ~open[o] /\ session[o] = 0 /\ sent[o] = 0 /\ out[o] = NoOutput
  /\ \A c \in ChannelsOf[t] : context[c] = Garbage /\ cmd[c] = NoTask

\* Bounds: either the main loop makes calls in a behaviour or the handlers do, as they
\* have no channel and no object in common; and only sha starts a second message.
EitherCalls == Untouched(main) \/ (Untouched(isr) /\ Untouched(isr2))
OneMessage  == \A o \in Objects \ {sha} : open[o] => session[o] = 1
Bounds      == EitherCalls /\ OneMessage

\* The handlers and their objects are alike, and so are the main loop's channels.
Handlers == {isr :> i @@ isr2 :> i2 @@ sha2 :> s @@ sha3 :> s2 :
               <<i, i2, s, s2>> \in {<<isr, isr2, sha2, sha3>>, <<isr2, isr, sha3, sha2>>}}
Alike    == {h @@ c : h \in Handlers, c \in Permutations({ch0, ch1})}
=============================================================================
