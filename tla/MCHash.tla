------------------------------- MODULE MCHash -------------------------------
(* One object on one channel for TLC: long messages.  MCHashTasks has more. *)
EXTENDS Hash, TLC

CONSTANTS main, ch0, sha

OneChannelOf == main :> {ch0}
ShaOwner     == sha :> main
=============================================================================
