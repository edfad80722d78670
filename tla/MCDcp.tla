------------------------------- MODULE MCDcp -------------------------------
(* Instances of the DCP driver for TLC. *)
EXTENDS Dcp, TLC

CONSTANTS main, isr, isr2, ch0, ch1

\* The main loop has its own channel; two handlers share the other, so that one may
\* take it from the other inside scheduleWork().
OneOwnerChannelsOf == main :> {ch0} @@ isr :> {ch1} @@ isr2 :> {ch1}
=============================================================================
