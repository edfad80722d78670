------------------------------ MODULE MCCipher ------------------------------
(* Instances of Cipher for TLC. *)
EXTENDS Cipher, TLC

CONSTANTS main, isr, ch0, ch1, aes, aes2, slot0, slot1

\* The main loop and an interrupt handler; only the main loop writes keys to
\* the key RAM, the handler's keys come with the payload or from the fuses.
SharedChannelsOf == main :> {ch0} @@ isr :> {ch0}
TwoOwner         == aes :> main @@ aes2 :> isr
TwoSlotsOf       == aes :> {slot0} @@ aes2 :> {}

\* One object of the main loop, with every kind of key.
SoleChannelsOf == main :> {ch0, ch1}
SoleOwner      == aes :> main
SoleSlotsOf    == aes :> {slot0}
=============================================================================
