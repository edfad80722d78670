------------------------------ MODULE SnvsKeys ------------------------------
(***************************************************************************)
(* The zeroizable master key (src/decept/keys/keys.cpp): setting it and    *)
(* selecting it for the coprocessor takes several register writes, and the *)
(* system may be reset between any two. The key, its flags and its         *)
(* selection are kept in the low-power domain, which a reset leaves alone. *)
(***************************************************************************)
EXTENDS Naturals, Sequences, FiniteSets

CONSTANTS Keys,       \* the keys a program sets
          InitialKey, \* what the registers hold at first
          WordCount,  \* kSNVS_LPZMKR_count; each half is a key of the coprocessor
          OtpKey      \* the master key that is burnt in

\* There is a word in each half.
ASSUME SnvsAssumption == WordCount \in Nat \ {0, 1} /\ InitialKey \notin Keys

VARIABLES lpzmkr,   \* the words: which key each is of
          lpmkcr,   \* ZMK_VAL, ZMK_ECC_EN, the key the ECC value was computed of,
                    \* and MASTER_KEY_SEL
          hp,       \* HPCOMR's MKS_EN, GPR3's DCP_KEY_SEL and GPR10's key mux, and
                    \* the flag ZMK_ECC_FAIL of HPSVSR
          keyCall   \* the function that runs: its key and what it has done

snvsVars == <<lpzmkr, lpmkcr, hp, keyCall>>

Idle == [fn |-> "none", key |-> InitialKey, at |-> 0]

\* The power-on values of the high-power domain.
HpReset == [mksEn |-> FALSE, half |-> "low", fromOtp |-> FALSE, eccFail |-> FALSE]

-----------------------------------------------------------------------------
SnvsInit ==
  /\ lpzmkr = [i \in 1 .. WordCount |-> InitialKey]
  /\ lpmkcr = [val |-> FALSE, ecc |-> FALSE, eccOf |-> lpzmkr, sel |-> OtpKey]
  /\ hp = HpReset
  /\ keyCall = Idle

CallFn(fn, k) ==
  /\ keyCall = Idle
  /\ keyCall' = [fn |-> fn, key |-> k, at |-> 0]
  /\ UNCHANGED <<lpzmkr, lpmkcr, hp>>

\* The next write of the function, n of N.
At(fn, n) == keyCall.fn = fn /\ keyCall.at = n
Advance   == keyCall' = [keyCall EXCEPT !.at = @ + 1]
ReturnFn  == keyCall' = Idle

\* While the ECC is on, words that do not match its value are a violation, which the
\* hardware answers by clearing the key.
EccViolation(words) == lpmkcr.ecc /\ words # lpmkcr.eccOf

-----------------------------------------------------------------------------
(* setSNVSZeroizableMasterKey() *)

EccOff ==
  /\ At("set", 0) /\ Advance
  /\ lpmkcr' = [lpmkcr EXCEPT !.ecc = FALSE]
  /\ UNCHANGED <<lpzmkr, hp>>

\* Mutant: the key stays valid while it is replaced.
ValidStays ==
  /\ At("set", 1) /\ Advance
  /\ UNCHANGED <<lpzmkr, lpmkcr, hp>>

ValidOff ==
  /\ At("set", 1) /\ Advance
  /\ lpmkcr' = [lpmkcr EXCEPT !.val = FALSE]
  /\ UNCHANGED <<lpzmkr, hp>>

ClearEccFail ==
  /\ At("set", 2) /\ Advance
  /\ hp' = [hp EXCEPT !.eccFail = FALSE]
  /\ UNCHANGED <<lpzmkr, lpmkcr>>

\* ZMK_HWP is left at 0, software programming, before the first word.
WriteWord(i) ==
  /\ At("set", 2 + i) /\ Advance
  /\ lpzmkr' = IF EccViolation([lpzmkr EXCEPT ![i] = keyCall.key])
               THEN [j \in 1 .. WordCount |-> InitialKey]
               ELSE [lpzmkr EXCEPT ![i] = keyCall.key]
  /\ hp' = [hp EXCEPT !.eccFail = @ \/ EccViolation([lpzmkr EXCEPT ![i] = keyCall.key])]
  /\ UNCHANGED lpmkcr

ValidOn ==
  /\ At("set", 3 + WordCount) /\ Advance
  /\ lpmkcr' = [lpmkcr EXCEPT !.val = TRUE]
  /\ UNCHANGED <<lpzmkr, hp>>

\* Writing 1 computes the ECC value of the words.
EccOn ==
  /\ At("set", 4 + WordCount) /\ ReturnFn
  /\ lpmkcr' = [lpmkcr EXCEPT !.ecc = TRUE, !.eccOf = lpzmkr]
  /\ UNCHANGED <<lpzmkr, hp>>

-----------------------------------------------------------------------------
(* selectSNVSZeroizableMasterKey(), selectSNVSKeyLow() and selectSNVSKeyHigh() *)

EnableSelection ==
  /\ At("select", 0) /\ Advance
  /\ hp' = [hp EXCEPT !.mksEn = TRUE]
  /\ UNCHANGED <<lpzmkr, lpmkcr>>

SelectZmk ==
  /\ At("select", 1) /\ ReturnFn
  /\ lpmkcr' = [lpmkcr EXCEPT !.sel = "zmk"]
  /\ UNCHANGED <<lpzmkr, hp>>

SelectHalf(half) ==
  /\ At(half, 0) /\ Advance
  /\ hp' = [hp EXCEPT !.half = half]
  /\ UNCHANGED <<lpzmkr, lpmkcr>>

FromKeyMux(half) ==
  /\ At(half, 1) /\ ReturnFn
  /\ hp' = [hp EXCEPT !.fromOtp = FALSE]
  /\ UNCHANGED <<lpzmkr, lpmkcr>>

\* The system is reset: the program, and what is not in the low-power domain.
Reset ==
  /\ keyCall' = Idle
  /\ hp' = HpReset
  /\ UNCHANGED <<lpzmkr, lpmkcr>>

SnvsNext ==
  \/ \E k \in Keys : CallFn("set", k)
  \/ \E fn \in {"select", "low", "high"} : CallFn(fn, InitialKey)
  \/ EccOff \/ ValidOff \/ ClearEccFail \/ ValidOn \/ EccOn
  \/ \E i \in 1 .. WordCount : WriteWord(i)
  \/ EnableSelection \/ SelectZmk
  \/ \E half \in {"low", "high"} : SelectHalf(half) \/ FromKeyMux(half)
  \/ Reset

SnvsSpec == SnvsInit /\ [][SnvsNext]_snvsVars

-----------------------------------------------------------------------------
(* Properties. *)

Half(half) == IF half = "low" THEN 1 .. WordCount \div 2 ELSE WordCount \div 2 + 1 .. WordCount

\* The words of the key that the coprocessor is given.
DcpKeyWords ==
  IF hp.fromOtp \/ ~hp.mksEn \/ lpmkcr.sel # "zmk" \/ ~lpmkcr.val THEN {OtpKey}
  ELSE {lpzmkr[i] : i \in Half(hp.half)}

\* The coprocessor is never given a mixture of two keys, or part of a key beside
\* another, while a key is replaced, and whatever write a reset cuts it off after:
\* a valid key is whole, and its ECC, when it is on, is that of its words (keys.cpp).
ZmkWhole ==
  /\ Cardinality(DcpKeyWords) = 1
  /\ lpmkcr.val => \A i, j \in 1 .. WordCount : lpzmkr[i] = lpzmkr[j]
  /\ lpmkcr.ecc => lpmkcr.eccOf = lpzmkr
  /\ ~hp.eccFail
=============================================================================
