------------------------------- MODULE MCParts -------------------------------
(***************************************************************************)
(* Instances for TLC of the parts that are calls on top of Hash (HMAC,     *)
(* HKDF, TOTP, HashDRBG with its addTo(), HMACDRBG) or beside the drivers  *)
(* (entropy_random_range(), base32, bit fields, the key registers, the     *)
(* data cache).  What a part calls is in its own module as what it         *)
(* promises, so that the parts do not share state: a behaviour is one of a *)
(* single part, picked at first, and each part has all of its own.         *)
(***************************************************************************)
EXTENDS Hmac, Hkdf, Totp, HashDrbg, AddTo, HmacDrbg,
        RandomRange, Base32, Registers, SnvsKeys, DataCache

VARIABLE part

-----------------------------------------------------------------------------
(* Times and digests. *)

\* -1 is before the epoch.
AllTimes == -1 .. 3

\* The digests differ in the bytes at both offsets, and in the offset, their last byte;
\* the short ones are less than what is read.
AllTags == {<<x, 4 - x, z>> : x \in {1, 3}, z \in 2 .. 3} \cup {<<z>> : z \in 2 .. 3}

-----------------------------------------------------------------------------
(* Texts and byte strings. *)

\* A group of values that are all 0, but for c at i, and pads outside of p.
Group(p, i, c) ==
  [j \in 1 .. 8 |-> IF j \notin p THEN Pad ELSE IF j = i THEN c ELSE {}]

\* One bit, all bits, or no value at all.
Chars == {{k} : k \in 0 .. 4} \cup {0 .. 4, Other}

\* Any number of values before the pads, and every set of places for pads.
LastGroups == {Group(1 .. n, i, c) : n \in 0 .. 8, i \in 1 .. 8, c \in Chars}
                \cup {Group(p, 1, {0}) : p \in SUBSET (1 .. 8)}

FirstGroup == <<{0}, {4}, 0 .. 4, {}, {2, 3}, {1}, {0, 4}, {3}>>

\* Lengths that are no multiple of 8, and no text at all; the last group alone, after
\* another, and before another.
AllTexts ==
  {[i \in 1 .. n |-> {2}] : n \in {0, 2, 7, 9}} \cup LastGroups
    \cup {FirstGroup \o g : g \in LastGroups}
    \cup {g \o FirstGroup : g \in {h \in LastGroups : h[2] = Pad}}

\* One bit at a time, or all but one byte's, up to two groups and a byte.
AllByteSeqs ==
  {[i \in 1 .. n |-> IF i = j THEN {k} ELSE r] :
     n \in 0 .. 11, j \in 1 .. 11, k \in 0 .. 7, r \in {{}, 0 .. 7}}

-----------------------------------------------------------------------------
(* Jobs. *)

Buffer(first, n) == [from |-> first, size |-> n]

\* A destination of whole lines; one in the middle of two lines and beside the source,
\* as the running hash has in its context; one of a part of a line and no source; and
\* jobs in place, of whole lines and of parts.
AllJobs == {[src |-> Buffer(0, 1), dst |-> Buffer(2, 2)],
            [src |-> Buffer(0, 1), dst |-> Buffer(1, 2)],
            [src |-> Buffer(0, 0), dst |-> Buffer(1, 1)],
            [src |-> Buffer(0, 4), dst |-> Buffer(0, 4)],
            [src |-> Buffer(1, 2), dst |-> Buffer(1, 2)]}

-----------------------------------------------------------------------------
Parts == {"hmac", "hkdf", "totp", "hash drbg", "addTo", "hmac drbg",
          "range", "base32", "registers", "keys", "cache"}

\* The parts that have not been picked stay at one initial state.
PartsInit ==
  /\ part \in Parts
  /\ part # "totp" =>
       /\ outputSize = 3 /\ tagOf = [t \in Steps |-> <<1, 3, 2>>]
       /\ temp_ = [o \in Tokens |-> [i \in 1 .. TempSize |-> 0]]
  /\ part # "range" => out = 0
  /\ part # "registers" => reg = "MCTL" /\ val = {}
  /\ part # "cache" => job = CHOOSE j \in Jobs : TRUE
  /\ HmacInit /\ HkdfInit /\ TotpInit /\ HashDrbgInit /\ AddInit /\ HmacDrbgInit
  /\ RangeInit /\ Base32Init /\ RegisterInit /\ SnvsInit /\ CacheInit

macSideVars == <<hmacVars, hkdfVars, totpVars, hashDrbgVars, addVars, drbgVars>>

platformVars == <<rangeVars, base32Vars, registerVars, snvsVars, cacheVars>>

PartsNext ==
  \/ /\ part = "hmac" /\ HmacNext
     /\ UNCHANGED <<part, platformVars, hkdfVars, totpVars, hashDrbgVars, addVars, drbgVars>>
  \/ /\ part = "hkdf" /\ HkdfNext
     /\ UNCHANGED <<part, platformVars, hmacVars, totpVars, hashDrbgVars, addVars, drbgVars>>
  \/ /\ part = "totp" /\ TotpNext
     /\ UNCHANGED <<part, platformVars, hmacVars, hkdfVars, hashDrbgVars, addVars, drbgVars>>
  \/ /\ part = "hash drbg" /\ HashDrbgNext
     /\ UNCHANGED <<part, platformVars, hmacVars, hkdfVars, totpVars, addVars, drbgVars>>
  \/ /\ part = "addTo" /\ AddNext
     /\ UNCHANGED <<part, platformVars, hmacVars, hkdfVars, totpVars, hashDrbgVars, drbgVars>>
  \/ /\ part = "hmac drbg" /\ HmacDrbgNext
     /\ UNCHANGED <<part, platformVars, hmacVars, hkdfVars, totpVars, hashDrbgVars, addVars>>
  \/ /\ part = "range" /\ RangeNext
     /\ UNCHANGED <<part, macSideVars, base32Vars, registerVars, snvsVars, cacheVars>>
  \/ /\ part = "base32" /\ Base32Next
     /\ UNCHANGED <<part, macSideVars, rangeVars, registerVars, snvsVars, cacheVars>>
  \/ /\ part = "registers" /\ RegisterNext
     /\ UNCHANGED <<part, macSideVars, rangeVars, base32Vars, snvsVars, cacheVars>>
  \/ /\ part = "keys" /\ SnvsNext
     /\ UNCHANGED <<part, macSideVars, rangeVars, base32Vars, registerVars, cacheVars>>
  \/ /\ part = "cache" /\ CacheNext
     /\ UNCHANGED <<part, macSideVars, rangeVars, base32Vars, registerVars, snvsVars>>

PartsSpec == PartsInit /\ [][PartsNext]_<<part, macSideVars, platformVars>>
=============================================================================
