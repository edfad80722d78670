------------------------------ MODULE HmacDrbg ------------------------------
(***************************************************************************)
(* The HMACDRBG class (src/decept/drbg/HMACDRBG.cpp) on an HMAC object, of *)
(* which it relies on MacSpec.                                             *)
(*                                                                         *)
(* An authenticator is the number under which "macs" lists its key and its *)
(* message: two are the same only if both are.  A call makes several HMAC  *)
(* calls, and any of them may fail: "left" is how many succeed before.     *)
(***************************************************************************)
EXTENDS Naturals, Sequences, SequencesExt

CONSTANTS Extras, NoExtra,  \* personalization strings and additional inputs
          ZeroBytes, OneBytes,      \* the bytes key_ and v_ start with
          Byte0, Byte1,     \* the bytes of the two rounds
          BrokenKey,        \* what a failed initKey() leaves in the HMAC
          RestartAfterFailure,  \* the program calls init() again after a failure
          MaxReseedCounter, \* isReseedRequired(): 2^48
          MaxOutBlocks,     \* bound: the blocks asked of one generate()
          MaxCalls          \* bound: the calls of the program

ASSUME HmacDrbgAssumption == NoExtra \notin Extras /\ RestartAfterFailure \in BOOLEAN

VARIABLES drbg,      \* the members; key is what hmac_ holds
          macs,      \* the authenticators that were computed
          output,    \* the blocks of the last generate() that returned true
          standard,  \* history: Key and V of SP 800-90A, and what it has given out
          intact,    \* history: init() has returned true, and no call failed since
          count      \* bound

drbgVars == <<drbg, macs, output, standard, intact, count>>

MdEntropy == <<"entropy", count>>

\* The number of an authenticator, 0 for one that is not in the list.
NumberOf(terms, term) ==
  LET places == {i \in 1 .. Len(terms) : terms[i] = term}
  IN IF places = {} THEN 0 ELSE CHOOSE i \in places : TRUE

MacAt(terms, key, pieces) == <<"mac", NumberOf(terms, <<key, pieces>>)>>

-----------------------------------------------------------------------------
(* HMAC calls on a record d: the members, macs, the blocks written, the calls  *)
(* left, and whether all have succeeded. Nothing is done once one has failed. *)

Same(d) == [members |-> d, macs |-> macs, out |-> <<>>, left |-> 0, ok |-> TRUE]

Fail(d) == [d EXCEPT !.ok = FALSE]

\* The authenticator of the pieces under the key that hmac_ holds, into a member.
MacInto(d, member, pieces) ==
  LET term  == <<d.members.key, pieces>>
      terms == IF NumberOf(d.macs, term) = 0 THEN Append(d.macs, term) ELSE d.macs
      mac   == MacAt(terms, d.members.key, pieces)
  IN IF ~d.ok THEN d
     ELSE IF d.left = 0 THEN Fail(d)
     ELSE [d EXCEPT !.members[member] = mac, !.macs = terms, !.left = @ - 1]

\* initKey(key_). Where it fails decides what hmac_ is left with: a context that has
\* taken no key, or the new inner and the old outer one. BrokenKey stands for all of
\* them, as a key of its own: no authenticator of a standard is under it.
Rekey(d) ==
  IF ~d.ok THEN d
  ELSE IF d.left = 0 THEN Fail([d EXCEPT !.members.key = BrokenKey])
  ELSE [d EXCEPT !.members.key = d.members.key_, !.left = @ - 1]

NextV(d) == MacInto(d, "v_", <<d.members.v_>>)

\* One round of update().
Round(d, byte, data) ==
  NextV(Rekey(MacInto(d, "key_", <<d.members.v_, byte>> \o data)))

\* Mutant: the second round is run for empty input as well.
MdUpdateTwice(d, data) == Round(Round(d, Byte0, data), Byte1, data)

\* update(): the second round is only for an input that is not empty.
MdUpdate(d, data) ==
  LET once == Round(d, Byte0, data)
  IN IF data = <<>> THEN once ELSE Round(once, Byte1, data)

\* generate()'s loop: v_ is hashed into itself, and copied out.
Blocks(d, n) ==
  LET done[i \in 0 .. n] ==
        IF i = 0 THEN d
        ELSE LET next == NextV(done[i - 1])
             IN IF next.ok THEN [next EXCEPT !.out = Append(@, next.members.v_)] ELSE next
  IN done[n]

\* The pieces of an input that are not empty.
Data(pieces) == SelectSeq(pieces, LAMBDA x : x # NoExtra)

-----------------------------------------------------------------------------
(* HMAC_DRBG of SP 800-90A, 10.1.2, over the authenticators that are listed. *)

UpdateOf(terms, s, data) ==
  LET key1 == MacAt(terms, s.key, <<s.v, Byte0>> \o data)
      v1   == MacAt(terms, key1, <<s.v>>)
      key2 == MacAt(terms, key1, <<v1, Byte1>> \o data)
  IN IF data = <<>> THEN [key |-> key1, v |-> v1, out |-> <<>>]
     ELSE [key |-> key2, v |-> MacAt(terms, key2, <<v1>>), out |-> <<>>]

\* V after each block.
Stream(terms, s, n) ==
  LET vs[i \in 0 .. n] == IF i = 0 THEN s.v ELSE MacAt(terms, s.key, <<vs[i - 1]>>)
  IN vs

GenerateOf(terms, s, data, n) ==
  LET mixed == IF data = <<>> THEN s ELSE UpdateOf(terms, s, data)
      vs    == Stream(terms, mixed, n)
  IN [UpdateOf(terms, [mixed EXCEPT !.v = vs[n]], data) EXCEPT !.out = [i \in 1 .. n |-> vs[i]]]

-----------------------------------------------------------------------------
HmacDrbgInit ==
  /\ drbg = [key |-> BrokenKey, key_ |-> ZeroBytes, v_ |-> ZeroBytes,
             reseedCounter_ |-> 0, initialized_ |-> FALSE]
  /\ macs = <<>> /\ output = <<>>
  /\ standard = [key |-> ZeroBytes, v |-> ZeroBytes, out |-> <<>>]
  /\ intact = FALSE /\ count = 0

\* The call returns what the members' record d became.
Return(d, members, std) ==
  /\ count < MaxCalls /\ count' = count + 1
  /\ drbg' = IF d.ok THEN members ELSE d.members
  /\ macs' = d.macs
  /\ output' = IF d.ok THEN d.out ELSE <<>>
  /\ standard' = IF d.ok THEN std ELSE [standard EXCEPT !.out = <<>>]

\* A program that starts over: only init() follows a failure.
MayCall == drbg.initialized_ /\ (RestartAfterFailure => intact)

\* init(): initialized_ stays true when a later init() fails.
MdInit(extra, n) ==
  LET start == [Same([drbg EXCEPT !.key_ = ZeroBytes, !.v_ = OneBytes]) EXCEPT !.left = n]
      data  == Data(<<MdEntropy, extra>>)
      d     == MdUpdate(Rekey(start), data)
  IN /\ Return(d, [d.members EXCEPT !.reseedCounter_ = 1, !.initialized_ = TRUE],
               UpdateOf(d.macs, [key |-> ZeroBytes, v |-> OneBytes, out |-> <<>>], data))
     /\ intact' = d.ok

MdReseed(extra, n) ==
  LET data == Data(<<MdEntropy, extra>>)
      d    == MdUpdate([Same(drbg) EXCEPT !.left = n], data)
  IN /\ MayCall
     /\ Return(d, [d.members EXCEPT !.reseedCounter_ = 1], UpdateOf(d.macs, standard, data))
     /\ intact' = (intact /\ d.ok)

MdGenerate(extra, blocks, n) ==
  LET start == [Same(drbg) EXCEPT !.left = n]
      data  == Data(<<extra>>)
      mixed == IF data = <<>> THEN start ELSE MdUpdate(start, data)
      d     == MdUpdate(Blocks(mixed, blocks), data)
  IN /\ MayCall /\ drbg.reseedCounter_ <= MaxReseedCounter
     /\ Return(d, [d.members EXCEPT !.reseedCounter_ = @ + 1],
               GenerateOf(d.macs, standard, data, blocks))
     /\ intact' = (intact /\ d.ok)

\* Not initialized, a reseed is due, or a size is too large.
MdRefuse == UNCHANGED drbgVars

HmacCalls == 13 + MaxOutBlocks   \* more than any call makes

HmacDrbgNext ==
  \/ \E extra \in Extras \cup {NoExtra}, n \in 0 .. HmacCalls :
       \/ MdInit(extra, n)
       \/ MdReseed(extra, n)
       \/ \E blocks \in 0 .. MaxOutBlocks : MdGenerate(extra, blocks, n)
  \/ MdRefuse

HmacDrbgSpec == HmacDrbgInit /\ [][HmacDrbgNext]_drbgVars

-----------------------------------------------------------------------------
(* Properties. *)

\* A DRBG that was initialized, and of which no call has failed, is the HMAC_DRBG of
\* SP 800-90A: key_ and v_ are its Key and V, hmac_ holds key_, and the blocks of a
\* draw are its blocks, over any sequence of seedings and draws with and without input
\* (HMACDRBG.cpp).
HmacDrbgAsStandard ==
  intact =>
    /\ drbg.key = drbg.key_
    /\ standard = [key |-> drbg.key_, v |-> drbg.v_, out |-> output]
    /\ drbg.initialized_

\* An authenticator into which some entropy went, through its key or its message.
Seeded[i \in 0 .. Len(macs)] ==
  i > 0 /\ \E x \in {macs[i][1]} \cup ToSet(macs[i][2]) :
             \/ \E e \in 0 .. MaxCalls : x = <<"entropy", e>>
             \/ \E j \in 1 .. i - 1 : x = <<"mac", j>> /\ Seeded[j]

\* "Generates random data. This will return false if: ... 4. The DRBG was not
\* initialized." (HMACDRBG.h:52-56): every block that is given out depends on
\* entropy.
SeededOutput == \A i \in 1 .. Len(output) : Seeded[output[i][2]]
=============================================================================
