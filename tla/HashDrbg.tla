------------------------------ MODULE HashDrbg ------------------------------
(***************************************************************************)
(* The HashDRBG class (src/decept/drbg/HashDRBG.cpp).                      *)
(*                                                                         *)
(* V is a seed, derived by hash_df(), to which digests, C and counters are *)
(* added: it is kept as these terms, "n" being the sum of the counters.    *)
(* Two values of V are the same number only if all their terms are.  Any   *)
(* hash may fail, and "f" is how many of a call's blocks succeed before    *)
(* that.                                                                   *)
(***************************************************************************)
EXTENDS Naturals, Sequences, FiniteSets

CONSTANTS DrbgInputs, NoDrbgInput,
          DfBlocks,       \* how many blocks hash_df() hashes for a seed
          MaxBlocks,      \* bound: the blocks asked of one generate()
          MaxCounter,     \* isReseedRequired(): 2^48
          MaxSeeds,       \* bound: the calls of init() and reseed()
          MaxDraws        \* bound: the calls of generate()

ASSUME HashDrbgAssumption == DfBlocks \in Nat \ {0} /\ NoDrbgInput \notin DrbgInputs

VARIABLES v_, c_, reseedCounter_, initialized_,
          whole,   \* history: no init() or reseed() has failed after it wrote,
                   \* since the last that returned true
          given,   \* history: the blocks that successful calls gave out,
          drawn,   \* and how many of them there should be
          calls    \* bound: how many seedings and draws there were

hashDrbgVars == <<v_, c_, reseedCounter_, initialized_, whole, given, drawn, calls>>

Df(inputs) == [seed |-> <<"df", inputs>>, digests |-> <<>>, cs |-> 0, n |-> 0]

\* A value that hash_df() was writing when a hash failed.
Torn(old, new) == [seed |-> <<"torn", old, new>>, digests |-> <<>>, cs |-> 0, n |-> 0]

Nil == [seed |-> <<"nil">>, digests |-> <<>>, cs |-> 0, n |-> 0]

\* The entropy and nonce of a seeding are never those of another.
Entropy == <<"entropy", calls.seeds + 1>>

-----------------------------------------------------------------------------
HashDrbgInit ==
  /\ v_ = Nil /\ c_ = Nil /\ reseedCounter_ = 0 /\ initialized_ = FALSE
  /\ whole = FALSE /\ given = {} /\ drawn = 0
  /\ calls = [seeds |-> 0, draws |-> 0]

\* What hash_df() leaves in its output when f of its blocks succeed.
Derived(old, new, f) ==
  IF f >= DfBlocks THEN new ELSE IF f = 0 THEN old ELSE Torn(old, new)

\* init() and reseed(): V from the inputs, then C from the new V. A failure
\* leaves what was written.
Seed(inputs, f) ==
  LET newV == Df(inputs)
      newC == Df(<<"0", newV>>)
      done == f = 2 * DfBlocks
  IN /\ v_' = Derived(v_, newV, f)
     /\ c_' = IF f <= DfBlocks THEN c_ ELSE Derived(c_, newC, f - DfBlocks)
     /\ reseedCounter_' = IF done THEN 1 ELSE reseedCounter_
     /\ whole' = (done \/ (f = 0 /\ whole))
     /\ calls.seeds < MaxSeeds
     /\ calls' = [calls EXCEPT !.seeds = @ + 1]
     /\ UNCHANGED <<given, drawn>>

HdInit(in, f) ==
  /\ Seed(<<Entropy, in>>, f)
  /\ initialized_' = (initialized_ \/ f = 2 * DfBlocks)

\* Mutant: C is derived from the inputs of the old V, as inputs[1] still is.
HdReseedOldV(in, f) ==
  LET newV == Df(<<"1", v_, Entropy, in>>)
  IN /\ initialized_ /\ f = 2 * DfBlocks
     /\ v_' = newV /\ c_' = Df(<<"0", v_>>)
     /\ reseedCounter_' = 1 /\ whole' = TRUE
     /\ calls.seeds < MaxSeeds
     /\ calls' = [calls EXCEPT !.seeds = @ + 1]
     /\ UNCHANGED <<initialized_, given, drawn>>

\* The old V is copied first, since V is written while it is read.
HdReseed(in, f) ==
  /\ initialized_
  /\ Seed(<<"1", v_, Entropy, in>>, f)
  /\ UNCHANGED initialized_

-----------------------------------------------------------------------------
AddDigest(v, kind, in) == [v EXCEPT !.digests = Append(@, <<kind, in, v.n, v.cs>>)]
AddNumber(v, k)        == [v EXCEPT !.n = @ + k]
AddC(v)                == [v EXCEPT !.cs = @ + 1]

\* Mutant: nothing but the counter is added after a draw.
AdvancedByCounter(v, counter) == AddNumber(v, counter)

\* V after a draw: V + H(3 || V) + C + the counter.
Advanced(v, counter) == AddNumber(AddC(AddDigest(v, "3", NoDrbgInput)), counter)

\* hashgen(): block j is the hash of V + j. One is added only before another
\* block, and V itself is not changed.
Hashgen(v, blocks) == {AddNumber(v, j) : j \in 0 .. blocks - 1}

\* generate(): the input goes into V, the blocks out of it, and V advances. The
\* last block may be partial; no block at all may be asked for.
HdGenerate(in, blocks, f) ==
  LET withIn == IF in = NoDrbgInput THEN v_ ELSE AddDigest(v_, "2", in)
      first  == IF in = NoDrbgInput THEN 0 ELSE 1   \* the hash of the input
      done   == f = first + blocks + 1
  IN /\ initialized_ /\ reseedCounter_ <= MaxCounter
     /\ f <= first + blocks + 1
     /\ calls.draws < MaxDraws
     /\ calls' = [calls EXCEPT !.draws = @ + 1]
     /\ v_' = IF done THEN Advanced(withIn, reseedCounter_)
              ELSE IF f < first THEN v_ ELSE withIn
     /\ IF done
        THEN /\ reseedCounter_' = reseedCounter_ + 1
             /\ given' = given \cup Hashgen(withIn, blocks)
             /\ drawn' = drawn + blocks
        ELSE UNCHANGED <<reseedCounter_, given, drawn>>
     /\ UNCHANGED <<c_, initialized_, whole>>

\* A call that is refused: not initialized, a size too large, or a reseed is due.
HdRefuse == UNCHANGED hashDrbgVars

HashDrbgNext ==
  \/ \E in \in DrbgInputs \cup {NoDrbgInput}, f \in 0 .. 2 * DfBlocks :
       HdInit(in, f) \/ HdReseed(in, f)
  \/ \E in \in DrbgInputs \cup {NoDrbgInput}, blocks \in 0 .. MaxBlocks, f \in 0 .. MaxBlocks + 2 :
       HdGenerate(in, blocks, f)
  \/ HdRefuse

HashDrbgSpec == HashDrbgInit /\ [][HashDrbgNext]_hashDrbgVars

-----------------------------------------------------------------------------
(* Properties. *)

\* The places of the digests of draws, H(3 || V), among those that were added.
Draws(digests) == {i \in DOMAIN digests : digests[i][1] = "3"}

\* The state of SP 800-90A, Hash_DRBG: C was derived from the seed that V started
\* from, and V has advanced once for each draw since, by a counter of its own, also
\* when draws or seedings failed in between, and after a reseed that repairs them.
HashDrbgState ==
  whole =>
    /\ initialized_
    /\ c_ = Df(<<"0", [seed |-> v_.seed, digests |-> <<>>, cs |-> 0, n |-> 0]>>)
    /\ v_.cs = reseedCounter_ - 1
    /\ 2 * v_.n = reseedCounter_ * (reseedCounter_ - 1)
    /\ Cardinality(Draws(v_.digests)) = reseedCounter_ - 1

\* No block is given out twice by calls that returned true, whatever fails between
\* them: not within a draw, not in the next draw, and not after a reseed or an
\* init() that failed half way (HashDRBG.cpp, hashgen() and generate()).
HashDrbgBlocksFresh == Cardinality(given) = drawn
=============================================================================
