----------------------------- MODULE DrbgProofs -----------------------------
(***************************************************************************)
(* What HashDrbg promises, for any inputs and any number of seedings and   *)
(* draws: its state is the standard's, and no block is given out twice.    *)
(***************************************************************************)
EXTENDS HashDrbg, FunctionTheorems, FiniteSetTheorems, TLAPS

Inputs  == DrbgInputs \cup {NoDrbgInput}
Digests == {"2", "3"} \X Inputs \X Nat \X Nat

\* V of any seed.
VType(v) == v \in [seed : {v.seed}, digests : Seq(Digests), cs : Nat, n : Nat]

HdTypeOK ==
  /\ VType(v_)
  /\ reseedCounter_ \in Nat /\ initialized_ \in BOOLEAN /\ whole \in BOOLEAN
  /\ drawn \in Nat /\ calls \in [seeds : Nat, draws : Nat]

-----------------------------------------------------------------------------
(* V. *)

LEMMA DfType ==
  ASSUME NEW inputs
  PROVE  /\ VType(Df(inputs)) /\ Df(inputs).seed = <<"df", inputs>>
         /\ Df(inputs).digests = <<>> /\ Df(inputs).cs = 0 /\ Df(inputs).n = 0
BY DEF VType, Df

LEMMA TornType ==
  ASSUME NEW old, NEW new
  PROVE  VType(Torn(old, new)) /\ Torn(old, new).seed = <<"torn", old, new>>
BY DEF VType, Torn

LEMMA AddDigestIs ==
  ASSUME NEW v, VType(v), NEW kind \in {"2", "3"}, NEW in \in Inputs
  PROVE  LET d == AddDigest(v, kind, in)
         IN /\ VType(d) /\ d.seed = v.seed /\ d.cs = v.cs /\ d.n = v.n
            /\ d.digests = Append(v.digests, <<kind, in, v.n, v.cs>>)
            /\ <<kind, in, v.n, v.cs>> \in Digests
<1> DEFINE e == <<kind, in, v.n, v.cs>>
<1>1. e \in Digests
  BY DEF VType, Digests
<1>2. Append(v.digests, e) \in Seq(Digests)
  BY <1>1 DEF VType
<1> HIDE DEF e
<1>3. AddDigest(v, kind, in) = [v EXCEPT !.digests = Append(v.digests, e)]
  BY DEF AddDigest, e
<1> QED
  BY <1>1, <1>2, <1>3 DEF VType, e

LEMMA AddNumberIs ==
  ASSUME NEW v, VType(v), NEW k \in Nat
  PROVE  LET d == AddNumber(v, k)
         IN VType(d) /\ d.seed = v.seed /\ d.cs = v.cs /\ d.n = v.n + k /\ d.digests = v.digests
BY DEF VType, AddNumber

LEMMA AddCIs ==
  ASSUME NEW v, VType(v)
  PROVE  LET d == AddC(v)
         IN VType(d) /\ d.seed = v.seed /\ d.cs = v.cs + 1 /\ d.n = v.n /\ d.digests = v.digests
BY DEF VType, AddC

LEMMA AdvancedIs ==
  ASSUME NEW v, VType(v), NEW counter \in Nat
  PROVE  LET d == Advanced(v, counter)
         IN /\ VType(d) /\ d.seed = v.seed /\ d.cs = v.cs + 1 /\ d.n = v.n + counter
            /\ \E in \in Inputs :
                 /\ <<"3", in, v.n, v.cs>> \in Digests
                 /\ d.digests = Append(v.digests, <<"3", in, v.n, v.cs>>)
<1>1. PICK d1 : d1 = AddDigest(v, "3", NoDrbgInput)
  OBVIOUS
<1>2. PICK d2 : d2 = AddC(d1)
  OBVIOUS
<1>3. /\ VType(d1) /\ d1.seed = v.seed /\ d1.cs = v.cs /\ d1.n = v.n
      /\ d1.digests = Append(v.digests, <<"3", NoDrbgInput, v.n, v.cs>>)
      /\ <<"3", NoDrbgInput, v.n, v.cs>> \in Digests
  BY <1>1, AddDigestIs DEF Inputs
<1>4. VType(d2) /\ d2.seed = d1.seed /\ d2.cs = d1.cs + 1 /\ d2.n = d1.n /\ d2.digests = d1.digests
  <2>1. VType(d1)
    BY <1>3
  <2> QED
    BY <1>2, <2>1, AddCIs
<1>5. Advanced(v, counter) = AddNumber(d2, counter)
  BY <1>1, <1>2 DEF Advanced
<1>6. LET d == AddNumber(d2, counter)
      IN VType(d) /\ d.seed = d2.seed /\ d.cs = d2.cs /\ d.n = d2.n + counter /\ d.digests = d2.digests
  <2>1. VType(d2)
    BY <1>4
  <2> QED
    BY <2>1, AddNumberIs
<1> QED
  BY <1>3, <1>4, <1>5, <1>6 DEF Inputs

\* The digests of draws are counted one by one.
LEMMA CountedDraws ==
  ASSUME NEW digests \in Seq(Digests)
  PROVE  /\ IsFiniteSet(Draws(digests)) /\ Cardinality(Draws(digests)) \in Nat
         /\ \A e \in Digests : Cardinality(Draws(Append(digests, e)))
              = IF e[1] = "3" THEN Cardinality(Draws(digests)) + 1 ELSE Cardinality(Draws(digests))
<1> DEFINE n == Len(digests)
           D == Draws(digests)
<1>1. n \in Nat /\ DOMAIN digests = 1 .. n
  OBVIOUS
<1>2. D \in SUBSET (1 .. n) /\ n + 1 \notin D
  BY <1>1 DEF Draws
<1>3. IsFiniteSet(D) /\ Cardinality(D) \in Nat
  <2>1. IsFiniteSet(1 .. n)
    BY <1>1, FS_Interval
  <2> HIDE DEF D
  <2> QED
    BY <1>2, <2>1, FS_Subset, FS_CardinalityType
<1>4. ASSUME NEW e \in Digests
      PROVE  Draws(Append(digests, e)) = IF e[1] = "3" THEN D \cup {n + 1} ELSE D
  <2>1. PICK s : s = Append(digests, e)
    OBVIOUS
  <2>2. /\ DOMAIN s = 1 .. n + 1 /\ s[n + 1] = e
        /\ \A i \in 1 .. n : s[i] = digests[i]
    BY <2>1
  <2>3. \A i : i \in Draws(s) <=> i \in D \/ (i = n + 1 /\ e[1] = "3")
    <3>1. \A i : i \in 1 .. n + 1 <=> i \in 1 .. n \/ i = n + 1
      BY <1>1
    <3>2. ASSUME NEW i PROVE i \in Draws(s) <=> i \in D \/ (i = n + 1 /\ e[1] = "3")
      <4>1. CASE i \in 1 .. n
        BY <1>1, <2>2, <3>1, <4>1, n + 1 \notin 1 .. n DEF Draws
      <4>2. CASE i = n + 1
        BY <1>1, <1>2, <2>2, <3>1, <4>2 DEF Draws
      <4>3. CASE i \notin 1 .. n + 1
        BY <1>1, <2>2, <3>1, <4>3 DEF Draws
      <4> QED
        BY <3>1, <4>1, <4>2, <4>3
    <3> QED
      BY <3>2
  <2> HIDE DEF D
  <2> QED
    BY <2>1, <2>3
<1> HIDE DEF D
<1>5. Cardinality(D \cup {n + 1}) = Cardinality(D) + 1
  BY <1>2, <1>3, FS_AddElement
<1> QED
  BY <1>3, <1>4, <1>5 DEF D

-----------------------------------------------------------------------------
(* The state. *)

AsStandard ==
  /\ initialized_ /\ reseedCounter_ >= 1
  /\ c_ = Df(<<"0", [seed |-> v_.seed, digests |-> <<>>, cs |-> 0, n |-> 0]>>)
  /\ v_.cs = reseedCounter_ - 1
  /\ 2 * v_.n = reseedCounter_ * (reseedCounter_ - 1)
  /\ Cardinality(Draws(v_.digests)) = reseedCounter_ - 1

StateInv == HdTypeOK /\ (whole => AsStandard)

LEMMA NoDraws == Cardinality(Draws(<<>>)) = 0
<1>1. Draws(<<>>) = {}
  BY DEF Draws
<1> QED
  BY <1>1, FS_EmptySet

LEMMA HdInitState == HashDrbgInit => StateInv
<1> SUFFICES ASSUME HashDrbgInit PROVE StateInv
  OBVIOUS
<1>1. VType(v_)
  BY DEF HashDrbgInit, Nil, VType
<1> QED
  BY <1>1 DEF HashDrbgInit, StateInv, HdTypeOK

\* The seed of a seeding that wrote something: one that no other has.
NewSeed(v, inputs) == v.seed = <<"df", inputs>> \/ \E old : v.seed = <<"torn", old, Df(inputs)>>

LEMMA SeedState ==
  ASSUME StateInv, NEW inputs, NEW f \in 0 .. 2 * DfBlocks, Seed(inputs, f),
         initialized_' \in BOOLEAN,
         f = 2 * DfBlocks => initialized_', initialized_ => initialized_'
  PROVE  StateInv' /\ (v_' = v_ \/ NewSeed(v_', inputs))
<1>1. PICK newV : newV = Df(inputs)
  OBVIOUS
<1>2. /\ v_' = Derived(v_, newV, f)
      /\ c_' = IF f <= DfBlocks THEN c_ ELSE Derived(c_, Df(<<"0", newV>>), f - DfBlocks)
      /\ reseedCounter_' = IF f = 2 * DfBlocks THEN 1 ELSE reseedCounter_
      /\ whole' = (f = 2 * DfBlocks \/ (f = 0 /\ whole))
      /\ calls' = [calls EXCEPT !.seeds = @ + 1] /\ drawn' = drawn
  BY <1>1 DEF Seed
<1>3. DfBlocks \in Nat /\ DfBlocks >= 1
  BY HashDrbgAssumption
<1>4. v_' = v_ \/ v_' = newV \/ v_' = Torn(v_, newV)
  BY <1>2 DEF Derived
<1>5. VType(v_') /\ (v_' = v_ \/ NewSeed(v_', inputs))
  BY <1>1, <1>4, DfType, TornType DEF StateInv, HdTypeOK, NewSeed
<1>6. HdTypeOK'
  <2>1. v_' \in [seed : {v_'.seed}, digests : Seq(Digests), cs : Nat, n : Nat]
    BY <1>5 DEF VType
  <2>2. calls' \in [seeds : Nat, draws : Nat] /\ drawn' \in Nat
    BY <1>2 DEF StateInv, HdTypeOK
  <2>3. reseedCounter_' \in Nat /\ whole' \in BOOLEAN
    BY <1>2 DEF StateInv, HdTypeOK
  <2> QED
    BY <2>1, <2>2, <2>3 DEF HdTypeOK, VType
<1>7. ASSUME f = 2 * DfBlocks PROVE AsStandard'
  <2>1. v_' = newV /\ c_' = Df(<<"0", newV>>) /\ reseedCounter_' = 1 /\ initialized_'
    BY <1>2, <1>3, <1>7 DEF Derived
  <2>2. /\ newV.cs = 0 /\ newV.n = 0 /\ newV.digests = <<>>
        /\ newV = [seed |-> newV.seed, digests |-> <<>>, cs |-> 0, n |-> 0]
    BY <1>1 DEF Df
  <2> QED
    BY <2>1, <2>2, NoDraws DEF AsStandard
<1>8. ASSUME f = 0, whole PROVE AsStandard'
  <2>1. v_' = v_ /\ c_' = c_ /\ reseedCounter_' = reseedCounter_ /\ initialized_'
    BY <1>2, <1>3, <1>8 DEF Derived, StateInv, AsStandard
  <2> QED
    BY <1>8, <2>1 DEF StateInv, AsStandard
<1> QED
  BY <1>2, <1>5, <1>6, <1>7, <1>8 DEF StateInv

\* What V is with a draw's input in it.
LEMMA WithInput ==
  ASSUME HdTypeOK, NEW in \in Inputs, NEW w,
         w = IF in = NoDrbgInput THEN v_ ELSE AddDigest(v_, "2", in)
  PROVE  /\ VType(w) /\ w.seed = v_.seed /\ w.cs = v_.cs /\ w.n = v_.n
         /\ Cardinality(Draws(w.digests)) = Cardinality(Draws(v_.digests))
<1>1. VType(v_)
  BY DEF HdTypeOK
<1>2. CASE in = NoDrbgInput
  BY <1>1, <1>2
<1>3. CASE in # NoDrbgInput
  <2>1. PICK e \in Digests : e = <<"2", in, v_.n, v_.cs>> /\ w.digests = Append(v_.digests, e)
    BY <1>1, <1>3, AddDigestIs
  <2>2. VType(w) /\ w.seed = v_.seed /\ w.cs = v_.cs /\ w.n = v_.n
    BY <1>1, <1>3, AddDigestIs
  <2>3. e[1] # "3" /\ v_.digests \in Seq(Digests)
    BY <1>1, <2>1 DEF VType
  <2> QED
    BY <2>1, <2>2, <2>3, CountedDraws
<1> QED
  BY <1>2, <1>3

LEMMA GenerateState ==
  ASSUME StateInv, NEW in \in Inputs, NEW blocks \in Nat, NEW f \in Nat,
         HdGenerate(in, blocks, f)
  PROVE  /\ StateInv' /\ v_'.seed = v_.seed
         /\ \/ v_'.cs = v_.cs /\ given' = given /\ drawn' = drawn
            \/ /\ v_'.cs = v_.cs + 1 /\ drawn' = drawn + blocks
               /\ \E w : /\ VType(w) /\ w.seed = v_.seed /\ w.cs = v_.cs
                         /\ given' = given \cup Hashgen(w, blocks)
<1>1. PICK w : w = IF in = NoDrbgInput THEN v_ ELSE AddDigest(v_, "2", in)
  OBVIOUS
<1>2. PICK first \in {0, 1} : first = IF in = NoDrbgInput THEN 0 ELSE 1
  OBVIOUS
<1>3. HdTypeOK
  BY DEF StateInv
<1>4. /\ VType(w) /\ w.seed = v_.seed /\ w.cs = v_.cs /\ w.n = v_.n
      /\ Cardinality(Draws(w.digests)) = Cardinality(Draws(v_.digests))
  BY <1>1, <1>3, WithInput
<1>5. /\ calls' = [calls EXCEPT !.draws = @ + 1]
      /\ c_' = c_ /\ initialized_' = initialized_ /\ whole' = whole
  BY DEF HdGenerate
<1>6. CASE f = first + blocks + 1
  <2>1. /\ v_' = Advanced(w, reseedCounter_) /\ reseedCounter_' = reseedCounter_ + 1
        /\ given' = given \cup Hashgen(w, blocks) /\ drawn' = drawn + blocks
    BY <1>1, <1>2, <1>6 DEF HdGenerate
  <2>2. VType(w)
    BY <1>4
  <2>3. PICK in2 \in Inputs :
          /\ VType(v_') /\ v_'.seed = w.seed /\ v_'.cs = w.cs + 1 /\ v_'.n = w.n + reseedCounter_
          /\ <<"3", in2, w.n, w.cs>> \in Digests
          /\ v_'.digests = Append(w.digests, <<"3", in2, w.n, w.cs>>)
    BY <1>3, <2>1, <2>2, AdvancedIs DEF HdTypeOK
  <2>4. Cardinality(Draws(v_'.digests)) = Cardinality(Draws(w.digests)) + 1
    <3>1. PICK e \in Digests : e = <<"3", in2, w.n, w.cs>> /\ v_'.digests = Append(w.digests, e)
      BY <2>3
    <3>2. e[1] = "3" /\ w.digests \in Seq(Digests)
      BY <2>2, <3>1 DEF VType
    <3> QED
      BY <3>1, <3>2, CountedDraws
  <2>5. HdTypeOK'
    <3>1. v_' \in [seed : {v_'.seed}, digests : Seq(Digests), cs : Nat, n : Nat]
      BY <2>3 DEF VType
    <3>2. calls' \in [seeds : Nat, draws : Nat] /\ drawn' \in Nat /\ reseedCounter_' \in Nat
      BY <1>3, <1>5, <2>1 DEF HdTypeOK
    <3> QED
      BY <1>3, <1>5, <3>1, <3>2 DEF HdTypeOK, VType
  <2>6. ASSUME AsStandard PROVE AsStandard'
    <3>1. reseedCounter_ \in Nat /\ v_.n \in Nat
      BY <1>3 DEF HdTypeOK, VType
    <3>2. (reseedCounter_ + 1) * ((reseedCounter_ + 1) - 1)
            = reseedCounter_ * (reseedCounter_ - 1) + 2 * reseedCounter_
      BY <3>1
    <3>3. 2 * v_'.n = (reseedCounter_ + 1) * ((reseedCounter_ + 1) - 1)
      <4>1. v_'.n = v_.n + reseedCounter_
        BY <1>4, <2>3
      <4>2. 2 * v_.n = reseedCounter_ * (reseedCounter_ - 1)
        BY <2>6 DEF AsStandard
      <4>3. 2 * (v_.n + reseedCounter_) = 2 * v_.n + 2 * reseedCounter_
        BY <3>1
      <4> QED
        BY <3>2, <4>1, <4>2, <4>3
    <3> QED
      BY <1>4, <1>5, <2>1, <2>3, <2>4, <2>6, <3>1, <3>3 DEF AsStandard
  <2> QED
    BY <1>4, <1>5, <2>1, <2>3, <2>5, <2>6 DEF StateInv
<1>7. CASE f # first + blocks + 1
  <2>1. /\ v_' = v_ \/ v_' = w
        /\ reseedCounter_' = reseedCounter_ /\ given' = given /\ drawn' = drawn
    BY <1>1, <1>2, <1>7 DEF HdGenerate
  <2>2. /\ VType(v_') /\ v_'.seed = v_.seed /\ v_'.cs = v_.cs /\ v_'.n = v_.n
        /\ Cardinality(Draws(v_'.digests)) = Cardinality(Draws(v_.digests))
    BY <1>3, <1>4, <2>1 DEF HdTypeOK
  <2>3. HdTypeOK'
    BY <1>3, <1>5, <2>1, <2>2 DEF HdTypeOK, VType
  <2>4. AsStandard => AsStandard'
    BY <1>5, <2>1, <2>2 DEF AsStandard
  <2> QED
    BY <1>5, <2>1, <2>2, <2>3, <2>4 DEF StateInv
<1> QED
  BY <1>6, <1>7

\* What a step of the class does to V and to what was given.
LEMMA HdSteps ==
  ASSUME [HashDrbgNext]_hashDrbgVars
  PROVE  \/ \E in \in Inputs, f \in 0 .. 2 * DfBlocks : HdInit(in, f) \/ HdReseed(in, f)
         \/ \E in \in Inputs, blocks \in Nat, f \in Nat : HdGenerate(in, blocks, f)
         \/ UNCHANGED hashDrbgVars
BY HashDrbgAssumption DEF HashDrbgNext, HdRefuse, Inputs

LEMMA HdNextState == StateInv /\ [HashDrbgNext]_hashDrbgVars => StateInv'
<1> SUFFICES ASSUME StateInv, [HashDrbgNext]_hashDrbgVars PROVE StateInv'
  OBVIOUS
<1>1. ASSUME NEW in \in Inputs, NEW f \in 0 .. 2 * DfBlocks, HdInit(in, f) PROVE StateInv'
  <2>1. Seed(<<Entropy, in>>, f) /\ initialized_' = (initialized_ \/ f = 2 * DfBlocks)
    BY <1>1 DEF HdInit
  <2>2. initialized_' \in BOOLEAN
    BY <2>1
  <2> QED
    BY <2>1, <2>2, SeedState
<1>2. ASSUME NEW in \in Inputs, NEW f \in 0 .. 2 * DfBlocks, HdReseed(in, f) PROVE StateInv'
  <2>1. Seed(<<"1", v_, Entropy, in>>, f) /\ initialized_' = initialized_ /\ initialized_
    BY <1>2 DEF HdReseed
  <2>2. initialized_' \in BOOLEAN
    BY <2>1 DEF StateInv, HdTypeOK
  <2> QED
    BY <2>1, <2>2, SeedState
<1>3. CASE UNCHANGED hashDrbgVars
  BY <1>3 DEF hashDrbgVars, StateInv, HdTypeOK, VType, AsStandard
<1> QED
  BY <1>1, <1>2, <1>3, HdSteps, GenerateState

\* Whatever inputs are given and whichever hash fails, once a seeding has returned
\* true and none has failed since, V and C are those of SP 800-90A, Hash_DRBG, after
\* as many draws as the reseed counter says (HashDRBG.cpp).
THEOREM StateIsStandard == HashDrbgSpec => []HashDrbgState
<1>1. StateInv => HashDrbgState
  BY DEF StateInv, AsStandard, HashDrbgState
<1> QED
  BY <1>1, HdInitState, HdNextState, PTL DEF HashDrbgSpec

-----------------------------------------------------------------------------
(* The blocks. *)

\* The number of the entropy that a seed was derived from, or was to be: the first
\* of the inputs of init(), and the third of reseed()'s.
EntropyOf(inputs) == IF Len(inputs) = 2 THEN inputs[1][2] ELSE inputs[3][2]

Age(seed) ==
  CASE seed[1] = "nil"  -> 0
    [] seed[1] = "df"   -> EntropyOf(seed[2])
    [] seed[1] = "torn" -> EntropyOf(seed[3].seed[2])

LEMMA AgeOfNewSeed ==
  ASSUME NEW v, NEW inputs, NewSeed(v, inputs) PROVE Age(v.seed) = EntropyOf(inputs)
<1>1. CASE v.seed = <<"df", inputs>>
  BY <1>1 DEF Age
<1>2. ASSUME NEW old, v.seed = <<"torn", old, Df(inputs)>> PROVE Age(v.seed) = EntropyOf(inputs)
  <2>1. v.seed[1] = "torn" /\ v.seed[3].seed = <<"df", inputs>>
    BY <1>2, DfType
  <2> QED
    BY <2>1 DEF Age
<1> QED
  BY <1>1, <1>2 DEF NewSeed

\* A seed is no older than the last seeding, and a block that was given out is of
\* an older seed than V's, or of an earlier draw.
Earlier(g) ==
  /\ g.seed = v_.seed => g.cs \in Nat /\ g.cs < v_.cs
  /\ Age(g.seed) \in Nat /\ Age(g.seed) <= calls.seeds

FreshInv ==
  /\ StateInv
  /\ Age(v_.seed) \in Nat /\ Age(v_.seed) <= calls.seeds
  /\ IsFiniteSet(given) /\ Cardinality(given) = drawn
  /\ \A g \in given : Earlier(g)

LEMMA HdInitFresh == HashDrbgInit => FreshInv
<1> SUFFICES ASSUME HashDrbgInit PROVE FreshInv
  OBVIOUS
<1>1. Age(v_.seed) = 0
  BY DEF HashDrbgInit, Nil, Age
<1> QED
  BY <1>1, HdInitState, FS_EmptySet DEF HashDrbgInit, FreshInv

LEMMA SeedFresh ==
  ASSUME FreshInv, NEW inputs, NEW f \in 0 .. 2 * DfBlocks, Seed(inputs, f),
         initialized_' \in BOOLEAN, EntropyOf(inputs) = calls.seeds + 1,
         f = 2 * DfBlocks => initialized_', initialized_ => initialized_'
  PROVE  FreshInv'
<1>1. StateInv' /\ (v_' = v_ \/ NewSeed(v_', inputs))
  <2>1. StateInv
    BY DEF FreshInv
  <2> QED
    BY <2>1, SeedState
<1>2. given' = given /\ drawn' = drawn /\ calls.seeds \in Nat /\ calls'.seeds = calls.seeds + 1
  BY DEF Seed, FreshInv, StateInv, HdTypeOK
<1>3. v_' = v_ \/ Age(v_'.seed) = calls.seeds + 1
  BY <1>1, AgeOfNewSeed
<1>4. ASSUME NEW g \in given PROVE Earlier(g)'
  BY <1>2, <1>3 DEF FreshInv, Earlier
<1>5. Age(v_'.seed) \in Nat /\ Age(v_'.seed) <= calls'.seeds
  BY <1>2, <1>3 DEF FreshInv
<1> QED
  BY <1>1, <1>2, <1>4, <1>5 DEF FreshInv

\* The blocks of one draw are different.
LEMMA BlocksDiffer ==
  ASSUME NEW w, VType(w), NEW blocks \in Nat
  PROVE  /\ IsFiniteSet(Hashgen(w, blocks)) /\ Cardinality(Hashgen(w, blocks)) = blocks
         /\ \A g \in Hashgen(w, blocks) : g.seed = w.seed /\ g.cs = w.cs
<1> DEFINE I == 0 .. blocks - 1
           H == Hashgen(w, blocks)
           block == [j \in I |-> AddNumber(w, j)]
<1>1. \A j \in I : AddNumber(w, j).n = w.n + j /\ AddNumber(w, j).seed = w.seed
                   /\ AddNumber(w, j).cs = w.cs
  BY AddNumberIs
<1>2. H = {AddNumber(w, j) : j \in I}
  BY DEF Hashgen
<1>3. block \in [I -> H] /\ \A t \in H : \E j \in I : block[j] = t
  BY <1>2
<1>4. \A i, j \in I : block[i] = block[j] => i = j
  <2>1. w.n \in Nat
    BY DEF VType
  <2> QED
    BY <1>1, <2>1
<1>5. IsFiniteSet(I) /\ Cardinality(I) = blocks
  <2>1. 0 \in Int /\ blocks - 1 \in Int
    OBVIOUS
  <2>2. Cardinality(I) = IF 0 > blocks - 1 THEN 0 ELSE blocks - 1 - 0 + 1
    BY <2>1, FS_Interval
  <2> QED
    BY <2>1, <2>2, FS_Interval
<1>6. \A g \in H : g.seed = w.seed /\ g.cs = w.cs
  BY <1>1, <1>2
<1> HIDE DEF I, H, block
<1>7. block \in Bijection(I, H)
  BY <1>3, <1>4, Fun_IsBij
<1>8. ExistsBijection(I, H)
  BY <1>7, Fun_ExistsBij
<1> QED
  BY <1>5, <1>6, <1>8, FS_Bijection DEF I, H

LEMMA GenerateFresh ==
  ASSUME FreshInv, NEW in \in Inputs, NEW blocks \in Nat, NEW f \in Nat,
         HdGenerate(in, blocks, f)
  PROVE  FreshInv'
<1>1. StateInv
  BY DEF FreshInv
<1>2. /\ StateInv' /\ v_'.seed = v_.seed
      /\ \/ v_'.cs = v_.cs /\ given' = given /\ drawn' = drawn
         \/ /\ v_'.cs = v_.cs + 1 /\ drawn' = drawn + blocks
            /\ \E w : /\ VType(w) /\ w.seed = v_.seed /\ w.cs = v_.cs
                      /\ given' = given \cup Hashgen(w, blocks)
  BY <1>1, GenerateState
<1>3. calls'.seeds = calls.seeds /\ v_.cs \in Nat
  BY <1>1 DEF HdGenerate, StateInv, HdTypeOK, VType
<1>4. CASE v_'.cs = v_.cs /\ given' = given /\ drawn' = drawn
  <2>1. ASSUME NEW g \in given PROVE Earlier(g)'
    BY <1>2, <1>3, <1>4 DEF FreshInv, Earlier
  <2> QED
    BY <1>2, <1>3, <1>4, <2>1 DEF FreshInv
<1>5. ASSUME v_'.cs = v_.cs + 1, drawn' = drawn + blocks,
             NEW w, VType(w), w.seed = v_.seed, w.cs = v_.cs,
             given' = given \cup Hashgen(w, blocks)
      PROVE  FreshInv'
  <2>1. PICK H : H = Hashgen(w, blocks)
    OBVIOUS
  <2>2. /\ IsFiniteSet(H) /\ Cardinality(H) = blocks
        /\ \A g \in H : g.seed = v_.seed /\ g.cs = v_.cs
    BY <1>5, <2>1, BlocksDiffer
  <2>3. given \cap H = {}
    BY <1>3, <2>2 DEF FreshInv, Earlier
  <2>4. IsFiniteSet(given') /\ Cardinality(given') = drawn'
    <3>1. IsFiniteSet(given) /\ Cardinality(given) = drawn /\ drawn \in Nat
      BY DEF FreshInv, StateInv, HdTypeOK
    <3>2. IsFiniteSet(given \cup H)
          /\ Cardinality(given \cup H) = Cardinality(given) + Cardinality(H) - Cardinality(given \cap H)
      BY <2>2, <3>1, FS_Union
    <3>3. Cardinality(given \cap H) = 0
      BY <2>3, FS_EmptySet
    <3> QED
      BY <1>5, <2>1, <2>2, <3>1, <3>2, <3>3
  <2>5. ASSUME NEW g \in given' PROVE Earlier(g)'
    BY <1>2, <1>3, <1>5, <2>1, <2>2 DEF FreshInv, Earlier
  <2> QED
    BY <1>2, <1>3, <2>4, <2>5 DEF FreshInv
<1> QED
  BY <1>2, <1>4, <1>5

LEMMA HdNextFresh == FreshInv /\ [HashDrbgNext]_hashDrbgVars => FreshInv'
<1> SUFFICES ASSUME FreshInv, [HashDrbgNext]_hashDrbgVars PROVE FreshInv'
  OBVIOUS
<1>1. ASSUME NEW in \in Inputs, NEW f \in 0 .. 2 * DfBlocks, HdInit(in, f) PROVE FreshInv'
  <2>1. Seed(<<Entropy, in>>, f) /\ initialized_' = (initialized_ \/ f = 2 * DfBlocks)
    BY <1>1 DEF HdInit
  <2>2. initialized_' \in BOOLEAN /\ EntropyOf(<<Entropy, in>>) = calls.seeds + 1
    BY <2>1 DEF EntropyOf, Entropy
  <2> QED
    BY <2>1, <2>2, SeedFresh
<1>2. ASSUME NEW in \in Inputs, NEW f \in 0 .. 2 * DfBlocks, HdReseed(in, f) PROVE FreshInv'
  <2>1. Seed(<<"1", v_, Entropy, in>>, f) /\ initialized_' = initialized_ /\ initialized_
    BY <1>2 DEF HdReseed
  <2>2. initialized_' \in BOOLEAN /\ EntropyOf(<<"1", v_, Entropy, in>>) = calls.seeds + 1
    BY <2>1 DEF FreshInv, StateInv, HdTypeOK, EntropyOf, Entropy
  <2> QED
    BY <2>1, <2>2, SeedFresh
<1>3. CASE UNCHANGED hashDrbgVars
  <2>1. StateInv'
    BY <1>3, HdNextState DEF FreshInv
  <2>2. ASSUME NEW g \in given PROVE Earlier(g)'
    BY <1>3 DEF hashDrbgVars, FreshInv, Earlier
  <2> QED
    BY <1>3, <2>1, <2>2 DEF hashDrbgVars, FreshInv
<1> QED
  BY <1>1, <1>2, <1>3, HdSteps, GenerateFresh

\* Whatever hash fails, and however seedings and draws follow each other, no block is
\* given out twice by calls that return true (HashDRBG.cpp).
THEOREM BlocksAreFresh == HashDrbgSpec => []HashDrbgBlocksFresh
<1>1. FreshInv => HashDrbgBlocksFresh
  BY DEF FreshInv, HashDrbgBlocksFresh
<1> QED
  BY <1>1, HdInitFresh, HdNextFresh, PTL DEF HashDrbgSpec

=============================================================================
