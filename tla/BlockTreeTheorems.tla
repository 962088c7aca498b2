------------------------- MODULE BlockTreeTheorems -------------------------
(***************************************************************************)
(* Facts about chains of blocks and the state a block stands for.          *)
(***************************************************************************)
EXTENDS BlockTree, WellFoundedInduction, TLAPS

\* Every nonempty set of naturals has a least element.
LEMMA LeastNatural ==
    ASSUME NEW D \in SUBSET Nat, D # {}
    PROVE  \E n \in D : \A m \in D : n <= m
<1> DEFINE R == {ss \in Nat \X Nat : ss[1] < ss[2]}
<1>1. IsWellFoundedOn(R, Nat)
  BY NatLessThanWellFounded DEF OpToRel
<1>2. PICK n \in D : \A m \in D : ~(<<m, n>> \in R)
  <2> HIDE DEF R
  <2> QED BY ZenonT(30), <1>1, WFMin
<1>3. ASSUME NEW m \in D PROVE n <= m
  <2>1. m \in Nat /\ n \in Nat
    OBVIOUS
  <2>2. m < n => <<m, n>> \in R
    BY <2>1
  <2> QED
    BY <1>2, <2>1, <2>2
<1> QED
  BY <1>3

\* A block is on its own chain, and everything on it is a block.
LEMMA AncSelf ==
    \A b \in Blocks : b \in Anc[b] /\ Anc[b] \subseteq Blocks
BY BlocksAssumption, ParentAssumption

\* A strict ancestor has a strictly lower number.
LEMMA AncBelow ==
    ASSUME NEW b \in Blocks, NEW x \in Anc[b], x # b
    PROVE  Number[x] < Number[b]
<1>1. b # Genesis
  BY ParentAssumption
<1>2. x \in Anc[Parent[b]] /\ Parent[b] \in Blocks
  BY <1>1, ParentAssumption, BlocksAssumption
<1>3. Number[x] <= Number[Parent[b]] /\ Number[b] = Number[Parent[b]] + 1
  BY <1>1, <1>2, ChainAssumption, ParentAssumption
<1> QED
  BY <1>2, <1>3, AncSelf, BlocksAssumption

\* Two blocks of a chain with the same number are the same block.
LEMMA AncUnique ==
    ASSUME NEW b \in Blocks, NEW x \in Anc[b], NEW y \in Anc[b],
           Number[x] = Number[y]
    PROVE  x = y
<1>1. x \in Blocks /\ y \in Blocks
  BY AncSelf
<1>2. x \in Anc[y]
  BY <1>1, ChainAssumption, BlocksAssumption
<1> QED
  BY <1>1, <1>2, AncBelow, BlocksAssumption

\* The highest block of a part of a chain is the one Top returns.
LEMMA TopIs ==
    ASSUME NEW b \in Blocks, NEW S \in SUBSET Anc[b], NEW t \in S,
           \A y \in S : Number[y] <= Number[t]
    PROVE  Top(S) = t
<1>1. \A u \in S : (\A y \in S : Number[y] <= Number[u]) => u = t
  <2> SUFFICES ASSUME NEW u \in S, \A y \in S : Number[y] <= Number[u]
               PROVE  u = t
    OBVIOUS
  <2>1. Number[u] = Number[t]
    BY AncSelf, BlocksAssumption
  <2> QED
    BY <2>1, AncUnique
<1> QED
  BY <1>1 DEF Top

\* Every nonempty part of a chain has a highest block.
LEMMA TopIn ==
    ASSUME NEW b \in Blocks, NEW S \in SUBSET Anc[b], S # {}
    PROVE  /\ Top(S) \in S
           /\ \A y \in S : Number[y] <= Number[Top(S)]
<1> DEFINE D == {Number[b] - Number[x] : x \in S}
<1>1. D \in SUBSET Nat /\ D # {}
  BY AncSelf, ChainAssumption, BlocksAssumption
<1>2. PICK n \in D : \A m \in D : n <= m
  <2> HIDE DEF D
  <2> QED BY <1>1, LeastNatural
<1>3. PICK t \in S : n = Number[b] - Number[t]
  BY <1>2
<1>4. \A y \in S : Number[y] <= Number[t]
  <2> SUFFICES ASSUME NEW y \in S PROVE Number[y] <= Number[t]
    OBVIOUS
  <2>1. n <= Number[b] - Number[y]
    BY <1>2
  <2>2. y \in Blocks /\ t \in Blocks
    BY AncSelf
  <2> QED
    BY <2>1, <2>2, <1>3, BlocksAssumption
<1> QED
  BY <1>3, <1>4 DEF Top

\* Every nonempty set of blocks has a lowest one.
LEMMA LowestIn ==
    ASSUME NEW S \in SUBSET Blocks, S # {}
    PROVE  /\ Lowest(S) \in S
           /\ \A y \in S : Number[Lowest(S)] <= Number[y]
<1> DEFINE D == {Number[x] : x \in S}
<1>1. D \in SUBSET Nat /\ D # {}
  BY BlocksAssumption
<1>2. PICK n \in D : \A m \in D : n <= m
  <2> HIDE DEF D
  <2> QED BY <1>1, LeastNatural
<1>3. PICK t \in S : n = Number[t]
  BY <1>2
<1>4. \A y \in S : Number[t] <= Number[y]
  BY <1>2, <1>3
<1> QED
  BY <1>3, <1>4 DEF Lowest

\* A plain key has the same value after b as after its ancestor d when no block
\* of b's chain above d writes it.
LEMMA StateUnchanged ==
    ASSUME NEW b \in Blocks, NEW d \in Anc[b], NEW k \in PlainKeys,
           \A y \in Above(d, b) : k \notin Writes[y]
    PROVE  StateOf(b, k) = StateOf(d, k)
<1>1. d \in Blocks /\ Anc[d] \subseteq Anc[b] /\ Genesis \in Anc[d]
  BY AncSelf, ChainAssumption
<1>2. \A y \in Writers(b, k) : y \in Anc[d]
  <2> SUFFICES ASSUME NEW y \in Writers(b, k) PROVE y \in Anc[d]
    OBVIOUS
  <2>1. y \in Anc[b] /\ y \in Blocks
    BY AncSelf DEF Writers
  <2>2. CASE y = Genesis
    BY <2>2, <1>1
  <2>3. CASE y # Genesis
    <3>1. k \in Writes[y]
      BY <2>1, <2>3, BlocksAssumption DEF Writers, PlainKeys
    <3>2. Number[y] <= Number[d]
      BY <2>1, <3>1, <1>1, BlocksAssumption DEF Above
    <3> QED
      BY <2>1, <3>2, ChainAssumption
  <2> QED
    BY <2>2, <2>3
<1>3. Writers(b, k) = Writers(d, k)
  BY <1>1, <1>2 DEF Writers
<1> QED
  BY <1>3 DEF StateOf

\* The last block of b's chain to write a plain key is the key's value.
LEMMA StateIsLastWriter ==
    ASSUME NEW b \in Blocks, NEW t \in Anc[b], NEW k \in PlainKeys,
           k \in Writes[t],
           \A y \in Above(t, b) : k \notin Writes[y]
    PROVE  StateOf(b, k) = t
<1>1. t \in Blocks /\ Genesis \in Anc[t]
  BY AncSelf, ChainAssumption
<1>2. \A y \in Writers(b, k) : Number[y] <= Number[t]
  <2> SUFFICES ASSUME NEW y \in Writers(b, k) PROVE Number[y] <= Number[t]
    OBVIOUS
  <2>1. y \in Anc[b] /\ y \in Blocks
    BY AncSelf DEF Writers
  <2>2. CASE y = Genesis
    BY <2>2, <1>1, ChainAssumption
  <2>3. CASE y # Genesis
    <3>1. k \in Writes[y]
      BY <2>1, <2>3, BlocksAssumption DEF Writers, PlainKeys
    <3> QED
      BY <2>1, <3>1, <1>1, BlocksAssumption DEF Above
  <2> QED
    BY <2>2, <2>3
<1>3. t \in Writers(b, k) /\ Writers(b, k) \subseteq Anc[b]
  BY <1>1 DEF Writers
<1> QED
  BY <1>2, <1>3, TopIs DEF StateOf

\* The value a block gives a key it writes or clears, and the value it leaves.
LEMMA StateStep ==
    ASSUME NEW b \in Blocks \ {Genesis}, NEW k
    PROVE  StateOf(b, k) =
              IF k \in Writes[b] \cup Clears[b] THEN b ELSE StateOf(Parent[b], k)
<1>1. /\ b \in Blocks /\ Parent[b] \in Blocks /\ b \in Anc[b]
      /\ Anc[b] = Anc[Parent[b]] \cup {b}
  BY Zenon, BlocksAssumption, ParentAssumption, AncSelf
<1>2. CASE k \in Writes[b] \cup Clears[b]
  <2>1. b \in Writers(b, k) /\ Writers(b, k) \in SUBSET Anc[b]
    BY Zenon, <1>1, <1>2 DEF Writers
  <2>2. \A y \in Writers(b, k) : Number[y] <= Number[b]
    BY Zenon, <2>1, <1>1, ChainAssumption
  <2> QED
    BY Zenon, <2>1, <2>2, <1>1, <1>2, TopIs DEF StateOf
<1>3. CASE k \notin Writes[b] \cup Clears[b]
  <2>1. Writers(b, k) = Writers(Parent[b], k)
    BY Zenon, <1>1, <1>3 DEF Writers
  <2> QED
    BY Zenon, <2>1, <1>3 DEF StateOf
<1> QED
  BY Zenon, <1>2, <1>3

\* A chain has a block at every height between two of its blocks.
LEMMA NoGaps ==
    ASSUME NEW b \in Blocks, NEW w \in Anc[b],
           NEW n \in Number[w] .. Number[b]
    PROVE  \E z \in Anc[b] : Number[z] = n
<1>1. PICK S : S = {z \in Anc[b] : n <= Number[z]}
  BY Zenon
<1>2. Anc[b] \subseteq Blocks /\ w \in Blocks /\ Number[b] \in Nat /\ Number[w] \in Nat
  BY AncSelf, BlocksAssumption
<1>3. b \in S /\ S \in SUBSET Blocks
  BY <1>1, <1>2, AncSelf
<1>4. PICK t \in S : \A y \in S : Number[t] <= Number[y]
  BY Zenon, <1>3, LowestIn
<1>5. t \in Anc[b] /\ t \in Blocks /\ Number[t] \in Nat /\ n <= Number[t]
  BY <1>1, <1>2, BlocksAssumption
<1>6. CASE t = Genesis
  <2>1. Genesis \in Anc[w] /\ Number[Genesis] <= Number[w]
    BY Zenon, <1>2, ChainAssumption
  <2> QED
    BY <2>1, <1>2, <1>5, <1>6
<1>7. CASE t # Genesis
  <2>1. /\ Parent[t] \in Blocks /\ Number[t] = Number[Parent[t]] + 1
        /\ Anc[t] = Anc[Parent[t]] \cup {t}
    BY Zenon, <1>5, <1>7, ParentAssumption, BlocksAssumption
  <2>2. Parent[t] \in Anc[b] /\ Number[Parent[t]] \in Nat
    <3>1. Parent[t] \in Anc[t] /\ Anc[t] \subseteq Anc[b]
      BY Zenon, <2>1, <1>5, AncSelf, ChainAssumption
    <3> QED
      BY Zenon, <2>1, <3>1, BlocksAssumption
  <2>3. ~(n <= Number[Parent[t]])
    <3> SUFFICES ASSUME n <= Number[Parent[t]] PROVE FALSE
      OBVIOUS
    <3>1. Parent[t] \in S
      BY Zenon, <2>2, <1>1
    <3>2. Number[t] <= Number[Parent[t]]
      BY Zenon, <3>1, <1>4
    <3> QED
      BY <3>2, <2>1, <2>2, <1>5
  <2>4. Number[t] = n
    BY <2>1, <2>2, <2>3, <1>5
  <2> QED
    BY Zenon, <2>4, <1>5
<1> QED
  BY <1>6, <1>7

\* The block of b's chain one above d is d's child.
LEMMA ChildIs ==
    ASSUME NEW b \in Blocks, NEW d \in Anc[b], NEW x \in Anc[b],
           Number[x] = Number[d] + 1
    PROVE  x # Genesis /\ Parent[x] = d
<1>1. /\ d \in Blocks /\ x \in Blocks /\ Number[d] \in Nat
      /\ Genesis \in Anc[d] /\ Number[Genesis] \in Nat /\ Number[Genesis] <= Number[d]
  BY Zenon, AncSelf, BlocksAssumption, ChainAssumption
<1>2. x # Genesis
  BY <1>1
<1>3. Parent[x] \in Blocks /\ Number[x] = Number[Parent[x]] + 1 /\ Parent[x] \in Anc[x]
  BY Zenon, <1>1, <1>2, BlocksAssumption, ParentAssumption, AncSelf
<1>4. Parent[x] \in Anc[b] /\ Number[Parent[x]] \in Nat
  BY Zenon, <1>1, <1>3, ChainAssumption, BlocksAssumption
<1>5. Number[Parent[x]] = Number[d]
  BY <1>1, <1>3, <1>4
<1> QED
  BY Zenon, <1>2, <1>4, <1>5, AncUnique
=============================================================================
