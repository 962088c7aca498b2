----------------------------- MODULE BlockTree -----------------------------
(***************************************************************************)
(* The blocks the node may be handed and the state each of them stands     *)
(* for.  A block carries its parent's hash, its number and a state diff    *)
(* (BlockInfo and BlockStorageDiff).                                       *)
(*                                                                         *)
(* A key is an account, a storage slot, a code hash or a block number.     *)
(* Its value is abstracted to the block that wrote it: two values are told *)
(* apart exactly when different blocks wrote them, which is the finest     *)
(* distinction a reader can observe.                                       *)
(***************************************************************************)
EXTENDS Integers, FiniteSets

CONSTANTS
    Blocks,     \* block hashes
    Genesis,    \* the block an empty node is initialised with
    Parent,     \* header.parent_hash of every block but Genesis
    Number,     \* header.number
    Anc,        \* the ancestors of a block, itself included
    Keys,       \* everything a state handle can be asked for
    Writes,     \* the keys a block's diff lists
    Clears      \* the storage a block's deleted accounts held: the diff does
                \* not list it

ASSUME BlocksAssumption ==
    /\ Genesis \in Blocks
    /\ Number \in [Blocks -> Nat]
    /\ Writes \in [Blocks -> SUBSET Keys]
    /\ Clears \in [Blocks -> SUBSET Keys]
    /\ Parent \in [Blocks \ {Genesis} -> Blocks]

\* A child's number is its parent's plus one, and its ancestors are its
\* parent's and itself.
ASSUME ParentAssumption ==
    /\ Anc \in [Blocks -> SUBSET Blocks]
    /\ Anc[Genesis] = {Genesis}
    /\ \A b \in Blocks \ {Genesis} :
        /\ Number[b] = Number[Parent[b]] + 1
        /\ Anc[b] = Anc[Parent[b]] \cup {b}

\* The ancestors of a block form one chain from Genesis, ordered by number and
\* without gaps.
ASSUME ChainAssumption ==
    \A b \in Blocks :
        /\ Genesis \in Anc[b]
        /\ \A x \in Anc[b] : Number[x] <= Number[b] /\ Anc[x] \subseteq Anc[b]
        /\ \A x, y \in Anc[b] : Number[x] <= Number[y] => x \in Anc[y]
        /\ \A x \in Anc[b] \ {b} :
              \E y \in Anc[b] : y # Genesis /\ Parent[y] = x

----------------------------------------------------------------------------

Heights == {Number[b] : b \in Blocks}

\* The members of a set of blocks with the highest and the lowest number.
Top(S) == CHOOSE x \in S : \A y \in S : Number[y] <= Number[x]
Lowest(S) == CHOOSE x \in S : \A y \in S : Number[x] <= Number[y]

\* The ancestors of b, itself included, that are above block d.
Above(d, b) == {x \in Anc[b] : Number[x] > Number[d]}

\* The blocks of b's chain that gave key k a value, Genesis being the initial
\* contents of every key.
Writers(b, k) ==
    {x \in Anc[b] : k \in Writes[x] \cup Clears[x] \/ x = Genesis}

\* The value of k after b: what the last of them left.
StateOf(b, k) == Top(Writers(b, k))

\* Keys no deleted account takes with it.
PlainKeys == {k \in Keys : \A b \in Blocks : k \notin Clears[b]}
=============================================================================
