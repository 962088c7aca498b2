---------------------------- MODULE MCStateTree ----------------------------
(***************************************************************************)
(* A small block tree for StateTree: the main chain g a1 a2 a3 a4, a fork  *)
(* that leaves it at a2 (b3 b4) and one that leaves it at a1 (c2 c3).      *)
(***************************************************************************)
EXTENDS StateTree, TLC

CONSTANTS g, a1, a2, a3, a4, b3, b4, c2, c3

\* Main chain and forks, and the main chain alone.
Forked == {g, a1, a2, a3, a4, b3, b4, c2, c3}
Linear == {g, a1, a2, a3}

AllParents == (a1 :> g) @@ (a2 :> a1) @@ (a3 :> a2) @@ (a4 :> a3)
              @@ (b3 :> a2) @@ (b4 :> b3) @@ (c2 :> a1) @@ (c3 :> c2)
AllNumbers == (g :> 0) @@ (a1 :> 1) @@ (a2 :> 2) @@ (a3 :> 3) @@ (a4 :> 4)
              @@ (b3 :> 3) @@ (b4 :> 4) @@ (c2 :> 2) @@ (c3 :> 3)
AllWrites == (g :> {}) @@ (a1 :> {"k2"}) @@ (a2 :> {"k1"})
             @@ (a3 :> {"k2"}) @@ (a4 :> {}) @@ (b3 :> {"k1"}) @@ (b4 :> {"k2"})
             @@ (c2 :> {"k2"}) @@ (c3 :> {"k1"})

MCParent == [b \in Blocks \ {g} |-> AllParents[b]]
MCNumber == [b \in Blocks |-> AllNumbers[b]]
MCAnc == [b \in Blocks |->
            LET up[n \in 0..4] ==
                  IF n = 0 THEN {b}
                  ELSE up[n-1] \cup {AllParents[x] : x \in up[n-1] \ {g}}
            IN  up[4]]
MCKeys == {"k1", "k2"}
MCWrites == [b \in Blocks |-> AllWrites[b]]
NoClears == [b \in Blocks |-> {}]
\* a2 deletes the account that slot k2 belongs to.
SomeClears == [b \in Blocks |-> IF b = a2 THEN {"k2"} ELSE {}]
=============================================================================
