--------------------------- MODULE MCHttpUpdater ---------------------------
(***************************************************************************)
(* Two branches for HttpUpdater: they part at a2.  The first one has one,  *)
(* two or three blocks above a2.                                           *)
(***************************************************************************)
EXTENDS HttpUpdater, TLC

CONSTANTS g, a1, a2, a3, a4, a5, b3, b4, b5, b6

\* A reorganisation drops at most one block, two or three.
ShallowFork == {g, a1, a2, a3, b3, b4, b5, b6}
LimitFork == ShallowFork \cup {a4}
DeepFork == LimitFork \cup {a5}

AllParents == (a1 :> g) @@ (a2 :> a1) @@ (a3 :> a2) @@ (a4 :> a3)
              @@ (a5 :> a4)
              @@ (b3 :> a2) @@ (b4 :> b3) @@ (b5 :> b4) @@ (b6 :> b5)
AllNumbers == (g :> 0) @@ (a1 :> 1) @@ (a2 :> 2) @@ (a3 :> 3) @@ (a4 :> 4)
              @@ (a5 :> 5)
              @@ (b3 :> 3) @@ (b4 :> 4) @@ (b5 :> 5) @@ (b6 :> 6)

MCParent == [b \in Blocks \ {g} |-> AllParents[b]]
MCNumber == [b \in Blocks |-> AllNumbers[b]]
MCAnc == [b \in Blocks |->
            LET up[n \in 0..6] ==
                  IF n = 0 THEN {b}
                  ELSE up[n-1] \cup {AllParents[x] : x \in up[n-1] \ {g}}
            IN  up[6]]
NoWrites == [b \in Blocks |-> {}]
=============================================================================
