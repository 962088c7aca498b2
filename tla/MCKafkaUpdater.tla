--------------------------- MODULE MCKafkaUpdater ---------------------------
(***************************************************************************)
(* Topics for KafkaUpdater over the main chain g a1 a2 a3 a4 a5, a fork    *)
(* b3 b4 b5 that leaves it at a2 and one, c4 c5, that leaves it at a3.     *)
(***************************************************************************)
EXTENDS KafkaUpdater

CONSTANTS g, a1, a2, a3, a4, a5, b3, b4, b5, c4, c5

MCBlocks == {g, a1, a2, a3, a4, a5, b3, b4, b5, c4, c5}

MCParent == (a1 :> g) @@ (a2 :> a1) @@ (a3 :> a2) @@ (a4 :> a3) @@ (a5 :> a4)
            @@ (b3 :> a2) @@ (b4 :> b3) @@ (b5 :> b4)
            @@ (c4 :> a3) @@ (c5 :> c4)
MCNumber == (g :> 0) @@ (a1 :> 1) @@ (a2 :> 2) @@ (a3 :> 3) @@ (a4 :> 4)
            @@ (a5 :> 5) @@ (b3 :> 3) @@ (b4 :> 4) @@ (b5 :> 5)
            @@ (c4 :> 4) @@ (c5 :> 5)
MCAnc == [b \in MCBlocks |->
            LET up[n \in 0..5] ==
                  IF n = 0 THEN {b}
                  ELSE up[n-1] \cup {MCParent[x] : x \in up[n-1] \ {g}}
            IN  up[5]]
NoWrites == [b \in MCBlocks |-> {}]

\* The part without b3 b4 b5.
ForkBlocks == {g, a1, a2, a3, a4, a5, c4, c5}
ForkParent == Restrict(MCParent, ForkBlocks \ {g})
ForkNumber == Restrict(MCNumber, ForkBlocks)
ForkAnc == Restrict(MCAnc, ForkBlocks)
NoForkWrites == Restrict(NoWrites, ForkBlocks)

\* One block per notification: without a fork, and with one that starts below
\* the head.
LinearTopic == <<<<a1>>, <<a2>>, <<a3>>, <<a4>>, <<a5>>>>
ForkTopic == <<<<a1>>, <<a2>>, <<a3>>, <<a4>>, <<a5>>, <<c4>>, <<c5>>>>
\* Two blocks in one notification: the head and the parent it came with.
ReorgTopic == <<<<a1>>, <<a2>>, <<a3>>, <<b3, b4>>, <<b5>>>>
=============================================================================
