----------------------------- MODULE MCArchive -----------------------------
(***************************************************************************)
(* A chain g a1 a2 a3 and a block b2 that replaces a2 after a rewind to a1 *)
(* or below.                                                               *)
(***************************************************************************)
EXTENDS Archive, TLC

CONSTANTS g, a1, a2, a3, b2

MCBlocks == {g, a1, a2, a3, b2}
MCParent == (a1 :> g) @@ (a2 :> a1) @@ (a3 :> a2) @@ (b2 :> a1)
MCNumber == (g :> 0) @@ (a1 :> 1) @@ (a2 :> 2) @@ (a3 :> 3) @@ (b2 :> 2)
MCAnc == (g :> {g}) @@ (a1 :> {g, a1}) @@ (a2 :> {g, a1, a2})
         @@ (a3 :> {g, a1, a2, a3}) @@ (b2 :> {g, a1, b2})
\* a2 leaves the slot alone: a version that holds for two blocks.
MCWrites == (g :> {}) @@ (a1 :> {"slot"}) @@ (a2 :> {})
            @@ (a3 :> {"slot"}) @@ (b2 :> {})
\* b2 deletes the slot's account.
MCClears == [b \in MCBlocks |-> IF b = b2 THEN {"slot"} ELSE {}]
Interchangeable == Permutations(Readers)
=============================================================================
