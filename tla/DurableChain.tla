---------------------------- MODULE DurableChain ----------------------------
(***************************************************************************)
(* What the database promises to everything above it: it holds the state   *)
(* of exactly one block, and only ever moves to a child of that block,     *)
(* whose diff it applies in one step.                                      *)
(***************************************************************************)
EXTENDS BlockTree

VARIABLES head, content

vars == <<head, content>>

ContentOf(b) == [k \in PlainKeys |-> StateOf(b, k)]

Init ==
    /\ head = Genesis
    /\ content = ContentOf(Genesis)

Advance(b) ==
    /\ b # Genesis
    /\ Parent[b] = head
    /\ head' = b
    /\ content' = ContentOf(b)

Next == \E b \in Blocks : Advance(b)

Spec == Init /\ [][Next]_vars
=============================================================================
