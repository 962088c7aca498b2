---------------------------- MODULE MCArchiveOps ----------------------------
(***************************************************************************)
(* Four parts of an archive that share no state in memory: the block       *)
(* index, the bulk initialiser, the iterator tracker and the repair of     *)
(* deleted accounts.  Each behaviour exercises one of them, the one that   *)
(* part names; the others stay in one of their initial states.             *)
(***************************************************************************)
EXTENDS BlockIndex, ArchiveInit, IteratorTracker, ClearDeleted, TLC

CONSTANTS g, a1, a2, a3, b1, b2

VARIABLE part

partsVars == <<part, indexVars, initVars, trackerVars, clearVars>>

\* Two branches from genesis.  The prefixes of a3 and b2 are one, and two more
\* share a filter code.
MCBlocks == {g, a1, a2, a3, b1, b2}
MCParent == (a1 :> g) @@ (a2 :> a1) @@ (a3 :> a2) @@ (b1 :> g) @@ (b2 :> b1)
MCNumber == (g :> 0) @@ (a1 :> 1) @@ (a2 :> 2) @@ (a3 :> 3) @@ (b1 :> 1)
            @@ (b2 :> 2)
MCAnc == (g :> {g}) @@ (a1 :> {g, a1}) @@ (a2 :> {g, a1, a2})
         @@ (a3 :> {g, a1, a2, a3}) @@ (b1 :> {g, b1}) @@ (b2 :> {g, b1, b2})
NoWrites == [b \in MCBlocks |-> {}]
MCPrefix == (g :> "p1") @@ (a1 :> "p2") @@ (a2 :> "p3") @@ (a3 :> "p4")
            @@ (b1 :> "p5") @@ (b2 :> "p4")
MCCode == ("p1" :> "c2") @@ ("p2" :> "c3") @@ ("p3" :> "c1") @@ ("p4" :> "c4")
          @@ ("p5" :> "c1")
MCShard == [p \in DOMAIN MCCode |-> IF p \in {"p1", "p2"} THEN 0 ELSE 1]

OpsInit ==
    /\ part \in {"index", "init", "tracker", "clear"}
    /\ IndexInit /\ ArchiveInitInit /\ TrackerInit /\ ClearInit
    /\ part # "index" => byNumber = None
    /\ part # "init" => backend = "sst"
    /\ part # "clear" => ~upgradable

InIndex == part = "index" /\ UNCHANGED <<part, initVars, trackerVars, clearVars>>
InInit == part = "init" /\ UNCHANGED <<part, indexVars, trackerVars, clearVars>>
InTracker == part = "tracker" /\ UNCHANGED <<part, indexVars, initVars, clearVars>>
InClear == part = "clear" /\ UNCHANGED <<part, indexVars, initVars, trackerVars>>

OpsNext ==
    \/ InIndex /\ IndexNext
    \/ InInit /\ ArchiveInitNext
    \/ InTracker /\ TrackerNext
    \/ InClear /\ ClearNext

\* The tasks of the initialiser run, the tracker's thread runs, time passes,
\* and a handle in use is used on or dropped.
OpsFairness ==
    /\ WF_partsVars(InInit /\ Pipeline)
    /\ WF_partsVars(InTracker /\ MonitorStep)
    /\ WF_partsVars(InTracker /\ Elapse)
    /\ \A h \in Handles : WF_partsVars(InTracker /\ UserStep(h))

OpsSpec == OpsInit /\ [][OpsNext]_partsVars /\ OpsFairness
=============================================================================
