---------------------------- MODULE HttpUpdater ----------------------------
(***************************************************************************)
(* The HTTP updater driving the state tree: it polls a node's RPC for the  *)
(* block after its own latest one, walks the parent hashes back until it   *)
(* meets a block the tree has, and imports the queue it collected.  The    *)
(* remote node may switch branches between any two requests.               *)
(***************************************************************************)
EXTENDS StateTree, Sequences

CONSTANTS
    HistoricalReads,    \* the database resolves committed blocks by hash
                        \* (archive), so state_at finds them
    RpcMayFail,
    DbMayFail,
    MaxHttpCrashes          \* bound: crashes

ASSUME HttpAssumption ==
    /\ {HistoricalReads, RpcMayFail, DbMayFail} \subseteq BOOLEAN
    /\ MaxHttpCrashes \in Nat

VARIABLES
    remote,         \* the head of the remote node
    hpc,            \* where the updater is in update()
    queue,          \* block_queue
    httpCrashes

httpVars == <<remote, hpc, queue, httpCrashes>>
nodeVars == <<vars, httpVars>>

----------------------------------------------------------------------------

HttpInit ==
    /\ Init
    /\ remote = Genesis
    /\ hpc = "tick"
    /\ queue = <<>>
    /\ httpCrashes = 0

\* The remote node moves to a higher head, on its branch or on another.
RemoteMoves ==
    /\ \E b \in Blocks : Number[b] > Number[remote] /\ remote' = b
    /\ UNCHANGED <<vars, hpc, queue, httpCrashes>>

HttpCrash ==
    /\ httpCrashes < MaxHttpCrashes
    /\ httpCrashes' = httpCrashes + 1
    /\ Restart
    /\ hpc' = "tick"
    /\ queue' = <<>>
    /\ UNCHANGED remote

----------------------------------------------------------------------------
(***************************************************************************)
(* update, called on every tick of the interval and again after a success. *)
(***************************************************************************)

\* With an empty queue, eth_blockNumber is compared with the latest block.
AskHeight ==
    /\ hpc = "tick"
    /\ queue = <<>>
    /\ Number[remote] > Number[LatestBlock]
    /\ hpc' = "fetch"
    /\ UNCHANGED <<vars, remote, queue, httpCrashes>>

\* Mutant of FetchNext: an empty answer is queued.
FetchNothing ==
    /\ hpc = "fetch"
    /\ queue' = <<NoBlock>>
    /\ hpc' = "walk"
    /\ UNCHANGED <<vars, remote, httpCrashes>>

\* The block after the latest one, by number, on the branch the remote is on
\* by now.
FetchNext ==
    /\ hpc = "fetch"
    /\ \E b \in Anc[remote] :
        /\ Number[b] = Number[LatestBlock] + 1
        /\ queue' = <<b>>
    /\ hpc' = "walk"
    /\ UNCHANGED <<vars, remote, httpCrashes>>

\* Mutant of ResumeQueue: a left-over queue is walked only if it attaches.
ResumeAttached ==
    /\ hpc = "tick"
    /\ queue # <<>>
    /\ Head(queue) # Genesis
    /\ Parent[Head(queue)] \in Indexed
    /\ hpc' = "walk"
    /\ UNCHANGED <<vars, remote, queue, httpCrashes>>

\* Blocks left over from an earlier update come first.
ResumeQueue ==
    /\ hpc = "tick"
    /\ queue # <<>>
    /\ hpc' = "walk"
    /\ UNCHANGED <<vars, remote, queue, httpCrashes>>

\* state_at by hash: an indexed block or, on an archive, one in the database.
InTree(b) == b \in Indexed \/ (HistoricalReads /\ b \in Anc[diskHead])

\* The front of the queue has a parent in the tree.
Attached ==
    /\ Head(queue) # Genesis
    /\ InTree(Parent[Head(queue)])

\* Mutant of QueueTooLong: one block more is let through.
QueueFarTooLong == Len(queue) > DepthLimit + 1

QueueTooLong == Len(queue) > DepthLimit

\* The queue is longer than the limit: update returns Ok(false).
WalkTooLong ==
    /\ hpc = "walk"
    /\ QueueTooLong
    /\ hpc' = "tick"
    /\ UNCHANGED <<vars, remote, queue, httpCrashes>>

\* Mutant of WalkEnds: the walk ends at the first block.
WalkEndsEarly ==
    /\ hpc = "walk"
    /\ ~QueueTooLong
    /\ hpc' = "apply"
    /\ UNCHANGED <<vars, remote, queue, httpCrashes>>

WalkEnds ==
    /\ hpc = "walk"
    /\ ~QueueTooLong
    /\ Attached
    /\ hpc' = "apply"
    /\ UNCHANGED <<vars, remote, queue, httpCrashes>>

\* Mutant of WalkBack: the parent is appended at the wrong end.
WalkBackAppends ==
    /\ hpc = "walk"
    /\ ~QueueTooLong
    /\ ~Attached
    /\ Head(queue) # Genesis
    /\ queue' = Append(queue, Parent[Head(queue)])
    /\ UNCHANGED <<vars, remote, hpc, httpCrashes>>

\* Otherwise the parent is fetched by hash and put in front.  The parent of
\* Genesis does not exist: that request fails.
WalkBack ==
    /\ hpc = "walk"
    /\ ~QueueTooLong
    /\ ~Attached
    /\ Head(queue) # Genesis
    /\ queue' = <<Parent[Head(queue)]>> \o queue
    /\ UNCHANGED <<vars, remote, hpc, httpCrashes>>

\* A request fails: update returns the error, the queue stays.
RequestFails ==
    /\ \/ RpcMayFail /\ (hpc = "fetch" \/ (hpc = "walk" /\ ~QueueTooLong /\ ~Attached))
       \/ hpc = "walk" /\ ~QueueTooLong /\ Head(queue) = Genesis
    /\ hpc' = "tick"
    /\ UNCHANGED <<vars, remote, queue, httpCrashes>>

----------------------------------------------------------------------------
(***************************************************************************)
(* The import loop.  A block leaves the queue before update_block is       *)
(* called, whatever becomes of it.                                         *)
(***************************************************************************)

ImportNext ==
    /\ hpc = "apply"
    /\ \E b \in Blocks :
        /\ queue # <<>>
        /\ b = Head(queue)
        /\ AlreadyKnown(b) \/ ImportFork(b) \/ BeginImport(b)
    /\ queue' = Tail(queue)
    /\ UNCHANGED <<remote, hpc, httpCrashes>>

\* The diff of the block does not decode.
DecodeFails ==
    /\ hpc = "apply"
    /\ RpcMayFail
    /\ pc = "idle"
    /\ queue # <<>>
    /\ queue' = Tail(queue)
    /\ hpc' = "tick"
    /\ UNCHANGED <<vars, remote, httpCrashes>>

ImportCommits ==
    /\ hpc = "apply"
    /\ CommitToDb
    /\ UNCHANGED httpVars

ImportContinues ==
    /\ hpc = "apply"
    /\ (\E k \in Keys : WriteThrough(k)) \/ FinishCommit \/ Publish
    /\ UNCHANGED httpVars

\* update_block returns an error; update returns it with the rest of the queue
\* in place.
ImportOrphan ==
    /\ hpc = "apply"
    /\ \E b \in Blocks : queue # <<>> /\ b = Head(queue) /\ ParentNotFound(b)
    /\ queue' = Tail(queue)
    /\ hpc' = "tick"
    /\ UNCHANGED <<remote, httpCrashes>>

ImportFails ==
    /\ hpc = "apply"
    /\ DbMayFail
    /\ CommitFails
    /\ hpc' = "tick"
    /\ UNCHANGED <<remote, queue, httpCrashes>>

ImportPanics ==
    /\ hpc = "apply"
    /\ CommitPanics
    /\ hpc' = "dead"
    /\ UNCHANGED <<remote, queue, httpCrashes>>

QueueDone ==
    /\ hpc = "apply"
    /\ pc = "idle"
    /\ queue = <<>>
    /\ hpc' = "tick"
    /\ UNCHANGED <<vars, remote, queue, httpCrashes>>

----------------------------------------------------------------------------

HttpStep ==
    \/ AskHeight
    \/ ResumeQueue
    \/ WalkTooLong
    \/ WalkEnds
    \/ ImportContinues
    \/ ImportOrphan
    \/ ImportPanics
    \/ QueueDone

HttpNext ==
    \/ RemoteMoves
    \/ HttpCrash
    \/ HttpStep
    \/ FetchNext
    \/ WalkBack
    \/ RequestFails
    \/ ImportNext
    \/ DecodeFails
    \/ ImportCommits
    \/ ImportFails

\* The updater's task is scheduled, and a request or a database batch that is
\* tried again and again succeeds in the end.
HttpFairness ==
    /\ WF_nodeVars(HttpStep)
    /\ SF_nodeVars(FetchNext)
    /\ SF_nodeVars(WalkBack)
    /\ SF_nodeVars(ImportNext)
    /\ SF_nodeVars(ImportCommits)

HttpSpec == HttpInit /\ [][HttpNext]_nodeVars /\ HttpFairness

----------------------------------------------------------------------------

\* Every variable of the updater keeps its type.
HttpTypeOK ==
    /\ remote \in Blocks
    /\ hpc \in {"tick", "fetch", "walk", "apply", "dead"}
    /\ queue \in Seq(Blocks)
    /\ httpCrashes \in 0..MaxHttpCrashes

\* Whatever branch the remote was on at each request, and whatever failed in
\* between, the updater only hands update_block a block whose parent the tree
\* can read, although the imports of the blocks before it may have committed
\* that parent and cleared it from the index (the walk of update).
ImportsAttach ==
    hpc = "apply" /\ pc = "idle" /\ queue # <<>> =>
        InTree(Head(queue)) \/ InTree(Parent[Head(queue)])

\* The queue is a chain whose last block is its newest, of at most one block
\* more than the limit, also when it was left over from an update that failed
\* halfway and is walked back again (update, max_diff_depth).
QueueLinked ==
    /\ HttpTypeOK
    /\ Len(queue) <= DepthLimit + 1
    /\ \A i \in 2..Len(queue) : Parent[queue[i]] = queue[i-1]

\* The remote's branch replaces no committed block and fewer blocks than the
\* limit.
ShallowRemote ==
    /\ diskHead \in Anc[remote]
    /\ Cardinality(Anc[LatestBlock] \ Anc[remote]) < DepthLimit

\* Once the remote stops moving and the crashes stop, the tree reaches its
\* height, if every reorganisation was shallower than the limit: whatever
\* failed, the queue left behind is walked back or imported (update, start).
HttpFollows ==
    []ShallowRemote => <>[](Number[LatestBlock] >= Number[remote])

\* docs/StateUpdater.md gives --diff-depth-limit as the deepest reorganisation
\* handled: the tree reaches the remote's height also when as many blocks as
\* the limit are replaced (update, start).
HttpCatchesUp == <>[](Number[LatestBlock] >= Number[remote])
=============================================================================
