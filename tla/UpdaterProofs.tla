--------------------------- MODULE UpdaterProofs ---------------------------
(***************************************************************************)
(* Theorems about the two updaters, for every block tree, remote, topic,   *)
(* failure and crash: each drives the state tree by its own steps, so that *)
(* what is proved of the tree holds in the node; and the HTTP updater's    *)
(* queue is always a chain it can import.                                  *)
(***************************************************************************)
EXTENDS HttpUpdater, KafkaUpdater, StateTreeProofs

----------------------------------------------------------------------------
(***************************************************************************)
(* The tree is used as StateTree describes.                                *)
(***************************************************************************)

\* What update does to the tree is update_block or nothing.
LEMMA HttpStepIsTreeStep == [HttpNext]_nodeVars => [Next]_vars
<1> SUFFICES ASSUME [HttpNext]_nodeVars PROVE [Next]_vars
  OBVIOUS
<1>1. CASE HttpCrash \/ ImportNext \/ ImportCommits \/ ImportContinues \/ ImportOrphan
           \/ ImportFails \/ ImportPanics
  BY Zenon, <1>1 DEF HttpCrash, ImportNext, ImportCommits, ImportContinues, ImportOrphan, ImportFails,
              ImportPanics, Next, UpdateBlock
<1>2. CASE RemoteMoves \/ AskHeight \/ ResumeQueue \/ FetchNext \/ WalkTooLong
           \/ WalkEnds \/ WalkBack \/ RequestFails \/ DecodeFails \/ QueueDone
  BY Zenon, <1>2 DEF RemoteMoves, AskHeight, ResumeQueue, FetchNext, WalkTooLong, WalkEnds,
              WalkBack, RequestFails, DecodeFails, QueueDone
<1>3. CASE UNCHANGED nodeVars
  BY <1>3 DEF nodeVars
<1> QED
  BY SMTT(30), <1>1, <1>2, <1>3 DEF HttpNext, HttpStep

\* A node fed over HTTP, whatever branches the remote is on and whatever requests
\* fail, uses the tree as StateTree describes (start, update).
THEOREM HttpDrivesTree == HttpSpec => Spec
<1>1. HttpInit => Init
  BY DEF HttpInit
<1> QED
  BY <1>1, HttpStepIsTreeStep, PTL DEF HttpSpec, Spec

\* The database of such a node only ever moves from a block to its child, and holds
\* that block's state.
THEOREM HttpDatabaseIsDurableChain == HttpSpec => DurableChainSpec
BY HttpDrivesTree, DatabaseIsDurableChain, PTL

----------------------------------------------------------------------------
(***************************************************************************)
(* The queue.                                                              *)
(***************************************************************************)

\* Between two updates the tree is at rest; during one, the next block of the queue
\* is a child of the block being imported.
UpdateOK ==
    /\ hpc \in {"tick", "fetch", "walk"} => pc = "idle"
    /\ hpc = "walk" => queue # <<>>
    /\ \A i \in 2..Len(queue) : queue[i] # Genesis
    /\ hpc = "apply" /\ pc # "idle" /\ queue # <<>> =>
          Head(queue) # Genesis /\ Parent[Head(queue)] = target

HttpInv == QueueLinked /\ UpdateOK /\ ImportsAttach

\* Taking the front off a linked queue, and what the new front's parent is.
LEMMA TailLinked ==
    ASSUME QueueLinked, UpdateOK, queue # <<>>, queue' = Tail(queue)
    PROVE  /\ queue' \in Seq(Blocks) /\ Len(queue') <= DepthLimit + 1
           /\ \A i \in 2..Len(queue') : Parent[queue'[i]] = queue'[i-1] /\ queue'[i] # Genesis
           /\ queue' # <<>> => Head(queue') # Genesis /\ Parent[Head(queue')] = Head(queue)
<1>1. queue \in Seq(Blocks) /\ Len(queue) \in Nat \ {0} /\ DepthLimit \in Nat
  BY TreeAssumption DEF QueueLinked, HttpTypeOK
<1>2. /\ queue' \in Seq(Blocks) /\ Len(queue') = Len(queue) - 1
      /\ \A i \in 1..Len(queue') : queue'[i] = queue[i + 1]
  BY <1>1
<1>3. \A i \in 1..Len(queue') : /\ i + 1 \in 2..Len(queue)
                                /\ Parent[queue[i + 1]] = queue[i] /\ queue[i + 1] # Genesis
  BY SMTT(30), <1>1, <1>2 DEF QueueLinked, UpdateOK
<1>4. \A i \in 2..Len(queue') : Parent[queue'[i]] = queue'[i-1] /\ queue'[i] # Genesis
  <2> SUFFICES ASSUME NEW i \in 2..Len(queue')
               PROVE  Parent[queue'[i]] = queue'[i-1] /\ queue'[i] # Genesis
    BY Zenon
  <2>1. i \in 1..Len(queue') /\ i - 1 \in 1..Len(queue') /\ (i - 1) + 1 = i
    BY SMTT(30), <1>1, <1>2
  <2>2. queue'[i] = queue[i + 1]
    BY ZenonT(30), <1>2, <2>1
  <2>3. queue'[i - 1] = queue[i]
    BY SMTT(30), <1>2, <2>1
  <2>4. Parent[queue[i + 1]] = queue[i] /\ queue[i + 1] # Genesis
    BY ZenonT(30), <1>3, <2>1
  <2> QED
    BY Zenon, <2>2, <2>3, <2>4
<1>5. queue' # <<>> => Head(queue') # Genesis /\ Parent[Head(queue')] = Head(queue)
  <2> SUFFICES ASSUME queue' # <<>>
               PROVE  Head(queue') # Genesis /\ Parent[Head(queue')] = Head(queue)
    OBVIOUS
  <2>1. 1 \in 1..Len(queue') /\ Head(queue') = queue'[1] /\ Head(queue) = queue[1]
    BY SMTT(30), <1>1, <1>2
  <2> QED
    BY SMTT(30), <1>2, <1>3, <2>1
<1> QED
  BY SMTT(30), <1>1, <1>2, <1>4, <1>5 DEF QueueLinked

\* Putting the parent in front of a linked queue.
LEMMA FrontLinked ==
    ASSUME QueueLinked, UpdateOK, queue # <<>>, Head(queue) # Genesis, ~QueueTooLong,
           queue' = <<Parent[Head(queue)]>> \o queue
    PROVE  /\ queue' \in Seq(Blocks) /\ queue' # <<>> /\ Len(queue') <= DepthLimit + 1
           /\ \A i \in 2..Len(queue') : Parent[queue'[i]] = queue'[i-1] /\ queue'[i] # Genesis
<1>1. queue \in Seq(Blocks) /\ Len(queue) \in Nat \ {0} /\ Len(queue) <= DepthLimit
      /\ DepthLimit \in Nat
  BY SMTT(30), TreeAssumption DEF QueueLinked, HttpTypeOK, QueueTooLong
<1>2. Head(queue) = queue[1] /\ Head(queue) \in Blocks /\ Parent[Head(queue)] \in Blocks
  BY SMTT(30), <1>1, BlocksAssumption
<1>3. /\ queue' \in Seq(Blocks) /\ Len(queue') = Len(queue) + 1
      /\ queue'[1] = Parent[queue[1]]
      /\ \A i \in 2..Len(queue') : queue'[i] = queue[i - 1]
  BY SMTT(30), <1>1, <1>2
<1>4. ASSUME NEW i \in 2..Len(queue')
      PROVE  Parent[queue'[i]] = queue'[i-1] /\ queue'[i] # Genesis
  <2>1. CASE i = 2
    BY SMTT(30), <1>2, <1>3, <2>1
  <2>2. CASE i # 2
    <3>1. i - 1 \in 2..Len(queue') /\ i - 1 \in 2..Len(queue)
      BY SMTT(30), <1>1, <1>3, <2>2
    <3> QED
      BY SMTT(30), <1>3, <3>1 DEF QueueLinked, UpdateOK
  <2> QED
    BY ZenonT(30), <2>1, <2>2
<1> QED
  BY SMTT(30), <1>1, <1>3, <1>4

\* A block is a layer of its own chain, so that importing it indexes it.
LEMMA WalkHasBlock ==
    \A b \in Blocks : b \in Walk(b)
BY Zenon, AncSelf, ChainAssumption DEF Walk

\* The invariant holds at the start.
LEMMA HttpInvInit == HttpInit => HttpInv
<1> SUFFICES ASSUME HttpInit PROVE HttpInv
  OBVIOUS
<1>1. queue = <<>> /\ Len(queue) = 0 /\ hpc = "tick" /\ pc = "idle"
  BY Zenon DEF HttpInit, Init
<1> QED
  BY SMTT(30), <1>1, BlocksAssumption, HttpAssumption, TreeAssumption
  DEF HttpInit, HttpInv, QueueLinked, HttpTypeOK, UpdateOK, ImportsAttach

\* A step that leaves the queue and the tree alone and does not start to import.
LEMMA HttpFrame ==
    ASSUME HttpInv, UNCHANGED <<vars, queue>>, HttpTypeOK',
           hpc' \in {"tick", "fetch", "walk"} =>
              hpc \in {"tick", "fetch", "walk"} \/ pc = "idle",
           hpc' = "walk" => queue # <<>>,
           hpc' = "apply" => hpc = "apply"
                             \/ (pc = "idle" /\ InTree(Parent[Head(queue)]))
    PROVE  HttpInv'
<1>1. UNCHANGED <<pc, target, diskHead, views>>
  BY DEF vars, dbVars, indexVars, updaterVars
<1>2. QueueLinked'
  BY DEF HttpInv, QueueLinked
<1>3. UpdateOK'
  BY Zenon, <1>1 DEF HttpInv, UpdateOK
<1>4. ImportsAttach'
  BY Zenon, <1>1 DEF HttpInv, ImportsAttach, InTree, Indexed
<1> QED
  BY SMTT(30), <1>2, <1>3, <1>4 DEF HttpInv

\* Requests and decisions that only move the updater.
LEMMA MovesInv ==
    ASSUME HttpInv, \/ RemoteMoves \/ AskHeight \/ ResumeQueue \/ WalkTooLong
                    \/ WalkEnds \/ RequestFails \/ QueueDone
    PROVE  HttpInv'
<1>1. UNCHANGED <<vars, queue, httpCrashes>>
  BY Zenon DEF RemoteMoves, AskHeight, ResumeQueue, WalkTooLong, WalkEnds, RequestFails, QueueDone
<1>2. HttpTypeOK
  BY SMTT(30) DEF HttpInv, QueueLinked
<1>3. CASE RemoteMoves
  <2>1. hpc' = hpc /\ (hpc = "walk" => queue # <<>>)
    BY SMTT(30), <1>3 DEF RemoteMoves, HttpInv, UpdateOK
  <2>2. HttpTypeOK'
    BY SMTT(30), <1>1, <1>2, <1>3, <2>1 DEF RemoteMoves, HttpTypeOK
  <2> QED
    BY SMTT(30), <1>1, <2>1, <2>2 DEF vars, dbVars, indexVars, updaterVars, HttpInv, QueueLinked,
                            UpdateOK, ImportsAttach, InTree, Indexed
<1>4. CASE AskHeight \/ ResumeQueue
  BY Zenon, <1>1, <1>2, <1>4, HttpFrame DEF AskHeight, ResumeQueue, HttpTypeOK
<1>5. CASE WalkTooLong \/ RequestFails \/ QueueDone
  BY ZenonT(30), <1>1, <1>2, <1>5, HttpFrame DEF WalkTooLong, RequestFails, QueueDone, HttpTypeOK
<1>6. CASE WalkEnds
  <2>1. pc = "idle" /\ InTree(Parent[Head(queue)])
    BY SMTT(30), <1>6 DEF WalkEnds, Attached, HttpInv, UpdateOK
  <2> QED
    BY Zenon, <1>1, <1>2, <1>6, <2>1, HttpFrame DEF WalkEnds, HttpTypeOK
<1> QED
  BY SMTT(30), <1>3, <1>4, <1>5, <1>6

\* A new update starts with the block fetched as the whole queue.
LEMMA FetchNextInv == HttpInv /\ FetchNext => HttpInv'
<1> SUFFICES ASSUME HttpInv, FetchNext PROVE HttpInv'
  OBVIOUS
<1>1. PICK b \in Anc[remote] : queue' = <<b>>
  BY DEF FetchNext
<1>2. /\ hpc = "fetch" /\ hpc' = "walk" /\ UNCHANGED <<vars, remote, httpCrashes>>
      /\ pc = "idle" /\ UNCHANGED pc
  BY Zenon DEF FetchNext, HttpInv, UpdateOK, vars, updaterVars
<1>3. HttpTypeOK /\ b \in Blocks
  BY SMTT(30), AncSelf DEF HttpInv, QueueLinked, HttpTypeOK
<1>4. queue' \in Seq(Blocks) /\ Len(queue') = 1 /\ queue' # <<>> /\ DepthLimit \in Nat
  BY SMTT(30), <1>1, <1>3, TreeAssumption
<1>5. QueueLinked'
  BY SMTT(30), <1>2, <1>3, <1>4 DEF QueueLinked, HttpTypeOK
<1>6. UpdateOK' /\ ImportsAttach'
  BY SMTT(30), <1>2, <1>4 DEF UpdateOK, ImportsAttach
<1> QED
  BY SMTT(30), <1>5, <1>6 DEF HttpInv

\* Walking back to the parent of the front of the queue.
LEMMA WalkBackInv == HttpInv /\ WalkBack => HttpInv'
<1> SUFFICES ASSUME HttpInv, WalkBack PROVE HttpInv'
  OBVIOUS
<1>1. /\ hpc = "walk" /\ hpc' = "walk" /\ UNCHANGED <<vars, remote, httpCrashes>>
      /\ pc = "idle" /\ UNCHANGED pc /\ queue # <<>>
  BY Zenon DEF WalkBack, HttpInv, UpdateOK, vars, updaterVars
<1>2. /\ queue' \in Seq(Blocks) /\ queue' # <<>> /\ Len(queue') <= DepthLimit + 1
      /\ \A i \in 2..Len(queue') : Parent[queue'[i]] = queue'[i-1] /\ queue'[i] # Genesis
  BY ZenonT(30), <1>1, FrontLinked DEF WalkBack, HttpInv
<1>3. QueueLinked'
  BY SMTT(30), <1>1, <1>2 DEF HttpInv, QueueLinked, HttpTypeOK
<1>4. UpdateOK' /\ ImportsAttach'
  BY SMTT(30), <1>1, <1>2 DEF UpdateOK, ImportsAttach
<1> QED
  BY SMTT(30), <1>3, <1>4 DEF HttpInv

\* A block leaves the queue: if its import goes on or has succeeded, the next one
\* attaches to it.
LEMMA ImportNextInv == HttpInv /\ TypeOK /\ ImportNext => HttpInv'
<1> SUFFICES ASSUME HttpInv, TypeOK, ImportNext PROVE HttpInv'
  OBVIOUS
<1>1. PICK b \in Blocks : /\ queue # <<>> /\ b = Head(queue)
                          /\ AlreadyKnown(b) \/ ImportFork(b) \/ BeginImport(b)
  BY DEF ImportNext
<1>2. hpc = "apply" /\ hpc' = "apply" /\ queue' = Tail(queue) /\ UNCHANGED <<remote, httpCrashes>>
  BY DEF ImportNext
<1>3. /\ queue' \in Seq(Blocks) /\ Len(queue') <= DepthLimit + 1
      /\ \A i \in 2..Len(queue') : Parent[queue'[i]] = queue'[i-1] /\ queue'[i] # Genesis
      /\ queue' # <<>> => Head(queue') # Genesis /\ Parent[Head(queue')] = b
  BY ZenonT(30), <1>1, <1>2, TailLinked DEF HttpInv
<1>4. QueueLinked'
  BY Zenon, <1>2, <1>3 DEF HttpInv, QueueLinked, HttpTypeOK
<1>5. \/ pc' = "idle" /\ InTree(b)'
      \/ pc' = "cap" /\ target' = b
  <2>1. CASE AlreadyKnown(b)
    BY SMTT(30), <2>1 DEF AlreadyKnown, InTree, Indexed, vars, indexVars, updaterVars
  <2>2. CASE ImportFork(b)
    <3>1. b \in Walk(b) /\ pc' = "idle"
      BY Zenon, <1>1, <2>2, WalkHasBlock DEF ImportFork, Importable, updaterVars
    <3>2. views'[b] = Walk(b)
      BY ZenonT(30), <1>1, <2>2 DEF ImportFork, TypeOK
    <3> QED
      BY SMTT(30), <3>1, <3>2 DEF InTree, Indexed
  <2>3. CASE BeginImport(b)
    BY SMTT(30), <2>3 DEF BeginImport
  <2> QED
    BY SMTT(30), <1>1, <2>1, <2>2, <2>3
<1>6. UpdateOK' /\ ImportsAttach'
  BY ZenonT(30), <1>2, <1>3, <1>5 DEF UpdateOK, ImportsAttach
<1> QED
  BY SMTT(30), <1>4, <1>6 DEF HttpInv

\* A block that cannot be decoded or attached is dropped.
LEMMA DropsInv == HttpInv /\ (DecodeFails \/ ImportOrphan) => HttpInv'
<1> SUFFICES ASSUME HttpInv, DecodeFails \/ ImportOrphan PROVE HttpInv'
  OBVIOUS
<1>1. /\ queue # <<>> /\ queue' = Tail(queue) /\ hpc' = "tick" /\ UNCHANGED <<remote, httpCrashes>>
      /\ pc' = "idle"
  BY Zenon DEF DecodeFails, ImportOrphan, ParentNotFound, vars, updaterVars
<1>2. /\ queue' \in Seq(Blocks) /\ Len(queue') <= DepthLimit + 1
      /\ \A i \in 2..Len(queue') : Parent[queue'[i]] = queue'[i-1] /\ queue'[i] # Genesis
  BY ZenonT(30), <1>1, TailLinked DEF HttpInv
<1>3. QueueLinked'
  BY Zenon, <1>1, <1>2 DEF HttpInv, QueueLinked, HttpTypeOK
<1>4. UpdateOK' /\ ImportsAttach'
  BY Zenon, <1>1, <1>2 DEF UpdateOK, ImportsAttach
<1> QED
  BY SMTT(30), <1>3, <1>4 DEF HttpInv

\* The steps of a commit, and its end in an error, in a panic or in the new index.
LEMMA CommitsInv ==
    ASSUME HttpInv, TypeOK, ImportCommits \/ ImportContinues \/ ImportFails \/ ImportPanics
    PROVE  HttpInv'
<1>1. UNCHANGED <<remote, queue, httpCrashes>>
  BY DEF ImportCommits, ImportContinues, ImportFails, ImportPanics, httpVars
<1>2. /\ hpc = "apply" /\ pc # "idle" /\ UNCHANGED target
      /\ \/ hpc' = "apply" /\ pc' # "idle"
         \/ hpc' = "apply" /\ pc' = "idle" /\ views'[target] = Walk(target)
         \/ hpc' = "tick" /\ pc' = "idle"
         \/ hpc' = "dead"
  <2>1. CASE ImportCommits
    BY ZenonT(30), <2>1 DEF ImportCommits, CommitToDb, httpVars
  <2>2. CASE ImportContinues
    <3>1. CASE Publish
      BY ZenonT(30), <2>2, <3>1 DEF ImportContinues, Publish, httpVars, TypeOK
    <3>2. CASE FinishCommit \/ \E k \in Keys : WriteThrough(k)
      BY Zenon, <2>2, <3>2 DEF ImportContinues, FinishCommit, WriteThrough, httpVars
    <3> QED
      BY ZenonT(30), <2>2, <3>1, <3>2 DEF ImportContinues
  <2>3. CASE ImportFails \/ ImportPanics
    BY Zenon, <2>3 DEF ImportFails, ImportPanics, CommitFails, CommitPanics
  <2> QED
    BY Zenon, <2>1, <2>2, <2>3
<1>3. QueueLinked'
  BY Zenon, <1>1, <1>2 DEF HttpInv, QueueLinked, HttpTypeOK
<1>4. UpdateOK'
  BY Zenon, <1>1, <1>2 DEF HttpInv, UpdateOK
<1>5. ImportsAttach'
  <2> SUFFICES ASSUME hpc' = "apply", pc' = "idle", queue' # <<>>
               PROVE  InTree(Parent[Head(queue)])'
    BY DEF ImportsAttach
  <2>1. Parent[Head(queue)] = target /\ target \in Blocks
    BY Zenon, <1>1, <1>2 DEF HttpInv, UpdateOK, TypeOK
  <2> QED
    BY SMTT(30), <1>1, <1>2, <2>1, WalkHasBlock DEF InTree, Indexed
<1> QED
  BY SMTT(30), <1>3, <1>4, <1>5 DEF HttpInv

\* A crash empties the queue.
LEMMA CrashInv == HttpInv /\ HttpCrash => HttpInv'
<1> SUFFICES ASSUME HttpInv, HttpCrash PROVE HttpInv'
  OBVIOUS
<1>1. /\ queue' = <<>> /\ Len(queue') = 0 /\ hpc' = "tick" /\ pc' = "idle"
      /\ UNCHANGED remote /\ httpCrashes' = httpCrashes + 1 /\ httpCrashes < MaxHttpCrashes
  BY Zenon DEF HttpCrash, Restart
<1>2. QueueLinked'
  BY SMTT(30), <1>1, TreeAssumption, HttpAssumption DEF HttpInv, QueueLinked, HttpTypeOK
<1>3. UpdateOK' /\ ImportsAttach'
  BY SMTT(30), <1>1 DEF UpdateOK, ImportsAttach
<1> QED
  BY <1>2, <1>3 DEF HttpInv

\* Every step of the HTTP updater keeps the invariant.
LEMMA HttpInvStep == HttpInv /\ TypeOK /\ [HttpNext]_nodeVars => HttpInv'
<1> SUFFICES ASSUME HttpInv, TypeOK, [HttpNext]_nodeVars PROVE HttpInv'
  OBVIOUS
<1>1. CASE UNCHANGED nodeVars
  BY Zenon, <1>1 DEF nodeVars, httpVars, vars, dbVars, indexVars, updaterVars, HttpInv,
              QueueLinked, HttpTypeOK, UpdateOK, ImportsAttach, InTree, Indexed
<1> QED
  BY SMTT(30), <1>1, MovesInv, FetchNextInv, WalkBackInv, ImportNextInv, DropsInv, CommitsInv,
     CrashInv DEF HttpNext, HttpStep

\* The updater's position, its queue and the tree fit together at every step
\* (update, start).
THEOREM HttpInvariant == HttpSpec => []HttpInv
<1>1. HttpSpec => []TypeOK
  BY HttpDrivesTree, TypeCorrect, PTL
<1> QED
  BY <1>1, HttpInvInit, HttpInvStep, PTL DEF HttpSpec

\* The queue is always a chain that ends in its newest block, of at most one block
\* more than the limit, whatever branch the remote was on at each request and
\* whatever failed (update).
THEOREM QueueStaysLinked == HttpSpec => []QueueLinked
<1>1. HttpInv => QueueLinked
  BY SMTT(30) DEF HttpInv
<1> QED
  BY <1>1, HttpInvariant, PTL

\* update_block is only ever handed a block whose parent the tree can read, or one
\* it has (the walk of update, the loop over block_queue).
THEOREM ImportsAlwaysAttach == HttpSpec => []ImportsAttach
<1>1. HttpInv => ImportsAttach
  BY DEF HttpInv
<1> QED
  BY <1>1, HttpInvariant, PTL

----------------------------------------------------------------------------
(***************************************************************************)
(* The Kafka updater.                                                      *)
(***************************************************************************)

\* Importing a block is update_block, whatever the tree answers.
LEMMA ApplyIsUpdateBlock ==
    ASSUME \/ ApplyNext \/ ApplyBegins \/ ApplyCommits \/ ApplyContinues
           \/ ApplyPublishes \/ ApplyOrphan \/ ApplyFails \/ ApplyPanics
    PROVE  Next
BY DEF ApplyNext, ApplyBegins, ApplyCommits, ApplyContinues, ApplyPublishes,
       ApplyOrphan, ApplyFails, ApplyPanics, Next, UpdateBlock

\* A restart of the process is a restart of the tree.
LEMMA RebootIsRestart ==
    ASSUME Crash \/ ExitOnExpired
    PROVE  Next
BY SMTT(30) DEF Crash, ExitOnExpired, Reboot, Next

\* Everything else the updater does leaves the tree alone.
LEMMA UpdaterLeavesTree ==
    ASSUME \/ Produce \/ Expire \/ InitOffset \/ Poll \/ PrepareUpdate
           \/ PrepareFails \/ PathDone \/ FinishBatch \/ Retry
           \/ OffsetWriteFails \/ CheckCaughtUp \/ ReadByNumber \/ ReadByHash
           \/ HandOff
    PROVE  UNCHANGED vars
BY DEF Produce, Expire, InitOffset, Poll, PrepareUpdate, PrepareFails, PathDone,
       FinishBatch, Retry, OffsetWriteFails, CheckCaughtUp, ReadByNumber,
       ReadByHash, HandOff

\* A node fed by Kafka, whatever its topic, its batches, its errors and its
\* crashes, uses the tree as StateTree describes (start, update_from_kafka,
\* update_from_s3).
THEOREM KafkaDrivesTree == KafkaSpec => Spec
<1>1. KafkaInit => Init
  BY DEF KafkaInit
<1>2. [KafkaNext]_allVars => [Next]_vars
  <2> SUFFICES ASSUME [KafkaNext]_allVars
               PROVE  [Next]_vars
    OBVIOUS
  <2>1. CASE KafkaNext
    BY SMTT(30), <2>1, ApplyIsUpdateBlock, RebootIsRestart, UpdaterLeavesTree
       DEF KafkaNext, UpdaterStep
  <2>2. CASE UNCHANGED allVars
    BY <2>2 DEF allVars
  <2> QED
    BY SMTT(30), <2>1, <2>2
<1> QED
  BY <1>1, <1>2, PTL DEF KafkaSpec, Spec

\* The database of such a node only ever moves from a block to its child, and
\* holds that block's state (commit_offset reads its head; the crashes and
\* retries of start never make it go back or skip a block).
THEOREM KafkaDatabaseIsDurableChain == KafkaSpec => DurableChainSpec
BY KafkaDrivesTree, DatabaseIsDurableChain, PTL
=============================================================================
