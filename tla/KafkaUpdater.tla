---------------------------- MODULE KafkaUpdater ----------------------------
(***************************************************************************)
(* The Kafka updater driving the state tree: it consumes a topic of block  *)
(* notifications in batches, imports the announced blocks, and persists    *)
(* the offset to resume from once their blocks have reached the database.  *)
(* A node whose offset has expired, or that reads bundles, first catches   *)
(* up from S3: by number over the stable segment, by hash near the tip.    *)
(*                                                                         *)
(* The tree is StateTree itself; its readers take no part here.  The       *)
(* database and the offset file survive a crash, everything else does not. *)
(***************************************************************************)
EXTENDS StateTree, SequencesExt

CONSTANTS
    Topic,          \* the notifications, by offset + 1: the new blocks of each
    SafeDepth,      \* catchup_safe_depth
    MaxReorg,       \* how far below a block the by-number index may still
                    \* answer with a sibling of its ancestor
    BundleModes,    \* whether bundle_bucket_name may be set, and may be unset
    BundledTo,      \* the highest block in compacted bundles
    MaxExpired,     \* bound: messages retention may remove
    MaxCrashes,     \* bound: crashes
    Faults          \* what may fail: "s3", "db", "offset", "watermark"

ASSUME TopicAssumption ==
    /\ Topic \in Seq(Seq(Blocks \ {Genesis}) \ {<<>>})
    /\ Topic # <<>>
    /\ {SafeDepth, MaxReorg, BundledTo, MaxExpired, MaxCrashes} \subseteq Nat
    /\ BundleModes \subseteq BOOLEAN

\* A notification extends the chain of blocks announced before it.
ASSUME AnnouncedInOrder ==
    \A m \in DOMAIN Topic : \A i \in DOMAIN Topic[m] :
        IF i > 1 THEN Parent[Topic[m][i]] = Topic[m][i-1]
        ELSE \/ Parent[Topic[m][1]] = Genesis
             \/ \E l \in 1..(m-1) : Parent[Topic[m][1]] \in Range(Topic[l])

VARIABLES
    published,      \* the topic's high watermark
    lowest,         \* and its low watermark
    bundleBucket,   \* bundle_bucket_name is set
    offsetFile,     \* the persisted offset
    upc,            \* where the updater is
    first,          \* the batch in hand is the messages first..position-1
    position,       \* of the consumer
    path,           \* blocks of the batch or of the catch-up still to import
    ctx,            \* hash_to_blockctx: the offset that announced a block
    fromKafka,      \* read_from_kafka
    fromBundle,     \* read_from_bundle
    caughtUp,       \* what the caught_up channel holds
    crashes

topicVars == <<published, lowest, bundleBucket>>
loopVars == <<upc, first, position, path, ctx, fromKafka, fromBundle, caughtUp>>
kafkaVars == <<topicVars, offsetFile, loopVars, crashes>>
allVars == <<vars, kafkaVars>>

NoOffset == -1

----------------------------------------------------------------------------
(***************************************************************************)
(* The topic and the process around the updater.                           *)
(***************************************************************************)

\* The head the last notification announced.
AnnouncedHead == Last(Topic[published])

Announced == UNION {Range(Topic[m]) : m \in 1..published}

\* The offsets in hand that announce block b.
InHand(b) == {o \in first..(position - 1) : b \in Range(Topic[o + 1])}

KafkaInit ==
    /\ Init
    /\ published \in 1..Len(Topic)
    /\ lowest = 0
    /\ offsetFile = NoOffset
    /\ upc = "init"
    /\ first = 0
    /\ position = 0
    /\ path = <<>>
    /\ ctx = [b \in Blocks |-> NoOffset]
    /\ fromKafka = TRUE
    /\ bundleBucket \in BundleModes
    /\ fromBundle = bundleBucket
    /\ caughtUp = FALSE
    /\ crashes = 0

Produce ==
    /\ published < Len(Topic)
    /\ published' = published + 1
    /\ UNCHANGED <<vars, lowest, bundleBucket, offsetFile, loopVars, crashes>>

\* Retention removes the oldest message; the last one stays.
Expire ==
    /\ lowest < MaxExpired
    /\ lowest < published - 1
    /\ lowest' = lowest + 1
    /\ UNCHANGED <<vars, published, bundleBucket, offsetFile, loopVars, crashes>>

\* The process comes up again on its database and its offset file.
Reboot ==
    /\ Restart
    /\ upc' = "init"
    /\ first' = 0
    /\ position' = 0
    /\ path' = <<>>
    /\ ctx' = [b \in Blocks |-> NoOffset]
    /\ fromKafka' = TRUE
    /\ fromBundle' = bundleBucket
    /\ caughtUp' = FALSE
    /\ UNCHANGED <<topicVars, offsetFile>>

\* A crash, a fatal consumer error or an operator's restart.
Crash ==
    /\ crashes < MaxCrashes
    /\ crashes' = crashes + 1
    /\ Reboot

\* ResetOffset: the position has expired, and the process exits to be
\* restarted.
ExitOnExpired ==
    /\ upc = "poll"
    /\ position < lowest
    /\ UNCHANGED crashes
    /\ Reboot

----------------------------------------------------------------------------
(***************************************************************************)
(* The loop of start.                                                      *)
(***************************************************************************)

\* Mutant of InitOffset: a missing offset is not told from a valid one.
InitOffsetUnchecked ==
    /\ upc = "init"
    /\ fromKafka' = ~bundleBucket
    /\ position' = IF fromKafka' THEN offsetFile ELSE published - 1
    /\ first' = position'
    /\ upc' = "poll"
    /\ UNCHANGED <<vars, topicVars, offsetFile, path, ctx, fromBundle, caughtUp,
                   crashes>>

\* Mutant of InitOffset: an expired offset is resumed from.
InitOffsetExpired ==
    /\ upc = "init"
    /\ fromKafka' = (offsetFile # NoOffset /\ ~bundleBucket)
    /\ position' = IF fromKafka' THEN offsetFile ELSE published - 1
    /\ first' = position'
    /\ upc' = "poll"
    /\ UNCHANGED <<vars, topicVars, offsetFile, path, ctx, fromBundle, caughtUp,
                   crashes>>

\* init_offset: resume from the file, or go to the latest message and catch up
\* from S3.
InitOffset ==
    /\ upc = "init"
    /\ fromKafka' = (offsetFile >= lowest /\ ~bundleBucket)
    /\ position' = IF fromKafka' THEN offsetFile ELSE published - 1
    /\ first' = position'
    /\ upc' = "poll"
    /\ UNCHANGED <<vars, topicVars, offsetFile, path, ctx, fromBundle, caughtUp,
                   crashes>>

\* ready_chunks hands over the messages that have arrived, at most
\* max_diff_depth of them.
Poll ==
    /\ upc = "poll"
    /\ position >= lowest
    /\ \E n \in 1..DepthLimit :
        /\ position + n <= published
        /\ position' = position + n
    /\ first' = position
    /\ upc' = IF fromKafka THEN "prepare" ELSE "s3"
    /\ UNCHANGED <<vars, topicVars, offsetFile, path, ctx, fromKafka,
                   fromBundle, caughtUp, crashes>>

\* Mutant of PrepareUpdate: only the first message of the batch is applied.
PrepareFirst ==
    /\ upc = "prepare"
    /\ ctx' = [b \in Blocks |-> IF InHand(b) # {} THEN Max(InHand(b)) ELSE ctx[b]]
    /\ path' = Topic[first + 1]
    /\ upc' = "apply"
    /\ UNCHANGED <<vars, topicVars, offsetFile, first, position, fromKafka,
                   fromBundle, caughtUp, crashes>>

\* prepare_update reads every announced block and registers it with its
\* offset, over an earlier registration.
PrepareUpdate ==
    /\ upc = "prepare"
    /\ ctx' = [b \in Blocks |-> IF InHand(b) # {} THEN Max(InHand(b)) ELSE ctx[b]]
    /\ path' = FlattenSeq(SubSeq(Topic, first + 1, position))
    /\ upc' = "apply"
    /\ UNCHANGED <<vars, topicVars, offsetFile, first, position, fromKafka,
                   fromBundle, caughtUp, crashes>>

PrepareFails ==
    /\ upc = "prepare"
    /\ "s3" \in Faults
    /\ upc' = "failed"
    /\ UNCHANGED <<vars, topicVars, offsetFile, first, position, path, ctx,
                   fromKafka, fromBundle, caughtUp, crashes>>

\* The block whose turn it is.
NextInPath(b) ==
    /\ path # <<>>
    /\ b = Head(path)

\* It has been imported, or was known already.
Applied ==
    /\ upc = "apply"
    /\ path' = Tail(path)
    /\ UNCHANGED <<topicVars, offsetFile, upc, first, position, ctx, fromKafka,
                   fromBundle, caughtUp, crashes>>

ApplyNext ==
    /\ \E b \in Blocks : NextInPath(b) /\ (AlreadyKnown(b) \/ ImportFork(b))
    /\ Applied

ApplyBegins ==
    /\ upc = "apply"
    /\ \E b \in Blocks : NextInPath(b) /\ BeginImport(b)
    /\ UNCHANGED kafkaVars

ApplyCommits ==
    /\ upc = "apply"
    /\ CommitToDb
    /\ UNCHANGED kafkaVars

ApplyContinues ==
    /\ upc = "apply"
    /\ (\E k \in Keys : WriteThrough(k)) \/ FinishCommit
    /\ UNCHANGED kafkaVars

ApplyPublishes ==
    /\ Publish
    /\ Applied

\* update_block returns an error: the rest of the path is given up.  The
\* catch-up starts over, the batch goes through the error path of start.
GiveUp ==
    /\ upc = "apply"
    /\ path' = <<>>
    /\ upc' = IF fromKafka THEN "failed" ELSE "s3"
    /\ UNCHANGED <<topicVars, offsetFile, first, position, ctx, fromKafka,
                   fromBundle, caughtUp, crashes>>

ApplyOrphan ==
    /\ \E b \in Blocks : NextInPath(b) /\ ParentNotFound(b)
    /\ GiveUp

ApplyFails ==
    /\ "db" \in Faults
    /\ CommitFails
    /\ GiveUp

\* The assertion of commit ends the updater's task; the process goes on
\* serving without it.
ApplyPanics ==
    /\ upc = "apply"
    /\ CommitPanics
    /\ upc' = "dead"
    /\ UNCHANGED <<topicVars, offsetFile, first, position, path, ctx, fromKafka,
                   fromBundle, caughtUp, crashes>>

PathDone ==
    /\ upc = "apply"
    /\ pc = "idle"
    /\ path = <<>>
    /\ upc' = IF fromKafka THEN "offset" ELSE "s3"
    /\ UNCHANGED <<vars, topicVars, offsetFile, first, position, path, ctx,
                   fromKafka, fromBundle, caughtUp, crashes>>

----------------------------------------------------------------------------
(***************************************************************************)
(* The offset.                                                             *)
(***************************************************************************)

\* clear: the contexts left once the database's head and what is below it have
\* been dropped.
Cleared ==
    [b \in Blocks |-> IF b = diskHead \/ Number[b] < Number[diskHead]
                      THEN NoOffset ELSE ctx[b]]

\* Mutant of CommitOffset: the offset follows the tree, not the database.
CommitOffsetEarly ==
    /\ ctx' = Cleared
    /\ offsetFile' = position

\* commit_offset: the offset after the message that announced the database's
\* head is written, if that message is still known.
CommitOffset ==
    /\ ctx' = Cleared
    /\ offsetFile' = IF ctx[diskHead] # NoOffset THEN ctx[diskHead] + 1
                     ELSE offsetFile

FinishBatch ==
    /\ upc = "offset"
    /\ CommitOffset
    /\ upc' = "check"
    /\ UNCHANGED <<vars, topicVars, first, position, path, fromKafka, fromBundle,
                   caughtUp, crashes>>

\* After an error, commit_offset, a second's sleep and the same batch again.
Retry ==
    /\ upc = "failed"
    /\ CommitOffset
    /\ upc' = "prepare"
    /\ UNCHANGED <<vars, topicVars, first, position, path, fromKafka, fromBundle,
                   caughtUp, crashes>>

\* write_offset fails, after clear has forgotten the message: an error at the
\* end of the batch, a panic on the error path.
OffsetWriteFails ==
    /\ upc \in {"offset", "failed"}
    /\ "offset" \in Faults
    /\ ctx[diskHead] # NoOffset
    /\ ctx' = Cleared
    /\ upc' = IF upc = "offset" THEN "failed" ELSE "dead"
    /\ UNCHANGED <<vars, topicVars, offsetFile, first, position, path, fromKafka,
                   fromBundle, caughtUp, crashes>>

\* is_caught_up, asked after a batch until it has said yes once: the newest
\* block is young, or the batch ends at the high watermark.
CheckCaughtUp ==
    /\ upc = "check"
    /\ \/ \E young \in BOOLEAN :
            caughtUp' = (caughtUp \/ young \/ position >= published)
       \/ "watermark" \in Faults /\ UNCHANGED caughtUp
    /\ upc' = "poll"
    /\ UNCHANGED <<vars, topicVars, offsetFile, first, position, path, ctx,
                   fromKafka, fromBundle, crashes>>

----------------------------------------------------------------------------
(***************************************************************************)
(* update_from_s3.  A read that fails starts it over, which changes        *)
(* nothing.                                                                *)
(***************************************************************************)

\* The block to catch up to is the parent of this one.
SyncTarget == Topic[first + 1][1]

Tip == Number[SyncTarget] - 1

\* Mutant of ByNumberTarget: everything is read by number.
ByNumberTip == Tip

\* by_number_target: SafeDepth below the tip, within what is missing.
ByNumberTarget == Min({Tip, Max({Tip - SafeDepth, Number[LatestBlock]})})

\* The blocks a read by number may return: bundles hold final blocks only, the
\* index of the source bucket may name any sibling near the tip.
NumberIndex(n) ==
    LET canonical == {x \in Anc[SyncTarget] : Number[x] = n}
    IN  IF n <= Tip - MaxReorg \/ (fromBundle /\ n <= BundledTo)
        THEN canonical
        ELSE canonical \cup {x \in Announced : Number[x] = n}

\* The stable segment, by number: from bundles up to the first one missing.
ReadByNumber ==
    /\ upc = "s3"
    /\ Number[LatestBlock] < ByNumberTarget
    /\ \E b \in NumberIndex(Number[LatestBlock] + 1) : path' = <<b>>
    /\ fromBundle' = (fromBundle /\ Number[LatestBlock] + 1 <= BundledTo)
    /\ upc' = "apply"
    /\ UNCHANGED <<vars, topicVars, offsetFile, first, position, ctx, fromKafka,
                   caughtUp, crashes>>

\* The rest, along the parent hashes of the target.
Backfill == {x \in Anc[SyncTarget] : ByNumberTarget < Number[x] /\ Number[x] <= Tip}

LowerNumber(x, y) == Number[x] < Number[y]

\* The oldest block of the backfill must extend the block that the tree has by
\* that number; otherwise the catch-up starts over.
ReadByHash ==
    /\ upc = "s3"
    /\ Number[LatestBlock] >= ByNumberTarget
    /\ Backfill # {}
    /\ byNumber[ByNumberTarget] = Parent[Lowest(Backfill)]
    /\ path' = SetToSortSeq(Backfill, LowerNumber)
    /\ upc' = "apply"
    /\ UNCHANGED <<vars, topicVars, offsetFile, first, position, ctx, fromKafka,
                   fromBundle, caughtUp, crashes>>

\* The tree has reached the tip: the batch itself is next.
HandOff ==
    /\ upc = "s3"
    /\ Number[LatestBlock] >= ByNumberTarget
    /\ Backfill = {}
    /\ fromKafka' = TRUE
    /\ upc' = "prepare"
    /\ UNCHANGED <<vars, topicVars, offsetFile, first, position, path, ctx,
                   fromBundle, caughtUp, crashes>>

----------------------------------------------------------------------------

UpdaterStep ==
    \/ ExitOnExpired
    \/ InitOffset
    \/ Poll
    \/ ApplyNext
    \/ ApplyBegins
    \/ ApplyContinues
    \/ ApplyPublishes
    \/ ApplyOrphan
    \/ ApplyPanics
    \/ PathDone
    \/ Retry
    \/ CheckCaughtUp
    \/ ReadByNumber
    \/ ReadByHash
    \/ HandOff

KafkaNext ==
    \/ Produce
    \/ Expire
    \/ Crash
    \/ UpdaterStep
    \/ PrepareUpdate
    \/ PrepareFails
    \/ ApplyCommits
    \/ ApplyFails
    \/ FinishBatch
    \/ OffsetWriteFails

\* The updater's task is scheduled, and a read of S3, a database batch or an
\* offset write that is tried again and again succeeds in the end.  Nothing is
\* assumed of the producer, of retention or of crashes.
KafkaFairness ==
    /\ WF_allVars(UpdaterStep)
    /\ SF_allVars(PrepareUpdate)
    /\ SF_allVars(ApplyCommits)
    /\ SF_allVars(FinishBatch)

KafkaSpec == KafkaInit /\ [][KafkaNext]_allVars /\ KafkaFairness

----------------------------------------------------------------------------
(***************************************************************************)
(* Properties.                                                             *)
(***************************************************************************)

\* Every variable of the updater keeps its type.
KafkaTypeOK ==
    /\ published \in 1..Len(Topic)
    /\ lowest \in 0..(published - 1)
    /\ offsetFile \in {NoOffset} \cup 0..published
    /\ upc \in {"init", "poll", "prepare", "apply", "failed", "offset", "check",
                "s3", "dead"}
    /\ first \in 0..position
    /\ position \in 0..published
    /\ path \in Seq(Blocks)
    /\ ctx \in [Blocks -> {NoOffset} \cup 0..(published - 1)]
    /\ {bundleBucket, fromKafka, fromBundle, caughtUp} \subseteq BOOLEAN
    /\ crashes \in 0..MaxCrashes

\* Resuming from the persisted offset loses nothing: every block of the
\* announced chain that is not in the database yet is announced at or after
\* that offset (commit_offset; docs/StateUpdater.md: "Commit offset after
\* persistence").
NothingSkipped ==
    offsetFile # NoOffset /\ diskHead \in Anc[AnnouncedHead] =>
        \A x \in Above(diskHead, AnnouncedHead) :
            \E o \in offsetFile..(published - 1) : x \in Range(Topic[o + 1])

\* The catch-up hands over to Kafka only when the first block of the batch can
\* be imported: a sibling from the by-number index never ends up below it
\* (update_from_s3).
HandOffAttaches ==
    [][upc = "s3" /\ upc' = "prepare" => Parent[SyncTarget] \in Indexed]_allVars

\* The node reports itself caught up only once the blocks of the batch it
\* judges by are in the tree (start, is_caught_up).
CaughtUpIsApplied ==
    [][caughtUp' /\ ~caughtUp => Range(Topic[position]) \subseteq Indexed]_allVars

\* The batch in hand begins at or below the database's head with a block the
\* tree does not know: update_block cannot attach it.
ReplaysBelowHead ==
    LET b == Topic[first + 1][1]
    IN  /\ fromKafka /\ upc \in {"prepare", "apply", "failed"}
        /\ b \notin Indexed /\ Number[b] <= Number[diskHead]

\* Once the producer and the crashes stop, the node imports the topic to
\* its end, whatever errors it met; only a panic of the updater's task or a
\* batch that a restart replays from below the database's head keeps it from
\* doing so (start, init_offset, update_from_s3).
FollowsOrReplays ==
    <>[](AnnouncedHead \in Indexed \/ upc = "dead" \/ ReplaysBelowHead)

\* Once the producer and the crashes stop, the node follows the topic to its
\* end and reports itself caught up (start; docs/StateUpdater.md: "KafkaUpdater
\* maintains Kafka consumer offset for crash recovery").
FollowsTopic == <>[](LatestBlock = AnnouncedHead /\ caughtUp)

\* Whatever fails, expires or crashes, the updater's own state is well formed
\* and its offset file safe to resume from (init_offset, commit_offset).
ResumeSafe == KafkaTypeOK /\ NothingSkipped
=============================================================================
