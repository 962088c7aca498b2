----------------------------- MODULE StateTree -----------------------------
(***************************************************************************)
(* StateTree: the diff layers of recent blocks, the shared cache below     *)
(* them and the database below that.  One updater at a time runs           *)
(* update_block (it holds update_lock); readers never take the lock, so    *)
(* every step of a commit interleaves with every step of theirs.           *)
(*                                                                         *)
(* A layer is named by its block: within one run of the process a block    *)
(* that has left the index can never be imported again, its parent having  *)
(* left with it.  The layer StateTree::new builds for the database's own   *)
(* head has an empty diff.                                                 *)
(***************************************************************************)
EXTENDS BlockTree

CONSTANTS
    Readers,        \* concurrent state handles
    DepthLimit,     \* diff_tree_depth_limit
    Capacity,       \* entries the cache holds before it evicts
    CacheEnabled,   \* enable_cache: TRUE for RocksDB, FALSE for MDBX
    PinnedReads,    \* a database handle keeps reading the state it was opened
                    \* on (archive, MDBX) instead of the live one (flat RocksDB)
    ClearsStorage,  \* the backend implements clear_storage (RocksDB archive)
    NoBlock         \* stands for None

ASSUME TreeAssumption ==
    /\ NoBlock \notin Blocks
    /\ DepthLimit \in Nat \ {0}
    /\ Capacity \in Nat
    /\ {CacheEnabled, PinnedReads, ClearsStorage} \subseteq BOOLEAN

VARIABLES
    disk,           \* the database: the value of every key ...
    diskHead,       \* ... and the last block committed to it
    cacheTag,       \* CacheDiskLayer: the height tag of an entry, or Vacant
    cacheVal,       \*   and its value
    committedHeight,
    oldDiff,        \* old_diff_layer: the last layer this process committed
    bottom,         \* the block whose layer StateTree::new built, empty
    onCache,        \* the layers whose `next` is the cache layer
    views,          \* hash_diff_map: the layers of each block's view, {} if
                    \* the block is not indexed
    byNumber,       \* num_diff_map
    latest,         \* head of the latest view; NoBlock for the view that has
                    \* no layers
    pc,             \* where the updater is inside update_block
    target,         \* the block it is importing
    pending,        \* keys the commit in progress has not written through
    stage,          \* where each reader is inside state_at and its reads
    view,           \* the layers of its view
    head,           \* the block it asked for
    tag,            \* cache_view_height
    store,          \* the database contents a pinned handle reads
    want,           \* the key it fetched from the database
    got             \*   and the value that came back

dbVars == <<disk, diskHead>>
cacheVars == <<cacheTag, cacheVal>>
layerVars == <<committedHeight, oldDiff, bottom, onCache>>
indexVars == <<views, byNumber, latest>>
updaterVars == <<pc, target, pending>>
readerVars == <<stage, view, head, tag, store, want, got>>
vars == <<dbVars, cacheVars, layerVars, indexVars, updaterVars, readerVars>>

Vacant == -1

----------------------------------------------------------------------------
(***************************************************************************)
(* Layers and views.                                                       *)
(***************************************************************************)

Indexed == {b \in Blocks : views[b] # {}}

\* The layers of b's chain, walking `next` from b until the cache layer.
Walk(b) ==
    {x \in Anc[b] : \A y \in Anc[b] \cap onCache : Number[y] <= Number[x]}

\* The keys a layer lists: none for the layer of the database's own head.
LayerWrites(x) == IF x = bottom THEN {} ELSE Writes[x]

\* The layers of view v that list k.
LayersWith(v, k) == {x \in v : k \in LayerWrites(x)}

Cached(k) == CacheEnabled /\ cacheTag[k] # Vacant

\* The block the latest view stands for: its own head, or, without layers,
\* the block the database is at.
LatestBlock == IF latest = NoBlock THEN diskHead ELSE latest

\* What the database handle of reader r answers.
DbRead(r, k) == IF PinnedReads THEN store[r][k] ELSE disk[k]

\* A read of k through a view: the newest layer that lists k, then the cache,
\* then the database, whose answer is db.
ReadThrough(v, k, db) ==
    IF LayersWith(v, k) # {} THEN Top(LayersWith(v, k))
    ELSE IF Cached(k) THEN cacheVal[k]
    ELSE db

\* What reader r's handle answers for k when asked now.
Served(r, k) == ReadThrough(view[r], k, DbRead(r, k))

----------------------------------------------------------------------------
(***************************************************************************)
(* Start and restart.                                                      *)
(***************************************************************************)

\* StateTree::new: an empty bottom layer for the database's head in both maps,
\* a latest view without layers, an empty cache.
Init ==
    /\ disk = [k \in Keys |-> Genesis]
    /\ diskHead = Genesis
    /\ cacheTag = [k \in Keys |-> Vacant]
    /\ cacheVal = [k \in Keys |-> Genesis]
    /\ committedHeight = Number[Genesis]
    /\ oldDiff = NoBlock
    /\ bottom = Genesis
    /\ onCache = {Genesis}
    /\ views = [b \in Blocks |-> IF b = Genesis THEN {b} ELSE {}]
    /\ byNumber =
        [n \in Heights |-> IF n = Number[Genesis] THEN Genesis ELSE NoBlock]
    /\ latest = NoBlock
    /\ pc = "idle"
    /\ target = Genesis
    /\ pending = {}
    /\ stage = [r \in Readers |-> "closed"]
    /\ view = [r \in Readers |-> {}]
    /\ head = [r \in Readers |-> Genesis]
    /\ tag = [r \in Readers |-> 0]
    /\ store = [r \in Readers |-> [k \in Keys |-> Genesis]]
    /\ want = [r \in Readers |-> {}]
    /\ got = [r \in Readers |-> Genesis]

\* The process stops, at any point, and is started again on its database.
Restart ==
    /\ UNCHANGED dbVars
    /\ cacheTag' = [k \in Keys |-> Vacant]
    /\ cacheVal' = [k \in Keys |-> Genesis]
    /\ committedHeight' = Number[diskHead]
    /\ oldDiff' = NoBlock
    /\ bottom' = diskHead
    /\ onCache' = {diskHead}
    /\ views' = [b \in Blocks |-> IF b = diskHead THEN {b} ELSE {}]
    /\ byNumber' =
        [n \in Heights |-> IF n = Number[diskHead] THEN diskHead ELSE NoBlock]
    /\ latest' = NoBlock
    /\ pc' = "idle"
    /\ target' = diskHead
    /\ pending' = {}
    /\ stage' = [r \in Readers |-> "closed"]
    /\ view' = [r \in Readers |-> {}]
    /\ head' = [r \in Readers |-> Genesis]
    /\ tag' = [r \in Readers |-> 0]
    /\ store' = [r \in Readers |-> [k \in Keys |-> Genesis]]
    /\ want' = [r \in Readers |-> {}]
    /\ got' = [r \in Readers |-> Genesis]

----------------------------------------------------------------------------
(***************************************************************************)
(* update_block.                                                           *)
(***************************************************************************)

\* The block is already indexed: Ok, nothing is done.
AlreadyKnown(b) ==
    /\ pc = "idle"
    /\ b \in Indexed
    /\ UNCHANGED vars

\* Its parent is not indexed: ParentBlockHashNotFound, nothing is done.
ParentNotFound(b) ==
    /\ pc = "idle"
    /\ b # Genesis
    /\ b \notin Indexed
    /\ Parent[b] \notin Indexed
    /\ UNCHANGED vars

Importable(b) ==
    /\ pc = "idle"
    /\ b # Genesis
    /\ b \notin Indexed
    /\ Parent[b] \in Indexed

\* A block below the latest one is added to both maps; nothing is committed
\* and latest stays.
ImportFork(b) ==
    /\ Importable(b)
    /\ Number[b] < Number[LatestBlock]
    /\ views' = [views EXCEPT ![b] = Walk(b)]
    /\ byNumber' = [byNumber EXCEPT ![Number[b]] = b]
    /\ UNCHANGED <<dbVars, cacheVars, layerVars, latest, updaterVars, readerVars>>

\* A block at or above the latest one: its layer is created and
\* cap_diff_to_db starts.
BeginImport(b) ==
    /\ Importable(b)
    /\ Number[b] >= Number[LatestBlock]
    /\ pc' = "cap"
    /\ target' = b
    /\ UNCHANGED <<dbVars, cacheVars, layerVars, indexVars, pending, readerVars>>

\* Mutant of MustCommit: one layer too many stays in memory.
MustCommitLate == Cardinality(Walk(target)) > DepthLimit + 1

\* The chain of the new block is longer than the limit: cap_diff_to_db commits
\* its oldest layer.
MustCommit == Cardinality(Walk(target)) > DepthLimit

\* The layer the next commit is of.
Oldest == Lowest(Walk(target))

\* Mutant of ParentIsOldDiff: the assertion is dropped.
ParentUnchecked == TRUE

\* commit asserts that the layer's parent is the last one it committed.
ParentIsOldDiff ==
    \/ oldDiff = NoBlock
    \/ /\ Oldest # Genesis
       /\ Parent[Oldest] = oldDiff

\* The keys the database's update_block gives a new value.
DbWrites(x) ==
    LayerWrites(x) \cup
    (IF ClearsStorage /\ x # bottom THEN Clears[x] ELSE {})

\* Mutant of CommitToDb: the newest layer is committed.
CommitNewest ==
    /\ pc = "cap"
    /\ MustCommit
    /\ ParentIsOldDiff
    /\ disk' = [k \in Keys |-> IF k \in DbWrites(target) THEN target ELSE disk[k]]
    /\ diskHead' = target
    /\ oldDiff' = target
    /\ pending' = IF CacheEnabled THEN LayerWrites(target) ELSE {}
    /\ pc' = "through"
    /\ UNCHANGED <<cacheVars, committedHeight, bottom, onCache, indexVars,
                   target, readerVars>>

\* commit, up to the write-through: the database applies the diff in one batch
\* and old_diff_layer becomes the layer.
CommitToDb ==
    /\ pc = "cap"
    /\ MustCommit
    /\ ParentIsOldDiff
    /\ disk' = [k \in Keys |-> IF k \in DbWrites(Oldest) THEN Oldest ELSE disk[k]]
    /\ diskHead' = Oldest
    /\ oldDiff' = Oldest
    /\ pending' = IF CacheEnabled THEN LayerWrites(Oldest) ELSE {}
    /\ pc' = "through"
    /\ UNCHANGED <<cacheVars, committedHeight, bottom, onCache, indexVars,
                   target, readerVars>>

\* The batch fails: update_block returns the error with nothing published.
CommitFails ==
    /\ pc = "cap"
    /\ MustCommit
    /\ ParentIsOldDiff
    /\ pc' = "idle"
    /\ UNCHANGED <<dbVars, cacheVars, layerVars, indexVars, target, pending,
                   readerVars>>

\* The assertion fails: the updater panics with update_lock held, and every
\* later update_block panics on the poisoned lock.
CommitPanics ==
    /\ pc = "cap"
    /\ MustCommit
    /\ ~ParentIsOldDiff
    /\ pc' = "poisoned"
    /\ UNCHANGED <<dbVars, cacheVars, layerVars, indexVars, target, pending,
                   readerVars>>

\* The commit's loop inserts the diff's keys into the cache one by one,
\* whatever tag they had.
WriteThrough(k) ==
    /\ pc = "through"
    /\ k \in pending
    /\ cacheTag' = [cacheTag EXCEPT ![k] = Number[diskHead]]
    /\ cacheVal' = [cacheVal EXCEPT ![k] = diskHead]
    /\ pending' = pending \ {k}
    /\ UNCHANGED <<dbVars, layerVars, indexVars, pc, target, readerVars>>

\* Mutants of FinishCommit: the newest layer, or no layer, is pointed at the
\* cache layer.
RetargetNewest ==
    /\ pc = "through"
    /\ pending = {}
    /\ committedHeight' = Number[diskHead]
    /\ onCache' = onCache \cup {target}
    /\ pc' = "cap"
    /\ UNCHANGED <<dbVars, cacheVars, oldDiff, bottom, indexVars, target,
                   pending, readerVars>>

RetargetNone ==
    /\ pc = "through"
    /\ pending = {}
    /\ committedHeight' = Number[diskHead]
    /\ pc' = "cap"
    /\ UNCHANGED <<dbVars, cacheVars, oldDiff, bottom, onCache, indexVars,
                   target, pending, readerVars>>

\* The end of commit publishes committed_height; cap_diff_to_db then points
\* the next older layer at the cache layer and looks at the length again.
FinishCommit ==
    /\ pc = "through"
    /\ pending = {}
    /\ committedHeight' = Number[diskHead]
    /\ onCache' = onCache \cup {Lowest(Walk(target) \ {diskHead})}
    /\ pc' = "cap"
    /\ UNCHANGED <<dbVars, cacheVars, oldDiff, bottom, indexVars, target,
                   pending, readerVars>>

\* Mutant of Kept: the committed block's own height is cleared too.
KeptAbove(n) == Number[diskHead] = 0 \/ n > Number[diskHead]

\* clear_diff_map, by height: 0 clears nothing.
Kept(n) == Number[diskHead] = 0 \/ n >= Number[diskHead]

\* Mutant of Publish: the number map is not cleared.
PublishUncleared ==
    /\ pc = "cap"
    /\ ~MustCommit
    /\ views' = [b \in Blocks |->
                    IF b = target THEN Walk(b)
                    ELSE IF Kept(Number[b]) THEN views[b] ELSE {}]
    /\ byNumber' = [byNumber EXCEPT ![Number[target]] = target]
    /\ latest' = target
    /\ pc' = "idle"
    /\ UNCHANGED <<dbVars, cacheVars, layerVars, target, pending, readerVars>>

\* The new index, with the block in both maps and as latest and the heights
\* below the database's head gone, is published in one store.
Publish ==
    /\ pc = "cap"
    /\ ~MustCommit
    /\ views' = [b \in Blocks |->
                    IF b = target THEN Walk(b)
                    ELSE IF Kept(Number[b]) THEN views[b] ELSE {}]
    /\ byNumber' = [n \in Heights |->
                       IF n = Number[target] THEN target
                       ELSE IF Kept(n) THEN byNumber[n] ELSE NoBlock]
    /\ latest' = target
    /\ pc' = "idle"
    /\ UNCHANGED <<dbVars, cacheVars, layerVars, target, pending, readerVars>>

----------------------------------------------------------------------------
(***************************************************************************)
(* Readers: state_at, then reads through the handle.                       *)
(***************************************************************************)

\* The views the index can be asked for: by hash, by number and the latest.
Resolvable ==
    Indexed \cup ({byNumber[n] : n \in Heights} \ {NoBlock}) \cup {latest}

\* Mutant of LoadIndex: the view without layers has no block.
LoadIndexHeadless(r) ==
    /\ stage[r] = "closed"
    /\ \E b \in Resolvable :
        /\ view' = [view EXCEPT ![r] = IF b = NoBlock THEN {} ELSE views[b]]
        /\ head' = [head EXCEPT ![r] = b]
    /\ stage' = [stage EXCEPT ![r] = "viewed"]
    /\ UNCHANGED <<dbVars, cacheVars, layerVars, indexVars, updaterVars,
                   tag, store, want, got>>

\* state_at loads the index and takes the view of a block.
LoadIndex(r) ==
    /\ stage[r] = "closed"
    /\ \E b \in Resolvable :
        /\ view' = [view EXCEPT ![r] = IF b = NoBlock THEN {} ELSE views[b]]
        /\ head' = [head EXCEPT ![r] = IF b = NoBlock THEN diskHead ELSE b]
    /\ stage' = [stage EXCEPT ![r] = "viewed"]
    /\ UNCHANGED <<dbVars, cacheVars, layerVars, indexVars, updaterVars,
                   tag, store, want, got>>

\* cache_view_height, before the database handle is opened.
ReadTag(r) ==
    /\ stage[r] = "viewed"
    /\ tag' = [tag EXCEPT ![r] = committedHeight]
    /\ stage' = [stage EXCEPT ![r] = "tagged"]
    /\ UNCHANGED <<dbVars, cacheVars, layerVars, indexVars, updaterVars,
                   view, head, store, want, got>>

OpenDb(r) ==
    /\ stage[r] = "tagged"
    /\ store' = IF PinnedReads THEN [store EXCEPT ![r] = disk] ELSE store
    /\ stage' = [stage EXCEPT ![r] = "open"]
    /\ UNCHANGED <<dbVars, cacheVars, layerVars, indexVars, updaterVars,
                   view, head, tag, want, got>>

\* A read that no layer and no cache entry answers asks the database.  (Reads
\* they do answer change nothing; Served gives their results.)
Fetch(r, k) ==
    /\ stage[r] = "open"
    /\ CacheEnabled
    /\ LayersWith(view[r], k) = {}
    /\ ~Cached(k)
    /\ want' = [want EXCEPT ![r] = {k}]
    /\ got' = [got EXCEPT ![r] = DbRead(r, k)]
    /\ stage' = [stage EXCEPT ![r] = "fetched"]
    /\ UNCHANGED <<dbVars, cacheVars, layerVars, indexVars, updaterVars,
                   view, head, tag, store>>

\* Mutants of Refill: the tag in the cache is not compared; the entry is tagged
\* with the height at the time of the refill.
RefillAlways(r, k) ==
    /\ stage[r] = "fetched"
    /\ want[r] = {k}
    /\ cacheTag' = [cacheTag EXCEPT ![k] = tag[r]]
    /\ cacheVal' = [cacheVal EXCEPT ![k] = got[r]]
    /\ stage' = [stage EXCEPT ![r] = "open"]
    /\ want' = [want EXCEPT ![r] = {}]
    /\ got' = [got EXCEPT ![r] = Genesis]
    /\ UNCHANGED <<dbVars, layerVars, indexVars, updaterVars, view, head, tag,
                   store>>

RefillTaggedNow(r, k) ==
    /\ stage[r] = "fetched"
    /\ want[r] = {k}
    /\ IF cacheTag[k] < committedHeight
       THEN /\ cacheTag' = [cacheTag EXCEPT ![k] = committedHeight]
            /\ cacheVal' = [cacheVal EXCEPT ![k] = got[r]]
       ELSE UNCHANGED cacheVars
    /\ stage' = [stage EXCEPT ![r] = "open"]
    /\ want' = [want EXCEPT ![r] = {}]
    /\ got' = [got EXCEPT ![r] = Genesis]
    /\ UNCHANGED <<dbVars, layerVars, indexVars, updaterVars, view, head, tag,
                   store>>

\* refill: a vacant entry is filled, an entry with a lower tag is replaced.
\* Both comparisons with the tag in the cache are under its shard lock.
Refill(r, k) ==
    /\ stage[r] = "fetched"
    /\ want[r] = {k}
    /\ IF cacheTag[k] < tag[r]
       THEN /\ cacheTag' = [cacheTag EXCEPT ![k] = tag[r]]
            /\ cacheVal' = [cacheVal EXCEPT ![k] = got[r]]
       ELSE UNCHANGED cacheVars
    /\ stage' = [stage EXCEPT ![r] = "open"]
    /\ want' = [want EXCEPT ![r] = {}]
    /\ got' = [got EXCEPT ![r] = Genesis]
    /\ UNCHANGED <<dbVars, layerVars, indexVars, updaterVars, view, head, tag,
                   store>>

\* refill does nothing while another refill of the key is in flight.
RefillSkipped(r) ==
    /\ stage[r] = "fetched"
    /\ \E q \in Readers \ {r} : want[q] = want[r]
    /\ stage' = [stage EXCEPT ![r] = "open"]
    /\ want' = [want EXCEPT ![r] = {}]
    /\ got' = [got EXCEPT ![r] = Genesis]
    /\ UNCHANGED <<dbVars, cacheVars, layerVars, indexVars, updaterVars, view,
                   head, tag, store>>

CloseHandle(r) ==
    /\ stage[r] = "open"
    /\ stage' = [stage EXCEPT ![r] = "closed"]
    /\ view' = [view EXCEPT ![r] = {}]
    /\ head' = [head EXCEPT ![r] = Genesis]
    /\ tag' = [tag EXCEPT ![r] = 0]
    /\ store' = [store EXCEPT ![r] = [k \in Keys |-> Genesis]]
    /\ UNCHANGED <<dbVars, cacheVars, layerVars, indexVars, updaterVars, want,
                   got>>

\* The cache drops an entry when it holds more than its capacity.
Evict(k) ==
    /\ Cached(k)
    /\ Cardinality({j \in Keys : Cached(j)}) > Capacity
    /\ cacheTag' = [cacheTag EXCEPT ![k] = Vacant]
    /\ cacheVal' = [cacheVal EXCEPT ![k] = Genesis]
    /\ UNCHANGED <<dbVars, layerVars, indexVars, updaterVars, readerVars>>

----------------------------------------------------------------------------

UpdateBlock ==
    \/ \E b \in Blocks :
        \/ AlreadyKnown(b)
        \/ ParentNotFound(b)
        \/ ImportFork(b)
        \/ BeginImport(b)
    \/ CommitToDb
    \/ CommitFails
    \/ CommitPanics
    \/ \E k \in Keys : WriteThrough(k)
    \/ FinishCommit
    \/ Publish

Read(r) ==
    \/ LoadIndex(r)
    \/ ReadTag(r)
    \/ OpenDb(r)
    \/ \E k \in Keys : Fetch(r, k) \/ Refill(r, k)
    \/ RefillSkipped(r)
    \/ CloseHandle(r)

Next ==
    \/ UpdateBlock
    \/ \E r \in Readers : Read(r)
    \/ \E k \in Keys : Evict(k)
    \/ Restart

Spec == Init /\ [][Next]_vars

----------------------------------------------------------------------------
(***************************************************************************)
(* Properties.                                                             *)
(***************************************************************************)

\* Every variable keeps its type.
TypeOK ==
    /\ disk \in [Keys -> Blocks]
    /\ diskHead \in Blocks
    /\ cacheTag \in [Keys -> Nat \cup {Vacant}]
    /\ cacheVal \in [Keys -> Blocks]
    /\ committedHeight \in Nat
    /\ oldDiff \in Blocks \cup {NoBlock}
    /\ bottom \in Blocks
    /\ onCache \in SUBSET Blocks
    /\ views \in [Blocks -> SUBSET Blocks]
    /\ byNumber \in [Heights -> Blocks \cup {NoBlock}]
    /\ latest \in Blocks \cup {NoBlock}
    /\ pc \in {"idle", "cap", "through", "poisoned"}
    /\ target \in Blocks
    /\ pending \in SUBSET Keys
    /\ stage \in [Readers -> {"closed", "viewed", "tagged", "open", "fetched"}]
    /\ view \in [Readers -> SUBSET Blocks]
    /\ head \in [Readers -> Blocks]
    /\ tag \in [Readers -> Nat]
    /\ store \in [Readers -> [Keys -> Blocks]]
    /\ want \in [Readers -> SUBSET Keys]
    /\ got \in [Readers -> Blocks]

HandleOpen(r) == stage[r] \in {"open", "fetched"}

\* A handle answers with the state of the block it was opened for, whatever
\* the updater does meanwhile: between the database write of a commit and its
\* write-through, between two keys of the write-through, and after the layers
\* the handle was built from have left memory.  It does so until the database
\* leaves the handle's chain (state_at, HybridStateDB reads, commit).
HandleExact ==
    \A r \in Readers, k \in PlainKeys :
        HandleOpen(r) /\ diskHead \in Anc[head[r]]
            => Served(r, k) = StateOf(head[r], k)

\* An entry of the shared cache is what the database holds, except for the
\* keys a commit in progress has still to write through (commit, refill).
CacheCoherent ==
    \A k \in PlainKeys :
        Cached(k) /\ k \notin pending => cacheVal[k] = disk[k]

\* The keys whose database value is the state's: the storage of a deleted
\* account is among them where the backend clears it.
TrackedKeys == IF ClearsStorage THEN Keys ELSE PlainKeys

\* v is the value k had at some committed block not below height n.
CommittedValue(v, n, k) ==
    \E x \in Anc[diskHead] : Number[x] >= n /\ v = StateOf(x, k)

\* The tag of a cache entry is a lower bound: the entry is the value the key
\* had at some committed block not below the tag, evictions or not (state_at
\* takes cache_view_height before it opens the database).
TagIsLowerBound ==
    \A k \in TrackedKeys :
        Cached(k) => CommittedValue(cacheVal[k], cacheTag[k], k)

\* The database is always on the chain of the latest block: whatever forks
\* arrive, no commit is ever of a block that latest does not descend from; and
\* at rest at most DepthLimit blocks are only in memory (cap_diff_to_db, the
\* assertion of commit).
LatestExtendsDisk ==
    /\ diskHead \in Anc[LatestBlock]
    /\ pc = "idle" => Number[LatestBlock] - Number[diskHead] <= DepthLimit

\* At rest, every block from the database's head up to the latest one is
\* indexed, so that a child of any of them, a fork included, can be imported
\* (clear_diff_map).
ForkPointsIndexed ==
    pc = "idle" => {diskHead} \cup Above(diskHead, LatestBlock) \subseteq Indexed

\* By-number, by-hash and latest agree: what the number map or latest names is
\* in the hash map, under its own number (the comment on StateTree.index).
IndexConsistent ==
    /\ \A n \in Heights :
        byNumber[n] # NoBlock => byNumber[n] \in Indexed /\ Number[byNumber[n]] = n
    /\ latest # NoBlock => latest \in Indexed

\* The assertion of commit fires only for a block that leaves the latest chain
\* at or below the committed block: a shallower reorganisation never panics.
ShallowReorgNeverPanics ==
    pc = "poisoned" =>
        Above(diskHead, target) \cap Above(diskHead, LatestBlock) = {}

\* docs/StateUpdater.md gives --diff-depth-limit as the deepest reorganisation
\* handled: a block whose chain contains the committed block never panics.
ReorgWithinLimitNeverPanics ==
    pc = "poisoned" => diskHead \notin Anc[target]

\* The database holds the state of one block at a time and moves only to a
\* child of it, across restarts and failed writes too.
Durable == INSTANCE DurableChain WITH
    head <- diskHead, content <- [k \in PlainKeys |-> disk[k]]
DurableChainSpec == Durable!Spec

----------------------------------------------------------------------------
(***************************************************************************)
(* The inductive invariant.                                                *)
(***************************************************************************)

\* The database holds the state of its head.
DiskExact == \A k \in PlainKeys : disk[k] = StateOf(diskHead, k)

\* The cache layer and the links to it.
LinksOK ==
    /\ bottom \in Anc[diskHead]
    /\ bottom \in onCache
    /\ \A y \in onCache : Number[y] <= Number[diskHead] + 1
    /\ oldDiff = NoBlock => diskHead = bottom /\ onCache = {bottom}
    /\ oldDiff # NoBlock => oldDiff = diskHead

\* v is a good view of block b: an upper part of b's chain, reaching at least
\* down to the database, and holding the block being committed until its last
\* key is written through.
ViewOK(v, b) ==
    /\ bottom \in Anc[b]
    /\ v \subseteq Anc[b]
    /\ \A x \in v : Number[bottom] <= Number[x]
    /\ \A x \in v, y \in Anc[b] : Number[x] <= Number[y] => y \in v
    /\ Above(diskHead, b) \subseteq v
    /\ pending # {} /\ diskHead \in Anc[b] => diskHead \in v

ViewsOK ==
    /\ \A b \in Indexed : ViewOK(views[b], b)
    /\ \A r \in Readers : stage[r] # "closed" => ViewOK(view[r], head[r])

\* The updater inside update_block.
UpdaterOK ==
    /\ pending \subseteq LayerWrites(diskHead)
    /\ pending # {} => pc = "through" /\ committedHeight < Number[diskHead]
    /\ pc # "through" => committedHeight = Number[diskHead]
    /\ pc \in {"cap", "through"} => target # Genesis /\ Parent[target] \in Indexed
    /\ pc = "through" =>
          diskHead \in Walk(target) /\ diskHead # target /\ oldDiff # NoBlock
    /\ latest = NoBlock => Indexed = {bottom} /\ diskHead = bottom

\* The database a pinned handle reads is that of a block the view reaches.
PinnedOK ==
    PinnedReads => \A r \in Readers : HandleOpen(r) =>
        \E d \in Anc[diskHead] :
            /\ bottom \in Anc[d]
            /\ Above(d, head[r]) \subseteq view[r]
            /\ \A k \in PlainKeys : store[r][k] = StateOf(d, k)

\* A value reader r may still put into the cache for k does no harm: it is
\* current, or is about to be overwritten, or comes too late to be accepted.
Harmless(v, r, k) ==
    \/ v = disk[k]
    \/ k \in pending
    \/ tag[r] <= cacheTag[k]

TagsOK ==
    /\ committedHeight <= Number[diskHead]
    /\ \A r \in Readers : tag[r] <= committedHeight

RefillsOK ==
    CacheEnabled => \A r \in Readers, k \in PlainKeys :
        /\ stage[r] = "fetched" /\ want[r] = {k} => Harmless(got[r], r, k)
        /\ PinnedReads /\ HandleOpen(r) => Harmless(store[r][k], r, k)

\* What holds whatever the cache evicts: database, links between layers, views
\* held by the index and by handles, the updater's position inside update_block
\* and the tags of readers fit together (update_block, commit, state_at).
CoreInv ==
    /\ TypeOK
    /\ DiskExact
    /\ LinksOK
    /\ ViewsOK
    /\ UpdaterOK
    /\ IndexConsistent
    /\ PinnedOK
    /\ TagsOK

\* Why HandleExact and CacheCoherent hold, as long as nothing is evicted.
TreeInv ==
    /\ CoreInv
    /\ RefillsOK
    /\ CacheCoherent

\* Block l ends a chain of the right length over the database: it has fewer
\* layers than DepthLimit while the bottom layer is one of them, and exactly
\* DepthLimit, all of the same child x of the database's head, after that.
Settled(l) ==
    /\ diskHead \in Anc[l]
    /\ oldDiff = NoBlock => Number[l] < Number[diskHead] + DepthLimit
    /\ oldDiff # NoBlock =>
          /\ Number[l] = Number[diskHead] + DepthLimit
          /\ \E x \in onCache \cap Anc[l] :
                /\ Number[x] = Number[diskHead] + 1
                /\ \A y \in onCache : Number[y] = Number[diskHead] + 1 => y = x

\* Every indexed block above the database's head has its parent indexed.
ParentsIndexed ==
    \A b \in Indexed :
        Number[b] > Number[diskHead] => b # Genesis /\ Parent[b] \in Indexed

\* How far the latest block is from the database through an import, on top of
\* CoreInv: why a commit never leaves the latest chain and why only a deep
\* reorganisation meets the assertion (cap_diff_to_db, commit).
DepthInv ==
    /\ \A b \in Indexed : Number[b] <= Number[LatestBlock]
    /\ ParentsIndexed
    /\ diskHead \in Anc[LatestBlock]
    /\ pc \in {"idle", "poisoned"} => Settled(LatestBlock)
    /\ pc \in {"cap", "through"} => Number[LatestBlock] <= Number[target]
    /\ pc = "cap" => Settled(LatestBlock) \/ Settled(target)
    /\ pc = "through" =>
          /\ diskHead \in Anc[target] /\ diskHead \in onCache
          /\ Number[target] = Number[diskHead] + DepthLimit
          /\ \A y \in onCache : Number[y] <= Number[diskHead]
    /\ ShallowReorgNeverPanics

\* What handle r reads of k, or is about to put into the cache, is the value of
\* some committed block not below the handle's tag.
HandleBounded(r, k) ==
    /\ PinnedReads /\ HandleOpen(r) => CommittedValue(store[r][k], tag[r], k)
    /\ stage[r] = "fetched" /\ want[r] = {k} => CommittedValue(got[r], tag[r], k)

\* Why TagIsLowerBound holds, on top of CoreInv.
BoundInv ==
    /\ \A k \in TrackedKeys : disk[k] = StateOf(diskHead, k)
    /\ TagIsLowerBound
    /\ \A r \in Readers, k \in TrackedKeys : HandleBounded(r, k)
=============================================================================
