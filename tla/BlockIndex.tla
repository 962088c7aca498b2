----------------------------- MODULE BlockIndex -----------------------------
(***************************************************************************)
(* Block infos keyed by number (CF 7) and the in-memory index that finds   *)
(* them by hash: entries noted before a commit, merged shard by shard into *)
(* sorted shards while lookups run, saved to a file in the background, and *)
(* loaded or rebuilt at an open; the move of the infos from the table by   *)
(* hash (CF 2); and the two rewinds that rewrite or remove what is         *)
(* indexed.                                                                *)
(***************************************************************************)
EXTENDS BlockTree, Sequences

CONSTANTS
    NoBlock,
    Lookups,        \* threads that look a block up
    Prefix,         \* the first 8 bytes of a block's hash
    Code,           \* what a shard keeps of a prefix: bucket and fingerprint
    Shard,          \* the shard of a prefix
    MergeAt,        \* MERGE_AT
    StartTips,      \* the heads a behaviour may start with
    MaxOpens        \* bound on the opens of the database

ShardIds == {Shard[Prefix[b]] : b \in Blocks}

\* Two blocks of one number never share a code: the copy would keep either
\* record (write_chunk), and 2^32 codes make it as good as impossible.
ASSUME BlockIndexAssumption ==
    /\ NoBlock \notin Blocks
    /\ MergeAt \in Nat \ {0} /\ MaxOpens \in Nat
    /\ StartTips \subseteq Blocks
    /\ \A b, c \in Blocks : b # c /\ Number[b] = Number[c] =>
          Code[Prefix[b]] # Code[Prefix[c]] \/ Shard[Prefix[b]] # Shard[Prefix[c]]

VARIABLES
    canonical,  \* BlockNumToBlockHash, CF 3: at most one block of a number
    byHash,     \* BlockHashToBlockInfo, CF 2; None once dropped
    byNumber,   \* BlockNumToBlockInfo, CF 7; None while it does not exist
    tip,        \* LatestBlockHash
    file,       \* LEAFAGE_BLOCK_INDEX: its entries and its last block
    user,       \* who has the database open
    opens,      \* how often it was opened
    move,       \* the step the move from CF 2 is at
    shards,     \* the merged entries of each shard
    fresh,      \* recent.new
    merging,    \* recent.merging
    noted,      \* recent.last
    merged,     \* BlockIndex.last
    saving,     \* what the background save is writing
    writer,     \* the step the committing thread is at
    batch,      \* the blocks it commits
    todo,       \* the shards its merge has yet to do
    lookup,     \* where each lookup is
    sought,     \* the block it looks for
    numbers     \* the numbers it is to try

tableVars == <<canonical, byHash, byNumber, tip>>
memoryVars == <<shards, fresh, merging, noted, merged>>
writerVars == <<writer, batch, todo>>
lookupVars == <<lookup, sought, numbers>>
indexVars == <<tableVars, file, user, opens, move, memoryVars, saving,
               writerVars, lookupVars>>

None == {NoBlock}
NoFile == [entries |-> [s \in ShardIds |-> {}], last |-> NoBlock]

----------------------------------------------------------------------------
(***************************************************************************)
(* Entries.                                                                *)
(***************************************************************************)

\* What recent keeps of a block, and what a shard keeps of that.
Entry(b) == <<Prefix[b], Number[b]>>
ShardEntry(e) == <<Code[e[1]], e[2]>>

\* The entries of shard s among the recent ones.
InShard(E, s) == {ShardEntry(e) : e \in {e \in E : Shard[e[1]] = s}}

\* The numbers a set of recent entries, and a shard, hold for block b.
RecentNumbers(E, b) == {e[2] : e \in {e \in E : e[1] = Prefix[b]}}
ShardNumbers(E, b) == {e[2] : e \in {e \in E : e[1] = Code[Prefix[b]]}}

Candidates(b) ==
    RecentNumbers(fresh \cup merging, b)
        \cup ShardNumbers(shards[Shard[Prefix[b]]], b)

\* The shards that hold exactly the blocks of a set.
ShardsOf(S) == [s \in ShardIds |-> InShard({Entry(b) : b \in S}, s)]

\* Mutant of PutBlocks: the block that had the number stays.
PutBlocksToo(S, B) == S \cup B

\* CF 3 and CF 7 keep one block of a number.
PutBlocks(S, B) == {x \in S : \A b \in B : Number[x] # Number[b]} \cup B

NewestBlock(S) == IF S = {} THEN NoBlock ELSE Top(S)

EmptyIndex ==
    /\ shards' = [s \in ShardIds |-> {}]
    /\ fresh' = {}
    /\ merging' = {}
    /\ noted' = NoBlock
    /\ merged' = NoBlock

----------------------------------------------------------------------------
(***************************************************************************)
(* Opening.                                                                *)
(***************************************************************************)

\* save: a new file replaces the old one at once, or nothing does; an index
\* with no last block is not saved.
Saved(S, last) ==
    IF last = NoBlock THEN file ELSE [entries |-> S, last |-> last]

\* BlockIndex::build, of every block of CF 3, and the save that follows.
RebuildIndex ==
    /\ shards' = ShardsOf(canonical)
    /\ merged' = NewestBlock(canonical)
    /\ file' = Saved(ShardsOf(canonical), NewestBlock(canonical))
    /\ fresh' = {}
    /\ merging' = {}
    /\ noted' = NoBlock
    /\ UNCHANGED saving

\* The file is used when CF 3 still has its last block.
FileFits(last) == last # NoBlock /\ last \in canonical

\* BlockIndex::open on a file that fits: its shards, and the blocks of CF 3
\* after its last one, merged and on their way to the file when there are many.
LoadIndex ==
    LET tail == {b \in canonical : Number[b] > Number[file.last]}
        all == [s \in ShardIds |-> file.entries[s]
                                   \cup InShard({Entry(b) : b \in tail}, s)]
        many == Cardinality(tail) >= MergeAt
    IN  /\ shards' = IF many THEN all ELSE file.entries
        /\ fresh' = IF many THEN {} ELSE {Entry(b) : b \in tail}
        /\ merging' = {}
        /\ noted' = IF many THEN NoBlock ELSE NewestBlock(tail)
        /\ merged' = IF many THEN NewestBlock(tail) ELSE file.last
        /\ saving' = IF many THEN [entries |-> all, last |-> NewestBlock(tail)]
                     ELSE saving
        /\ UNCHANGED file

\* A node, or a rewind that only moves the head, opens the database with
\* ARCHIVE_BLOCK_INDEX set or not; a rewind that truncates never moves infos.
\* A file that cannot be read, or has too few buckets, counts as none.
Open(who, enabled) ==
    /\ user = "none"
    /\ opens < MaxOpens
    /\ who = "truncate" => ~enabled
    /\ user' = who
    /\ opens' = opens + 1
    /\ IF byHash = None
       THEN /\ \/ FileFits(file.last) /\ LoadIndex
               \/ RebuildIndex
            /\ move' = "done"
            /\ UNCHANGED byNumber
       ELSE /\ byNumber' = IF enabled THEN {} ELSE None
            /\ move' = IF enabled THEN "index" ELSE "off"
            /\ EmptyIndex
            /\ UNCHANGED <<file, saving>>
    /\ UNCHANGED <<canonical, byHash, tip, writerVars, lookupVars>>

\* Mutant of MoveIndex: the file is loaded, as an ordinary open does.
MoveIndexLoaded ==
    /\ move = "index"
    /\ IF FileFits(file.last) THEN LoadIndex ELSE RebuildIndex
    /\ move' = "copy"
    /\ UNCHANGED <<tableVars, user, opens, writerVars, lookupVars>>

\* The move: the index is rebuilt ...
MoveIndex ==
    /\ move = "index"
    /\ RebuildIndex
    /\ move' = "copy"
    /\ UNCHANGED <<tableVars, user, opens, writerVars, lookupVars>>

\* Mutant of Copied: the blocks of other forks are copied too.
CopiedForks == byHash

\* The blocks of CF 2 the index holds: copy_block_infos passes over the others.
Copied == {b \in byHash : Number[b] \in Candidates(b)}
IndexLen == Cardinality(fresh)
            + Cardinality(UNION {{s} \X shards[s] : s \in ShardIds})

\* ... the infos it holds are copied, unless one is missing ...
MoveCopy ==
    /\ move = "copy"
    /\ Cardinality(Copied) = IndexLen
    /\ byNumber' = Copied
    /\ move' = "drop"
    /\ UNCHANGED <<canonical, byHash, tip, file, user, opens, memoryVars, saving,
                   writerVars, lookupVars>>

\* ... and CF 2 is dropped.
MoveDrop ==
    /\ move = "drop"
    /\ byHash' = None
    /\ move' = "done"
    /\ UNCHANGED <<canonical, byNumber, tip, file, user, opens, memoryVars,
                   saving, writerVars, lookupVars>>

----------------------------------------------------------------------------
(***************************************************************************)
(* Commits.                                                                *)
(***************************************************************************)

Ready == writer = "idle" /\ move \in {"done", "off"}

\* The next block, with the head it follows written again or not (the state
\* tree writes it on its first commit after an open); and the target of a
\* rewind that only moves the head.
Batches ==
    CASE user = "node" ->
            UNION {{<<b>>, <<tip, b>>} :
                      b \in {b \in Blocks \ {Genesis} : Parent[b] = tip}}
      [] user = "head_only" ->
            {<<b>> : b \in {b \in canonical : Number[b] < Number[tip]}}
      [] OTHER -> {}

BatchBlocks == {batch[i] : i \in DOMAIN batch}

\* A block the file covers is written again.
Rewrites ==
    merged # NoBlock /\ \E b \in BatchBlocks :
        \/ Number[b] < Number[merged]
        \/ Number[b] = Number[merged] /\ b # merged

BeginCommit(bs) ==
    /\ Ready
    /\ bs \in Batches
    /\ batch' = bs
    /\ writer' = IF move = "off" THEN "write" ELSE "note"
    /\ UNCHANGED <<tableVars, file, user, opens, move, memoryVars, saving, todo,
                   lookupVars>>

\* Mutant of DropFile: the file is dropped under a save that is still running.
DropFileSaving ==
    /\ writer = "note"
    /\ Rewrites
    /\ file' = NoFile
    /\ merged' = NoBlock
    /\ UNCHANGED <<tableVars, user, opens, move, shards, fresh, merging, noted,
                   saving, writerVars, lookupVars>>

\* note, on a rewrite: once no save is running, the file goes.  A removal that
\* fails fails the commit, and the next commit tries again.
DropFile ==
    /\ writer = "note"
    /\ Rewrites
    /\ saving = NoFile
    /\ \/ /\ file' = NoFile
          /\ merged' = NoBlock
          /\ UNCHANGED <<writer, batch>>
       \/ /\ writer' = "idle"
          /\ batch' = <<>>
          /\ UNCHANGED <<file, merged>>
    /\ UNCHANGED <<tableVars, user, opens, move, shards, fresh, merging, noted,
                   saving, todo, lookupVars>>

\* note: the blocks are indexed before they are written.
Note ==
    /\ writer = "note"
    /\ ~Rewrites
    /\ \A t \in Lookups : lookup[t] # "locked"
    /\ fresh' = fresh \cup {Entry(b) : b \in BatchBlocks}
    /\ noted' = batch[Len(batch)]
    /\ writer' = "write"
    /\ UNCHANGED <<tableVars, file, user, opens, move, shards, merging, merged,
                   saving, batch, todo, lookupVars>>

\* The write, of all tables at once; or its failure.
Write ==
    /\ writer = "write"
    /\ \/ /\ canonical' = PutBlocks(canonical, BatchBlocks)
          /\ tip' = batch[Len(batch)]
          /\ byHash' = IF move = "off" THEN byHash \cup BatchBlocks ELSE byHash
          /\ byNumber' = IF move = "off" THEN byNumber
                         ELSE PutBlocks(byNumber, BatchBlocks)
          /\ writer' = IF move = "off" THEN "idle" ELSE "written"
       \/ /\ writer' = "idle"
          /\ UNCHANGED tableVars
    /\ batch' = <<>>
    /\ UNCHANGED <<file, user, opens, move, memoryVars, saving, todo, lookupVars>>

\* committed: too few new entries for a merge ...
SkipMerge ==
    /\ writer = "written"
    /\ Cardinality(fresh) < MergeAt
    /\ writer' = "idle"
    /\ UNCHANGED <<tableVars, file, user, opens, move, memoryVars, saving, batch,
                   todo, lookupVars>>

\* ... or one that starts once the last save is done.
BeginMerge ==
    /\ writer = "written"
    /\ Cardinality(fresh) >= MergeAt
    /\ saving = NoFile
    /\ \A t \in Lookups : lookup[t] # "locked"
    /\ merging' = fresh
    /\ fresh' = {}
    /\ writer' = "merge"
    /\ todo' = ShardIds
    /\ UNCHANGED <<tableVars, file, user, opens, move, shards, noted, merged,
                   saving, batch, lookupVars>>

MergeShard(s) ==
    /\ writer = "merge"
    /\ s \in todo
    /\ shards' = [shards EXCEPT ![s] = @ \cup InShard(merging, s)]
    /\ todo' = todo \ {s}
    /\ UNCHANGED <<tableVars, file, user, opens, move, fresh, merging, noted,
                   merged, saving, writer, batch, lookupVars>>

\* Mutant of EndMerge: the moved entries are dropped before their shards are
\* all in place.
EndMergeEarly ==
    /\ writer = "merge"
    /\ \A t \in Lookups : lookup[t] # "locked"
    /\ merging' = {}
    /\ noted' = NoBlock
    /\ merged' = noted
    /\ saving' = [entries |-> shards, last |-> noted]
    /\ writer' = "idle"
    /\ todo' = {}
    /\ UNCHANGED <<tableVars, file, user, opens, move, shards, fresh, batch,
                   lookupVars>>

\* The moved entries are dropped, and the shards are saved in the background.
EndMerge ==
    /\ writer = "merge"
    /\ todo = {}
    /\ \A t \in Lookups : lookup[t] # "locked"
    /\ merging' = {}
    /\ noted' = NoBlock
    /\ merged' = IF noted # NoBlock THEN noted ELSE merged
    /\ saving' = [entries |-> shards, last |-> merged']
    /\ writer' = "idle"
    /\ UNCHANGED <<tableVars, file, user, opens, move, shards, fresh, batch,
                   todo, lookupVars>>

\* The background save ends: the file is renamed into place, or is not.
EndSave ==
    /\ saving # NoFile
    /\ file' \in {saving, file}
    /\ saving' = NoFile
    /\ UNCHANGED <<tableVars, user, opens, move, memoryVars, writerVars,
                   lookupVars>>

----------------------------------------------------------------------------
(***************************************************************************)
(* Lookups: read_block_info of a block by its hash.                        *)
(***************************************************************************)

\* Mutant of LookRecent: the entries a merge is moving are passed over.
LookRecentFresh(t, b) ==
    /\ lookup[t] = "idle"
    /\ user = "node" /\ move = "done"
    /\ b \in byNumber
    /\ lookup' = [lookup EXCEPT ![t] = "locked"]
    /\ sought' = [sought EXCEPT ![t] = b]
    /\ numbers' = [numbers EXCEPT ![t] = RecentNumbers(fresh, b)]
    /\ UNCHANGED <<tableVars, file, user, opens, move, memoryVars, saving,
                   writerVars>>

\* candidates: under the lock on the recent entries ...
LookRecent(t, b) ==
    /\ lookup[t] = "idle"
    /\ user = "node" /\ move = "done"
    /\ b \in byNumber
    /\ lookup' = [lookup EXCEPT ![t] = "locked"]
    /\ sought' = [sought EXCEPT ![t] = b]
    /\ numbers' = [numbers EXCEPT ![t] = RecentNumbers(fresh \cup merging, b)]
    /\ UNCHANGED <<tableVars, file, user, opens, move, memoryVars, saving,
                   writerVars>>

\* ... the shard of its prefix is read.
LookShard(t) ==
    /\ lookup[t] = "locked"
    /\ lookup' = [lookup EXCEPT ![t] = "trying"]
    /\ numbers' = [numbers EXCEPT ![t] =
                      @ \cup ShardNumbers(shards[Shard[Prefix[sought[t]]]],
                                          sought[t])]
    /\ UNCHANGED <<tableVars, file, user, opens, move, memoryVars, saving,
                   writerVars, sought>>

\* Each candidate's record is tried; one with another hash is passed over.
TryNumber(t) ==
    /\ lookup[t] = "trying"
    /\ \E n \in numbers[t] :
          /\ lookup' = [lookup EXCEPT ![t] =
                          IF \E x \in byNumber : x = sought[t] /\ Number[x] = n
                          THEN "found" ELSE "trying"]
          /\ numbers' = [numbers EXCEPT ![t] = @ \ {n}]
    /\ UNCHANGED <<tableVars, file, user, opens, move, memoryVars, saving,
                   writerVars, sought>>

EndLookup(t) ==
    /\ \/ lookup[t] = "found"
       \/ lookup[t] = "trying" /\ numbers[t] = {}
    /\ lookup' = [lookup EXCEPT ![t] = "idle"]
    /\ sought' = [sought EXCEPT ![t] = NoBlock]
    /\ numbers' = [numbers EXCEPT ![t] = {}]
    /\ UNCHANGED <<tableVars, file, user, opens, move, memoryVars, saving,
                   writerVars>>

----------------------------------------------------------------------------
(***************************************************************************)
(* Rewinds and the end of the process.                                     *)
(***************************************************************************)

\* The rewind that truncates: the block tables end at b, then so does the head.
Truncate(b) ==
    /\ user = "truncate"
    /\ Ready
    /\ b \in canonical /\ Number[b] < Number[tip]
    /\ LET Kept(S) == {x \in S : x = NoBlock \/ Number[x] <= Number[b]}
       IN  /\ canonical' = Kept(canonical)
           /\ byHash' = Kept(byHash)
           /\ byNumber' = Kept(byNumber)
    /\ tip' = b
    /\ UNCHANGED <<file, user, opens, move, memoryVars, saving, writerVars,
                   lookupVars>>

\* The process ends, after the running save or, in a crash, without it.
Exit ==
    /\ user # "none"
    /\ user' = "none"
    /\ move' = "none"
    /\ EmptyIndex
    /\ file' \in IF saving = NoFile THEN {file} ELSE {file, saving}
    /\ saving' = NoFile
    /\ writer' = "idle"
    /\ batch' = <<>>
    /\ todo' = {}
    /\ lookup' = [t \in Lookups |-> "idle"]
    /\ sought' = [t \in Lookups |-> NoBlock]
    /\ numbers' = [t \in Lookups |-> {}]
    /\ UNCHANGED <<tableVars, opens>>

----------------------------------------------------------------------------

IndexInit ==
    /\ tip \in StartTips
    /\ canonical = Anc[tip]
    /\ \/ byHash = Anc[tip] /\ byNumber = None
       \/ byHash = None /\ byNumber = Anc[tip]
    /\ file = NoFile
    /\ user = "none"
    /\ opens = 0
    /\ move = "none"
    /\ shards = [s \in ShardIds |-> {}]
    /\ fresh = {} /\ merging = {}
    /\ noted = NoBlock /\ merged = NoBlock
    /\ saving = NoFile
    /\ writer = "idle" /\ batch = <<>> /\ todo = {}
    /\ lookup = [t \in Lookups |-> "idle"]
    /\ sought = [t \in Lookups |-> NoBlock]
    /\ numbers = [t \in Lookups |-> {}]

IndexNext ==
    \/ \E who \in {"node", "head_only", "truncate"}, e \in BOOLEAN : Open(who, e)
    \/ MoveIndex \/ MoveCopy \/ MoveDrop
    \/ \E bs \in Batches : BeginCommit(bs)
    \/ DropFile \/ Note \/ Write
    \/ SkipMerge \/ BeginMerge \/ (\E s \in ShardIds : MergeShard(s)) \/ EndMerge
    \/ EndSave
    \/ \E t \in Lookups : \/ \E b \in Blocks : LookRecent(t, b)
                          \/ LookShard(t) \/ TryNumber(t) \/ EndLookup(t)
    \/ \E b \in Blocks : Truncate(b)
    \/ Exit

IndexSpec == IndexInit /\ [][IndexNext]_indexVars

----------------------------------------------------------------------------
(***************************************************************************)
(* Properties.                                                             *)
(***************************************************************************)

\* Every variable keeps its type; a table keyed by number has one block of it.
IndexTypeOK ==
    /\ canonical \subseteq Blocks /\ tip \in canonical
    /\ byHash = None \/ byHash \subseteq Blocks
    /\ byNumber = None \/ byNumber \subseteq Blocks
    /\ \A S \in {canonical, byNumber} : \A x, y \in S \cap Blocks :
          Number[x] = Number[y] => x = y
    /\ user \in {"none", "node", "head_only", "truncate"}
    /\ move \in {"none", "off", "index", "copy", "drop", "done"}
    /\ writer \in {"idle", "note", "write", "written", "merge"}
    /\ {noted, merged, file.last, saving.last} \subseteq Blocks \cup {NoBlock}
    /\ todo \subseteq ShardIds
    /\ opens \in 0..MaxOpens

\* Wherever the move between the tables was interrupted, and whatever was
\* rewound and written since, the table in use has the info of every block of
\* the chain (the open of archive/mod.rs; copy_block_infos, drop_cf).
InfosComplete ==
    canonical \subseteq IF byHash = None THEN byNumber ELSE byHash

\* While the index is in use it has every record of CF 7: through a merge, a
\* load of a saved file, a rewind and a move no block becomes unfindable
\* (note, merge, open, rebuild).
IndexComplete ==
    move = "done" => \A b \in byNumber : Number[b] \in Candidates(b)

\* A lookup that ran out of candidates looked for a block that has meanwhile
\* been replaced: a reader that sees a block finds it, even one whose two
\* reads of the index lie on either side of a merge (candidates).
LookupFinds ==
    \A t \in Lookups : lookup[t] = "trying" /\ numbers[t] = {} =>
        sought[t] \notin byNumber

\* A file the next open would accept, or a save about to become one, has every
\* block of CF 3 up to its last: a head-only rewind that rewrites blocks below
\* a last block CF 3 still has drops the file before (note, open).
AcceptedFileComplete ==
    byHash = None => \A f \in {file, saving} : FileFits(f.last) =>
        \A b \in canonical : Number[b] <= Number[f.last] =>
            ShardEntry(Entry(b)) \in f.entries[Shard[Prefix[b]]]

\* The move never finds a block of the chain without its info, which would
\* fail every later open with the index enabled (copy_block_infos).
MoveNeverFails == move = "copy" => Cardinality(Copied) = IndexLen

\* What is on disk suffices for the next open, at whatever step of a commit, a
\* save, a move or a rewind the process ends (DataBaseRef::open_inner, note,
\* copy_block_infos).
NextOpenSound ==
    IndexTypeOK /\ InfosComplete /\ AcceptedFileComplete /\ MoveNeverFails

\* What is in memory finds every block there is, before, during and after a
\* merge (candidates, merge).
BlocksFound == IndexComplete /\ LookupFinds

AllEntries == {Entry(b) : b \in Blocks}
AllShards == [ShardIds -> SUBSET {ShardEntry(e) : e \in AllEntries}]

\* Block b is in the shards S, and is found there or among the recent entries.
InShards(b, S) == ShardEntry(Entry(b)) \in S[Shard[Prefix[b]]]
Indexed(b) == Entry(b) \in fresh \cup merging \/ InShards(b, shards)

\* The rest of the types.
EntryTypes ==
    /\ {file, saving} \subseteq [entries : AllShards, last : Blocks \cup {NoBlock}]
    /\ shards \in AllShards
    /\ fresh \subseteq AllEntries /\ merging \subseteq AllEntries
    /\ lookup \in [Lookups -> {"idle", "locked", "trying", "found"}]
    /\ sought \in [Lookups -> Blocks \cup {NoBlock}]
    /\ numbers \in [Lookups -> SUBSET Nat]
    /\ IsFiniteSet(canonical)

\* Which tables there are at each step of the move, and what it has left in
\* memory and in the file.
MoveInv ==
    /\ byHash = None => byNumber = canonical
    /\ move = "done" => byHash = None
    /\ move \in {"off", "index", "copy", "drop"} => byHash # None
    /\ move = "off" => byNumber = None
    /\ user = "none" <=> move = "none"
    /\ move \in {"none", "index", "copy", "drop"} => writer = "idle" /\ saving = NoFile
    /\ user = "truncate" => writer = "idle" /\ move \in {"off", "done"}
    /\ move \in {"copy", "drop"} =>
          /\ file = [entries |-> shards, last |-> merged]
          /\ shards = ShardsOf(canonical) /\ merged = NewestBlock(canonical)
          /\ fresh = {} /\ merging = {} /\ noted = NoBlock
    /\ move = "drop" => byNumber = canonical

\* What the committing thread has noted, moved and merged at each of its steps.
WriterInv ==
    /\ writer \in {"note", "write"} => batch \in Batches
    /\ move = "done" =>
          /\ \A b \in canonical : Indexed(b)
          /\ writer # "merge" => merging = {}
          /\ writer = "write" => /\ \A b \in BatchBlocks : Indexed(b)
                                 /\ noted = batch[Len(batch)] /\ ~Rewrites
          /\ writer \in {"written", "merge"} => noted \in canonical
          /\ writer = "merge" =>
                fresh = {} /\ \A s \in ShardIds \ todo : InShard(merging, s) \subseteq shards[s]

\* What may be on disk, or on its way there, while blocks are written: no later
\* block than the last merged one, which the chain still has.
FileInv ==
    move = "done" /\ user # "truncate" =>
        /\ merged # NoBlock => merged \in canonical
        /\ noted # NoBlock /\ merged # NoBlock =>
              noted = merged \/ Number[noted] > Number[merged]
        /\ \A f \in {file, saving} : f.last # NoBlock =>
              /\ merged # NoBlock
              /\ f.last = merged \/ Number[f.last] < Number[merged]

\* A lookup still has, or will read, the number of a block that is still there;
\* one that was replaced does not come back.
LookupInv ==
    \A t \in Lookups : lookup[t] # "idle" =>
        /\ user = "node" /\ move = "done"
        /\ sought[t] \in Blocks
        /\ sought[t] \notin canonical => Number[sought[t]] <= Number[tip]
        /\ sought[t] \in canonical =>
              /\ lookup[t] = "locked" =>
                    Number[sought[t]] \in numbers[t] \/ InShards(sought[t], shards)
              /\ lookup[t] = "trying" => Number[sought[t]] \in numbers[t]

\* What the steps of the index preserve.
IndexInv ==
    /\ IndexTypeOK /\ InfosComplete /\ AcceptedFileComplete
    /\ EntryTypes /\ MoveInv /\ WriterInv /\ FileInv /\ LookupInv
=============================================================================
