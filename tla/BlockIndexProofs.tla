-------------------------- MODULE BlockIndexProofs --------------------------
(***************************************************************************)
(* Proofs about the block index: what is on disk suffices for the next     *)
(* open, and what is in memory finds every block, for every tree of        *)
(* blocks, every number of lookups and every merge threshold.              *)
(***************************************************************************)
EXTENDS BlockIndex, BlockTreeTheorems, FiniteSetTheorems

----------------------------------------------------------------------------
(***************************************************************************)
(* The block index.                                                        *)
(***************************************************************************)

\* A chain of blocks is finite.
LEMMA AncFinite ==
  ASSUME NEW b \in Blocks
  PROVE  IsFiniteSet(Anc[b])
<1>1. PICK I : I = 0..Number[b]
  BY Zenon
<1>2. Number[b] \in Nat /\ Anc[b] \subseteq Blocks
  BY Zenon, AncSelf, BlocksAssumption
<1>3. \A x \in Anc[b] : Number[x] \in Nat /\ Number[x] <= Number[b]
  BY Zenon, <1>2, BlocksAssumption, ChainAssumption
<1>4. \A x \in Anc[b] : Number[x] \in I
  BY <1>1, <1>2, <1>3
<1>5. PICK f : f = [x \in Anc[b] |-> Number[x]]
  BY Zenon
<1>6. \A x, y \in Anc[b] : f[x] = f[y] => x = y
  BY Zenon, <1>5, AncUnique
<1>7. f \in Injection(Anc[b], I)
  <2>1. f \in [Anc[b] -> I]
    BY Zenon, <1>4, <1>5
  <2> QED
    BY Zenon, <1>6, <2>1 DEF Injection, IsInjective
<1>8. IsFiniteSet(I)
  <2>1. 0 \in Int /\ Number[b] \in Int
    BY <1>2
  <2> QED
    BY Zenon, <1>1, <2>1, FS_Interval
<1> QED
  BY Zenon, <1>7, <1>8, FS_Injection

\* Every nonempty finite set of blocks has a highest one.
LEMMA HighestIn ==
  ASSUME NEW S \in SUBSET Blocks, IsFiniteSet(S), S # {}
  PROVE  Top(S) \in S /\ \A y \in S : Number[y] <= Number[Top(S)]
<1>1. PICK A : A = [x \in S |-> {y \in S : Number[x] < Number[y]}]
  BY Zenon
<1>2. \A x \in S : A[x] = {y \in S : Number[x] < Number[y]}
  BY Zenon, <1>1
<1>3. \A x \in S : IsFiniteSet(A[x]) /\ Cardinality(A[x]) \in Nat
  <2>1. \A x \in S : A[x] \in SUBSET S
    BY Zenon, <1>2
  <2> QED
    BY Zenon, <2>1, FS_Subset, FS_CardinalityType
<1>4. PICK D : D = {Cardinality(A[x]) : x \in S}
  BY Zenon
<1>5. D \in SUBSET Nat /\ D # {}
  BY Zenon, <1>3, <1>4
<1>6. PICK n \in D : \A m \in D : n <= m
  BY Zenon, <1>5, LeastNatural
<1>7. PICK t \in S : n = Cardinality(A[t])
  BY Zenon, <1>4, <1>6
<1>8. ASSUME NEW y \in S
      PROVE  Number[y] <= Number[t]
  <2> SUFFICES ASSUME ~(Number[y] <= Number[t])
               PROVE  FALSE
    BY Zenon
  <2>1. Number[t] \in Nat /\ Number[y] \in Nat /\ Number[t] < Number[y]
    BY BlocksAssumption
  <2>2. A[y] \subseteq A[t]
    <3> SUFFICES ASSUME NEW z \in A[y]
                 PROVE  z \in A[t]
      BY Zenon
    <3>1. z \in S /\ Number[y] < Number[z]
      BY Zenon, <1>2
    <3>2. Number[z] \in Nat
      BY Zenon, <3>1, BlocksAssumption
    <3>3. Number[t] < Number[z]
      BY <2>1, <3>1, <3>2
    <3> QED
      BY Zenon, <1>2, <3>1, <3>3
  <2>3. y \in A[t] /\ y \notin A[y]
    <3>1. ~(Number[y] < Number[y])
      BY <2>1
    <3> QED
      BY Zenon, <1>2, <2>1, <3>1
  <2>4. A[t] # A[y]
    BY Zenon, <2>3
  <2>5. /\ Cardinality(A[y]) <= Cardinality(A[t])
        /\ Cardinality(A[t]) # Cardinality(A[y])
    BY Zenon, <1>3, <2>2, <2>4, FS_Subset
  <2>6. n <= Cardinality(A[y])
    BY Zenon, <1>4, <1>6
  <2>7. Cardinality(A[y]) \in Nat /\ Cardinality(A[t]) \in Nat
    BY Zenon, <1>3
  <2> QED
    BY <1>7, <2>5, <2>6, <2>7
<1> QED
  BY Zenon, <1>7, <1>8 DEF Top

\* The parts of an entry.
LEMMA EntryFields ==
  ASSUME NEW b
  PROVE  /\ Entry(b)[1] = Prefix[b] /\ Entry(b)[2] = Number[b]
         /\ ShardEntry(Entry(b)) = <<Code[Prefix[b]], Number[b]>>
BY DEF Entry, ShardEntry

\* A recent entry goes to the shard of its prefix, and keeps its type there.
LEMMA InShardHas ==
  ASSUME NEW E \in SUBSET AllEntries
  PROVE  /\ \A b \in Blocks : Entry(b) \in E =>
               ShardEntry(Entry(b)) \in InShard(E, Shard[Prefix[b]])
         /\ \A s : InShard(E, s) \subseteq {ShardEntry(e) : e \in AllEntries}
<1>1. ASSUME NEW b \in Blocks, Entry(b) \in E
      PROVE  ShardEntry(Entry(b)) \in InShard(E, Shard[Prefix[b]])
  <2>1. Shard[Entry(b)[1]] = Shard[Prefix[b]]
    BY Zenon, EntryFields
  <2> QED
    BY Zenon, <1>1, <2>1 DEF InShard
<1>2. ASSUME NEW s
      PROVE  InShard(E, s) \subseteq {ShardEntry(e) : e \in AllEntries}
  BY Zenon DEF InShard
<1> QED
  BY Zenon, <1>1, <1>2

\* The shards built from a set of blocks (build) have these blocks and no other:
\* two blocks of one number never share shard and code.
LEMMA ShardsOfIs ==
  ASSUME NEW S \in SUBSET Blocks
  PROVE  /\ ShardsOf(S) \in AllShards
         /\ \A b \in Blocks : InShards(b, ShardsOf(S)) <=> b \in S
<1>1. PICK E : E = {Entry(b) : b \in S}
  BY Zenon
<1>2. E \in SUBSET AllEntries
  BY Zenon, <1>1 DEF AllEntries
<1>3. ShardsOf(S) = [s \in ShardIds |-> InShard(E, s)]
  BY Zenon, <1>1 DEF ShardsOf
<1>4. ShardsOf(S) \in AllShards
  <2>1. \A s \in ShardIds : InShard(E, s) \in SUBSET {ShardEntry(e) : e \in AllEntries}
    BY Zenon, <1>2, InShardHas
  <2>2. [s \in ShardIds |-> InShard(E, s)] \in [ShardIds -> SUBSET {ShardEntry(e) : e \in AllEntries}]
    BY <2>1
  <2> QED
    BY Zenon, <1>3, <2>2 DEF AllShards
<1>5. ASSUME NEW b \in Blocks
      PROVE  InShards(b, ShardsOf(S)) <=> b \in S
  <2>1. Shard[Prefix[b]] \in ShardIds
    BY Zenon DEF ShardIds
  <2>2. InShards(b, ShardsOf(S)) <=> ShardEntry(Entry(b)) \in InShard(E, Shard[Prefix[b]])
    BY Zenon, <1>3, <2>1 DEF InShards
  <2>3. b \in S => ShardEntry(Entry(b)) \in InShard(E, Shard[Prefix[b]])
    BY Zenon, <1>1, <1>2, InShardHas
  <2>4. ASSUME ShardEntry(Entry(b)) \in InShard(E, Shard[Prefix[b]])
        PROVE  b \in S
    <3>1. PICK e \in E : Shard[e[1]] = Shard[Prefix[b]] /\ ShardEntry(Entry(b)) = ShardEntry(e)
      BY Zenon, <2>4 DEF InShard
    <3>2. PICK c \in S : e = Entry(c)
      BY Zenon, <1>1, <3>1
    <3>3. /\ Shard[Prefix[c]] = Shard[Prefix[b]]
          /\ <<Code[Prefix[b]], Number[b]>> = <<Code[Prefix[c]], Number[c]>>
      BY Zenon, <3>1, <3>2, EntryFields
    <3>4. Code[Prefix[b]] = Code[Prefix[c]] /\ Number[b] = Number[c]
      BY <3>3
    <3>5. c \in Blocks
      BY Zenon
    <3> QED
      BY Zenon, <3>3, <3>4, <3>5, BlockIndexAssumption
  <2> QED
    BY Zenon, <2>2, <2>3, <2>4
<1> QED
  BY Zenon, <1>4, <1>5

\* A shard has the number of a block exactly when it has its entry.
LEMMA ShardNumbersHas ==
  ASSUME NEW S \in AllShards, NEW b \in Blocks
  PROVE  Number[b] \in ShardNumbers(S[Shard[Prefix[b]]], b) <=> InShards(b, S)
<1>1. PICK E : E = S[Shard[Prefix[b]]]
  BY Zenon
<1>2. ASSUME InShards(b, S)
      PROVE  Number[b] \in ShardNumbers(E, b)
  <2>1. PICK e \in E : e = <<Code[Prefix[b]], Number[b]>>
    BY Zenon, <1>1, <1>2, EntryFields DEF InShards
  <2>2. e[1] = Code[Prefix[b]] /\ e[2] = Number[b]
    BY <2>1
  <2> QED
    BY Zenon, <2>2 DEF ShardNumbers
<1>3. ASSUME Number[b] \in ShardNumbers(E, b)
      PROVE  InShards(b, S)
  <2>1. PICK e \in E : e[1] = Code[Prefix[b]] /\ e[2] = Number[b]
    BY Zenon, <1>3 DEF ShardNumbers
  <2>2. Shard[Prefix[b]] \in ShardIds
    BY Zenon DEF ShardIds
  <2>3. PICK c \in Blocks : e = ShardEntry(Entry(c))
    BY Zenon, <1>1, <2>1, <2>2 DEF AllShards, AllEntries
  <2>4. e = <<Code[Prefix[c]], Number[c]>>
    BY Zenon, <2>3, EntryFields
  <2>5. e = <<Code[Prefix[b]], Number[b]>>
    BY <2>1, <2>4
  <2> QED
    BY Zenon, <1>1, <2>1, <2>5, EntryFields DEF InShards
<1> QED
  BY Zenon, <1>1, <1>2, <1>3

\* The candidates of an indexed block have its number (candidates).
LEMMA IndexedIsCandidate ==
  ASSUME shards \in AllShards, NEW b \in Blocks
  PROVE  /\ Indexed(b) => Number[b] \in Candidates(b)
         /\ Entry(b) \in fresh \cup merging
               => Number[b] \in RecentNumbers(fresh \cup merging, b)
<1>1. ASSUME Entry(b) \in fresh \cup merging
      PROVE  Number[b] \in RecentNumbers(fresh \cup merging, b)
  <2>1. PICK e \in fresh \cup merging : e = Entry(b)
    BY Zenon, <1>1
  <2>2. e[1] = Prefix[b] /\ e[2] = Number[b]
    BY Zenon, <2>1, EntryFields
  <2> QED
    BY Zenon, <2>2 DEF RecentNumbers
<1>2. InShards(b, shards) => Number[b] \in ShardNumbers(shards[Shard[Prefix[b]]], b)
  BY Zenon, ShardNumbersHas
<1> QED
  BY Zenon, <1>1, <1>2 DEF Candidates, Indexed

\* The blocks of a batch: the next block on the head, with the head before it
\* or not, or a block of the chain below the head (Batches).
LEMMA BatchIs ==
  ASSUME IndexTypeOK, batch \in Batches
  PROVE  \E l \in Blocks :
           /\ batch[Len(batch)] = l /\ l \in BatchBlocks
           /\ BatchBlocks \subseteq {tip, l}
           /\ \/ user = "node" /\ Number[l] = Number[tip] + 1
              \/ user = "head_only" /\ l \in canonical
<1>1. tip \in canonical /\ canonical \subseteq Blocks
  BY Zenon DEF IndexTypeOK
<1>2. CASE user = "node"
  <2>1. Batches = UNION {{<<b>>, <<tip, b>>} :
                           b \in {b \in Blocks \ {Genesis} : Parent[b] = tip}}
    BY <1>2 DEF Batches
  <2>2. PICK l \in Blocks \ {Genesis} : Parent[l] = tip /\ batch \in {<<l>>, <<tip, l>>}
    BY Zenon, <2>1
  <2>3. Number[l] = Number[tip] + 1
    BY Zenon, <2>2, ParentAssumption
  <2>4. CASE batch = <<l>>
    <3>1. batch[Len(batch)] = l /\ DOMAIN batch = {1} /\ batch[1] = l
      BY <2>4
    <3>2. BatchBlocks = {l}
      BY Zenon, <3>1 DEF BatchBlocks
    <3> QED
      BY Zenon, <1>2, <2>2, <2>3, <3>1, <3>2
  <2>5. CASE batch = <<tip, l>>
    <3>1. /\ batch[Len(batch)] = l /\ DOMAIN batch = {1, 2}
          /\ batch[1] = tip /\ batch[2] = l
      BY <2>5
    <3>2. BatchBlocks = {tip, l}
      BY Zenon, <3>1 DEF BatchBlocks
    <3> QED
      BY Zenon, <1>2, <2>2, <2>3, <3>1, <3>2
  <2> QED
    BY Zenon, <2>2, <2>4, <2>5
<1>3. CASE user = "head_only"
  <2>1. Batches = {<<b>> : b \in {b \in canonical : Number[b] < Number[tip]}}
    BY <1>3 DEF Batches
  <2>2. PICK l \in canonical : batch = <<l>>
    BY Zenon, <2>1
  <2>3. batch[Len(batch)] = l /\ DOMAIN batch = {1} /\ batch[1] = l
    BY <2>2
  <2>4. BatchBlocks = {l}
    BY Zenon, <2>3 DEF BatchBlocks
  <2> QED
    BY Zenon, <1>1, <1>3, <2>2, <2>3, <2>4
<1>4. user \in {"node", "head_only"}
  <2> SUFFICES ASSUME user # "node", user # "head_only"
               PROVE  FALSE
    BY Zenon
  <2>1. Batches = {}
    BY DEF Batches
  <2> QED
    BY Zenon, <2>1
<1> QED
  BY Zenon, <1>2, <1>3, <1>4

\* A write puts at most one block into the chain that was not there: it takes
\* the place of the block of its number.
LEMMA PutIs ==
  ASSUME NEW S \in SUBSET Blocks, NEW B \in SUBSET Blocks, NEW h \in S, NEW l \in B,
         B \subseteq {h, l},
         \A x, y \in S : Number[x] = Number[y] => x = y,
         l \in S \/ Number[h] # Number[l]
  PROVE  PutBlocks(S, B) = {x \in S : Number[x] # Number[l]} \cup {l}
<1>1. h = l \/ Number[h] # Number[l]
  BY Zenon
<1>2. ASSUME NEW x \in PutBlocks(S, B)
      PROVE  x \in {y \in S : Number[y] # Number[l]} \cup {l}
  BY Zenon, <1>1, <1>2 DEF PutBlocks
<1>3. ASSUME NEW x \in {y \in S : Number[y] # Number[l]} \cup {l}
      PROVE  x \in PutBlocks(S, B)
  <2>1. CASE x = l
    BY Zenon, <2>1 DEF PutBlocks
  <2>2. CASE x \in B
    BY Zenon, <2>2 DEF PutBlocks
  <2>3. CASE x \in S /\ Number[x] # Number[l] /\ x \notin B
    <3>1. \A b \in B : Number[x] # Number[b]
      BY Zenon, <2>3
    <3> QED
      BY Zenon, <2>3, <3>1 DEF PutBlocks
  <2> QED
    BY Zenon, <1>3, <2>1, <2>2, <2>3
<1> QED
  BY Zenon, <1>2, <1>3

\* The newest block of the chain (NewestBlock).
LEMMA NewestIs ==
  ASSUME NEW S \in SUBSET Blocks, IsFiniteSet(S), S # {}
  PROVE  /\ NewestBlock(S) \in S /\ NewestBlock(S) # NoBlock
         /\ \A y \in S : Number[y] <= Number[NewestBlock(S)]
<1>1. NewestBlock(S) = Top(S)
  BY Zenon DEF NewestBlock
<1>2. Top(S) \in S /\ \A y \in S : Number[y] <= Number[Top(S)]
  BY Zenon, HighestIn
<1> QED
  BY Zenon, <1>1, <1>2, BlockIndexAssumption

\* A record with no entries and no last block is a file's type.
LEMMA NoFileIs ==
  /\ NoFile \in [entries : AllShards, last : Blocks \cup {NoBlock}]
  /\ NoFile.last = NoBlock
<1>1. [s \in ShardIds |-> {}] \in AllShards
  BY DEF AllShards
<1>2. NoFile.last = NoBlock
  BY DEF NoFile
<1>3. NoFile \in [entries : AllShards, last : Blocks \cup {NoBlock}]
  BY <1>1 DEF NoFile
<1> QED
  BY Zenon, <1>2, <1>3

\* What a conjunct of the invariant is about, and a step leaves alone, stays so.
LEMMA TypeStays ==
  ASSUME IndexTypeOK,
         UNCHANGED <<canonical, byHash, byNumber, tip, user, opens>>,
         move' \in {"none", "off", "index", "copy", "drop", "done"},
         writer' \in {"idle", "note", "write", "written", "merge"},
         {noted', merged', file'.last, saving'.last} \subseteq Blocks \cup {NoBlock},
         todo' \subseteq ShardIds
  PROVE  IndexTypeOK'
BY Zenon DEF IndexTypeOK

\* The same of the infos.
LEMMA InfosStay ==
  ASSUME InfosComplete, UNCHANGED <<canonical, byHash, byNumber>>
  PROVE  InfosComplete'
BY Zenon DEF InfosComplete

\* The same of the files a step keeps or forgets.
LEMMA FilesStay ==
  ASSUME AcceptedFileComplete, UNCHANGED <<canonical, byHash>>,
         {file', saving'} \subseteq {file, saving, NoFile}
  PROVE  AcceptedFileComplete'
<1> SUFFICES ASSUME byHash' = None, NEW f \in {file', saving'}, FileFits(f.last)',
                    NEW b \in canonical', Number[b] <= Number[f.last]
             PROVE  ShardEntry(Entry(b)) \in f.entries[Shard[Prefix[b]]]
  BY Zenon DEF AcceptedFileComplete
<1>1. f.last # NoBlock /\ f.last \in canonical
  BY Zenon DEF FileFits
<1>2. f \in {file, saving}
  BY Zenon, <1>1, NoFileIs
<1> QED
  BY Zenon, <1>1, <1>2 DEF AcceptedFileComplete, FileFits

\* The same of the committing thread.
LEMMA WriterStays ==
  ASSUME WriterInv,
         UNCHANGED <<canonical, tip, user, move, fresh, merging, shards, noted, merged,
                     writer, batch, todo>>
  PROVE  WriterInv'
<1>1. Batches' = Batches /\ BatchBlocks' = BatchBlocks /\ (Rewrites' <=> Rewrites)
  <2>1. Batches' = Batches
    BY DEF Batches
  <2>2. BatchBlocks' = BatchBlocks
    BY Zenon DEF BatchBlocks
  <2> QED
    BY Zenon, <2>1, <2>2 DEF Rewrites
<1>2. \A b : Indexed(b)' <=> Indexed(b)
  BY Zenon DEF Indexed, InShards
<1>3. (writer' \in {"note", "write"} => batch' \in Batches')
  BY Zenon, <1>1 DEF WriterInv
<1>4. ASSUME move' = "done"
      PROVE  /\ \A b \in canonical' : Indexed(b)'
             /\ writer' # "merge" => merging' = {}
             /\ writer' = "write" => /\ \A b \in BatchBlocks' : Indexed(b)'
                                     /\ noted' = batch'[Len(batch')] /\ ~Rewrites'
             /\ writer' \in {"written", "merge"} => noted' \in canonical'
             /\ writer' = "merge" =>
                   fresh' = {} /\ \A s \in ShardIds \ todo' : InShard(merging', s) \subseteq shards'[s]
  <2>1. move = "done"
    BY Zenon, <1>4
  <2> QED
    BY Zenon, <1>1, <1>2, <2>1 DEF WriterInv
<1> QED
  BY Zenon, <1>3, <1>4 DEF WriterInv

\* The same of what is on disk.
LEMMA FileStays ==
  ASSUME FileInv, UNCHANGED <<canonical, move, user, merged, noted>>,
         {file', saving'} \subseteq {file, saving, NoFile}
  PROVE  FileInv'
<1> SUFFICES ASSUME move' = "done", user' # "truncate"
             PROVE  /\ merged' # NoBlock => merged' \in canonical'
                    /\ noted' # NoBlock /\ merged' # NoBlock =>
                          noted' = merged' \/ Number[noted'] > Number[merged']
                    /\ \A f \in {file', saving'} : f.last # NoBlock =>
                          /\ merged' # NoBlock
                          /\ f.last = merged' \/ Number[f.last] < Number[merged']
  BY Zenon DEF FileInv
<1>1. move = "done" /\ user # "truncate"
  BY Zenon
<1>2. ASSUME NEW f \in {file', saving'}, f.last # NoBlock
      PROVE  /\ merged' # NoBlock
             /\ f.last = merged' \/ Number[f.last] < Number[merged']
  <2>1. f \in {file, saving}
    BY Zenon, <1>2, NoFileIs
  <2> QED
    BY Zenon, <1>1, <1>2, <2>1 DEF FileInv
<1> QED
  BY Zenon, <1>1, <1>2 DEF FileInv

\* The same of the lookups.
LEMMA LookupStays ==
  ASSUME LookupInv,
         UNCHANGED <<canonical, tip, user, move, lookup, sought, numbers, shards>>
  PROVE  LookupInv'
BY Zenon DEF LookupInv, InShards

\* No lookup runs before the index is in use.
LEMMA NoLookups ==
  ASSUME LookupInv, user # "node" \/ move # "done", UNCHANGED lookup
  PROVE  LookupInv'
BY Zenon DEF LookupInv

\* The same of the entries.
LEMMA EntriesStay ==
  ASSUME EntryTypes, UNCHANGED <<canonical, lookup, sought, numbers>>,
         {file', saving'} \subseteq {file, saving, NoFile},
         shards' \in AllShards, fresh' \subseteq AllEntries, merging' \subseteq AllEntries
  PROVE  EntryTypes'
<1>1. {file', saving'} \subseteq [entries : AllShards, last : Blocks \cup {NoBlock}]
  <2>1. PICK R : R = [entries : AllShards, last : Blocks \cup {NoBlock}]
    BY Zenon
  <2>2. NoFile \in R /\ file \in R /\ saving \in R
    BY <2>1, NoFileIs DEF EntryTypes
  <2>3. {file', saving'} \subseteq R
    BY Zenon, <2>2
  <2> QED
    BY Zenon, <2>1, <2>3
<1> QED
  BY Zenon, <1>1 DEF EntryTypes

\* The last blocks of the files a step keeps.
LEMMA LastsStay ==
  ASSUME IndexTypeOK, {file', saving'} \subseteq {file, saving, NoFile}
  PROVE  {file'.last, saving'.last} \subseteq Blocks \cup {NoBlock}
<1>1. file.last \in Blocks \cup {NoBlock} /\ saving.last \in Blocks \cup {NoBlock}
  BY Zenon DEF IndexTypeOK
<1>2. NoFile.last \in Blocks \cup {NoBlock}
  BY Zenon, NoFileIs
<1>3. file' \in {file, saving, NoFile} /\ saving' \in {file, saving, NoFile}
  BY Zenon
<1>4. file'.last \in Blocks \cup {NoBlock}
  BY Zenon, <1>1, <1>2, <1>3
<1>5. saving'.last \in Blocks \cup {NoBlock}
  BY Zenon, <1>1, <1>2, <1>3
<1> QED
  BY Zenon, <1>4, <1>5

\* A step of a commit or of a save: the tables of the move are as they were.
LEMMA MoveStays ==
  ASSUME MoveInv, move \in {"off", "done"},
         UNCHANGED <<canonical, byHash, byNumber, user, move>>,
         user = "truncate" => writer' = "idle"
  PROVE  MoveInv'
<1>1. move' \notin {"none", "index", "copy", "drop"}
  <2>1. "off" \notin {"none", "index", "copy", "drop"} /\ "done" \notin {"none", "index", "copy", "drop"}
    OBVIOUS
  <2> QED
    BY Zenon, <2>1
<1>2. move' # "copy" /\ move' # "drop" /\ move' # "none" /\ move' # "index"
  BY Zenon, <1>1
<1> QED
  BY Zenon, <1>1, <1>2 DEF MoveInv

\* A commit only runs when there is nothing to move.
LEMMA Committing ==
  ASSUME IndexTypeOK, MoveInv, writer # "idle" \/ saving # NoFile
  PROVE  /\ move \in {"off", "done"}
         /\ user # "truncate" \/ writer = "idle"
<1>1. move \notin {"none", "index", "copy", "drop"}
  BY Zenon DEF MoveInv
<1>2. move \in {"none", "off", "index", "copy", "drop", "done"}
  BY Zenon DEF IndexTypeOK
<1>3. move \in {"off", "done"}
  BY <1>1, <1>2
<1> QED
  BY Zenon, <1>3 DEF MoveInv

\* A commit starts.
LEMMA BeginCommitKeeps ==
  ASSUME IndexInv, NEW bs, BeginCommit(bs)
  PROVE  IndexInv'
<1>1. /\ IndexTypeOK /\ InfosComplete /\ AcceptedFileComplete /\ EntryTypes
      /\ MoveInv /\ WriterInv /\ FileInv /\ LookupInv
  BY Zenon DEF IndexInv
<1>2. /\ writer = "idle" /\ move \in {"done", "off"} /\ bs \in Batches /\ batch' = bs
      /\ writer' = IF move = "off" THEN "write" ELSE "note"
      /\ UNCHANGED <<canonical, byHash, byNumber, tip>>
      /\ UNCHANGED <<file, user, opens, move, saving, todo>>
      /\ UNCHANGED <<shards, fresh, merging, noted, merged>>
      /\ UNCHANGED <<lookup, sought, numbers>>
  BY Zenon DEF BeginCommit, Ready, tableVars, memoryVars, lookupVars
<1>3. writer' \in {"write", "note"} /\ (writer' = "write" => move = "off")
  BY <1>2
<1>4. Batches' = Batches
  BY <1>2 DEF Batches
<1>5. user # "truncate"
  <2> SUFFICES ASSUME user = "truncate"
               PROVE  FALSE
    BY Zenon
  <2>1. Batches = {}
    BY DEF Batches
  <2> QED
    BY Zenon, <1>2, <2>1
<1>6. IndexTypeOK'
  <2>1. writer' \in {"idle", "note", "write", "written", "merge"}
    BY Zenon, <1>3
  <2> QED
    BY Zenon, <1>1, <1>2, <2>1, TypeStays DEF IndexTypeOK
<1>7. InfosComplete' /\ AcceptedFileComplete' /\ FileInv'
  BY Zenon, <1>1, <1>2, InfosStay, FilesStay, FileStays
<1>8. EntryTypes'
  BY Zenon, <1>1, <1>2, EntriesStay DEF EntryTypes
<1>9. MoveInv'
  BY Zenon, <1>1, <1>2, <1>5, MoveStays
<1>10. WriterInv'
  <2>1. writer' # "merge" /\ writer' # "written"
    BY <1>3
  <2>2. ASSUME move' = "done"
        PROVE  writer' # "write" /\ merging' = {} /\ \A b \in canonical' : Indexed(b)'
    <3>1. move = "done" /\ move # "off" /\ writer # "merge"
      BY <1>2, <2>2
    <3> QED
      BY Zenon, <1>1, <1>2, <1>3, <3>1 DEF WriterInv, Indexed, InShards
  <2> QED
    BY Zenon, <1>2, <1>4, <2>1, <2>2 DEF WriterInv
<1>11. LookupInv'
  BY Zenon, <1>1, <1>2, LookupStays
<1> QED
  BY Zenon, <1>6, <1>7, <1>8, <1>9, <1>10, <1>11 DEF IndexInv

\* The file goes before a block it covers is written again.
LEMMA DropFileKeeps ==
  ASSUME IndexInv, DropFile
  PROVE  IndexInv'
<1>1. /\ IndexTypeOK /\ InfosComplete /\ AcceptedFileComplete /\ EntryTypes
      /\ MoveInv /\ WriterInv /\ FileInv /\ LookupInv
  BY Zenon DEF IndexInv
<1>2. /\ writer = "note" /\ saving = NoFile
      /\ UNCHANGED <<canonical, byHash, byNumber, tip>>
      /\ UNCHANGED <<user, opens, move, shards, fresh, merging, noted, saving, todo>>
      /\ UNCHANGED <<lookup, sought, numbers>>
  BY Zenon DEF DropFile, tableVars, lookupVars
<1>3. \/ file' = NoFile /\ merged' = NoBlock /\ writer' = writer /\ batch' = batch
      \/ writer' = "idle" /\ file' = file /\ merged' = merged
  BY Zenon DEF DropFile
<1>4. writer # "idle" /\ writer' \in {"note", "idle"} /\ "note" # "merge" /\ "idle" # "merge"
  BY <1>2, <1>3
<1>5. move \in {"off", "done"} /\ user # "truncate"
  BY Zenon, <1>1, <1>4, Committing
<1>6. {file', saving'} \subseteq {file, saving, NoFile}
  BY Zenon, <1>2, <1>3
<1>7. IndexTypeOK'
  <2>1. {noted', merged'} \subseteq Blocks \cup {NoBlock}
    BY Zenon, <1>1, <1>2, <1>3 DEF IndexTypeOK
  <2>2. {file'.last, saving'.last} \subseteq Blocks \cup {NoBlock}
    BY Zenon, <1>1, <1>6, LastsStay
  <2>3. writer' \in {"idle", "note", "write", "written", "merge"}
    BY Zenon, <1>4
  <2> QED
    BY Zenon, <1>1, <1>2, <2>1, <2>2, <2>3, TypeStays DEF IndexTypeOK
<1>8. InfosComplete' /\ AcceptedFileComplete'
  BY Zenon, <1>1, <1>2, <1>6, InfosStay, FilesStay
<1>9. EntryTypes'
  BY Zenon, <1>1, <1>2, <1>6, EntriesStay DEF EntryTypes
<1>10. MoveInv'
  BY Zenon, <1>1, <1>2, <1>5, MoveStays
<1>11. WriterInv'
  <2>1. writer' \in {"note", "write"} => batch' \in Batches'
    <3>1. Batches' = Batches
      BY <1>2 DEF Batches
    <3>2. writer' = "idle" => writer' \notin {"note", "write"}
      BY <1>3
    <3> QED
      BY Zenon, <1>1, <1>2, <1>3, <3>1, <3>2 DEF WriterInv
  <2>2. writer' # "write" /\ writer' # "merge" /\ writer' # "written"
    BY <1>4
  <2>3. ASSUME move' = "done"
        PROVE  merging' = {} /\ \A b \in canonical' : Indexed(b)'
    <3>1. writer # "merge"
      BY <1>2
    <3> QED
      BY Zenon, <1>1, <1>2, <2>3, <3>1 DEF WriterInv, Indexed, InShards
  <2> QED
    BY Zenon, <2>1, <2>2, <2>3 DEF WriterInv
<1>12. FileInv'
  <2>1. CASE file' = file /\ merged' = merged
    BY Zenon, <1>1, <1>2, <2>1, FileStays
  <2>2. CASE file' = NoFile /\ merged' = NoBlock
    BY Zenon, <1>2, <2>2, NoFileIs DEF FileInv
  <2> QED
    BY Zenon, <1>3, <2>1, <2>2
<1>13. LookupInv'
  BY Zenon, <1>1, <1>2, LookupStays
<1> QED
  BY Zenon, <1>7, <1>8, <1>9, <1>10, <1>11, <1>12, <1>13 DEF IndexInv

\* The blocks of a commit are noted.
LEMMA NoteKeeps ==
  ASSUME IndexInv, Note
  PROVE  IndexInv'
<1>1. /\ IndexTypeOK /\ InfosComplete /\ AcceptedFileComplete /\ EntryTypes
      /\ MoveInv /\ WriterInv /\ FileInv /\ LookupInv
  BY Zenon DEF IndexInv
<1>2. /\ writer = "note" /\ ~Rewrites /\ writer' = "write"
      /\ fresh' = fresh \cup {Entry(b) : b \in BatchBlocks}
      /\ noted' = batch[Len(batch)]
      /\ UNCHANGED <<canonical, byHash, byNumber, tip>>
      /\ UNCHANGED <<file, user, opens, move, shards, merging, merged, saving, batch, todo>>
      /\ UNCHANGED <<lookup, sought, numbers>>
  BY Zenon DEF Note, tableVars, lookupVars
<1>3. writer # "idle" /\ writer \in {"note", "write"} /\ writer # "merge"
  BY <1>2
<1>4. move \in {"off", "done"} /\ user # "truncate"
  BY Zenon, <1>1, <1>3, Committing
<1>5. batch \in Batches
  BY Zenon, <1>1, <1>3 DEF WriterInv
<1>6. PICK l \in Blocks : /\ batch[Len(batch)] = l /\ l \in BatchBlocks
                          /\ BatchBlocks \subseteq {tip, l}
  BY Zenon, <1>1, <1>5, BatchIs
<1>7. BatchBlocks \subseteq Blocks
  BY Zenon, <1>1, <1>6 DEF IndexTypeOK
<1>8. IndexTypeOK'
  <2>1. {noted', merged', file'.last, saving'.last} \subseteq Blocks \cup {NoBlock}
    <3>1. noted' \in Blocks
      BY Zenon, <1>2, <1>6
    <3>2. {merged, file.last, saving.last} \subseteq Blocks \cup {NoBlock}
      BY Zenon, <1>1 DEF IndexTypeOK
    <3>3. merged' = merged /\ file' = file /\ saving' = saving
      BY Zenon, <1>2
    <3> QED
      BY Zenon, <3>1, <3>2, <3>3
  <2>2. writer' \in {"idle", "note", "write", "written", "merge"}
    BY Zenon, <1>2
  <2> QED
    BY Zenon, <1>1, <1>2, <2>1, <2>2, TypeStays DEF IndexTypeOK
<1>9. InfosComplete' /\ AcceptedFileComplete'
  BY Zenon, <1>1, <1>2, InfosStay, FilesStay
<1>10. EntryTypes'
  <2>1. fresh' \subseteq AllEntries
    BY Zenon, <1>1, <1>2, <1>7 DEF EntryTypes, AllEntries
  <2> QED
    BY Zenon, <1>1, <1>2, <2>1, EntriesStay DEF EntryTypes
<1>11. MoveInv'
  BY Zenon, <1>1, <1>2, <1>4, MoveStays
<1>12. WriterInv'
  <2>1. Batches' = Batches /\ BatchBlocks' = BatchBlocks /\ ~Rewrites'
    <3>1. Batches' = Batches
      BY <1>2 DEF Batches
    <3>2. BatchBlocks' = BatchBlocks
      BY Zenon, <1>2 DEF BatchBlocks
    <3> QED
      BY Zenon, <1>2, <3>1, <3>2 DEF Rewrites
  <2>2. writer' # "merge" /\ writer' # "written"
    BY <1>2
  <2>3. ASSUME move' = "done"
        PROVE  /\ merging' = {} /\ \A b \in canonical' : Indexed(b)'
               /\ \A b \in BatchBlocks' : Indexed(b)'
    <3>1. merging = {} /\ \A b \in canonical : Indexed(b)
      BY Zenon, <1>1, <1>2, <1>3, <2>3 DEF WriterInv
    <3>2. \A b : Indexed(b) => Indexed(b)'
      BY Zenon, <1>2 DEF Indexed, InShards
    <3>3. \A b \in BatchBlocks : Indexed(b)'
      BY Zenon, <1>2 DEF Indexed
    <3> QED
      BY Zenon, <1>2, <2>1, <3>1, <3>2, <3>3
  <2> QED
    BY Zenon, <1>2, <1>5, <2>1, <2>2, <2>3 DEF WriterInv
<1>13. FileInv'
  <2> SUFFICES ASSUME move = "done", merged # NoBlock
               PROVE  noted' = merged \/ Number[noted'] > Number[merged]
    BY Zenon, <1>1, <1>2 DEF FileInv
  <2>1. ~(Number[l] < Number[merged]) /\ (Number[l] = Number[merged] => l = merged)
    BY Zenon, <1>2, <1>6 DEF Rewrites
  <2>2. Number[l] \in Nat /\ Number[merged] \in Nat
    BY Zenon, <1>1, <1>6, BlocksAssumption DEF IndexTypeOK
  <2> QED
    BY <1>2, <1>6, <2>1, <2>2
<1>14. LookupInv'
  BY Zenon, <1>1, <1>2, LookupStays
<1> QED
  BY Zenon, <1>8, <1>9, <1>10, <1>11, <1>12, <1>13, <1>14 DEF IndexInv

\* A commit ends without a merge.
LEMMA SkipMergeKeeps ==
  ASSUME IndexInv, SkipMerge
  PROVE  IndexInv'
<1>1. /\ IndexTypeOK /\ InfosComplete /\ AcceptedFileComplete /\ EntryTypes
      /\ MoveInv /\ WriterInv /\ FileInv /\ LookupInv
  BY Zenon DEF IndexInv
<1>2. /\ writer = "written" /\ writer' = "idle"
      /\ UNCHANGED <<canonical, byHash, byNumber, tip>>
      /\ UNCHANGED <<file, user, opens, move, saving, batch, todo>>
      /\ UNCHANGED <<shards, fresh, merging, noted, merged>>
      /\ UNCHANGED <<lookup, sought, numbers>>
  BY Zenon DEF SkipMerge, tableVars, memoryVars, lookupVars
<1>3. writer # "idle" /\ writer # "merge"
  BY <1>2
<1>4. move \in {"off", "done"}
  BY Zenon, <1>1, <1>3, Committing
<1>5. IndexTypeOK'
  <2>1. writer' \in {"idle", "note", "write", "written", "merge"}
    BY Zenon, <1>2
  <2> QED
    BY Zenon, <1>1, <1>2, <2>1, TypeStays DEF IndexTypeOK
<1>6. InfosComplete' /\ AcceptedFileComplete' /\ FileInv'
  BY Zenon, <1>1, <1>2, InfosStay, FilesStay, FileStays
<1>7. EntryTypes'
  BY Zenon, <1>1, <1>2, EntriesStay DEF EntryTypes
<1>8. MoveInv'
  BY Zenon, <1>1, <1>2, <1>4, MoveStays
<1>9. WriterInv'
  <2>1. /\ writer' \notin {"note", "write"} /\ writer' # "write"
        /\ writer' \notin {"written", "merge"} /\ writer' # "merge"
    BY <1>2
  <2>2. ASSUME move' = "done"
        PROVE  merging' = {} /\ \A b \in canonical' : Indexed(b)'
    BY Zenon, <1>1, <1>2, <1>3, <2>2 DEF WriterInv, Indexed, InShards
  <2> QED
    BY Zenon, <2>1, <2>2 DEF WriterInv
<1>10. LookupInv'
  BY Zenon, <1>1, <1>2, LookupStays
<1> QED
  BY Zenon, <1>5, <1>6, <1>7, <1>8, <1>9, <1>10 DEF IndexInv

\* A merge starts.
LEMMA BeginMergeKeeps ==
  ASSUME IndexInv, BeginMerge
  PROVE  IndexInv'
<1>1. /\ IndexTypeOK /\ InfosComplete /\ AcceptedFileComplete /\ EntryTypes
      /\ MoveInv /\ WriterInv /\ FileInv /\ LookupInv
  BY Zenon DEF IndexInv
<1>2. /\ writer = "written" /\ writer' = "merge" /\ merging' = fresh /\ fresh' = {}
      /\ todo' = ShardIds
      /\ UNCHANGED <<canonical, byHash, byNumber, tip>>
      /\ UNCHANGED <<file, user, opens, move, shards, noted, merged, saving, batch>>
      /\ UNCHANGED <<lookup, sought, numbers>>
  BY Zenon DEF BeginMerge, tableVars, lookupVars
<1>3. writer # "idle" /\ writer # "merge"
  BY <1>2
<1>4. move \in {"off", "done"} /\ user # "truncate"
  BY Zenon, <1>1, <1>3, Committing
<1>5. IndexTypeOK'
  <2>1. writer' \in {"idle", "note", "write", "written", "merge"}
    BY Zenon, <1>2
  <2> QED
    BY Zenon, <1>1, <1>2, <2>1, TypeStays DEF IndexTypeOK
<1>6. InfosComplete' /\ AcceptedFileComplete' /\ FileInv'
  BY Zenon, <1>1, <1>2, InfosStay, FilesStay, FileStays
<1>7. EntryTypes'
  BY Zenon, <1>1, <1>2, EntriesStay DEF EntryTypes
<1>8. MoveInv'
  BY Zenon, <1>1, <1>2, <1>4, MoveStays
<1>9. WriterInv'
  <2>1. writer' \notin {"note", "write"} /\ writer' # "write"
    BY <1>2
  <2>2. ASSUME move' = "done"
        PROVE  noted' \in canonical' /\ \A b \in canonical' : Indexed(b)'
    <3>1. /\ merging = {} /\ noted \in canonical
          /\ \A b \in canonical : Indexed(b)
      BY Zenon, <1>1, <1>2, <1>3, <2>2 DEF WriterInv
    <3>2. \A b : Indexed(b) => Indexed(b)'
      BY Zenon, <1>2, <3>1 DEF Indexed, InShards
    <3> QED
      BY Zenon, <1>2, <3>1, <3>2
  <2>3. ShardIds \ todo' = {}
    BY Zenon, <1>2
  <2> QED
    BY Zenon, <1>2, <2>1, <2>2, <2>3 DEF WriterInv
<1>10. LookupInv'
  BY Zenon, <1>1, <1>2, LookupStays
<1> QED
  BY Zenon, <1>5, <1>6, <1>7, <1>8, <1>9, <1>10 DEF IndexInv

\* A shard is merged.
LEMMA MergeShardKeeps ==
  ASSUME IndexInv, NEW s \in ShardIds, MergeShard(s)
  PROVE  IndexInv'
<1>1. /\ IndexTypeOK /\ InfosComplete /\ AcceptedFileComplete /\ EntryTypes
      /\ MoveInv /\ WriterInv /\ FileInv /\ LookupInv
  BY Zenon DEF IndexInv
<1>2. /\ writer = "merge"
      /\ shards' = [shards EXCEPT ![s] = @ \cup InShard(merging, s)]
      /\ todo' = todo \ {s}
      /\ UNCHANGED <<canonical, byHash, byNumber, tip>>
      /\ UNCHANGED <<file, user, opens, move, fresh, merging, noted, merged, saving, writer, batch>>
      /\ UNCHANGED <<lookup, sought, numbers>>
  BY Zenon DEF MergeShard, tableVars, lookupVars
<1>3. writer # "idle" /\ writer \notin {"note", "write"} /\ writer # "write"
  BY <1>2
<1>4. move \in {"off", "done"} /\ user # "truncate"
  BY Zenon, <1>1, <1>3, Committing
<1>5. /\ shards \in AllShards /\ merging \in SUBSET AllEntries
  BY Zenon, <1>1 DEF EntryTypes
<1>6. /\ shards' \in AllShards
      /\ shards'[s] = shards[s] \cup InShard(merging, s)
      /\ \A r \in ShardIds : shards[r] \subseteq shards'[r]
  <2>1. PICK A : A = InShard(merging, s)
    BY Zenon
  <2>2. PICK V : V = {ShardEntry(e) : e \in AllEntries}
    BY Zenon
  <2>3. A \subseteq V
    BY Zenon, <1>5, <2>1, <2>2, InShardHas
  <2>4. shards \in [ShardIds -> SUBSET V] /\ shards' = [shards EXCEPT ![s] = @ \cup A]
    BY Zenon, <1>2, <1>5, <2>1, <2>2 DEF AllShards
  <2>5. /\ shards' \in [ShardIds -> SUBSET V]
        /\ shards'[s] = shards[s] \cup A
        /\ \A r \in ShardIds : shards[r] \subseteq shards'[r]
    BY <2>3, <2>4
  <2> QED
    BY Zenon, <2>1, <2>2, <2>5 DEF AllShards
<1>7. \A b \in Blocks : InShards(b, shards) => InShards(b, shards')
  <2>1. \A b \in Blocks : Shard[Prefix[b]] \in ShardIds
    BY Zenon DEF ShardIds
  <2> QED
    BY Zenon, <1>6, <2>1 DEF InShards
<1>8. IndexTypeOK'
  BY Zenon, <1>1, <1>2, TypeStays DEF IndexTypeOK
<1>9. InfosComplete' /\ AcceptedFileComplete' /\ FileInv'
  BY Zenon, <1>1, <1>2, InfosStay, FilesStay, FileStays
<1>10. EntryTypes'
  BY Zenon, <1>1, <1>2, <1>6, EntriesStay DEF EntryTypes
<1>11. MoveInv'
  BY Zenon, <1>1, <1>2, <1>4, MoveStays
<1>12. WriterInv'
  <2>1. ASSUME move' = "done"
        PROVE  /\ noted' \in canonical' /\ fresh' = {} /\ \A b \in canonical' : Indexed(b)'
               /\ \A r \in ShardIds \ todo' : InShard(merging', r) \subseteq shards'[r]
    <3>1. /\ noted \in canonical /\ fresh = {} /\ \A b \in canonical : Indexed(b)
          /\ \A r \in ShardIds \ todo : InShard(merging, r) \subseteq shards[r]
      BY Zenon, <1>1, <1>2, <2>1 DEF WriterInv
    <3>2. \A b \in canonical : Indexed(b)'
      <4>1. canonical \subseteq Blocks
        BY Zenon, <1>1 DEF IndexTypeOK
      <4> QED
        BY Zenon, <1>2, <1>7, <3>1, <4>1 DEF Indexed
    <3>3. ASSUME NEW r \in ShardIds \ todo'
          PROVE  InShard(merging, r) \subseteq shards'[r]
      <4>1. CASE r = s
        BY Zenon, <1>6, <4>1
      <4>2. CASE r # s
        BY Zenon, <1>2, <1>6, <3>1, <4>2
      <4> QED
        BY Zenon, <4>1, <4>2
    <3> QED
      BY Zenon, <1>2, <3>1, <3>2, <3>3
  <2> QED
    BY Zenon, <1>2, <1>3, <2>1 DEF WriterInv
<1>13. LookupInv'
  BY Zenon, <1>1, <1>2, <1>7 DEF LookupInv
<1> QED
  BY Zenon, <1>8, <1>9, <1>10, <1>11, <1>12, <1>13 DEF IndexInv

\* A merge ends, and a save starts.
LEMMA EndMergeKeeps ==
  ASSUME IndexInv, EndMerge
  PROVE  IndexInv'
<1>1. /\ IndexTypeOK /\ InfosComplete /\ AcceptedFileComplete /\ EntryTypes
      /\ MoveInv /\ WriterInv /\ FileInv /\ LookupInv
  BY Zenon DEF IndexInv
<1>2. /\ writer = "merge" /\ writer' = "idle" /\ todo = {} /\ merging' = {} /\ noted' = NoBlock
      /\ merged' = IF noted # NoBlock THEN noted ELSE merged
      /\ saving' = [entries |-> shards, last |-> merged']
      /\ UNCHANGED <<canonical, byHash, byNumber, tip>>
      /\ UNCHANGED <<file, user, opens, move, shards, fresh, batch, todo>>
      /\ UNCHANGED <<lookup, sought, numbers>>
  BY Zenon DEF EndMerge, tableVars, lookupVars
<1>3. /\ writer # "idle" /\ writer' \notin {"note", "write"} /\ writer' # "write"
      /\ writer' \notin {"written", "merge"} /\ writer' # "merge"
  BY <1>2
<1>4. move \in {"off", "done"} /\ user # "truncate"
  BY Zenon, <1>1, <1>3, Committing
<1>5. saving'.entries = shards /\ saving'.last = merged'
  BY <1>2
<1>6. merged' \in Blocks \cup {NoBlock}
  <2>1. noted \in Blocks \cup {NoBlock} /\ merged \in Blocks \cup {NoBlock}
    BY Zenon, <1>1 DEF IndexTypeOK
  <2> QED
    BY <1>2, <2>1
<1>7. IndexTypeOK'
  <2>1. writer' \in {"idle", "note", "write", "written", "merge"}
    BY Zenon, <1>2
  <2>2. file'.last \in Blocks \cup {NoBlock}
    BY Zenon, <1>1, <1>2 DEF IndexTypeOK
  <2>3. {noted', merged', file'.last, saving'.last} \subseteq Blocks \cup {NoBlock}
    BY Zenon, <1>2, <1>5, <1>6, <2>2
  <2> QED
    BY Zenon, <1>1, <1>2, <2>1, <2>3, TypeStays DEF IndexTypeOK
<1>8. InfosComplete'
  BY Zenon, <1>1, <1>2, InfosStay
<1>9. ASSUME move = "done"
      PROVE  /\ \A b \in canonical : InShards(b, shards)
             /\ noted \in canonical /\ noted # NoBlock /\ merged' = noted
  <2>1. /\ noted \in canonical /\ fresh = {} /\ \A b \in canonical : Indexed(b)
        /\ \A r \in ShardIds : InShard(merging, r) \subseteq shards[r]
    BY Zenon, <1>1, <1>2, <1>9 DEF WriterInv
  <2>2. canonical \subseteq Blocks /\ noted # NoBlock
    BY Zenon, <1>1, <2>1, BlockIndexAssumption DEF IndexTypeOK
  <2>3. ASSUME NEW b \in canonical
        PROVE  InShards(b, shards)
    <3>1. CASE InShards(b, shards)
      BY Zenon, <3>1
    <3>2. CASE Entry(b) \in merging
      <4>1. b \in Blocks /\ Shard[Prefix[b]] \in ShardIds /\ merging \in SUBSET AllEntries
        BY Zenon, <1>1, <2>2 DEF ShardIds, EntryTypes
      <4>2. ShardEntry(Entry(b)) \in InShard(merging, Shard[Prefix[b]])
        BY Zenon, <3>2, <4>1, InShardHas
      <4> QED
        BY Zenon, <2>1, <4>1, <4>2 DEF InShards
    <3> QED
      BY Zenon, <2>1, <3>1, <3>2 DEF Indexed
  <2>4. merged' = noted
    BY <1>2, <2>2
  <2> QED
    BY Zenon, <2>1, <2>2, <2>3, <2>4
<1>10. AcceptedFileComplete'
  <2> SUFFICES ASSUME byHash' = None, NEW f \in {file', saving'}, FileFits(f.last)',
                      NEW b \in canonical', Number[b] <= Number[f.last]
               PROVE  ShardEntry(Entry(b)) \in f.entries[Shard[Prefix[b]]]
    BY Zenon DEF AcceptedFileComplete
  <2>1. CASE f = file'
    BY Zenon, <1>1, <1>2, <2>1 DEF AcceptedFileComplete, FileFits
  <2>2. CASE f = saving'
    <3>1. move # "off"
      BY Zenon, <1>1, <1>2 DEF MoveInv
    <3> QED
      BY Zenon, <1>2, <1>4, <1>5, <1>9, <2>2, <3>1 DEF InShards
  <2> QED
    BY Zenon, <2>1, <2>2
<1>11. EntryTypes'
  <2>1. PICK R : R = [entries : AllShards, last : Blocks \cup {NoBlock}]
    BY Zenon
  <2>2. shards \in AllShards
    BY Zenon, <1>1 DEF EntryTypes
  <2>3. file' \in R
    BY <1>1, <1>2, <2>1 DEF EntryTypes
  <2>4. saving' \in R
    BY <1>2, <1>6, <2>1, <2>2
  <2>5. {file', saving'} \subseteq [entries : AllShards, last : Blocks \cup {NoBlock}]
    BY Zenon, <2>1, <2>3, <2>4
  <2> QED
    BY Zenon, <1>1, <1>2, <2>5 DEF EntryTypes
<1>12. MoveInv'
  BY Zenon, <1>1, <1>2, <1>4, MoveStays
<1>13. WriterInv'
  <2>1. move' = "done" => \A b \in canonical' : Indexed(b)'
    BY Zenon, <1>2, <1>9 DEF Indexed, InShards
  <2> QED
    BY Zenon, <1>2, <1>3, <2>1 DEF WriterInv
<1>14. FileInv'
  <2> SUFFICES ASSUME move = "done"
               PROVE  /\ merged' \in canonical
                      /\ \A f \in {file', saving'} : f.last # NoBlock =>
                            /\ merged' # NoBlock
                            /\ f.last = merged' \/ Number[f.last] < Number[merged']
    BY Zenon, <1>2 DEF FileInv
  <2>1. noted \in canonical /\ noted # NoBlock /\ merged' = noted
    BY Zenon, <1>9
  <2>2. ASSUME file.last # NoBlock
        PROVE  file.last = noted \/ Number[file.last] < Number[noted]
    <3>1. /\ merged # NoBlock
          /\ noted = merged \/ Number[noted] > Number[merged]
          /\ file.last = merged \/ Number[file.last] < Number[merged]
      BY Zenon, <1>1, <1>4, <2>1, <2>2 DEF FileInv
    <3>2. merged \in Blocks /\ noted \in Blocks /\ file.last \in Blocks
      <4>1. {noted, merged, file.last} \subseteq Blocks \cup {NoBlock}
        BY Zenon, <1>1 DEF IndexTypeOK
      <4> QED
        BY Zenon, <2>1, <2>2, <3>1, <4>1
    <3>3. Number[merged] \in Nat /\ Number[noted] \in Nat /\ Number[file.last] \in Nat
      BY Zenon, <3>2, BlocksAssumption
    <3> QED
      BY <3>1, <3>3
  <2> QED
    BY Zenon, <1>2, <1>5, <2>1, <2>2
<1>15. LookupInv'
  BY Zenon, <1>1, <1>2, LookupStays
<1> QED
  BY Zenon, <1>7, <1>8, <1>10, <1>11, <1>12, <1>13, <1>14, <1>15 DEF IndexInv

\* A save ends.
LEMMA EndSaveKeeps ==
  ASSUME IndexInv, EndSave
  PROVE  IndexInv'
<1>1. /\ IndexTypeOK /\ InfosComplete /\ AcceptedFileComplete /\ EntryTypes
      /\ MoveInv /\ WriterInv /\ FileInv /\ LookupInv
  BY Zenon DEF IndexInv
<1>2. /\ saving # NoFile /\ file' \in {saving, file} /\ saving' = NoFile
      /\ UNCHANGED <<canonical, byHash, byNumber, tip>>
      /\ UNCHANGED <<user, opens, move, writer, batch, todo>>
      /\ UNCHANGED <<shards, fresh, merging, noted, merged>>
      /\ UNCHANGED <<lookup, sought, numbers>>
  BY Zenon DEF EndSave, tableVars, memoryVars, writerVars, lookupVars
<1>3. {file', saving'} \subseteq {file, saving, NoFile}
  BY Zenon, <1>2
<1>4. /\ move \in {"off", "done"}
      /\ user # "truncate" \/ writer = "idle"
  BY Zenon, <1>1, <1>2, Committing
<1>5. IndexTypeOK'
  <2>1. {noted', merged'} \subseteq Blocks \cup {NoBlock}
    BY Zenon, <1>1, <1>2 DEF IndexTypeOK
  <2>2. {file'.last, saving'.last} \subseteq Blocks \cup {NoBlock}
    BY Zenon, <1>1, <1>3, LastsStay
  <2> QED
    BY Zenon, <1>1, <1>2, <2>1, <2>2, TypeStays DEF IndexTypeOK
<1>6. InfosComplete' /\ AcceptedFileComplete' /\ FileInv'
  BY Zenon, <1>1, <1>2, <1>3, InfosStay, FilesStay, FileStays
<1>7. EntryTypes'
  BY Zenon, <1>1, <1>2, <1>3, EntriesStay DEF EntryTypes
<1>8. MoveInv'
  BY Zenon, <1>1, <1>2, <1>4, MoveStays
<1>9. WriterInv'
  BY Zenon, <1>1, <1>2, WriterStays
<1>10. LookupInv'
  BY Zenon, <1>1, <1>2, LookupStays
<1> QED
  BY Zenon, <1>5, <1>6, <1>7, <1>8, <1>9, <1>10 DEF IndexInv

\* A step of a lookup changes nothing but where that lookup is.
LEMMA LookupOnly ==
  ASSUME IndexInv,
         UNCHANGED <<canonical, byHash, byNumber, tip>>,
         UNCHANGED <<file, user, opens, move, saving, writer, batch, todo>>,
         UNCHANGED <<shards, fresh, merging, noted, merged>>,
         lookup' \in [Lookups -> {"idle", "locked", "trying", "found"}],
         sought' \in [Lookups -> Blocks \cup {NoBlock}],
         numbers' \in [Lookups -> SUBSET Nat], LookupInv'
  PROVE  IndexInv'
<1>1. /\ IndexTypeOK /\ InfosComplete /\ AcceptedFileComplete /\ EntryTypes
      /\ MoveInv /\ WriterInv /\ FileInv /\ LookupInv
  BY Zenon DEF IndexInv
<1>2. IndexTypeOK'
  BY Zenon, <1>1, TypeStays DEF IndexTypeOK
<1>3. InfosComplete' /\ AcceptedFileComplete' /\ FileInv' /\ WriterInv'
  BY Zenon, <1>1, InfosStay, FilesStay, FileStays, WriterStays
<1>4. EntryTypes'
  BY Zenon, <1>1 DEF EntryTypes
<1>5. MoveInv'
  BY Zenon, <1>1 DEF MoveInv
<1> QED
  BY Zenon, <1>2, <1>3, <1>4, <1>5 DEF IndexInv

\* A step of lookup t, after which t satisfies its invariant.
LEMMA LookupOf ==
  ASSUME LookupInv, EntryTypes, NEW t \in Lookups,
         UNCHANGED <<canonical, tip, user, move, shards>>,
         NEW l \in {"idle", "locked", "trying", "found"}, NEW s \in Blocks \cup {NoBlock},
         NEW n \in SUBSET Nat,
         lookup' = [lookup EXCEPT ![t] = l],
         sought' = [sought EXCEPT ![t] = s],
         numbers' = [numbers EXCEPT ![t] = n],
         l # "idle" =>
            /\ user = "node" /\ move = "done" /\ s \in Blocks
            /\ s \notin canonical => Number[s] <= Number[tip]
            /\ s \in canonical =>
                 /\ l = "locked" => Number[s] \in n \/ InShards(s, shards)
                 /\ l = "trying" => Number[s] \in n
  PROVE  /\ lookup' \in [Lookups -> {"idle", "locked", "trying", "found"}]
         /\ sought' \in [Lookups -> Blocks \cup {NoBlock}]
         /\ numbers' \in [Lookups -> SUBSET Nat] /\ LookupInv'
<1>1. /\ lookup \in [Lookups -> {"idle", "locked", "trying", "found"}]
      /\ sought \in [Lookups -> Blocks \cup {NoBlock}]
      /\ numbers \in [Lookups -> SUBSET Nat]
  BY Zenon DEF EntryTypes
<1>2. /\ lookup' \in [Lookups -> {"idle", "locked", "trying", "found"}]
      /\ lookup'[t] = l /\ \A r \in Lookups : r # t => lookup'[r] = lookup[r]
  BY Zenon, <1>1
<1>3. /\ sought' \in [Lookups -> Blocks \cup {NoBlock}]
      /\ sought'[t] = s /\ \A r \in Lookups : r # t => sought'[r] = sought[r]
  BY Zenon, <1>1
<1>4. /\ numbers' \in [Lookups -> SUBSET Nat]
      /\ numbers'[t] = n /\ \A r \in Lookups : r # t => numbers'[r] = numbers[r]
  BY Zenon, <1>1
<1>5. ASSUME NEW r \in Lookups, lookup'[r] # "idle"
      PROVE  /\ user' = "node" /\ move' = "done"
             /\ sought'[r] \in Blocks
             /\ sought'[r] \notin canonical' => Number[sought'[r]] <= Number[tip']
             /\ sought'[r] \in canonical' =>
                   /\ lookup'[r] = "locked" =>
                         Number[sought'[r]] \in numbers'[r] \/ InShards(sought'[r], shards')
                   /\ lookup'[r] = "trying" => Number[sought'[r]] \in numbers'[r]
  <2>1. CASE r = t
    BY Zenon, <1>2, <1>3, <1>4, <1>5, <2>1
  <2>2. CASE r # t
    <3>1. lookup'[r] = lookup[r] /\ sought'[r] = sought[r] /\ numbers'[r] = numbers[r]
      BY Zenon, <1>2, <1>3, <1>4, <2>2
    <3>2. lookup[r] # "idle"
      BY Zenon, <1>5, <3>1
    <3>3. /\ user = "node" /\ move = "done"
          /\ sought[r] \in Blocks
          /\ sought[r] \notin canonical => Number[sought[r]] <= Number[tip]
          /\ sought[r] \in canonical =>
                /\ lookup[r] = "locked" =>
                      Number[sought[r]] \in numbers[r] \/ InShards(sought[r], shards)
                /\ lookup[r] = "trying" => Number[sought[r]] \in numbers[r]
      BY Zenon, <3>2 DEF LookupInv
    <3>4. user' = user /\ move' = move /\ canonical' = canonical /\ tip' = tip /\ shards' = shards
      BY Zenon
    <3> QED
      BY Zenon, <3>1, <3>3, <3>4
  <2> QED
    BY Zenon, <2>1, <2>2
<1>6. LookupInv'
  BY Zenon, <1>5 DEF LookupInv
<1> QED
  BY Zenon, <1>2, <1>3, <1>4, <1>6

\* The numbers an entry holds are block numbers.
LEMMA NumbersType ==
  ASSUME EntryTypes, NEW b \in Blocks
  PROVE  /\ RecentNumbers(fresh \cup merging, b) \in SUBSET Nat
         /\ ShardNumbers(shards[Shard[Prefix[b]]], b) \in SUBSET Nat
<1>1. /\ fresh \subseteq AllEntries /\ merging \subseteq AllEntries
      /\ shards \in [ShardIds -> SUBSET {ShardEntry(e) : e \in AllEntries}]
  BY Zenon DEF EntryTypes, AllShards
<1>2. ASSUME NEW e \in fresh \cup merging
      PROVE  e[2] \in Nat
  <2>1. PICK c \in Blocks : e = Entry(c)
    BY Zenon, <1>1 DEF AllEntries
  <2> QED
    BY Zenon, <2>1, EntryFields, BlocksAssumption
<1>3. ASSUME NEW e \in shards[Shard[Prefix[b]]]
      PROVE  e[2] \in Nat
  <2>1. Shard[Prefix[b]] \in ShardIds
    BY Zenon DEF ShardIds
  <2>2. PICK c \in Blocks : e = ShardEntry(Entry(c))
    BY Zenon, <1>1, <2>1 DEF AllEntries
  <2>3. e = <<Code[Prefix[c]], Number[c]>>
    BY Zenon, <2>2, EntryFields
  <2>4. e[2] = Number[c]
    BY <2>3
  <2> QED
    BY Zenon, <2>4, BlocksAssumption
<1>4. RecentNumbers(fresh \cup merging, b) \in SUBSET Nat
  BY Zenon, <1>2 DEF RecentNumbers
<1>5. ShardNumbers(shards[Shard[Prefix[b]]], b) \in SUBSET Nat
  BY Zenon, <1>3 DEF ShardNumbers
<1> QED
  BY Zenon, <1>4, <1>5

\* A lookup reads the recent entries.
LEMMA LookRecentKeeps ==
  ASSUME IndexInv, NEW t \in Lookups, NEW b \in Blocks, LookRecent(t, b)
  PROVE  IndexInv'
<1>1. /\ IndexTypeOK /\ EntryTypes /\ MoveInv /\ WriterInv /\ LookupInv
  BY Zenon DEF IndexInv
<1>2. PICK n : n = RecentNumbers(fresh \cup merging, b)
  BY Zenon
<1>3. /\ user = "node" /\ move = "done" /\ b \in byNumber
      /\ lookup' = [lookup EXCEPT ![t] = "locked"]
      /\ sought' = [sought EXCEPT ![t] = b]
      /\ numbers' = [numbers EXCEPT ![t] = n]
      /\ UNCHANGED <<canonical, byHash, byNumber, tip>>
      /\ UNCHANGED <<file, user, opens, move, saving, writer, batch, todo>>
      /\ UNCHANGED <<shards, fresh, merging, noted, merged>>
  BY Zenon, <1>2 DEF LookRecent, tableVars, memoryVars, writerVars
<1>4. b \in canonical /\ Indexed(b)
  BY Zenon, <1>1, <1>3 DEF MoveInv, WriterInv
<1>5. Number[b] \in n \/ InShards(b, shards)
  BY Zenon, <1>1, <1>2, <1>4, IndexedIsCandidate DEF Indexed, EntryTypes
<1>6. n \in SUBSET Nat
  BY Zenon, <1>1, <1>2, NumbersType
<1>7. "locked" # "trying"
  OBVIOUS
<1>8. /\ lookup' \in [Lookups -> {"idle", "locked", "trying", "found"}]
      /\ sought' \in [Lookups -> Blocks \cup {NoBlock}]
      /\ numbers' \in [Lookups -> SUBSET Nat] /\ LookupInv'
  BY Zenon, <1>1, <1>3, <1>4, <1>5, <1>6, <1>7, LookupOf
<1> QED
  BY Zenon, <1>3, <1>8, LookupOnly

\* It reads the shard.
LEMMA LookShardKeeps ==
  ASSUME IndexInv, NEW t \in Lookups, LookShard(t)
  PROVE  IndexInv'
<1>1. /\ IndexTypeOK /\ EntryTypes /\ MoveInv /\ WriterInv /\ LookupInv
  BY Zenon DEF IndexInv
<1>2. PICK s : s = sought[t]
  BY Zenon
<1>3. PICK n : n = numbers[t] \cup ShardNumbers(shards[Shard[Prefix[s]]], s)
  BY Zenon
<1>4. /\ lookup[t] = "locked"
      /\ lookup' = [lookup EXCEPT ![t] = "trying"]
      /\ numbers' = [numbers EXCEPT ![t] = n]
      /\ UNCHANGED <<canonical, byHash, byNumber, tip>>
      /\ UNCHANGED <<file, user, opens, move, saving, writer, batch, todo>>
      /\ UNCHANGED <<shards, fresh, merging, noted, merged, sought>>
  BY Zenon, <1>2, <1>3 DEF LookShard, tableVars, memoryVars, writerVars
<1>5. sought' = [sought EXCEPT ![t] = s]
  BY Zenon, <1>1, <1>2, <1>4 DEF EntryTypes
<1>6. lookup[t] # "idle" /\ "trying" # "locked"
  BY <1>4
<1>7. /\ user = "node" /\ move = "done" /\ s \in Blocks
      /\ s \notin canonical => Number[s] <= Number[tip]
      /\ s \in canonical => Number[s] \in numbers[t] \/ InShards(s, shards)
  BY Zenon, <1>1, <1>2, <1>4, <1>6 DEF LookupInv
<1>8. s \in canonical => Number[s] \in n
  BY Zenon, <1>1, <1>3, <1>7, ShardNumbersHas DEF EntryTypes
<1>9. n \in SUBSET Nat
  <2>1. numbers[t] \in SUBSET Nat
    BY Zenon, <1>1 DEF EntryTypes
  <2> QED
    BY Zenon, <1>1, <1>3, <1>7, <2>1, NumbersType
<1>10. /\ lookup' \in [Lookups -> {"idle", "locked", "trying", "found"}]
       /\ sought' \in [Lookups -> Blocks \cup {NoBlock}]
       /\ numbers' \in [Lookups -> SUBSET Nat] /\ LookupInv'
  BY Zenon, <1>1, <1>4, <1>5, <1>6, <1>7, <1>8, <1>9, LookupOf
<1> QED
  BY Zenon, <1>4, <1>10, LookupOnly

\* It tries a candidate.
LEMMA TryNumberKeeps ==
  ASSUME IndexInv, NEW t \in Lookups, TryNumber(t)
  PROVE  IndexInv'
<1>1. /\ IndexTypeOK /\ EntryTypes /\ MoveInv /\ WriterInv /\ LookupInv
  BY Zenon DEF IndexInv
<1>2. PICK s : s = sought[t]
  BY Zenon
<1>3. PICK m \in numbers[t] :
          /\ lookup' = [lookup EXCEPT ![t] =
                          IF \E x \in byNumber : x = sought[t] /\ Number[x] = m
                          THEN "found" ELSE "trying"]
          /\ numbers' = [numbers EXCEPT ![t] = @ \ {m}]
  BY Zenon DEF TryNumber
<1>4. PICK l : l = IF \E x \in byNumber : x = s /\ Number[x] = m
                   THEN "found" ELSE "trying"
  BY Zenon
<1>5. PICK n : n = numbers[t] \ {m}
  BY Zenon
<1>6. /\ lookup[t] = "trying"
      /\ lookup' = [lookup EXCEPT ![t] = l]
      /\ numbers' = [numbers EXCEPT ![t] = n]
      /\ UNCHANGED <<canonical, byHash, byNumber, tip>>
      /\ UNCHANGED <<file, user, opens, move, saving, writer, batch, todo>>
      /\ UNCHANGED <<shards, fresh, merging, noted, merged, sought>>
  BY Zenon, <1>2, <1>3, <1>4, <1>5 DEF TryNumber, tableVars, memoryVars, writerVars
<1>7. sought' = [sought EXCEPT ![t] = s]
  BY Zenon, <1>1, <1>2, <1>6 DEF EntryTypes
<1>8. lookup[t] # "idle"
  BY <1>6
<1>9. /\ user = "node" /\ move = "done" /\ s \in Blocks
      /\ s \notin canonical => Number[s] <= Number[tip]
      /\ s \in canonical => Number[s] \in numbers[t]
  BY Zenon, <1>1, <1>2, <1>6, <1>8 DEF LookupInv
<1>10. l \in {"found", "trying"}
  BY <1>4
<1>11. l # "locked" /\ l \in {"idle", "locked", "trying", "found"}
  BY <1>10
<1>12. s \in canonical /\ l = "trying" => Number[s] \in n
  <2>1. byNumber = canonical
    BY Zenon, <1>1, <1>9 DEF MoveInv
  <2>2. (\E x \in byNumber : x = s /\ Number[x] = m) => l # "trying"
    BY <1>4
  <2> QED
    BY Zenon, <1>5, <1>9, <2>1, <2>2
<1>13. n \in SUBSET Nat
  BY Zenon, <1>1, <1>5 DEF EntryTypes
<1>14. /\ lookup' \in [Lookups -> {"idle", "locked", "trying", "found"}]
       /\ sought' \in [Lookups -> Blocks \cup {NoBlock}]
       /\ numbers' \in [Lookups -> SUBSET Nat] /\ LookupInv'
  BY Zenon, <1>1, <1>6, <1>7, <1>9, <1>11, <1>12, <1>13, LookupOf
<1> QED
  BY Zenon, <1>6, <1>14, LookupOnly

\* It ends.
LEMMA EndLookupKeeps ==
  ASSUME IndexInv, NEW t \in Lookups, EndLookup(t)
  PROVE  IndexInv'
<1>1. EntryTypes /\ LookupInv
  BY Zenon DEF IndexInv
<1>2. /\ lookup' = [lookup EXCEPT ![t] = "idle"]
      /\ sought' = [sought EXCEPT ![t] = NoBlock]
      /\ numbers' = [numbers EXCEPT ![t] = {}]
      /\ UNCHANGED <<canonical, byHash, byNumber, tip>>
      /\ UNCHANGED <<file, user, opens, move, saving, writer, batch, todo>>
      /\ UNCHANGED <<shards, fresh, merging, noted, merged>>
  BY Zenon DEF EndLookup, tableVars, memoryVars, writerVars
<1>3. {} \in SUBSET Nat /\ NoBlock \in Blocks \cup {NoBlock}
  BY Zenon
<1>4. /\ lookup' \in [Lookups -> {"idle", "locked", "trying", "found"}]
      /\ sought' \in [Lookups -> Blocks \cup {NoBlock}]
      /\ numbers' \in [Lookups -> SUBSET Nat] /\ LookupInv'
  BY Zenon, <1>1, <1>2, <1>3, LookupOf
<1> QED
  BY Zenon, <1>2, <1>4, LookupOnly

\* A rewind truncates the tables.
LEMMA TruncateKeeps ==
  ASSUME IndexInv, NEW b \in Blocks, Truncate(b)
  PROVE  IndexInv'
<1>1. /\ IndexTypeOK /\ InfosComplete /\ AcceptedFileComplete /\ EntryTypes
      /\ MoveInv /\ WriterInv /\ FileInv /\ LookupInv
  BY Zenon DEF IndexInv
<1>2. /\ user = "truncate" /\ writer = "idle" /\ move \in {"done", "off"}
      /\ b \in canonical /\ tip' = b
      /\ canonical' = {x \in canonical : x = NoBlock \/ Number[x] <= Number[b]}
      /\ byHash' = {x \in byHash : x = NoBlock \/ Number[x] <= Number[b]}
      /\ byNumber' = {x \in byNumber : x = NoBlock \/ Number[x] <= Number[b]}
      /\ UNCHANGED <<file, user, opens, move, saving, writer, batch, todo>>
      /\ UNCHANGED <<shards, fresh, merging, noted, merged>>
      /\ UNCHANGED <<lookup, sought, numbers>>
  BY Zenon DEF Truncate, Ready, memoryVars, writerVars, lookupVars
<1>3. canonical' \subseteq canonical /\ byHash' \subseteq byHash /\ byNumber' \subseteq byNumber
  BY Zenon, <1>2
<1>4. /\ canonical \subseteq Blocks /\ Number[b] <= Number[b]
      /\ byHash = None \/ byHash \subseteq Blocks
      /\ byNumber = None \/ byNumber \subseteq Blocks
  <2>1. Number[b] <= Number[b]
    BY BlocksAssumption
  <2> QED
    BY Zenon, <1>1, <2>1 DEF IndexTypeOK
<1>5. /\ byHash = None <=> byHash' = None
      /\ byNumber = None => byNumber' = None
  <2>1. None = {NoBlock} /\ NoBlock \notin Blocks
    BY Zenon, BlockIndexAssumption DEF None
  <2>2. byHash = None => byHash' = None
    BY Zenon, <1>2, <2>1
  <2>3. byHash \subseteq Blocks => byHash' # None
    BY Zenon, <1>3, <2>1
  <2>4. byNumber = None => byNumber' = None
    BY Zenon, <1>2, <2>1
  <2> QED
    BY Zenon, <1>4, <2>2, <2>3, <2>4
<1>6. IndexTypeOK'
  <2>1. b \in canonical'
    BY Zenon, <1>2, <1>4
  <2>2. \A S \in {canonical', byNumber'} : \A x, y \in S \cap Blocks :
           Number[x] = Number[y] => x = y
    <3>1. \A x, y \in canonical \cap Blocks : Number[x] = Number[y] => x = y
      BY Zenon, <1>1 DEF IndexTypeOK
    <3>2. \A x, y \in byNumber \cap Blocks : Number[x] = Number[y] => x = y
      BY Zenon, <1>1 DEF IndexTypeOK
    <3> QED
      BY Zenon, <1>3, <3>1, <3>2
  <2>3. /\ byHash' = None \/ byHash' \subseteq Blocks
        /\ byNumber' = None \/ byNumber' \subseteq Blocks
    BY Zenon, <1>3, <1>4, <1>5
  <2>4. canonical' \subseteq Blocks /\ tip' \in canonical'
    BY Zenon, <1>2, <1>3, <1>4, <2>1
  <2> QED
    BY Zenon, <1>1, <1>2, <2>2, <2>3, <2>4 DEF IndexTypeOK
<1>7. InfosComplete'
  <2>1. CASE byHash = None
    <3>1. canonical \subseteq byNumber
      BY <1>1, <2>1 DEF InfosComplete
    <3>2. canonical' \subseteq byNumber'
      BY Zenon, <1>2, <3>1
    <3>3. byHash' = None
      BY Zenon, <1>5, <2>1
    <3> QED
      BY <3>2, <3>3 DEF InfosComplete
  <2>2. CASE byHash # None
    <3>1. canonical \subseteq byHash
      BY <1>1, <2>2 DEF InfosComplete
    <3>2. canonical' \subseteq byHash'
      BY Zenon, <1>2, <3>1
    <3>3. byHash' # None
      BY Zenon, <1>5, <2>2
    <3> QED
      BY <3>2, <3>3 DEF InfosComplete
  <2> QED
    BY Zenon, <2>1, <2>2
<1>8. AcceptedFileComplete'
  <2> SUFFICES ASSUME byHash' = None, NEW f \in {file', saving'}, FileFits(f.last)',
                      NEW c \in canonical', Number[c] <= Number[f.last]
               PROVE  ShardEntry(Entry(c)) \in f.entries[Shard[Prefix[c]]]
    BY Zenon DEF AcceptedFileComplete
  <2>1. FileFits(f.last) /\ c \in canonical /\ f \in {file, saving} /\ byHash = None
    BY Zenon, <1>2, <1>3, <1>5 DEF FileFits
  <2> QED
    BY Zenon, <1>1, <2>1 DEF AcceptedFileComplete
<1>9. EntryTypes'
  <2>1. IsFiniteSet(canonical')
    BY Zenon, <1>1, <1>3, FS_Subset DEF EntryTypes
  <2> QED
    BY Zenon, <1>1, <1>2, <2>1 DEF EntryTypes
<1>10. MoveInv'
  <2>1. byHash' = None => byNumber' = canonical'
    BY Zenon, <1>1, <1>2, <1>5 DEF MoveInv
  <2>2. move' \in {"done", "off"} /\ writer' = "idle" /\ user' = "truncate"
    BY Zenon, <1>2
  <2>3. /\ move' \notin {"copy", "drop"} /\ move' # "drop" /\ user' # "none" /\ move' # "none"
        /\ move' \notin {"none", "index", "copy", "drop"}
    BY <2>2
  <2>4. move' = "done" => byHash' = None
    BY Zenon, <1>1, <1>2, <1>5 DEF MoveInv
  <2>5. move' \in {"off", "index", "copy", "drop"} => byHash' # None
    BY Zenon, <1>1, <1>2, <1>5 DEF MoveInv
  <2>6. move' = "off" => byNumber' = None
    BY Zenon, <1>1, <1>2, <1>5 DEF MoveInv
  <2> QED
    BY Zenon, <2>1, <2>2, <2>3, <2>4, <2>5, <2>6 DEF MoveInv
<1>11. WriterInv'
  <2>1. /\ writer' \notin {"note", "write"} /\ writer' # "write"
        /\ writer' \notin {"written", "merge"} /\ writer' # "merge" /\ writer # "merge"
    BY <1>2
  <2>2. ASSUME move' = "done"
        PROVE  merging' = {} /\ \A c \in canonical' : Indexed(c)'
    <3>1. merging = {} /\ \A c \in canonical : Indexed(c)
      BY Zenon, <1>1, <1>2, <2>1, <2>2 DEF WriterInv
    <3> QED
      BY Zenon, <1>2, <1>3, <3>1 DEF Indexed, InShards
  <2> QED
    BY Zenon, <2>1, <2>2 DEF WriterInv
<1>12. FileInv'
  BY Zenon, <1>2 DEF FileInv
<1>13. LookupInv'
  <2>1. user # "node"
    BY <1>2
  <2> QED
    BY Zenon, <1>1, <1>2, <2>1, NoLookups
<1> QED
  BY Zenon, <1>6, <1>7, <1>8, <1>9, <1>10, <1>11, <1>12, <1>13 DEF IndexInv

\* The process ends.
LEMMA ExitKeeps ==
  ASSUME IndexInv, Exit
  PROVE  IndexInv'
<1>1. /\ IndexTypeOK /\ InfosComplete /\ AcceptedFileComplete /\ EntryTypes
      /\ MoveInv /\ WriterInv /\ FileInv /\ LookupInv
  BY Zenon DEF IndexInv
<1>2. /\ user' = "none" /\ move' = "none" /\ writer' = "idle" /\ todo' = {}
      /\ shards' = [s \in ShardIds |-> {}] /\ fresh' = {} /\ merging' = {}
      /\ noted' = NoBlock /\ merged' = NoBlock /\ saving' = NoFile
      /\ lookup' = [t \in Lookups |-> "idle"]
      /\ sought' = [t \in Lookups |-> NoBlock]
      /\ numbers' = [t \in Lookups |-> {}]
      /\ UNCHANGED <<canonical, byHash, byNumber, tip, opens>>
  BY Zenon DEF Exit, EmptyIndex, tableVars
<1>3. {file', saving'} \subseteq {file, saving, NoFile}
  <2>1. file' \in IF saving = NoFile THEN {file} ELSE {file, saving}
    BY Zenon DEF Exit
  <2>2. file' \in {file, saving}
    BY <2>1
  <2> QED
    BY Zenon, <1>2, <2>2
<1>4. /\ "none" \notin {"off", "index", "copy", "drop"} /\ "none" # "done" /\ "none" # "off"
      /\ "none" # "truncate" /\ "none" \notin {"copy", "drop"} /\ "none" # "drop"
      /\ "idle" \notin {"note", "write"}
  OBVIOUS
<1>5. IndexTypeOK'
  <2>1. {file'.last, saving'.last} \subseteq Blocks \cup {NoBlock}
    BY Zenon, <1>1, <1>3, LastsStay
  <2>2. {noted', merged', file'.last, saving'.last} \subseteq Blocks \cup {NoBlock}
    BY Zenon, <1>2, <2>1
  <2>3. /\ user' \in {"none", "node", "head_only", "truncate"}
        /\ move' \in {"none", "off", "index", "copy", "drop", "done"}
        /\ writer' \in {"idle", "note", "write", "written", "merge"}
        /\ todo' \subseteq ShardIds
    BY Zenon, <1>2
  <2> QED
    BY Zenon, <1>1, <1>2, <2>2, <2>3 DEF IndexTypeOK
<1>6. InfosComplete' /\ AcceptedFileComplete'
  BY Zenon, <1>1, <1>2, <1>3, InfosStay, FilesStay
<1>7. EntryTypes'
  <2>1. PICK R : R = [entries : AllShards, last : Blocks \cup {NoBlock}]
    BY Zenon
  <2>2. file \in R /\ saving \in R /\ NoFile \in R
    BY <1>1, <2>1, NoFileIs DEF EntryTypes
  <2>3. {file', saving'} \subseteq R
    BY Zenon, <1>3, <2>2
  <2>4. shards' \in AllShards
    BY <1>2 DEF AllShards
  <2>5. /\ lookup' \in [Lookups -> {"idle", "locked", "trying", "found"}]
        /\ sought' \in [Lookups -> Blocks \cup {NoBlock}]
        /\ numbers' \in [Lookups -> SUBSET Nat]
    BY <1>2
  <2>6. fresh' \subseteq AllEntries /\ merging' \subseteq AllEntries /\ IsFiniteSet(canonical')
    BY Zenon, <1>1, <1>2 DEF EntryTypes
  <2> QED
    BY Zenon, <2>1, <2>3, <2>4, <2>5, <2>6 DEF EntryTypes
<1>8. MoveInv'
  BY Zenon, <1>1, <1>2, <1>4 DEF MoveInv
<1>9. WriterInv'
  BY Zenon, <1>2, <1>4 DEF WriterInv
<1>10. FileInv'
  BY Zenon, <1>2, <1>4 DEF FileInv
<1>11. LookupInv'
  BY Zenon, <1>2 DEF LookupInv
<1> QED
  BY Zenon, <1>5, <1>6, <1>7, <1>8, <1>9, <1>10, <1>11 DEF IndexInv

\* The tables are written, or the write fails.
LEMMA WriteKeeps ==
  ASSUME IndexInv, Write
  PROVE  IndexInv'
<1>1. /\ IndexTypeOK /\ InfosComplete /\ AcceptedFileComplete /\ EntryTypes
      /\ MoveInv /\ WriterInv /\ FileInv /\ LookupInv
  BY Zenon DEF IndexInv
<1>2. /\ writer = "write"
      /\ UNCHANGED <<file, user, opens, move, saving, todo>>
      /\ UNCHANGED <<shards, fresh, merging, noted, merged>>
      /\ UNCHANGED <<lookup, sought, numbers>>
  BY Zenon DEF Write, memoryVars, lookupVars
<1>3. writer # "idle" /\ writer # "merge" /\ writer \in {"note", "write"}
  BY <1>2
<1>4. move \in {"off", "done"} /\ user # "truncate"
  BY Zenon, <1>1, <1>3, Committing
<1>5. CASE writer' = "idle" /\ UNCHANGED <<canonical, byHash, byNumber, tip>>
  <2>1. IndexTypeOK'
    <3>1. writer' \in {"idle", "note", "write", "written", "merge"}
      BY Zenon, <1>5
    <3> QED
      BY Zenon, <1>1, <1>2, <1>5, <3>1, TypeStays DEF IndexTypeOK
  <2>2. InfosComplete' /\ AcceptedFileComplete' /\ FileInv'
    BY Zenon, <1>1, <1>2, <1>5, InfosStay, FilesStay, FileStays
  <2>3. EntryTypes'
    BY Zenon, <1>1, <1>2, <1>5, EntriesStay DEF EntryTypes
  <2>4. MoveInv'
    BY Zenon, <1>1, <1>2, <1>4, <1>5, MoveStays
  <2>5. WriterInv'
    <3>1. /\ writer' \notin {"note", "write"} /\ writer' # "write"
          /\ writer' \notin {"written", "merge"} /\ writer' # "merge"
      BY <1>5
    <3>2. ASSUME move' = "done"
          PROVE  merging' = {} /\ \A c \in canonical' : Indexed(c)'
      BY Zenon, <1>1, <1>2, <1>3, <1>5, <3>2 DEF WriterInv, Indexed, InShards
    <3> QED
      BY Zenon, <3>1, <3>2 DEF WriterInv
  <2>6. LookupInv'
    BY Zenon, <1>1, <1>2, <1>5, LookupStays
  <2> QED
    BY Zenon, <2>1, <2>2, <2>3, <2>4, <2>5, <2>6 DEF IndexInv
<1>6. CASE /\ canonical' = PutBlocks(canonical, BatchBlocks)
           /\ tip' = batch[Len(batch)]
           /\ byHash' = IF move = "off" THEN byHash \cup BatchBlocks ELSE byHash
           /\ byNumber' = IF move = "off" THEN byNumber
                          ELSE PutBlocks(byNumber, BatchBlocks)
           /\ writer' = IF move = "off" THEN "idle" ELSE "written"
  <2>1. batch \in Batches
    BY Zenon, <1>1, <1>3 DEF WriterInv
  <2>2. PICK l \in Blocks :
           /\ batch[Len(batch)] = l /\ l \in BatchBlocks
           /\ BatchBlocks \subseteq {tip, l}
           /\ \/ user = "node" /\ Number[l] = Number[tip] + 1
              \/ user = "head_only" /\ l \in canonical
    BY Zenon, <1>1, <2>1, BatchIs
  <2>3. /\ canonical \subseteq Blocks /\ tip \in canonical /\ tip \in Blocks
        /\ Number[tip] \in Nat /\ Number[l] \in Nat
        /\ \A x, y \in canonical : Number[x] = Number[y] => x = y
    <3>1. canonical \subseteq Blocks /\ tip \in canonical
      BY Zenon, <1>1 DEF IndexTypeOK
    <3>2. \A x, y \in canonical \cap Blocks : Number[x] = Number[y] => x = y
      BY Zenon, <1>1 DEF IndexTypeOK
    <3> QED
      BY Zenon, <3>1, <3>2, BlocksAssumption
  <2>4. l \notin canonical => Number[l] = Number[tip] + 1
    BY Zenon, <2>2
  <2>5. l \in canonical \/ Number[tip] # Number[l]
    BY <2>3, <2>4
  <2>6. BatchBlocks \subseteq Blocks
    BY Zenon, <2>2, <2>3
  <2>7. canonical' = {x \in canonical : Number[x] # Number[l]} \cup {l}
    <3>1. PICK B : B = BatchBlocks
      BY Zenon
    <3>2. B \in SUBSET Blocks /\ l \in B /\ B \subseteq {tip, l}
      BY Zenon, <2>2, <2>6, <3>1
    <3>3. canonical \in SUBSET Blocks /\ tip \in canonical
      BY Zenon, <2>3
    <3>4. \A x, y \in canonical : Number[x] = Number[y] => x = y
      BY Zenon, <2>3
    <3>5. PutBlocks(canonical, B) = {x \in canonical : Number[x] # Number[l]} \cup {l}
      BY Zenon, <2>5, <3>2, <3>3, <3>4, PutIs
    <3> QED
      BY Zenon, <1>6, <3>1, <3>5
  <2>8. /\ canonical' \subseteq canonical \cup {l} /\ l \in canonical' /\ tip' = l
        /\ canonical' \subseteq Blocks
        /\ \A x \in canonical : x \notin canonical' => Number[x] = Number[l]
        /\ \A x, y \in canonical' : Number[x] = Number[y] => x = y
    BY Zenon, <1>6, <2>2, <2>3, <2>7
  <2>9. CASE move = "off"
    <3>1. /\ byHash # None /\ byNumber = None
      BY Zenon, <1>1, <2>9 DEF MoveInv
    <3>2. byHash' = byHash \cup BatchBlocks /\ byNumber' = None /\ writer' = "idle"
      BY <1>6, <2>9, <3>1
    <3>3. byHash' \subseteq Blocks /\ byHash' # None
      <4>1. byHash \subseteq Blocks
        BY Zenon, <1>1, <3>1 DEF IndexTypeOK
      <4>2. byHash' \subseteq Blocks
        BY Zenon, <2>6, <3>2, <4>1
      <4> QED
        BY Zenon, <4>2, BlockIndexAssumption DEF None
    <3>4. InfosComplete'
      <4>1. canonical \subseteq byHash
        BY <1>1, <3>1 DEF InfosComplete
      <4>2. canonical' \subseteq byHash'
        BY Zenon, <2>2, <2>8, <3>2, <4>1
      <4> QED
        BY <3>3, <4>2 DEF InfosComplete
    <3>5. AcceptedFileComplete'
      BY Zenon, <3>3 DEF AcceptedFileComplete
    <3>6. FileInv' /\ LookupInv'
      <4>1. move # "done" /\ move' # "done"
        BY <1>2, <2>9
      <4>2. LookupInv'
        BY Zenon, <1>1, <1>2, <4>1, NoLookups
      <4> QED
        BY Zenon, <4>1, <4>2 DEF FileInv
    <3>7. MoveInv'
      <4>1. /\ move' # "done" /\ move' \notin {"copy", "drop"} /\ move' # "drop"
            /\ move' \notin {"none", "index", "copy", "drop"} /\ move' # "none"
        BY <1>2, <2>9
      <4> QED
        BY Zenon, <1>1, <1>2, <1>4, <3>2, <3>3, <4>1 DEF MoveInv
    <3>8. WriterInv'
      <4>1. writer' \notin {"note", "write"} /\ move' # "done"
        BY <1>2, <2>9, <3>2
      <4> QED
        BY Zenon, <4>1 DEF WriterInv
    <3>9. \A S \in {canonical', byNumber'} : \A x, y \in S \cap Blocks :
             Number[x] = Number[y] => x = y
      BY Zenon, <2>8, <3>2, BlockIndexAssumption DEF None
    <3>10. IndexTypeOK'
      <4>1. writer' \in {"idle", "note", "write", "written", "merge"}
        BY Zenon, <3>2
      <4>2. /\ canonical' \subseteq Blocks /\ tip' \in canonical'
            /\ byHash' \subseteq Blocks /\ byNumber' = None
        BY Zenon, <2>8, <3>2, <3>3
      <4> QED
        BY Zenon, <1>1, <1>2, <3>9, <4>1, <4>2 DEF IndexTypeOK
    <3>11. EntryTypes'
      <4>1. IsFiniteSet(canonical)
        BY Zenon, <1>1 DEF EntryTypes
      <4>2. IsFiniteSet(canonical \cup {l})
        BY Zenon, <4>1, FS_AddElement
      <4>3. IsFiniteSet(canonical')
        BY Zenon, <2>8, <4>2, FS_Subset
      <4> QED
        BY Zenon, <1>1, <1>2, <4>3 DEF EntryTypes
    <3> QED
      BY Zenon, <3>4, <3>5, <3>6, <3>7, <3>8, <3>10, <3>11 DEF IndexInv
  <2>10. CASE move = "done"
    <3>1. byHash = None /\ byNumber = canonical
      BY Zenon, <1>1, <2>10 DEF MoveInv
    <3>2. byHash' = None /\ byNumber' = canonical' /\ writer' = "written"
      BY <1>6, <2>10, <3>1
    <3>3. /\ \A b \in canonical : Indexed(b)
          /\ \A b \in BatchBlocks : Indexed(b)
          /\ noted = l /\ ~Rewrites /\ merging = {}
      BY Zenon, <1>1, <1>2, <1>3, <2>2, <2>10 DEF WriterInv
    <3>4. \A b \in canonical' : Indexed(b)'
      BY Zenon, <1>2, <2>2, <2>8, <3>3 DEF Indexed, InShards
    <3>5. ASSUME merged # NoBlock
          PROVE  /\ merged \in canonical /\ merged \in Blocks /\ Number[merged] \in Nat
                 /\ ~(Number[l] < Number[merged])
                 /\ Number[l] = Number[merged] => l = merged
      <4>1. merged \in canonical
        BY Zenon, <1>1, <1>4, <2>10, <3>5 DEF FileInv
      <4>2. merged \in Blocks /\ Number[merged] \in Nat
        BY Zenon, <2>3, <4>1, BlocksAssumption
      <4> QED
        BY Zenon, <2>2, <3>3, <3>5, <4>1, <4>2 DEF Rewrites
    <3>6. IndexTypeOK'
      <4>1. writer' \in {"idle", "note", "write", "written", "merge"}
        BY Zenon, <3>2
      <4>2. \A S \in {canonical', byNumber'} : \A x, y \in S \cap Blocks :
               Number[x] = Number[y] => x = y
        BY Zenon, <2>8, <3>2
      <4>3. /\ canonical' \subseteq Blocks /\ tip' \in canonical'
            /\ byHash' = None /\ byNumber' \subseteq Blocks
        BY Zenon, <2>8, <3>2
      <4> QED
        BY Zenon, <1>1, <1>2, <4>1, <4>2, <4>3 DEF IndexTypeOK
    <3>7. InfosComplete'
      BY <3>2 DEF InfosComplete
    <3>8. AcceptedFileComplete'
      <4> SUFFICES ASSUME NEW f \in {file', saving'}, FileFits(f.last)',
                          NEW b \in canonical', Number[b] <= Number[f.last]
                   PROVE  ShardEntry(Entry(b)) \in f.entries[Shard[Prefix[b]]]
        BY Zenon DEF AcceptedFileComplete
      <4>1. f \in {file, saving} /\ f.last # NoBlock /\ f.last \in canonical'
        BY Zenon, <1>2 DEF FileFits
      <4>2. /\ merged # NoBlock
            /\ f.last = merged \/ Number[f.last] < Number[merged]
        BY Zenon, <1>1, <1>4, <2>10, <4>1 DEF FileInv
      <4>3. f.last \in Blocks /\ Number[f.last] \in Nat /\ b \in Blocks
        BY Zenon, <2>8, <4>1, BlocksAssumption
      <4>4. f.last \in canonical
        <5>1. CASE f.last = merged
          BY Zenon, <3>5, <4>2, <5>1
        <5>2. CASE Number[f.last] < Number[merged]
          <6>1. f.last # l
            BY Zenon, <3>5, <4>2, <5>2
          <6> QED
            BY Zenon, <2>8, <4>1, <6>1
        <5> QED
          BY Zenon, <4>2, <5>1, <5>2
      <4>5. b \in canonical
        <5>1. CASE b = l
          <6>1. Number[l] <= Number[f.last]
            BY Zenon, <5>1
          <6>2. ~(Number[l] < Number[merged]) /\ Number[merged] \in Nat
            BY Zenon, <3>5, <4>2
          <6>3. Number[l] = Number[merged]
            BY <2>3, <4>2, <4>3, <6>1, <6>2
          <6> QED
            BY Zenon, <3>5, <4>2, <5>1, <6>3
        <5> QED
          BY Zenon, <2>8, <5>1
      <4> QED
        BY Zenon, <1>1, <3>1, <4>1, <4>4, <4>5 DEF AcceptedFileComplete, FileFits
    <3>9. EntryTypes'
      <4>1. IsFiniteSet(canonical)
        BY Zenon, <1>1 DEF EntryTypes
      <4>2. IsFiniteSet(canonical \cup {l})
        BY Zenon, <4>1, FS_AddElement
      <4>3. IsFiniteSet(canonical')
        BY Zenon, <2>8, <4>2, FS_Subset
      <4> QED
        BY Zenon, <1>1, <1>2, <4>3 DEF EntryTypes
    <3>10. MoveInv'
      <4>1. /\ move' = "done" /\ move' \notin {"copy", "drop"} /\ move' # "drop"
            /\ move' \notin {"none", "index", "copy", "drop"} /\ move' # "none"
            /\ move' \notin {"off", "index", "copy", "drop"} /\ move' # "off"
        BY <1>2, <2>10
      <4> QED
        BY Zenon, <1>1, <1>2, <1>4, <3>2, <4>1 DEF MoveInv
    <3>11. WriterInv'
      <4>1. writer' \notin {"note", "write"} /\ writer' # "write" /\ writer' # "merge"
        BY <3>2
      <4> QED
        BY Zenon, <1>2, <2>8, <3>3, <3>4, <4>1 DEF WriterInv
    <3>12. FileInv'
      <4>1. merged # NoBlock => merged \in canonical'
        BY Zenon, <2>8, <3>5
      <4> QED
        BY Zenon, <1>1, <1>2, <4>1 DEF FileInv
    <3>13. LookupInv'
      <4> SUFFICES ASSUME NEW t \in Lookups, lookup[t] # "idle"
                   PROVE  /\ user = "node" /\ move = "done"
                          /\ sought[t] \in Blocks
                          /\ sought[t] \notin canonical' => Number[sought[t]] <= Number[tip']
                          /\ sought[t] \in canonical' =>
                               /\ lookup[t] = "locked" =>
                                     Number[sought[t]] \in numbers[t] \/ InShards(sought[t], shards)
                               /\ lookup[t] = "trying" => Number[sought[t]] \in numbers[t]
        BY Zenon, <1>2 DEF LookupInv
      <4>1. /\ user = "node" /\ move = "done" /\ sought[t] \in Blocks
            /\ sought[t] \notin canonical => Number[sought[t]] <= Number[tip]
            /\ sought[t] \in canonical =>
                 /\ lookup[t] = "locked" =>
                       Number[sought[t]] \in numbers[t] \/ InShards(sought[t], shards)
                 /\ lookup[t] = "trying" => Number[sought[t]] \in numbers[t]
        BY Zenon, <1>1 DEF LookupInv
      <4>2. Number[l] = Number[tip] + 1
        <5>1. user # "head_only"
          BY <4>1
        <5> QED
          BY Zenon, <2>2, <5>1
      <4>3. PICK x : x = sought[t]
        BY Zenon
      <4>4. Number[x] \in Nat
        BY Zenon, <4>1, <4>3, BlocksAssumption
      <4>5. x \notin canonical => Number[x] <= Number[l] /\ x # l
        BY <2>3, <4>1, <4>2, <4>3, <4>4
      <4>6. x \in canonical => x \in canonical' \/ Number[x] = Number[l]
        BY Zenon, <2>8
      <4>7. Number[x] = Number[l] => Number[x] <= Number[l]
        BY <2>3
      <4>8. x \in canonical' => x \in canonical
        BY Zenon, <2>8, <4>5
      <4> QED
        BY Zenon, <2>8, <4>1, <4>3, <4>5, <4>6, <4>7, <4>8
    <3> QED
      BY Zenon, <3>6, <3>7, <3>8, <3>9, <3>10, <3>11, <3>12, <3>13 DEF IndexInv
  <2> QED
    BY Zenon, <1>4, <2>9, <2>10
<1> QED
  BY Zenon, <1>5, <1>6 DEF Write, tableVars

\* The rebuilt index has every block of the chain, in memory and on disk.
LEMMA RebuildIs ==
  ASSUME IndexTypeOK, EntryTypes, RebuildIndex, saving = NoFile
  PROVE  /\ shards' = ShardsOf(canonical) /\ merged' = NewestBlock(canonical)
         /\ merged' \in canonical /\ merged' # NoBlock /\ merged' \in Blocks
         /\ file' = [entries |-> shards', last |-> merged']
         /\ file'.entries = shards' /\ file'.last = merged'
         /\ shards' \in AllShards
         /\ \A b \in canonical : InShards(b, shards')
         /\ fresh' = {} /\ merging' = {} /\ noted' = NoBlock /\ saving' = NoFile
         /\ {file', saving'} \subseteq [entries : AllShards, last : Blocks \cup {NoBlock}]
<1>1. canonical \in SUBSET Blocks /\ canonical # {} /\ IsFiniteSet(canonical)
  BY Zenon DEF IndexTypeOK, EntryTypes
<1>2. /\ NewestBlock(canonical) \in canonical /\ NewestBlock(canonical) # NoBlock
  BY Zenon, <1>1, NewestIs
<1>3. /\ shards' = ShardsOf(canonical) /\ merged' = NewestBlock(canonical)
      /\ fresh' = {} /\ merging' = {} /\ noted' = NoBlock /\ saving' = NoFile
      /\ file' = Saved(shards', merged')
  BY Zenon DEF RebuildIndex
<1>4. file' = [entries |-> shards', last |-> merged']
  BY Zenon, <1>2, <1>3 DEF Saved
<1>5. file'.entries = shards' /\ file'.last = merged'
  BY <1>4
<1>6. shards' \in AllShards /\ \A b \in canonical : InShards(b, shards')
  BY Zenon, <1>1, <1>3, ShardsOfIs
<1>7. file' \in [entries : AllShards, last : Blocks \cup {NoBlock}]
  <2>1. merged' \in Blocks \cup {NoBlock}
    BY Zenon, <1>1, <1>2, <1>3
  <2> QED
    BY <1>4, <1>6, <2>1
<1>8. {file', saving'} \subseteq [entries : AllShards, last : Blocks \cup {NoBlock}]
  <2>1. PICK R : R = [entries : AllShards, last : Blocks \cup {NoBlock}]
    BY Zenon
  <2>2. file' \in R /\ NoFile \in R
    BY <1>7, <2>1, NoFileIs
  <2> QED
    BY Zenon, <1>3, <2>1, <2>2
<1> QED
  BY Zenon, <1>1, <1>2, <1>3, <1>4, <1>5, <1>6, <1>8

\* The loaded index has every block of the chain; so has the save it starts, and
\* the last block it is merged up to is in the chain and not below the file's.
LEMMA LoadIs ==
  ASSUME IndexTypeOK, EntryTypes, AcceptedFileComplete, byHash = None,
         FileFits(file.last), LoadIndex, saving = NoFile
  PROVE  /\ shards' \in AllShards /\ fresh' \in SUBSET AllEntries /\ merging' = {}
         /\ \A b \in canonical : Entry(b) \in fresh' \/ InShards(b, shards')
         /\ merged' \in canonical /\ noted' \in canonical \cup {NoBlock}
         /\ noted' # NoBlock => Number[noted'] > Number[merged']
         /\ file' = file
         /\ file.last = merged' \/ Number[file.last] < Number[merged']
         /\ \/ saving' = NoFile
            \/ /\ saving' = [entries |-> shards', last |-> merged']
               /\ fresh' = {}
         /\ {file', saving'} \subseteq [entries : AllShards, last : Blocks \cup {NoBlock}]
<1>1. canonical \in SUBSET Blocks /\ IsFiniteSet(canonical)
  BY Zenon DEF IndexTypeOK, EntryTypes
<1>2. file.last \in canonical /\ file.last \in Blocks
  BY Zenon, <1>1 DEF FileFits
<1>3. PICK tail : tail = {b \in canonical : Number[b] > Number[file.last]}
  BY Zenon
<1>4. PICK E : E = {Entry(b) : b \in tail}
  BY Zenon
<1>5. PICK all : all = [s \in ShardIds |-> file.entries[s] \cup InShard(E, s)]
  BY Zenon
<1>6. PICK many \in BOOLEAN : many <=> Cardinality(tail) >= MergeAt
  BY Zenon
<1>7. /\ shards' = IF many THEN all ELSE file.entries
      /\ fresh' = IF many THEN {} ELSE E
      /\ merging' = {}
      /\ noted' = IF many THEN NoBlock ELSE NewestBlock(tail)
      /\ merged' = IF many THEN NewestBlock(tail) ELSE file.last
      /\ saving' = IF many THEN [entries |-> all, last |-> NewestBlock(tail)] ELSE NoFile
      /\ file' = file
  BY <1>3, <1>4, <1>5, <1>6 DEF LoadIndex
<1>8. tail \in SUBSET canonical /\ tail \in SUBSET Blocks /\ IsFiniteSet(tail)
  BY Zenon, <1>1, <1>3, FS_Subset
<1>9. E \in SUBSET AllEntries
  BY Zenon, <1>4, <1>8 DEF AllEntries
<1>10. file.entries \in AllShards
  BY DEF EntryTypes
<1>11. all \in AllShards
  <2>1. PICK V : V = {ShardEntry(e) : e \in AllEntries}
    BY Zenon
  <2>2. file.entries \in [ShardIds -> SUBSET V]
    BY Zenon, <1>10, <2>1 DEF AllShards
  <2>3. \A s \in ShardIds : InShard(E, s) \in SUBSET V
    BY Zenon, <1>9, <2>1, InShardHas
  <2>4. all \in [ShardIds -> SUBSET V]
    BY <1>5, <2>2, <2>3
  <2> QED
    BY Zenon, <2>1, <2>4 DEF AllShards
<1>12. ASSUME NEW b \in canonical
       PROVE  InShards(b, file.entries) \/ b \in tail
  <2>1. CASE Number[b] <= Number[file.last]
    BY Zenon, <2>1 DEF AcceptedFileComplete, InShards
  <2>2. CASE Number[b] > Number[file.last]
    BY Zenon, <1>3, <2>2
  <2>3. Number[b] \in Nat /\ Number[file.last] \in Nat
    BY Zenon, <1>1, <1>2, BlocksAssumption
  <2>4. Number[b] <= Number[file.last] \/ Number[b] > Number[file.last]
    BY <2>3
  <2> QED
    BY Zenon, <2>1, <2>2, <2>4
<1>13. ASSUME tail # {}
       PROVE  /\ NewestBlock(tail) \in canonical /\ NewestBlock(tail) # NoBlock
              /\ Number[NewestBlock(tail)] > Number[file.last]
  BY Zenon, <1>3, <1>8, <1>13, NewestIs
<1>14. PICK R : R = [entries : AllShards, last : Blocks \cup {NoBlock}]
  BY Zenon
<1>15. file \in R /\ NoFile \in R
  BY <1>14, NoFileIs DEF EntryTypes
<1>16. CASE many
  <2>1. /\ shards' = all /\ fresh' = {} /\ noted' = NoBlock /\ merged' = NewestBlock(tail)
        /\ saving' = [entries |-> all, last |-> NewestBlock(tail)]
    BY <1>7, <1>16
  <2>2. tail # {}
    <3> SUFFICES ASSUME tail = {}
                 PROVE  FALSE
      BY Zenon
    <3>1. Cardinality(tail) = 0
      BY Zenon, FS_EmptySet
    <3>2. Cardinality(tail) >= MergeAt /\ MergeAt \in Nat \ {0}
      BY Zenon, <1>6, <1>16, BlockIndexAssumption
    <3> QED
      BY <3>1, <3>2
  <2>3. /\ merged' \in canonical /\ Number[merged'] > Number[file.last]
    BY Zenon, <1>13, <2>1, <2>2
  <2>4. Number[file.last] < Number[merged']
    <3>1. Number[file.last] \in Nat /\ Number[merged'] \in Nat
      BY Zenon, <1>1, <1>2, <2>3, BlocksAssumption
    <3> QED
      BY <2>3, <3>1
  <2>5. ASSUME NEW b \in canonical
        PROVE  InShards(b, shards')
    <3>1. b \in Blocks /\ Shard[Prefix[b]] \in ShardIds
      BY Zenon, <1>1 DEF ShardIds
    <3>2. all[Shard[Prefix[b]]] = file.entries[Shard[Prefix[b]]] \cup InShard(E, Shard[Prefix[b]])
      BY Zenon, <1>5, <3>1
    <3>3. b \in tail => ShardEntry(Entry(b)) \in InShard(E, Shard[Prefix[b]])
      BY Zenon, <1>4, <1>9, <3>1, InShardHas
    <3> QED
      BY Zenon, <1>12, <2>1, <3>2, <3>3 DEF InShards
  <2>6. saving' \in R
    <3>1. NewestBlock(tail) \in Blocks \cup {NoBlock}
      BY Zenon, <1>1, <2>1, <2>3
    <3> QED
      BY <1>11, <1>14, <2>1, <3>1
  <2>7. {file', saving'} \subseteq [entries : AllShards, last : Blocks \cup {NoBlock}]
    BY Zenon, <1>7, <1>14, <1>15, <2>6
  <2>8. saving' = [entries |-> shards', last |-> merged'] /\ shards' \in AllShards
    BY Zenon, <1>11, <2>1
  <2> QED
    BY Zenon, <1>7, <2>1, <2>3, <2>4, <2>5, <2>7, <2>8
<1>17. CASE ~many
  <2>1. /\ shards' = file.entries /\ fresh' = E /\ noted' = NewestBlock(tail)
        /\ merged' = file.last /\ saving' = NoFile
    BY <1>7, <1>17
  <2>2. noted' # NoBlock => noted' \in canonical /\ Number[noted'] > Number[merged']
    <3>1. tail = {} => noted' = NoBlock
      BY Zenon, <2>1 DEF NewestBlock
    <3> QED
      BY Zenon, <1>13, <2>1, <3>1
  <2>3. \A b \in canonical : Entry(b) \in fresh' \/ InShards(b, shards')
    BY Zenon, <1>4, <1>12, <2>1
  <2>4. {file', saving'} \subseteq [entries : AllShards, last : Blocks \cup {NoBlock}]
    BY Zenon, <1>7, <1>14, <1>15, <2>1
  <2> QED
    BY Zenon, <1>2, <1>7, <1>9, <1>10, <2>1, <2>2, <2>3, <2>4
<1> QED
  BY Zenon, <1>16, <1>17

\* The parts of the invariant that an open, or a step of the move, leaves with
\* the chain, the tables and the lookups as they were.
LEMMA OpenTypes ==
  ASSUME IndexTypeOK, EntryTypes,
         UNCHANGED <<canonical, byHash, tip, writer, todo, lookup, sought, numbers>>,
         byNumber' = None \/ byNumber' = byNumber \/ byNumber' = {},
         user' \in {"none", "node", "head_only", "truncate"},
         opens' \in 0..MaxOpens,
         move' \in {"none", "off", "index", "copy", "drop", "done"},
         noted' \in Blocks \cup {NoBlock}, merged' \in Blocks \cup {NoBlock},
         shards' \in AllShards, fresh' \in SUBSET AllEntries, merging' = {},
         {file', saving'} \subseteq [entries : AllShards, last : Blocks \cup {NoBlock}]
  PROVE  IndexTypeOK' /\ EntryTypes'
<1>1. file'.last \in Blocks \cup {NoBlock} /\ saving'.last \in Blocks \cup {NoBlock}
  OBVIOUS
<1>2. {noted', merged', file'.last, saving'.last} \subseteq Blocks \cup {NoBlock}
  BY Zenon, <1>1
<1>3. byNumber' = None \/ byNumber' \subseteq Blocks
  BY Zenon DEF IndexTypeOK
<1>4. \A S \in {canonical', byNumber'} : \A x, y \in S \cap Blocks :
         Number[x] = Number[y] => x = y
  <2>1. \A x, y \in canonical \cap Blocks : Number[x] = Number[y] => x = y
    BY Zenon DEF IndexTypeOK
  <2>2. \A x, y \in byNumber \cap Blocks : Number[x] = Number[y] => x = y
    BY Zenon DEF IndexTypeOK
  <2>3. None \cap Blocks = {}
    BY Zenon, BlockIndexAssumption DEF None
  <2>4. \A x, y \in byNumber' \cap Blocks : Number[x] = Number[y] => x = y
    BY Zenon, <2>2, <2>3
  <2> QED
    BY Zenon, <2>1, <2>4
<1>5. /\ canonical' \subseteq Blocks /\ tip' \in canonical'
      /\ byHash' = None \/ byHash' \subseteq Blocks
      /\ writer' \in {"idle", "note", "write", "written", "merge"}
      /\ todo' \subseteq ShardIds
  BY Zenon DEF IndexTypeOK
<1>6. IndexTypeOK'
  BY Zenon, <1>2, <1>3, <1>4, <1>5 DEF IndexTypeOK
<1>7. EntryTypes'
  BY Zenon DEF EntryTypes
<1> QED
  BY Zenon, <1>6, <1>7

\* The database is opened.
LEMMA OpenKeeps ==
  ASSUME IndexInv, NEW who \in {"node", "head_only", "truncate"}, NEW enabled \in BOOLEAN,
         Open(who, enabled)
  PROVE  IndexInv'
<1>1. /\ IndexTypeOK /\ InfosComplete /\ AcceptedFileComplete /\ EntryTypes
      /\ MoveInv /\ WriterInv /\ FileInv /\ LookupInv
  BY Zenon DEF IndexInv
<1>2. /\ user = "none" /\ opens < MaxOpens /\ user' = who /\ opens' = opens + 1
      /\ who = "truncate" => ~enabled
      /\ UNCHANGED <<canonical, byHash, tip>>
      /\ UNCHANGED <<writer, batch, todo>>
      /\ UNCHANGED <<lookup, sought, numbers>>
  BY Zenon DEF Open, writerVars, lookupVars
<1>3. move = "none" /\ writer = "idle" /\ saving = NoFile
  BY Zenon, <1>1, <1>2 DEF MoveInv
<1>4. /\ opens' \in 0..MaxOpens /\ user' \in {"none", "node", "head_only", "truncate"}
      /\ user' # "none"
  <2>1. opens \in 0..MaxOpens /\ MaxOpens \in Nat
    BY Zenon, <1>1, BlockIndexAssumption DEF IndexTypeOK
  <2>2. opens' \in 0..MaxOpens
    BY <1>2, <2>1
  <2>3. who # "none"
    OBVIOUS
  <2> QED
    BY Zenon, <1>2, <2>2, <2>3
<1>5. LookupInv'
  <2>1. user # "node"
    BY <1>2
  <2> QED
    BY Zenon, <1>1, <1>2, <2>1, NoLookups
<1>6. canonical \subseteq Blocks
  BY Zenon, <1>1 DEF IndexTypeOK
<1>7. /\ writer' = "idle" /\ writer' \notin {"note", "write"} /\ writer' # "write"
      /\ writer' \notin {"written", "merge"} /\ writer' # "merge"
  BY <1>2, <1>3
<1>8. CASE byHash = None
  <2>1. /\ move' = "done" /\ byNumber' = byNumber
        /\ (FileFits(file.last) /\ LoadIndex) \/ RebuildIndex
    BY <1>8 DEF Open
  <2>2. /\ move' \notin {"off", "index", "copy", "drop"} /\ move' # "off" /\ move' # "none"
        /\ move' \notin {"none", "index", "copy", "drop"} /\ move' \notin {"copy", "drop"}
        /\ move' # "drop"
    BY <2>1
  <2>3. MoveInv'
    BY Zenon, <1>1, <1>2, <1>4, <1>7, <1>8, <2>1, <2>2 DEF MoveInv
  <2>4. InfosComplete'
    BY Zenon, <1>1, <1>2, <2>1, InfosStay
  <2>5. CASE RebuildIndex
    <3>1. /\ merged' \in canonical /\ merged' # NoBlock /\ merged' \in Blocks
          /\ file'.entries = shards' /\ file'.last = merged'
          /\ shards' \in AllShards
          /\ \A b \in canonical : InShards(b, shards')
          /\ fresh' = {} /\ merging' = {} /\ noted' = NoBlock /\ saving' = NoFile
          /\ {file', saving'} \subseteq [entries : AllShards, last : Blocks \cup {NoBlock}]
      BY Zenon, <1>1, <1>3, <2>5, RebuildIs
    <3>2. IndexTypeOK' /\ EntryTypes'
      BY Zenon, <1>1, <1>2, <1>4, <2>1, <3>1, OpenTypes
    <3>3. AcceptedFileComplete'
      BY Zenon, <1>2, <3>1, NoFileIs DEF AcceptedFileComplete, FileFits, InShards
    <3>4. WriterInv'
      BY Zenon, <1>2, <1>7, <3>1 DEF WriterInv, Indexed
    <3>5. FileInv'
      BY Zenon, <1>2, <3>1, NoFileIs DEF FileInv
    <3> QED
      BY Zenon, <1>5, <2>3, <2>4, <3>2, <3>3, <3>4, <3>5 DEF IndexInv
  <2>6. CASE FileFits(file.last) /\ LoadIndex
    <3>1. /\ shards' \in AllShards /\ fresh' \in SUBSET AllEntries /\ merging' = {}
          /\ \A b \in canonical : Entry(b) \in fresh' \/ InShards(b, shards')
          /\ merged' \in canonical /\ noted' \in canonical \cup {NoBlock}
          /\ noted' # NoBlock => Number[noted'] > Number[merged']
          /\ file' = file
          /\ file.last = merged' \/ Number[file.last] < Number[merged']
          /\ \/ saving' = NoFile
             \/ /\ saving' = [entries |-> shards', last |-> merged']
                /\ fresh' = {}
          /\ {file', saving'} \subseteq [entries : AllShards, last : Blocks \cup {NoBlock}]
      BY Zenon, <1>1, <1>3, <1>8, <2>6, LoadIs
    <3>2. IndexTypeOK' /\ EntryTypes'
      <4>1. noted' \in Blocks \cup {NoBlock} /\ merged' \in Blocks \cup {NoBlock}
        BY Zenon, <1>6, <3>1
      <4> QED
        BY Zenon, <1>1, <1>2, <1>4, <2>1, <3>1, <4>1, OpenTypes
    <3>3. \/ saving' = NoFile
          \/ saving'.entries = shards' /\ saving'.last = merged' /\ fresh' = {}
      <4>1. saving' = [entries |-> shards', last |-> merged'] =>
               saving'.entries = shards' /\ saving'.last = merged'
        OBVIOUS
      <4> QED
        BY Zenon, <3>1, <4>1
    <3>4. AcceptedFileComplete'
      <4> SUFFICES ASSUME NEW f \in {file', saving'}, FileFits(f.last)',
                          NEW b \in canonical', Number[b] <= Number[f.last]
                   PROVE  ShardEntry(Entry(b)) \in f.entries[Shard[Prefix[b]]]
        BY Zenon DEF AcceptedFileComplete
      <4>1. CASE f = file
        BY Zenon, <1>1, <1>2, <1>8, <4>1 DEF AcceptedFileComplete, FileFits
      <4>2. CASE f = saving' /\ f # file
        <5>1. saving' # NoFile
          BY Zenon, <4>2, NoFileIs DEF FileFits
        <5>2. saving'.entries = shards' /\ fresh' = {}
          BY Zenon, <3>3, <5>1
        <5> QED
          BY Zenon, <1>2, <3>1, <4>2, <5>2 DEF InShards
      <4> QED
        BY Zenon, <3>1, <4>1, <4>2
    <3>5. WriterInv'
      <4>1. \A b \in canonical' : Indexed(b)'
        BY Zenon, <1>2, <3>1 DEF Indexed
      <4> QED
        BY Zenon, <1>7, <3>1, <4>1 DEF WriterInv
    <3>6. FileInv'
      <4>1. merged' # NoBlock /\ merged' \in canonical'
        BY Zenon, <1>2, <1>6, <3>1, BlockIndexAssumption
      <4>2. noted' # NoBlock => Number[noted'] > Number[merged']
        BY Zenon, <3>1
      <4>3. ASSUME NEW f \in {file', saving'}, f.last # NoBlock
            PROVE  f.last = merged' \/ Number[f.last] < Number[merged']
        <5>1. f = file \/ f = saving'
          BY Zenon, <3>1
        <5> QED
          BY Zenon, <3>1, <3>3, <4>3, <5>1, NoFileIs
      <4> QED
        BY Zenon, <4>1, <4>2, <4>3 DEF FileInv
    <3> QED
      BY Zenon, <1>5, <2>3, <2>4, <3>2, <3>4, <3>5, <3>6 DEF IndexInv
  <2> QED
    BY Zenon, <2>1, <2>5, <2>6
<1>9. CASE byHash # None
  <2>1. /\ byNumber' = IF enabled THEN {} ELSE None
        /\ move' = IF enabled THEN "index" ELSE "off"
        /\ EmptyIndex /\ UNCHANGED <<file, saving>>
    BY <1>9 DEF Open
  <2>2. /\ byNumber' = None \/ byNumber' = {}
        /\ move' \in {"index", "off"}
        /\ move' = "off" => byNumber' = None
        /\ who = "truncate" => move' = "off"
    BY <1>2, <2>1
  <2>3. /\ shards' = [s \in ShardIds |-> {}] /\ fresh' = {} /\ merging' = {}
        /\ noted' = NoBlock /\ merged' = NoBlock /\ file' = file /\ saving' = saving
    BY Zenon, <2>1 DEF EmptyIndex
  <2>4. IndexTypeOK' /\ EntryTypes'
    <3>1. shards' \in AllShards
      BY <2>3 DEF AllShards
    <3>2. {file', saving'} \subseteq [entries : AllShards, last : Blocks \cup {NoBlock}]
      BY <1>1, <2>3 DEF EntryTypes
    <3>3. move' \in {"none", "off", "index", "copy", "drop", "done"}
      BY Zenon, <2>2
    <3>4. /\ byNumber' = None \/ byNumber' = byNumber \/ byNumber' = {}
          /\ noted' \in Blocks \cup {NoBlock} /\ merged' \in Blocks \cup {NoBlock}
          /\ fresh' \in SUBSET AllEntries /\ merging' = {}
      BY Zenon, <2>2, <2>3
    <3> QED
      BY Zenon, <1>1, <1>2, <1>4, <3>1, <3>2, <3>3, <3>4, OpenTypes
  <2>5. InfosComplete'
    <3>1. canonical \subseteq byHash
      BY <1>1, <1>9 DEF InfosComplete
    <3> QED
      BY <1>2, <1>9, <3>1 DEF InfosComplete
  <2>6. AcceptedFileComplete'
    BY Zenon, <1>2, <1>9 DEF AcceptedFileComplete
  <2>7. move' # "done" /\ move' \notin {"copy", "drop"} /\ move' # "drop" /\ move' # "none"
    BY <2>2
  <2>8. MoveInv'
    BY Zenon, <1>2, <1>3, <1>4, <1>7, <1>9, <2>2, <2>3, <2>7 DEF MoveInv
  <2>9. WriterInv' /\ FileInv'
    BY Zenon, <1>7, <2>7 DEF WriterInv, FileInv
  <2> QED
    BY Zenon, <1>5, <2>4, <2>5, <2>6, <2>8, <2>9 DEF IndexInv
<1> QED
  BY Zenon, <1>8, <1>9

\* The move rebuilds the index.
LEMMA MoveIndexKeeps ==
  ASSUME IndexInv, MoveIndex
  PROVE  IndexInv'
<1>1. /\ IndexTypeOK /\ InfosComplete /\ AcceptedFileComplete /\ EntryTypes
      /\ MoveInv /\ WriterInv /\ FileInv /\ LookupInv
  BY Zenon DEF IndexInv
<1>2. /\ move = "index" /\ RebuildIndex /\ move' = "copy"
      /\ UNCHANGED <<canonical, byHash, byNumber, tip>>
      /\ UNCHANGED <<user, opens, writer, batch, todo>>
      /\ UNCHANGED <<lookup, sought, numbers>>
  BY Zenon DEF MoveIndex, tableVars, writerVars, lookupVars
<1>3. writer = "idle" /\ saving = NoFile /\ byHash # None
  BY Zenon, <1>1, <1>2 DEF MoveInv
<1>4. /\ shards' = ShardsOf(canonical) /\ merged' = NewestBlock(canonical)
      /\ merged' \in Blocks
      /\ file' = [entries |-> shards', last |-> merged']
      /\ shards' \in AllShards
      /\ fresh' = {} /\ merging' = {} /\ noted' = NoBlock /\ saving' = NoFile
      /\ {file', saving'} \subseteq [entries : AllShards, last : Blocks \cup {NoBlock}]
  BY Zenon, <1>1, <1>2, <1>3, RebuildIs
<1>5. /\ move # "none" /\ move # "done" /\ move' # "done" /\ move' # "none" /\ move' # "off"
      /\ move' # "drop" /\ writer' \notin {"note", "write"} /\ move \notin {"off", "done"}
  BY <1>2, <1>3
<1>6. IndexTypeOK' /\ EntryTypes'
  <2>1. /\ move' \in {"none", "off", "index", "copy", "drop", "done"}
        /\ user' \in {"none", "node", "head_only", "truncate"} /\ opens' \in 0..MaxOpens
    BY Zenon, <1>1, <1>2 DEF IndexTypeOK
  <2> QED
    BY Zenon, <1>1, <1>2, <1>4, <2>1, OpenTypes
<1>7. InfosComplete'
  BY Zenon, <1>1, <1>2, InfosStay
<1>8. AcceptedFileComplete'
  BY Zenon, <1>2, <1>3 DEF AcceptedFileComplete
<1>9. MoveInv'
  <2>1. user # "none" /\ user # "truncate"
    BY Zenon, <1>1, <1>5 DEF MoveInv
  <2>2. ShardsOf(canonical) = ShardsOf(canonical') /\ NewestBlock(canonical) = NewestBlock(canonical')
    BY Zenon, <1>2
  <2> QED
    BY Zenon, <1>2, <1>3, <1>4, <1>5, <2>1, <2>2 DEF MoveInv
<1>10. WriterInv' /\ FileInv'
  BY Zenon, <1>5 DEF WriterInv, FileInv
<1>11. LookupInv'
  BY Zenon, <1>1, <1>2, <1>5, NoLookups
<1> QED
  BY Zenon, <1>6, <1>7, <1>8, <1>9, <1>10, <1>11 DEF IndexInv

\* The move copies the chain: the rebuilt index has exactly its blocks, and the
\* table by hash has the infos of all of them.
LEMMA CopiedIs ==
  ASSUME IndexInv, move = "copy"
  PROVE  Copied = canonical
<1>1. /\ IndexTypeOK /\ InfosComplete /\ EntryTypes /\ MoveInv
  BY Zenon DEF IndexInv
<1>2. /\ shards = ShardsOf(canonical) /\ fresh = {} /\ merging = {} /\ byHash # None
  BY Zenon, <1>1 DEF MoveInv
<1>3. canonical \in SUBSET Blocks /\ byHash \subseteq Blocks
  BY Zenon, <1>1, <1>2 DEF IndexTypeOK
<1>4. canonical \subseteq byHash
  BY <1>1, <1>2 DEF InfosComplete
<1>5. ASSUME NEW b \in byHash
      PROVE  Number[b] \in Candidates(b) <=> b \in canonical
  <2>1. b \in Blocks
    BY Zenon, <1>3
  <2>2. RecentNumbers(fresh \cup merging, b) = {}
    BY Zenon, <1>2 DEF RecentNumbers
  <2>3. Number[b] \in ShardNumbers(shards[Shard[Prefix[b]]], b) <=> InShards(b, shards)
    BY Zenon, <1>1, <2>1, ShardNumbersHas DEF EntryTypes
  <2>4. InShards(b, shards) <=> b \in canonical
    BY Zenon, <1>2, <1>3, <2>1, ShardsOfIs
  <2> QED
    BY Zenon, <2>2, <2>3, <2>4 DEF Candidates
<1> QED
  BY Zenon, <1>4, <1>5 DEF Copied

\* The move copies the infos.
LEMMA MoveCopyKeeps ==
  ASSUME IndexInv, MoveCopy
  PROVE  IndexInv'
<1>1. /\ IndexTypeOK /\ InfosComplete /\ AcceptedFileComplete /\ EntryTypes
      /\ MoveInv /\ WriterInv /\ FileInv /\ LookupInv
  BY Zenon DEF IndexInv
<1>2. /\ move = "copy" /\ byNumber' = Copied /\ move' = "drop"
      /\ UNCHANGED <<canonical, byHash, tip>>
      /\ UNCHANGED <<file, user, opens, saving, writer, batch, todo>>
      /\ UNCHANGED <<shards, fresh, merging, noted, merged>>
      /\ UNCHANGED <<lookup, sought, numbers>>
  BY Zenon DEF MoveCopy, memoryVars, writerVars, lookupVars
<1>3. byNumber' = canonical
  BY Zenon, <1>2, CopiedIs
<1>4. byHash # None /\ writer = "idle" /\ saving = NoFile /\ user # "none" /\ user # "truncate"
  <2>1. move # "none" /\ move \notin {"off", "done"}
    BY <1>2
  <2> QED
    BY Zenon, <1>1, <1>2, <2>1 DEF MoveInv
<1>5. /\ move' # "done" /\ move' # "none" /\ move' # "off" /\ move # "done"
      /\ writer' \notin {"note", "write"}
  BY <1>2, <1>4
<1>6. IndexTypeOK'
  <2>1. /\ canonical \subseteq Blocks
        /\ \A x, y \in canonical \cap Blocks : Number[x] = Number[y] => x = y
    BY Zenon, <1>1 DEF IndexTypeOK
  <2>2. \A S \in {canonical', byNumber'} : \A x, y \in S \cap Blocks :
           Number[x] = Number[y] => x = y
    BY Zenon, <1>2, <1>3, <2>1
  <2>3. /\ byNumber' = None \/ byNumber' \subseteq Blocks
        /\ move' \in {"none", "off", "index", "copy", "drop", "done"}
    BY Zenon, <1>2, <1>3, <2>1
  <2> QED
    BY Zenon, <1>1, <1>2, <2>2, <2>3 DEF IndexTypeOK
<1>7. InfosComplete'
  <2>1. canonical \subseteq byHash
    BY <1>1, <1>4 DEF InfosComplete
  <2> QED
    BY <1>2, <1>4, <2>1 DEF InfosComplete
<1>8. AcceptedFileComplete'
  BY Zenon, <1>2, <1>4 DEF AcceptedFileComplete
<1>9. EntryTypes'
  BY Zenon, <1>1, <1>2 DEF EntryTypes
<1>10. MoveInv'
  <2>1. /\ file = [entries |-> shards, last |-> merged]
        /\ shards = ShardsOf(canonical) /\ merged = NewestBlock(canonical)
        /\ fresh = {} /\ merging = {} /\ noted = NoBlock
    BY Zenon, <1>1, <1>2 DEF MoveInv
  <2>2. /\ file' = [entries |-> shards', last |-> merged']
        /\ shards' = ShardsOf(canonical') /\ merged' = NewestBlock(canonical')
        /\ fresh' = {} /\ merging' = {} /\ noted' = NoBlock
    BY Zenon, <1>2, <2>1
  <2> QED
    BY Zenon, <1>2, <1>3, <1>4, <1>5, <2>2 DEF MoveInv
<1>11. WriterInv' /\ FileInv'
  BY Zenon, <1>5 DEF WriterInv, FileInv
<1>12. LookupInv'
  BY Zenon, <1>1, <1>2, <1>5, NoLookups
<1> QED
  BY Zenon, <1>6, <1>7, <1>8, <1>9, <1>10, <1>11, <1>12 DEF IndexInv

\* The move drops the table by hash.
LEMMA MoveDropKeeps ==
  ASSUME IndexInv, MoveDrop
  PROVE  IndexInv'
<1>1. /\ IndexTypeOK /\ InfosComplete /\ AcceptedFileComplete /\ EntryTypes
      /\ MoveInv /\ WriterInv /\ FileInv /\ LookupInv
  BY Zenon DEF IndexInv
<1>2. /\ move = "drop" /\ byHash' = None /\ move' = "done"
      /\ UNCHANGED <<canonical, byNumber, tip>>
      /\ UNCHANGED <<file, user, opens, saving, writer, batch, todo>>
      /\ UNCHANGED <<shards, fresh, merging, noted, merged>>
      /\ UNCHANGED <<lookup, sought, numbers>>
  BY Zenon DEF MoveDrop, memoryVars, writerVars, lookupVars
<1>3. /\ file = [entries |-> shards, last |-> merged]
      /\ shards = ShardsOf(canonical) /\ merged = NewestBlock(canonical)
      /\ fresh = {} /\ merging = {} /\ noted = NoBlock
      /\ byNumber = canonical /\ writer = "idle" /\ saving = NoFile
  BY Zenon, <1>1, <1>2 DEF MoveInv
<1>4. user # "none" /\ user # "truncate"
  <2>1. move # "none" /\ move \notin {"off", "done"}
    BY <1>2
  <2> QED
    BY Zenon, <1>1, <2>1 DEF MoveInv
<1>5. canonical \in SUBSET Blocks /\ canonical # {} /\ IsFiniteSet(canonical)
  BY Zenon, <1>1 DEF IndexTypeOK, EntryTypes
<1>6. merged \in canonical /\ merged # NoBlock
  BY Zenon, <1>3, <1>5, NewestIs
<1>7. \A b \in canonical : InShards(b, shards)
  BY Zenon, <1>3, <1>5, ShardsOfIs
<1>8. file.entries = shards /\ file.last = merged
  BY <1>3
<1>9. IndexTypeOK'
  <2>1. move' \in {"none", "off", "index", "copy", "drop", "done"}
    BY Zenon, <1>2
  <2> QED
    BY Zenon, <1>1, <1>2, <2>1 DEF IndexTypeOK
<1>10. InfosComplete'
  BY <1>2, <1>3 DEF InfosComplete
<1>11. AcceptedFileComplete'
  BY Zenon, <1>2, <1>3, <1>7, <1>8, NoFileIs DEF AcceptedFileComplete, FileFits, InShards
<1>12. EntryTypes'
  BY Zenon, <1>1, <1>2 DEF EntryTypes
<1>13. /\ move' \notin {"off", "index", "copy", "drop"} /\ move' # "off" /\ move' # "none"
       /\ move' \notin {"none", "index", "copy", "drop"} /\ move' \notin {"copy", "drop"}
       /\ move' # "drop" /\ move # "done"
       /\ writer' \notin {"note", "write"} /\ writer' # "write"
       /\ writer' \notin {"written", "merge"} /\ writer' # "merge"
  BY <1>2, <1>3
<1>14. MoveInv'
  BY Zenon, <1>2, <1>3, <1>4, <1>13 DEF MoveInv
<1>15. WriterInv'
  <2>1. \A b \in canonical' : Indexed(b)'
    BY Zenon, <1>2, <1>7 DEF Indexed, InShards
  <2> QED
    BY Zenon, <1>2, <1>3, <1>13, <2>1 DEF WriterInv
<1>16. FileInv'
  BY Zenon, <1>2, <1>3, <1>6, <1>8, NoFileIs DEF FileInv
<1>17. LookupInv'
  BY Zenon, <1>1, <1>2, <1>13, NoLookups
<1> QED
  BY Zenon, <1>9, <1>10, <1>11, <1>12, <1>14, <1>15, <1>16, <1>17 DEF IndexInv

\* The chain has as many blocks as the index it is rebuilt into has entries: no
\* two blocks of it share one.
LEMMA MoveCounts ==
  ASSUME IndexInv, move = "copy"
  PROVE  Cardinality(Copied) = IndexLen
<1>1. IndexTypeOK /\ EntryTypes /\ MoveInv
  BY Zenon DEF IndexInv
<1>2. shards = ShardsOf(canonical) /\ fresh = {}
  BY Zenon, <1>1 DEF MoveInv
<1>3. canonical \in SUBSET Blocks /\ IsFiniteSet(canonical)
  BY Zenon, <1>1 DEF IndexTypeOK, EntryTypes
<1>4. PICK U : U = UNION {{s} \X shards[s] : s \in ShardIds}
  BY Zenon
<1>5. PICK f : f = [b \in canonical |-> <<Shard[Prefix[b]], ShardEntry(Entry(b))>>]
  BY Zenon
<1>6. ASSUME NEW b \in canonical
      PROVE  f[b] \in U
  <2>1. Shard[Prefix[b]] \in ShardIds /\ b \in Blocks
    BY Zenon, <1>3 DEF ShardIds
  <2>2. ShardEntry(Entry(b)) \in shards[Shard[Prefix[b]]]
    BY Zenon, <1>2, <1>3, <2>1, ShardsOfIs DEF InShards
  <2>3. <<Shard[Prefix[b]], ShardEntry(Entry(b))>> \in {Shard[Prefix[b]]} \X shards[Shard[Prefix[b]]]
    BY <2>2
  <2> QED
    BY Zenon, <1>4, <1>5, <2>1, <2>3
<1>7. ASSUME NEW b \in canonical, NEW c \in canonical, f[b] = f[c]
      PROVE  b = c
  <2>1. <<Shard[Prefix[b]], ShardEntry(Entry(b))>> = <<Shard[Prefix[c]], ShardEntry(Entry(c))>>
    BY Zenon, <1>5, <1>7
  <2>2. Shard[Prefix[b]] = Shard[Prefix[c]] /\ ShardEntry(Entry(b)) = ShardEntry(Entry(c))
    BY <2>1
  <2>3. <<Code[Prefix[b]], Number[b]>> = <<Code[Prefix[c]], Number[c]>>
    BY Zenon, <2>2, EntryFields
  <2>4. Code[Prefix[b]] = Code[Prefix[c]] /\ Number[b] = Number[c]
    BY <2>3
  <2>5. b \in Blocks /\ c \in Blocks
    BY Zenon, <1>3
  <2> QED
    BY Zenon, <2>2, <2>4, <2>5, BlockIndexAssumption
<1>8. ASSUME NEW u \in U
      PROVE  \E b \in canonical : f[b] = u
  <2>1. PICK s \in ShardIds : u \in {s} \X shards[s]
    BY Zenon, <1>4
  <2>2. PICK e \in shards[s] : u = <<s, e>>
    BY <2>1
  <2>3. PICK E : E = {Entry(b) : b \in canonical}
    BY Zenon
  <2>4. shards[s] = InShard(E, s)
    BY Zenon, <1>2, <2>3 DEF ShardsOf
  <2>5. PICK d \in E : Shard[d[1]] = s /\ e = ShardEntry(d)
    BY Zenon, <2>2, <2>4 DEF InShard
  <2>6. PICK b \in canonical : d = Entry(b)
    BY Zenon, <2>3, <2>5
  <2>7. Shard[Prefix[b]] = s
    BY Zenon, <2>5, <2>6, EntryFields
  <2>8. f[b] = <<Shard[Prefix[b]], ShardEntry(Entry(b))>>
    BY Zenon, <1>5
  <2> QED
    BY Zenon, <2>2, <2>5, <2>6, <2>7, <2>8
<1>9. f \in Bijection(canonical, U)
  <2>1. f \in [canonical -> U]
    BY Zenon, <1>5, <1>6
  <2>2. f \in Injection(canonical, U)
    BY Zenon, <1>7, <2>1 DEF Injection, IsInjective
  <2>3. f \in Surjection(canonical, U)
    BY Zenon, <1>8, <2>1 DEF Surjection
  <2> QED
    BY Zenon, <2>2, <2>3 DEF Bijection
<1>10. Cardinality(U) = Cardinality(canonical) /\ Cardinality(canonical) \in Nat
  BY Zenon, <1>3, <1>9, FS_Bijection, FS_CardinalityType DEF ExistsBijection
<1>11. Cardinality(fresh) = 0
  BY Zenon, <1>2, FS_EmptySet
<1>12. IndexLen = Cardinality(fresh) + Cardinality(U)
  BY Zenon, <1>4 DEF IndexLen
<1>13. IndexLen = Cardinality(canonical)
  BY <1>10, <1>11, <1>12
<1> QED
  BY Zenon, <1>13, CopiedIs

\* The invariant holds at first.
LEMMA IndexStart ==
  ASSUME IndexInit
  PROVE  IndexInv
<1>1. /\ tip \in Blocks /\ canonical = Anc[tip] /\ canonical \subseteq Blocks
      /\ tip \in canonical /\ IsFiniteSet(canonical)
  BY Zenon, BlockIndexAssumption, AncSelf, AncFinite DEF IndexInit
<1>2. \/ byHash = canonical /\ byNumber = None
      \/ byHash = None /\ byNumber = canonical
  BY Zenon DEF IndexInit
<1>3. /\ file = NoFile /\ saving = NoFile /\ user = "none" /\ opens = 0 /\ move = "none"
      /\ shards = [s \in ShardIds |-> {}] /\ fresh = {} /\ merging = {}
      /\ noted = NoBlock /\ merged = NoBlock
      /\ writer = "idle" /\ todo = {}
      /\ lookup = [t \in Lookups |-> "idle"]
      /\ sought = [t \in Lookups |-> NoBlock]
      /\ numbers = [t \in Lookups |-> {}]
  BY Zenon DEF IndexInit
<1>4. canonical # None
  BY Zenon, <1>1, BlockIndexAssumption DEF None
<1>5. \A x, y \in canonical : Number[x] = Number[y] => x = y
  BY Zenon, <1>1, AncUnique
<1>6. IndexTypeOK
  <2>1. \A S \in {canonical, byNumber} : \A x, y \in S \cap Blocks :
           Number[x] = Number[y] => x = y
    BY Zenon, <1>2, <1>5, BlockIndexAssumption DEF None
  <2>2. {noted, merged, file.last, saving.last} \subseteq Blocks \cup {NoBlock}
    BY Zenon, <1>3, NoFileIs
  <2>3. opens \in 0..MaxOpens
    BY <1>3, BlockIndexAssumption
  <2> QED
    BY Zenon, <1>1, <1>2, <1>3, <2>1, <2>2, <2>3 DEF IndexTypeOK
<1>7. InfosComplete
  BY <1>2, <1>4 DEF InfosComplete
<1>8. AcceptedFileComplete
  BY Zenon, <1>3, NoFileIs DEF AcceptedFileComplete, FileFits
<1>9. EntryTypes
  <2>1. {file, saving} \subseteq [entries : AllShards, last : Blocks \cup {NoBlock}]
    BY <1>3, NoFileIs
  <2>2. shards \in AllShards
    BY <1>3 DEF AllShards
  <2>3. /\ lookup \in [Lookups -> {"idle", "locked", "trying", "found"}]
        /\ sought \in [Lookups -> Blocks \cup {NoBlock}]
        /\ numbers \in [Lookups -> SUBSET Nat]
    BY <1>3
  <2> QED
    BY Zenon, <1>1, <1>3, <2>1, <2>2, <2>3 DEF EntryTypes
<1>10. /\ "none" \notin {"off", "index", "copy", "drop"} /\ "none" # "done" /\ "none" # "off"
       /\ "none" # "truncate" /\ "none" \notin {"copy", "drop"} /\ "none" # "drop"
       /\ "idle" \notin {"note", "write"}
  OBVIOUS
<1>11. MoveInv
  BY Zenon, <1>2, <1>3, <1>4, <1>10 DEF MoveInv
<1>12. WriterInv /\ FileInv
  BY Zenon, <1>3, <1>10 DEF WriterInv, FileInv
<1>13. LookupInv
  BY Zenon, <1>3 DEF LookupInv
<1> QED
  BY Zenon, <1>6, <1>7, <1>8, <1>9, <1>11, <1>12, <1>13 DEF IndexInv

\* A step that changes nothing keeps it.
LEMMA IndexStutters ==
  ASSUME IndexInv, UNCHANGED indexVars
  PROVE  IndexInv'
<1>1. /\ IndexTypeOK /\ InfosComplete /\ AcceptedFileComplete /\ EntryTypes
      /\ MoveInv /\ WriterInv /\ FileInv /\ LookupInv
  BY Zenon DEF IndexInv
<1>2. /\ UNCHANGED <<canonical, byHash, byNumber, tip>>
      /\ UNCHANGED <<file, user, opens, move, saving, writer, batch, todo>>
      /\ UNCHANGED <<shards, fresh, merging, noted, merged>>
      /\ UNCHANGED <<lookup, sought, numbers>>
  BY Zenon DEF indexVars, tableVars, memoryVars, writerVars, lookupVars
<1>3. LookupInv'
  BY Zenon, <1>1, <1>2, LookupStays
<1>4. /\ lookup' \in [Lookups -> {"idle", "locked", "trying", "found"}]
      /\ sought' \in [Lookups -> Blocks \cup {NoBlock}]
      /\ numbers' \in [Lookups -> SUBSET Nat]
  BY Zenon, <1>1, <1>2 DEF EntryTypes
<1> QED
  BY Zenon, <1>2, <1>3, <1>4, LookupOnly

\* Every step of the block index keeps its invariant.
LEMMA IndexStep ==
  ASSUME IndexInv, [IndexNext]_indexVars
  PROVE  IndexInv'
<1>1. ASSUME NEW who \in {"node", "head_only", "truncate"}, NEW e \in BOOLEAN, Open(who, e)
      PROVE  IndexInv'
  BY Zenon, <1>1, OpenKeeps
<1>2. CASE MoveIndex
  BY Zenon, <1>2, MoveIndexKeeps
<1>3. CASE MoveCopy
  BY Zenon, <1>3, MoveCopyKeeps
<1>4. CASE MoveDrop
  BY Zenon, <1>4, MoveDropKeeps
<1>5. ASSUME NEW bs \in Batches, BeginCommit(bs)
      PROVE  IndexInv'
  BY Zenon, <1>5, BeginCommitKeeps
<1>6. CASE DropFile
  BY Zenon, <1>6, DropFileKeeps
<1>7. CASE Note
  BY Zenon, <1>7, NoteKeeps
<1>8. CASE Write
  BY Zenon, <1>8, WriteKeeps
<1>9. CASE SkipMerge
  BY Zenon, <1>9, SkipMergeKeeps
<1>10. CASE BeginMerge
  BY Zenon, <1>10, BeginMergeKeeps
<1>11. ASSUME NEW s \in ShardIds, MergeShard(s)
       PROVE  IndexInv'
  BY Zenon, <1>11, MergeShardKeeps
<1>12. CASE EndMerge
  BY Zenon, <1>12, EndMergeKeeps
<1>13. CASE EndSave
  BY Zenon, <1>13, EndSaveKeeps
<1>14. ASSUME NEW t \in Lookups, NEW b \in Blocks, LookRecent(t, b)
       PROVE  IndexInv'
  BY Zenon, <1>14, LookRecentKeeps
<1>15. ASSUME NEW t \in Lookups, LookShard(t) \/ TryNumber(t) \/ EndLookup(t)
       PROVE  IndexInv'
  BY Zenon, <1>15, LookShardKeeps, TryNumberKeeps, EndLookupKeeps
<1>16. ASSUME NEW b \in Blocks, Truncate(b)
       PROVE  IndexInv'
  BY Zenon, <1>16, TruncateKeeps
<1>17. CASE Exit
  BY Zenon, <1>17, ExitKeeps
<1>18. CASE UNCHANGED indexVars
  BY Zenon, <1>18, IndexStutters
<1> QED
  BY Zenon, <1>1, <1>2, <1>3, <1>4, <1>5, <1>6, <1>7, <1>8, <1>9, <1>10, <1>11, <1>12,
     <1>13, <1>14, <1>15, <1>16, <1>17, <1>18 DEF IndexNext

\* The inductive invariant of the block index holds throughout.
LEMMA IndexInvariant ==
  IndexSpec => []IndexInv
<1>1. IndexInit => IndexInv
  BY Zenon, IndexStart
<1>2. IndexInv /\ [IndexNext]_indexVars => IndexInv'
  BY Zenon, IndexStep
<1> QED
  BY <1>1, <1>2, PTL DEF IndexSpec

\* What is on disk suffices for the next open, wherever a commit, a save, a move
\* or a rewind is cut off (DataBaseRef::open_inner, note, copy_block_infos).
THEOREM NextOpenIsSound ==
  IndexSpec => []NextOpenSound
<1>1. IndexInv => NextOpenSound
  BY Zenon, MoveCounts DEF IndexInv, NextOpenSound, MoveNeverFails
<1> QED
  BY <1>1, IndexInvariant, PTL

\* Every block there is is found in memory, before, during and after a merge, by
\* lookups that read the index on either side of it (candidates, merge).
THEOREM BlocksAreFound ==
  IndexSpec => []BlocksFound
<1>1. ASSUME IndexInv
      PROVE  BlocksFound
  <2>1. IndexTypeOK /\ EntryTypes /\ MoveInv /\ WriterInv /\ LookupInv
    BY Zenon, <1>1 DEF IndexInv
  <2>2. IndexComplete
    <3> SUFFICES ASSUME move = "done", NEW b \in byNumber
                 PROVE  Number[b] \in Candidates(b)
      BY Zenon DEF IndexComplete
    <3>1. b \in canonical
      BY Zenon, <2>1 DEF MoveInv
    <3>2. Indexed(b) /\ b \in Blocks
      BY Zenon, <2>1, <3>1 DEF WriterInv, IndexTypeOK
    <3> QED
      BY Zenon, <2>1, <3>2, IndexedIsCandidate DEF EntryTypes
  <2>3. LookupFinds
    <3> SUFFICES ASSUME NEW t \in Lookups, lookup[t] = "trying", numbers[t] = {}
                 PROVE  sought[t] \notin byNumber
      BY Zenon DEF LookupFinds
    <3>1. lookup[t] # "idle"
      OBVIOUS
    <3>2. move = "done" /\ sought[t] \notin canonical
      BY Zenon, <2>1, <3>1 DEF LookupInv
    <3> QED
      BY Zenon, <2>1, <3>2 DEF MoveInv
  <2> QED
    BY Zenon, <2>2, <2>3 DEF BlocksFound
<1>2. IndexInv => BlocksFound
  BY Zenon, <1>1
<1> QED
  BY <1>2, IndexInvariant, PTL
=============================================================================
