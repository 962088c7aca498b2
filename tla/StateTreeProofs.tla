-------------------------- MODULE StateTreeProofs ---------------------------
(***************************************************************************)
(* Theorems about StateTree, for every block tree, set of readers, depth   *)
(* limit and backend.  CoreInv is an invariant: first the steps of readers,*)
(* then those of a commit, then those of the index.  The database          *)
(* implements DurableChain.  On top of CoreInv: what the shared cache and  *)
(* the handles answer, and how far the latest block is from the database.  *)
(***************************************************************************)
EXTENDS StateTree, BlockTreeTheorems, FiniteSetTheorems

----------------------------------------------------------------------------
(***************************************************************************)
(* Walks and views.                                                        *)
(***************************************************************************)

\* The layers of a block include its own, and all of its chain above any of
\* them.
LEMMA WalkClosed ==
    ASSUME NEW b \in Blocks, onCache \in SUBSET Blocks
    PROVE  /\ Walk(b) \subseteq Anc[b]
           /\ b \in Walk(b)
           /\ \A x \in Walk(b), y \in Anc[b] : Number[x] <= Number[y] => y \in Walk(b)
<1>1. b \in Anc[b] /\ \A y \in Anc[b] : Number[y] <= Number[b]
  BY Zenon, AncSelf, ChainAssumption
<1>2. ASSUME NEW x \in Walk(b), NEW y \in Anc[b], Number[x] <= Number[y]
      PROVE  y \in Walk(b)
  <2>1. x \in Anc[b] /\ \A z \in Anc[b] \cap onCache : Number[z] <= Number[x]
    BY Zenon DEF Walk
  <2>2. \A z \in Anc[b] : Number[z] \in Nat
    BY Zenon, AncSelf, BlocksAssumption
  <2>3. \A z \in Anc[b] \cap onCache : Number[z] <= Number[y]
    BY <1>2, <2>1, <2>2
  <2> QED
    BY Zenon, <2>3 DEF Walk
<1> QED
  BY Zenon, <1>1, <1>2 DEF Walk

\* The walk of a block gives a good view of it.
LEMMA WalkIsView ==
    ASSUME TypeOK, LinksOK, NEW b \in Blocks, bottom \in Anc[b], pending = {}
    PROVE  ViewOK(Walk(b), b)
<1>1. /\ Walk(b) \subseteq Anc[b]
      /\ \A x \in Walk(b), y \in Anc[b] : Number[x] <= Number[y] => y \in Walk(b)
  BY Zenon, WalkClosed DEF TypeOK
<1>2. \A x \in Walk(b) : Number[bottom] <= Number[x]
  BY Zenon DEF Walk, LinksOK
<1>3. Above(diskHead, b) \subseteq Walk(b)
  <2> SUFFICES ASSUME NEW x \in Anc[b], Number[x] > Number[diskHead],
                      NEW y \in Anc[b] \cap onCache
               PROVE  Number[y] <= Number[x]
    BY Zenon DEF Above, Walk
  <2>1. Number[y] <= Number[diskHead] + 1
    BY Zenon DEF LinksOK
  <2> QED
    BY <2>1, AncSelf, BlocksAssumption DEF TypeOK
<1> QED
  BY Zenon, <1>1, <1>2, <1>3 DEF ViewOK

\* A good view stays good while the database moves up and no key is pending.
LEMMA ViewKept ==
    ASSUME TypeOK, NEW b \in Blocks, NEW v \in SUBSET Blocks, ViewOK(v, b),
           diskHead' \in Blocks, Number[diskHead] <= Number[diskHead'],
           bottom' = bottom,
           pending' # {} /\ diskHead' \in Anc[b] => diskHead' \in v
    PROVE  ViewOK(v, b)'
<1>1. Above(diskHead', b) \subseteq Above(diskHead, b)
  BY AncSelf, BlocksAssumption DEF Above, TypeOK
<1> QED
  BY Zenon, <1>1 DEF ViewOK, Above

----------------------------------------------------------------------------
(***************************************************************************)
(* CoreInv is inductive.                                                   *)
(***************************************************************************)

\* The numbers the tree compares are naturals.
LEMMA ScalarTypes ==
    ASSUME CoreInv
    PROVE  /\ diskHead \in Blocks /\ Number[diskHead] \in Nat
           /\ bottom \in Blocks /\ Number[bottom] \in Nat
           /\ target \in Blocks /\ Number[target] \in Nat
           /\ committedHeight \in Nat
           /\ onCache \subseteq Blocks
           /\ \A x \in Blocks : Number[x] \in Nat
BY Zenon, BlocksAssumption DEF CoreInv, TypeOK

\* So are the height tags readers hold.
LEMMA TagNumbers ==
    ASSUME CoreInv, NEW r \in Readers
    PROVE  tag[r] \in Int
BY DEF CoreInv, TypeOK

\* The state StateTree::new builds on the initial database satisfies CoreInv.
LEMMA CoreInit == Init => CoreInv
<1> SUFFICES ASSUME Init PROVE CoreInv
  OBVIOUS
<1>0. Genesis \in Blocks /\ Number[Genesis] \in Nat /\ Anc[Genesis] = {Genesis}
  BY Zenon, BlocksAssumption, ParentAssumption
<1>1. TypeOK
  BY Zenon, <1>0, BlocksAssumption DEF Init, TypeOK, Heights, Vacant
<1>2. DiskExact
  <2> SUFFICES ASSUME NEW k \in PlainKeys PROVE StateOf(Genesis, k) = Genesis
    BY Zenon DEF Init, DiskExact, PlainKeys
  <2>1. Writers(Genesis, k) = {Genesis}
    BY Zenon, <1>0 DEF Writers
  <2>2. Top({Genesis}) = Genesis
    BY <1>0, TopIs
  <2> QED
    BY <2>1, <2>2 DEF StateOf
<1>3. LinksOK
  BY <1>0 DEF Init, LinksOK
<1>4. ViewsOK
  <2>1. ViewOK({Genesis}, Genesis)
    BY <1>0 DEF Init, ViewOK, Above
  <2> QED
    BY Zenon, <2>1 DEF Init, ViewsOK, Indexed
<1>5. UpdaterOK
  BY ZenonT(30), <1>0 DEF Init, UpdaterOK, Indexed
<1>6. IndexConsistent
  BY Zenon, <1>0, TreeAssumption DEF Init, IndexConsistent, Indexed, Heights
<1>7. PinnedOK /\ TagsOK
  BY <1>0 DEF Init, PinnedOK, TagsOK, HandleOpen
<1> QED
  BY <1>1, <1>2, <1>3, <1>4, <1>5, <1>6, <1>7 DEF CoreInv

\* What a step of a reader, or an eviction, leaves alone.
LEMMA ReaderFrame ==
    ASSUME CoreInv, UNCHANGED <<dbVars, layerVars, indexVars, updaterVars>>
    PROVE  /\ DiskExact' /\ LinksOK' /\ UpdaterOK' /\ IndexConsistent'
           /\ \A b \in Indexed' : ViewOK(views[b], b)'
           /\ \A v, b : ViewOK(v, b) => ViewOK(v, b)'
<1> USE DEF dbVars, layerVars, indexVars, updaterVars, CoreInv
<1>1. DiskExact'
  BY Zenon DEF DiskExact
<1>2. LinksOK'
  BY Zenon DEF LinksOK
<1>3. Indexed' = Indexed
  BY Zenon DEF Indexed
<1>4. UpdaterOK'
  BY Zenon, <1>3 DEF UpdaterOK, LayerWrites, Walk
<1>5. IndexConsistent'
  BY Zenon, <1>3 DEF IndexConsistent
<1>6. \A v, b : ViewOK(v, b) => ViewOK(v, b)'
  BY Zenon DEF ViewOK
<1>7. \A b \in Indexed' : ViewOK(views[b], b)'
  BY Zenon, <1>3, <1>6 DEF ViewsOK
<1> QED
  BY Zenon, <1>1, <1>2, <1>4, <1>5, <1>6, <1>7

\* state_at takes a view out of an index whose views are good.
LEMMA LoadIndexCore ==
    ASSUME CoreInv, NEW r \in Readers, LoadIndex(r)
    PROVE  CoreInv'
<1> USE DEF CoreInv
<1>1. PICK b \in Resolvable :
        /\ view' = [view EXCEPT ![r] = IF b = NoBlock THEN {} ELSE views[b]]
        /\ head' = [head EXCEPT ![r] = IF b = NoBlock THEN diskHead ELSE b]
  BY ZenonT(30) DEF LoadIndex
<1>2. /\ UNCHANGED <<dbVars, layerVars, indexVars, updaterVars>>
      /\ UNCHANGED <<cacheVars, tag, store, want, got>>
      /\ stage[r] = "closed"
      /\ stage' = [stage EXCEPT ![r] = "viewed"]
  BY Zenon DEF LoadIndex
<1>3. b = NoBlock => latest = NoBlock
  BY Zenon, TreeAssumption DEF Resolvable, Indexed
<1>4. b # NoBlock => b \in Indexed
  BY Zenon DEF Resolvable, IndexConsistent
<1>5. ViewOK(view'[r], head'[r])
  <2>1. CASE b = NoBlock
    <3>1. diskHead = bottom /\ pending = {}
      BY Zenon, <2>1, <1>3 DEF UpdaterOK, LayerWrites
    <3>2. view'[r] = {} /\ head'[r] = diskHead
      BY Zenon, <2>1, <1>1 DEF TypeOK
    <3>3. Above(diskHead, diskHead) = {}
      BY ChainAssumption, AncSelf, BlocksAssumption DEF Above, TypeOK
    <3> QED
      BY Zenon, <3>1, <3>2, <3>3, AncSelf DEF ViewOK, TypeOK
  <2>2. CASE b # NoBlock
    <3>1. view'[r] = views[b] /\ head'[r] = b
      BY Zenon, <2>2, <1>1 DEF TypeOK
    <3> QED
      BY Zenon, <3>1, <2>2, <1>4 DEF ViewsOK
  <2> QED
    BY Zenon, <2>1, <2>2
<1>6. TypeOK'
  <2>1. b # NoBlock => b \in Blocks /\ views[b] \in SUBSET Blocks
    BY Zenon, <1>4 DEF Indexed, TypeOK
  <2> QED
    BY Zenon, <2>1, <1>1, <1>2 DEF TypeOK, dbVars, cacheVars, layerVars, indexVars,
       updaterVars
<1>7. ViewsOK'
  <2> SUFFICES ASSUME NEW q \in Readers, stage'[q] # "closed"
               PROVE  ViewOK(view[q], head[q])'
    BY Zenon, <1>2, ReaderFrame DEF ViewsOK
  <2>1. q # r => view'[q] = view[q] /\ head'[q] = head[q] /\ stage'[q] = stage[q]
    BY Zenon, <1>1, <1>2 DEF TypeOK
  <2>2. ViewOK(view'[q], head'[q])
    BY Zenon, <2>1, <1>5 DEF ViewsOK
  <2> QED
    BY Zenon, <2>2, <1>2, ReaderFrame DEF ViewOK, dbVars, layerVars, updaterVars
<1>8. PinnedOK' /\ TagsOK'
  <2>1. \A q \in Readers : HandleOpen(q)' =>
            HandleOpen(q) /\ view'[q] = view[q] /\ head'[q] = head[q]
    BY Zenon, <1>1, <1>2 DEF HandleOpen, TypeOK
  <2>2. PinnedOK'
    BY Zenon, <2>1, <1>2 DEF PinnedOK, dbVars, layerVars
  <2> QED
    BY Zenon, <2>2, <1>2 DEF TagsOK, dbVars, layerVars
<1> QED
  BY Zenon, <1>2, <1>6, <1>7, <1>8, ReaderFrame

\* A step that gives a reader no new view keeps its view good and, unless it
\* opens the database, its pinned contents.
LEMMA ReaderViews ==
    ASSUME CoreInv, UNCHANGED <<dbVars, layerVars, indexVars, updaterVars>>,
           \A q \in Readers : stage'[q] # "closed" =>
              stage[q] # "closed" /\ view'[q] = view[q] /\ head'[q] = head[q]
    PROVE  ViewsOK'
<1> USE DEF CoreInv
<1> SUFFICES ASSUME NEW q \in Readers, stage'[q] # "closed"
             PROVE  ViewOK(view[q], head[q])'
  BY Zenon, ReaderFrame DEF ViewsOK
<1>1. ViewOK(view'[q], head'[q])
  BY Zenon DEF ViewsOK
<1> QED
  BY Zenon, <1>1 DEF ViewOK, dbVars, layerVars, updaterVars

\* A reader step that opens no handle keeps what pinned handles read.
LEMMA ReaderPinned ==
    ASSUME CoreInv, UNCHANGED <<dbVars, layerVars, indexVars, updaterVars>>,
           \A q \in Readers : HandleOpen(q)' =>
              /\ HandleOpen(q) /\ view'[q] = view[q] /\ head'[q] = head[q]
              /\ store'[q] = store[q]
    PROVE  PinnedOK'
BY DEF CoreInv, PinnedOK, dbVars, layerVars

\* cache_view_height gives a tag no higher than the committed height.
LEMMA ReadTagCore ==
    ASSUME CoreInv, NEW r \in Readers, ReadTag(r)
    PROVE  CoreInv'
<1> USE DEF CoreInv, ReadTag
<1>1. UNCHANGED <<dbVars, layerVars, indexVars, updaterVars>>
  OBVIOUS
<1>2. TypeOK'
  BY Zenon DEF TypeOK, dbVars, cacheVars, layerVars, indexVars, updaterVars
<1>3. ViewsOK'
  BY Zenon, <1>1, ReaderViews DEF TypeOK
<1>4. PinnedOK'
  BY Zenon, <1>1, ReaderPinned DEF TypeOK, HandleOpen
<1>5. TagsOK'
  BY DEF TypeOK, TagsOK, dbVars, layerVars
<1> QED
  BY Zenon, <1>1, <1>2, <1>3, <1>4, <1>5, ReaderFrame

\* A handle pins the database of the block committed at that moment, which
\* its view still reaches.
LEMMA OpenDbCore ==
    ASSUME CoreInv, NEW r \in Readers, OpenDb(r)
    PROVE  CoreInv'
<1> USE DEF CoreInv, OpenDb
<1>1. UNCHANGED <<dbVars, layerVars, indexVars, updaterVars>>
  BY Zenon
<1>2. TypeOK'
  BY Zenon DEF TypeOK, dbVars, cacheVars, layerVars, indexVars, updaterVars
<1>3. ViewsOK'
  BY Zenon, <1>1, ReaderViews DEF TypeOK
<1>4. PinnedOK'
  <2> SUFFICES ASSUME PinnedReads, NEW q \in Readers, HandleOpen(q)'
               PROVE  \E d \in Anc[diskHead] :
                        /\ bottom \in Anc[d]
                        /\ Above(d, head[q]) \subseteq view[q]
                        /\ \A k \in PlainKeys : store'[q][k] = StateOf(d, k)
    BY Zenon DEF PinnedOK, dbVars, layerVars
  <2>1. CASE q = r
    <3>1. store'[q] = disk
      BY Zenon, <2>1 DEF TypeOK
    <3>2. ViewOK(view[q], head[q])
      BY Zenon, <2>1 DEF ViewsOK
    <3>3. diskHead \in Anc[diskHead]
      BY Zenon, AncSelf DEF TypeOK
    <3> QED
      BY Zenon, <3>1, <3>2, <3>3 DEF ViewOK, LinksOK, DiskExact
  <2>2. CASE q # r
    <3>1. HandleOpen(q) /\ store'[q] = store[q]
      BY Zenon, <2>2 DEF HandleOpen, TypeOK
    <3> QED
      BY <3>1 DEF PinnedOK
  <2> QED
    BY Zenon, <2>1, <2>2
<1>5. TagsOK'
  BY Zenon DEF TypeOK, TagsOK, dbVars, layerVars
<1> QED
  BY Zenon, <1>1, <1>2, <1>3, <1>4, <1>5, ReaderFrame

\* A database read changes only what the reader holds.
LEMMA FetchCore ==
    ASSUME CoreInv, NEW r \in Readers, NEW k \in Keys, Fetch(r, k)
    PROVE  CoreInv'
<1> USE DEF CoreInv, Fetch
<1>1. UNCHANGED <<dbVars, layerVars, indexVars, updaterVars>>
  BY Zenon
<1>2. TypeOK'
  BY BlocksAssumption DEF TypeOK, dbVars, cacheVars, layerVars, indexVars,
     updaterVars, DbRead
<1>3. ViewsOK'
  BY Zenon, <1>1, ReaderViews DEF TypeOK
<1>4. PinnedOK'
  BY Zenon, <1>1, ReaderPinned DEF TypeOK, HandleOpen
<1>5. TagsOK'
  BY Zenon DEF TypeOK, TagsOK, dbVars, layerVars
<1> QED
  BY Zenon, <1>1, <1>2, <1>3, <1>4, <1>5, ReaderFrame

\* A refill changes only the cache.
LEMMA RefillCore ==
    ASSUME CoreInv, NEW r \in Readers, NEW k \in Keys, Refill(r, k)
    PROVE  CoreInv'
<1> USE DEF CoreInv, Refill
<1>1. UNCHANGED <<dbVars, layerVars, indexVars, updaterVars>>
  BY Zenon
<1>2. TypeOK'
  BY ZenonT(30), BlocksAssumption DEF TypeOK, dbVars, cacheVars, layerVars, indexVars,
     updaterVars
<1>3. ViewsOK'
  BY Zenon, <1>1, ReaderViews DEF TypeOK
<1>4. PinnedOK'
  BY Zenon, <1>1, ReaderPinned DEF TypeOK, HandleOpen
<1>5. TagsOK'
  BY Zenon DEF TypeOK, TagsOK, dbVars, layerVars
<1> QED
  BY Zenon, <1>1, <1>2, <1>3, <1>4, <1>5, ReaderFrame

\* A refill that yields to another changes nothing else.
LEMMA RefillSkippedCore ==
    ASSUME CoreInv, NEW r \in Readers, RefillSkipped(r)
    PROVE  CoreInv'
<1> USE DEF CoreInv, RefillSkipped
<1>1. UNCHANGED <<dbVars, layerVars, indexVars, updaterVars>>
  BY Zenon
<1>2. TypeOK'
  BY Zenon, BlocksAssumption DEF TypeOK, dbVars, cacheVars, layerVars, indexVars,
     updaterVars
<1>3. ViewsOK'
  BY Zenon, <1>1, ReaderViews DEF TypeOK
<1>4. PinnedOK'
  BY Zenon, <1>1, ReaderPinned DEF TypeOK, HandleOpen
<1>5. TagsOK'
  BY Zenon DEF TypeOK, TagsOK, dbVars, layerVars
<1> QED
  BY Zenon, <1>1, <1>2, <1>3, <1>4, <1>5, ReaderFrame

\* Dropping a handle forgets its view.
LEMMA CloseHandleCore ==
    ASSUME CoreInv, NEW r \in Readers, CloseHandle(r)
    PROVE  CoreInv'
<1> USE DEF CoreInv, CloseHandle
<1>1. UNCHANGED <<dbVars, layerVars, indexVars, updaterVars>>
  BY Zenon
<1>2. TypeOK'
  BY Zenon, BlocksAssumption DEF TypeOK, dbVars, cacheVars, layerVars, indexVars,
     updaterVars
<1>3. ViewsOK'
  BY Zenon, <1>1, ReaderViews DEF TypeOK
<1>4. PinnedOK'
  BY Zenon, <1>1, ReaderPinned DEF TypeOK, HandleOpen
<1>5. TagsOK'
  BY DEF TypeOK, TagsOK, dbVars, layerVars
<1> QED
  BY Zenon, <1>1, <1>2, <1>3, <1>4, <1>5, ReaderFrame

\* An eviction changes only the cache.
LEMMA EvictCore ==
    ASSUME CoreInv, NEW k \in Keys, Evict(k)
    PROVE  CoreInv'
<1> USE DEF CoreInv, Evict
<1>1. UNCHANGED <<dbVars, layerVars, indexVars, updaterVars>>
  BY Zenon
<1>2. TypeOK'
  BY Zenon, BlocksAssumption DEF TypeOK, dbVars, cacheVars, layerVars, indexVars,
     updaterVars, readerVars, Vacant
<1>3. ViewsOK'
  BY Zenon, <1>1, ReaderViews DEF TypeOK, readerVars
<1>4. PinnedOK'
  BY Zenon, <1>1, ReaderPinned DEF TypeOK, HandleOpen, readerVars
<1>5. TagsOK'
  BY Zenon DEF TypeOK, TagsOK, dbVars, layerVars, readerVars
<1> QED
  BY Zenon, <1>1, <1>2, <1>3, <1>4, <1>5, ReaderFrame

\* A step of the updater that commits nothing keeps every good view good.
LEMMA UpdaterViews ==
    ASSUME CoreInv, UNCHANGED <<dbVars, bottom, readerVars>>,
           pending' \subseteq pending
    PROVE  /\ \A v, b : ViewOK(v, b) => ViewOK(v, b)'
           /\ \A r \in Readers : stage'[r] # "closed" => ViewOK(view[r], head[r])'
<1> USE DEF CoreInv, dbVars, readerVars
<1>1. \A v, b : ViewOK(v, b) => ViewOK(v, b)'
  BY DEF ViewOK
<1>2. \A r \in Readers : stage'[r] # "closed" => ViewOK(view'[r], head'[r])
  BY Zenon DEF ViewsOK
<1> QED
  BY Zenon, <1>1, <1>2 DEF ViewOK

\* An updater step that leaves views and database alone keeps PinnedOK.
LEMMA UpdaterPinned ==
    ASSUME CoreInv, UNCHANGED <<dbVars, bottom, readerVars>>
    PROVE  PinnedOK'
BY Zenon DEF CoreInv, PinnedOK, HandleOpen, dbVars, readerVars

----------------------------------------------------------------------------
(***************************************************************************)
(* Commits.                                                                *)
(***************************************************************************)

\* The layer a commit takes: a strict ancestor of the block being imported, and
\* either the database's own head, again, or a child of it.
LEMMA OldestIs ==
    ASSUME CoreInv, pc = "cap", MustCommit
    PROVE  /\ Oldest \in Walk(target) /\ Oldest \in Blocks /\ Oldest # target
           /\ \A x \in Walk(target) : Number[Oldest] <= Number[x]
           /\ bottom \in Anc[target]
           /\ oldDiff = NoBlock => Oldest = bottom
<1> USE DEF CoreInv
<1>1. target \in Blocks /\ target # Genesis /\ Parent[target] \in Indexed
  BY Zenon DEF UpdaterOK, TypeOK
<1>2. /\ Walk(target) \subseteq Anc[target] /\ target \in Walk(target)
      /\ Walk(target) \subseteq Blocks
  BY Zenon, <1>1, WalkClosed, AncSelf DEF TypeOK
<1>3. /\ Oldest \in Walk(target)
      /\ \A x \in Walk(target) : Number[Oldest] <= Number[x]
  BY Zenon, <1>2, LowestIn DEF Oldest
<1>4. bottom \in Anc[target]
  <2>1. bottom \in Anc[Parent[target]]
    BY Zenon, <1>1 DEF ViewsOK, ViewOK
  <2> QED
    BY <2>1, <1>1, ParentAssumption
<1>5. Oldest # target
  <2> SUFFICES ASSUME Oldest = target PROVE FALSE
    OBVIOUS
  <2>1. \A x \in Walk(target) : x = target
    <3> SUFFICES ASSUME NEW x \in Walk(target) PROVE x = target
      OBVIOUS
    <3>1. x \in Anc[target] /\ Number[target] <= Number[x]
      BY Zenon, <1>2, <1>3
    <3> QED
      BY <3>1, <1>1, <1>2, AncBelow, BlocksAssumption
  <2>2. Walk(target) = {target}
    BY Zenon, <2>1, <1>2
  <2>3. Cardinality(Walk(target)) = 1
    BY Zenon, <2>2, FS_Singleton
  <2> QED
    BY <2>3, TreeAssumption DEF MustCommit
<1>6. ASSUME oldDiff = NoBlock PROVE Oldest = bottom
  <2>1. onCache = {bottom}
    BY Zenon, <1>6 DEF LinksOK
  <2>2. bottom \in Walk(target)
    BY <2>1, <1>4, BlocksAssumption DEF Walk, TypeOK
  <2>3. Number[bottom] <= Number[Oldest] /\ Number[Oldest] <= Number[bottom]
    BY <2>1, <2>2, <1>3, <1>4 DEF Walk
  <2>a. Oldest \in Blocks /\ bottom \in Blocks
    BY Zenon, <1>2, <1>3 DEF TypeOK
  <2>b. Number[Oldest] \in Nat /\ Number[bottom] \in Nat
    BY Zenon, <2>a, BlocksAssumption
  <2>4. Number[Oldest] = Number[bottom]
    BY <2>3, <2>b
  <2>5. Oldest \in Anc[target]
    BY Zenon, <1>2, <1>3
  <2> QED
    BY Zenon, <2>4, <2>5, <1>1, <1>4, AncUnique
<1> QED
  BY Zenon, <1>2, <1>3, <1>4, <1>5, <1>6

\* A commit re-commits the bottom block, with nothing to write, or moves the
\* database to a child of its head.
LEMMA CommitMoves ==
    ASSUME CoreInv, CommitToDb
    PROVE  \/ /\ Oldest = diskHead /\ diskHead = bottom
              /\ DbWrites(Oldest) = {} /\ LayerWrites(Oldest) = {}
           \/ /\ Oldest # Genesis /\ Parent[Oldest] = diskHead
              /\ Oldest # bottom /\ oldDiff = diskHead
<1> USE DEF CoreInv
<1>1. pc = "cap" /\ MustCommit /\ ParentIsOldDiff
  BY Zenon DEF CommitToDb
<1>2. CASE oldDiff = NoBlock
  BY Zenon, <1>1, <1>2, OldestIs DEF LinksOK, DbWrites, LayerWrites
<1>3. CASE oldDiff # NoBlock
  <2>1. Oldest # Genesis /\ Parent[Oldest] = diskHead /\ oldDiff = diskHead
    BY Zenon, <1>1, <1>3 DEF ParentIsOldDiff, LinksOK
  <2>2. Number[Oldest] = Number[diskHead] + 1
    BY Zenon, <2>1, <1>1, OldestIs, ParentAssumption
  <2>3. Number[bottom] <= Number[diskHead]
    BY Zenon, ChainAssumption DEF LinksOK, TypeOK
  <2>4. Oldest # bottom
    BY <2>2, <2>3, BlocksAssumption DEF TypeOK
  <2> QED
    BY Zenon, <2>1, <2>4
<1> QED
  BY Zenon, <1>2, <1>3

\* The database after a commit holds the state of its new head.
LEMMA CommitExact ==
    ASSUME CoreInv, CommitToDb
    PROVE  DiskExact'
<1> USE DEF CoreInv
<1>1. /\ diskHead' = Oldest
      /\ disk' = [k \in Keys |-> IF k \in DbWrites(Oldest) THEN Oldest ELSE disk[k]]
  BY Zenon DEF CommitToDb
<1>2. CASE Oldest = diskHead /\ DbWrites(Oldest) = {}
  BY Zenon, <1>1, <1>2 DEF DiskExact, TypeOK, PlainKeys
<1>3. CASE Oldest # Genesis /\ Parent[Oldest] = diskHead /\ Oldest # bottom
  <2> SUFFICES ASSUME NEW k \in PlainKeys
               PROVE  disk'[k] = StateOf(Oldest, k)
    BY Zenon, <1>1 DEF DiskExact
  <2>0. Oldest \in Blocks
    BY Zenon, OldestIs DEF CommitToDb
  <2>1. k \in Keys /\ (k \in DbWrites(Oldest) <=> k \in Writes[Oldest])
    BY Zenon, <2>0, <1>3 DEF PlainKeys, DbWrites, LayerWrites
  <2>2. Anc[Oldest] = Anc[diskHead] \cup {Oldest}
        /\ Number[Oldest] = Number[diskHead] + 1
    BY Zenon, <2>0, <1>3, ParentAssumption
  <2>3. CASE k \in Writes[Oldest]
    <3>1. Above(Oldest, Oldest) = {}
      BY <2>0, ChainAssumption, AncSelf, BlocksAssumption DEF Above
    <3> QED
      BY Zenon, <2>0, <2>1, <2>3, <3>1, <1>1, AncSelf, StateIsLastWriter
  <2>4. CASE k \notin Writes[Oldest]
    <3>1. ASSUME NEW y \in Above(diskHead, Oldest) PROVE y = Oldest
      <4>1. y \in Anc[Oldest] /\ Number[y] > Number[diskHead] /\ y \in Blocks
        BY <2>0, AncSelf, ParentAssumption DEF Above
      <4>2. y \notin Anc[diskHead]
        <5>1. \A x \in Anc[diskHead] : Number[x] <= Number[diskHead]
          BY Zenon, ScalarTypes, ChainAssumption
        <5> QED
          BY <4>1, <5>1, ScalarTypes
      <4> QED
        BY Zenon, <4>1, <4>2, <2>2
    <3>2. StateOf(Oldest, k) = StateOf(diskHead, k)
      BY Zenon, <2>0, <2>2, <2>4, <3>1, AncSelf, StateUnchanged DEF TypeOK
    <3> QED
      BY Zenon, <2>1, <2>4, <3>2, <1>1 DEF DiskExact
  <2> QED
    BY Zenon, <2>3, <2>4
<1> QED
  BY Zenon, <1>2, <1>3, CommitMoves

\* The database moves to a child of its head, which every view above it keeps
\* until the write-through is done.
LEMMA CommitToDbCore ==
    ASSUME CoreInv, CommitToDb
    PROVE  CoreInv'
<1> USE DEF CoreInv
<1>1. /\ pc = "cap" /\ MustCommit /\ pc' = "through"
      /\ disk' = [k \in Keys |-> IF k \in DbWrites(Oldest) THEN Oldest ELSE disk[k]]
      /\ diskHead' = Oldest /\ oldDiff' = Oldest
      /\ pending' = IF CacheEnabled THEN LayerWrites(Oldest) ELSE {}
      /\ UNCHANGED <<cacheVars, committedHeight, bottom, onCache, indexVars,
                     target, readerVars>>
  BY Zenon DEF CommitToDb
<1>2. /\ Oldest \in Walk(target) /\ Oldest \in Blocks /\ Oldest # target
      /\ bottom \in Anc[target]
  BY Zenon, <1>1, OldestIs
<1>3. \/ Oldest = diskHead /\ diskHead = bottom /\ LayerWrites(Oldest) = {}
      \/ Oldest # Genesis /\ Parent[Oldest] = diskHead /\ Oldest # bottom
  BY Zenon, CommitMoves
<1>4. /\ Number[diskHead] <= Number[Oldest]
      /\ Anc[diskHead] \subseteq Anc[Oldest]
      /\ pending' # {} => Number[Oldest] = Number[diskHead] + 1
  BY <1>1, <1>2, <1>3, ParentAssumption, BlocksAssumption DEF TypeOK
<1>5. TypeOK'
  BY Zenon, <1>1, <1>2, BlocksAssumption DEF TypeOK, LayerWrites, cacheVars, indexVars,
     readerVars
<1>6. LinksOK'
  <2>1. \A y \in onCache : Number[y] <= Number[Oldest] + 1
    BY <1>2, <1>4, BlocksAssumption DEF LinksOK, TypeOK
  <2> QED
    BY Zenon, <2>1, <1>1, <1>2, <1>4, TreeAssumption DEF LinksOK
<1>7. Indexed' = Indexed
  BY Zenon, <1>1 DEF Indexed, indexVars
<1>8. ASSUME NEW b \in Blocks, NEW v \in SUBSET Blocks, ViewOK(v, b)
      PROVE  ViewOK(v, b)'
  <2>1. pending' # {} /\ Oldest \in Anc[b] => Oldest \in v
    <3>1. pending' # {} => Number[Oldest] > Number[diskHead]
      BY <1>2, <1>4, ScalarTypes
    <3> QED
      BY Zenon, <3>1, <1>8 DEF ViewOK, Above
  <2> QED
    BY Zenon, <2>1, <1>1, <1>2, <1>4, <1>8, ViewKept
<1>9. ViewsOK'
  <2>1. \A b \in Indexed' : ViewOK(views[b], b)'
    <3> SUFFICES ASSUME NEW b \in Indexed' PROVE ViewOK(views[b], b)'
      OBVIOUS
    <3>1. b \in Blocks /\ views[b] \in SUBSET Blocks /\ ViewOK(views[b], b)
      BY ZenonT(30), <1>7 DEF Indexed, TypeOK, ViewsOK
    <3>2. views' = views
      BY Zenon, <1>1 DEF indexVars
    <3> QED
      BY Zenon, <3>1, <3>2, <1>8 DEF ViewOK
  <2>2. \A r \in Readers : stage'[r] # "closed" => ViewOK(view[r], head[r])'
    <3> SUFFICES ASSUME NEW r \in Readers, stage'[r] # "closed"
                 PROVE  ViewOK(view[r], head[r])'
      BY Zenon
    <3>1. stage' = stage /\ view' = view /\ head' = head
      BY Zenon, <1>1 DEF readerVars
    <3>2. head[r] \in Blocks /\ view[r] \in SUBSET Blocks /\ ViewOK(view[r], head[r])
      BY Zenon, <3>1 DEF TypeOK, ViewsOK
    <3> QED
      BY <3>1, <3>2, <1>8 DEF ViewOK
  <2> QED
    BY Zenon, <2>1, <2>2 DEF ViewsOK
<1>10. UpdaterOK'
  <2>1. latest = NoBlock => Oldest = bottom
    <3> SUFFICES ASSUME latest = NoBlock PROVE Oldest = bottom
      OBVIOUS
    <3>1. target \in Blocks /\ target # Genesis /\ Parent[target] = bottom
      BY <1>1 DEF UpdaterOK, TypeOK
    <3>2. Oldest \in Anc[bottom]
      BY <3>1, <1>2, ParentAssumption DEF Walk
    <3>3. Number[bottom] <= Number[Oldest]
      BY Zenon, <1>2 DEF Walk, LinksOK
    <3> QED
      <4>1. bottom \in Anc[bottom] /\ Number[Oldest] <= Number[bottom]
        BY Zenon, <3>2, ScalarTypes, AncSelf, ChainAssumption
      <4>2. Number[Oldest] = Number[bottom]
        BY <3>3, <4>1, <1>2, ScalarTypes
      <4> QED
        BY Zenon, <3>2, <4>1, <4>2, ScalarTypes, AncUnique
  <2>2. pending' # {} => committedHeight < Number[Oldest]
    <3>1. committedHeight = Number[diskHead]
      BY Zenon, <1>1 DEF UpdaterOK
    <3> QED
      BY <3>1, <1>4, ScalarTypes
  <2>3. pending' \subseteq LayerWrites(Oldest)
    BY Zenon, <1>1
  <2>4. Walk(target)' = Walk(target)
    BY Zenon, <1>1 DEF Walk
  <2> QED
    BY Zenon, <2>1, <2>2, <2>3, <2>4, <1>1, <1>2, <1>7, TreeAssumption
    DEF UpdaterOK, LayerWrites, indexVars
<1>11. IndexConsistent'
  BY Zenon, <1>1, <1>7 DEF IndexConsistent, indexVars
<1>12. PinnedOK'
  BY Zenon, <1>1, <1>4 DEF PinnedOK, HandleOpen, readerVars
<1>13. TagsOK'
  <2>1. committedHeight <= Number[Oldest]
    BY <1>2, <1>4, ScalarTypes DEF TagsOK
  <2> QED
    BY Zenon, <2>1, <1>1 DEF TagsOK, readerVars
<1>14. DiskExact'
  BY CommitExact
<1> QED
  BY Zenon, <1>5, <1>6, <1>9, <1>10, <1>11, <1>12, <1>13, <1>14

\* The updater stops inside update_block, with an error or by panicking.
LEMMA CommitStopsCore ==
    ASSUME CoreInv, CommitFails \/ CommitPanics
    PROVE  CoreInv'
<1> USE DEF CoreInv
<1>1. /\ pc = "cap" /\ pc' \in {"idle", "poisoned"}
      /\ UNCHANGED <<dbVars, cacheVars, layerVars, indexVars, target, pending,
                     readerVars>>
  BY Zenon DEF CommitFails, CommitPanics
<1>2. TypeOK'
  BY Zenon, <1>1 DEF TypeOK, dbVars, cacheVars, layerVars, indexVars, readerVars
<1>3. Indexed' = Indexed
  BY Zenon, <1>1 DEF Indexed, indexVars
<1>4. DiskExact' /\ LinksOK' /\ TagsOK' /\ IndexConsistent'
  BY Zenon, <1>1, <1>3 DEF DiskExact, LinksOK, TagsOK, IndexConsistent, dbVars,
     layerVars, indexVars, readerVars
<1>5. ViewsOK'
  BY Zenon, <1>1, <1>3, UpdaterViews DEF ViewsOK, ViewOK, dbVars, layerVars, indexVars
<1>6. PinnedOK'
  BY Zenon, <1>1, UpdaterPinned DEF layerVars
<1>7. UpdaterOK'
  BY ZenonT(30), <1>1, <1>3 DEF UpdaterOK, LayerWrites, dbVars, layerVars, indexVars
<1> QED
  BY Zenon, <1>2, <1>4, <1>5, <1>6, <1>7

\* A write-through insert touches one cache entry.
LEMMA WriteThroughCore ==
    ASSUME CoreInv, NEW k \in Keys, WriteThrough(k)
    PROVE  CoreInv'
<1> USE DEF CoreInv
<1>1. /\ pc = "through" /\ pending' = pending \ {k}
      /\ cacheTag' = [cacheTag EXCEPT ![k] = Number[diskHead]]
      /\ cacheVal' = [cacheVal EXCEPT ![k] = diskHead]
      /\ UNCHANGED <<dbVars, layerVars, indexVars, pc, target, readerVars>>
  BY Zenon DEF WriteThrough
<1>2. TypeOK'
  BY Zenon, <1>1, BlocksAssumption DEF TypeOK, dbVars, layerVars, indexVars, readerVars
<1>3. Indexed' = Indexed
  BY Zenon, <1>1 DEF Indexed, indexVars
<1>4. DiskExact' /\ LinksOK' /\ TagsOK' /\ IndexConsistent'
  BY Zenon, <1>1, <1>3 DEF DiskExact, LinksOK, TagsOK, IndexConsistent, dbVars,
     layerVars, indexVars, readerVars
<1>5. ViewsOK'
  BY ZenonT(30), <1>1, <1>3, UpdaterViews DEF ViewsOK, ViewOK, dbVars, layerVars, indexVars
<1>6. PinnedOK'
  BY Zenon, <1>1, UpdaterPinned DEF layerVars
<1>7. UpdaterOK'
  BY ZenonT(30), <1>1, <1>3 DEF UpdaterOK, LayerWrites, Walk, dbVars, layerVars, indexVars
<1> QED
  BY Zenon, <1>2, <1>4, <1>5, <1>6, <1>7

\* Retargeting the next layer shortens only the walks made from now on.
LEMMA FinishCommitCore ==
    ASSUME CoreInv, FinishCommit
    PROVE  CoreInv'
<1> USE DEF CoreInv
<1> DEFINE Left == Walk(target) \ {diskHead}
<1> DEFINE z == Lowest(Left)
<1>1. /\ pc = "through" /\ pending = {} /\ pc' = "cap"
      /\ committedHeight' = Number[diskHead]
      /\ onCache' = onCache \cup {z}
      /\ UNCHANGED <<dbVars, cacheVars, oldDiff, bottom, indexVars, target,
                     pending, readerVars>>
  BY Zenon DEF FinishCommit
<1>2. /\ target \in Blocks /\ diskHead \in Blocks
      /\ diskHead \in Walk(target) /\ diskHead # target /\ oldDiff # NoBlock
  BY ZenonT(30), <1>1 DEF UpdaterOK, TypeOK
<1>3. /\ Walk(target) \subseteq Anc[target] /\ target \in Walk(target)
      /\ \A x \in Walk(target), y \in Anc[target] :
            Number[x] <= Number[y] => y \in Walk(target)
      /\ Anc[target] \subseteq Blocks
  BY Zenon, <1>2, WalkClosed, AncSelf DEF TypeOK
<1>4. PICK y \in Anc[target] : y # Genesis /\ Parent[y] = diskHead
  BY Zenon, <1>2, <1>3, ChainAssumption
<1>5. y \in Left /\ Number[y] = Number[diskHead] + 1
  <2>1. Number[y] = Number[diskHead] + 1
    BY Zenon, <1>3, <1>4, ParentAssumption
  <2> QED
    BY <2>1, <1>2, <1>3, BlocksAssumption
<1>6. z \in Blocks /\ Number[z] <= Number[diskHead] + 1
  <2> HIDE DEF z
  <2>1. z \in Left /\ Number[z] <= Number[y]
    <3> HIDE DEF Left
    <3>1. Left \in SUBSET Blocks
      BY Zenon, <1>3 DEF Left
    <3> QED
      BY Zenon, <3>1, <1>5, LowestIn DEF z
  <2> QED
    BY Zenon, <2>1, <1>3, <1>5
<1> HIDE DEF z
<1>7. TypeOK'
  BY Zenon, <1>1, <1>2, <1>6, BlocksAssumption DEF TypeOK, dbVars, cacheVars, indexVars,
     readerVars
<1>8. Indexed' = Indexed
  BY Zenon, <1>1 DEF Indexed, indexVars
<1>9. LinksOK'
  BY Zenon, <1>1, <1>2, <1>6 DEF LinksOK, dbVars
<1>10. DiskExact' /\ IndexConsistent'
  BY Zenon, <1>1, <1>8 DEF DiskExact, IndexConsistent, dbVars, indexVars
<1>11. TagsOK'
  <2>1. /\ committedHeight' = Number[diskHead] /\ Number[diskHead]' = Number[diskHead]
        /\ tag' = tag
    BY Zenon, <1>1 DEF dbVars, readerVars
  <2>2. committedHeight \in Nat /\ Number[diskHead] \in Nat
    BY Zenon, ScalarTypes
  <2>3. \A r \in Readers : tag[r] <= Number[diskHead]
    <3> TAKE r \in Readers
    <3>1. tag[r] \in Int
      BY Zenon, TagNumbers
    <3>2. tag[r] <= committedHeight /\ committedHeight <= Number[diskHead]
      BY Zenon DEF TagsOK
    <3> HIDE DEF CoreInv
    <3> QED
      BY <2>2, <3>1, <3>2
  <2> QED
    <3> HIDE DEF CoreInv
    <3> QED
      BY <2>1, <2>2, <2>3 DEF TagsOK
<1>12. ViewsOK'
  BY ZenonT(30), <1>1, <1>8, UpdaterViews DEF ViewsOK, ViewOK, dbVars, indexVars
<1>13. PinnedOK'
  BY Zenon, <1>1, UpdaterPinned
<1>14. UpdaterOK'
  BY ZenonT(30), <1>1, <1>8 DEF UpdaterOK, LayerWrites, dbVars, indexVars
<1> QED
  BY ZenonT(30), <1>7, <1>9, <1>10, <1>11, <1>12, <1>13, <1>14

----------------------------------------------------------------------------
(***************************************************************************)
(* The index, and all steps together.                                      *)
(***************************************************************************)

\* A fork block's view is the walk from its new layer.
LEMMA ImportForkCore ==
    ASSUME CoreInv, NEW b \in Blocks, ImportFork(b)
    PROVE  CoreInv'
<1> USE DEF CoreInv
<1>1. /\ pc = "idle" /\ b # Genesis /\ b \notin Indexed /\ Parent[b] \in Indexed
      /\ Number[b] < Number[LatestBlock]
      /\ views' = [views EXCEPT ![b] = Walk(b)]
      /\ byNumber' = [byNumber EXCEPT ![Number[b]] = b]
      /\ UNCHANGED <<dbVars, cacheVars, layerVars, latest, updaterVars, readerVars>>
  BY Zenon DEF ImportFork, Importable
<1>2. b \in Walk(b) /\ Walk(b) \subseteq Blocks
  BY Zenon, WalkClosed, AncSelf DEF TypeOK
<1>3. TypeOK'
  BY Zenon, <1>1, <1>2 DEF TypeOK, Heights, dbVars, cacheVars, layerVars, updaterVars,
     readerVars
<1>4. Indexed' = Indexed \cup {b}
  BY <1>1, <1>2 DEF Indexed, TypeOK
<1>5. DiskExact' /\ LinksOK' /\ TagsOK'
  BY Zenon, <1>1 DEF DiskExact, LinksOK, TagsOK, dbVars, layerVars, readerVars
<1>6. pending = {}
  BY Zenon, <1>1 DEF UpdaterOK
<1>7. bottom \in Anc[b]
  <2>1. bottom \in Anc[Parent[b]]
    BY Zenon, <1>1 DEF ViewsOK, ViewOK
  <2> QED
    BY Zenon, <2>1, <1>1, ParentAssumption
<1>8. ViewsOK'
  <2>1. ViewOK(Walk(b), b)
    BY Zenon, <1>6, <1>7, WalkIsView
  <2>2. \A c \in Indexed' : ViewOK(views'[c], c)
    BY <2>1, <1>1, <1>4 DEF ViewsOK, TypeOK, Indexed
  <2> QED
    BY Zenon, <2>2, <1>1, UpdaterViews DEF ViewsOK, ViewOK, dbVars, layerVars,
       updaterVars
<1>9. UpdaterOK'
  <2>1. latest # NoBlock
    <3> SUFFICES ASSUME latest = NoBlock PROVE FALSE
      OBVIOUS
    <3>1. Parent[b] = bottom /\ diskHead = bottom
      BY <1>1 DEF UpdaterOK
    <3>2. Number[b] = Number[bottom] + 1 /\ Number[b] < Number[diskHead]
      BY Zenon, <3>1, <1>1, ParentAssumption DEF LatestBlock
    <3> QED
      BY <3>1, <3>2, BlocksAssumption DEF TypeOK
  <2> QED
    BY Zenon, <2>1, <1>1, <1>4, <1>6 DEF UpdaterOK, LayerWrites, Walk, dbVars,
       layerVars, updaterVars
<1>10. IndexConsistent'
  <2> SUFFICES ASSUME NEW n \in Heights, byNumber'[n] # NoBlock
               PROVE  byNumber'[n] \in Indexed' /\ Number[byNumber'[n]] = n
    BY Zenon, <1>1, <1>4 DEF IndexConsistent
  <2> QED
    BY Zenon, <1>1, <1>4 DEF IndexConsistent, TypeOK
<1>11. PinnedOK'
  BY Zenon, <1>1, UpdaterPinned DEF layerVars
<1> QED
  BY Zenon, <1>3, <1>5, <1>8, <1>9, <1>10, <1>11

\* The new layer links to an indexed parent.
LEMMA BeginImportCore ==
    ASSUME CoreInv, NEW b \in Blocks, BeginImport(b)
    PROVE  CoreInv'
<1> USE DEF CoreInv
<1>1. /\ pc = "idle" /\ b # Genesis /\ b \notin Indexed /\ Parent[b] \in Indexed
      /\ pc' = "cap" /\ target' = b
      /\ UNCHANGED <<dbVars, cacheVars, layerVars, indexVars, pending, readerVars>>
  BY Zenon DEF BeginImport, Importable
<1>2. TypeOK'
  BY Zenon, <1>1 DEF TypeOK, dbVars, cacheVars, layerVars, indexVars, readerVars
<1>3. Indexed' = Indexed
  BY Zenon, <1>1 DEF Indexed, indexVars
<1>4. DiskExact' /\ LinksOK' /\ TagsOK' /\ IndexConsistent'
  BY Zenon, <1>1, <1>3 DEF DiskExact, LinksOK, TagsOK, IndexConsistent, dbVars,
     layerVars, indexVars, readerVars
<1>5. ViewsOK'
  BY Zenon, <1>1, <1>3, UpdaterViews DEF ViewsOK, ViewOK, dbVars, layerVars, indexVars
<1>6. PinnedOK'
  BY Zenon, <1>1, UpdaterPinned DEF layerVars
<1>7. UpdaterOK'
  BY Zenon, <1>1, <1>3 DEF UpdaterOK, LayerWrites, dbVars, layerVars, indexVars
<1> QED
  BY Zenon, <1>2, <1>4, <1>5, <1>6, <1>7

\* The published index holds the new block's walk and no height below the
\* database's head.
LEMMA PublishCore ==
    ASSUME CoreInv, Publish
    PROVE  CoreInv'
<1> USE DEF CoreInv
<1>1. /\ pc = "cap" /\ pc' = "idle" /\ latest' = target
      /\ views' = [b \in Blocks |->
                      IF b = target THEN Walk(b)
                      ELSE IF Kept(Number[b]) THEN views[b] ELSE {}]
      /\ byNumber' = [n \in Heights |->
                         IF n = Number[target] THEN target
                         ELSE IF Kept(n) THEN byNumber[n] ELSE NoBlock]
      /\ UNCHANGED <<dbVars, cacheVars, layerVars, target, pending, readerVars>>
  BY Zenon DEF Publish
<1>2. target \in Blocks /\ target # Genesis /\ Parent[target] \in Indexed /\ pending = {}
  BY Zenon, <1>1 DEF UpdaterOK, TypeOK
<1>3. target \in Walk(target) /\ Walk(target) \subseteq Blocks
  BY Zenon, <1>2, WalkClosed, AncSelf DEF TypeOK
<1>4. TypeOK'
  BY Zenon, <1>1, <1>2, <1>3 DEF TypeOK, dbVars, cacheVars, layerVars, readerVars
<1>5. Indexed' = {target} \cup {b \in Indexed : Kept(Number[b])}
  BY Zenon, <1>1, <1>2, <1>3 DEF Indexed
<1>6. DiskExact' /\ LinksOK' /\ TagsOK'
  BY Zenon, <1>1 DEF DiskExact, LinksOK, TagsOK, dbVars, layerVars, readerVars
<1>7. bottom \in Anc[target]
  <2>1. bottom \in Anc[Parent[target]]
    BY Zenon, <1>2 DEF ViewsOK, ViewOK
  <2> QED
    BY Zenon, <2>1, <1>2, ParentAssumption
<1>8. ViewsOK'
  <2>1. ViewOK(Walk(target), target)
    BY Zenon, <1>2, <1>7, WalkIsView
  <2>2. \A b \in Indexed' : ViewOK(views'[b], b)
    BY Zenon, <2>1, <1>1, <1>5 DEF ViewsOK, Indexed
  <2> QED
    BY ZenonT(30), <2>2, <1>1, UpdaterViews DEF ViewsOK, ViewOK, dbVars, layerVars
<1>9. UpdaterOK'
  <2>1. latest' # NoBlock
    BY Zenon, <1>1, <1>2, TreeAssumption
  <2> QED
    BY Zenon, <2>1, <1>1, <1>2 DEF UpdaterOK, LayerWrites, dbVars, layerVars
<1>10. IndexConsistent'
  <2>1. latest' \in Indexed'
    BY Zenon, <1>1, <1>5
  <2>2. ASSUME NEW n \in Heights, byNumber'[n] # NoBlock
        PROVE  byNumber'[n] \in Indexed' /\ Number[byNumber'[n]] = n
    <3>1. CASE n = Number[target]
      BY Zenon, <3>1, <1>1, <1>5
    <3>2. CASE n # Number[target]
      <4>1. Kept(n) /\ byNumber'[n] = byNumber[n]
        BY Zenon, <3>2, <2>2, <1>1
      <4>2. byNumber[n] \in Indexed /\ Number[byNumber[n]] = n
        BY Zenon, <4>1, <2>2 DEF IndexConsistent
      <4> QED
        BY Zenon, <4>1, <4>2, <1>5
    <3> QED
      BY Zenon, <3>1, <3>2
  <2> QED
    BY Zenon, <2>1, <2>2 DEF IndexConsistent
<1>11. PinnedOK'
  BY Zenon, <1>1, UpdaterPinned DEF layerVars
<1> QED
  BY Zenon, <1>4, <1>6, <1>8, <1>9, <1>10, <1>11

\* A restart builds the tree of the database's head.
LEMMA RestartCore ==
    ASSUME CoreInv, Restart
    PROVE  CoreInv'
<1> USE DEF CoreInv
<1>0. /\ diskHead' = diskHead /\ disk' = disk
      /\ diskHead \in Blocks /\ diskHead \in Anc[diskHead]
      /\ Number[diskHead] \in Nat /\ Number[diskHead] \in Heights
  BY Zenon, AncSelf, BlocksAssumption DEF Restart, dbVars, TypeOK, Heights
<1>1. TypeOK'
  <2>1. /\ disk' \in [Keys -> Blocks]
        /\ cacheTag' \in [Keys -> Nat \cup {Vacant}]
        /\ cacheVal' \in [Keys -> Blocks]
        /\ committedHeight' \in Nat
    BY Zenon, <1>0, BlocksAssumption DEF Restart, TypeOK
  <2>2. /\ oldDiff' \in Blocks \cup {NoBlock} /\ bottom' \in Blocks
        /\ onCache' \in SUBSET Blocks /\ latest' \in Blocks \cup {NoBlock}
        /\ pc' \in {"idle", "cap", "through", "poisoned"}
        /\ target' \in Blocks /\ pending' \in SUBSET Keys
    BY Zenon, <1>0 DEF Restart
  <2>3. /\ views' \in [Blocks -> SUBSET Blocks]
        /\ byNumber' \in [Heights -> Blocks \cup {NoBlock}]
    BY Zenon, <1>0 DEF Restart
  <2>4. /\ stage' \in [Readers -> {"closed", "viewed", "tagged", "open", "fetched"}]
        /\ view' \in [Readers -> SUBSET Blocks]
        /\ head' \in [Readers -> Blocks]
        /\ tag' \in [Readers -> Nat]
    BY Zenon, BlocksAssumption DEF Restart
  <2>5. /\ store' \in [Readers -> [Keys -> Blocks]]
        /\ want' \in [Readers -> SUBSET Keys]
        /\ got' \in [Readers -> Blocks]
    BY Zenon, BlocksAssumption DEF Restart
  <2> QED
    BY Zenon, <1>0, <2>1, <2>2, <2>3, <2>4, <2>5 DEF TypeOK
<1>2. DiskExact'
  BY Zenon, <1>0 DEF DiskExact
<1>3. LinksOK'
  BY <1>0 DEF Restart, LinksOK
<1>4. Indexed' = {diskHead}
  BY ZenonT(30), <1>0 DEF Restart, Indexed
<1>5. ViewsOK'
  <2>1. Above(diskHead, diskHead) = {}
    BY <1>0, ChainAssumption, AncSelf, BlocksAssumption DEF Above
  <2>2. \A y \in Anc[diskHead] : Number[diskHead] <= Number[y] => y = diskHead
    BY <1>0, AncBelow, AncSelf, BlocksAssumption
  <2>3. bottom' = diskHead /\ pending' = {} /\ views'[diskHead] = {diskHead}
    BY Zenon, <1>0 DEF Restart
  <2>4. ViewOK(views[diskHead], diskHead)'
    BY <2>1, <2>2, <2>3, <1>0 DEF ViewOK, Above
  <2>5. \A r \in Readers : stage'[r] = "closed"
    BY Zenon DEF Restart
  <2>6. \A b \in Indexed' : ViewOK(views[b], b)'
    BY Zenon, <2>4, <1>0, <1>4
  <2> QED
    BY Zenon, <2>5, <2>6 DEF ViewsOK
<1>6. UpdaterOK'
  BY Zenon, <1>0, <1>4 DEF Restart, UpdaterOK
<1>7. IndexConsistent'
  BY Zenon, <1>0, <1>4, TreeAssumption DEF Restart, IndexConsistent
<1>8. PinnedOK' /\ TagsOK'
  <2>1. \A r \in Readers : stage'[r] = "closed" /\ tag'[r] = 0
    BY Zenon DEF Restart
  <2>2. PinnedOK'
    BY Zenon, <2>1 DEF PinnedOK, HandleOpen
  <2>3. committedHeight' = Number[diskHead]
    BY Zenon DEF Restart
  <2>4. TagsOK'
    BY <2>1, <2>3, <1>0 DEF TagsOK
  <2> QED
    BY <2>2, <2>4
<1> QED
  BY <1>1, <1>2, <1>3, <1>5, <1>6, <1>7, <1>8

\* A step that changes nothing.
LEMMA StutterCore ==
    ASSUME CoreInv, UNCHANGED vars
    PROVE  CoreInv'
<1> USE DEF CoreInv, vars
<1>1. UNCHANGED <<dbVars, layerVars, indexVars, updaterVars>>
  OBVIOUS
<1>2. TypeOK'
  BY Zenon DEF TypeOK, dbVars, cacheVars, layerVars, indexVars, updaterVars, readerVars
<1>3. ViewsOK'
  BY Zenon, <1>1, ReaderViews DEF readerVars
<1>4. PinnedOK'
  BY Zenon, <1>1, ReaderPinned DEF HandleOpen, readerVars
<1>5. TagsOK'
  BY Zenon DEF TagsOK, dbVars, layerVars, readerVars
<1> QED
  BY Zenon, <1>1, <1>2, <1>3, <1>4, <1>5, ReaderFrame

\* Every step keeps CoreInv.
LEMMA CoreStep == CoreInv /\ [Next]_vars => CoreInv'
<1> SUFFICES ASSUME CoreInv, [Next]_vars PROVE CoreInv'
  OBVIOUS
<1>1. CASE UNCHANGED vars
  BY <1>1, StutterCore
<1>2. ASSUME NEW b \in Blocks, AlreadyKnown(b) \/ ParentNotFound(b)
      PROVE  CoreInv'
  BY <1>2, StutterCore DEF AlreadyKnown, ParentNotFound
<1>3. ASSUME NEW b \in Blocks, ImportFork(b) PROVE CoreInv'
  BY <1>3, ImportForkCore
<1>4. ASSUME NEW b \in Blocks, BeginImport(b) PROVE CoreInv'
  BY <1>4, BeginImportCore
<1>5. CASE CommitToDb
  BY <1>5, CommitToDbCore
<1>6. CASE CommitFails \/ CommitPanics
  BY <1>6, CommitStopsCore
<1>7. ASSUME NEW k \in Keys, WriteThrough(k) PROVE CoreInv'
  BY <1>7, WriteThroughCore
<1>8. CASE FinishCommit
  BY <1>8, FinishCommitCore
<1>9. CASE Publish
  BY <1>9, PublishCore
<1>10. ASSUME NEW r \in Readers, Read(r) PROVE CoreInv'
  <2>1. CASE LoadIndex(r)
    BY <2>1, LoadIndexCore
  <2>2. CASE ReadTag(r)
    BY <2>2, ReadTagCore
  <2>3. CASE OpenDb(r)
    BY <2>3, OpenDbCore
  <2>4. ASSUME NEW k \in Keys, Fetch(r, k) PROVE CoreInv'
    BY <2>4, FetchCore
  <2>5. ASSUME NEW k \in Keys, Refill(r, k) PROVE CoreInv'
    BY SMTT(30), <2>5, RefillCore
  <2>6. CASE RefillSkipped(r)
    BY <2>6, RefillSkippedCore
  <2>7. CASE CloseHandle(r)
    BY <2>7, CloseHandleCore
  <2> QED
    BY Zenon, <1>10, <2>1, <2>2, <2>3, <2>4, <2>5, <2>6, <2>7 DEF Read
<1>11. ASSUME NEW k \in Keys, Evict(k) PROVE CoreInv'
  BY <1>11, EvictCore
<1>12. CASE Restart
  BY <1>12, RestartCore
<1> QED
  BY Zenon, <1>1, <1>2, <1>3, <1>4, <1>5, <1>6, <1>7, <1>8, <1>9, <1>10, <1>11, <1>12
  DEF Next, UpdateBlock

\* In every reachable state the database holds the state of its head, every
\* indexed or opened view is an upper part of its block's chain that reaches
\* down to the database, pinned handles read a database their view reaches, and
\* the updater's bookkeeping (old_diff_layer, committed_height, pending
\* write-through) matches the database (StateTree::update_block, cap_diff_to_db,
\* CacheDiskLayer::commit, state_at).
THEOREM CoreInvariant == Spec => []CoreInv
BY CoreInit, CoreStep, PTL DEF Spec

\* The variables of StateTree keep their types, whatever the updater, the
\* readers and the cache do.
THEOREM TypeCorrect == Spec => []TypeOK
<1>1. CoreInv => TypeOK
  BY DEF CoreInv
<1> QED
  BY <1>1, CoreInvariant, PTL

\* By-hash, by-number and latest agree in every state of the index.
THEOREM IndexAlwaysConsistent == Spec => []IndexConsistent
<1>1. CoreInv => IndexConsistent
  BY DEF CoreInv
<1> QED
  BY <1>1, CoreInvariant, PTL

----------------------------------------------------------------------------
(***************************************************************************)
(* The database implements DurableChain.                                   *)
(***************************************************************************)

\* Every step of the tree is a step of DurableChain or leaves its state alone.
LEMMA DurableStep ==
    ASSUME CoreInv, CoreInv', [Next]_vars
    PROVE  [Durable!Next]_(Durable!vars)
<1> USE DEF CoreInv
<1> SUFFICES ASSUME ~UNCHANGED <<disk, diskHead>>
             PROVE  Durable!Next
  BY Zenon DEF Durable!vars
<1>1. CommitToDb
  BY ZenonT(30) DEF Next, UpdateBlock, Read, vars, dbVars, AlreadyKnown, ParentNotFound,
     ImportFork, BeginImport, CommitFails, CommitPanics, WriteThrough,
     FinishCommit, Publish, LoadIndex, ReadTag, OpenDb, Fetch, Refill,
     RefillSkipped, CloseHandle, Evict, Restart
<1>2. /\ diskHead' = Oldest
      /\ disk' = [k \in Keys |-> IF k \in DbWrites(Oldest) THEN Oldest ELSE disk[k]]
  BY Zenon, <1>1 DEF CommitToDb
<1>3. CASE Oldest = diskHead /\ DbWrites(Oldest) = {}
  <2>1. disk' = disk
    BY Zenon, <1>2, <1>3 DEF TypeOK
  <2> QED
    BY Zenon, <2>1, <1>2, <1>3
<1>4. CASE Oldest # Genesis /\ Parent[Oldest] = diskHead
  <2>1. Oldest \in Blocks
    BY Zenon, <1>1, OldestIs DEF CommitToDb
  <2>2. [k \in PlainKeys |-> disk'[k]] = [k \in PlainKeys |-> StateOf(Oldest, k)]
    BY Zenon, <1>2 DEF DiskExact
  <2>3. [k \in PlainKeys |-> disk'[k]] = Durable!ContentOf(Oldest)
    BY Zenon, <2>2
    DEF Durable!ContentOf, Durable!StateOf, Durable!PlainKeys, Durable!Writers,
        Durable!Top, StateOf, PlainKeys, Writers, Top
  <2> QED
    BY Zenon, <2>1, <2>3, <1>2, <1>4 DEF Durable!Next, Durable!Advance
<1> QED
  BY Zenon, <1>1, <1>3, <1>4, CommitMoves

\* The initial database is the one DurableChain starts from.
LEMMA DurableInit == CoreInv /\ Init => Durable!Init
<1> SUFFICES ASSUME CoreInv, Init PROVE Durable!Init
  OBVIOUS
<1>1. diskHead = Genesis /\ \A k \in PlainKeys : disk[k] = StateOf(Genesis, k)
  BY Zenon DEF CoreInv, DiskExact, Init
<1>2. [k \in PlainKeys |-> disk[k]] = Durable!ContentOf(Genesis)
  BY Zenon, <1>1 DEF Durable!ContentOf, Durable!StateOf, Durable!PlainKeys,
     Durable!Writers, Durable!Top, StateOf, PlainKeys, Writers, Top
<1> QED
  BY <1>1, <1>2 DEF Durable!Init

\* The database holds the state of one block at a time and moves only to a
\* child of it: commit's assertion, the empty diff of the bottom layer and the
\* order of cap_diff_to_db together make the database a DurableChain.
THEOREM DatabaseIsDurableChain == Spec => DurableChainSpec
<1>1. CoreInv /\ CoreInv' /\ [Next]_vars => [Durable!Next]_(Durable!vars)
  BY DurableStep
<1> QED
  BY <1>1, DurableInit, CoreInvariant, PTL DEF Spec, DurableChainSpec, Durable!Spec

----------------------------------------------------------------------------
(***************************************************************************)
(* The tags of cache entries.                                              *)
(***************************************************************************)

\* The database's own value is a committed one, for every tag a reader holds.
LEMMA DiskIsCommitted ==
    ASSUME CoreInv, BoundInv, NEW r \in Readers, NEW k \in TrackedKeys
    PROVE  CommittedValue(disk[k], tag[r], k)
<1>1. disk[k] = StateOf(diskHead, k)
  BY Zenon DEF BoundInv
<1>2. diskHead \in Anc[diskHead] /\ Number[diskHead] \in Nat /\ committedHeight \in Nat
  BY Zenon, ScalarTypes, AncSelf
<1>3. tag[r] <= committedHeight /\ committedHeight <= Number[diskHead] /\ tag[r] \in Int
  BY Zenon, TagNumbers DEF CoreInv, TagsOK
<1>4. Number[diskHead] >= tag[r]
  BY <1>2, <1>3
<1> QED
  BY Zenon, <1>1, <1>2, <1>4 DEF CommittedValue

\* A step that leaves database and cache alone, and after which every handle is
\* closed or has what it had.
LEMMA BoundFrame ==
    ASSUME BoundInv, UNCHANGED <<disk, diskHead, cacheTag, cacheVal>>,
           \A r \in Readers, k \in TrackedKeys :
              HandleBounded(r, k) => HandleBounded(r, k)'
    PROVE  BoundInv'
BY Zenon DEF BoundInv, TagIsLowerBound, CommittedValue, Cached

\* A handle that did not move.
LEMMA HandleFrame ==
    ASSUME NEW r \in Readers, NEW k \in TrackedKeys, HandleBounded(r, k),
           UNCHANGED <<diskHead, tag[r], store[r], want[r], got[r]>>,
           HandleOpen(r)' => HandleOpen(r),
           stage'[r] = "fetched" => stage[r] = "fetched"
    PROVE  HandleBounded(r, k)'
BY Zenon DEF HandleBounded, CommittedValue

\* BoundInv holds at the start.
LEMMA BoundInit == Init => BoundInv
<1> SUFFICES ASSUME Init PROVE BoundInv
  OBVIOUS
<1>1. \A k \in TrackedKeys : StateOf(Genesis, k) = Genesis
  <2> TAKE k \in TrackedKeys
  <2>1. Anc[Genesis] = {Genesis} /\ Genesis \in Blocks /\ Number[Genesis] \in Nat
    BY Zenon, BlocksAssumption, ParentAssumption
  <2>2. Writers(Genesis, k) = {Genesis}
    BY Zenon, <2>1 DEF Writers
  <2>3. Number[Genesis] <= Number[Genesis]
    BY <2>1
  <2>4. Top({Genesis}) = Genesis
    BY Zenon, <2>1, <2>3, TopIs
  <2> QED
    BY Zenon, <2>2, <2>4 DEF StateOf
<1>2. TrackedKeys \subseteq Keys
  BY Zenon DEF TrackedKeys, PlainKeys
<1> QED
  BY Zenon, <1>1, <1>2 DEF Init, BoundInv, TagIsLowerBound, Cached, HandleBounded, HandleOpen

\* A restart empties the cache and closes every handle.
LEMMA BoundRestart ==
    ASSUME BoundInv, Restart
    PROVE  BoundInv'
<1>1. TrackedKeys \subseteq Keys
  BY Zenon DEF TrackedKeys, PlainKeys
<1> QED
  BY Zenon, <1>1
  DEF Restart, dbVars, BoundInv, TagIsLowerBound, Cached, HandleBounded, HandleOpen

\* A commit brings the database to the state of the committed block: what its
\* diff lists or, where the backend clears storage, what it deletes, is new.
LEMMA BoundCommit ==
    ASSUME CoreInv, BoundInv, CommitToDb
    PROVE  BoundInv'
<1>1. /\ disk' = [k \in Keys |-> IF k \in DbWrites(Oldest) THEN Oldest ELSE disk[k]]
      /\ diskHead' = Oldest
      /\ UNCHANGED <<cacheVars, readerVars>>
  BY Zenon DEF CommitToDb
<1>2. Oldest \in Blocks /\ diskHead \in Blocks /\ bottom \in Blocks
  BY Zenon, OldestIs, ScalarTypes DEF CommitToDb
<1>3. TrackedKeys \subseteq Keys
  BY Zenon DEF TrackedKeys, PlainKeys
<1>4. /\ Anc[diskHead] \subseteq Anc[Oldest]
      /\ \A k \in TrackedKeys : disk'[k] = StateOf(Oldest, k)
  <2>1. CASE Oldest = diskHead /\ DbWrites(Oldest) = {}
    BY Zenon, <2>1, <1>1, <1>3 DEF BoundInv
  <2>2. CASE Oldest # Genesis /\ Parent[Oldest] = diskHead
    <3>1. /\ Anc[Oldest] = Anc[diskHead] \cup {Oldest}
          /\ Number[Oldest] = Number[diskHead] + 1
      BY Zenon, <2>2, <1>2, ParentAssumption
    <3>2. Oldest # bottom
      <4>1. Number[bottom] <= Number[diskHead]
        BY Zenon, <1>2, ChainAssumption DEF CoreInv, LinksOK
      <4> QED
        BY <4>1, <3>1, ScalarTypes
    <3>3. \A k \in TrackedKeys :
            k \in DbWrites(Oldest) <=> k \in Writes[Oldest] \cup Clears[Oldest]
      BY Zenon, <3>2, <1>2 DEF DbWrites, LayerWrites, TrackedKeys, PlainKeys
    <3>4. ASSUME NEW k \in TrackedKeys PROVE disk'[k] = StateOf(Oldest, k)
      <4>1. StateOf(Oldest, k) = IF k \in DbWrites(Oldest) THEN Oldest
                                 ELSE StateOf(diskHead, k)
        BY Zenon, <3>3, <2>2, <1>2, StateStep
      <4> QED
        BY Zenon, <4>1, <1>1, <1>3 DEF BoundInv
    <3> QED
      BY Zenon, <3>1, <3>4
  <2> QED
    BY Zenon, <2>1, <2>2, CommitMoves
<1>5. Anc[diskHead] \subseteq Anc[diskHead']
  BY Zenon, <1>1, <1>4
<1>6. TagIsLowerBound'
  <2> SUFFICES ASSUME NEW k \in TrackedKeys, CacheEnabled, cacheTag[k] # Vacant
               PROVE  \E x \in Anc[diskHead'] :
                         Number[x] >= cacheTag[k] /\ cacheVal[k] = StateOf(x, k)
    BY Zenon, <1>1 DEF TagIsLowerBound, Cached, cacheVars, CommittedValue
  <2>1. CommittedValue(cacheVal[k], cacheTag[k], k)
    BY Zenon DEF BoundInv, TagIsLowerBound, Cached
  <2> QED
    BY Zenon, <2>1, <1>5 DEF CommittedValue
<1>7. ASSUME NEW r \in Readers, NEW k \in TrackedKeys PROVE HandleBounded(r, k)'
  <2>1. HandleBounded(r, k)
    BY Zenon DEF BoundInv
  <2>2. UNCHANGED <<stage[r], tag[r], store[r][k], want[r], got[r]>>
    BY Zenon, <1>1 DEF readerVars
  <2>3. HandleOpen(r)' <=> HandleOpen(r)
    BY Zenon, <2>2 DEF HandleOpen
  <2>4. ASSUME PinnedReads, HandleOpen(r)'
        PROVE  CommittedValue(store[r][k], tag[r], k)'
    <3>1. CommittedValue(store[r][k], tag[r], k)
      BY Zenon, <2>1, <2>3, <2>4 DEF HandleBounded
    <3> QED
      BY Zenon, <3>1, <2>2, <1>5 DEF CommittedValue
  <2>5. ASSUME stage'[r] = "fetched", want'[r] = {k}
        PROVE  CommittedValue(got[r], tag[r], k)'
    <3>1. CommittedValue(got[r], tag[r], k)
      BY Zenon, <2>1, <2>2, <2>5 DEF HandleBounded
    <3> QED
      BY Zenon, <3>1, <2>2, <1>5 DEF CommittedValue
  <2> QED
    BY Zenon, <2>4, <2>5 DEF HandleBounded
<1> QED
  BY Zenon, <1>1, <1>4, <1>6, <1>7 DEF BoundInv

\* The write-through tags the committed block's own value with its number.
LEMMA BoundWriteThrough ==
    ASSUME CoreInv, BoundInv, NEW j \in Keys, WriteThrough(j)
    PROVE  BoundInv'
<1>1. /\ j \in pending
      /\ cacheTag' = [cacheTag EXCEPT ![j] = Number[diskHead]]
      /\ cacheVal' = [cacheVal EXCEPT ![j] = diskHead]
      /\ UNCHANGED <<dbVars, readerVars>>
  BY Zenon DEF WriteThrough
<1>2. /\ diskHead \in Blocks /\ Number[diskHead] \in Nat
      /\ cacheTag \in [Keys -> Nat \cup {Vacant}] /\ cacheVal \in [Keys -> Blocks]
  BY Zenon, ScalarTypes DEF CoreInv, TypeOK
<1>3. j \in Writes[diskHead]
  BY Zenon, <1>1 DEF CoreInv, UpdaterOK, LayerWrites
<1>4. StateOf(diskHead, j) = diskHead
  <2>1. /\ diskHead \in Writers(diskHead, j)
        /\ Writers(diskHead, j) \in SUBSET Anc[diskHead]
    BY Zenon, <1>2, <1>3, AncSelf DEF Writers
  <2>2. \A y \in Writers(diskHead, j) : Number[y] <= Number[diskHead]
    BY Zenon, <2>1, <1>2, ChainAssumption
  <2> QED
    BY Zenon, <2>1, <2>2, <1>2, TopIs DEF StateOf
<1>5. ASSUME NEW k \in TrackedKeys, CacheEnabled, cacheTag'[k] # Vacant
      PROVE  CommittedValue(cacheVal'[k], cacheTag'[k], k)
  <2>1. CASE k = j
    <3>1. Number[diskHead] >= Number[diskHead] /\ diskHead \in Anc[diskHead]
      BY <1>2, AncSelf
    <3>2. cacheVal'[k] = diskHead /\ cacheTag'[k] = Number[diskHead]
      BY Zenon, <2>1, <1>1, <1>2
    <3> QED
      BY Zenon, <3>1, <3>2, <2>1, <1>4 DEF CommittedValue
  <2>2. CASE k # j
    <3>1. k \in Keys
      BY Zenon DEF TrackedKeys, PlainKeys
    <3>2. cacheVal'[k] = cacheVal[k] /\ cacheTag'[k] = cacheTag[k]
      BY Zenon, <3>1, <2>2, <1>1, <1>2
    <3> QED
      BY Zenon, <3>2, <1>5 DEF BoundInv, TagIsLowerBound, Cached
  <2> QED
    BY <2>1, <2>2
<1>6. TagIsLowerBound'
  BY Zenon, <1>1, <1>5 DEF TagIsLowerBound, Cached, CommittedValue, dbVars
<1>7. ASSUME NEW r \in Readers, NEW k \in TrackedKeys PROVE HandleBounded(r, k)'
  BY Zenon, <1>1 DEF BoundInv, HandleBounded, HandleOpen, CommittedValue, dbVars, readerVars
<1> QED
  BY Zenon, <1>1, <1>6, <1>7 DEF BoundInv, dbVars

\* A refill tags the value it fetched with the handle's own tag.
LEMMA BoundRefill ==
    ASSUME CoreInv, BoundInv, NEW r \in Readers, NEW j \in Keys, Refill(r, j)
    PROVE  BoundInv'
<1>1. /\ stage[r] = "fetched" /\ want[r] = {j}
      /\ \/ /\ cacheTag' = [cacheTag EXCEPT ![j] = tag[r]]
            /\ cacheVal' = [cacheVal EXCEPT ![j] = got[r]]
         \/ UNCHANGED cacheVars
      /\ stage' = [stage EXCEPT ![r] = "open"]
      /\ UNCHANGED <<dbVars, tag, store>>
      /\ want' = [want EXCEPT ![r] = {}]
      /\ got' = [got EXCEPT ![r] = Genesis]
  BY Zenon DEF Refill
<1>2. /\ cacheTag \in [Keys -> Nat \cup {Vacant}] /\ cacheVal \in [Keys -> Blocks]
      /\ stage \in [Readers -> {"closed", "viewed", "tagged", "open", "fetched"}]
      /\ want \in [Readers -> SUBSET Keys] /\ got \in [Readers -> Blocks]
  BY Zenon DEF CoreInv, TypeOK
<1>3. ASSUME NEW k \in TrackedKeys, CacheEnabled, cacheTag'[k] # Vacant
      PROVE  CommittedValue(cacheVal'[k], cacheTag'[k], k)
  <2>0. k \in Keys
    BY Zenon DEF TrackedKeys, PlainKeys
  <2>1. CASE k = j /\ cacheVal'[k] = got[r] /\ cacheTag'[k] = tag[r]
    BY Zenon, <2>1, <1>1 DEF BoundInv, HandleBounded
  <2>2. CASE cacheVal'[k] = cacheVal[k] /\ cacheTag'[k] = cacheTag[k]
    BY Zenon, <2>2, <1>3 DEF BoundInv, TagIsLowerBound, Cached
  <2> QED
    BY Zenon, <2>0, <2>1, <2>2, <1>1, <1>2 DEF cacheVars
<1>4. TagIsLowerBound'
  BY Zenon, <1>1, <1>3 DEF TagIsLowerBound, Cached, CommittedValue, dbVars
<1>5. ASSUME NEW q \in Readers, NEW k \in TrackedKeys PROVE HandleBounded(q, k)'
  <2>1. HandleBounded(q, k)
    BY Zenon DEF BoundInv
  <2>2. CASE q # r
    <3>1. UNCHANGED <<stage[q], want[q], got[q], tag[q], store[q], diskHead>>
      BY Zenon, <2>2, <1>1, <1>2 DEF dbVars
    <3> QED
      BY Zenon, <3>1, <2>1, HandleFrame DEF HandleOpen
  <2>3. CASE q = r
    <3>1. stage'[r] = "open" /\ HandleOpen(r)
      BY Zenon, <1>1, <1>2 DEF HandleOpen
    <3>2. "open" # "fetched"
      OBVIOUS
    <3> QED
      BY Zenon, <3>1, <3>2, <2>1, <2>3, <1>1 DEF HandleBounded, CommittedValue, dbVars
  <2> QED
    BY <2>2, <2>3
<1> QED
  BY Zenon, <1>1, <1>4, <1>5 DEF BoundInv, dbVars

\* A handle is opened on the database, or asks it: what it gets is the state of
\* the head, and no tag is above that.
LEMMA BoundOpenDb ==
    ASSUME CoreInv, BoundInv, NEW r \in Readers, OpenDb(r)
    PROVE  BoundInv'
<1>1. /\ store' = IF PinnedReads THEN [store EXCEPT ![r] = disk] ELSE store
      /\ stage' = [stage EXCEPT ![r] = "open"]
      /\ UNCHANGED <<disk, diskHead, cacheTag, cacheVal, tag, want, got>>
  BY Zenon DEF OpenDb, dbVars, cacheVars
<1>2. /\ stage \in [Readers -> {"closed", "viewed", "tagged", "open", "fetched"}]
      /\ store \in [Readers -> [Keys -> Blocks]]
  BY Zenon DEF CoreInv, TypeOK
<1>3. ASSUME NEW q \in Readers, NEW k \in TrackedKeys, HandleBounded(q, k)
      PROVE  HandleBounded(q, k)'
  <2>1. CASE q # r
    <3>1. UNCHANGED <<stage[q], want[q], got[q], tag[q], store[q], diskHead>>
      BY Zenon, <2>1, <1>1, <1>2
    <3> QED
      BY Zenon, <3>1, <1>3, HandleFrame DEF HandleOpen
  <2>2. CASE q = r
    <3>1. stage'[r] = "open"
      BY Zenon, <1>1, <1>2
    <3>2. "open" # "fetched"
      OBVIOUS
    <3>3. PinnedReads => store'[r] = disk
      BY Zenon, <1>1, <1>2
    <3>4. CommittedValue(disk[k], tag[r], k)
      BY Zenon, DiskIsCommitted
    <3> QED
      BY Zenon, <3>1, <3>2, <3>3, <3>4, <2>2, <1>1 DEF HandleBounded, CommittedValue
  <2> QED
    BY <2>1, <2>2
<1> QED
  BY Zenon, <1>1, <1>3, BoundFrame

\* A fetch on behalf of a handle keeps BoundInv.
LEMMA BoundFetch ==
    ASSUME CoreInv, BoundInv, NEW r \in Readers, NEW j \in Keys, Fetch(r, j)
    PROVE  BoundInv'
<1>1. /\ stage[r] = "open" /\ stage' = [stage EXCEPT ![r] = "fetched"]
      /\ want' = [want EXCEPT ![r] = {j}]
      /\ got' = [got EXCEPT ![r] = DbRead(r, j)]
      /\ UNCHANGED <<disk, diskHead, cacheTag, cacheVal, tag, store>>
  BY Zenon DEF Fetch, dbVars, cacheVars
<1>2. /\ stage \in [Readers -> {"closed", "viewed", "tagged", "open", "fetched"}]
      /\ want \in [Readers -> SUBSET Keys] /\ got \in [Readers -> Blocks]
  BY Zenon DEF CoreInv, TypeOK
<1>3. ASSUME NEW q \in Readers, NEW k \in TrackedKeys, HandleBounded(q, k)
      PROVE  HandleBounded(q, k)'
  <2>1. CASE q # r
    <3>1. UNCHANGED <<stage[q], want[q], got[q], tag[q], store[q], diskHead>>
      BY Zenon, <2>1, <1>1, <1>2
    <3> QED
      BY Zenon, <3>1, <1>3, HandleFrame DEF HandleOpen
  <2>2. CASE q = r
    <3>1. HandleOpen(r)
      BY Zenon, <1>1 DEF HandleOpen
    <3>2. PinnedReads => CommittedValue(store[r][k], tag[r], k)
      BY Zenon, <3>1, <2>2, <1>3 DEF HandleBounded
    <3>3. CommittedValue(DbRead(r, k), tag[r], k)
      BY Zenon, <3>2, DiskIsCommitted DEF DbRead
    <3>4. want'[r] = {k} => got'[r] = DbRead(r, k)
      <4>1. want'[r] = {j} /\ got'[r] = DbRead(r, j)
        BY Zenon, <1>1, <1>2
      <4> QED
        BY Zenon, <4>1
    <3> QED
      BY Zenon, <3>2, <3>3, <3>4, <2>2, <1>1 DEF HandleBounded, CommittedValue
  <2> QED
    BY <2>1, <2>2
<1> QED
  BY Zenon, <1>1, <1>3, BoundFrame

\* A handle is being opened, gives up its refill, or is closed.
LEMMA BoundOtherReads ==
    ASSUME CoreInv, BoundInv, NEW r \in Readers,
           LoadIndex(r) \/ ReadTag(r) \/ RefillSkipped(r) \/ CloseHandle(r)
    PROVE  BoundInv'
<1>1. /\ stage \in [Readers -> {"closed", "viewed", "tagged", "open", "fetched"}]
      /\ want \in [Readers -> SUBSET Keys] /\ got \in [Readers -> Blocks]
      /\ tag \in [Readers -> Nat] /\ store \in [Readers -> [Keys -> Blocks]]
  BY Zenon DEF CoreInv, TypeOK
<1>2. UNCHANGED <<disk, diskHead, cacheTag, cacheVal>>
  BY Zenon DEF LoadIndex, ReadTag, RefillSkipped, CloseHandle, dbVars, cacheVars
<1>3. \A q \in Readers \ {r} : UNCHANGED <<stage[q], want[q], got[q], tag[q], store[q]>>
  BY Zenon, <1>1 DEF LoadIndex, ReadTag, RefillSkipped, CloseHandle
<1>4. \/ stage'[r] \in {"viewed", "tagged", "closed"}
      \/ stage[r] = "fetched" /\ stage'[r] = "open" /\ UNCHANGED <<tag, store>>
  BY Zenon, <1>1 DEF LoadIndex, ReadTag, RefillSkipped, CloseHandle
<1>5. ASSUME NEW q \in Readers, NEW k \in TrackedKeys, HandleBounded(q, k)
      PROVE  HandleBounded(q, k)'
  <2>1. CASE q # r
    BY Zenon, <2>1, <1>2, <1>3, <1>5, HandleFrame DEF HandleOpen
  <2>2. CASE q = r /\ stage'[r] \in {"viewed", "tagged", "closed"}
    BY <2>2 DEF HandleBounded, HandleOpen
  <2>3. CASE q = r /\ stage[r] = "fetched" /\ stage'[r] = "open" /\ UNCHANGED <<tag, store>>
    <3>1. "open" # "fetched"
      OBVIOUS
    <3> QED
      BY Zenon, <3>1, <2>3, <1>2, <1>5 DEF HandleBounded, HandleOpen, CommittedValue
  <2> QED
    BY Zenon, <2>1, <2>2, <2>3, <1>4
<1> QED
  BY Zenon, <1>2, <1>5, BoundFrame

\* An eviction keeps BoundInv.
LEMMA BoundEvict ==
    ASSUME CoreInv, BoundInv, NEW j \in Keys, Evict(j)
    PROVE  BoundInv'
<1>1. /\ cacheTag' = [cacheTag EXCEPT ![j] = Vacant]
      /\ cacheVal' = [cacheVal EXCEPT ![j] = Genesis]
      /\ UNCHANGED <<dbVars, readerVars>>
  BY Zenon DEF Evict
<1>2. cacheTag \in [Keys -> Nat \cup {Vacant}] /\ cacheVal \in [Keys -> Blocks]
  BY Zenon DEF CoreInv, TypeOK
<1>3. ASSUME NEW k \in TrackedKeys, CacheEnabled, cacheTag'[k] # Vacant
      PROVE  CommittedValue(cacheVal'[k], cacheTag'[k], k)
  <2>1. k \in Keys /\ k # j
    BY Zenon, <1>1, <1>2, <1>3 DEF TrackedKeys, PlainKeys
  <2>2. cacheVal'[k] = cacheVal[k] /\ cacheTag'[k] = cacheTag[k]
    BY Zenon, <2>1, <1>1, <1>2
  <2> QED
    BY Zenon, <2>2, <1>3 DEF BoundInv, TagIsLowerBound, Cached
<1>4. TagIsLowerBound'
  BY Zenon, <1>1, <1>3 DEF TagIsLowerBound, Cached, CommittedValue, dbVars
<1>5. ASSUME NEW r \in Readers, NEW k \in TrackedKeys PROVE HandleBounded(r, k)'
  BY Zenon, <1>1 DEF BoundInv, HandleBounded, HandleOpen, CommittedValue, dbVars, readerVars
<1> QED
  BY Zenon, <1>1, <1>4, <1>5 DEF BoundInv, dbVars

\* A step that touches neither the database, the cache nor a reader.
LEMMA BoundIdle ==
    ASSUME BoundInv, UNCHANGED <<dbVars, cacheVars, readerVars>>
    PROVE  BoundInv'
BY Zenon, BoundFrame
DEF HandleBounded, HandleOpen, CommittedValue, dbVars, cacheVars, readerVars

\* Every step keeps BoundInv.
LEMMA BoundStep ==
    ASSUME CoreInv, BoundInv, [Next]_vars
    PROVE  BoundInv'
<1>1. CASE UNCHANGED vars
  BY Zenon, <1>1, BoundIdle DEF vars
<1>2. ASSUME NEW b \in Blocks,
             AlreadyKnown(b) \/ ParentNotFound(b) \/ ImportFork(b) \/ BeginImport(b)
      PROVE  BoundInv'
  BY Zenon, <1>2, BoundIdle
  DEF AlreadyKnown, ParentNotFound, ImportFork, BeginImport, vars
<1>3. CASE CommitFails \/ CommitPanics \/ FinishCommit \/ Publish
  BY Zenon, <1>3, BoundIdle DEF CommitFails, CommitPanics, FinishCommit, Publish
<1>4. CASE CommitToDb
  BY Zenon, <1>4, BoundCommit
<1>5. ASSUME NEW k \in Keys, WriteThrough(k) PROVE BoundInv'
  BY Zenon, <1>5, BoundWriteThrough
<1>6. ASSUME NEW r \in Readers, Read(r) PROVE BoundInv'
  <2>1. ASSUME NEW k \in Keys, Fetch(r, k) \/ Refill(r, k) PROVE BoundInv'
    BY Zenon, <2>1, BoundFetch, BoundRefill
  <2> QED
    BY Zenon, <2>1, <1>6, BoundOpenDb, BoundOtherReads DEF Read
<1>7. ASSUME NEW k \in Keys, Evict(k) PROVE BoundInv'
  BY Zenon, <1>7, BoundEvict
<1>8. CASE Restart
  BY Zenon, <1>8, BoundRestart
<1> QED
  BY Zenon, <1>1, <1>2, <1>3, <1>4, <1>5, <1>6, <1>7, <1>8 DEF Next, UpdateBlock

\* Evictions or not, an entry of the shared cache is the value its key had at
\* some committed block not below the entry's tag: a late refill can be stale,
\* but never older than its handle (state_at, refill, commit).
THEOREM TagsAreLowerBounds == Spec => []TagIsLowerBound
<1>1. Init => CoreInv /\ BoundInv
  BY CoreInit, BoundInit
<1>2. CoreInv /\ BoundInv /\ [Next]_vars => (CoreInv /\ BoundInv)'
  BY CoreStep, BoundStep
<1>3. BoundInv => TagIsLowerBound
  BY DEF BoundInv
<1> QED
  BY <1>1, <1>2, <1>3, PTL DEF Spec


----------------------------------------------------------------------------
(***************************************************************************)
(* The cache and the handles.                                              *)
(***************************************************************************)

\* The cache never has to evict.
RoomForAllKeys ==
    CacheEnabled => IsFiniteSet(Keys) /\ Cardinality(Keys) <= Capacity

\* With room for every key the cache never evicts.
LEMMA NoEviction ==
    ASSUME RoomForAllKeys, NEW k \in Keys, Evict(k)
    PROVE  FALSE
<1> DEFINE S == {j \in Keys : Cached(j)}
<1>0. CacheEnabled
  BY Zenon DEF Evict, Cached
<1>1. IsFiniteSet(Keys) /\ S \in SUBSET Keys
  BY <1>0 DEF RoomForAllKeys
<1>2. IsFiniteSet(S) /\ Cardinality(S) <= Cardinality(Keys)
  <2> HIDE DEF S
  <2> QED BY Zenon, <1>1, FS_Subset
<1>3. Cardinality(S) > Capacity
  BY Zenon DEF Evict
<1> HIDE DEF S
<1>4. Cardinality(S) \in Nat /\ Cardinality(Keys) \in Nat
  BY Zenon, <1>1, <1>2, FS_CardinalityType
<1> QED
  BY <1>0, <1>2, <1>3, <1>4, TreeAssumption DEF RoomForAllKeys

----------------------------------------------------------------------------
(***************************************************************************)
(* Cache coherence.                                                        *)
(***************************************************************************)

CacheInv == RefillsOK /\ CacheCoherent

\* A step that touches neither the database, the cache nor a pending refill.
LEMMA CacheFrame ==
    ASSUME CacheInv, UNCHANGED <<dbVars, cacheVars, pending, readerVars>>
    PROVE  CacheInv'
BY Zenon DEF CacheInv, RefillsOK, CacheCoherent, Harmless, Cached, HandleOpen, dbVars,
   cacheVars, readerVars

\* The empty cache is coherent.
LEMMA CacheInit == Init => CacheInv
BY Zenon DEF Init, CacheInv, RefillsOK, CacheCoherent, Cached, HandleOpen

\* A restart empties the cache and closes every handle.
LEMMA CacheRestart ==
    ASSUME CacheInv, Restart
    PROVE  CacheInv'
BY Zenon DEF Restart, CacheInv, RefillsOK, CacheCoherent, Cached, HandleOpen, PlainKeys

\* A commit changes the database only at keys it will write through.
LEMMA CacheCommit ==
    ASSUME CoreInv, CacheInv, CommitToDb
    PROVE  CacheInv'
<1>1. /\ disk' = [k \in Keys |-> IF k \in DbWrites(Oldest) THEN Oldest ELSE disk[k]]
      /\ pending' = IF CacheEnabled THEN LayerWrites(Oldest) ELSE {}
      /\ UNCHANGED <<cacheVars, readerVars>>
  BY Zenon DEF CommitToDb
<1>2. pending = {}
  BY Zenon DEF CommitToDb, CoreInv, UpdaterOK
<1>3. Oldest \in Blocks
  BY Zenon, OldestIs DEF CommitToDb
<1>4. ASSUME CacheEnabled, NEW k \in PlainKeys, k \notin pending'
      PROVE  disk'[k] = disk[k]
  <2>1. k \in Keys /\ k \notin Clears[Oldest]
    BY <1>3 DEF PlainKeys
  <2>2. k \notin DbWrites(Oldest)
    BY Zenon, <2>1, <1>1, <1>4 DEF DbWrites
  <2> QED
    BY Zenon, <2>1, <2>2, <1>1
<1>5. CacheCoherent'
  BY Zenon, <1>1, <1>2, <1>4 DEF CacheInv, CacheCoherent, Cached, cacheVars
<1>6. RefillsOK'
  BY Zenon, <1>1, <1>2, <1>4
  DEF CacheInv, RefillsOK, Harmless, HandleOpen, cacheVars, readerVars
<1> QED
  BY <1>5, <1>6 DEF CacheInv

\* The write-through of a key makes its entry current and too new for any
\* refill in flight.
LEMMA CacheWriteThrough ==
    ASSUME CoreInv, CacheInv, NEW j \in Keys, WriteThrough(j)
    PROVE  CacheInv'
<1> USE DEF CoreInv
<1>1. /\ j \in pending /\ pending' = pending \ {j}
      /\ cacheTag' = [cacheTag EXCEPT ![j] = Number[diskHead]]
      /\ cacheVal' = [cacheVal EXCEPT ![j] = diskHead]
      /\ UNCHANGED <<dbVars, readerVars>>
  BY Zenon DEF WriteThrough
<1>2. j \in Writes[diskHead] /\ committedHeight < Number[diskHead]
  BY Zenon, <1>1 DEF UpdaterOK, LayerWrites
<1>3. j \in PlainKeys => disk[j] = diskHead
  <2> SUFFICES ASSUME j \in PlainKeys PROVE StateOf(diskHead, j) = diskHead
    BY Zenon DEF DiskExact
  <2>1. diskHead \in Blocks /\ diskHead \in Anc[diskHead]
    BY Zenon, AncSelf DEF TypeOK
  <2>2. Above(diskHead, diskHead) = {}
    BY <2>1, ChainAssumption, AncSelf, BlocksAssumption DEF Above
  <2> QED
    BY Zenon, <2>1, <2>2, <1>2, StateIsLastWriter
<1>4. \A r \in Readers : tag[r] <= Number[diskHead]
  <2> SUFFICES ASSUME NEW r \in Readers PROVE tag[r] <= Number[diskHead]
    BY Zenon
  <2>1. tag[r] \in Nat /\ committedHeight \in Nat /\ Number[diskHead] \in Nat
    BY Zenon, BlocksAssumption DEF TypeOK
  <2> QED
    BY <2>1, <1>2 DEF TagsOK
<1>5. CacheCoherent'
  BY <1>1, <1>3 DEF CacheInv, CacheCoherent, Cached, TypeOK, dbVars
<1>6. ASSUME NEW v, NEW r \in Readers, NEW k \in Keys, Harmless(v, r, k)
      PROVE  Harmless(v, r, k)'
  BY Zenon, <1>1, <1>4, <1>6 DEF Harmless, TypeOK, dbVars, readerVars
<1>7. ASSUME CacheEnabled, NEW r \in Readers, NEW k \in PlainKeys
      PROVE  /\ stage'[r] = "fetched" /\ want'[r] = {k} => Harmless(got[r], r, k)'
             /\ PinnedReads /\ HandleOpen(r)' => Harmless(store[r][k], r, k)'
  <2>1. k \in Keys
    BY DEF PlainKeys
  <2>2. UNCHANGED <<stage, want, got, store, tag>>
    BY Zenon, <1>1 DEF readerVars
  <2>3. /\ stage[r] = "fetched" /\ want[r] = {k} => Harmless(got[r], r, k)
        /\ PinnedReads /\ HandleOpen(r) => Harmless(store[r][k], r, k)
    BY Zenon, <1>7 DEF CacheInv, RefillsOK
  <2> QED
    BY ZenonT(30), <2>1, <2>2, <2>3, <1>6 DEF HandleOpen, Harmless
<1>8. RefillsOK'
  BY Zenon, <1>7 DEF RefillsOK
<1> QED
  BY <1>5, <1>8 DEF CacheInv

\* A reader step that fetches nothing, fills nothing and pins nothing.
LEMMA CacheReaderFrame ==
    ASSUME CacheInv, UNCHANGED <<dbVars, cacheVars, pending>>,
           \A q \in Readers : HandleOpen(q)' =>
              /\ HandleOpen(q) /\ UNCHANGED <<tag[q], store[q]>>
              /\ stage'[q] = "fetched" =>
                    stage[q] = "fetched" /\ UNCHANGED <<want[q], got[q]>>
    PROVE  CacheInv'
<1>1. CacheCoherent'
  BY Zenon DEF CacheInv, CacheCoherent, Cached, dbVars, cacheVars
<1>2. ASSUME CacheEnabled, NEW r \in Readers, NEW k \in PlainKeys
      PROVE  /\ stage'[r] = "fetched" /\ want'[r] = {k} => Harmless(got[r], r, k)'
             /\ PinnedReads /\ HandleOpen(r)' => Harmless(store[r][k], r, k)'
  <2>1. stage'[r] = "fetched" => HandleOpen(r)'
    BY Zenon DEF HandleOpen
  <2>2. /\ stage[r] = "fetched" /\ want[r] = {k} => Harmless(got[r], r, k)
        /\ PinnedReads /\ HandleOpen(r) => Harmless(store[r][k], r, k)
    BY Zenon, <1>2 DEF CacheInv, RefillsOK
  <2> QED
    BY Zenon, <2>1, <2>2 DEF Harmless, dbVars, cacheVars
<1> QED
  BY Zenon, <1>1, <1>2 DEF CacheInv, RefillsOK

\* A handle pinned now reads current values.
LEMMA CacheOpenDb ==
    ASSUME CoreInv, CacheInv, NEW r \in Readers, OpenDb(r)
    PROVE  CacheInv'
<1> USE DEF CoreInv, TypeOK
<1>1. CacheCoherent'
  BY Zenon DEF OpenDb, CacheInv, CacheCoherent, Cached, dbVars, cacheVars, updaterVars
<1>2. ASSUME CacheEnabled, NEW q \in Readers, NEW k \in PlainKeys
      PROVE  /\ stage'[q] = "fetched" /\ want'[q] = {k} => Harmless(got[q], q, k)'
             /\ PinnedReads /\ HandleOpen(q)' => Harmless(store[q][k], q, k)'
  <2>1. CASE q = r
    BY Zenon, <2>1 DEF OpenDb, Harmless, dbVars
  <2>2. CASE q # r
    <3>1. UNCHANGED <<stage[q], want[q], got[q], store[q], tag[q]>>
      BY Zenon, <2>2 DEF OpenDb
    <3>2. /\ stage[q] = "fetched" /\ want[q] = {k} => Harmless(got[q], q, k)
          /\ PinnedReads /\ HandleOpen(q) => Harmless(store[q][k], q, k)
      BY Zenon, <1>2 DEF CacheInv, RefillsOK
    <3> QED
      BY Zenon, <3>1, <3>2 DEF OpenDb, HandleOpen, Harmless, dbVars, cacheVars, updaterVars
  <2> QED
    BY Zenon, <2>1, <2>2
<1> QED
  BY ZenonT(30), <1>1, <1>2 DEF CacheInv, RefillsOK

\* A fetched value is current or as harmless as the snapshot it came from.
LEMMA CacheFetch ==
    ASSUME CoreInv, CacheInv, NEW r \in Readers, NEW j \in Keys, Fetch(r, j)
    PROVE  CacheInv'
<1> USE DEF CoreInv, TypeOK
<1>1. CacheCoherent'
  BY Zenon DEF Fetch, CacheInv, CacheCoherent, Cached, dbVars, cacheVars, updaterVars
<1>2. ASSUME CacheEnabled, NEW q \in Readers, NEW k \in PlainKeys
      PROVE  /\ stage'[q] = "fetched" /\ want'[q] = {k} => Harmless(got[q], q, k)'
             /\ PinnedReads /\ HandleOpen(q)' => Harmless(store[q][k], q, k)'
  <2>1. /\ stage[q] = "fetched" /\ want[q] = {k} => Harmless(got[q], q, k)
        /\ PinnedReads /\ HandleOpen(q) => Harmless(store[q][k], q, k)
    BY Zenon, <1>2 DEF CacheInv, RefillsOK
  <2>2. CASE q = r
    <3>1. HandleOpen(r) /\ UNCHANGED <<store, tag, dbVars, cacheVars, pending>>
      BY Zenon DEF Fetch, HandleOpen, updaterVars
    <3>2. want'[r] = {j} /\ got'[r] = DbRead(r, j)
      BY Zenon DEF Fetch
    <3>3. want'[r] = {k} => Harmless(got'[r], r, k)
      BY ZenonT(30), <2>1, <2>2, <3>1, <3>2 DEF DbRead, Harmless
    <3> QED
      BY Zenon, <2>1, <2>2, <3>1, <3>3 DEF Harmless, dbVars, cacheVars
  <2>3. CASE q # r
    <3>1. UNCHANGED <<stage[q], want[q], got[q], store[q], tag[q]>>
      BY ZenonT(30), <2>3 DEF Fetch
    <3> QED
      BY Zenon, <2>1, <3>1 DEF Fetch, HandleOpen, Harmless, dbVars, cacheVars, updaterVars
  <2> QED
    BY Zenon, <2>2, <2>3
<1> QED
  BY ZenonT(30), <1>1, <1>2 DEF CacheInv, RefillsOK

\* A refill that is accepted is current or about to be overwritten, and tags
\* only ever rise.
LEMMA CacheRefill ==
    ASSUME CoreInv, CacheInv, NEW r \in Readers, NEW j \in Keys, Refill(r, j)
    PROVE  CacheInv'
<1> USE DEF CoreInv, TypeOK
<1>1. /\ stage[r] = "fetched" /\ want[r] = {j}
      /\ \/ /\ cacheTag[j] < tag[r]
            /\ cacheTag' = [cacheTag EXCEPT ![j] = tag[r]]
            /\ cacheVal' = [cacheVal EXCEPT ![j] = got[r]]
         \/ UNCHANGED cacheVars
      /\ stage' = [stage EXCEPT ![r] = "open"]
      /\ want' = [want EXCEPT ![r] = {}]
      /\ got' = [got EXCEPT ![r] = Genesis]
      /\ UNCHANGED <<disk, pending, tag, store>>
  BY Zenon DEF Refill, dbVars, updaterVars
<1>0. /\ \A k \in Keys : cacheTag[k] \in Int
      /\ \A q \in Readers : tag[q] \in Int
  BY DEF Vacant
<1>2. ASSUME NEW k \in Keys PROVE cacheTag[k] <= cacheTag'[k]
  <2>1. CASE k = j /\ cacheTag[j] < tag[r] /\ cacheTag' = [cacheTag EXCEPT ![j] = tag[r]]
    <3>1. cacheTag'[k] = tag[r] /\ cacheTag[k] < tag[r]
      BY Zenon, <2>1
    <3> QED
      BY SMTT(30), <3>1, <1>0
  <2>2. CASE cacheTag'[k] = cacheTag[k]
    BY SMTT(30), <2>2, <1>0
  <2> QED
    BY ZenonT(30), <2>1, <2>2, <1>1 DEF cacheVars
<1>3. CacheCoherent'
  <2> SUFFICES ASSUME NEW k \in PlainKeys, Cached(k)', k \notin pending
               PROVE  cacheVal'[k] = disk[k]
    BY Zenon, <1>1 DEF CacheCoherent
  <2>0. k \in Keys /\ CacheEnabled
    BY Zenon DEF PlainKeys, Cached
  <2>1. CASE k = j /\ cacheTag[j] < tag[r] /\ cacheVal' = [cacheVal EXCEPT ![j] = got[r]]
    <3>1. Harmless(got[r], r, j)
      BY ZenonT(30), <2>0, <2>1, <1>1 DEF CacheInv, RefillsOK
    <3>2. ~(tag[r] <= cacheTag[j])
      BY <2>1, <1>0
    <3> QED
      BY Zenon, <2>0, <2>1, <3>1, <3>2 DEF Harmless
  <2>2. CASE cacheTag'[k] = cacheTag[k] /\ cacheVal'[k] = cacheVal[k]
    BY Zenon, <2>0, <2>2 DEF CacheInv, CacheCoherent, Cached
  <2> QED
    BY Zenon, <2>0, <2>1, <2>2, <1>1 DEF cacheVars
<1>4. ASSUME CacheEnabled, NEW q \in Readers, NEW k \in PlainKeys
      PROVE  /\ stage'[q] = "fetched" /\ want'[q] = {k} => Harmless(got[q], q, k)'
             /\ PinnedReads /\ HandleOpen(q)' => Harmless(store[q][k], q, k)'
  <2>0. k \in Keys
    BY Zenon DEF PlainKeys
  <2>1. /\ stage[q] = "fetched" /\ want[q] = {k} => Harmless(got[q], q, k)
        /\ PinnedReads /\ HandleOpen(q) => Harmless(store[q][k], q, k)
    BY Zenon, <1>4 DEF CacheInv, RefillsOK
  <2>2. HandleOpen(q)' => HandleOpen(q)
    BY Zenon, <1>1 DEF HandleOpen
  <2>3. stage'[q] = "fetched" =>
           stage[q] = "fetched" /\ UNCHANGED <<want[q], got[q]>>
    BY Zenon, <1>1
  <2>4. \A v : Harmless(v, q, k) =>
            v = disk'[k] \/ k \in pending' \/ tag'[q] <= cacheTag'[k]
    <3>1. tag[q] <= cacheTag[k] => tag[q] <= cacheTag'[k]
      <4>1. cacheTag[k] \in Int /\ cacheTag'[k] \in Int /\ tag[q] \in Int
        BY <2>0, <1>1 DEF cacheVars, Vacant
      <4> QED
        BY SMTT(30), <4>1, <2>0, <1>2
    <3> QED
      BY ZenonT(30), <3>1, <1>1 DEF Harmless
  <2> QED
    BY ZenonT(30), <2>1, <2>2, <2>3, <2>4, <1>1 DEF Harmless
<1> QED
  BY ZenonT(30), <1>3, <1>4 DEF CacheInv, RefillsOK

\* Every step keeps the cache coherent and pending refills harmless.
LEMMA CacheStep ==
    ASSUME RoomForAllKeys, CoreInv, CacheInv, [Next]_vars
    PROVE  CacheInv'
<1>1. CASE UNCHANGED vars
  BY Zenon, <1>1, CacheFrame DEF vars, updaterVars
<1>2. ASSUME NEW b \in Blocks,
             AlreadyKnown(b) \/ ParentNotFound(b) \/ ImportFork(b) \/ BeginImport(b)
      PROVE  CacheInv'
  BY Zenon, <1>2, CacheFrame
  DEF AlreadyKnown, ParentNotFound, ImportFork, BeginImport, vars, updaterVars
<1>3. CASE CommitFails \/ CommitPanics \/ FinishCommit \/ Publish
  BY Zenon, <1>3, CacheFrame DEF CommitFails, CommitPanics, FinishCommit, Publish
<1>4. CASE CommitToDb
  BY <1>4, CacheCommit
<1>5. ASSUME NEW k \in Keys, WriteThrough(k) PROVE CacheInv'
  BY <1>5, CacheWriteThrough
<1>6. ASSUME NEW r \in Readers, Read(r) PROVE CacheInv'
  <2>1. CASE LoadIndex(r)
    <3>1. UNCHANGED <<dbVars, cacheVars, pending, tag, store, want, got>>
      BY Zenon, <2>1 DEF LoadIndex, updaterVars
    <3>2. \A q \in Readers : HandleOpen(q)' => q # r /\ stage'[q] = stage[q]
      BY Zenon, <2>1 DEF LoadIndex, HandleOpen, CoreInv, TypeOK
    <3> QED
      BY Zenon, <3>1, <3>2, CacheReaderFrame DEF HandleOpen
  <2>2. CASE ReadTag(r)
    <3>1. UNCHANGED <<dbVars, cacheVars, pending, store, want, got>>
      BY Zenon, <2>2 DEF ReadTag, updaterVars
    <3>2. \A q \in Readers : HandleOpen(q)' =>
              q # r /\ stage'[q] = stage[q] /\ tag'[q] = tag[q]
      BY Zenon, <2>2 DEF ReadTag, HandleOpen, CoreInv, TypeOK
    <3> QED
      BY Zenon, <3>1, <3>2, CacheReaderFrame DEF HandleOpen
  <2>3. CASE OpenDb(r)
    BY <2>3, CacheOpenDb
  <2>4. ASSUME NEW k \in Keys, Fetch(r, k) PROVE CacheInv'
    BY <2>4, CacheFetch
  <2>5. ASSUME NEW k \in Keys, Refill(r, k) PROVE CacheInv'
    BY <2>5, CacheRefill
  <2>6. CASE RefillSkipped(r)
    <3>1. UNCHANGED <<dbVars, cacheVars, pending, tag, store>>
      BY Zenon, <2>6 DEF RefillSkipped, updaterVars
    <3>2. \A q \in Readers : HandleOpen(q)' =>
              /\ HandleOpen(q)
              /\ stage'[q] = "fetched" =>
                    stage[q] = "fetched" /\ UNCHANGED <<want[q], got[q]>>
      BY Zenon, <2>6 DEF RefillSkipped, HandleOpen, CoreInv, TypeOK
    <3> QED
      BY Zenon, <3>1, <3>2, CacheReaderFrame
  <2>7. CASE CloseHandle(r)
    <3>1. UNCHANGED <<dbVars, cacheVars, pending, want, got>>
      BY Zenon, <2>7 DEF CloseHandle, updaterVars
    <3>2. \A q \in Readers : HandleOpen(q)' =>
              q # r /\ stage'[q] = stage[q] /\ UNCHANGED <<tag[q], store[q]>>
      BY Zenon, <2>7 DEF CloseHandle, HandleOpen, CoreInv, TypeOK
    <3> QED
      BY Zenon, <3>1, <3>2, CacheReaderFrame DEF HandleOpen
  <2> QED
    BY Zenon, <1>6, <2>1, <2>2, <2>3, <2>4, <2>5, <2>6, <2>7 DEF Read
<1>7. ASSUME NEW k \in Keys, Evict(k) PROVE CacheInv'
  BY <1>7, NoEviction
<1>8. CASE Restart
  BY <1>8, CacheRestart
<1> QED
  BY Zenon, <1>1, <1>2, <1>3, <1>4, <1>5, <1>6, <1>7, <1>8 DEF Next, UpdateBlock

----------------------------------------------------------------------------
(***************************************************************************)
(* From the invariant to what a handle answers.                            *)
(***************************************************************************)

\* A view that reaches down to d and does not list k reads below itself what
\* the chain holds at d.
LEMMA UnlistedIsBelow ==
    ASSUME NEW b \in Blocks, NEW v \in SUBSET Blocks, NEW k \in PlainKeys,
           NEW d \in Anc[b], bottom \in Anc[d], Above(d, b) \subseteq v,
           LayersWith(v, k) = {}
    PROVE  StateOf(b, k) = StateOf(d, k)
<1>1. k \in Keys /\ \A x \in Blocks : k \notin Clears[x]
  BY Zenon DEF PlainKeys
<1>2. d \in Blocks /\ bottom \in Blocks /\ Number[bottom] <= Number[d]
  BY Zenon, ParentAssumption, ChainAssumption
<1>3. ASSUME NEW x \in Above(d, b) PROVE k \notin Writes[x] \cup Clears[x]
  <2>1. x \in Blocks /\ Number[x] > Number[d] /\ x \in v
    BY Zenon, <1>3, ParentAssumption DEF Above
  <2>2. x # bottom
    BY <2>1, <1>2, BlocksAssumption
  <2>3. k \notin LayerWrites(x)
    BY Zenon, <2>1 DEF LayersWith
  <2> QED
    BY Zenon, <2>1, <2>2, <2>3, <1>1 DEF LayerWrites
<1> QED
  BY Zenon, <1>1, <1>2, <1>3, StateUnchanged

\* A view that lists k answers with its newest layer that does.
LEMMA ListedIsLast ==
    ASSUME CoreInv, NEW b \in Blocks, NEW v \in SUBSET Blocks, ViewOK(v, b),
           NEW k \in PlainKeys, LayersWith(v, k) # {}
    PROVE  Top(LayersWith(v, k)) = StateOf(b, k)
<1>0. k \in Keys /\ \A x \in Blocks : k \notin Clears[x]
  BY Zenon DEF PlainKeys
<1> DEFINE t == Top(LayersWith(v, k))
<1>1. /\ t \in LayersWith(v, k)
      /\ \A y \in LayersWith(v, k) : Number[y] <= Number[t]
  <2>1. LayersWith(v, k) \subseteq Anc[b]
    BY Zenon DEF LayersWith, ViewOK
  <2> QED
    BY Zenon, <2>1, TopIn
<1>2. t \in Anc[b] /\ t \in v /\ k \in Writes[t] /\ Number[bottom] <= Number[t]
  BY Zenon, <1>1 DEF LayersWith, LayerWrites, ViewOK
<1>3. ASSUME NEW y \in Above(t, b) PROVE k \notin Writes[y] \cup Clears[y]
  <2>1. y \in Anc[b] /\ Number[y] > Number[t] /\ y \in Blocks /\ t \in Blocks
    BY Zenon, <1>2, <1>3, ParentAssumption DEF Above
  <2>2. y \in v
    BY <2>1, <1>2, BlocksAssumption DEF ViewOK
  <2>3. y \notin LayersWith(v, k)
    BY SMTT(30), <1>1, <2>1, BlocksAssumption
  <2>4. bottom \in Blocks /\ y # bottom
    BY <1>2, <2>1, BlocksAssumption DEF CoreInv, TypeOK
  <2> QED
    BY Zenon, <2>1, <2>2, <2>3, <2>4, <1>0 DEF LayersWith, LayerWrites
<1> HIDE DEF t
<1>4. StateOf(b, k) = t
  BY Zenon, <1>2, <1>3, <1>0, StateIsLastWriter
<1> QED
  BY Zenon, <1>4 DEF t

\* Under the invariant the newest layer, the cache or the database, whichever
\* answers first, holds the value of the handle's block.
LEMMA TreeInvIsExact ==
    ASSUME TreeInv
    PROVE  HandleExact
<1> SUFFICES ASSUME NEW r \in Readers, NEW k \in PlainKeys, HandleOpen(r),
                    diskHead \in Anc[head[r]]
             PROVE  Served(r, k) = StateOf(head[r], k)
  BY Zenon DEF HandleExact
<1>0. /\ CoreInv /\ TypeOK /\ DiskExact /\ LinksOK /\ ViewsOK /\ UpdaterOK
      /\ PinnedOK /\ CacheCoherent
  BY Zenon DEF TreeInv, CoreInv
<1>1. head[r] \in Blocks /\ view[r] \in SUBSET Blocks /\ diskHead \in Blocks
  BY Zenon, <1>0 DEF TypeOK
<1>2. ViewOK(view[r], head[r])
  BY Zenon, <1>0 DEF ViewsOK, HandleOpen
<1>3. CASE LayersWith(view[r], k) # {}
  BY Zenon, <1>0, <1>1, <1>2, <1>3, ListedIsLast DEF Served, ReadThrough
<1>4. CASE LayersWith(view[r], k) = {}
  <2>1. StateOf(head[r], k) = StateOf(diskHead, k)
    <3>1. bottom \in Anc[diskHead]
      BY Zenon, <1>0 DEF LinksOK
    <3>2. Above(diskHead, head[r]) \subseteq view[r]
      BY Zenon, <1>2 DEF ViewOK
    <3> QED
      BY Zenon, <3>1, <3>2, <1>1, <1>4, UnlistedIsBelow
  <2>2. disk[k] = StateOf(head[r], k)
    BY Zenon, <1>0, <2>1 DEF DiskExact
  <2>3. CASE Cached(k)
    <3>1. k \notin pending
      BY Zenon, <1>0, <1>2, <1>4 DEF ViewOK, UpdaterOK, LayersWith
    <3> QED
      <4>1. Served(r, k) = cacheVal[k]
        BY ZenonT(30), <1>4, <2>3 DEF Served, ReadThrough
      <4>2. cacheVal[k] = disk[k]
        BY ZenonT(30), <1>0, <2>3, <3>1 DEF CacheCoherent
      <4> QED
        BY ZenonT(30), <2>2, <4>1, <4>2
  <2>4. CASE ~Cached(k) /\ ~PinnedReads
    <3>1. Served(r, k) = disk[k]
      BY ZenonT(30), <1>4, <2>4 DEF Served, ReadThrough, DbRead
    <3> QED
      BY ZenonT(30), <2>2, <3>1
  <2>5. CASE ~Cached(k) /\ PinnedReads
    <3>1. PICK d \in Anc[diskHead] :
             /\ bottom \in Anc[d]
             /\ Above(d, head[r]) \subseteq view[r]
             /\ \A j \in PlainKeys : store[r][j] = StateOf(d, j)
      BY ZenonT(30), <1>0, <2>5 DEF PinnedOK
    <3>2. d \in Anc[head[r]]
      BY SMTT(30), <1>1, ChainAssumption
    <3>3. StateOf(head[r], k) = StateOf(d, k)
      BY <1>1, <1>4, <3>1, <3>2, UnlistedIsBelow
    <3> QED
      <4>1. Served(r, k) = store[r][k]
        BY ZenonT(30), <1>4, <2>5 DEF Served, ReadThrough, DbRead
      <4> QED
        BY ZenonT(30), <3>1, <3>3, <4>1
  <2> QED
    BY ZenonT(30), <2>3, <2>4, <2>5
<1> QED
  BY ZenonT(30), <1>3, <1>4

\* With a cache that holds every key, or none, the whole invariant is kept:
\* no refill, however late, leaves a value behind that the database no longer
\* has (CacheDiskLayer::commit, refill, cache_view_height).
THEOREM CacheStaysCoherent ==
    ASSUME RoomForAllKeys
    PROVE  Spec => []CacheCoherent
<1>1. Init => CoreInv /\ CacheInv
  BY CoreInit, CacheInit
<1>2. CoreInv /\ CacheInv /\ [Next]_vars => CoreInv' /\ CacheInv'
  BY RoomForAllKeys, CoreStep, CacheStep
<1>3. CoreInv /\ CacheInv => CacheCoherent
  BY DEF CacheInv
<1> QED
  BY <1>1, <1>2, <1>3, PTL DEF Spec

\* A handle answers with the state of the block it was opened for, whatever
\* the updater commits, writes through, retargets or clears meanwhile, for
\* every tree of blocks, depth limit, backend and number of readers (state_at,
\* HybridStateDB, cap_diff_to_db).
THEOREM HandlesAreExact ==
    ASSUME RoomForAllKeys
    PROVE  Spec => []HandleExact
<1>1. Init => CoreInv /\ CacheInv
  BY CoreInit, CacheInit
<1>2. CoreInv /\ CacheInv /\ [Next]_vars => CoreInv' /\ CacheInv'
  BY RoomForAllKeys, CoreStep, CacheStep
<1>3. CoreInv /\ CacheInv => HandleExact
  BY TreeInvIsExact DEF CacheInv, TreeInv
<1> QED
  BY <1>1, <1>2, <1>3, PTL DEF Spec

----------------------------------------------------------------------------
(***************************************************************************)
(* How far the latest block is from the database.                          *)
(***************************************************************************)

\* The blocks of b's chain from w upwards, counted.
LEMMA ChainCount ==
    ASSUME NEW b \in Blocks, NEW w \in Anc[b]
    PROVE  Cardinality({z \in Anc[b] : Number[w] <= Number[z]})
              = Number[b] - Number[w] + 1
<1>1. PICK S : S = {z \in Anc[b] : Number[w] <= Number[z]}
  BY Zenon
<1>2. PICK I : I = Number[w] .. Number[b]
  BY Zenon
<1>3. /\ Anc[b] \subseteq Blocks /\ w \in Blocks
      /\ Number[b] \in Nat /\ Number[w] \in Nat /\ Number[w] <= Number[b]
  BY AncSelf, BlocksAssumption, ChainAssumption
<1>4. \A z \in S : Number[z] \in I
  <2> TAKE z \in S
  <2>1. z \in Anc[b] /\ z \in Blocks /\ Number[w] <= Number[z] /\ Number[z] <= Number[b]
    BY Zenon, <1>1, <1>3, ChainAssumption
  <2> QED
    BY <2>1, <1>2, <1>3, BlocksAssumption
<1>5. \A n \in I : \E z \in S : Number[z] = n
  <2> TAKE n \in I
  <2>1. PICK z \in Anc[b] : Number[z] = n
    BY Zenon, NoGaps, <1>2
  <2> QED
    BY <2>1, <1>1, <1>2, <1>3
<1>6. \A x, y \in S : Number[x] = Number[y] => x = y
  BY Zenon, <1>1, AncUnique
<1>7. PICK f : f = [n \in I |-> CHOOSE z \in S : Number[z] = n]
  BY Zenon
<1>8. \A n \in I : f[n] \in S /\ Number[f[n]] = n
  BY Zenon, <1>5, <1>7
<1>9. f \in Bijection(I, S)
  <2>1. f \in [I -> S]
    BY Zenon, <1>7, <1>8
  <2>2. \A n, m \in I : f[n] = f[m] => n = m
    BY Zenon, <1>8
  <2>3. \A z \in S : \E n \in I : f[n] = z
    BY Zenon, <1>4, <1>6, <1>8
  <2> QED
    BY Zenon, <2>1, <2>2, <2>3 DEF Bijection, Injection, Surjection, IsInjective
<1>10. IsFiniteSet(I) /\ Cardinality(I) = Number[b] - Number[w] + 1
  <2>1. Number[w] \in Int /\ Number[b] \in Int
    BY <1>3
  <2>2. /\ IsFiniteSet(Number[w] .. Number[b])
        /\ Cardinality(Number[w] .. Number[b]) =
              IF Number[w] > Number[b] THEN 0 ELSE Number[b] - Number[w] + 1
    BY Zenon, <2>1, FS_Interval
  <2>3. ~(Number[w] > Number[b])
    BY <1>3
  <2> QED
    BY Zenon, <2>2, <2>3, <1>2
<1>11. Cardinality(S) = Cardinality(I)
  BY Zenon, <1>9, <1>10, FS_Bijection DEF ExistsBijection
<1> QED
  BY Zenon, <1>1, <1>10, <1>11

\* The walk of b starts at the highest block of its chain that is linked to the
\* cache layer.
LEMMA WalkFrom ==
    ASSUME NEW b \in Blocks, NEW w \in Anc[b], w \in onCache,
           \A y \in Anc[b] \cap onCache : Number[y] <= Number[w]
    PROVE  /\ Cardinality(Walk(b)) = Number[b] - Number[w] + 1
           /\ Lowest(Walk(b)) = w
<1>1. Anc[b] \subseteq Blocks /\ \A z \in Anc[b] : Number[z] \in Nat
  BY Zenon, AncSelf, BlocksAssumption
<1>2. Walk(b) = {z \in Anc[b] : Number[w] <= Number[z]}
  <2>1. ASSUME NEW z \in Anc[b], Number[w] <= Number[z],
               NEW y \in Anc[b] \cap onCache
        PROVE  Number[y] <= Number[z]
    <3>1. Number[y] <= Number[w]
      OBVIOUS
    <3> QED
      BY <2>1, <3>1, <1>1
  <2> QED
    BY Zenon, <2>1 DEF Walk
<1>3. w \in Walk(b) /\ Walk(b) \in SUBSET Blocks /\ \A y \in Walk(b) : Number[w] <= Number[y]
  <2>1. Number[w] <= Number[w]
    BY <1>1
  <2> QED
    BY Zenon, <1>1, <1>2, <2>1
<1>4. /\ Lowest(Walk(b)) \in Walk(b)
      /\ Number[Lowest(Walk(b))] <= Number[w]
  BY Zenon, <1>3, LowestIn
<1>5. PICK t : t = Lowest(Walk(b))
  BY Zenon
<1>6. t \in Anc[b] /\ Number[t] <= Number[w] /\ Number[w] <= Number[t]
  BY Zenon, <1>2, <1>3, <1>4, <1>5
<1>7. Number[t] = Number[w]
  BY <1>6, <1>1
<1> QED
  BY Zenon, <1>2, <1>5, <1>6, <1>7, AncUnique, ChainCount

\* What the lemmas below know of the types.
LEMMA DepthTypes ==
    ASSUME CoreInv
    PROVE  /\ LatestBlock \in Blocks /\ Number[LatestBlock] \in Nat
           /\ Anc[LatestBlock] \subseteq Blocks
           /\ Anc[target] \subseteq Blocks
           /\ DepthLimit \in Nat \ {0}
           /\ Indexed \subseteq Blocks
           /\ NoBlock \notin Blocks
<1>1. latest \in Blocks \cup {NoBlock} /\ diskHead \in Blocks /\ target \in Blocks
  BY Zenon DEF CoreInv, TypeOK
<1>2. LatestBlock \in Blocks
  BY Zenon, <1>1 DEF LatestBlock
<1> QED
  BY Zenon, <1>1, <1>2, AncSelf, BlocksAssumption, TreeAssumption DEF Indexed

\* Before anything is committed by this process, the only link to the cache
\* layer is the bottom one, and every indexed block descends from it.
LEMMA FreshLinks ==
    ASSUME CoreInv, oldDiff = NoBlock, NEW b \in Blocks, diskHead \in Anc[b]
    PROVE  /\ Cardinality(Walk(b)) = Number[b] - Number[diskHead] + 1
           /\ Lowest(Walk(b)) = diskHead
<1>1. onCache = {diskHead}
  BY Zenon DEF CoreInv, LinksOK
<1>2. Number[diskHead] <= Number[diskHead]
  BY ScalarTypes
<1>3. \A y \in Anc[b] \cap onCache : Number[y] <= Number[diskHead]
  BY Zenon, <1>1, <1>2
<1> QED
  BY Zenon, <1>1, <1>3, WalkFrom

\* Afterwards the walk of a block above the linked child x starts at x.
LEMMA LinkedWalk ==
    ASSUME CoreInv, NEW b \in Blocks, NEW x \in Anc[b], x \in onCache,
           Number[x] = Number[diskHead] + 1
    PROVE  /\ Cardinality(Walk(b)) = Number[b] - Number[diskHead]
           /\ Lowest(Walk(b)) = x
<1>1. \A y \in Anc[b] \cap onCache : Number[y] <= Number[x]
  BY Zenon DEF CoreInv, LinksOK
<1>2. Cardinality(Walk(b)) = Number[b] - Number[x] + 1 /\ Lowest(Walk(b)) = x
  BY Zenon, <1>1, WalkFrom
<1>3. Number[b] \in Nat /\ Number[diskHead] \in Nat
  BY Zenon, ScalarTypes
<1> QED
  BY <1>2, <1>3

\* A block that ends a chain of the right length asks for no commit.
LEMMA SettledStays ==
    ASSUME CoreInv, Settled(target)
    PROVE  ~MustCommit
<1>1. target \in Blocks /\ Number[target] \in Nat /\ Number[diskHead] \in Nat
  BY Zenon, ScalarTypes
<1>2. DepthLimit \in Nat
  BY Zenon, DepthTypes
<1>3. CASE oldDiff = NoBlock
  <2>1. diskHead \in Anc[target] /\ Number[target] < Number[diskHead] + DepthLimit
    BY Zenon, <1>3 DEF Settled
  <2>2. Cardinality(Walk(target)) = Number[target] - Number[diskHead] + 1
    BY Zenon, <2>1, <1>1, <1>3, FreshLinks
  <2> QED
    BY <2>1, <2>2, <1>1, <1>2 DEF MustCommit
<1>4. CASE oldDiff # NoBlock
  <2>1. Number[target] = Number[diskHead] + DepthLimit
    BY Zenon, <1>4 DEF Settled
  <2>2. PICK x \in onCache \cap Anc[target] : Number[x] = Number[diskHead] + 1
    BY Zenon, <1>4 DEF Settled
  <2>3. Cardinality(Walk(target)) = Number[target] - Number[diskHead]
    BY ZenonT(30), <2>2, <1>1, LinkedWalk
  <2> QED
    BY SMTT(30), <2>1, <2>3, <1>1, <1>2 DEF MustCommit
<1> QED
  BY <1>3, <1>4

\* The block being imported is at most one above the latest, and descends from
\* the bottom block.
LEMMA TargetIsNear ==
    ASSUME CoreInv, pc = "cap", \A b \in Indexed : Number[b] <= Number[LatestBlock]
    PROVE  /\ Number[target] <= Number[LatestBlock] + 1
           /\ bottom \in Anc[target]
<1>1. target \in Blocks /\ target # Genesis /\ Parent[target] \in Indexed
  BY Zenon, ScalarTypes DEF CoreInv, UpdaterOK
<1>2. /\ Number[target] = Number[Parent[target]] + 1
      /\ Anc[target] = Anc[Parent[target]] \cup {target}
      /\ Parent[target] \in Blocks
  BY Zenon, <1>1, ParentAssumption, BlocksAssumption
<1>3. Number[Parent[target]] <= Number[LatestBlock] /\ bottom \in Anc[Parent[target]]
  BY Zenon, <1>1 DEF CoreInv, ViewsOK, ViewOK
<1>4. Number[Parent[target]] \in Nat /\ Number[LatestBlock] \in Nat
  BY Zenon, <1>2, ScalarTypes, DepthTypes
<1> QED
  BY SMTT(30), <1>2, <1>3, <1>4

\* An import that leaves the latest chain at or below the database's head: its
\* walk is too long, and does not start at a child of that head.
LEMMA DeepFork ==
    ASSUME CoreInv, pc = "cap", oldDiff # NoBlock, bottom \in Anc[target],
           Number[diskHead] + DepthLimit <= Number[target],
           \A y \in onCache \cap Anc[target] : Number[y] # Number[diskHead] + 1
    PROVE  MustCommit /\ ~ParentIsOldDiff
<1>1. /\ target \in Blocks /\ Number[target] \in Nat
      /\ diskHead \in Blocks /\ Number[diskHead] \in Nat
  BY Zenon, ScalarTypes
<1>2. DepthLimit \in Nat
  BY Zenon, DepthTypes
<1>3. PICK S : S = Anc[target] \cap onCache
  BY Zenon
<1>4. bottom \in S /\ S \in SUBSET Anc[target]
  BY Zenon, <1>3 DEF CoreInv, LinksOK
<1>5. PICK w \in S : \A y \in S : Number[y] <= Number[w]
  BY Zenon, <1>1, <1>4, TopIn
<1>6. w \in Anc[target] /\ w \in onCache /\ w \in Blocks /\ Number[w] \in Nat
  BY Zenon, <1>1, <1>3, AncSelf, BlocksAssumption
<1>7. Number[w] <= Number[diskHead]
  <2>1. Number[w] <= Number[diskHead] + 1 /\ Number[w] # Number[diskHead] + 1
    BY Zenon, <1>6 DEF CoreInv, LinksOK
  <2> QED
    BY <2>1, <1>1, <1>6
<1>8. /\ Cardinality(Walk(target)) = Number[target] - Number[w] + 1
      /\ Oldest = w
  BY Zenon, <1>1, <1>3, <1>5, <1>6, WalkFrom DEF Oldest
<1>9. MustCommit
  BY SMTT(30), <1>1, <1>2, <1>6, <1>7, <1>8 DEF MustCommit
<1>10. ASSUME w # Genesis, Parent[w] = diskHead PROVE FALSE
  <2>1. Number[w] = Number[diskHead] + 1
    BY Zenon, <1>6, <1>10, ParentAssumption
  <2> QED
    BY <2>1, <1>1, <1>6, <1>7
<1>11. oldDiff = diskHead
  BY ZenonT(30) DEF CoreInv, LinksOK
<1> QED
  BY Zenon, <1>8, <1>9, <1>10, <1>11 DEF ParentIsOldDiff

\* What cap_diff_to_db finds for a new block, the latest one being settled.
LEMMA CapFinds ==
    ASSUME CoreInv, pc = "cap", Settled(LatestBlock),
           Number[LatestBlock] <= Number[target],
           \A b \in Indexed : Number[b] <= Number[LatestBlock]
    PROVE  \/ ~MustCommit /\ Settled(target)
           \/ /\ MustCommit /\ ParentIsOldDiff
              /\ Oldest \in Anc[target] /\ Oldest \in Anc[LatestBlock]
              /\ Oldest \in onCache
              /\ Number[target] = Number[Oldest] + DepthLimit
              /\ \A y \in onCache : Number[y] <= Number[Oldest]
           \/ /\ MustCommit /\ ~ParentIsOldDiff
              /\ Above(diskHead, target) \cap Above(diskHead, LatestBlock) = {}
<1>1. /\ target \in Blocks /\ Number[target] \in Nat
      /\ diskHead \in Blocks /\ Number[diskHead] \in Nat
      /\ onCache \subseteq Blocks
  BY Zenon, ScalarTypes
<1>2. /\ DepthLimit \in Nat \ {0}
      /\ LatestBlock \in Blocks /\ Number[LatestBlock] \in Nat
  BY Zenon, DepthTypes
<1>3. Number[target] <= Number[LatestBlock] + 1 /\ bottom \in Anc[target]
  BY Zenon, TargetIsNear
<1>4. diskHead \in Anc[LatestBlock]
  BY Zenon DEF Settled
<1>5. CASE oldDiff = NoBlock
  <2>1. /\ diskHead = bottom /\ onCache = {diskHead}
        /\ Number[LatestBlock] < Number[diskHead] + DepthLimit
    BY Zenon, <1>5 DEF CoreInv, LinksOK, Settled
  <2>2. /\ Cardinality(Walk(target)) = Number[target] - Number[diskHead] + 1
        /\ Oldest = diskHead
    BY Zenon, <2>1, <1>1, <1>3, <1>5, FreshLinks DEF Oldest
  <2>3. CASE MustCommit
    <3>1. Number[target] = Number[diskHead] + DepthLimit
      BY <2>1, <2>2, <2>3, <1>1, <1>2, <1>3 DEF MustCommit
    <3>2. \A y \in onCache : Number[y] <= Number[diskHead]
      BY <2>1, <1>1
    <3> QED
      BY Zenon, <3>1, <3>2, <2>1, <2>2, <2>3, <1>3, <1>4, <1>5 DEF ParentIsOldDiff
  <2>4. CASE ~MustCommit
    <3>1. Number[target] < Number[diskHead] + DepthLimit
      BY <2>2, <2>4, <1>1, <1>2 DEF MustCommit
    <3> QED
      BY Zenon, <3>1, <2>1, <2>4, <1>3, <1>5 DEF Settled
  <2> QED
    BY <2>3, <2>4
<1>6. CASE oldDiff # NoBlock
  <2>1. Number[LatestBlock] = Number[diskHead] + DepthLimit
    BY Zenon, <1>6 DEF Settled
  <2>2. PICK x \in onCache \cap Anc[LatestBlock] :
          /\ Number[x] = Number[diskHead] + 1
          /\ \A y \in onCache : Number[y] = Number[diskHead] + 1 => y = x
    BY Zenon, <1>6 DEF Settled
  <2>3. x \in Blocks /\ Number[x] \in Nat
    BY ZenonT(30), <1>1, BlocksAssumption
  <2>4. CASE x \in Anc[target]
    <3>1. /\ Cardinality(Walk(target)) = Number[target] - Number[diskHead]
          /\ Oldest = x
      BY Zenon, <2>2, <2>4, <1>1, LinkedWalk DEF Oldest
    <3>2. CASE MustCommit
      <4>1. Number[target] = Number[x] + DepthLimit
        BY SMTT(30), <3>1, <3>2, <2>1, <2>2, <1>1, <1>2, <1>3 DEF MustCommit
      <4>2. \A y \in onCache : Number[y] <= Number[x]
        BY Zenon, <2>2 DEF CoreInv, LinksOK
      <4>3. x # Genesis /\ Parent[x] = diskHead
        BY Zenon, <2>2, <1>2, <1>4, ChildIs
      <4>4. oldDiff = diskHead
        BY Zenon, <1>6 DEF CoreInv, LinksOK
      <4> QED
        BY ZenonT(30), <4>1, <4>2, <4>3, <4>4, <3>1, <3>2, <2>2, <2>4 DEF ParentIsOldDiff
    <3>3. CASE ~MustCommit
      <4>1. Number[target] = Number[diskHead] + DepthLimit
        BY <3>1, <3>3, <2>1, <1>1, <1>2 DEF MustCommit
      <4>2. diskHead \in Anc[target]
        <5>1. diskHead \in Anc[x] /\ Anc[x] \subseteq Anc[target]
          <6>1. Number[diskHead] <= Number[x]
            BY <2>2, <1>1
          <6> QED
            BY Zenon, <6>1, <2>2, <2>4, <1>1, <1>2, <1>4, ChainAssumption
        <5> QED
          BY Zenon, <5>1
      <4> QED
        BY Zenon, <4>1, <4>2, <3>3, <2>2, <2>4, <1>6 DEF Settled
    <3> QED
      BY <3>2, <3>3
  <2>5. CASE x \notin Anc[target]
    <3>1. \A y \in onCache \cap Anc[target] : Number[y] # Number[diskHead] + 1
      BY Zenon, <2>2, <2>5
    <3>2. MustCommit /\ ~ParentIsOldDiff
      BY Zenon, <3>1, <2>1, <1>3, <1>6, DeepFork
    <3>3. ASSUME NEW z \in Above(diskHead, target), z \in Above(diskHead, LatestBlock)
          PROVE  FALSE
      <4>1. /\ z \in Anc[target] /\ z \in Anc[LatestBlock] /\ z \in Blocks
            /\ Number[z] > Number[diskHead] /\ Number[z] \in Nat
        BY Zenon, <3>3, <1>1, AncSelf, BlocksAssumption DEF Above
      <4>2. Number[x] <= Number[z]
        BY <4>1, <2>2, <1>1
      <4>3. x \in Anc[z] /\ Anc[z] \subseteq Anc[target]
        BY Zenon, <4>1, <4>2, <2>2, <1>1, <1>2, ChainAssumption
      <4> QED
        BY Zenon, <4>3, <2>5
    <3> QED
      BY Zenon, <3>2, <3>3
  <2> QED
    BY <2>4, <2>5
<1> QED
  BY <1>5, <1>6

\* What the invariant depends on.
LEMMA DepthFrame ==
    ASSUME DepthInv,
           UNCHANGED <<diskHead, oldDiff, onCache, views, latest, pc, target>>
    PROVE  DepthInv'
<1>1. Indexed' = Indexed /\ LatestBlock' = LatestBlock
  BY Zenon DEF Indexed, LatestBlock
<1>2. /\ Settled(LatestBlock)' <=> Settled(LatestBlock)
      /\ Settled(target)' <=> Settled(target)
  BY Zenon, <1>1 DEF Settled
<1> QED
  BY Zenon, <1>1, <1>2 DEF DepthInv, ParentsIndexed, ShallowReorgNeverPanics, Above

\* After a start the latest block is the database's own head.
LEMMA DepthFresh ==
    ASSUME diskHead \in Blocks, oldDiff = NoBlock, latest = NoBlock, pc = "idle",
           Indexed = {diskHead}
    PROVE  DepthInv
<1>1. LatestBlock = diskHead /\ Number[diskHead] \in Nat /\ diskHead \in Anc[diskHead]
  BY Zenon, AncSelf, BlocksAssumption DEF LatestBlock
<1>2. /\ Number[diskHead] <= Number[diskHead]
      /\ ~(Number[diskHead] > Number[diskHead])
      /\ Number[diskHead] < Number[diskHead] + DepthLimit
  BY SMTT(30), <1>1, TreeAssumption
<1> QED
  BY Zenon, <1>1, <1>2 DEF DepthInv, ParentsIndexed, Settled, ShallowReorgNeverPanics

\* A fork below the latest block is indexed under an indexed parent.
LEMMA DepthImportFork ==
    ASSUME CoreInv, DepthInv, NEW b \in Blocks, ImportFork(b)
    PROVE  DepthInv'
<1>1. /\ pc = "idle" /\ b # Genesis /\ Parent[b] \in Indexed
      /\ Number[b] < Number[LatestBlock]
      /\ views' = [views EXCEPT ![b] = Walk(b)]
      /\ UNCHANGED <<diskHead, oldDiff, onCache, latest, pc, target>>
  BY Zenon DEF ImportFork, Importable, dbVars, layerVars, updaterVars
<1>2. \A c \in Indexed' : c \in Indexed \/ c = b
  BY Zenon, <1>1 DEF Indexed, CoreInv, TypeOK
<1>3. Indexed \subseteq Indexed'
  <2>1. b \in Walk(b)
    BY Zenon, WalkClosed DEF CoreInv, TypeOK
  <2> QED
    BY Zenon, <2>1, <1>1 DEF Indexed, CoreInv, TypeOK
<1>4. LatestBlock' = LatestBlock
  BY Zenon, <1>1 DEF LatestBlock
<1>5. Number[b] <= Number[LatestBlock]
  BY <1>1, DepthTypes, BlocksAssumption
<1>6. Settled(LatestBlock)'
  BY Zenon, <1>1, <1>4 DEF DepthInv, Settled
<1>7. ParentsIndexed'
  BY ZenonT(30), <1>1, <1>2, <1>3 DEF DepthInv, ParentsIndexed
<1> QED
  BY SMTT(30), <1>1, <1>2, <1>4, <1>5, <1>6, <1>7 DEF DepthInv, ShallowReorgNeverPanics

\* An import of a block at or above the latest one starts.
LEMMA DepthBeginImport ==
    ASSUME CoreInv, DepthInv, NEW b \in Blocks, BeginImport(b)
    PROVE  DepthInv'
<1>1. /\ pc = "idle" /\ Number[b] >= Number[LatestBlock] /\ pc' = "cap" /\ target' = b
      /\ UNCHANGED <<diskHead, oldDiff, onCache, views, latest>>
  BY Zenon DEF BeginImport, Importable, dbVars, layerVars, indexVars
<1>2. Indexed' = Indexed /\ LatestBlock' = LatestBlock
  BY Zenon, <1>1 DEF Indexed, LatestBlock
<1>3. Number[LatestBlock] <= Number[b]
  BY <1>1, DepthTypes, BlocksAssumption
<1>4. Settled(LatestBlock)'
  BY ZenonT(30), <1>1, <1>2 DEF DepthInv, Settled
<1> QED
  BY <1>1, <1>2, <1>3, <1>4 DEF DepthInv, ParentsIndexed, ShallowReorgNeverPanics

\* cap_diff_to_db commits: the block is on both chains.
LEMMA DepthCommit ==
    ASSUME CoreInv, DepthInv, CommitToDb
    PROVE  DepthInv'
<1>1. /\ pc = "cap" /\ MustCommit /\ pc' = "through"
      /\ diskHead' = Oldest /\ oldDiff' = Oldest
      /\ UNCHANGED <<onCache, views, latest, target>>
  BY Zenon DEF CommitToDb, indexVars
<1>2. Settled(LatestBlock)
  BY Zenon, <1>1, SettledStays DEF DepthInv
<1>3. /\ Oldest \in Anc[target] /\ Oldest \in Anc[LatestBlock]
      /\ Oldest \in onCache
      /\ Number[target] = Number[Oldest] + DepthLimit
      /\ \A y \in onCache : Number[y] <= Number[Oldest]
  <2>1. ParentIsOldDiff
    BY Zenon DEF CommitToDb
  <2>2. /\ Number[LatestBlock] <= Number[target]
        /\ \A b \in Indexed : Number[b] <= Number[LatestBlock]
    BY Zenon, <1>1 DEF DepthInv
  <2> QED
    BY Zenon, <2>1, <2>2, <1>1, <1>2, CapFinds
<1>4. Number[diskHead] <= Number[Oldest] /\ Number[Oldest] \in Nat
  <2>1. Oldest \in Blocks /\ diskHead \in Blocks
    BY Zenon, <1>1, OldestIs, ScalarTypes
  <2>2. Number[Oldest] = Number[diskHead] \/ Number[Oldest] = Number[diskHead] + 1
    BY Zenon, <2>1, CommitMoves, ParentAssumption
  <2> QED
    BY <2>1, <2>2, BlocksAssumption
<1>5. LatestBlock' = LatestBlock
  <2>1. CASE latest # NoBlock
    BY Zenon, <2>1, <1>1 DEF LatestBlock
  <2>2. CASE latest = NoBlock
    <3>1. LatestBlock = diskHead /\ diskHead = bottom
      BY Zenon, <2>2 DEF LatestBlock, CoreInv, UpdaterOK
    <3>2. Number[diskHead] # Number[diskHead] + DepthLimit
      BY ScalarTypes, TreeAssumption
    <3>3. oldDiff = NoBlock
      BY Zenon, <3>1, <3>2, <1>2 DEF Settled
    <3>4. Oldest = diskHead
      BY Zenon, <3>1, <3>3, <1>1, OldestIs
    <3> QED
      BY Zenon, <3>1, <3>4, <2>2, <1>1 DEF LatestBlock
  <2> QED
    BY <2>1, <2>2
<1>6. Indexed' = Indexed
  BY Zenon, <1>1 DEF Indexed
<1>7. ParentsIndexed'
  <2> SUFFICES ASSUME NEW b \in Indexed, Number[b] > Number[Oldest]
               PROVE  b # Genesis /\ Parent[b] \in Indexed
    BY Zenon, <1>1, <1>6 DEF ParentsIndexed
  <2>1. Number[b] \in Nat /\ Number[diskHead] \in Nat
    BY Zenon, ScalarTypes, DepthTypes
  <2>2. Number[b] > Number[diskHead]
    BY SMTT(30), <2>1, <1>4
  <2> QED
    BY Zenon, <2>2 DEF DepthInv, ParentsIndexed
<1> QED
  BY Zenon, <1>1, <1>3, <1>5, <1>6, <1>7 DEF DepthInv, ShallowReorgNeverPanics

\* The database refuses the batch, or commit's assertion fails.
LEMMA DepthCommitStops ==
    ASSUME CoreInv, DepthInv, CommitFails \/ CommitPanics
    PROVE  DepthInv'
<1>1. /\ pc = "cap" /\ MustCommit
      /\ pc' = "idle" \/ (pc' = "poisoned" /\ ~ParentIsOldDiff)
      /\ UNCHANGED <<diskHead, oldDiff, onCache, views, latest, target>>
  BY Zenon DEF CommitFails, CommitPanics, dbVars, layerVars, indexVars
<1>2. Settled(LatestBlock)
  BY Zenon, <1>1, SettledStays DEF DepthInv
<1>3. ~ParentIsOldDiff => Above(diskHead, target) \cap Above(diskHead, LatestBlock) = {}
  <2>1. /\ Number[LatestBlock] <= Number[target]
        /\ \A b \in Indexed : Number[b] <= Number[LatestBlock]
    BY Zenon, <1>1 DEF DepthInv
  <2> QED
    BY Zenon, <2>1, <1>1, <1>2, CapFinds
<1>4. Indexed' = Indexed /\ LatestBlock' = LatestBlock
  BY Zenon, <1>1 DEF Indexed, LatestBlock
<1>5. Settled(LatestBlock)'
  BY Zenon, <1>1, <1>2, <1>4 DEF Settled
<1>6. ShallowReorgNeverPanics'
  BY ZenonT(30), <1>1, <1>3, <1>4 DEF ShallowReorgNeverPanics, Above
<1> QED
  BY <1>1, <1>4, <1>5, <1>6 DEF DepthInv, ParentsIndexed

\* The commit ends: the child of the committed block is linked to the cache
\* layer, and the chain of the new block has the right length.
LEMMA DepthFinishCommit ==
    ASSUME CoreInv, DepthInv, FinishCommit
    PROVE  DepthInv'
<1>1. PICK z : z = Lowest(Walk(target) \ {diskHead})
  BY Zenon
<1>2. /\ pc = "through" /\ pc' = "cap" /\ onCache' = onCache \cup {z}
      /\ UNCHANGED <<diskHead, oldDiff, views, latest, target>>
  BY Zenon, <1>1 DEF FinishCommit, dbVars, indexVars
<1>3. /\ diskHead \in Anc[target] /\ diskHead \in onCache
      /\ Number[target] = Number[diskHead] + DepthLimit
      /\ \A y \in onCache : Number[y] <= Number[diskHead]
      /\ diskHead # target /\ oldDiff # NoBlock
  BY Zenon, <1>2 DEF DepthInv, CoreInv, UpdaterOK
<1>4. /\ target \in Blocks /\ diskHead \in Blocks /\ Number[diskHead] \in Nat
      /\ Anc[target] \subseteq Blocks
  BY Zenon, ScalarTypes, DepthTypes
<1>5. z \in Anc[target] /\ Number[z] = Number[diskHead] + 1
  <2>1. PICK S : S = Walk(target) \ {diskHead}
    BY Zenon
  <2>2. PICK y \in Anc[target] : y # Genesis /\ Parent[y] = diskHead
    BY Zenon, <1>3, <1>4, ChainAssumption
  <2>3. Number[y] = Number[diskHead] + 1
    BY Zenon, <2>2, <1>4, ParentAssumption
  <2>4. y # diskHead
    BY <2>3, <1>4
  <2>5. y \in Walk(target)
    <3> SUFFICES ASSUME NEW c \in Anc[target] \cap onCache PROVE Number[c] <= Number[y]
      BY Zenon DEF Walk
    <3>1. Number[c] <= Number[diskHead] /\ Number[c] \in Nat
      BY Zenon, <1>3, <1>4, BlocksAssumption
    <3> QED
      BY <3>1, <2>3, <1>4
  <2>6. y \in S /\ S \in SUBSET Blocks
    BY Zenon, <2>1, <2>4, <2>5, <1>4 DEF Walk
  <2>7. z \in S /\ Number[z] <= Number[y]
    BY Zenon, <2>1, <2>6, <1>1, LowestIn
  <2>8. z \in Anc[target] /\ z # diskHead /\ Number[diskHead] <= Number[z] /\ Number[z] \in Nat
    BY Zenon, <2>1, <2>7, <1>3, <1>4, BlocksAssumption DEF Walk
  <2>9. Number[z] # Number[diskHead]
    BY Zenon, <2>8, <1>3, <1>4, AncUnique
  <2> QED
    BY <2>3, <2>7, <2>8, <2>9, <1>4
<1>6. \A y \in onCache' : Number[y] = Number[diskHead] + 1 => y = z
  <2> SUFFICES ASSUME NEW y \in onCache, Number[y] = Number[diskHead] + 1
               PROVE  y = z
    BY Zenon, <1>2
  <2> QED
    BY <1>3, <1>4
<1>7. Settled(target)'
  <2>1. z \in onCache' \cap Anc[target]
    BY Zenon, <1>2, <1>5
  <2> QED
    BY Zenon, <2>1, <1>2, <1>3, <1>5, <1>6 DEF Settled
<1>8. Indexed' = Indexed /\ LatestBlock' = LatestBlock
  BY ZenonT(30), <1>2 DEF Indexed, LatestBlock
<1> QED
  BY <1>2, <1>7, <1>8 DEF DepthInv, ParentsIndexed, ShallowReorgNeverPanics

\* The new block becomes the latest one, and the heights below the database's
\* head are cleared.
LEMMA DepthPublish ==
    ASSUME CoreInv, DepthInv, Publish
    PROVE  DepthInv'
<1>1. /\ pc = "cap" /\ ~MustCommit /\ pc' = "idle" /\ latest' = target
      /\ views' = [b \in Blocks |->
                      IF b = target THEN Walk(b)
                      ELSE IF Kept(Number[b]) THEN views[b] ELSE {}]
      /\ UNCHANGED <<diskHead, oldDiff, onCache, target>>
  BY Zenon DEF Publish, dbVars, layerVars
<1>2. /\ target \in Blocks /\ Number[target] \in Nat /\ Number[diskHead] \in Nat
      /\ LatestBlock \in Blocks /\ Number[LatestBlock] \in Nat
      /\ Indexed \subseteq Blocks
  BY Zenon, ScalarTypes, DepthTypes
<1>3. /\ Number[LatestBlock] <= Number[target]
      /\ \A b \in Indexed : Number[b] <= Number[LatestBlock]
  BY Zenon, <1>1 DEF DepthInv
<1>4. Settled(target)
  <2>1. Settled(LatestBlock) \/ Settled(target)
    BY Zenon, <1>1 DEF DepthInv
  <2> QED
    BY Zenon, <2>1, <1>1, <1>3, CapFinds
<1>5. LatestBlock' = target
  BY Zenon, <1>1, <1>2, TreeAssumption DEF LatestBlock
<1>6. Settled(LatestBlock)'
  BY Zenon, <1>1, <1>4, <1>5 DEF Settled
<1>7. \A b \in Indexed' : b = target \/ b \in Indexed
  BY Zenon, <1>1 DEF Indexed
<1>8. \A b \in Indexed : Number[b] >= Number[diskHead] => b \in Indexed'
  <2>1. target \in Walk(target)
    BY Zenon, <1>2, WalkClosed DEF CoreInv, TypeOK
  <2> QED
    BY Zenon, <2>1, <1>1, <1>2 DEF Indexed, Kept
<1>9. \A b \in Indexed' : Number[b] <= Number[target]
  <2> TAKE b \in Indexed'
  <2>1. CASE b = target
    BY <2>1, <1>2
  <2>2. CASE b \in Indexed
    <3>1. Number[b] <= Number[LatestBlock] /\ Number[b] \in Nat
      BY Zenon, <2>2, <1>2, <1>3, BlocksAssumption
    <3> QED
      BY <3>1, <1>2, <1>3
  <2> QED
    BY Zenon, <2>1, <2>2, <1>7
<1>10. ParentsIndexed'
  <2> SUFFICES ASSUME NEW b \in Indexed', Number[b] > Number[diskHead]
               PROVE  b # Genesis /\ Parent[b] \in Indexed'
    BY Zenon, <1>1 DEF ParentsIndexed
  <2>1. b # Genesis /\ Parent[b] \in Indexed
    BY Zenon, <1>1, <1>7 DEF DepthInv, ParentsIndexed, CoreInv, UpdaterOK
  <2>2. /\ b \in Blocks /\ Number[b] = Number[Parent[b]] + 1
        /\ Number[Parent[b]] \in Nat
    BY Zenon, <2>1, <1>2, <1>7, ParentAssumption, BlocksAssumption
  <2>3. Number[Parent[b]] >= Number[diskHead]
    BY <2>2, <1>2
  <2> QED
    BY Zenon, <2>1, <2>3, <1>8
<1> QED
  BY ZenonT(30), <1>1, <1>5, <1>6, <1>9, <1>10 DEF DepthInv, ShallowReorgNeverPanics, Settled

\* DepthInv holds at the start.
LEMMA DepthInit == Init => DepthInv
<1> SUFFICES ASSUME Init PROVE DepthInv
  OBVIOUS
<1>1. Indexed = {diskHead}
  BY Zenon, BlocksAssumption DEF Init, Indexed
<1> QED
  BY Zenon, <1>1, BlocksAssumption, DepthFresh DEF Init

\* A restart keeps DepthInv.
LEMMA DepthRestart ==
    ASSUME CoreInv', Restart
    PROVE  DepthInv'
<1>1. /\ oldDiff' = NoBlock /\ latest' = NoBlock /\ pc' = "idle"
      /\ diskHead' = diskHead
      /\ views' = [b \in Blocks |-> IF b = diskHead THEN {b} ELSE {}]
  BY Zenon DEF Restart, dbVars
<1>2. diskHead' \in Blocks
  BY Zenon DEF CoreInv, TypeOK
<1>3. Indexed' = {diskHead'}
  BY Zenon, <1>1, <1>2 DEF Indexed
<1>4. /\ LatestBlock' = diskHead' /\ Number[diskHead'] \in Nat
      /\ diskHead' \in Anc[diskHead']
  BY Zenon, <1>1, <1>2, AncSelf, BlocksAssumption DEF LatestBlock
<1>5. /\ Number[diskHead'] <= Number[diskHead']
      /\ ~(Number[diskHead'] > Number[diskHead'])
      /\ Number[diskHead'] < Number[diskHead'] + DepthLimit
  BY <1>4, TreeAssumption
<1> QED
  BY ZenonT(30), <1>1, <1>3, <1>4, <1>5
  DEF DepthInv, ParentsIndexed, Settled, ShallowReorgNeverPanics

\* A reader's step leaves the tree alone.
LEMMA ReadFrame ==
    ASSUME NEW r \in Readers, Read(r)
    PROVE  UNCHANGED <<dbVars, layerVars, indexVars, updaterVars>>
BY Zenon DEF Read, LoadIndex, ReadTag, OpenDb, Fetch, Refill, RefillSkipped, CloseHandle

\* Every step keeps DepthInv.
LEMMA DepthStep ==
    ASSUME CoreInv, CoreInv', DepthInv, [Next]_vars
    PROVE  DepthInv'
<1> USE DEF dbVars, layerVars, indexVars, updaterVars
<1>1. CASE UNCHANGED vars
  BY Zenon, <1>1, DepthFrame DEF vars
<1>2. ASSUME NEW b \in Blocks, AlreadyKnown(b) \/ ParentNotFound(b)
      PROVE  DepthInv'
  BY Zenon, <1>2, DepthFrame DEF AlreadyKnown, ParentNotFound, vars
<1>3. ASSUME NEW b \in Blocks, ImportFork(b) PROVE DepthInv'
  BY Zenon, <1>3, DepthImportFork
<1>4. ASSUME NEW b \in Blocks, BeginImport(b) PROVE DepthInv'
  BY Zenon, <1>4, DepthBeginImport
<1>5. CASE CommitToDb
  BY Zenon, <1>5, DepthCommit
<1>6. CASE CommitFails \/ CommitPanics
  BY Zenon, <1>6, DepthCommitStops
<1>7. ASSUME NEW k \in Keys, WriteThrough(k) PROVE DepthInv'
  BY Zenon, <1>7, DepthFrame DEF WriteThrough
<1>8. CASE FinishCommit
  BY Zenon, <1>8, DepthFinishCommit
<1>9. CASE Publish
  BY Zenon, <1>9, DepthPublish
<1>10. ASSUME NEW r \in Readers, Read(r) PROVE DepthInv'
  BY Zenon, <1>10, ReadFrame, DepthFrame
<1>11. ASSUME NEW k \in Keys, Evict(k) PROVE DepthInv'
  BY Zenon, <1>11, DepthFrame DEF Evict
<1>12. CASE Restart
  BY Zenon, <1>12, DepthRestart
<1> QED
  BY Zenon, <1>1, <1>2, <1>3, <1>4, <1>5, <1>6, <1>7, <1>8, <1>9, <1>10, <1>11, <1>12
  DEF Next, UpdateBlock

\* Every block between the database's head and the latest one is indexed: a
\* missing one would be the parent of an indexed one.
LEMMA LatestChainIndexed ==
    ASSUME CoreInv, DepthInv
    PROVE  {diskHead} \cup Above(diskHead, LatestBlock) \subseteq Indexed
<1>1. PICK l : l = LatestBlock
  BY Zenon
<1>2. /\ l \in Blocks /\ Anc[l] \subseteq Blocks /\ l \in Anc[l]
      /\ diskHead \in Anc[l] /\ Number[diskHead] \in Nat
  BY Zenon, <1>1, ScalarTypes, DepthTypes, AncSelf DEF DepthInv
<1>3. l \in Indexed
  <2>1. CASE latest # NoBlock
    BY Zenon, <2>1, <1>1 DEF LatestBlock, CoreInv, IndexConsistent
  <2>2. CASE latest = NoBlock
    BY Zenon, <2>2, <1>1 DEF LatestBlock, CoreInv, UpdaterOK
  <2> QED
    BY <2>1, <2>2
<1>4. PICK S : S = {x \in Anc[l] : Number[diskHead] <= Number[x] /\ x \notin Indexed}
  BY Zenon
<1>5. S = {}
  <2> SUFFICES ASSUME S # {} PROVE FALSE
    OBVIOUS
  <2>0. S \in SUBSET Anc[l]
    BY Zenon, <1>4
  <2>1. PICK z \in S : \A y \in S : Number[y] <= Number[z]
    BY Zenon, <2>0, <1>2, TopIn
  <2>2. /\ z \in Anc[l] /\ z \notin Indexed /\ z # l
        /\ Number[diskHead] <= Number[z] /\ Number[z] \in Nat
    BY Zenon, <1>2, <1>3, <1>4, BlocksAssumption
  <2>3. PICK y \in Anc[l] : y # Genesis /\ Parent[y] = z
    BY Zenon, <2>2, <1>2, ChainAssumption
  <2>4. Number[y] = Number[z] + 1
    BY Zenon, <2>3, <1>2, ParentAssumption
  <2>5. /\ Number[y] > Number[diskHead] /\ Number[diskHead] <= Number[y]
        /\ ~(Number[y] <= Number[z])
    BY <2>2, <2>4, <1>2
  <2>6. y \in Indexed
    BY Zenon, <2>1, <2>3, <2>5, <1>4
  <2> QED
    BY Zenon, <2>2, <2>3, <2>5, <2>6 DEF DepthInv, ParentsIndexed
<1>6. \A x \in {diskHead} \cup Above(diskHead, l) : x \in Anc[l] /\ Number[diskHead] <= Number[x]
  BY <1>2, BlocksAssumption DEF Above
<1> QED
  BY Zenon, <1>1, <1>4, <1>5, <1>6

\* The inductive invariant of the two together.
LEMMA DepthInvariant == Spec => [](CoreInv /\ DepthInv)
<1>1. Init => CoreInv /\ DepthInv
  BY CoreInit, DepthInit
<1>2. CoreInv /\ DepthInv /\ [Next]_vars => (CoreInv /\ DepthInv)'
  BY CoreStep, DepthStep
<1> QED
  BY <1>1, <1>2, PTL DEF Spec

\* Whatever forks arrive, no commit is ever of a block that the latest one does
\* not descend from, and at rest at most DepthLimit blocks are only in memory
\* (cap_diff_to_db, the assertion of commit).
THEOREM LatestStaysAboveDisk == Spec => []LatestExtendsDisk
<1>1. CoreInv /\ DepthInv => LatestExtendsDisk
  <2> SUFFICES ASSUME CoreInv, DepthInv PROVE LatestExtendsDisk
    OBVIOUS
  <2>1. diskHead \in Anc[LatestBlock]
    BY Zenon DEF DepthInv
  <2>2. ASSUME pc = "idle" PROVE Number[LatestBlock] - Number[diskHead] <= DepthLimit
    <3>1. \/ Number[LatestBlock] < Number[diskHead] + DepthLimit
          \/ Number[LatestBlock] = Number[diskHead] + DepthLimit
      BY Zenon, <2>2 DEF DepthInv, Settled
    <3> QED
      BY <3>1, ScalarTypes, DepthTypes
  <2> QED
    BY Zenon, <2>1, <2>2 DEF LatestExtendsDisk
<1> QED
  BY <1>1, DepthInvariant, PTL

\* At rest a child of any block from the database's head up to the latest one,
\* a fork included, finds its parent in the index (clear_diff_map).
THEOREM ForkPointsStayIndexed == Spec => []ForkPointsIndexed
<1>1. CoreInv /\ DepthInv => ForkPointsIndexed
  BY Zenon, LatestChainIndexed DEF ForkPointsIndexed
<1> QED
  BY <1>1, DepthInvariant, PTL

\* The assertion of commit fires only for a block that leaves the latest chain
\* at or below the committed block, for every depth limit (commit).
THEOREM OnlyDeepReorgsPanic == Spec => []ShallowReorgNeverPanics
<1>1. CoreInv /\ DepthInv => ShallowReorgNeverPanics
  BY DEF DepthInv
<1> QED
  BY <1>1, DepthInvariant, PTL
============================================================================
