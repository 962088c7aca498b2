--------------------------- MODULE ArchiveProofs ---------------------------
(***************************************************************************)
(* Theorems about the archive, for every chain of blocks, every set of     *)
(* keys and of concurrent readers, every size of a cache entry and the     *)
(* three schemas.                                                          *)
(***************************************************************************)
EXTENDS Archive, ClearDeleted, BlockTreeTheorems, FiniteSetTheorems

----------------------------------------------------------------------------
(***************************************************************************)
(* The inductive invariant.                                                *)
(***************************************************************************)

\* Types, of the disk, of the cache and of the readers.
DiskType ==
    /\ schema \in {"legacy", "inverted", "udt"}
    /\ versions \in [Keys -> SUBSET Blocks]
    /\ numbers \in SUBSET Blocks
    /\ headers \in SUBSET Blocks
    /\ latest \in Blocks
    /\ offset \in Blocks \cup {NoBlock}
    /\ mode \in {"serving", "stopped", "reset", "trim", "accounts", "storage",
                 "numbers", "headers"}
    /\ goal \in Blocks
    /\ unfinished \in BOOLEAN

CacheType ==
    /\ advancing \in BOOLEAN
    /\ head \in Nat
    /\ spans \in [Keys -> SUBSET Span]
    /\ newest \in [Keys -> Nat]
    /\ volatile \in [Keys -> BOOLEAN]

ReaderType ==
    /\ stage \in [Readers -> {"closed", "viewed", "open", "missed", "fetched",
                              "probed"}]
    /\ block \in [Readers -> Blocks]
    /\ viewHead \in [Readers -> Nat \cup {NoView}]
    /\ snapshot \in [Readers -> [Keys -> SUBSET Blocks]]
    /\ key \in [Readers -> Keys \cup {NoBlock}]
    /\ knew \in [Readers -> [entry : BOOLEAN, newest : Nat, volatile : BOOLEAN]]
    /\ found \in [Readers -> Span]
    /\ extra \in [Readers -> [short : BOOLEAN, newest : Nat]]

TypeInv == DiskType /\ CacheType /\ ReaderType

\* Cut off above block b, the archive is the one of b.
CutAt(b) ==
    /\ \A k \in Keys : {x \in versions[k] : Number[x] <= Number[b]} = History(b, k)
    /\ {x \in numbers : Number[x] <= Number[b]} = Anc[b]
    /\ {x \in headers : Number[x] <= Number[b]} = Anc[b]

\* The disk and the progress of a rewind.
DiskOK ==
    /\ unfinished => mode # "serving"
    /\ mode \in {"trim", "accounts", "storage", "numbers", "headers"} => unfinished
    /\ mode = "reset" /\ ~unfinished => goal \in Anc[latest]
    /\ unfinished => CutAt(goal)
    /\ ~unfinished => /\ \A k \in Keys : versions[k] = History(latest, k)
                      /\ numbers = Anc[latest] /\ headers = Anc[latest]
    /\ mode = "storage" =>
          \A k \in Accounts : \A x \in versions[k] : ~RemoveRecord(x)
    /\ mode \in {"numbers", "headers"} =>
          \A k \in Keys : \A x \in versions[k] : ~RemoveRecord(x)
    /\ mode = "headers" => \A x \in numbers : ~RemoveRecord(x)

\* Span s of key k stands for a version that is there, and no other version is
\* newer and within it.
SpanRight(k, s) ==
    /\ Lo(s) <= s.hi /\ s.hi <= Number[latest]
    /\ s.val # NoBlock => s.val \in versions[k]
    /\ \A x \in versions[k] :
          Number[x] <= s.hi => s.val # NoBlock /\ Number[x] <= Number[s.val]

IsVersionOf(k, n) == n > 0 => \E x \in versions[k] : Number[x] = n

\* The cache, which lives as long as the process.
CacheOK ==
    /\ mode # "serving" => /\ ~advancing
                           /\ \A k \in Keys : spans[k] = {} /\ newest[k] = 0
                           /\ \A r \in Readers : stage[r] = "closed"
    /\ mode = "serving" => head <= Number[latest]
    /\ \A k \in Keys : IsVersionOf(k, newest[k])
    /\ \A k \in Keys : \A s \in spans[k] : SpanRight(k, s)

\* Up to the handle's block and up to its view, a snapshot is the archive.
SnapshotOK(r) ==
    \A k \in Keys :
        /\ snapshot[r][k] \subseteq versions[k]
        /\ \A x \in versions[k] :
              Number[x] <= Number[block[r]] \/ Number[x] <= viewHead[r]
                  => x \in snapshot[r][k]

ReaderOK(r) ==
    /\ stage[r] # "closed" =>
          /\ block[r] \in Anc[latest]
          /\ viewHead[r] <= Number[latest]
          /\ viewHead[r] # NoView => Number[block[r]] <= viewHead[r]
    /\ Opened(r) /\ schema # "udt" => SnapshotOK(r)
    /\ stage[r] \in {"missed", "fetched", "probed"} =>
          key[r] \in Keys /\ viewHead[r] # NoView
    /\ stage[r] = "fetched" => found[r].hi = Number[block[r]]
    /\ stage[r] \in {"fetched", "probed"} => SpanRight(key[r], found[r])
    /\ stage[r] = "probed" => IsVersionOf(key[r], extra[r].newest)

ReadersOK == \A r \in Readers : ReaderOK(r)

ArchiveInv == TypeInv /\ DiskOK /\ CacheOK /\ ReadersOK /\ OffsetNotAhead

----------------------------------------------------------------------------
(***************************************************************************)
(* Versions on a chain.                                                    *)
(***************************************************************************)

\* Numbers are numbers, and a history is a part of its chain.
LEMMA ChainFacts ==
    ASSUME NEW b \in Blocks
    PROVE  /\ Number[b] \in Nat /\ b \in Anc[b] /\ Anc[b] \subseteq Blocks
           /\ \A x \in Anc[b] : Number[x] \in Nat /\ Number[x] <= Number[b]
           /\ \A k : History(b, k) \subseteq Anc[b]
BY Zenon, AncSelf, ChainAssumption, BlocksAssumption DEF History

\* Cutting a chain at the height of one of its blocks gives that block's chain.
LEMMA ChainBelow ==
    ASSUME NEW b \in Blocks, NEW c \in Anc[b]
    PROVE  /\ {x \in Anc[b] : Number[x] <= Number[c]} = Anc[c]
           /\ \A k : {x \in History(b, k) : Number[x] <= Number[c]} = History(c, k)
<1>1. c \in Blocks /\ Anc[c] \subseteq Anc[b]
  BY ChainFacts, ChainAssumption
<1>2. \A x \in Anc[b] : Number[x] <= Number[c] <=> x \in Anc[c]
  BY <1>1, ChainFacts, ChainAssumption
<1> QED
  BY <1>1, <1>2 DEF History

\* What the seek for the greatest version at or below a height returns.
LEMMA VersionIs ==
    ASSUME NEW b \in Blocks, NEW S \in SUBSET Anc[b], NEW n \in Int, NEW v \in S,
           Number[v] <= n, \A x \in S : Number[x] <= n => Number[x] <= Number[v]
    PROVE  VersionAt(S, n) = v
<1> DEFINE T == {x \in S : Number[x] <= n}
<1>1. T \in SUBSET Anc[b] /\ v \in T /\ \A y \in T : Number[y] <= Number[v]
  OBVIOUS
<1>2. Top(T) = v
  <2> HIDE DEF T
  <2> QED BY <1>1, TopIs
<1> QED
  BY <1>1, <1>2 DEF VersionAt, Newest

\* VersionAt, on a set of blocks of one branch: the highest at or below n.
LEMMA VersionIn ==
    ASSUME NEW b \in Blocks, NEW S \in SUBSET Anc[b], NEW n \in Int
    PROVE  LET v == VersionAt(S, n)
           IN  /\ v = NoBlock => \A x \in S : ~(Number[x] <= n)
               /\ v # NoBlock => /\ v \in S /\ v \in Blocks /\ Number[v] <= n
                                 /\ \A x \in S : Number[x] <= n => Number[x] <= Number[v]
<1> DEFINE T == {x \in S : Number[x] <= n}
<1>1. T \in SUBSET Anc[b] /\ Anc[b] \subseteq Blocks
  BY ChainFacts
<1>2. CASE T = {}
  BY <1>2 DEF VersionAt, Newest
<1>3. CASE T # {}
  <2>1. Top(T) \in T /\ \A y \in T : Number[y] <= Number[Top(T)]
    <3> HIDE DEF T
    <3> QED BY <1>1, <1>3, TopIn
  <2>2. VersionAt(S, n) = Top(T)
    BY <1>3 DEF VersionAt, Newest
  <2>3. Top(T) # NoBlock
    BY <2>1, <1>1, ArchiveAssumption
  <2> QED
    BY Zenon, <2>1, <2>2, <2>3, <1>1
<1> QED
  BY Zenon, <1>2, <1>3

----------------------------------------------------------------------------
(***************************************************************************)
(* Frames.                                                                 *)
(***************************************************************************)

\* A reader that a step leaves alone, with the archive as it was.
LEMMA ReaderFrame ==
    ASSUME NEW q, ReaderOK(q), UNCHANGED <<schema, versions, latest>>,
           stage'[q] = stage[q], block'[q] = block[q], viewHead'[q] = viewHead[q],
           snapshot'[q] = snapshot[q], key'[q] = key[q], found'[q] = found[q],
           extra'[q] = extra[q]
    PROVE  ReaderOK(q)'
BY Zenon DEF ReaderOK, Opened, SnapshotOK, SpanRight, Lo, IsVersionOf

\* A closed reader promises nothing.
LEMMA ClosedReader ==
    ASSUME NEW q, stage'[q] = "closed"
    PROVE  ReaderOK(q)'
BY DEF ReaderOK, Opened

\* The cache, when neither it nor the archive changes and readers keep running
\* only in a process that serves.
LEMMA CacheFrame ==
    ASSUME CacheOK, UNCHANGED <<versions, latest, mode, advancing, cacheVars>>,
           mode = "serving" \/ UNCHANGED stage
    PROVE  CacheOK'
BY Zenon DEF CacheOK, cacheVars, SpanRight, Lo, IsVersionOf

\* The disk, when it and the rewind are left alone.
LEMMA DiskFrame ==
    ASSUME DiskOK, OffsetNotAhead, UNCHANGED <<diskVars, rewindVars>>
    PROVE  DiskOK' /\ OffsetNotAhead'
BY Zenon DEF DiskOK, OffsetNotAhead, diskVars, rewindVars, CutAt, RemoveRecord

\* A process that serves has the complete archive of its latest block.
LEMMA ServingFacts ==
    ASSUME ArchiveInv, mode = "serving"
    PROVE  /\ ~unfinished /\ latest \in Blocks /\ head <= Number[latest]
           /\ \A k \in Keys : versions[k] = History(latest, k)
           /\ \A k \in Keys : versions[k] \in SUBSET Anc[latest]
           /\ numbers = Anc[latest] /\ headers = Anc[latest]
BY Zenon DEF ArchiveInv, TypeInv, DiskType, DiskOK, CacheOK, History

\* Readers only run in a process that serves.
LEMMA ReadersServe ==
    ASSUME ArchiveInv, NEW r \in Readers, stage[r] # "closed"
    PROVE  mode = "serving"
BY DEF ArchiveInv, CacheOK

----------------------------------------------------------------------------
(***************************************************************************)
(* The initial states.                                                     *)
(***************************************************************************)

\* The empty archive satisfies the invariant.
LEMMA InitInv == Init => ArchiveInv
<1> SUFFICES ASSUME Init PROVE ArchiveInv
  OBVIOUS
<1>0. Genesis \in Blocks /\ Number[Genesis] \in Nat /\ Anc[Genesis] = {Genesis}
  BY BlocksAssumption, ParentAssumption
<1>1. TypeInv
  <2>1. DiskType
    BY Zenon, <1>0 DEF Init, DiskType, History
  <2>2. CacheType
    BY Zenon, <1>0 DEF Init, CacheType, EmptyCache, LatestNumber
  <2>3. ReaderType
    BY Zenon, <1>0 DEF Init, ReaderType, NoHandle, NoView, NoSpan, NoEntry, NoExtra, Span
  <2> QED
    BY <2>1, <2>2, <2>3 DEF TypeInv
<1>2. DiskOK /\ OffsetNotAhead
  BY Zenon, <1>0 DEF Init, DiskOK, OffsetNotAhead
<1>3. CacheOK
  BY <1>0 DEF Init, CacheOK, LatestNumber, EmptyCache, IsVersionOf
<1>4. ReadersOK
  BY Zenon DEF Init, ReadersOK, ReaderOK, NoHandle, Opened
<1> QED
  BY <1>1, <1>2, <1>3, <1>4 DEF ArchiveInv

----------------------------------------------------------------------------
(***************************************************************************)
(* Commits.                                                                *)
(***************************************************************************)

\* The batch of a block leaves every answer at or below the old head as it was.
LEMMA WriteBatchInv ==
    ASSUME ArchiveInv, NEW b \in Blocks, WriteBatch(b)
    PROVE  ArchiveInv'
<1>1. /\ mode = "serving" /\ b # Genesis /\ Parent[b] = latest
      /\ versions' = [k \in Keys |-> IF k \in Written(b)
                                     THEN Put(versions[k], b) ELSE versions[k]]
      /\ numbers' = Put(numbers, b)
      /\ headers' = headers \cup {b}
      /\ latest' = b
      /\ advancing' = TRUE
      /\ UNCHANGED <<schema, offset, rewindVars, cacheVars, readerVars>>
  BY DEF WriteBatch
<1>2. /\ ~unfinished /\ latest \in Blocks /\ head <= Number[latest]
      /\ \A k \in Keys : versions[k] = History(latest, k) /\ versions[k] \in SUBSET Anc[latest]
      /\ numbers = Anc[latest] /\ headers = Anc[latest]
  BY Zenon, <1>1, ServingFacts
<1>3. /\ Number[b] = Number[latest] + 1 /\ Anc[b] = Anc[latest] \cup {b}
      /\ \A x \in Anc[latest] : Number[x] \in Nat /\ Number[x] <= Number[latest]
      /\ Number[latest] \in Nat /\ b \notin Anc[latest] /\ latest \in Anc[latest]
  BY <1>1, <1>2, ParentAssumption, ChainFacts
<1>4. \A S \in SUBSET Anc[latest] : Put(S, b) = S \cup {b}
  BY <1>3 DEF Put
<1>5. \A k \in Keys : /\ k \in Written(b) => versions'[k] = versions[k] \cup {b}
                      /\ k \notin Written(b) => versions'[k] = versions[k]
  BY Zenon, <1>1, <1>2, <1>4
<1>6. \A k \in Keys : /\ versions[k] \subseteq versions'[k]
                      /\ \A x \in versions'[k] : x \in versions[k] \/ x = b
  BY <1>5
<1>7. TypeInv'
  <2>1. versions' \in [Keys -> SUBSET Blocks]
    <3>1. \A k \in Keys : versions'[k] \in SUBSET Blocks
      BY <1>6 DEF ArchiveInv, TypeInv, DiskType
    <3> QED
      BY <3>1, <1>1
  <2>2. numbers' \in SUBSET Blocks /\ headers' \in SUBSET Blocks
    BY <1>1, <1>2, <1>4 DEF ArchiveInv, TypeInv, DiskType
  <2>3. DiskType'
    BY Zenon, <1>1, <2>1, <2>2 DEF ArchiveInv, TypeInv, DiskType, rewindVars
  <2> QED
    BY Zenon, <1>1, <2>3 DEF ArchiveInv, TypeInv, CacheType, ReaderType, cacheVars, readerVars
<1>8. DiskOK' /\ OffsetNotAhead'
  <2>1. \A k \in Keys : versions'[k] = History(b, k)
    BY <1>2, <1>3, <1>5 DEF History
  <2>2. numbers' = Anc[b] /\ headers' = Anc[b]
    BY Zenon, <1>1, <1>2, <1>3, <1>4
  <2> QED
    BY Zenon, <1>1, <1>2, <1>3, <2>1, <2>2 DEF ArchiveInv, DiskOK, OffsetNotAhead, rewindVars
<1>9. ASSUME NEW k \in Keys, NEW s, SpanRight(k, s), s.hi \in Nat
      PROVE  SpanRight(k, s)'
  <2>1. s.hi <= Number[b] /\ ~(Number[b] <= s.hi)
    BY <1>3, <1>9 DEF SpanRight
  <2> QED
    BY Zenon, <1>1, <1>6, <1>9, <2>1 DEF SpanRight, Lo
<1>10. ASSUME NEW k \in Keys, NEW n, IsVersionOf(k, n)
       PROVE  IsVersionOf(k, n)'
  BY <1>6, <1>10 DEF IsVersionOf
<1>11. CacheOK'
  <2>1. \A k \in Keys : \A s \in spans[k] : s.hi \in Nat
    BY DEF ArchiveInv, TypeInv, CacheType, Span
  <2> QED
    BY <1>1, <1>2, <1>3, <1>9, <1>10, <2>1
    DEF ArchiveInv, CacheOK, cacheVars, rewindVars, TypeInv, CacheType
<1>12. ReadersOK'
  <2> SUFFICES ASSUME NEW r \in Readers PROVE ReaderOK(r)'
    BY DEF ReadersOK
  <2>1. ReaderOK(r) /\ found[r].hi \in Nat /\ block[r] \in Blocks
        /\ viewHead[r] \in Int
    BY DEF ArchiveInv, ReadersOK, TypeInv, ReaderType, Span, NoView
  <2>2. ASSUME SnapshotOK(r), block[r] \in Anc[latest], viewHead[r] <= Number[latest]
        PROVE  SnapshotOK(r)'
    <3>1. ~(Number[b] <= Number[block[r]]) /\ ~(Number[b] <= viewHead[r])
      BY <1>3, <2>1, <2>2
    <3> QED
      BY Zenon, <1>1, <1>6, <2>2, <3>1 DEF SnapshotOK, readerVars
  <2>3. viewHead[r] <= Number[latest] => viewHead[r] <= Number[b]
    BY <1>3, <2>1
  <2> QED
    BY Zenon, <1>1, <1>3, <1>9, <1>10, <2>1, <2>2, <2>3 DEF ReaderOK, Opened, readerVars
<1> QED
  BY <1>7, <1>8, <1>11, <1>12 DEF ArchiveInv

\* AdvanceHead raises the cache's head to the block just committed.
LEMMA AdvanceHeadInv == ArchiveInv /\ AdvanceHead => ArchiveInv'
<1> SUFFICES ASSUME ArchiveInv, AdvanceHead PROVE ArchiveInv'
  OBVIOUS
<1>1. mode = "serving"
  BY DEF AdvanceHead, ArchiveInv, CacheOK
<1>2. Number[latest] \in Nat /\ head \in Nat /\ head <= Number[latest]
  BY Zenon, <1>1, ServingFacts, ChainFacts DEF ArchiveInv, TypeInv, CacheType
<1>3. UNCHANGED <<diskVars, rewindVars, spans, newest, volatile, readerVars>>
      /\ head' = Number[latest] /\ advancing' = FALSE
  BY <1>2 DEF AdvanceHead, Max2
<1>4. TypeInv'
  BY Zenon, <1>2, <1>3
  DEF ArchiveInv, TypeInv, DiskType, CacheType, ReaderType, diskVars, rewindVars, readerVars
<1>5. DiskOK' /\ OffsetNotAhead'
  BY <1>3, DiskFrame DEF ArchiveInv
<1>6. CacheOK'
  BY <1>1, <1>2, <1>3
  DEF ArchiveInv, CacheOK, SpanRight, Lo, IsVersionOf, diskVars, rewindVars, readerVars
<1>7. ReadersOK'
  BY <1>3, ReaderFrame DEF ArchiveInv, ReadersOK, diskVars, readerVars
<1> QED
  BY <1>4, <1>5, <1>6, <1>7 DEF ArchiveInv

\* WriteOffset persists the position of the updater.
LEMMA WriteOffsetInv == ArchiveInv /\ WriteOffset => ArchiveInv'
<1> SUFFICES ASSUME ArchiveInv, WriteOffset PROVE ArchiveInv'
  OBVIOUS
<1>1. /\ mode = "serving" /\ offset' = latest
      /\ UNCHANGED <<schema, versions, numbers, headers, latest, rewindVars,
                     advancing, cacheVars, readerVars>>
  BY DEF WriteOffset
<1>2. ~unfinished /\ latest \in Blocks /\ latest \in Anc[latest]
  BY <1>1, ServingFacts, ChainFacts
<1>3. TypeInv'
  BY Zenon, <1>1, <1>2
  DEF ArchiveInv, TypeInv, DiskType, CacheType, ReaderType, rewindVars, cacheVars, readerVars
<1>4. DiskOK' /\ OffsetNotAhead'
  BY Zenon, <1>1, <1>2 DEF ArchiveInv, DiskOK, OffsetNotAhead, rewindVars, CutAt, RemoveRecord
<1>5. CacheOK'
  BY <1>1, CacheFrame DEF ArchiveInv, rewindVars
<1>6. ReadersOK'
  BY <1>1, ReaderFrame DEF ArchiveInv, ReadersOK, readerVars
<1> QED
  BY <1>3, <1>4, <1>5, <1>6 DEF ArchiveInv

----------------------------------------------------------------------------
(***************************************************************************)
(* Readers.                                                                *)
(***************************************************************************)

\* A step of reader r leaves the others alone.
OthersKeep(r) ==
    \A q \in Readers : q # r =>
        /\ stage'[q] = stage[q] /\ block'[q] = block[q] /\ viewHead'[q] = viewHead[q]
        /\ snapshot'[q] = snapshot[q] /\ key'[q] = key[q] /\ found'[q] = found[q]
        /\ extra'[q] = extra[q]

\* Of a step of reader r that leaves disk and cache alone, only the reader has to
\* be looked at.
LEMMA ReaderStep ==
    ASSUME ArchiveInv, NEW r \in Readers, mode = "serving",
           UNCHANGED <<diskVars, rewindVars, advancing, cacheVars>>,
           ReaderType', OthersKeep(r), ReaderOK(r)'
    PROVE  ArchiveInv'
<1>1. TypeInv'
  BY Zenon DEF ArchiveInv, TypeInv, DiskType, CacheType, diskVars, rewindVars, cacheVars
<1>2. DiskOK' /\ OffsetNotAhead'
  BY DiskFrame DEF ArchiveInv
<1>3. CacheOK'
  BY CacheFrame DEF ArchiveInv, diskVars, rewindVars
<1>4. ReadersOK'
  <2> SUFFICES ASSUME NEW q \in Readers, q # r PROVE ReaderOK(q)'
    BY DEF ReadersOK
  <2> QED
    BY Zenon, ReaderFrame DEF ArchiveInv, ReadersOK, OthersKeep, diskVars
<1> QED
  BY <1>1, <1>2, <1>3, <1>4 DEF ArchiveInv

\* db_at fixes the head under which a handle may use the cache.
LEMMA TakeViewInv ==
    ASSUME ArchiveInv, NEW r \in Readers, NEW b \in Blocks, TakeView(r, b)
    PROVE  ArchiveInv'
<1>1. mode = "serving"
  BY DEF TakeView
<1>2. b \in Anc[latest] /\ head \in Nat /\ head <= Number[latest]
      /\ Number[latest] \in Nat /\ Number[b] \in Nat
  BY Zenon, <1>1, ServingFacts, ChainFacts DEF TakeView, ArchiveInv, TypeInv, CacheType
<1>3. ReaderType'
  BY Zenon, <1>2 DEF TakeView, ArchiveInv, TypeInv, ReaderType
<1>4. OthersKeep(r)
  BY Zenon DEF TakeView, OthersKeep, ArchiveInv, TypeInv, ReaderType
<1>5. ReaderOK(r)'
  <2>1. stage'[r] = "viewed" /\ block'[r] = b /\ UNCHANGED latest
        /\ viewHead'[r] = IF Number[b] <= head THEN head ELSE NoView
    BY Zenon DEF TakeView, ArchiveInv, TypeInv, ReaderType, diskVars
  <2> QED
    BY <1>2, <2>1 DEF ReaderOK, Opened, NoView
<1> QED
  BY <1>1, <1>3, <1>4, <1>5, ReaderStep DEF TakeView

\* The iterators are created after the view was taken, so they see all of it.
LEMMA CreateIteratorsInv ==
    ASSUME ArchiveInv, NEW r \in Readers, CreateIterators(r)
    PROVE  ArchiveInv'
<1>1. mode = "serving"
  BY ReadersServe DEF CreateIterators
<1>2. ReaderType'
  BY Zenon DEF CreateIterators, ArchiveInv, TypeInv, ReaderType, DiskType
<1>3. OthersKeep(r)
  BY Zenon DEF CreateIterators, OthersKeep, ArchiveInv, TypeInv, ReaderType
<1>4. ReaderOK(r)'
  <2>1. /\ stage'[r] = "open" /\ stage[r] = "viewed"
        /\ UNCHANGED <<schema, versions, latest, block, viewHead>>
        /\ schema # "udt" => snapshot'[r] = versions
    BY Zenon DEF CreateIterators, ArchiveInv, TypeInv, ReaderType, diskVars
  <2>2. ReaderOK(r)
    BY DEF ArchiveInv, ReadersOK
  <2> QED
    BY Zenon, <2>1, <2>2 DEF ReaderOK, Opened, SnapshotOK
<1> QED
  BY <1>1, <1>2, <1>3, <1>4, ReaderStep DEF CreateIterators

\* A miss remembers the entry as it was.
LEMMA MissInv ==
    ASSUME ArchiveInv, NEW r \in Readers, NEW k \in Keys, Miss(r, k)
    PROVE  ArchiveInv'
<1>1. mode = "serving"
  BY Zenon, ReadersServe DEF Miss
<1>2. ReaderType'
  BY Zenon DEF Miss, ArchiveInv, TypeInv, ReaderType, CacheType
<1>3. OthersKeep(r)
  BY Zenon DEF Miss, OthersKeep, ArchiveInv, TypeInv, ReaderType
<1>4. ReaderOK(r)'
  <2>1. /\ stage'[r] = "missed" /\ stage[r] = "open" /\ key'[r] = k
        /\ viewHead[r] # NoView
        /\ UNCHANGED <<schema, versions, latest, block, viewHead, snapshot>>
    BY Zenon DEF Miss, ArchiveInv, TypeInv, ReaderType, diskVars
  <2>2. ReaderOK(r)
    BY DEF ArchiveInv, ReadersOK
  <2> QED
    BY Zenon, <2>1, <2>2 DEF ReaderOK, Opened, SnapshotOK
<1> QED
  BY Zenon, <1>1, <1>2, <1>3, <1>4, ReaderStep DEF Miss

\* Closing a reader releases its view.
LEMMA CloseInv ==
    ASSUME ArchiveInv, NEW r \in Readers, Close(r)
    PROVE  ArchiveInv'
<1>1. mode = "serving"
  BY ReadersServe DEF Close
<1>2. ReaderType'
  BY Zenon, BlocksAssumption
  DEF Close, ArchiveInv, TypeInv, ReaderType, NoView, NoEntry, NoSpan, NoExtra, Span
<1>3. OthersKeep(r)
  BY Zenon DEF Close, OthersKeep, ArchiveInv, TypeInv, ReaderType
<1>4. ReaderOK(r)'
  BY Zenon, ClosedReader DEF Close, ArchiveInv, TypeInv, ReaderType
<1> QED
  BY <1>1, <1>2, <1>3, <1>4, ReaderStep DEF Close

\* newer_version_bound: below the bound it returns, and not below the block read,
\* there is no version that is newer than the one read.
LEMMA NewerBound ==
    ASSUME NEW S \in SUBSET Blocks, NEW n \in Nat, NEW h \in Nat, n <= h
    PROVE  LET p == NewerVersionBound(S, n, h)
           IN  /\ p.next \in BOOLEAN /\ p.hi \in Nat /\ n <= p.hi /\ p.hi <= h
               /\ \A x \in S : Number[x] <= p.hi => Number[x] <= n
<1> DEFINE newer == {x \in S : Number[x] > n}
           w == Lowest(newer)
<1>0. \A x \in S : Number[x] \in Nat
  BY BlocksAssumption
<1>1. newer # {} => /\ w \in S /\ Number[w] > n
                    /\ \A x \in newer : Number[w] <= Number[x]
  <2> SUFFICES ASSUME newer # {}
               PROVE  w \in newer /\ \A x \in newer : Number[w] <= Number[x]
    OBVIOUS
  <2>1. newer \in SUBSET Blocks
    OBVIOUS
  <2> HIDE DEF newer
  <2> QED
    BY <2>1, LowestIn
<1>2. CASE newer # {} /\ Number[w] - 1 <= h
  <2>1. NewerVersionBound(S, n, h) = [hi |-> Max2(Number[w] - 1, n), next |-> TRUE]
    BY <1>2 DEF NewerVersionBound
  <2>2. Max2(Number[w] - 1, n) = Number[w] - 1
    BY <1>0, <1>1, <1>2 DEF Max2
  <2>3. \A x \in S : Number[x] <= Number[w] - 1 => Number[x] <= n
    <3>1. \A x \in S : Number[x] <= n \/ Number[w] <= Number[x]
      BY <1>0, <1>1, <1>2
    <3> HIDE DEF w
    <3> QED
      BY <1>0, <1>1, <1>2, <3>1
  <2> QED
    BY <1>0, <1>1, <1>2, <2>1, <2>2, <2>3
<1>3. CASE ~(newer # {} /\ Number[w] - 1 <= h)
  <2>1. NewerVersionBound(S, n, h) = [hi |-> h, next |-> FALSE]
    BY <1>3 DEF NewerVersionBound
  <2>2. \A x \in S : Number[x] <= h => Number[x] <= n
    BY <1>0, <1>1, <1>3
  <2> QED
    BY <2>1, <2>2
<1> QED
  BY Zenon, <1>2, <1>3

\* What a reader in the middle of a miss has.
LEMMA MissedFacts ==
    ASSUME ArchiveInv, NEW r \in Readers, stage[r] \in {"missed", "fetched", "probed"}
    PROVE  /\ mode = "serving" /\ latest \in Blocks /\ Number[latest] \in Nat
           /\ key[r] \in Keys /\ versions[key[r]] \in SUBSET Anc[latest]
           /\ block[r] \in Blocks /\ Number[block[r]] \in Nat
           /\ viewHead[r] \in Nat /\ Number[block[r]] <= viewHead[r]
           /\ viewHead[r] <= Number[latest]
           /\ found[r] \in Span
           /\ \A x \in versions[key[r]] : x \in Blocks /\ Number[x] \in Nat
<1>1. mode = "serving"
  BY ReadersServe
<1>2. ReaderOK(r) /\ stage[r] # "closed"
  BY DEF ArchiveInv, ReadersOK
<1>3. viewHead[r] \in Nat /\ block[r] \in Blocks /\ found[r] \in Span
  BY Zenon, <1>2 DEF ReaderOK, ArchiveInv, TypeInv, ReaderType
<1> QED
  BY Zenon, <1>1, <1>2, <1>3, ServingFacts, ChainFacts DEF ReaderOK

\* The version found at or below n is the answer up to hi when the versions up to
\* hi were all seen and none of them is above n.
LEMMA SpanOfRead ==
    ASSUME ArchiveInv, mode = "serving", NEW k \in Keys, NEW S \in SUBSET versions[k],
           NEW n \in Nat, NEW hi \in Nat, n <= hi, hi <= Number[latest],
           \A x \in versions[k] : Number[x] <= hi => x \in S /\ Number[x] <= n
    PROVE  /\ SpanRight(k, [val |-> VersionAt(S, n), hi |-> hi])
           /\ [val |-> VersionAt(S, n), hi |-> hi] \in Span
<1> DEFINE v == VersionAt(S, n)
<1>1. latest \in Blocks /\ S \in SUBSET Anc[latest]
  BY ServingFacts
<1>2. /\ v = NoBlock => \A x \in S : ~(Number[x] <= n)
      /\ v # NoBlock => /\ v \in S /\ v \in Blocks /\ Number[v] <= n /\ Number[v] \in Nat
                        /\ \A x \in S : Number[x] <= n => Number[x] <= Number[v]
  BY <1>1, VersionIn, BlocksAssumption
<1>3. v \in Blocks \cup {NoBlock}
  BY <1>2
<1> HIDE DEF v
<1>4. SpanRight(k, [val |-> v, hi |-> hi])
  BY <1>2 DEF SpanRight, Lo
<1> QED
  BY <1>3, <1>4 DEF v, Span

\* A reader that missed notes what it read: a span that is right and, with the
\* probe, the newest version there is.
LEMMA RecordStep ==
    ASSUME ArchiveInv, NEW r \in Readers, stage[r] \in {"missed", "fetched"},
           NEW s \in Span, SpanRight(key[r], s),
           NEW e \in [short : BOOLEAN, newest : Nat],
           NEW g \in {"fetched", "probed"},
           g = "fetched" => s.hi = Number[block[r]],
           g = "probed" => IsVersionOf(key[r], e.newest),
           stage' = [stage EXCEPT ![r] = g],
           found' = [found EXCEPT ![r] = s],
           extra' = [extra EXCEPT ![r] = e],
           UNCHANGED <<diskVars, rewindVars, advancing, cacheVars, block, viewHead,
                       snapshot, key, knew>>
    PROVE  ArchiveInv'
<1>1. /\ stage \in [Readers -> {"closed", "viewed", "open", "missed", "fetched",
                                "probed"}]
      /\ found \in [Readers -> Span]
      /\ extra \in [Readers -> [short : BOOLEAN, newest : Nat]]
  BY Zenon DEF ArchiveInv, TypeInv, ReaderType
<1>2. ReaderType'
  <2>1. /\ stage' \in [Readers -> {"closed", "viewed", "open", "missed", "fetched",
                                   "probed"}]
        /\ found' \in [Readers -> Span]
        /\ extra' \in [Readers -> [short : BOOLEAN, newest : Nat]]
    BY Zenon, <1>1
  <2> QED
    BY Zenon, <2>1 DEF ArchiveInv, TypeInv, ReaderType
<1>3. OthersKeep(r)
  BY Zenon, <1>1 DEF OthersKeep
<1>4. ReaderOK(r)'
  <2>1. stage'[r] = g /\ found'[r] = s /\ extra'[r] = e
    BY <1>1
  <2>2. UNCHANGED <<schema, versions, latest, block, viewHead, snapshot, key>>
    BY DEF diskVars
  <2>3. SpanRight(key[r], found[r])' /\ (g = "probed" => IsVersionOf(key[r], extra[r].newest)')
    BY Zenon, <2>1, <2>2 DEF SpanRight, Lo, IsVersionOf
  <2>4. ReaderOK(r)
    BY DEF ArchiveInv, ReadersOK
  <2> QED
    BY Zenon, <2>1, <2>2, <2>3, <2>4 DEF ReaderOK, Opened, SnapshotOK
<1> QED
  BY Zenon, <1>2, <1>3, <1>4, ReadersServe, ReaderStep

\* get_last_with_bound: what a seek in snapshot S reads at n, up to where it
\* knows that nothing is newer.
LEMMA SeekSpan ==
    ASSUME ArchiveInv, mode = "serving", NEW k \in Keys, NEW S \in SUBSET versions[k],
           NEW n \in Nat, NEW h \in Nat, n <= h, h <= Number[latest],
           \A x \in versions[k] : Number[x] <= h => x \in S,
           NEW p, p = NewerVersionBound(S, n, h) \/ p = [hi |-> n, next |-> FALSE]
    PROVE  /\ SpanRight(k, [val |-> VersionAt(S, n), hi |-> p.hi])
           /\ [val |-> VersionAt(S, n), hi |-> p.hi] \in Span
           /\ p.next \in BOOLEAN
<1>1. /\ S \in SUBSET Blocks /\ Number[latest] \in Nat
      /\ \A x \in versions[k] : Number[x] \in Nat
  BY Zenon, ServingFacts, ChainFacts
<1>2. /\ p.hi \in Nat /\ n <= p.hi /\ p.hi <= h /\ p.next \in BOOLEAN
      /\ \A x \in S : Number[x] <= p.hi => Number[x] <= n
  <2>1. CASE p = NewerVersionBound(S, n, h)
    BY Zenon, <1>1, <2>1, NewerBound
  <2>2. CASE p = [hi |-> n, next |-> FALSE]
    BY <2>2
  <2> QED
    BY Zenon, <2>1, <2>2
<1>3. p.hi <= Number[latest]
  BY <1>1, <1>2
<1>4. \A x \in versions[k] : Number[x] <= p.hi => x \in S /\ Number[x] <= n
  BY <1>1, <1>2
<1> QED
  BY Zenon, <1>2, <1>3, <1>4, SpanOfRead

\* A seek, at the block of the handle and on its snapshot.
LEMMA SeekInv ==
    ASSUME ArchiveInv, NEW r \in Readers, Seek(r)
    PROVE  ArchiveInv'
<1>1. stage[r] = "missed" /\ schema # "udt" /\ ReaderOK(r)
  BY Zenon DEF Seek, ArchiveInv, ReadersOK
<1>2. PICK S, n, h : S = snapshot[r][key[r]] /\ n = Number[block[r]] /\ h = viewHead[r]
  OBVIOUS
<1>3. /\ mode = "serving" /\ key[r] \in Keys
      /\ n \in Nat /\ h \in Nat /\ n <= h /\ h <= Number[latest]
  BY Zenon, <1>1, <1>2, MissedFacts
<1>4. S \in SUBSET versions[key[r]] /\ \A x \in versions[key[r]] : Number[x] <= h => x \in S
  BY Zenon, <1>1, <1>2, <1>3 DEF ReaderOK, Opened, SnapshotOK
<1>5. PICK p : /\ p = NewerVersionBound(S, n, h) \/ p = [hi |-> n, next |-> FALSE]
               /\ found' = [found EXCEPT ![r] = [val |-> VersionAt(S, n), hi |-> p.hi]]
               /\ extra' = [extra EXCEPT ![r] =
                     [short |-> p.next /\ p.hi + 1 - Lo([val |-> VersionAt(S, n), hi |-> p.hi])
                                          < VolatileSpan, newest |-> 0]]
  BY Zenon, <1>1, <1>2 DEF Seek, Source
<1>6. PICK s : s = [val |-> VersionAt(S, n), hi |-> p.hi]
  BY Zenon
<1>7. s \in Span /\ SpanRight(key[r], s) /\ p.next \in BOOLEAN
  BY Zenon, <1>3, <1>4, <1>5, <1>6, SeekSpan
<1>8. PICK e : e = [short |-> p.next /\ p.hi + 1 - Lo(s) < VolatileSpan, newest |-> 0]
  BY Zenon
<1>9. e \in [short : BOOLEAN, newest : Nat] /\ IsVersionOf(key[r], e.newest)
  BY <1>7, <1>8 DEF IsVersionOf
<1>10. /\ found' = [found EXCEPT ![r] = s] /\ extra' = [extra EXCEPT ![r] = e]
  BY Zenon, <1>5, <1>6, <1>8
<1>11. /\ stage' = [stage EXCEPT ![r] = "probed"]
       /\ UNCHANGED <<diskVars, rewindVars, advancing, cacheVars, block, viewHead,
                      snapshot, key, knew>>
  BY Zenon DEF Seek
<1> QED
  BY Zenon, <1>1, <1>7, <1>9, <1>10, <1>11, RecordStep

\* A read by user timestamp, at the block of the handle.
LEMMA GetInv ==
    ASSUME ArchiveInv, NEW r \in Readers, Get(r)
    PROVE  ArchiveInv'
<1>1. PICK s : s = [val |-> VersionAt(versions[key[r]], Number[block[r]]),
                    hi |-> Number[block[r]]]
  BY Zenon
<1>2. /\ stage[r] = "missed"
      /\ stage' = [stage EXCEPT ![r] = "fetched"]
      /\ found' = [found EXCEPT ![r] = s]
      /\ UNCHANGED <<diskVars, rewindVars, advancing, cacheVars, block, viewHead,
                     snapshot, key, knew, extra>>
  BY Zenon, <1>1 DEF Get
<1>3. PICK n : n = Number[block[r]]
  OBVIOUS
<1>4. mode = "serving" /\ key[r] \in Keys /\ n \in Nat /\ n <= Number[latest]
  BY <1>2, <1>3, MissedFacts
<1>5. s \in Span /\ SpanRight(key[r], s) /\ s.hi = n
  BY <1>1, <1>3, <1>4, SpanOfRead
<1>6. extra[r] \in [short : BOOLEAN, newest : Nat] /\ extra' = [extra EXCEPT ![r] = extra[r]]
  BY Zenon, <1>2 DEF ArchiveInv, TypeInv, ReaderType
<1> QED
  BY Zenon, <1>2, <1>3, <1>5, <1>6, RecordStep

\* udt_record: the newest version at the head is the one read, or is known to be
\* newer than it.
LEMMA UdtSpan ==
    ASSUME ArchiveInv, mode = "serving", NEW k \in Keys, NEW s \in Span, SpanRight(k, s),
           NEW h \in Nat, s.hi <= h, h <= Number[latest],
           NEW top, top = VersionAt(versions[k], h),
           NEW probes \in BOOLEAN, NEW newer \in BOOLEAN,
           newer <=> probes /\ top # NoBlock /\ (s.val = NoBlock \/ Number[top] > Lo(s)),
           NEW t, t = [s EXCEPT !.hi = IF probes /\ ~newer THEN h ELSE s.hi],
           NEW new, new = Max2(Lo(s), IF newer THEN Number[top] ELSE 0)
    PROVE  t \in Span /\ SpanRight(k, t) /\ new \in Nat /\ IsVersionOf(k, new)
<1>1. latest \in Blocks /\ versions[k] \in SUBSET Anc[latest]
  BY ServingFacts
<1>2. \A x \in versions[k] : Number[x] \in Nat
  BY <1>1, ChainFacts
<1>3. /\ top = NoBlock => \A x \in versions[k] : ~(Number[x] <= h)
      /\ top # NoBlock => /\ top \in versions[k]
                          /\ \A x \in versions[k] : Number[x] <= h => Number[x] <= Number[top]
  BY <1>1, VersionIn
<1>4. /\ Lo(s) \in Nat /\ s.hi \in Nat /\ Lo(s) <= s.hi
      /\ s.val = NoBlock => Lo(s) = 0
      /\ s.val # NoBlock => s.val \in versions[k] /\ Number[s.val] = Lo(s)
  BY Zenon, <1>2 DEF SpanRight, Lo, Span
<1>5. new \in Nat /\ IsVersionOf(k, new)
  <2>1. CASE newer
    BY <1>2, <1>3, <1>4, <2>1 DEF IsVersionOf, Max2
  <2>2. CASE ~newer
    BY <1>4, <2>2 DEF IsVersionOf, Max2
  <2> QED
    BY Zenon, <2>1, <2>2
<1>6. t.val = s.val /\ t.hi = (IF probes /\ ~newer THEN h ELSE s.hi) /\ t \in Span
  BY DEF Span
<1>7. Lo(t) = Lo(s)
  BY <1>6 DEF Lo
<1>8. CASE probes /\ ~newer
  <2>1. t.hi = h /\ Lo(t) <= h
    BY <1>4, <1>6, <1>7, <1>8
  <2>2. \A x \in versions[k] : Number[x] <= h => s.val # NoBlock /\ Number[x] <= Lo(s)
    BY <1>2, <1>3, <1>4, <1>8
  <2> QED
    BY Zenon, <1>4, <1>5, <1>6, <2>1, <2>2 DEF SpanRight
<1>9. CASE ~(probes /\ ~newer)
  BY Zenon, <1>5, <1>6, <1>7, <1>9 DEF SpanRight
<1> QED
  BY Zenon, <1>8, <1>9

\* The second read, at the head, extends the span or bounds it.
LEMMA UdtRecordInv ==
    ASSUME ArchiveInv, NEW r \in Readers, UdtRecord(r)
    PROVE  ArchiveInv'
<1>1. PICK s, top, probes :
         /\ s = found[r] /\ top = VersionAt(versions[key[r]], viewHead[r])
         /\ probes = Probes(r, s.val)
  OBVIOUS
<1>2. PICK newer : newer = (probes /\ top # NoBlock
                            /\ (s.val = NoBlock \/ Number[top] > Lo(s)))
  OBVIOUS
<1>3. probes \in BOOLEAN /\ newer \in BOOLEAN
  BY Zenon, <1>1, <1>2 DEF Probes
<1>4. PICK t, e : /\ t = [s EXCEPT !.hi = IF probes /\ ~newer THEN viewHead[r] ELSE s.hi]
                  /\ e = [short |-> newer /\ Number[top] - Lo(s) < VolatileSpan,
                          newest |-> Max2(Lo(s), IF newer THEN Number[top] ELSE 0)]
  BY Zenon
<1>5. /\ stage[r] = "fetched" /\ ReaderOK(r)
      /\ found \in [Readers -> Span]
  BY Zenon DEF UdtRecord, ArchiveInv, ReadersOK, TypeInv, ReaderType
<1>6. /\ found' = [found EXCEPT ![r].hi = IF probes /\ ~newer THEN viewHead[r] ELSE s.hi]
      /\ extra' = [extra EXCEPT ![r] = e]
      /\ stage' = [stage EXCEPT ![r] = "probed"]
      /\ UNCHANGED <<diskVars, rewindVars, advancing, cacheVars, block, viewHead,
                     snapshot, key, knew>>
  BY Zenon, <1>1, <1>2, <1>4 DEF UdtRecord
<1>7. found' = [found EXCEPT ![r] = t]
  BY Zenon, <1>1, <1>4, <1>6
<1>8. /\ mode = "serving" /\ key[r] \in Keys /\ s \in Span /\ viewHead[r] \in Nat
      /\ s.hi <= viewHead[r] /\ viewHead[r] <= Number[latest]
      /\ SpanRight(key[r], s)
  BY Zenon, <1>1, <1>5, MissedFacts DEF ReaderOK
<1>9. t \in Span /\ SpanRight(key[r], t)
      /\ e.newest \in Nat /\ IsVersionOf(key[r], e.newest)
  BY Zenon, <1>1, <1>2, <1>3, <1>4, <1>8, UdtSpan
<1>10. e \in [short : BOOLEAN, newest : Nat]
  BY <1>3, <1>4, <1>9
<1> QED
  BY Zenon, <1>5, <1>6, <1>7, <1>9, <1>10, RecordStep

\* Every span of the entry merge returns is one it was given or the union of two
\* with the same version.
LEMMA MergeFacts ==
    ASSUME NEW S \in SUBSET Span, NEW s \in Span
    PROVE  /\ Merge(S, s) \in SUBSET Span
           /\ \A t \in Merge(S, s) :
                 \/ t \in S \/ t = s
                 \/ \E u \in S : /\ u.val = s.val /\ t.val = s.val
                                 /\ t.hi = Max2(u.hi, s.hi)
<1> DEFINE same == {t \in S : t.val = s.val}
           Up(t) == [t EXCEPT !.hi = Max2(t.hi, s.hi)]
<1>1. \A t \in S : Up(t) \in Span /\ Up(t).val = t.val /\ Up(t).hi = Max2(t.hi, s.hi)
  BY DEF Max2, Span
<1>2. \A t \in Merge(S, s) : t \in S \/ t = s \/ \E u \in same : t = Up(u)
  BY DEF Merge
<1> HIDE DEF Up
<1> QED
  BY <1>1, <1>2

\* The end of a miss merges the span found into the entry.
LEMMA FoldInv ==
    ASSUME ArchiveInv, NEW r \in Readers, Fold(r)
    PROVE  ArchiveInv'
<1> DEFINE k == key[r]
           s == found[r]
           short == extra[r].short \/ volatile[k]
<1>1. /\ stage[r] = "probed" /\ ReaderOK(r)
      /\ \/ /\ spans' = [spans EXCEPT ![k] = Merge(spans[k], s)]
            /\ volatile' = [volatile EXCEPT ![k] = short]
            /\ newest' = [newest EXCEPT ![k] =
                  IF short THEN 0 ELSE Max2(newest[k], extra[r].newest)]
         \/ UNCHANGED <<spans, newest, volatile>>
      /\ stage' = [stage EXCEPT ![r] = "open"]
      /\ key' = [key EXCEPT ![r] = NoBlock]
      /\ knew' = [knew EXCEPT ![r] = NoEntry]
      /\ found' = [found EXCEPT ![r] = NoSpan]
      /\ extra' = [extra EXCEPT ![r] = NoExtra]
      /\ UNCHANGED <<diskVars, rewindVars, advancing, head, block, viewHead, snapshot>>
  BY Zenon DEF Fold, ArchiveInv, ReadersOK
<1>2. mode = "serving" /\ k \in Keys /\ s \in Span /\ Number[latest] \in Nat
      /\ \A x \in versions[k] : Number[x] \in Nat
  BY Zenon, <1>1, MissedFacts
<1>3. SpanRight(k, s) /\ IsVersionOf(k, extra[r].newest)
  BY Zenon, <1>1 DEF ReaderOK
<1>4. /\ spans \in [Keys -> SUBSET Span] /\ newest \in [Keys -> Nat]
      /\ volatile \in [Keys -> BOOLEAN] /\ short \in BOOLEAN /\ extra[r].newest \in Nat
      /\ \A q \in Keys : IsVersionOf(q, newest[q])
      /\ \A q \in Keys : \A t \in spans[q] : SpanRight(q, t)
  BY Zenon, <1>2 DEF ArchiveInv, TypeInv, CacheType, ReaderType, CacheOK
<1>5. /\ Merge(spans[k], s) \in SUBSET Span
      /\ \A t \in Merge(spans[k], s) :
            \/ t \in spans[k] \/ t = s
            \/ \E u \in spans[k] : /\ u.val = s.val /\ t.val = s.val
                                   /\ t.hi = Max2(u.hi, s.hi)
  <2> HIDE DEF k, s
  <2> QED
    BY Zenon, <1>2, <1>4, MergeFacts
<1>6. \A t \in Merge(spans[k], s) : SpanRight(k, t)
  <2> SUFFICES ASSUME NEW t \in Merge(spans[k], s) PROVE SpanRight(k, t)
    OBVIOUS
  <2>1. CASE t \in spans[k] \/ t = s
    BY Zenon, <1>2, <1>3, <1>4, <2>1
  <2>2. ASSUME NEW u \in spans[k], u.val = s.val, t.val = s.val, t.hi = Max2(u.hi, s.hi)
        PROVE  SpanRight(k, t)
    <3>1. SpanRight(k, u) /\ u.hi \in Nat /\ s.hi \in Nat
      BY <1>2, <1>4 DEF Span
    <3>2. t.hi = u.hi \/ t.hi = s.hi
      BY <2>2 DEF Max2
    <3> QED
      BY Zenon, <1>3, <2>2, <3>1, <3>2 DEF SpanRight, Lo
  <2> QED
    BY Zenon, <1>5, <2>1, <2>2
<1> DEFINE new == IF short THEN 0 ELSE Max2(newest[k], extra[r].newest)
<1>7. new \in Nat /\ IsVersionOf(k, new)
  BY <1>2, <1>3, <1>4 DEF IsVersionOf, Max2
<1> HIDE DEF new, short
<1>8. CacheType' /\ CacheOK'
  <2>1. CASE UNCHANGED <<spans, newest, volatile>>
    BY Zenon, <1>1, <1>2, <2>1
    DEF ArchiveInv, TypeInv, CacheType, CacheOK, SpanRight, Lo, IsVersionOf,
        diskVars, rewindVars
  <2>2. CASE /\ spans' = [spans EXCEPT ![k] = Merge(spans[k], s)]
             /\ volatile' = [volatile EXCEPT ![k] = short]
             /\ newest' = [newest EXCEPT ![k] = new]
    <3>1. CacheType'
      BY Zenon, <1>1, <1>2, <1>4, <1>5, <1>7, <2>2 DEF ArchiveInv, TypeInv, CacheType
    <3>2. \A q \in Keys : IsVersionOf(q, newest'[q])
      BY Zenon, <1>4, <1>7, <2>2
    <3>3. \A q \in Keys : \A t \in spans'[q] : SpanRight(q, t)
      BY Zenon, <1>4, <1>6, <2>2
    <3>4. UNCHANGED <<versions, latest, mode, head>>
      BY Zenon, <1>1 DEF diskVars, rewindVars
    <3>5. /\ \A q \in Keys : IsVersionOf(q, newest[q])'
          /\ \A q \in Keys : \A t \in spans'[q] : SpanRight(q, t)'
      BY Zenon, <3>2, <3>3, <3>4 DEF SpanRight, Lo, IsVersionOf
    <3>6. CacheOK'
      BY Zenon, <1>2, <3>4, <3>5 DEF ArchiveInv, CacheOK
    <3> QED
      BY <3>1, <3>6
  <2> QED
    BY Zenon, <1>1, <2>1, <2>2 DEF new
<1>9. ReaderType'
  BY Zenon, <1>1 DEF ArchiveInv, TypeInv, ReaderType, NoEntry, NoSpan, NoExtra, Span
<1>10. ReadersOK'
  <2> SUFFICES ASSUME NEW q \in Readers PROVE ReaderOK(q)'
    BY DEF ReadersOK
  <2>1. CASE q # r
    BY Zenon, <1>1, <2>1, ReaderFrame
    DEF ArchiveInv, ReadersOK, TypeInv, ReaderType, diskVars
  <2>2. CASE q = r
    <3>1. stage'[r] = "open" /\ UNCHANGED <<schema, versions, latest, block, viewHead, snapshot>>
      BY Zenon, <1>1 DEF ArchiveInv, TypeInv, ReaderType, diskVars
    <3> QED
      BY Zenon, <1>1, <2>2, <3>1 DEF ReaderOK, Opened, SnapshotOK
  <2> QED
    BY <2>1, <2>2
<1>11. DiskType' /\ DiskOK' /\ OffsetNotAhead'
  BY Zenon, <1>1, DiskFrame DEF ArchiveInv, TypeInv, DiskType, diskVars, rewindVars
<1> QED
  BY <1>8, <1>9, <1>10, <1>11 DEF ArchiveInv, TypeInv

\* Evicting an entry.
LEMMA EvictInv ==
    ASSUME ArchiveInv, NEW k \in Keys, Evict(k)
    PROVE  ArchiveInv'
<1>1. /\ spans' = [spans EXCEPT ![k] = {}]
      /\ newest' = [newest EXCEPT ![k] = 0]
      /\ volatile' = [volatile EXCEPT ![k] = FALSE]
      /\ UNCHANGED <<diskVars, rewindVars, advancing, head, readerVars>>
  BY DEF Evict
<1>2. CacheType'
  BY <1>1 DEF ArchiveInv, TypeInv, CacheType
<1>3. CacheOK'
  <2>1. UNCHANGED <<versions, latest, mode, advancing, head, stage>>
        /\ \A q \in Keys : /\ spans'[q] \subseteq spans[q]
                           /\ newest'[q] = newest[q] \/ newest'[q] = 0
    BY Zenon, <1>1 DEF ArchiveInv, TypeInv, CacheType, diskVars, rewindVars, readerVars
  <2> QED
    BY <2>1 DEF ArchiveInv, CacheOK, SpanRight, Lo, IsVersionOf
<1>4. DiskType' /\ DiskOK' /\ OffsetNotAhead'
  BY Zenon, <1>1, DiskFrame DEF ArchiveInv, TypeInv, DiskType, diskVars, rewindVars
<1>5. ReaderType' /\ ReadersOK'
  BY Zenon, <1>1, ReaderFrame
  DEF ArchiveInv, TypeInv, ReaderType, ReadersOK, diskVars, readerVars
<1> QED
  BY <1>2, <1>3, <1>4, <1>5 DEF ArchiveInv, TypeInv

----------------------------------------------------------------------------
(***************************************************************************)
(* Start, stop and rewind.                                                 *)
(***************************************************************************)

\* The end of the process drops the cache and the handles.
LEMMA StopInv == ArchiveInv /\ Stop => ArchiveInv'
<1> SUFFICES ASSUME ArchiveInv, Stop PROVE ArchiveInv'
  OBVIOUS
<1>1. CacheType'
  BY Zenon DEF Stop, CacheType, EmptyCache
<1>2. ReaderType' /\ \A r \in Readers : stage'[r] = "closed"
  BY Zenon, BlocksAssumption
  DEF Stop, ReaderType, NoHandle, NoView, NoSpan, NoEntry, NoExtra, Span
<1>3. DiskType' /\ DiskOK' /\ OffsetNotAhead'
  BY Zenon DEF Stop, ArchiveInv, TypeInv, DiskType, DiskOK, OffsetNotAhead, diskVars, CutAt
<1>4. CacheOK'
  BY <1>2 DEF Stop, CacheOK, EmptyCache, IsVersionOf
<1>5. ReadersOK'
  BY <1>2, ClosedReader DEF ReadersOK
<1> QED
  BY <1>1, <1>2, <1>3, <1>4, <1>5 DEF ArchiveInv, TypeInv

\* A start takes the head from the database, with an empty cache.
LEMMA StartInv == ArchiveInv /\ Start => ArchiveInv'
<1> SUFFICES ASSUME ArchiveInv, Start PROVE ArchiveInv'
  OBVIOUS
<1>1. latest \in Blocks /\ Number[latest] \in Nat /\ headers = Anc[latest]
      /\ latest \in Anc[latest]
  BY Zenon, ChainFacts DEF Start, ArchiveInv, TypeInv, DiskType, DiskOK
<1>2. head' = Number[latest]
  BY <1>1 DEF Start, LatestNumber
<1>3. TypeInv'
  BY Zenon, <1>1, <1>2
  DEF Start, ArchiveInv, TypeInv, DiskType, CacheType, ReaderType, diskVars, readerVars
<1>4. DiskOK' /\ OffsetNotAhead'
  BY Zenon DEF Start, ArchiveInv, DiskOK, OffsetNotAhead, diskVars, CutAt
<1>5. CacheOK'
  BY <1>1, <1>2
  DEF Start, ArchiveInv, CacheOK, SpanRight, Lo, IsVersionOf, diskVars, readerVars
<1>6. ReadersOK'
  BY Zenon, ReaderFrame DEF Start, ArchiveInv, ReadersOK, diskVars, readerVars
<1> QED
  BY <1>3, <1>4, <1>5, <1>6 DEF ArchiveInv

\* A step of a rewind: nothing is served, so only the disk has to be looked at.
LEMMA RewindStep ==
    ASSUME ArchiveInv, RewindOnly, mode # "serving", mode' # "serving",
           DiskType', DiskOK', OffsetNotAhead'
    PROVE  ArchiveInv'
<1>1. /\ ~advancing /\ \A k \in Keys : spans[k] = {} /\ newest[k] = 0
      /\ \A r \in Readers : stage[r] = "closed"
  BY DEF ArchiveInv, CacheOK
<1>2. CacheType' /\ ReaderType'
  BY Zenon DEF RewindOnly, ArchiveInv, TypeInv, CacheType, ReaderType, cacheVars, readerVars
<1>3. CacheOK'
  BY <1>1 DEF RewindOnly, CacheOK, cacheVars, readerVars, IsVersionOf
<1>4. ReadersOK'
  BY <1>1, ClosedReader DEF RewindOnly, ReadersOK, readerVars
<1> QED
  BY <1>2, <1>3, <1>4 DEF ArchiveInv, TypeInv

\* A later rewind after one that failed goes to a block of the chain that one kept.
LEMMA BeginRewindInv ==
    ASSUME ArchiveInv, NEW b \in Blocks, BeginRewind(b)
    PROVE  ArchiveInv'
<1>1. /\ mode = "stopped" /\ b \in numbers \cap headers /\ mode' = "reset" /\ goal' = b
      /\ unfinished => Number[b] <= Number[goal]
      /\ UNCHANGED <<versions, numbers, headers, latest, offset, unfinished>>
      /\ RewindOnly
  BY DEF BeginRewind
<1>2. DiskType'
  BY Zenon, <1>1 DEF RewindOnly, ArchiveInv, TypeInv, DiskType
<1>3. CASE unfinished
  <2>1. goal \in Blocks /\ CutAt(goal) /\ Number[b] <= Number[goal]
    BY Zenon, <1>1, <1>3 DEF ArchiveInv, TypeInv, DiskType, DiskOK
  <2>2. b \in Anc[goal] /\ Number[b] \in Nat /\ Number[goal] \in Nat
    BY Zenon, <1>1, <2>1, ChainFacts DEF CutAt
  <2>3. \A x : Number[x] \in Int /\ Number[x] <= Number[b] => Number[x] <= Number[goal]
    BY <2>1, <2>2
  <2>4. \A S \in SUBSET Blocks :
            {x \in S : Number[x] <= Number[b]}
                = {x \in {y \in S : Number[y] <= Number[goal]} : Number[x] <= Number[b]}
    BY <2>3, BlocksAssumption
  <2>5. CutAt(b)
    <3>1. /\ {x \in Anc[goal] : Number[x] <= Number[b]} = Anc[b]
          /\ \A k : {x \in History(goal, k) : Number[x] <= Number[b]} = History(b, k)
      BY Zenon, <2>1, <2>2, ChainBelow
    <3>2. \A k \in Keys : versions[k] \in SUBSET Blocks
      BY DEF ArchiveInv, TypeInv, DiskType
    <3>3. numbers \in SUBSET Blocks /\ headers \in SUBSET Blocks
      BY DEF ArchiveInv, TypeInv, DiskType
    <3> QED
      BY Zenon, <2>1, <2>4, <3>1, <3>2, <3>3 DEF CutAt
  <2>6. DiskOK' /\ OffsetNotAhead'
    BY Zenon, <1>1, <1>3, <2>5 DEF ArchiveInv, DiskOK, OffsetNotAhead, CutAt
  <2> QED
    BY <1>1, <1>2, <2>6, RewindStep
<1>4. CASE ~unfinished
  <2>1. b \in Anc[latest]
    BY Zenon, <1>1, <1>4 DEF ArchiveInv, DiskOK
  <2>2. DiskOK' /\ OffsetNotAhead'
    BY Zenon, <1>1, <1>4, <2>1 DEF ArchiveInv, DiskOK, OffsetNotAhead
  <2> QED
    BY <1>1, <1>2, <2>2, RewindStep
<1> QED
  BY Zenon, <1>3, <1>4 DEF ArchiveInv, TypeInv, DiskType

\* Before the first deletion the target is on the chain of the head.
LEMMA ResetOffsetInv == ArchiveInv /\ ResetOffset => ArchiveInv'
<1> SUFFICES ASSUME ArchiveInv, ResetOffset PROVE ArchiveInv'
  OBVIOUS
<1>1. /\ mode = "reset" /\ offset' = NoBlock /\ unfinished' = TRUE
      /\ mode' \in {"trim", "accounts"}
      /\ UNCHANGED <<versions, numbers, headers, latest, goal>> /\ RewindOnly
  BY DEF ResetOffset
<1>2. DiskType'
  BY <1>1 DEF RewindOnly, ArchiveInv, TypeInv, DiskType
<1>3. CutAt(goal)
  <2>1. CASE unfinished
    BY <2>1 DEF ArchiveInv, DiskOK
  <2>2. CASE ~unfinished
    <3>1. /\ goal \in Anc[latest] /\ latest \in Blocks
          /\ \A k \in Keys : versions[k] = History(latest, k)
          /\ numbers = Anc[latest] /\ headers = Anc[latest]
      BY Zenon, <1>1, <2>2 DEF ArchiveInv, DiskOK, TypeInv, DiskType
    <3> QED
      BY <3>1, ChainBelow DEF CutAt
  <2> QED
    BY <2>1, <2>2 DEF ArchiveInv, TypeInv, DiskType
<1>4. DiskOK' /\ OffsetNotAhead'
  BY Zenon, <1>1, <1>3 DEF DiskOK, OffsetNotAhead, CutAt
<1> QED
  BY <1>1, <1>2, <1>4, RewindStep

\* A deletion takes nothing at or below the target.
LEMMA DeleteVersionInv ==
    ASSUME ArchiveInv, NEW k \in Keys, NEW x \in Blocks, DeleteVersion(k, x)
    PROVE  ArchiveInv'
<1>1. /\ RemoveRecord(x) /\ versions' = [versions EXCEPT ![k] = @ \ {x}]
      /\ UNCHANGED <<numbers, headers, latest, offset, mode, goal, unfinished>> /\ RewindOnly
  BY DEF DeleteVersion
<1>2. mode \in {"trim", "accounts", "storage"}
  BY DEF DeleteVersion, Truncated
<1>3. unfinished /\ CutAt(goal)
  BY <1>2 DEF ArchiveInv, DiskOK
<1>4. \A q \in Keys : /\ versions'[q] \subseteq versions[q]
                      /\ \A y \in versions[q] : y \in versions'[q] \/ y = x
  BY Zenon, <1>1 DEF ArchiveInv, TypeInv, DiskType
<1>5. DiskType'
  BY Zenon, <1>1 DEF RewindOnly, ArchiveInv, TypeInv, DiskType
<1>6. ~(Number[x] <= Number[goal])
  BY <1>1, BlocksAssumption DEF RemoveRecord, ArchiveInv, TypeInv, DiskType
<1>7. CutAt(goal)'
  <2>1. \A q \in Keys : {y \in versions'[q] : Number[y] <= Number[goal]}
                            = {y \in versions[q] : Number[y] <= Number[goal]}
    BY <1>4, <1>6
  <2> QED
    BY Zenon, <1>1, <1>3, <2>1 DEF CutAt
<1>8. DiskOK' /\ OffsetNotAhead'
  BY Zenon, <1>1, <1>2, <1>3, <1>4, <1>7, ArchiveAssumption
  DEF ArchiveInv, DiskOK, OffsetNotAhead, RemoveRecord
<1> QED
  BY <1>1, <1>2, <1>5, <1>8, RewindStep

\* The rewind deletes a block from the block tables.
LEMMA DeleteBlockInv ==
    ASSUME ArchiveInv, NEW x \in Blocks, DeleteBlock(x)
    PROVE  ArchiveInv'
<1>1. /\ RemoveRecord(x) /\ mode \in {"numbers", "headers"}
      /\ numbers' \subseteq numbers /\ \A y \in numbers : y \in numbers' \/ y = x
      /\ headers' \subseteq headers /\ \A y \in headers : y \in headers' \/ y = x
      /\ UNCHANGED <<versions, latest, offset, mode, goal, unfinished>> /\ RewindOnly
  BY DEF DeleteBlock
<1>2. unfinished /\ CutAt(goal)
  BY Zenon, <1>1 DEF ArchiveInv, DiskOK
<1>3. DiskType'
  BY Zenon, <1>1 DEF RewindOnly, ArchiveInv, TypeInv, DiskType
<1>4. ~(Number[x] <= Number[goal])
  BY <1>1, BlocksAssumption DEF RemoveRecord, ArchiveInv, TypeInv, DiskType
<1>5. CutAt(goal)'
  BY Zenon, <1>1, <1>2, <1>4 DEF CutAt
<1>6. DiskOK' /\ OffsetNotAhead'
  BY Zenon, <1>1, <1>2, <1>5 DEF ArchiveInv, DiskOK, OffsetNotAhead, RemoveRecord
<1> QED
  BY <1>1, <1>3, <1>6, RewindStep

\* A table is left behind only when nothing above the target is in it.
LEMMA NextTableInv == ArchiveInv /\ NextTable => ArchiveInv'
<1> SUFFICES ASSUME ArchiveInv, NextTable PROVE ArchiveInv'
  OBVIOUS
<1>1. UNCHANGED <<versions, numbers, headers, latest, offset, goal, unfinished>> /\ RewindOnly
  BY DEF NextTable
<1>2. \/ mode = "trim" /\ mode' = "numbers"
      \/ mode = "accounts" /\ mode' = "storage"
      \/ mode = "storage" /\ mode' = "numbers"
      \/ mode = "numbers" /\ mode' = "headers"
  BY DEF NextTable
<1>3. DiskType'
  BY <1>1, <1>2 DEF RewindOnly, ArchiveInv, TypeInv, DiskType
<1>4. unfinished /\ CutAt(goal)
  BY <1>2 DEF ArchiveInv, DiskOK
<1>5. \A k \in Truncated \cap Keys : \A x \in versions[k] : ~RemoveRecord(x)
  BY Zenon DEF NextTable, ArchiveInv, TypeInv, DiskType
<1>6. /\ mode' = "storage" => \A k \in Accounts : \A x \in versions[k] : ~RemoveRecord(x)
      /\ mode' \in {"numbers", "headers"} =>
            \A k \in Keys : \A x \in versions[k] : ~RemoveRecord(x)
      /\ mode' = "headers" => \A x \in numbers : ~RemoveRecord(x)
  <2>1. CASE mode = "trim"
    BY <1>2, <1>5, <2>1 DEF Truncated
  <2>2. CASE mode = "accounts"
    BY <1>2, <1>5, <2>2, ArchiveAssumption DEF Truncated
  <2>3. CASE mode = "storage"
    BY <1>2, <1>5, <2>3 DEF Truncated, ArchiveInv, DiskOK
  <2>4. CASE mode = "numbers"
    BY Zenon, <1>2, <2>4 DEF NextTable, ArchiveInv, DiskOK
  <2> QED
    BY Zenon, <1>2, <2>1, <2>2, <2>3, <2>4
<1>7. DiskOK' /\ OffsetNotAhead'
  BY Zenon, <1>1, <1>2, <1>4, <1>6 DEF ArchiveInv, DiskOK, OffsetNotAhead, CutAt, RemoveRecord
<1> QED
  BY <1>1, <1>2, <1>3, <1>7, RewindStep

\* When the head is published, what is left is the archive of the target.
LEMMA PublishHeadInv == ArchiveInv /\ PublishHead => ArchiveInv'
<1> SUFFICES ASSUME ArchiveInv, PublishHead PROVE ArchiveInv'
  OBVIOUS
<1>1. /\ mode = "headers" /\ latest' = goal /\ mode' = "stopped" /\ unfinished' = FALSE
      /\ goal' = Genesis /\ \A x \in headers : ~RemoveRecord(x)
      /\ UNCHANGED <<versions, numbers, headers, offset>> /\ RewindOnly
  BY DEF PublishHead
<1>2. DiskType'
  BY Zenon, <1>1, BlocksAssumption DEF RewindOnly, ArchiveInv, TypeInv, DiskType
<1>3. unfinished /\ CutAt(goal) /\ offset = NoBlock
  BY Zenon, <1>1 DEF ArchiveInv, DiskOK, OffsetNotAhead
<1>4. \A x \in Blocks : ~RemoveRecord(x) => Number[x] <= Number[goal]
  BY BlocksAssumption DEF RemoveRecord, ArchiveInv, TypeInv, DiskType
<1>5. /\ \A k \in Keys : versions[k] = History(goal, k)
      /\ numbers = Anc[goal] /\ headers = Anc[goal]
  <2>1. /\ \A k \in Keys : \A x \in versions[k] : Number[x] <= Number[goal]
        /\ \A x \in numbers : Number[x] <= Number[goal]
        /\ \A x \in headers : Number[x] <= Number[goal]
    BY Zenon, <1>1, <1>4 DEF ArchiveInv, DiskOK, TypeInv, DiskType
  <2> QED
    BY Zenon, <1>3, <2>1 DEF CutAt
<1>6. DiskOK' /\ OffsetNotAhead'
  BY Zenon, <1>1, <1>3, <1>5 DEF DiskOK, OffsetNotAhead
<1> QED
  BY <1>1, <1>2, <1>6, RewindStep

\* A rewind may end anywhere.
LEMMA RewindFailsInv == ArchiveInv /\ RewindFails => ArchiveInv'
<1> SUFFICES ASSUME ArchiveInv, RewindFails PROVE ArchiveInv'
  OBVIOUS
<1>1. /\ mode # "serving" /\ mode' = "stopped"
      /\ goal' = IF unfinished THEN goal ELSE Genesis
      /\ UNCHANGED <<versions, numbers, headers, latest, offset, unfinished>> /\ RewindOnly
  BY DEF RewindFails, diskVars, RewindOnly
<1>2. DiskType'
  BY Zenon, <1>1, BlocksAssumption DEF RewindOnly, ArchiveInv, TypeInv, DiskType
<1>3. DiskOK' /\ OffsetNotAhead'
  BY Zenon, <1>1 DEF ArchiveInv, DiskOK, OffsetNotAhead, CutAt
<1> QED
  BY <1>1, <1>2, <1>3, RewindStep

----------------------------------------------------------------------------
(***************************************************************************)
(* Theorems.                                                               *)
(***************************************************************************)

\* Every step keeps the invariant.
LEMMA NextInv == ArchiveInv /\ [Next]_vars => ArchiveInv'
<1> SUFFICES ASSUME ArchiveInv, [Next]_vars PROVE ArchiveInv'
  OBVIOUS
<1>1. CASE Commit
  BY <1>1, WriteBatchInv, AdvanceHeadInv, WriteOffsetInv DEF Commit
<1>2. ASSUME NEW r \in Readers, Read(r) PROVE ArchiveInv'
  BY Zenon, <1>2, TakeViewInv, CreateIteratorsInv, MissInv, SeekInv, GetInv, UdtRecordInv,
     FoldInv, CloseInv DEF Read
<1>3. CASE (\E k \in Keys : Evict(k)) \/ Stop \/ Start
  BY <1>3, EvictInv, StopInv, StartInv
<1>4. CASE Rewind
  BY <1>4, BeginRewindInv, ResetOffsetInv, DeleteVersionInv, DeleteBlockInv,
     NextTableInv, PublishHeadInv, RewindFailsInv DEF Rewind
<1>5. CASE UNCHANGED vars
  <2>1. UNCHANGED <<diskVars, rewindVars, advancing, cacheVars, readerVars>>
    BY <1>5 DEF vars
  <2>2. TypeInv'
    BY Zenon, <2>1 DEF ArchiveInv, TypeInv, DiskType, CacheType, ReaderType, diskVars,
                rewindVars, cacheVars, readerVars
  <2>3. DiskOK' /\ OffsetNotAhead'
    BY <2>1, DiskFrame DEF ArchiveInv
  <2>4. CacheOK'
    BY <2>1, CacheFrame DEF ArchiveInv, diskVars, rewindVars, readerVars
  <2>5. ReadersOK'
    BY Zenon, <2>1, ReaderFrame DEF ArchiveInv, ReadersOK, diskVars, readerVars
  <2> QED
    BY <2>2, <2>3, <2>4, <2>5 DEF ArchiveInv
<1> QED
  BY <1>1, <1>2, <1>3, <1>4, <1>5 DEF Next

\* The archive, its cache and its readers keep the inductive invariant through any
\* interleaving of commits, reads, evictions, restarts and rewinds that fail
\* anywhere (archive/mod.rs, state_cache.rs, rewind.rs).
THEOREM ArchiveInvariant == ArchiveSpec => []ArchiveInv
<1>1. Init => ArchiveInv
  BY InitInv
<1>2. ArchiveInv /\ [Next]_vars => ArchiveInv'
  BY NextInv
<1> QED
  BY <1>1, <1>2, PTL DEF ArchiveSpec

\* A span with the version that is there and no newer one within is the answer at
\* every block it covers.
LEMMA SpanRightIsExact ==
    ASSUME ArchiveInv, mode = "serving", NEW k \in Keys, NEW s \in Span, SpanRight(k, s)
    PROVE  SpanExact(k, s)
<1>1. latest \in Blocks /\ versions[k] \in SUBSET Anc[latest]
  BY ServingFacts
<1>2. s.hi \in Nat /\ Lo(s) \in Nat /\ \A x \in Blocks : Number[x] \in Nat
  BY BlocksAssumption DEF Span, Lo
<1>3. \A x \in versions[k] : x \in Blocks
  BY <1>1, ChainFacts
<1>4. ASSUME NEW n \in Lo(s)..s.hi
      PROVE  VersionAt(versions[k], n) = s.val
  <2>1. n \in Int /\ Lo(s) <= n /\ n <= s.hi
    BY <1>2
  <2>2. CASE s.val = NoBlock
    <3>1. {x \in versions[k] : Number[x] <= n} = {}
      BY <1>2, <1>3, <2>1, <2>2 DEF SpanRight
    <3> QED
      BY <2>2, <3>1 DEF VersionAt, Newest
  <2>3. CASE s.val # NoBlock
    <3>1. s.val \in versions[k] /\ Number[s.val] <= n
      BY Zenon, <2>1, <2>3 DEF SpanRight, Lo
    <3>2. \A x \in versions[k] : Number[x] <= n => Number[x] <= Number[s.val]
      BY <1>2, <1>3, <2>1 DEF SpanRight
    <3> QED
      BY Zenon, <1>1, <2>1, <3>1, <3>2, VersionIs
  <2> QED
    BY <2>2, <2>3
<1> QED
  BY <1>4 DEF SpanExact, SpanRight

\* The invariant implies that cached spans are exact.
LEMMA InvSpansExact == ArchiveInv => SpansExact
<1> SUFFICES ASSUME ArchiveInv PROVE SpansExact
  OBVIOUS
<1>1. ASSUME NEW k \in Keys, NEW s \in spans[k] PROVE SpanExact(k, s)
  BY Zenon, SpanRightIsExact DEF ArchiveInv, CacheOK, TypeInv, CacheType
<1>2. ASSUME NEW r \in Readers, stage[r] = "probed" PROVE SpanExact(key[r], found[r])
  <2>1. mode = "serving" /\ key[r] \in Keys /\ found[r] \in Span
    BY Zenon, <1>2, MissedFacts
  <2>2. SpanRight(key[r], found[r])
    BY Zenon, <1>2 DEF ArchiveInv, ReadersOK, ReaderOK
  <2> QED
    BY <2>1, <2>2, SpanRightIsExact
<1> QED
  BY <1>1, <1>2 DEF SpansExact

\* The invariant implies that handles read their block.
LEMMA InvReadsExact == ArchiveInv => ReadsExact
<1> SUFFICES ASSUME ArchiveInv, NEW r \in Readers, NEW k \in Keys, Opened(r)
             PROVE  LET n == Number[block[r]]
                        right == Newest(History(block[r], k))
                        hits == IF viewHead[r] = NoView THEN {}
                                ELSE {s \in spans[k] : Covers(s, n)}
                    IN  /\ \A s \in hits : s.val = right
                        /\ VersionAt(Source(r)[k], n) = right
  BY Zenon DEF ReadsExact
<1> DEFINE n == Number[block[r]]
           right == Newest(History(block[r], k))
<1>1. /\ mode = "serving" /\ latest \in Blocks /\ versions[k] = History(latest, k)
      /\ block[r] \in Anc[latest] /\ ReaderOK(r)
  <2>1. stage[r] # "closed"
    BY DEF Opened
  <2> QED
    BY Zenon, <2>1, ReadersServe, ServingFacts DEF ArchiveInv, ReadersOK, ReaderOK
<1>2. {x \in versions[k] : Number[x] <= n} = History(block[r], k)
  BY <1>1, ChainBelow
<1>3. VersionAt(versions[k], n) = right
  BY <1>2 DEF VersionAt
<1>4. ASSUME NEW s \in spans[k], Covers(s, n) PROVE s.val = right
  <2>1. SpanExact(k, s) /\ s \in Span
    BY InvSpansExact DEF SpansExact, ArchiveInv, TypeInv, CacheType
  <2>2. n \in Nat /\ Lo(s) \in Nat /\ s.hi \in Nat
    BY Zenon, <1>1, <2>1, ChainFacts, BlocksAssumption DEF Span, Lo
  <2>3. n \in Lo(s)..s.hi
    BY <1>4, <2>2 DEF Covers
  <2> QED
    BY <1>3, <2>1, <2>3 DEF SpanExact
<1>5. VersionAt(Source(r)[k], n) = right
  <2>1. CASE schema = "udt"
    BY <1>3, <2>1 DEF Source
  <2>2. CASE schema # "udt"
    <3>1. SnapshotOK(r)
      BY Zenon, <1>1, <2>2 DEF ReaderOK
    <3>2. {x \in snapshot[r][k] : Number[x] <= n} = {x \in versions[k] : Number[x] <= n}
      BY <3>1 DEF SnapshotOK
    <3> QED
      BY Zenon, <1>2, <2>2, <3>2 DEF Source, VersionAt
  <2> QED
    BY <2>1, <2>2
<1> QED
  BY Zenon, <1>4, <1>5

----------------------------------------------------------------------------
(***************************************************************************)
(* The size of an entry.                                                   *)
(***************************************************************************)

SpansBounded ==
    \A k \in Keys : IsFiniteSet(spans[k]) /\ Cardinality(spans[k]) <= MaxSpans

\* merge keeps an entry within MAX_SPANS: it replaces a span, or drops the lowest
\* one when the entry is full.
LEMMA MergeBounded ==
    ASSUME NEW S \in SUBSET Span, IsFiniteSet(S), Cardinality(S) <= MaxSpans,
           NEW s \in Span
    PROVE  IsFiniteSet(Merge(S, s)) /\ Cardinality(Merge(S, s)) <= MaxSpans
<1> DEFINE same == {t \in S : t.val = s.val}
           lowest == {t \in S : \A u \in S : t.hi <= u.hi}
           Up(t) == [t EXCEPT !.hi = Max2(t.hi, s.hi)]
<1>0. Cardinality(S) \in Nat /\ MaxSpans \in Nat \ {0}
  BY FS_CardinalityType, ArchiveAssumption
<1>1. CASE same # {}
  <2> DEFINE f == [t \in S |-> IF t \in same THEN Up(t) ELSE t]
             T == {f[t] : t \in S}
  <2>1. Merge(S, s) = (S \ same) \cup {Up(t) : t \in same}
    BY <1>1 DEF Merge
  <2>2. Merge(S, s) = T
    BY <2>1
  <2>3. f \in Surjection(S, T)
    BY Zenon DEF Surjection
  <2>4. IsFiniteSet(T) /\ Cardinality(T) <= Cardinality(S)
    <3> HIDE DEF T, f
    <3> QED
      BY <2>3, FS_Surjection
  <2>5. Cardinality(T) \in Nat
    BY <2>4, FS_CardinalityType
  <2> HIDE DEF T
  <2> QED
    BY <1>0, <2>2, <2>4, <2>5
<1>2. CASE same = {} /\ Cardinality(S) = MaxSpans
  <2>1. Merge(S, s) = (S \ lowest) \cup {s}
    BY <1>2 DEF Merge
  <2>2. PICK low : low \in lowest
    <3> DEFINE D == {t.hi : t \in S}
    <3>1. S # {}
      BY <1>0, <1>2, FS_EmptySet
    <3>2. D \in SUBSET Nat /\ D # {}
      BY <3>1 DEF Span
    <3>3. PICK n \in D : \A m \in D : n <= m
      <4> HIDE DEF D
      <4> QED BY <3>2, LeastNatural
    <3>4. PICK t \in S : t.hi = n
      BY <3>3
    <3> QED
      BY <3>3, <3>4
  <2>3. IsFiniteSet(S \ {low}) /\ Cardinality(S \ {low}) = MaxSpans - 1
    BY <1>0, <1>2, <2>2, FS_RemoveElement
  <2>4. IsFiniteSet(S \ lowest) /\ Cardinality(S \ lowest) <= MaxSpans - 1
    <3>1. S \ lowest \in SUBSET (S \ {low})
      BY <2>2
    <3> HIDE DEF lowest
    <3> QED
      BY <2>3, <3>1, FS_Subset
  <2>5. Cardinality(S \ lowest) \in Nat
    BY <2>4, FS_CardinalityType
  <2>6. PICK R : R = S \ lowest
    OBVIOUS
  <2>7. IsFiniteSet(R \cup {s}) /\ Cardinality(R \cup {s}) <= MaxSpans
    <3>1. IsFiniteSet(R) /\ Cardinality(R) \in Nat /\ Cardinality(R) <= MaxSpans - 1
      BY <2>4, <2>5, <2>6
    <3> QED
      BY <1>0, <3>1, FS_AddElement
  <2> QED
    BY <2>1, <2>6, <2>7
<1>3. CASE same = {} /\ Cardinality(S) # MaxSpans
  <2>1. Merge(S, s) = S \cup {s}
    BY <1>3 DEF Merge
  <2>2. IsFiniteSet(S \cup {s}) /\ Cardinality(S \cup {s}) <= Cardinality(S) + 1
    BY <1>0, FS_AddElement
  <2>3. Cardinality(S \cup {s}) \in Nat
    BY <2>2, FS_CardinalityType
  <2> QED
    BY <1>0, <1>3, <2>1, <2>2, <2>3
<1> QED
  BY <1>1, <1>2, <1>3

\* An entry only changes by a merge, or is dropped.
LEMMA SpansMove ==
    ASSUME ArchiveInv, [Next]_vars, NEW q \in Keys
    PROVE  \/ spans'[q] = spans[q] \/ spans'[q] = {}
           \/ \E s \in Span : spans'[q] = Merge(spans[q], s)
<1>0. spans \in [Keys -> SUBSET Span]
  BY Zenon DEF ArchiveInv, TypeInv, CacheType
<1>1. ASSUME NEW r \in Readers, Fold(r)
      PROVE  \/ spans' = spans
             \/ \E s \in Span : spans' = [spans EXCEPT ![key[r]] = Merge(spans[key[r]], s)]
  <2>1. found[r] \in Span
    BY Zenon DEF ArchiveInv, TypeInv, ReaderType
  <2> QED
    BY Zenon, <1>1, <2>1 DEF Fold
<1>2. ASSUME NEW k \in Keys, Evict(k) PROVE spans' = [spans EXCEPT ![k] = {}]
  BY Zenon, <1>2 DEF Evict
<1>3. CASE Stop
  BY Zenon, <1>3 DEF Stop, EmptyCache
<1>4. CASE Commit \/ Start \/ Rewind \/ UNCHANGED vars
  <2>1. UNCHANGED spans
    BY Zenon, <1>4 DEF Commit, WriteBatch, AdvanceHead, WriteOffset, Start, Rewind,
       BeginRewind, ResetOffset, DeleteVersion, DeleteBlock, NextTable, PublishHead,
       RewindFails, RewindOnly, vars, cacheVars
  <2> QED
    BY <2>1
<1>5. ASSUME NEW r \in Readers, Read(r), ~Fold(r) PROVE UNCHANGED spans
  BY Zenon, <1>5 DEF Read, TakeView, CreateIterators, Miss, Seek, Get, UdtRecord, Close,
     cacheVars
<1> QED
  BY Zenon, <1>0, <1>1, <1>2, <1>3, <1>4, <1>5 DEF Next, Read

\* No step leaves an entry with more than MaxSpans spans.
LEMMA BoundedStep == ArchiveInv /\ SpansBounded /\ [Next]_vars => SpansBounded'
<1> SUFFICES ASSUME ArchiveInv, SpansBounded, [Next]_vars, NEW q \in Keys
             PROVE  IsFiniteSet(spans'[q]) /\ Cardinality(spans'[q]) <= MaxSpans
  BY Zenon DEF SpansBounded
<1>1. /\ spans[q] \in SUBSET Span /\ IsFiniteSet(spans[q])
      /\ Cardinality(spans[q]) <= MaxSpans
  BY DEF SpansBounded, ArchiveInv, TypeInv, CacheType
<1>2. IsFiniteSet({}) /\ Cardinality({}) <= MaxSpans
  BY FS_EmptySet, ArchiveAssumption
<1> QED
  BY Zenon, <1>1, <1>2, SpansMove, MergeBounded

----------------------------------------------------------------------------
(***************************************************************************)
(* What the runs check.                                                    *)
(***************************************************************************)

\* Every span of the cache, and every span on its way into it, is right at every
\* block it covers and no later commit makes it stale: the cache never answers
\* with a version that is not the archive's (state_cache.rs).
THEOREM CachedSpansAreExact == ArchiveSpec => []SpansExact
BY ArchiveInvariant, InvSpansExact, PTL

\* A handle opened at any block of the archive answers with that block's state, by
\* a hit and by a seek alike, whatever is committed while it is open
\* (read_account, read_storage_and_height, db_at).
THEOREM HandlesReadTheirBlock == ArchiveSpec => []ReadsExact
BY ArchiveInvariant, InvReadsExact, PTL

\* No entry outgrows MAX_SPANS, and the newest version an entry knows of is there
\* (merge, record_udt, probe).
THEOREM EntriesAreSound == ArchiveSpec => []NewestIsReal
<1>1. Init => SpansBounded
  BY FS_EmptySet, ArchiveAssumption DEF Init, EmptyCache, SpansBounded
<1>2. ArchiveInv /\ SpansBounded /\ [Next]_vars => SpansBounded'
  BY BoundedStep
<1>3. ArchiveInv /\ SpansBounded => NewestIsReal
  <2> SUFFICES ASSUME ArchiveInv, SpansBounded PROVE NewestIsReal
    OBVIOUS
  <2>1. ArchiveTypeOK
    BY Zenon DEF ArchiveInv, TypeInv, DiskType, CacheType, ReaderType, ArchiveTypeOK, SpansBounded
  <2> QED
    BY <2>1 DEF NewestIsReal, ArchiveInv, CacheOK, IsVersionOf
<1> QED
  BY <1>1, <1>2, <1>3, ArchiveInvariant, PTL DEF ArchiveSpec

\* The archive holds exactly the history of its head, and during a rewind, or after
\* one that failed, exactly that of the target up to the target (rewind_to,
\* remove_record, update_canonical_chain).
THEOREM ArchiveIsExact == ArchiveSpec => []ArchiveExact
<1>1. ArchiveInv => ArchiveExact
  BY Zenon DEF ArchiveInv, DiskOK, CutAt, ArchiveExact
<1> QED
  BY <1>1, ArchiveInvariant, PTL

\* The offset file never stands after a block the archive does not have
\* (reset_offset, commit_offset).
THEOREM OffsetIsNotAhead == ArchiveSpec => []OffsetNotAhead
<1>1. ArchiveInv => OffsetNotAhead
  BY DEF ArchiveInv
<1> QED
  BY <1>1, ArchiveInvariant, PTL

----------------------------------------------------------------------------
(***************************************************************************)
(* The repair of deleted accounts.                                         *)
(***************************************************************************)

\* The newest version at or below a block, when there is one.
LEMMA NewestIs ==
  ASSUME NEW f, NEW n \in Nat, NEW v \in 0..n, f[v] # NoVersion,
         \A b \in 0..n : f[b] # NoVersion => b <= v
  PROVE  NewestAt(f, n) = v
<1>1. PICK S : S = {b \in 0..n : f[b] # NoVersion}
  BY Zenon
<1>2. v \in S /\ (\A c \in S : c <= v) /\ S \subseteq Nat
  BY <1>1
<1>3. \A u \in S : (\A c \in S : c <= u) => u = v
  BY <1>2
<1>4. (CHOOSE b \in S : \A c \in S : c <= b) = v
  BY Zenon, <1>2, <1>3
<1>5. S # {}
  BY Zenon, <1>2
<1> QED
  BY Zenon, <1>1, <1>4, <1>5 DEF NewestAt

\* NewestAt finds the newest version, or tells that there is none.
LEMMA NewestVersion ==
  ASSUME NEW f, NEW n \in Nat
  PROVE  \/ /\ NewestAt(f, n) = -1
            /\ \A b \in 0..n : f[b] = NoVersion
         \/ /\ NewestAt(f, n) \in 0..n
            /\ f[NewestAt(f, n)] # NoVersion
            /\ \A b \in 0..n : f[b] # NoVersion => b <= NewestAt(f, n)
<1>1. CASE \A b \in 0..n : f[b] = NoVersion
  <2>1. {b \in 0..n : f[b] # NoVersion} = {}
    BY Zenon, <1>1
  <2> QED
    BY Zenon, <1>1, <2>1 DEF NewestAt
<1>2. CASE \E b \in 0..n : f[b] # NoVersion
  <2>1. PICK D : D = {m \in Nat : m <= n /\ f[n - m] # NoVersion}
    BY Zenon
  <2>2. PICK b0 \in 0..n : f[b0] # NoVersion
    BY Zenon, <1>2
  <2>3. n - b0 \in Nat /\ n - b0 <= n /\ n - (n - b0) = b0
    BY <2>2
  <2>4. n - b0 \in D
    BY Zenon, <2>1, <2>2, <2>3
  <2>5. D \in SUBSET Nat /\ D # {}
    BY Zenon, <2>1, <2>4
  <2>6. PICK m \in D : \A k \in D : m <= k
    BY Zenon, <2>5, LeastNatural
  <2>7. m \in Nat /\ m <= n /\ f[n - m] # NoVersion
    BY Zenon, <2>1, <2>6
  <2>8. n - m \in 0..n
    BY <2>7
  <2>9. ASSUME NEW b \in 0..n, f[b] # NoVersion
        PROVE  b <= n - m
    <3>1. n - b \in Nat /\ n - b <= n /\ n - (n - b) = b
      OBVIOUS
    <3>2. n - b \in D
      BY Zenon, <2>1, <2>9, <3>1
    <3>3. m <= n - b
      BY Zenon, <2>6, <3>2
    <3> QED
      BY <2>7, <3>3
  <2>10. NewestAt(f, n) = n - m
    BY Zenon, <2>7, <2>8, <2>9, NewestIs
  <2> QED
    BY Zenon, <2>7, <2>8, <2>9, <2>10
<1> QED
  BY Zenon, <1>1, <1>2

\* There is no version before block 0.
LEMMA NegativeIsNone == \A n \in Nat : \A v \in 0..n : v # -1
OBVIOUS

\* A version of the block itself is the newest, and a block without one has
\* that of the block before.
LEMMA VersionSteps ==
  ASSUME NEW f, NEW n \in Nat
  PROVE  /\ f[n] # NoVersion => NewestAt(f, n) = n
         /\ f[n] = NoVersion /\ n > 0 => NewestAt(f, n) = NewestAt(f, n - 1)
         /\ f[n] = NoVersion /\ n = 0 => NewestAt(f, n) = -1
<1>1. ASSUME f[n] # NoVersion
      PROVE  NewestAt(f, n) = n
  <2>1. n \in 0..n /\ \A b \in 0..n : b <= n
    OBVIOUS
  <2> QED
    BY Zenon, <1>1, <2>1, NewestIs
<1>2. ASSUME f[n] = NoVersion, n > 0
      PROVE  NewestAt(f, n) = NewestAt(f, n - 1)
  <2>1. n - 1 \in Nat /\ \A b : b \in 0..n <=> b = n \/ b \in 0..(n - 1)
    BY <1>2
  <2>2. \A b \in 0..n : f[b] # NoVersion => b \in 0..(n - 1)
    BY Zenon, <1>2, <2>1
  <2>3. CASE NewestAt(f, n - 1) = -1
    <3>1. \A b \in 0..(n - 1) : f[b] = NoVersion
      BY Zenon, <2>1, <2>3, NewestVersion, NegativeIsNone
    <3>2. \A b \in 0..n : f[b] = NoVersion
      BY Zenon, <2>2, <3>1
    <3> QED
      BY Zenon, <2>3, <3>2, NewestVersion
  <2>4. CASE NewestAt(f, n - 1) # -1
    <3>1. PICK v : v = NewestAt(f, n - 1)
      BY Zenon
    <3>2. /\ v \in 0..(n - 1) /\ f[v] # NoVersion
          /\ \A b \in 0..(n - 1) : f[b] # NoVersion => b <= v
      BY Zenon, <2>1, <2>4, <3>1, NewestVersion
    <3>3. v \in 0..n
      BY Zenon, <2>1, <3>2
    <3>4. NewestAt(f, n) = v
      BY Zenon, <2>2, <3>2, <3>3, NewestIs
    <3> QED
      BY Zenon, <3>1, <3>4
  <2> QED
    BY Zenon, <2>3, <2>4
<1>3. ASSUME f[n] = NoVersion, n = 0
      PROVE  NewestAt(f, n) = -1
  <2>1. \A b \in 0..n : b = n
    BY <1>3
  <2>2. \A b \in 0..n : f[b] = NoVersion
    BY Zenon, <1>3, <2>1
  <2>3. {b \in 0..n : f[b] # NoVersion} = {}
    BY Zenon, <2>2
  <2> QED
    BY Zenon, <2>3 DEF NewestAt
<1> QED
  BY Zenon, <1>1, <1>2, <1>3

\* Only the versions up to a block decide.
LEMMA VersionAgree ==
  ASSUME NEW f, NEW g, NEW n \in Nat, \A b \in 0..n : f[b] = g[b]
  PROVE  NewestAt(f, n) = NewestAt(g, n)
<1>1. CASE NewestAt(g, n) = -1
  <2>1. \A b \in 0..n : g[b] = NoVersion
    BY Zenon, <1>1, NewestVersion, NegativeIsNone
  <2>2. \A b \in 0..n : f[b] = NoVersion
    BY Zenon, <2>1
  <2> QED
    BY Zenon, <1>1, <2>2, NewestVersion
<1>2. CASE NewestAt(g, n) # -1
  <2>1. PICK v : v = NewestAt(g, n)
    BY Zenon
  <2>2. /\ v \in 0..n /\ g[v] # NoVersion
        /\ \A b \in 0..n : g[b] # NoVersion => b <= v
    BY Zenon, <1>2, <2>1, NewestVersion
  <2>3. NewestAt(f, n) = v
    BY Zenon, <2>2, NewestIs
  <2> QED
    BY Zenon, <2>1, <2>3
<1> QED
  BY Zenon, <1>1, <1>2

\* A slot reads as its version of the block, or as it did a block earlier.
LEMMA ReadSteps ==
  ASSUME ClearInv, NEW s \in Slots, NEW n \in Nat
  PROVE  /\ storage[s][n] # NoVersion => ReadSlot(s, n) = storage[s][n]
         /\ storage[s][n] = NoVersion /\ n > 0 => ReadSlot(s, n) = ReadSlot(s, n - 1)
         /\ storage[s][n] = NoVersion /\ n = 0 => ReadSlot(s, n) = 0
<1>1. n # -1
  OBVIOUS
<1> QED
  BY Zenon, <1>1, VersionSteps DEF ReadSlot

\* The account after a block is its version of the block, or the one before.
LEMMA AccountSteps ==
  ASSUME NEW n \in Nat
  PROVE  /\ account[n] # NoVersion => AccountBefore(n + 1) = account[n]
         /\ account[n] = NoVersion /\ n > 0 => AccountBefore(n + 1) = AccountBefore(n)
<1>1. n # -1 /\ (n + 1) - 1 = n
  OBVIOUS
<1> QED
  BY Zenon, <1>1, VersionSteps DEF AccountBefore

\* The bounds as numbers.
LEMMA ClearNumbers ==
  ASSUME ClearInv
  PROVE  /\ LastBlock \in Nat /\ archiveHead \in Nat /\ archiveHead <= LastBlock
         /\ scanned \in Nat /\ scanned <= archiveHead
         /\ \A n : n \in 0..archiveHead => n \in Blocks0 /\ n \in Nat
         /\ \A n : n \in 1..archiveHead => n \in Blocks0 /\ n \in Nat
         /\ \A n : n \in 0..scanned => n \in 0..archiveHead
<1>1. LastBlock \in Nat /\ archiveHead \in 0..LastBlock /\ scanned \in 0..archiveHead
  BY Zenon, ClearAssumption DEF ClearInv, ClearTypeOK, Blocks0
<1> QED
  BY <1>1 DEF Blocks0

\* What the account's versions up to a block say does not change when they do
\* not.
LEMMA PastAccount ==
  ASSUME NEW h \in Nat, upgradable' = upgradable,
         \A b \in 0..h : account'[b] = account[b]
  PROVE  /\ \A n \in 1..(h + 1) : AccountBefore(n)' = AccountBefore(n)
         /\ Deletions(h)' = Deletions(h) /\ Recreations(h)' = Recreations(h)
<1>1. ASSUME NEW n \in 1..(h + 1)
      PROVE  AccountBefore(n)' = AccountBefore(n)
  <2>1. n - 1 \in Nat /\ \A b \in 0..(n - 1) : b \in 0..h
    OBVIOUS
  <2>2. NewestAt(account', n - 1) = NewestAt(account, n - 1)
    BY Zenon, <2>1, VersionAgree
  <2>3. PICK v : v = NewestAt(account, n - 1)
    BY Zenon
  <2>4. v # -1 => v \in 0..h
    BY Zenon, <2>1, <2>3, NewestVersion
  <2>5. v # -1 => account'[v] = account[v]
    BY Zenon, <2>4
  <2>6. /\ AccountBefore(n) = IF v = -1 THEN NoAccount ELSE account[v]
        /\ AccountBefore(n)' = IF v = -1 THEN NoAccount ELSE account'[v]
    BY Zenon, <2>2, <2>3 DEF AccountBefore
  <2> QED
    BY <2>5, <2>6
<1>2. Deletions(h)' = Deletions(h)
  BY Zenon DEF Deletions
<1>3. Recreations(h)' = Recreations(h)
  <2>1. \A b \in 1..h : b \in 0..h /\ b \in 1..(h + 1)
    OBVIOUS
  <2>2. \A b \in 1..h : account'[b] = account[b] /\ AccountBefore(b)' = AccountBefore(b)
    BY Zenon, <1>1, <2>1
  <2> QED
    BY Zenon, <2>2 DEF Recreations
<1> QED
  BY Zenon, <1>1, <1>2, <1>3

\* A block counts as a recreation by its own versions only.
LEMMA RecreationsUpTo ==
  ASSUME NEW h \in Nat, NEW n \in 1..h
  PROVE  n \in Recreations(h) <=> n \in Recreations(n)
<1>1. n \in 1..n
  OBVIOUS
<1> QED
  BY Zenon, <1>1 DEF Recreations

\* The history of a slot at a block stays told by its versions while those, and
\* what it held, stay.
LEMMA HistoryStays ==
  ASSUME ClearInv, NEW s \in Slots, NEW n \in 1..archiveHead, SlotHistory(s, n),
         upgradable' = upgradable, hidden => hidden',
         \A b \in 0..n : account'[b] = account[b] /\ truth'[s][b] = truth[s][b],
         storage'[s][n] = storage[s][n]
  PROVE  SlotHistory(s, n)'
<1>1. n \in Nat /\ n \in 0..n /\ n - 1 \in 0..n /\ n + 1 \in 1..(n + 1)
  BY ClearNumbers
<1>2. AccountBefore(n + 1)' = AccountBefore(n + 1) /\ Recreations(n)' = Recreations(n)
  BY Zenon, <1>1, PastAccount
<1>3. account'[n] = account[n] /\ truth'[s][n] = truth[s][n]
      /\ truth'[s][n - 1] = truth[s][n - 1]
  BY Zenon, <1>1
<1> QED
  BY Zenon, <1>2, <1>3 DEF SlotHistory

\* What is left to zero among the first blocks depends on their versions only.
LEMMA ToZeroStays ==
  ASSUME NEW h \in Nat, upgradable' = upgradable,
         \A b \in 0..h : account'[b] = account[b],
         \A s \in Slots : \A b \in 0..h : storage'[s][b] = storage[s][b]
  PROVE  ToZero(h)' = ToZero(h)
<1>1. Deletions(h)' = Deletions(h) /\ Recreations(h)' = Recreations(h)
  BY Zenon, PastAccount
<1>2. ASSUME NEW s \in Slots, NEW a \in Deletions(h) \cup Recreations(h)
      PROVE  /\ NewestAt(storage'[s], a) = NewestAt(storage[s], a)
             /\ NewestAt(storage[s], a) # -1 =>
                   storage'[s][NewestAt(storage[s], a)]
                      = storage[s][NewestAt(storage[s], a)]
  <2>1. a \in Nat /\ \A b \in 0..a : b \in 0..h
    BY DEF Deletions, Recreations
  <2>2. \A b \in 0..a : storage'[s][b] = storage[s][b]
    BY Zenon, <2>1
  <2> QED
    BY Zenon, <2>1, <2>2, VersionAgree, NewestVersion
<1> DEFINE Z == [slot : Slots, at : Deletions(h) \cup Recreations(h)]
<1>3. \A z \in Z : z.slot \in Slots /\ z.at \in Deletions(h) \cup Recreations(h)
  OBVIOUS
<1>4. ASSUME NEW z \in Z
      PROVE  (/\ NewestAt(storage'[z.slot], z.at) # -1
              /\ z.at \in Recreations(h) => NewestAt(storage'[z.slot], z.at) # z.at
              /\ storage'[z.slot][NewestAt(storage'[z.slot], z.at)] # 0)
          <=> (/\ NewestAt(storage[z.slot], z.at) # -1
               /\ z.at \in Recreations(h) => NewestAt(storage[z.slot], z.at) # z.at
               /\ storage[z.slot][NewestAt(storage[z.slot], z.at)] # 0)
  <2>1. PICK v : v = NewestAt(storage[z.slot], z.at)
    BY Zenon
  <2>2. NewestAt(storage'[z.slot], z.at) = v
    BY Zenon, <1>2, <1>3, <2>1
  <2>3. v # -1 => storage'[z.slot][v] = storage[z.slot][v]
    BY Zenon, <1>2, <1>3, <2>1
  <2> QED
    BY Zenon, <2>1, <2>2, <2>3
<1> QED
  BY Zenon, <1>1, <1>4 DEF ToZero

\* What a member of ToZero is.
LEMMA ToZeroIs ==
  ASSUME NEW h \in Nat, NEW z
  PROVE  z \in ToZero(h) <=>
            /\ z \in [slot : Slots, at : Deletions(h) \cup Recreations(h)]
            /\ NewestAt(storage[z.slot], z.at) # -1
            /\ z.at \in Recreations(h) => NewestAt(storage[z.slot], z.at) # z.at
            /\ storage[z.slot][NewestAt(storage[z.slot], z.at)] # 0
BY Zenon DEF ToZero

\* The account before a block is deleted, absent or an incarnation.
LEMMA AccountBeforeType ==
  ASSUME ClearInv, NEW n \in 1..(archiveHead + 1)
  PROVE  AccountBefore(n) \in [code : Codes, nonce : Nonces] \cup {NoAccount}
<1>1. n - 1 \in Nat /\ \A b \in 0..(n - 1) : b \in Blocks0
  BY ClearNumbers DEF Blocks0
<1>2. PICK v : v = NewestAt(account, n - 1)
  BY Zenon
<1>3. v # -1 => v \in Blocks0 /\ account[v] # NoVersion
  BY Zenon, <1>1, <1>2, NewestVersion
<1>4. v # -1 => account[v] \in [code : Codes, nonce : Nonces] \cup {NoAccount}
  BY Zenon, <1>3 DEF ClearInv, ClearTypeOK
<1>5. AccountBefore(n) = IF v = -1 THEN NoAccount ELSE account[v]
  BY Zenon, <1>2 DEF AccountBefore
<1> QED
  BY <1>4, <1>5

\* What a block may do to the contract, case by case.
LEMMA FateCases ==
  ASSUME NEW old, NEW n, NEW to, NEW gone,
         [to |-> to, gone |-> gone] \in Fates(old, n)
  PROVE  \/ gone = FALSE /\ to = NoVersion
         \/ old = NoAccount /\ gone = TRUE /\ to # NoVersion
         \/ /\ old # NoAccount /\ gone = FALSE
            /\ to \in [code : Codes, nonce : Nonces]
            /\ to.nonce >= old.nonce /\ (to.code = old.code \/ upgradable)
         \/ /\ old # NoAccount /\ gone = TRUE /\ to # NoVersion
            /\ n < Before /\ ~upgradable
<1> DEFINE fate == [to |-> to, gone |-> gone]
           live == [code : Codes, nonce : Nonces]
           kept == {[to |-> NoVersion, gone |-> FALSE]}
           changed == {[to |-> a, gone |-> FALSE] :
                          a \in {l \in live : /\ l.nonce >= old.nonce
                                              /\ l.code = old.code \/ upgradable}}
           destroyed == {[to |-> NoAccount, gone |-> TRUE]}
           recreated == {[to |-> a, gone |-> TRUE] : a \in live}
<1>0. fate.to = to /\ fate.gone = gone
  OBVIOUS
<1>1. ASSUME fate \in kept
      PROVE  gone = FALSE /\ to = NoVersion
  BY <1>1
<1>2. ASSUME fate \in changed
      PROVE  /\ gone = FALSE /\ to \in live
             /\ to.nonce >= old.nonce /\ (to.code = old.code \/ upgradable)
  <2>1. PICK a \in {l \in live : /\ l.nonce >= old.nonce
                                 /\ l.code = old.code \/ upgradable} :
           fate = [to |-> a, gone |-> FALSE]
    BY Zenon, <1>2
  <2>2. to = a /\ gone = FALSE
    BY <2>1
  <2> QED
    BY Zenon, <2>1, <2>2
<1>3. ASSUME fate \in destroyed \cup recreated
      PROVE  gone = TRUE /\ to # NoVersion
  BY <1>3, ClearAssumption
<1>4. \/ old = NoAccount /\ fate \in kept \cup recreated \cup destroyed
      \/ old # NoAccount /\ n < Before /\ ~upgradable
           /\ fate \in kept \cup changed \cup destroyed \cup recreated
      \/ old # NoAccount /\ fate \in kept \cup changed
  BY Zenon DEF Fates
<1> HIDE DEF fate, kept, changed, destroyed, recreated
<1> QED
  BY Zenon, <1>1, <1>2, <1>3, <1>4

\* A block extends the history and leaves what a plan speaks of alone.
LEMMA ImportKeeps ==
  ASSUME ClearInv,
         NEW to \in [code : Codes, nonce : Nonces] \cup {NoVersion, NoAccount},
         NEW gone \in BOOLEAN, NEW w \in [Slots -> Values \cup {0, NoVersion}],
         Import([to |-> to, gone |-> gone], w)
  PROVE  ClearInv'
<1> DEFINE live == [code : Codes, nonce : Nonces]
<1>1. PICK n : n = archiveHead + 1
  BY Zenon
<1>2. PICK old : old = AccountBefore(n)
  BY Zenon
<1>3. PICK dead \in BOOLEAN :
         dead = (IF to = NoVersion THEN old = NoAccount ELSE to = NoAccount)
  BY Zenon
<1>4. [to |-> to, gone |-> gone].to = to /\ [to |-> to, gone |-> gone].gone = gone
  BY Zenon
<1>5. /\ n <= LastBlock /\ step # "applying"
      /\ [to |-> to, gone |-> gone] \in Fates(old, n)
      /\ (old = NoAccount /\ to = NoVersion) => \A s \in Slots : w[s] = NoVersion
      /\ archiveHead' = n
      /\ account' = [account EXCEPT ![n] = to]
      /\ storage' = [s \in Slots |-> [storage[s] EXCEPT ![n] = w[s]]]
      /\ truth' = [s \in Slots |-> [truth[s] EXCEPT ![n] =
                      IF dead THEN 0
                      ELSE IF w[s] # NoVersion THEN w[s]
                      ELSE IF gone THEN 0 ELSE truth[s][n - 1]]]
      /\ hidden' = (hidden \/ /\ gone /\ old # NoAccount /\ to # NoAccount
                              /\ to.code = old.code /\ to.nonce >= old.nonce)
      /\ UNCHANGED <<upgradable, step, scanned, plan, chunks>>
  BY Zenon, <1>1, <1>2, <1>3, <1>4 DEF Import
<1>6. /\ n \in Nat /\ n > 0 /\ n \in Blocks0 /\ n - 1 = archiveHead /\ n - 1 \in Nat
      /\ n + 1 \in Nat /\ n \in 1..(archiveHead + 1)
      /\ \A b \in 0..archiveHead : b # n /\ b \in Blocks0
      /\ \A b \in 1..n : b = n \/ b \in 1..archiveHead
      /\ 0 # n /\ scanned \in 0..n /\ n - 1 \in Blocks0
  <2>1. n <= LastBlock
    BY Zenon, <1>5
  <2> QED
    BY <1>1, <2>1, ClearNumbers DEF Blocks0
<1>7. /\ account \in [Blocks0 -> live \cup {NoVersion, NoAccount}]
      /\ storage \in [Slots -> [Blocks0 -> Values \cup {0, NoVersion}]]
      /\ truth \in [Slots -> [Blocks0 -> Values \cup {0}]]
  BY Zenon DEF ClearInv, ClearTypeOK
<1>8. ASSUME NEW s \in Slots
      PROVE  /\ storage'[s] = [storage[s] EXCEPT ![n] = w[s]]
             /\ storage'[s][n] = w[s]
             /\ storage'[s] \in [Blocks0 -> Values \cup {0, NoVersion}]
             /\ \A b \in 0..archiveHead : storage'[s][b] = storage[s][b]
             /\ truth'[s][n] = (IF dead THEN 0
                                ELSE IF w[s] # NoVersion THEN w[s]
                                ELSE IF gone THEN 0 ELSE truth[s][n - 1])
             /\ truth'[s] \in [Blocks0 -> Values \cup {0}]
             /\ \A b \in 0..archiveHead : truth'[s][b] = truth[s][b]
             /\ truth[s][n - 1] \in Values \cup {0}
  <2>1. /\ storage[s] \in [Blocks0 -> Values \cup {0, NoVersion}]
        /\ truth[s] \in [Blocks0 -> Values \cup {0}]
        /\ w[s] \in Values \cup {0, NoVersion} /\ truth[s][n - 1] \in Values \cup {0}
    BY Zenon, <1>6, <1>7
  <2>2. PICK t : t = (IF dead THEN 0
                      ELSE IF w[s] # NoVersion THEN w[s]
                      ELSE IF gone THEN 0 ELSE truth[s][n - 1])
    BY Zenon
  <2>3. t \in Values \cup {0}
    BY <2>1, <2>2
  <2>4. /\ storage'[s] = [storage[s] EXCEPT ![n] = w[s]]
        /\ truth'[s] = [truth[s] EXCEPT ![n] = t]
    BY Zenon, <1>5, <2>2
  <2>5. /\ storage'[s] \in [Blocks0 -> Values \cup {0, NoVersion}]
        /\ storage'[s][n] = w[s]
        /\ \A b \in 0..archiveHead : storage'[s][b] = storage[s][b]
    BY Zenon, <1>6, <2>1, <2>4
  <2>6. /\ truth'[s] \in [Blocks0 -> Values \cup {0}] /\ truth'[s][n] = t
        /\ \A b \in 0..archiveHead : truth'[s][b] = truth[s][b]
    BY Zenon, <1>6, <2>1, <2>3, <2>4
  <2> QED
    BY Zenon, <2>1, <2>2, <2>4, <2>5, <2>6
<1>8a. \A s \in Slots : \A b \in 0..archiveHead :
          storage'[s][b] = storage[s][b] /\ truth'[s][b] = truth[s][b]
  BY Zenon, <1>8
<1>9. /\ account' \in [Blocks0 -> live \cup {NoVersion, NoAccount}]
      /\ account'[n] = to /\ \A b \in 0..archiveHead : account'[b] = account[b]
  BY Zenon, <1>5, <1>6, <1>7
<1>10. ClearTypeOK'
  <2>1. /\ storage' \in [Slots -> [Blocks0 -> Values \cup {0, NoVersion}]]
        /\ truth' \in [Slots -> [Blocks0 -> Values \cup {0}]]
    <3>1. /\ storage' = [s \in Slots |-> storage'[s]]
          /\ truth' = [s \in Slots |-> truth'[s]]
      BY Zenon, <1>5
    <3> QED
      BY Zenon, <1>8, <3>1
  <2>2. hidden' \in BOOLEAN
    BY Zenon, <1>5
  <2> QED
    BY Zenon, <1>5, <1>6, <1>9, <2>1, <2>2 DEF ClearInv, ClearTypeOK
<1>11. /\ old \in live \cup {NoAccount}
       /\ AccountBefore(n)' = old
       /\ AccountBefore(n + 1)' = IF to = NoVersion THEN old ELSE to
  <2>1. old \in live \cup {NoAccount}
    BY Zenon, <1>2, <1>6, AccountBeforeType
  <2>2. AccountBefore(n)' = old
    <3>1. archiveHead \in Nat
      BY Zenon, ClearNumbers
    <3> QED
      BY Zenon, <1>2, <1>5, <1>6, <1>9, <3>1, PastAccount
  <2>3. /\ account'[n] # NoVersion => AccountBefore(n + 1)' = account'[n]
        /\ account'[n] = NoVersion => AccountBefore(n + 1)' = AccountBefore(n)'
    <3>1. n # -1 /\ (n + 1) - 1 = n
      BY <1>6
    <3>2. /\ account'[n] # NoVersion => NewestAt(account', n) = n
          /\ account'[n] = NoVersion
                => NewestAt(account', n) = NewestAt(account', n - 1)
      BY Zenon, <1>6, VersionSteps
    <3> QED
      BY Zenon, <3>1, <3>2 DEF AccountBefore
  <2> QED
    BY <1>9, <2>1, <2>2, <2>3
<1>12. HistoryInv'
  <2>1. ASSUME NEW s \in Slots, NEW m \in 1..archiveHead
        PROVE  SlotHistory(s, m)'
    <3>1. SlotHistory(s, m)
      BY Zenon DEF ClearInv, HistoryInv
    <3>2. m \in 0..archiveHead /\ \A b \in 0..m : b \in 0..archiveHead
      BY ClearNumbers
    <3>3. hidden => hidden'
      BY Zenon, <1>5
    <3>4. /\ \A b \in 0..m : /\ account'[b] = account[b]
                              /\ truth'[s][b] = truth[s][b]
          /\ storage'[s][m] = storage[s][m]
      BY Zenon, <1>9, <1>8a, <3>2
    <3>5. upgradable' = upgradable
      BY Zenon, <1>5
    <3> QED
      BY Zenon, <3>1, <3>3, <3>4, <3>5, HistoryStays
  <2>2. ASSUME NEW s \in Slots
        PROVE  SlotHistory(s, n)'
    <3>1. PICK A : A = AccountBefore(n + 1)'
      BY Zenon
    <3>2. dead <=> A = NoAccount
      BY <1>3, <1>11, <3>1, ClearAssumption
    <3>3. n \in Recreations(n)' <=>
             /\ to \notin {NoVersion, NoAccount} /\ old # NoAccount
             /\ n < Before /\ ~upgradable
             /\ to.code # old.code \/ to.nonce < old.nonce
      <4>1. n \in 1..n
        BY <1>6
      <4> QED
        BY Zenon, <1>5, <1>9, <1>11, <4>1 DEF Recreations
    <3>4. \/ gone = FALSE /\ to = NoVersion
          \/ old = NoAccount /\ gone = TRUE /\ to # NoVersion
          \/ /\ old # NoAccount /\ gone = FALSE /\ to \in live
             /\ to.nonce >= old.nonce /\ (to.code = old.code \/ upgradable)
          \/ /\ old # NoAccount /\ gone = TRUE /\ to # NoVersion
             /\ n < Before /\ ~upgradable
      <4>1. [to |-> to, gone |-> gone] \in Fates(old, n)
        BY Zenon, <1>5
      <4> QED
        BY Zenon, <4>1, FateCases
    <3>5. /\ to \notin {NoVersion, NoAccount} => to.nonce \in Nat
          /\ old # NoAccount => old.nonce \in Nat
      <4>1. /\ to \notin {NoVersion, NoAccount} => to \in live
            /\ old # NoAccount => old \in live
        BY Zenon, <1>11
      <4> QED
        BY <4>1, ClearAssumption
    <3>6. n \in Recreations(n)' => gone = TRUE
      BY <3>3, <3>4, <3>5
    <3>7. A # NoAccount /\ ~hidden' /\ n \notin Recreations(n)' /\ gone = TRUE
             => old = NoAccount
      <4> SUFFICES ASSUME A # NoAccount, ~hidden', n \notin Recreations(n)',
                          gone = TRUE, old # NoAccount
                   PROVE  FALSE
        BY Zenon
      <4>1. to \notin {NoVersion, NoAccount}
        BY <1>11, <3>1, <3>4
      <4>2. n < Before /\ ~upgradable
        BY Zenon, <3>4
      <4>3. ~(to.code = old.code /\ to.nonce >= old.nonce)
        BY <1>5, <4>1
      <4> QED
        BY <3>3, <3>5, <4>1, <4>2, <4>3
    <3>8. old = NoAccount => truth[s][n - 1] = 0
      <4>1. CASE n - 1 = 0
        BY Zenon, <4>1 DEF ClearInv, HistoryInv
      <4>2. CASE n - 1 # 0
        <5>1. n - 1 \in 1..archiveHead /\ (n - 1) + 1 = n
          BY <1>6, <4>2
        <5>2. SlotHistory(s, n - 1)
          BY Zenon, <5>1 DEF ClearInv, HistoryInv
        <5> QED
          BY Zenon, <1>2, <5>1, <5>2 DEF SlotHistory
      <4> QED
        BY Zenon, <4>1, <4>2
    <3>9. /\ truth'[s][n] = (IF dead THEN 0
                             ELSE IF w[s] # NoVersion THEN w[s]
                             ELSE IF gone THEN 0 ELSE truth[s][n - 1])
          /\ storage'[s][n] = w[s] /\ account'[n] = to
          /\ truth'[s][n - 1] = truth[s][n - 1]
      <4>1. n - 1 \in 0..archiveHead
        BY <1>6, ClearNumbers
      <4> QED
        BY Zenon, <1>8, <1>9, <4>1
    <3>10. A = NoAccount => truth'[s][n] = 0
      BY <3>2, <3>9
    <3>11. ASSUME w[s] # NoVersion
           PROVE  IF A # NoAccount THEN truth'[s][n] = w[s] ELSE to = NoAccount
      <4>1. CASE A # NoAccount
        BY <3>2, <3>9, <3>11, <4>1
      <4>2. CASE A = NoAccount
        BY <1>5, <1>11, <3>1, <3>11, <4>2
      <4> QED
        BY Zenon, <4>1, <4>2
    <3>12. ASSUME w[s] = NoVersion
           PROVE  /\ truth'[s][n] \in {0, truth[s][n - 1]}
                  /\ n \in Recreations(n)' => truth'[s][n] = 0
                  /\ (~hidden' /\ n \notin Recreations(n)' /\ A # NoAccount)
                        => truth'[s][n] = truth[s][n - 1]
      <4>1. truth'[s][n] \in {0, truth[s][n - 1]}
        BY <3>9, <3>12
      <4>2. gone = TRUE => truth'[s][n] = 0
        BY <3>9, <3>12
      <4>3. (A # NoAccount /\ gone = FALSE) => truth'[s][n] = truth[s][n - 1]
        BY <3>2, <3>9, <3>12
      <4>4. gone = TRUE \/ gone = FALSE
        BY Zenon
      <4> QED
        BY Zenon, <3>6, <3>7, <3>8, <4>1, <4>2, <4>3, <4>4
    <3> QED
      BY Zenon, <3>1, <3>9, <3>10, <3>11, <3>12 DEF SlotHistory
  <2>3. \A s \in Slots : storage'[s][0] = NoVersion /\ truth'[s][0] = 0
    <3>1. 0 \in 0..archiveHead
      BY ClearNumbers
    <3> QED
      BY Zenon, <1>8a, <3>1 DEF ClearInv, HistoryInv
  <2>4. account'[0] = NoVersion
    <3>1. 0 \in 0..archiveHead
      BY ClearNumbers
    <3> QED
      BY Zenon, <1>9, <3>1 DEF ClearInv, HistoryInv
  <2> QED
    BY Zenon, <1>5, <1>6, <2>1, <2>2, <2>3, <2>4 DEF HistoryInv
<1>13. PlanInv'
  <2>1. scanned \in Nat /\ \A b \in 0..scanned : b \in 0..archiveHead
    BY Zenon, ClearNumbers
  <2>2. /\ ToZero(scanned)' = ToZero(scanned)
        /\ Deletions(scanned)' = Deletions(scanned)
        /\ Recreations(scanned)' = Recreations(scanned)
    <3>1. /\ \A b \in 0..scanned : account'[b] = account[b]
          /\ \A s \in Slots : \A b \in 0..scanned : storage'[s][b] = storage[s][b]
      BY Zenon, <1>8a, <1>9, <2>1
    <3>2. PICK h \in Nat : h = scanned
      BY Zenon, <2>1
    <3>3. ToZero(h)' = ToZero(h) /\ Deletions(h)' = Deletions(h)
             /\ Recreations(h)' = Recreations(h)
      BY Zenon, <1>5, <3>1, <3>2, ToZeroStays, PastAccount
    <3> QED
      BY Zenon, <1>5, <3>2, <3>3 DEF ToZero, Deletions, Recreations
  <2>3. \A z \in plan : z.slot \in Slots /\ z.at \in 0..archiveHead
    <3>1. \A z \in plan : z \in [slot : Slots, at : 0..scanned]
      BY Zenon DEF ClearInv, ClearTypeOK
    <3>2. \A z \in plan : z.slot \in Slots /\ z.at \in 0..scanned
      BY <3>1
    <3> QED
      BY Zenon, <2>1, <3>2
  <2>4. \A z \in plan : /\ truth'[z.slot][z.at] = truth[z.slot][z.at]
                        /\ storage'[z.slot][z.at] = storage[z.slot][z.at]
    BY Zenon, <1>8a, <2>3
  <2> QED
    BY Zenon, <1>5, <2>2, <2>4 DEF ClearInv, PlanInv
<1> QED
  BY Zenon, <1>10, <1>12, <1>13 DEF ClearInv

\* A block whose account or storage a plan speaks of is a deletion, at whose
\* end the contract is gone, or a recreation, at whose end it lives.
LEMMA PlanBlocks ==
  ASSUME ClearInv, NEW h \in 0..archiveHead, NEW a \in Deletions(h) \cup Recreations(h)
  PROVE  /\ a \in 1..archiveHead /\ a \in Nat /\ a \in 0..h
         /\ a \in Deletions(h) => AccountBefore(a + 1) = NoAccount /\ account[a] = NoAccount
         /\ a \in Recreations(h) => /\ AccountBefore(a + 1) # NoAccount
                                    /\ a \in Recreations(a)
<1>1. h \in Nat /\ h <= archiveHead /\ archiveHead \in Nat
  BY ClearNumbers
<1>2. a \in 0..h
  BY <1>1 DEF Deletions, Recreations
<1>3. a # 0
  <2>1. account[0] # NoAccount
    BY Zenon, ClearAssumption DEF ClearInv, HistoryInv
  <2>2. 0 \notin 1..h
    BY <1>1
  <2> QED
    BY Zenon, <2>1, <2>2 DEF Deletions, Recreations
<1>4. a \in 1..archiveHead /\ a \in Nat
  BY <1>1, <1>2, <1>3
<1>5. ASSUME a \in Deletions(h)
      PROVE  AccountBefore(a + 1) = NoAccount /\ account[a] = NoAccount
  <2>1. account[a] = NoAccount
    BY Zenon, <1>5 DEF Deletions
  <2> QED
    BY Zenon, <1>4, <2>1, ClearAssumption, AccountSteps
<1>6. ASSUME a \in Recreations(h)
      PROVE  AccountBefore(a + 1) # NoAccount /\ a \in Recreations(a)
  <2>1. account[a] \notin {NoVersion, NoAccount} /\ a \in 1..h
    BY Zenon, <1>6 DEF Recreations
  <2> QED
    BY Zenon, <1>1, <1>4, <1>6, <2>1, AccountSteps, RecreationsUpTo
<1> QED
  BY Zenon, <1>2, <1>4, <1>5, <1>6

\* Steps of the command that write nothing leave the history as it is.
LEMMA HistoryUnchanged ==
  ASSUME ClearInv, UNCHANGED <<upgradable, archiveHead, account, storage, truth, hidden>>
  PROVE  HistoryInv'
<1>1. ASSUME NEW s \in Slots, NEW n \in 1..archiveHead
      PROVE  SlotHistory(s, n)'
  BY Zenon, HistoryStays DEF ClearInv, HistoryInv
<1> QED
  BY Zenon, <1>1 DEF ClearInv, HistoryInv

\* The scan plans what there is to zero; the chain held nothing there.
LEMMA ScanKeeps ==
  ASSUME ClearInv, Scan
  PROVE  ClearInv'
<1>1. /\ step \in {"idle", "applied"} /\ scanned' = archiveHead /\ plan' = ToZero(archiveHead)
      /\ step' = "planned"
      /\ UNCHANGED <<upgradable, archiveHead, account, storage, truth, hidden, chunks>>
  BY Zenon DEF Scan
<1>2. archiveHead \in Nat /\ archiveHead \in 0..archiveHead
  BY ClearNumbers
<1>3. ASSUME NEW z \in ToZero(archiveHead)
      PROVE  /\ z \in [slot : Slots, at : 0..archiveHead]
             /\ z.at \in Deletions(archiveHead) \cup Recreations(archiveHead)
             /\ truth[z.slot][z.at] = 0
  <2>1. /\ z \in [slot : Slots, at : Deletions(archiveHead) \cup Recreations(archiveHead)]
        /\ z.at \in Recreations(archiveHead) => NewestAt(storage[z.slot], z.at) # z.at
    BY Zenon, <1>2, ToZeroIs
  <2>2. /\ z.slot \in Slots /\ z.at \in Deletions(archiveHead) \cup Recreations(archiveHead)
        /\ z = [slot |-> z.slot, at |-> z.at]
    BY <2>1
  <2>3. /\ z.at \in 1..archiveHead /\ z.at \in Nat /\ z.at \in 0..archiveHead
        /\ z.at \in Deletions(archiveHead) => AccountBefore(z.at + 1) = NoAccount
        /\ z.at \in Recreations(archiveHead) => z.at \in Recreations(z.at)
    BY Zenon, <1>2, <2>2, PlanBlocks
  <2>4. SlotHistory(z.slot, z.at)
    BY Zenon, <2>2, <2>3 DEF ClearInv, HistoryInv
  <2>5. z.at \in Recreations(archiveHead) => storage[z.slot][z.at] = NoVersion
    BY Zenon, <2>1, <2>3, VersionSteps
  <2>6. truth[z.slot][z.at] = 0
    BY Zenon, <2>2, <2>3, <2>4, <2>5 DEF SlotHistory
  <2>7. z \in [slot : Slots, at : 0..archiveHead]
    BY Zenon, <2>2, <2>3
  <2> QED
    BY Zenon, <2>2, <2>6, <2>7
<1>4. step # "applying" /\ step' # "applying" /\ step' # "applied"
  BY <1>1
<1>5. chunks = {}
  BY Zenon, <1>4 DEF ClearInv, ClearTypeOK
<1>6. ClearTypeOK'
  BY Zenon, <1>1, <1>2, <1>3, <1>5 DEF ClearInv, ClearTypeOK
<1>7. HistoryInv'
  BY Zenon, <1>1, HistoryUnchanged
<1>8. /\ ToZero(scanned)' = ToZero(archiveHead) /\ Deletions(scanned)' = Deletions(archiveHead)
      /\ Recreations(scanned)' = Recreations(archiveHead)
  BY Zenon, <1>1 DEF ToZero, Deletions, Recreations, AccountBefore
<1>9. PlanInv'
  BY Zenon, <1>1, <1>3, <1>4, <1>8 DEF PlanInv
<1> QED
  BY Zenon, <1>6, <1>7, <1>9 DEF ClearInv

\* A zero written at a block of the plan only ever makes less to zero.
LEMMA ZeroShrinks ==
  ASSUME ClearInv, NEW h \in 0..archiveHead, NEW s \in Slots,
         NEW a \in 0..h, storage' = [storage EXCEPT ![s][a] = 0],
         UNCHANGED <<upgradable, account>>
  PROVE  ToZero(h)' \subseteq ToZero(h)
<1>1. h \in Nat /\ h <= archiveHead /\ a \in Nat /\ a \in Blocks0
  BY ClearNumbers
<1>2. /\ storage'[s] = [storage[s] EXCEPT ![a] = 0]
      /\ \A t \in Slots : t # s => storage'[t] = storage[t]
      /\ storage[s] \in [Blocks0 -> Values \cup {0, NoVersion}]
  BY Zenon DEF ClearInv, ClearTypeOK
<1>3. storage'[s][a] = 0 /\ \A b \in Blocks0 : b # a => storage'[s][b] = storage[s][b]
  BY Zenon, <1>1, <1>2
<1>4. \A b \in 0..h : account'[b] = account[b]
  BY Zenon
<1>5. Deletions(h)' = Deletions(h) /\ Recreations(h)' = Recreations(h)
  BY Zenon, <1>1, <1>4, PastAccount
<1> SUFFICES ASSUME NEW z \in ToZero(h)'
             PROVE  z \in ToZero(h)
  BY Zenon
<1>6. /\ z \in [slot : Slots, at : Deletions(h) \cup Recreations(h)]
      /\ NewestAt(storage'[z.slot], z.at) # -1
      /\ z.at \in Recreations(h) => NewestAt(storage'[z.slot], z.at) # z.at
      /\ storage'[z.slot][NewestAt(storage'[z.slot], z.at)] # 0
  BY Zenon, <1>5 DEF ToZero
<1>7. z.slot \in Slots /\ z.at \in Deletions(h) \cup Recreations(h)
  BY <1>6
<1>8. CASE z.slot # s
  BY Zenon, <1>1, <1>2, <1>6, <1>7, <1>8, ToZeroIs
<1>9. CASE z.slot = s
  <2>1. PICK v : v = NewestAt(storage'[s], z.at)
    BY Zenon
  <2>2. z.at \in Nat /\ z.at \in 0..h /\ \A b \in 0..z.at : b \in Blocks0
    BY <1>1, <1>7, PlanBlocks, ClearNumbers DEF Blocks0
  <2>3. /\ v \in 0..z.at /\ storage'[s][v] # NoVersion
        /\ \A b \in 0..z.at : storage'[s][b] # NoVersion => b <= v
    BY Zenon, <1>6, <1>9, <2>1, <2>2, NewestVersion
  <2>4. v # a /\ v \in Blocks0
    BY Zenon, <1>3, <1>6, <1>9, <2>1, <2>2, <2>3
  <2>5. storage[s][v] # NoVersion /\ storage[s][v] = storage'[s][v]
    BY Zenon, <1>3, <2>3, <2>4
  <2>6. ASSUME NEW b \in 0..z.at, storage[s][b] # NoVersion
        PROVE  b <= v
    <3>1. storage'[s][b] # NoVersion
      <4>1. 0 # NoVersion
        BY Zenon, ClearAssumption
      <4> QED
        BY Zenon, <1>3, <2>2, <2>6, <4>1
    <3> QED
      BY Zenon, <2>3, <3>1
  <2>7. NewestAt(storage[s], z.at) = v
    BY Zenon, <2>2, <2>3, <2>5, <2>6, NewestIs
  <2> QED
    BY Zenon, <1>1, <1>6, <1>9, <2>1, <2>5, <2>7, ToZeroIs
<1> QED
  BY Zenon, <1>8, <1>9

\* One zero of the plan: the chain held a zero there.
LEMMA ChunkKeeps ==
  ASSUME ClearInv, NEW z \in chunks, ApplyChunk(z)
  PROVE  ClearInv'
<1>1. /\ step = "applying" /\ storage' = [storage EXCEPT ![z.slot][z.at] = 0]
      /\ chunks' = chunks \ {z}
      /\ UNCHANGED <<upgradable, archiveHead, account, truth, hidden, step, scanned, plan>>
  BY Zenon DEF ApplyChunk
<1>2. z \in plan /\ plan \subseteq [slot : Slots, at : 0..scanned]
  BY Zenon DEF ClearInv, ClearTypeOK
<1>3. \A y \in plan : /\ y.slot \in Slots /\ y.at \in 0..scanned
                      /\ y = [slot |-> y.slot, at |-> y.at]
  BY <1>2
<1>4. PICK s \in Slots : s = z.slot
  BY Zenon, <1>2, <1>3
<1>5. PICK a \in 0..scanned : a = z.at
  BY Zenon, <1>2, <1>3
<1>6. /\ a \in Deletions(scanned) \cup Recreations(scanned) /\ truth[s][a] = 0
      /\ scanned \in 0..archiveHead
  BY Zenon, <1>2, <1>4, <1>5 DEF ClearInv, PlanInv, ClearTypeOK
<1>7. /\ a \in 1..archiveHead /\ a \in Nat /\ a \in Blocks0 /\ a # 0
      /\ a \in Deletions(scanned) => account[a] = NoAccount
      /\ a \in Recreations(scanned) => AccountBefore(a + 1) # NoAccount
  <2>1. /\ a \in 1..archiveHead /\ a \in Nat
        /\ a \in Deletions(scanned) => account[a] = NoAccount
        /\ a \in Recreations(scanned) => AccountBefore(a + 1) # NoAccount
    BY Zenon, <1>6, PlanBlocks
  <2> QED
    BY <2>1, ClearNumbers
<1>8. /\ storage' = [storage EXCEPT ![s][a] = 0]
      /\ storage \in [Slots -> [Blocks0 -> Values \cup {0, NoVersion}]]
  BY Zenon, <1>1, <1>4, <1>5 DEF ClearInv, ClearTypeOK
<1>9. /\ storage'[s][a] = 0
      /\ \A t \in Slots : \A b \in Blocks0 :
            <<t, b>> # <<s, a>> => storage'[t][b] = storage[t][b]
      /\ storage' \in [Slots -> [Blocks0 -> Values \cup {0, NoVersion}]]
  <2>1. storage'[s] = [storage[s] EXCEPT ![a] = 0]
    BY Zenon, <1>8
  <2>2. \A t \in Slots : t # s => storage'[t] = storage[t]
    BY Zenon, <1>8
  <2>3. storage[s] \in [Blocks0 -> Values \cup {0, NoVersion}]
    BY Zenon, <1>8
  <2>4. storage'[s] \in [Blocks0 -> Values \cup {0, NoVersion}]
    BY Zenon, <1>7, <2>1, <2>3
  <2>5. storage'[s][a] = 0 /\ \A b \in Blocks0 : b # a => storage'[s][b] = storage[s][b]
    BY Zenon, <1>7, <2>1, <2>3
  <2>6. storage' \in [Slots -> [Blocks0 -> Values \cup {0, NoVersion}]]
    BY Zenon, <1>8, <2>2, <2>4
  <2>7. ASSUME NEW t \in Slots, NEW b \in Blocks0, <<t, b>> # <<s, a>>
        PROVE  storage'[t][b] = storage[t][b]
    BY Zenon, <2>2, <2>5, <2>7
  <2> QED
    BY Zenon, <2>5, <2>6, <2>7
<1>10. ClearTypeOK'
  BY Zenon, <1>1, <1>9 DEF ClearInv, ClearTypeOK
<1>11. HistoryInv'
  <2>1. ASSUME NEW t \in Slots, NEW n \in 1..archiveHead
        PROVE  SlotHistory(t, n)'
    <3>1. SlotHistory(t, n) /\ n \in Nat /\ n \in Blocks0
      BY Zenon, ClearNumbers DEF ClearInv, HistoryInv
    <3>2. CASE <<t, n>> # <<s, a>>
      <4>1. storage'[t][n] = storage[t][n]
        BY Zenon, <1>9, <3>1, <3>2
      <4>2. upgradable' = upgradable /\ hidden' = hidden
        BY Zenon, <1>1
      <4>3. \A b \in 0..n : account'[b] = account[b] /\ truth'[t][b] = truth[t][b]
        BY Zenon, <1>1
      <4> QED
        BY Zenon, <3>1, <4>1, <4>2, <4>3, HistoryStays
    <3>3. CASE t = s /\ n = a
      <4>1. storage'[t][n] = 0 /\ truth'[t][n] = 0 /\ 0 # NoVersion
        BY Zenon, <1>1, <1>6, <1>9, <3>3, ClearAssumption
      <4>2. AccountBefore(n + 1)' # NoAccount \/ account'[n] = NoAccount
        <5>1. account'[n] = account[n] /\ AccountBefore(n + 1)' = AccountBefore(n + 1)
          BY Zenon, <1>1 DEF AccountBefore
        <5> QED
          BY Zenon, <1>6, <1>7, <3>3, <5>1
      <4> QED
        BY Zenon, <4>1, <4>2 DEF SlotHistory
    <3> QED
      BY Zenon, <3>2, <3>3
  <2>2. 0 \in Blocks0
    BY ClearNumbers DEF Blocks0
  <2>3. \A t \in Slots : storage'[t][0] = NoVersion /\ truth'[t][0] = 0
    <3>1. \A t \in Slots : <<t, 0>> # <<s, a>>
      BY <1>7
    <3> QED
      BY Zenon, <1>1, <1>9, <2>2, <3>1 DEF ClearInv, HistoryInv
  <2> QED
    BY Zenon, <1>1, <2>1, <2>3 DEF ClearInv, HistoryInv
<1>12. PlanInv'
  <2>1. ToZero(scanned)' \subseteq ToZero(scanned)
    <3>1. PICK h \in 0..archiveHead : h = scanned
      BY Zenon, <1>6
    <3>2. ToZero(h)' \subseteq ToZero(h)
      BY Zenon, <1>1, <1>5, <1>8, <3>1, ZeroShrinks
    <3>3. ToZero(scanned)' = ToZero(h)'
      BY Zenon, <1>1, <3>1
    <3> QED
      BY Zenon, <3>1, <3>2, <3>3
  <2>2. /\ Deletions(scanned)' = Deletions(scanned)
        /\ Recreations(scanned)' = Recreations(scanned)
    BY Zenon, <1>1 DEF Deletions, Recreations, AccountBefore
  <2>3. ASSUME NEW y \in plan \ (chunks \ {z})
        PROVE  storage'[y.slot][y.at] = 0
    <3>1. CASE y = z
      BY Zenon, <1>4, <1>5, <1>9, <3>1
    <3>2. CASE y # z
      <4>1. storage[y.slot][y.at] = 0
        BY Zenon, <1>1, <3>2 DEF ClearInv, PlanInv
      <4>2. y.slot \in Slots /\ y.at \in Blocks0
        BY Zenon, <1>3, ClearNumbers
      <4> QED
        BY Zenon, <1>9, <4>1, <4>2
    <3> QED
      BY Zenon, <3>1, <3>2
  <2>4. step' # "applied" /\ step # "idle"
    BY <1>1
  <2> QED
    BY Zenon, <1>1, <2>1, <2>2, <2>3, <2>4 DEF ClearInv, PlanInv
<1> QED
  BY Zenon, <1>10, <1>11, <1>12 DEF ClearInv

\* The steps of the command that write nothing: the read-back at the end of
\* apply finds what was written.
LEMMA CommandKeeps ==
  ASSUME ClearInv, BeginApply \/ EndApply \/ CrashApply \/ UNCHANGED clearVars
  PROVE  ClearInv'
<1>1. UNCHANGED <<upgradable, archiveHead, account, storage, truth, hidden, scanned, plan>>
  BY Zenon DEF BeginApply, EndApply, CrashApply, clearVars
<1>2. HistoryInv'
  BY Zenon, <1>1, HistoryUnchanged
<1>3. /\ ToZero(scanned)' = ToZero(scanned) /\ Deletions(scanned)' = Deletions(scanned)
      /\ Recreations(scanned)' = Recreations(scanned)
  BY Zenon, <1>1 DEF ToZero, Deletions, Recreations, AccountBefore
<1>4. CASE BeginApply
  <2>1. step = "planned" /\ step' = "applying" /\ chunks' = plan
    BY Zenon, <1>4 DEF BeginApply
  <2>2. step # "idle" /\ step' # "applied"
    BY <2>1
  <2>3. PlanInv'
    BY Zenon, <1>1, <1>3, <2>1, <2>2 DEF ClearInv, PlanInv
  <2>4. ClearTypeOK'
    BY Zenon, <1>1, <2>1 DEF ClearInv, ClearTypeOK
  <2> QED
    BY Zenon, <1>2, <2>3, <2>4 DEF ClearInv
<1>5. CASE EndApply
  <2>1. /\ step = "applying" /\ chunks = {} /\ chunks' = chunks
        /\ step' = IF \A z \in plan : /\ NewestAt(storage[z.slot], z.at) = z.at
                                      /\ ReadSlot(z.slot, z.at) = 0
                   THEN "applied" ELSE "failed"
    BY Zenon, <1>5 DEF EndApply
  <2>2. \A z \in plan : storage[z.slot][z.at] = 0
    BY Zenon, <2>1 DEF ClearInv, PlanInv
  <2>3. ASSUME NEW z \in plan
        PROVE  NewestAt(storage[z.slot], z.at) = z.at /\ ReadSlot(z.slot, z.at) = 0
    <3>1. z \in [slot : Slots, at : 0..scanned]
      BY Zenon DEF ClearInv, ClearTypeOK
    <3>2. z.slot \in Slots /\ z.at \in Nat
      BY <3>1, ClearNumbers
    <3>3. storage[z.slot][z.at] = 0 /\ storage[z.slot][z.at] # NoVersion
      BY Zenon, <2>2, ClearAssumption
    <3> QED
      BY Zenon, <3>2, <3>3, VersionSteps, ReadSteps
  <2>4. step' = "applied" /\ step # "idle" /\ step' # "applying"
    BY <2>1, <2>3
  <2>5. PlanInv'
    BY Zenon, <1>1, <1>3, <2>2, <2>4 DEF ClearInv, PlanInv
  <2>6. ClearTypeOK'
    BY Zenon, <1>1, <2>1, <2>4 DEF ClearInv, ClearTypeOK
  <2> QED
    BY Zenon, <1>2, <2>5, <2>6 DEF ClearInv
<1>6. CASE CrashApply
  <2>1. step = "applying" /\ step' \in {"planned", "idle"} /\ chunks' = {}
    BY Zenon, <1>6 DEF CrashApply
  <2>2. /\ step # "idle" /\ step' # "applied" /\ step' # "applying"
        /\ step' \in {"idle", "planned", "applying", "applied"}
    BY <2>1
  <2>3. PlanInv'
    BY Zenon, <1>1, <1>3, <2>2 DEF ClearInv, PlanInv
  <2>4. ClearTypeOK'
    BY Zenon, <1>1, <2>1, <2>2 DEF ClearInv, ClearTypeOK
  <2> QED
    BY Zenon, <1>2, <2>3, <2>4 DEF ClearInv
<1>7. CASE UNCHANGED clearVars
  <2>1. step' = step /\ chunks' = chunks
    BY Zenon, <1>7 DEF clearVars
  <2>2. PlanInv'
    BY Zenon, <1>1, <1>3, <2>1 DEF ClearInv, PlanInv
  <2>3. ClearTypeOK'
    BY Zenon, <1>1, <2>1 DEF ClearInv, ClearTypeOK
  <2> QED
    BY Zenon, <1>2, <2>2, <2>3 DEF ClearInv
<1> QED
  BY Zenon, <1>4, <1>5, <1>6, <1>7

\* Every step of the chain and of the command keeps the histories and the plan.
LEMMA ClearStep ==
  ASSUME ClearInv, [ClearNext]_clearVars
  PROVE  ClearInv'
BY Zenon, ImportKeeps, ScanKeeps, ChunkKeeps, CommandKeeps DEF ClearNext

\* The inductive invariant of the repair holds throughout.
LEMMA ClearInvariant == ClearSpec => []ClearInv
<1>1. ClearInit => ClearInv
  <2> SUFFICES ASSUME ClearInit
               PROVE  ClearInv
    BY Zenon
  <2>1. LastBlock \in Nat /\ 0 \in Blocks0 /\ 0 \in 0..0 /\ 1..0 = {}
    BY ClearAssumption DEF Blocks0
  <2>2. /\ account = [b \in Blocks0 |-> NoVersion]
        /\ storage = [s \in Slots |-> [b \in Blocks0 |-> NoVersion]]
        /\ truth = [s \in Slots |-> [b \in Blocks0 |-> 0]]
        /\ archiveHead = 0 /\ scanned = 0 /\ plan = {} /\ chunks = {} /\ step = "idle"
        /\ hidden = FALSE /\ upgradable \in BOOLEAN
    BY Zenon DEF ClearInit
  <2>3. ClearTypeOK
    BY Zenon, <2>1, <2>2 DEF ClearTypeOK
  <2>4. HistoryInv
    BY Zenon, <2>1, <2>2 DEF HistoryInv
  <2>5. step # "applying" /\ step # "applied"
    BY <2>2
  <2>6. PlanInv
    BY Zenon, <2>2, <2>5 DEF PlanInv
  <2> QED
    BY Zenon, <2>3, <2>4, <2>6 DEF ClearInv
<1>2. ClearInv /\ [ClearNext]_clearVars => ClearInv'
  BY Zenon, ClearStep
<1> QED
  BY <1>1, <1>2, PTL DEF ClearSpec

\* Where nothing is left to zero, and no recreation went unseen, a slot reads
\* at every block as the chain held it.
LEMMA NothingLeftIsExact ==
  ASSUME ClearInv, ~hidden, ToZero(scanned) = {}
  PROVE  \A s \in Slots : \A n \in 0..scanned : ReadSlot(s, n) = truth[s][n]
<1> SUFFICES ASSUME NEW s \in Slots, NEW n0 \in 0..scanned,
                    ReadSlot(s, n0) # truth[s][n0]
             PROVE  FALSE
  BY Zenon
<1>1. PICK D : D = {n \in 0..scanned : ReadSlot(s, n) # truth[s][n]}
  BY Zenon
<1>2. scanned \in Nat /\ scanned \in 0..archiveHead /\ \A n \in 0..scanned : n \in Nat
  BY ClearNumbers
<1>3. D \in SUBSET Nat /\ D # {}
  BY Zenon, <1>1, <1>2
<1>4. PICK n \in D : \A m \in D : n <= m
  BY Zenon, <1>3, LeastNatural
<1>5. n \in 0..scanned /\ n \in Nat /\ ReadSlot(s, n) # truth[s][n]
  BY Zenon, <1>1, <1>2, <1>4
<1>6. CASE n = 0
  <2>1. storage[s][0] = NoVersion /\ truth[s][0] = 0
    BY Zenon DEF ClearInv, HistoryInv
  <2> QED
    BY Zenon, <1>5, <1>6, <2>1, ReadSteps
<1>7. CASE n # 0
  <2>1. n \in 1..archiveHead /\ n - 1 \in Nat /\ n - 1 \in 0..scanned /\ n > 0 /\ ~(n <= n - 1)
    BY <1>2, <1>5, <1>7, ClearNumbers
  <2>2. ReadSlot(s, n - 1) = truth[s][n - 1]
    BY Zenon, <1>1, <1>4, <2>1
  <2>3. SlotHistory(s, n)
    BY Zenon, <2>1 DEF ClearInv, HistoryInv
  <2>4. /\ storage[s][n] # NoVersion => ReadSlot(s, n) = storage[s][n]
        /\ storage[s][n] = NoVersion => ReadSlot(s, n) = ReadSlot(s, n - 1)
    BY Zenon, <1>5, <2>1, ReadSteps
  <2>5. n \in Recreations(scanned) <=> n \in Recreations(n)
    <3>1. n \in 1..scanned
      BY <1>2, <1>5, <1>7
    <3> QED
      BY Zenon, <1>2, <3>1, RecreationsUpTo
  <2>6. ASSUME n \in Deletions(scanned) \cup Recreations(scanned),
               n \in Recreations(scanned) => storage[s][n] = NoVersion
        PROVE  ReadSlot(s, n) = 0
    <3>1. PICK z : z = [slot |-> s, at |-> n]
      BY Zenon
    <3>2. /\ z \in [slot : Slots, at : Deletions(scanned) \cup Recreations(scanned)]
          /\ z.slot = s /\ z.at = n
      BY <2>6, <3>1
    <3>3. z \notin ToZero(scanned)
      BY Zenon
    <3>4. PICK v : v = NewestAt(storage[s], n)
      BY Zenon
    <3>5. n \in Recreations(scanned) => v # n
      <4> SUFFICES ASSUME n \in Recreations(scanned), v = n
                   PROVE  FALSE
        BY Zenon
      <4>1. v # -1
        BY <1>5
      <4>2. storage[s][v] # NoVersion
        BY Zenon, <1>5, <3>4, <4>1, NewestVersion
      <4> QED
        BY Zenon, <2>6, <4>2
    <3>6. v = -1 \/ storage[s][v] = 0
      BY Zenon, <1>2, <3>2, <3>3, <3>4, <3>5, ToZeroIs
    <3> QED
      BY Zenon, <3>4, <3>6 DEF ReadSlot
  <2>7. CASE n \in Recreations(n) /\ storage[s][n] = NoVersion
    BY Zenon, <1>5, <2>3, <2>5, <2>6, <2>7 DEF SlotHistory
  <2>8. CASE AccountBefore(n + 1) = NoAccount /\ account[n] = NoAccount
    <3>1. n \in Deletions(scanned)
      BY Zenon, <1>5, <2>8 DEF Deletions
    <3>2. n \notin Recreations(scanned)
      BY Zenon, <2>8 DEF Recreations
    <3> QED
      BY Zenon, <1>5, <2>3, <2>6, <2>8, <3>1, <3>2 DEF SlotHistory
  <2>9. CASE AccountBefore(n + 1) = NoAccount /\ account[n] # NoAccount
    <3>1. storage[s][n] = NoVersion /\ truth[s][n] = 0
      BY Zenon, <2>3, <2>9 DEF SlotHistory
    <3>2. account[n] = NoVersion
      BY Zenon, <1>5, <2>9, AccountSteps
    <3>3. AccountBefore(n) = NoAccount
      BY Zenon, <1>5, <2>1, <2>9, <3>2, AccountSteps
    <3>4. truth[s][n - 1] = 0
      <4>1. CASE n - 1 = 0
        BY Zenon, <4>1 DEF ClearInv, HistoryInv
      <4>2. CASE n - 1 # 0
        <5>1. n - 1 \in 1..archiveHead /\ (n - 1) + 1 = n
          BY <2>1, <4>2, ClearNumbers
        <5>2. SlotHistory(s, n - 1)
          BY Zenon, <5>1 DEF ClearInv, HistoryInv
        <5> QED
          BY Zenon, <3>3, <5>1, <5>2 DEF SlotHistory
      <4> QED
        BY Zenon, <4>1, <4>2
    <3> QED
      BY Zenon, <1>5, <2>2, <2>4, <3>1, <3>4
  <2>10. CASE AccountBefore(n + 1) # NoAccount /\ storage[s][n] # NoVersion
    BY Zenon, <1>5, <2>3, <2>4, <2>10 DEF SlotHistory
  <2>11. CASE /\ AccountBefore(n + 1) # NoAccount /\ storage[s][n] = NoVersion
              /\ n \notin Recreations(n)
    BY Zenon, <1>5, <2>2, <2>3, <2>4, <2>11 DEF SlotHistory
  <2> QED
    BY Zenon, <2>7, <2>8, <2>9, <2>10, <2>11
<1> QED
  BY Zenon, <1>6, <1>7

\* An applied plan repairs the archive in full: every slot reads at every block
\* the scan saw what the chain held, the read-back never fails and a further
\* scan finds nothing, however often apply was cut short and whatever was
\* imported in between (scan, apply), for any history of the contract.
THEOREM RepairIsExact == ClearSpec => []RepairExact
<1>1. ClearInv => RepairExact
  <2> SUFFICES ASSUME ClearInv
               PROVE  RepairExact
    BY Zenon
  <2>1. step # "failed"
    <3>1. step \in {"idle", "planned", "applying", "applied"}
      BY Zenon DEF ClearInv, ClearTypeOK
    <3> QED
      BY <3>1
  <2>2. ASSUME step = "applied"
        PROVE  ToZero(scanned) = {}
    <3>1. step # "idle"
      BY <2>2
    <3>2. ToZero(scanned) \subseteq plan /\ \A z \in plan : storage[z.slot][z.at] = 0
      BY Zenon, <2>2, <3>1 DEF ClearInv, PlanInv
    <3> SUFFICES ASSUME NEW z \in ToZero(scanned)
                 PROVE  FALSE
      BY Zenon
    <3>3. storage[z.slot][z.at] = 0 /\ storage[z.slot][z.at] # NoVersion
      BY Zenon, <3>2, ClearAssumption
    <3>4. z \in [slot : Slots, at : 0..scanned]
      BY Zenon, <3>2 DEF ClearInv, ClearTypeOK
    <3>5. z.at \in Nat /\ scanned \in Nat
      BY <3>4, ClearNumbers
    <3>6. NewestAt(storage[z.slot], z.at) = z.at
      BY Zenon, <3>3, <3>5, VersionSteps
    <3> QED
      BY Zenon, <3>3, <3>5, <3>6, ToZeroIs
  <2>3. ClearedExact
    BY Zenon, <2>2, NothingLeftIsExact DEF ClearedExact
  <2> QED
    BY Zenon, <2>1, <2>2, <2>3 DEF RepairExact, ApplySettles
<1> QED
  BY <1>1, ClearInvariant, PTL

\* A slot that holds nothing after a block holds nothing until it is written.
LEMMA EmptyStaysEmpty ==
  ASSUME ClearInv, NEW s \in Slots, NEW a \in 0..archiveHead, NEW n0 \in a..archiveHead,
         truth[s][a] = 0, \A b \in (a + 1)..n0 : storage[s][b] = NoVersion
  PROVE  truth[s][n0] = 0
<1> SUFFICES ASSUME truth[s][n0] # 0
             PROVE  FALSE
  BY Zenon
<1>1. a \in Nat /\ n0 \in Nat /\ archiveHead \in Nat /\ a <= n0 /\ n0 <= archiveHead
  BY ClearNumbers
<1>2. PICK D : D = {n \in a..n0 : truth[s][n] # 0}
  BY Zenon
<1>3. n0 \in a..n0 /\ \A n \in a..n0 : n \in Nat
  BY <1>1
<1>4. D \in SUBSET Nat /\ D # {}
  BY Zenon, <1>2, <1>3
<1>5. PICK n \in D : \A m \in D : n <= m
  BY Zenon, <1>4, LeastNatural
<1>6. n \in a..n0 /\ truth[s][n] # 0 /\ n # a
  BY Zenon, <1>2, <1>5
<1>7. /\ n \in (a + 1)..n0 /\ n \in 1..archiveHead /\ n - 1 \in a..n0 /\ ~(n <= n - 1)
  BY <1>1, <1>6
<1>8. truth[s][n - 1] = 0
  BY Zenon, <1>2, <1>5, <1>7
<1>9. SlotHistory(s, n) /\ storage[s][n] = NoVersion
  BY Zenon, <1>7 DEF ClearInv, HistoryInv
<1>10. truth[s][n] \in {0, truth[s][n - 1]}
  BY Zenon, <1>9 DEF SlotHistory
<1> QED
  BY <1>6, <1>8, <1>10

\* A read that is right stays right through half-applied plans and the growth of
\* the chain: a zero never hides a slot of a contract that lives (apply).
THEOREM RightReadsNeverBreak == ClearSpec => RightReadsStayRight
<1> DEFINE Stays == \A s \in Slots : \A n \in 0..archiveHead :
                       ReadSlot(s, n) = truth[s][n]
                          => ReadSlot(s, n)' = truth'[s][n]
<1>1. ASSUME ClearInv, [ClearNext]_clearVars
      PROVE  [Stays]_clearVars
  <2> SUFFICES ASSUME ClearNext, NEW s \in Slots, NEW n \in 0..archiveHead,
                      ReadSlot(s, n) = truth[s][n]
               PROVE  ReadSlot(s, n)' = truth'[s][n]
    BY Zenon, <1>1
  <2>0. n \in Nat /\ n \in Blocks0 /\ archiveHead \in Nat /\ n <= archiveHead
    BY <1>1, ClearNumbers
  <2>1. ASSUME \A b \in 0..n : storage'[s][b] = storage[s][b],
               truth'[s][n] = truth[s][n]
        PROVE  ReadSlot(s, n)' = truth'[s][n]
    <3>1. NewestAt(storage'[s], n) = NewestAt(storage[s], n)
      BY Zenon, <2>0, <2>1, VersionAgree
    <3>2. PICK v : v = NewestAt(storage[s], n)
      BY Zenon
    <3>3. v # -1 => storage'[s][v] = storage[s][v]
      BY Zenon, <2>0, <2>1, <3>2, NewestVersion
    <3>4. /\ ReadSlot(s, n) = IF v = -1 THEN 0 ELSE storage[s][v]
          /\ ReadSlot(s, n)' = IF v = -1 THEN 0 ELSE storage'[s][v]
      BY Zenon, <3>1, <3>2 DEF ReadSlot
    <3> QED
      BY <2>1, <3>3, <3>4
  <2>2. ASSUME NEW fate, NEW w, Import(fate, w)
        PROVE  /\ \A b \in 0..n : storage'[s][b] = storage[s][b]
               /\ truth'[s][n] = truth[s][n]
    <3>1. PICK m : m = archiveHead + 1
      BY Zenon
    <3>2. \E e : /\ storage' = [t \in Slots |-> [storage[t] EXCEPT ![m] = w[t]]]
                 /\ truth' = [t \in Slots |-> [truth[t] EXCEPT ![m] = e[t]]]
      <4>1. PICK dead \in BOOLEAN :
               dead = (IF fate.to = NoVersion THEN AccountBefore(m) = NoAccount
                       ELSE fate.to = NoAccount)
        BY Zenon
      <4>2. PICK e : e = [t \in Slots |-> IF dead THEN 0
                                          ELSE IF w[t] # NoVersion THEN w[t]
                                          ELSE IF fate.gone THEN 0
                                          ELSE truth[t][m - 1]]
        BY Zenon
      <4>3. truth' = [t \in Slots |-> [truth[t] EXCEPT ![m] =
                        IF dead THEN 0
                        ELSE IF w[t] # NoVersion THEN w[t]
                        ELSE IF fate.gone THEN 0 ELSE truth[t][m - 1]]]
        BY Zenon, <2>2, <3>1, <4>1 DEF Import
      <4>4. truth' = [t \in Slots |-> [truth[t] EXCEPT ![m] = e[t]]]
        BY Zenon, <4>2, <4>3
      <4>5. storage' = [t \in Slots |-> [storage[t] EXCEPT ![m] = w[t]]]
        BY Zenon, <2>2, <3>1 DEF Import
      <4> QED
        BY Zenon, <4>4, <4>5
    <3>3. \A b \in 0..n : b # m /\ b \in Blocks0
      BY <2>0, <3>1, <1>1, ClearNumbers
    <3>4. n \in 0..n
      BY <2>0
    <3>5. /\ storage[s] \in [Blocks0 -> Values \cup {0, NoVersion}]
          /\ truth[s] \in [Blocks0 -> Values \cup {0}]
      BY Zenon, <1>1 DEF ClearInv, ClearTypeOK
    <3>6. PICK e : /\ storage'[s] = [storage[s] EXCEPT ![m] = w[s]]
                   /\ truth'[s] = [truth[s] EXCEPT ![m] = e[s]]
      BY Zenon, <3>2
    <3>7. \A b \in 0..n : storage'[s][b] = storage[s][b] /\ truth'[s][b] = truth[s][b]
      BY Zenon, <3>3, <3>5, <3>6
    <3> QED
      BY Zenon, <3>4, <3>7
  <2>3. ASSUME NEW z \in chunks, ApplyChunk(z)
        PROVE  ReadSlot(s, n)' = truth'[s][n]
    <3>1. /\ storage' = [storage EXCEPT ![z.slot][z.at] = 0]
          /\ truth' = truth
      BY Zenon, <2>3 DEF ApplyChunk
    <3>2. z \in plan /\ z \in [slot : Slots, at : 0..scanned]
      BY Zenon, <1>1 DEF ClearInv, ClearTypeOK
    <3>3. PICK a : a = z.at
      BY Zenon
    <3>4. z.slot \in Slots /\ a \in 0..scanned
      BY <3>2, <3>3
    <3>5. /\ a \in Blocks0 /\ a \in Nat /\ a \in 0..archiveHead
          /\ \A b \in 0..n : b \in Blocks0 /\ b \in Nat
      BY <1>1, <2>0, <3>4, ClearNumbers
    <3>6. /\ storage[s] \in [Blocks0 -> Values \cup {0, NoVersion}]
          /\ storage \in [Slots -> [Blocks0 -> Values \cup {0, NoVersion}]]
      BY Zenon, <1>1 DEF ClearInv, ClearTypeOK
    <3>7. CASE s # z.slot
      <4>1. storage'[s] = storage[s]
        BY Zenon, <3>1, <3>4, <3>6, <3>7
      <4> QED
        BY Zenon, <2>1, <3>1, <4>1
    <3>8. CASE s = z.slot
      <4>1. storage'[s] = [storage[s] EXCEPT ![a] = 0]
        BY Zenon, <3>1, <3>3, <3>4, <3>6, <3>8
      <4>2. /\ storage'[s][a] = 0
            /\ \A b \in Blocks0 : b # a => storage'[s][b] = storage[s][b]
        BY Zenon, <3>5, <3>6, <4>1
      <4>3. 0 # NoVersion
        BY Zenon, ClearAssumption
      <4>4. CASE n < a
        <5>1. \A b \in 0..n : b # a
          BY <2>0, <3>5, <4>4
        <5> QED
          BY Zenon, <2>1, <3>1, <3>5, <4>2, <5>1
      <4>5. CASE a <= n /\ \E c \in (a + 1)..n : storage[s][c] # NoVersion
        <5>1. PICK v : v = NewestAt(storage[s], n)
          BY Zenon
        <5>2. PICK c \in (a + 1)..n : storage[s][c] # NoVersion
          BY Zenon, <4>5
        <5>3. c \in 0..n
          BY <2>0, <3>5, <5>2
        <5>4. /\ v \in 0..n /\ storage[s][v] # NoVersion
              /\ \A b \in 0..n : storage[s][b] # NoVersion => b <= v
          BY Zenon, <2>0, <5>1, <5>2, <5>3, NewestVersion
        <5>5. c <= v
          BY Zenon, <5>2, <5>3, <5>4
        <5>6. a < v /\ v # a /\ v # -1
          BY <2>0, <3>5, <5>2, <5>4, <5>5
        <5>7. ASSUME NEW b \in 0..n, storage'[s][b] # NoVersion
              PROVE  b <= v
          <6>1. CASE b = a
            BY <3>5, <5>4, <5>6, <6>1, <2>0
          <6>2. CASE b # a
            BY Zenon, <3>5, <4>2, <5>4, <5>7, <6>2
          <6> QED
            BY Zenon, <6>1, <6>2
        <5>8. storage'[s][v] = storage[s][v]
          BY Zenon, <3>5, <4>2, <5>4, <5>6
        <5>9. NewestAt(storage'[s], n) = v
          BY Zenon, <2>0, <5>4, <5>7, <5>8, NewestIs
        <5> QED
          BY Zenon, <3>1, <5>1, <5>6, <5>8, <5>9 DEF ReadSlot
      <4>6. CASE a <= n /\ \A c \in (a + 1)..n : storage[s][c] = NoVersion
        <5>1. n \in a..archiveHead /\ a \in 0..n /\ a # -1
          BY <2>0, <3>5, <4>6
        <5>2. truth[s][a] = 0
          BY Zenon, <1>1, <3>2, <3>3, <3>8 DEF ClearInv, PlanInv
        <5>3. truth[s][n] = 0
          BY Zenon, <1>1, <3>5, <4>6, <5>1, <5>2, EmptyStaysEmpty
        <5>4. ASSUME NEW b \in 0..n, storage'[s][b] # NoVersion
              PROVE  b <= a
          <6>1. CASE b \in (a + 1)..n
            <7>1. b # a
              BY <3>5, <6>1
            <7> QED
              BY Zenon, <3>5, <4>2, <4>6, <5>4, <6>1, <7>1
          <6>2. CASE b \notin (a + 1)..n
            BY <2>0, <3>5, <6>2
          <6> QED
            BY Zenon, <6>1, <6>2
        <5>5. NewestAt(storage'[s], n) = a
          BY Zenon, <2>0, <4>2, <4>3, <5>1, <5>4, NewestIs
        <5> QED
          BY Zenon, <3>1, <4>2, <5>1, <5>3, <5>5 DEF ReadSlot
      <4>7. n < a \/ a <= n
        BY <2>0, <3>5
      <4> QED
        BY Zenon, <4>4, <4>5, <4>6, <4>7
    <3> QED
      BY Zenon, <3>7, <3>8
  <2>4. CASE Scan \/ BeginApply \/ EndApply \/ CrashApply
    <3>1. storage' = storage /\ truth' = truth
      BY Zenon, <2>4 DEF Scan, BeginApply, EndApply, CrashApply
    <3> QED
      BY Zenon, <2>1, <3>1
  <2> QED
    BY Zenon, <2>1, <2>2, <2>3, <2>4 DEF ClearNext
<1> QED
  BY <1>1, ClearInvariant, PTL DEF ClearSpec, RightReadsStayRight
=============================================================================
