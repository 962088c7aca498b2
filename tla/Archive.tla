------------------------------ MODULE Archive ------------------------------
(***************************************************************************)
(* The RocksDB archive: every version of every account and slot, keyed by  *)
(* the number of the block that wrote it; the block tables beside them;    *)
(* the span cache that remembers, across requests, over which blocks a     *)
(* version is the answer; and the offline rewind that truncates the        *)
(* archive.  One updater commits; readers open handles at any height and   *)
(* never wait for it.                                                      *)
(*                                                                         *)
(* A version is the block that wrote it; NoBlock is a key no block wrote.  *)
(***************************************************************************)
EXTENDS BlockTree

CONSTANTS
    NoBlock,
    Readers,        \* concurrent state handles
    Accounts,       \* the keys of AddressToAccount; the others are slots
    MaxSpans,       \* MAX_SPANS
    VolatileSpan    \* VOLATILE_SPAN

ASSUME ArchiveAssumption ==
    /\ NoBlock \notin Blocks
    /\ Accounts \subseteq Keys
    /\ MaxSpans \in Nat \ {0}
    /\ VolatileSpan \in Nat

VARIABLES
    schema,     \* v1 "legacy", v2 "inverted" or v3 "udt"; fixed on disk
    versions,   \* AddressToAccount, AddressToStorage: the versions of a key
    numbers,    \* BlockNumToBlockHash
    headers,    \* BlockHashToBlockInfo
    latest,     \* LatestBlockHash
    offset,     \* the block the Kafka offset file follows; NoBlock: no file
    mode,       \* "serving", "stopped", or the step a rewind is at
    goal,       \* the block it rewinds to
    unfinished, \* a rewind began to delete and did not publish its head
    advancing,  \* a commit has written its batch and not raised head
    head,       \* StateCache.head
    spans,      \* Entry.spans of a key, {} when it has no entry
    newest,     \* Entry.newest
    volatile,   \* Entry.newest is VOLATILE
    stage,      \* where each reader is
    block,      \* the block its handle is at
    viewHead,   \* its ReadView, or NoView
    snapshot,   \* what its iterators see
    key,        \* the key it is reading
    knew,       \* the entry it missed: none, or its newest and volatile
    found,      \* the span it read
    extra       \* what it tells fold besides: short and newest

diskVars == <<schema, versions, numbers, headers, latest, offset>>
rewindVars == <<mode, goal, unfinished>>
cacheVars == <<head, spans, newest, volatile>>
readerVars == <<stage, block, viewHead, snapshot, key, knew, found, extra>>
vars == <<diskVars, rewindVars, advancing, cacheVars, readerVars>>

NoView == -1
NoSpan == [val |-> NoBlock, hi |-> 0]
NoEntry == [entry |-> FALSE, newest |-> 0, volatile |-> FALSE]
NoExtra == [short |-> FALSE, newest |-> 0]

----------------------------------------------------------------------------
(***************************************************************************)
(* Versions and spans.                                                     *)
(***************************************************************************)

Newest(S) == IF S = {} THEN NoBlock ELSE Top(S)

\* The greatest version of a key at or below height n.
VersionAt(S, n) == Newest({x \in S : Number[x] <= n})

\* What a committed batch holds for k: the diff's keys, and the slots that
\* clear_storage zeroes.
Written(b) == Writes[b] \cup Clears[b]

\* The versions of k on the chain of b, which the archive ought to have.
History(b, k) == {x \in Anc[b] : k \in Written(x)}

Lo(s) == IF s.val = NoBlock THEN 0 ELSE Number[s.val]

\* Mutant of Covers: one block too many.
CoversNext(s, n) == Lo(s) <= n /\ n <= s.hi + 1

Covers(s, n) == Lo(s) <= n /\ n <= s.hi

\* What reader r's database handle sees: its iterators' snapshot, or, on
\* schema v3, the live database through timestamped lookups.
Source(r) == IF schema = "udt" THEN versions ELSE snapshot[r]

Max2(m, n) == IF m >= n THEN m ELSE n

----------------------------------------------------------------------------
(***************************************************************************)
(* Commits.                                                                *)
(***************************************************************************)

\* The records of block b replace the ones of another block at its number.
Put(S, b) == {x \in S : Number[x] # Number[b]} \cup {b}

\* One atomic batch per block.
WriteBatch(b) ==
    /\ mode = "serving"
    /\ ~advancing
    /\ b # Genesis
    /\ Parent[b] = latest
    /\ versions' = [k \in Keys |-> IF k \in Written(b)
                                   THEN Put(versions[k], b) ELSE versions[k]]
    /\ numbers' = Put(numbers, b)
    /\ headers' = headers \cup {b}
    /\ latest' = b
    /\ advancing' = TRUE
    /\ UNCHANGED <<schema, offset, rewindVars, cacheVars, readerVars>>

AdvanceHead ==
    /\ advancing
    /\ head' = Max2(head, Number[latest])
    /\ advancing' = FALSE
    /\ UNCHANGED <<diskVars, rewindVars, spans, newest, volatile, readerVars>>

\* The updater persists its position after a commit (commit_offset).
WriteOffset ==
    /\ mode = "serving"
    /\ ~advancing
    /\ offset # latest
    /\ offset' = latest
    /\ UNCHANGED <<schema, versions, numbers, headers, latest, rewindVars,
                   advancing, cacheVars, readerVars>>

----------------------------------------------------------------------------
(***************************************************************************)
(* Readers.                                                                *)
(***************************************************************************)

Opened(r) == stage[r] \in {"open", "missed", "fetched", "probed"}

\* db_at: the block must be in the block tables.  The view is taken before
\* the iterators are created; a handle above the head gets none.
TakeView(r, b) ==
    /\ mode = "serving"
    /\ stage[r] = "closed"
    /\ b \in numbers \cap headers
    /\ stage' = [stage EXCEPT ![r] = "viewed"]
    /\ block' = [block EXCEPT ![r] = b]
    /\ viewHead' = [viewHead EXCEPT ![r] =
                        IF Number[b] <= head THEN head ELSE NoView]
    /\ UNCHANGED <<diskVars, rewindVars, advancing, cacheVars, snapshot, key,
                   knew, found, extra>>

\* Mutant of CreateIterators: the view is taken again after them.
CreateIteratorsFirst(r) ==
    /\ stage[r] = "viewed"
    /\ stage' = [stage EXCEPT ![r] = "open"]
    /\ snapshot' = [snapshot EXCEPT ![r] =
                        [k \in Keys |-> {x \in versions[k] : Number[x] <=
                            Max2(viewHead[r], Number[block[r]])}]]
    /\ viewHead' = [viewHead EXCEPT ![r] =
                        IF Number[block[r]] <= head THEN head ELSE NoView]
    /\ UNCHANGED <<diskVars, rewindVars, advancing, cacheVars, block, key,
                   knew, found, extra>>

CreateIterators(r) ==
    /\ stage[r] = "viewed"
    /\ stage' = [stage EXCEPT ![r] = "open"]
    /\ snapshot' = [snapshot EXCEPT ![r] =
                        IF schema = "udt" THEN snapshot[r] ELSE versions]
    /\ UNCHANGED <<diskVars, rewindVars, advancing, cacheVars, block, viewHead,
                   key, knew, found, extra>>

\* A lookup no span of the key's entry answers remembers the entry.  A hit,
\* and a read without a view, change nothing.
Miss(r, k) ==
    /\ stage[r] = "open"
    /\ viewHead[r] # NoView
    /\ ~ \E s \in spans[k] : Covers(s, Number[block[r]])
    /\ stage' = [stage EXCEPT ![r] = "missed"]
    /\ key' = [key EXCEPT ![r] = k]
    /\ knew' = [knew EXCEPT ![r] = [entry |-> spans[k] # {},
                                    newest |-> newest[k],
                                    volatile |-> volatile[k]]]
    /\ UNCHANGED <<diskVars, rewindVars, advancing, cacheVars, block, viewHead,
                   snapshot, found, extra>>

KnowsNewerThan(e, v) ==
    IF v = NoBlock THEN e.newest > 0 ELSE e.newest > Number[v]

\* StateCache::probe, for a miss that read version v.
Probes(r, v) ==
    /\ knew[r].entry
    /\ ~ knew[r].volatile
    /\ Number[block[r]] < viewHead[r]
    /\ ~ KnowsNewerThan(knew[r], v)

\* newer_version_bound: step back to the next newer version.
NewerVersionBound(S, n, h) ==
    LET newer == {x \in S : Number[x] > n}
    IN  IF newer # {} /\ Number[Lowest(newer)] - 1 <= h
        THEN [hi |-> Max2(Number[Lowest(newer)] - 1, n), next |-> TRUE]
        ELSE [hi |-> h, next |-> FALSE]

\* Schemas v1 and v2 seek the version and, on v2, probe for the next one under
\* the same iterator lock.  A probe whose iterator fails proves nothing.
Seek(r) ==
    LET S == Source(r)[key[r]]
        n == Number[block[r]]
        v == VersionAt(S, n)
        unprobed == [hi |-> n, next |-> FALSE]
    IN  /\ stage[r] = "missed"
        /\ schema # "udt"
        /\ \E p \in IF schema = "inverted" /\ v # NoBlock /\ Probes(r, v)
                    THEN {NewerVersionBound(S, n, viewHead[r]), unprobed}
                    ELSE {unprobed} :
              LET s == [val |-> v, hi |-> p.hi]
              IN  /\ found' = [found EXCEPT ![r] = s]
                  /\ extra' = [extra EXCEPT ![r] =
                        [short |-> p.next /\ s.hi + 1 - Lo(s) < VolatileSpan,
                         newest |-> 0]]
        /\ stage' = [stage EXCEPT ![r] = "probed"]
        /\ UNCHANGED <<diskVars, rewindVars, advancing, cacheVars, block,
                       viewHead, snapshot, key, knew>>

\* Schema v3 looks the version up at its block ...
Get(r) ==
    LET n == Number[block[r]]
    IN  /\ stage[r] = "missed"
        /\ schema = "udt"
        /\ found' = [found EXCEPT ![r] =
                        [val |-> VersionAt(versions[key[r]], n), hi |-> n]]
        /\ stage' = [stage EXCEPT ![r] = "fetched"]
        /\ UNCHANGED <<diskVars, rewindVars, advancing, cacheVars, block,
                       viewHead, snapshot, key, knew, extra>>

\* Mutant of UdtRecord: the newest version is taken to be the head.
UdtRecordHead(r) ==
    /\ stage[r] = "fetched"
    /\ found' = found
    /\ extra' = [extra EXCEPT ![r].newest = viewHead[r]]
    /\ stage' = [stage EXCEPT ![r] = "probed"]
    /\ UNCHANGED <<diskVars, rewindVars, advancing, cacheVars, block, viewHead,
                   snapshot, key, knew>>

\* ... and, if it probes, at the head: the newest version there is the one
\* read, or bounds the next one from above.
UdtRecord(r) ==
    LET s == found[r]
        top == VersionAt(versions[key[r]], viewHead[r])
        probes == Probes(r, s.val)
        newer == probes /\ top # NoBlock
                 /\ (s.val = NoBlock \/ Number[top] > Lo(s))
    IN  /\ stage[r] = "fetched"
        /\ found' = [found EXCEPT ![r].hi =
                        IF probes /\ ~newer THEN viewHead[r] ELSE s.hi]
        /\ extra' = [extra EXCEPT ![r] =
              [short |-> newer /\ Number[top] - Lo(s) < VolatileSpan,
               newest |-> Max2(Lo(s), IF newer THEN Number[top] ELSE 0)]]
        /\ stage' = [stage EXCEPT ![r] = "probed"]
        /\ UNCHANGED <<diskVars, rewindVars, advancing, cacheVars, block,
                       viewHead, snapshot, key, knew>>

\* Mutant of Merge: the span at the lowest heights is not dropped.
MergeAll(S, s) ==
    {t \in S : t.val # s.val} \cup
    {[s EXCEPT !.hi = IF \E t \in S : t.val = s.val
                      THEN Max2(s.hi, (CHOOSE t \in S : t.val = s.val).hi)
                      ELSE s.hi]}

\* merge: the span extends the one of its version, or is new and, in a full
\* entry, replaces the one at the lowest heights.
Merge(S, s) ==
    LET same == {t \in S : t.val = s.val}
        lowest == {t \in S : \A u \in S : t.hi <= u.hi}
    IN  IF same # {}
        THEN (S \ same) \cup
             {[t EXCEPT !.hi = Max2(t.hi, s.hi)] : t \in same}
        ELSE IF Cardinality(S) = MaxSpans
        THEN (S \ lowest) \cup {s}
        ELSE S \cup {s}

\* The end of a miss.  The span is merged into the entry the key has by now,
\* unless another reader is inserting it.
Fold(r) ==
    LET k == key[r]
        short == extra[r].short \/ volatile[k]
    IN  /\ stage[r] = "probed"
        /\ \/ /\ spans' = [spans EXCEPT ![k] = Merge(spans[k], found[r])]
              /\ volatile' = [volatile EXCEPT ![k] = short]
              /\ newest' = [newest EXCEPT ![k] =
                    IF short THEN 0 ELSE Max2(newest[k], extra[r].newest)]
           \/ UNCHANGED <<spans, newest, volatile>>
        /\ stage' = [stage EXCEPT ![r] = "open"]
        /\ key' = [key EXCEPT ![r] = NoBlock]
        /\ knew' = [knew EXCEPT ![r] = NoEntry]
        /\ found' = [found EXCEPT ![r] = NoSpan]
        /\ extra' = [extra EXCEPT ![r] = NoExtra]
        /\ UNCHANGED <<diskVars, rewindVars, advancing, head, block, viewHead,
                       snapshot>>

\* A reader that is done, failed or timed out.
Close(r) ==
    /\ stage[r] # "closed"
    /\ stage' = [stage EXCEPT ![r] = "closed"]
    /\ block' = [block EXCEPT ![r] = Genesis]
    /\ viewHead' = [viewHead EXCEPT ![r] = NoView]
    /\ snapshot' = [snapshot EXCEPT ![r] = [k \in Keys |-> {}]]
    /\ key' = [key EXCEPT ![r] = NoBlock]
    /\ knew' = [knew EXCEPT ![r] = NoEntry]
    /\ found' = [found EXCEPT ![r] = NoSpan]
    /\ extra' = [extra EXCEPT ![r] = NoExtra]
    /\ UNCHANGED <<diskVars, rewindVars, advancing, cacheVars>>

Evict(k) ==
    /\ spans[k] # {}
    /\ spans' = [spans EXCEPT ![k] = {}]
    /\ newest' = [newest EXCEPT ![k] = 0]
    /\ volatile' = [volatile EXCEPT ![k] = FALSE]
    /\ UNCHANGED <<diskVars, rewindVars, advancing, head, readerVars>>

----------------------------------------------------------------------------
(***************************************************************************)
(* Start, stop and rewind.                                                 *)
(***************************************************************************)

\* No entry, and no handle.
EmptyCache == [spans |-> [k \in Keys |-> {}], newest |-> [k \in Keys |-> 0],
               volatile |-> [k \in Keys |-> FALSE]]

NoHandle == [stage |-> "closed", block |-> Genesis, viewHead |-> NoView,
             snapshot |-> [k \in Keys |-> {}], key |-> NoBlock,
             knew |-> NoEntry, found |-> NoSpan, extra |-> NoExtra]

\* open seeds the head with the latest block's number.
LatestNumber == IF latest \in headers THEN Number[latest] ELSE 0

Init ==
    /\ schema \in {"legacy", "inverted", "udt"}
    /\ versions = [k \in Keys |-> History(Genesis, k)]
    /\ numbers = {Genesis}
    /\ headers = {Genesis}
    /\ latest = Genesis
    /\ offset = NoBlock
    /\ mode = "serving"
    /\ goal = Genesis
    /\ unfinished = FALSE
    /\ advancing = FALSE
    /\ head = LatestNumber
    /\ spans = EmptyCache.spans
    /\ newest = EmptyCache.newest
    /\ volatile = EmptyCache.volatile
    /\ stage = [r \in Readers |-> NoHandle.stage]
    /\ block = [r \in Readers |-> NoHandle.block]
    /\ viewHead = [r \in Readers |-> NoHandle.viewHead]
    /\ snapshot = [r \in Readers |-> NoHandle.snapshot]
    /\ key = [r \in Readers |-> NoHandle.key]
    /\ knew = [r \in Readers |-> NoHandle.knew]
    /\ found = [r \in Readers |-> NoHandle.found]
    /\ extra = [r \in Readers |-> NoHandle.extra]

\* The process ends, by itself or by a crash.
Stop ==
    /\ mode = "serving"
    /\ mode' = "stopped"
    /\ advancing' = FALSE
    /\ head' = 0
    /\ spans' = EmptyCache.spans
    /\ newest' = EmptyCache.newest
    /\ volatile' = EmptyCache.volatile
    /\ stage' = [r \in Readers |-> NoHandle.stage]
    /\ block' = [r \in Readers |-> NoHandle.block]
    /\ viewHead' = [r \in Readers |-> NoHandle.viewHead]
    /\ snapshot' = [r \in Readers |-> NoHandle.snapshot]
    /\ key' = [r \in Readers |-> NoHandle.key]
    /\ knew' = [r \in Readers |-> NoHandle.knew]
    /\ found' = [r \in Readers |-> NoHandle.found]
    /\ extra' = [r \in Readers |-> NoHandle.extra]
    /\ UNCHANGED <<diskVars, goal, unfinished>>

\* docs/ArchiveRewind.md: database users are kept stopped after a rewind that
\* failed.
Start ==
    /\ mode = "stopped"
    /\ ~unfinished
    /\ mode' = "serving"
    /\ head' = LatestNumber
    /\ UNCHANGED <<diskVars, goal, unfinished, advancing, spans, newest, volatile,
                   readerVars>>

RewindOnly == UNCHANGED <<schema, advancing, cacheVars, readerVars>>

\* The prechecks: the head and the target are in both block tables and the
\* target is not above the head.  docs/ArchiveRewind.md asks for a complete
\* history up to the target, which an unfinished rewind has up to its own.
BeginRewind(b) ==
    /\ mode = "stopped"
    /\ latest \in headers
    /\ b \in numbers \cap headers
    /\ Number[b] <= Number[latest]
    /\ unfinished => Number[b] <= Number[goal]
    /\ mode' = "reset"
    /\ goal' = b
    /\ UNCHANGED <<versions, numbers, headers, latest, offset, unfinished>>
    /\ RewindOnly

\* Mutant of ResetOffset: the offset file is kept.
ResetOffsetNot ==
    /\ mode = "reset"
    /\ mode' = IF schema = "udt" THEN "trim" ELSE "accounts"
    /\ unfinished' = TRUE
    /\ UNCHANGED <<versions, numbers, headers, latest, goal, offset>>
    /\ RewindOnly

ResetOffset ==
    /\ mode = "reset"
    /\ offset' = NoBlock
    /\ mode' = IF schema = "udt" THEN "trim" ELSE "accounts"
    /\ unfinished' = TRUE
    /\ UNCHANGED <<versions, numbers, headers, latest, goal>>
    /\ RewindOnly

\* Mutant of RemoveRecord: the target's own records go too.
RemoveRecordFrom(x) == Number[x] >= Number[goal] /\ Number[x] > 0

RemoveRecord(x) == Number[x] > Number[goal]

\* The keys whose versions the current step deletes: schema v3 trims both
\* column families before the block tables are touched.
Truncated ==
    CASE mode = "trim" -> Keys
      [] mode = "accounts" -> Accounts
      [] mode = "storage" -> Keys \ Accounts
      [] OTHER -> {}

\* One record; a batch is several of these with nothing in between.
DeleteVersion(k, x) ==
    /\ k \in Truncated
    /\ x \in versions[k]
    /\ RemoveRecord(x)
    /\ versions' = [versions EXCEPT ![k] = @ \ {x}]
    /\ UNCHANGED <<numbers, headers, latest, offset, mode, goal, unfinished>>
    /\ RewindOnly

DeleteBlock(x) ==
    /\ RemoveRecord(x)
    /\ \/ /\ mode = "numbers" /\ x \in numbers
          /\ numbers' = numbers \ {x}
          /\ UNCHANGED headers
       \/ /\ mode = "headers" /\ x \in headers
          /\ headers' = headers \ {x}
          /\ UNCHANGED numbers
    /\ UNCHANGED <<versions, latest, offset, mode, goal, unfinished>>
    /\ RewindOnly

\* The next table, once nothing of this one is left to delete.
NextTable ==
    /\ \A k \in Truncated, x \in Blocks : x \in versions[k] => ~RemoveRecord(x)
    /\ mode = "numbers" => \A x \in numbers : ~RemoveRecord(x)
    /\ \E step \in {<<"trim", "numbers">>, <<"accounts", "storage">>,
                    <<"storage", "numbers">>, <<"numbers", "headers">>} :
          mode = step[1] /\ mode' = step[2]
    /\ UNCHANGED <<versions, numbers, headers, latest, offset, goal, unfinished>>
    /\ RewindOnly

PublishHead ==
    /\ mode = "headers"
    /\ \A x \in headers : ~RemoveRecord(x)
    /\ latest' = goal
    /\ mode' = "stopped"
    /\ unfinished' = FALSE
    /\ goal' = Genesis
    /\ UNCHANGED <<versions, numbers, headers, offset>>
    /\ RewindOnly

\* A malformed record, a failed write or a crash ends the command.
RewindFails ==
    /\ mode \notin {"serving", "stopped"}
    /\ mode' = "stopped"
    /\ goal' = IF unfinished THEN goal ELSE Genesis
    /\ UNCHANGED <<diskVars, unfinished, advancing, cacheVars, readerVars>>

----------------------------------------------------------------------------

Commit == (\E b \in Blocks : WriteBatch(b)) \/ AdvanceHead \/ WriteOffset

Read(r) ==
    \/ \E b \in Blocks : TakeView(r, b)
    \/ CreateIterators(r)
    \/ \E k \in Keys : Miss(r, k)
    \/ Seek(r)
    \/ Get(r)
    \/ UdtRecord(r)
    \/ Fold(r)
    \/ Close(r)

Rewind ==
    \/ \E b \in Blocks : BeginRewind(b)
    \/ ResetOffset
    \/ \E k \in Keys, x \in Blocks : DeleteVersion(k, x)
    \/ \E x \in Blocks : DeleteBlock(x)
    \/ NextTable
    \/ PublishHead
    \/ RewindFails

Next ==
    \/ Commit
    \/ \E r \in Readers : Read(r)
    \/ \E k \in Keys : Evict(k)
    \/ Stop
    \/ Start
    \/ Rewind

ArchiveSpec == Init /\ [][Next]_vars

----------------------------------------------------------------------------
(***************************************************************************)
(* Properties.                                                             *)
(***************************************************************************)

Span == [val : Blocks \cup {NoBlock}, hi : Nat]

\* Every variable keeps its type, and an entry holds at most MaxSpans spans.
ArchiveTypeOK ==
    /\ schema \in {"legacy", "inverted", "udt"}
    /\ versions \in [Keys -> SUBSET Blocks]
    /\ numbers \in SUBSET Blocks
    /\ headers \in SUBSET Blocks
    /\ latest \in Blocks
    /\ offset \in Blocks \cup {NoBlock}
    /\ mode \in {"serving", "stopped", "reset", "trim", "accounts", "storage",
                 "numbers", "headers"}
    /\ goal \in Blocks
    /\ {unfinished, advancing} \subseteq BOOLEAN
    /\ head \in Nat
    /\ \A k \in Keys : \A s \in spans[k] : s \in Span
    /\ \A k \in Keys : Cardinality(spans[k]) <= MaxSpans
    /\ newest \in [Keys -> Nat]
    /\ volatile \in [Keys -> BOOLEAN]
    /\ stage \in [Readers -> {"closed", "viewed", "open", "missed", "fetched",
                              "probed"}]
    /\ block \in [Readers -> Blocks]
    /\ viewHead \in [Readers -> Nat \cup {NoView}]
    /\ snapshot \in [Readers -> [Keys -> SUBSET Blocks]]
    /\ key \in [Readers -> Keys \cup {NoBlock}]
    /\ knew \in [Readers -> [entry : BOOLEAN, newest : Nat, volatile : BOOLEAN]]
    /\ found \in [Readers -> Span]
    /\ extra \in [Readers -> [short : BOOLEAN, newest : Nat]]

\* At every block the span covers, the archive's answer is its version.
SpanExact(k, s) ==
    /\ s.hi <= Number[latest]
    /\ \A n \in Lo(s)..s.hi : VersionAt(versions[k], n) = s.val

\* A span is right wherever it will ever be used, the cached ones and those on
\* their way into the cache: at every block it covers the archive's answer is
\* its version, and it does not reach above the archive's head, so no later
\* append can make it stale (the "Staying correct" comment of state_cache.rs;
\* new_state_iterators, newer_version_bound, udt_record, commit).
SpansExact ==
    /\ \A k \in Keys : \A s \in spans[k] : SpanExact(k, s)
    /\ \A r \in Readers : stage[r] = "probed" => SpanExact(key[r], found[r])

\* A handle, from the cache or from the database, answers with the state its
\* block had, whatever is committed while it is open (read_account,
\* read_storage_and_height, db_at).
ReadsExact ==
    \A r \in Readers, k \in Keys : Opened(r) =>
        LET n == Number[block[r]]
            right == Newest(History(block[r], k))
            hits == IF viewHead[r] = NoView THEN {}
                    ELSE {s \in spans[k] : Covers(s, n)}
        IN  /\ \A s \in hits : s.val = right
            /\ VersionAt(Source(r)[k], n) = right

\* Whatever readers fold into an entry, it keeps within MaxSpans, and the newest
\* version it knows of exists: a probe is only skipped as useless when there
\* really is a newer version (record_udt, probe, merge).
NewestIsReal ==
    /\ ArchiveTypeOK
    /\ \A k \in Keys : newest[k] > 0 =>
          \E x \in versions[k] : Number[x] = newest[k]

\* The archive holds exactly the history of its head; while a rewind is at
\* work, or after one that failed, it still holds exactly that of the target
\* up to the target (docs/ArchiveRewind.md, remove_record, rewind_to).
ArchiveExact ==
    IF unfinished
    THEN /\ \A k \in Keys :
               {x \in versions[k] : Number[x] <= Number[goal]} = History(goal, k)
         /\ {x \in numbers : Number[x] <= Number[goal]} = Anc[goal]
         /\ Anc[goal] \subseteq headers
    ELSE /\ \A k \in Keys : versions[k] = History(latest, k)
         /\ numbers = Anc[latest]
         /\ headers = Anc[latest]

\* The offset file never stands after a block the archive does not have, at
\* whatever point a rewind or the process ends (reset_offset before the first
\* deletion, the head published last, commit_offset after the commit).
OffsetNotAhead ==
    offset # NoBlock => ~unfinished /\ offset \in Anc[latest]
=============================================================================
