---------------------------- MODULE ArchiveInit ----------------------------
(***************************************************************************)
(* The archive-init command: blocks fetched in any order are put in order, *)
(* cut into batches at checkpoints, built into SST files and ingested by   *)
(* workers that finish in any order, and made reachable in order by the    *)
(* advancer, whose one synced write per drain is what a later run resumes  *)
(* from.  An MDBX archive, and one of schema v3, take shorter ways.        *)
(*                                                                         *)
(* A block is its number: the command loads one finished chain.            *)
(***************************************************************************)
EXTENDS Integers, Sequences, FiniteSets

CONSTANTS
    EndBlock,       \* --end-block
    Interval,       \* --checkpoint-interval
    MaxTasks,       \* --max-tasks
    WorkerCount,    \* INGEST_WORKER_COUNT
    MaxStarts       \* bound on the starts of the command

ASSUME InitAssumption ==
    /\ EndBlock \in Nat
    /\ {Interval, MaxTasks, WorkerCount, MaxStarts} \subseteq Nat \ {0}

VARIABLES
    backend,    \* "sst", "v3" or "mdbx"
    phase,      \* of the command
    starts,     \* how often it was started
    accounts,   \* blocks whose account versions are in the database
    slots,      \* blocks whose storage versions are in it
    synced,     \* the block tables as of the last sync: infos and latest
    log,        \* the small writes since, oldest first: the blocks of each
    fetch,      \* "bundle", "first", "many", and at its end "ok" or "failed"
    upcoming,   \* the next block to fetch
    flying,     \* blocks being fetched
    blockQ,     \* channel to the accumulator
    waiting,    \* blocks it cannot absorb yet
    contiguous, \* max_contiguous
    cut,        \* last_checkpoint_num
    first,      \* first block of the batch it is filling
    nextBatch,  \* batch_seq
    batchQ,     \* channel to the dispatcher
    tasks,      \* ingest workers, running or waiting to be joined
    dispatch,   \* "on", and at its end "ok" or "failed"
    doneQ,      \* channel to the advancer
    arrived,    \* completions ahead of their turn
    nextSeq,    \* the turn
    drain,      \* completions being committed
    final       \* final_contiguous

tableDisk == <<accounts, slots, synced, log>>
fetchVars == <<fetch, upcoming, flying>>
fillVars == <<waiting, contiguous, cut, first, nextBatch>>
advanceVars == <<arrived, nextSeq, drain, final>>
initVars == <<backend, phase, starts, tableDisk, fetchVars, blockQ, fillVars,
              batchQ, tasks, dispatch, doneQ, advanceVars>>

----------------------------------------------------------------------------
(***************************************************************************)
(* The database.                                                           *)
(***************************************************************************)

NoneYet == -1

\* The block tables after a write of the blocks of a range that also makes hi
\* the latest block.
Apply(t, range, hi) == [infos |-> t.infos \cup range, latest |-> hi]

\* The blocks of the first n writes of the log.
Logged(n) == UNION {log[i] : i \in 1..n}

\* The block tables after these: the write that names the latest block is
\* synced, and never in the log.
Tables(n) == [infos |-> synced.infos \cup Logged(n), latest |-> synced.latest]

Now == Tables(Len(log))

\* The blocks whose writes are gone when only n writes of the log survive.
Lost(n) == Logged(Len(log)) \ Tables(n).infos

\* What survives of the versions V: on schema v3 they travel with the log.
Surviving(V, n) == IF backend = "v3" THEN V \ Lost(n) ELSE V

\* The blocks the accumulator has absorbed and not cut off.
Filling == first..contiguous

----------------------------------------------------------------------------
(***************************************************************************)
(* Start.                                                                  *)
(***************************************************************************)

\* get_start_block: the block after the latest one.
StartBlock == Now.latest + 1

Idle ==
    /\ fetch = "ok" /\ flying = {} /\ blockQ = <<>> /\ batchQ = <<>>
    /\ tasks = {} /\ dispatch = "ok" /\ doneQ = <<>>
    /\ waiting = {} /\ arrived = {} /\ drain = <<>>
    /\ upcoming = 0 /\ contiguous = NoneYet /\ cut = 0 /\ first = 0
    /\ nextBatch = 0 /\ nextSeq = 0 /\ final = 0

StartInit ==
    /\ phase \in {"stopped", "failed"}
    /\ starts < MaxStarts
    /\ starts' = starts + 1
    /\ IF StartBlock > EndBlock
       THEN phase' = "done" /\ UNCHANGED <<fetchVars, fillVars, dispatch,
                                           advanceVars>>
       ELSE /\ phase' = "running"
            /\ fetch' \in {"bundle", IF StartBlock > 0 THEN "first" ELSE "many"}
            /\ upcoming' = StartBlock
            /\ flying' = {}
            /\ waiting' = {}
            /\ contiguous' = StartBlock - 1
            /\ cut' = (IF StartBlock = 0 THEN 0 ELSE StartBlock - 1) \div Interval
            /\ first' = StartBlock
            /\ nextBatch' = 0
            /\ dispatch' = "on"
            /\ arrived' = {} /\ nextSeq' = 0 /\ drain' = <<>>
            /\ final' = IF StartBlock = 0 THEN 0 ELSE StartBlock - 1
    /\ blockQ' = <<>> /\ batchQ' = <<>> /\ tasks' = {} /\ doneQ' = <<>>
    /\ UNCHANGED <<backend, tableDisk>>

----------------------------------------------------------------------------
(***************************************************************************)
(* fetch_blocks.                                                           *)
(***************************************************************************)

FetchOnly == UNCHANGED <<backend, phase, starts, tableDisk, fillVars, batchQ,
                         tasks, dispatch, doneQ, advanceVars>>

Fetching == fetch \in {"bundle", "first", "many"}

\* Who takes blocks from the channel: the accumulator, or the checkpoint
\* worker of MDBX.
Receiving == cut # NoneYet

TakeUp ==
    /\ flying' = flying \cup {upcoming}
    /\ upcoming' = upcoming + 1
    /\ UNCHANGED <<fetch, blockQ>>
    /\ FetchOnly

\* Mutant of BeginFetch: the fetches in flight are not bounded.
BeginFetchUnbounded ==
    /\ phase = "running" /\ Fetching
    /\ upcoming <= EndBlock
    /\ TakeUp

\* One block at a time from bundles, and for the first block after them; then
\* up to MaxTasks at once.
BeginFetch ==
    /\ phase = "running" /\ Fetching
    /\ upcoming <= EndBlock
    /\ Cardinality(flying) < IF fetch = "many" THEN MaxTasks ELSE 1
    /\ TakeUp

\* A bundle is missing (each is taken to hold one block): per-block reads for the rest of the run.
LeaveBundles ==
    /\ phase = "running"
    /\ fetch = "bundle" /\ flying = {} /\ upcoming <= EndBlock
    /\ fetch' = IF upcoming > 0 THEN "first" ELSE "many"
    /\ UNCHANGED <<upcoming, flying, blockQ>>
    /\ FetchOnly

SendBlock(n) ==
    /\ phase = "running" /\ Fetching
    /\ n \in flying
    /\ Receiving
    /\ Len(blockQ) < MaxTasks
    /\ blockQ' = Append(blockQ, n)
    /\ flying' = flying \ {n}
    /\ fetch' = IF fetch = "first" THEN "many" ELSE fetch
    /\ UNCHANGED upcoming
    /\ FetchOnly

EndFetch ==
    /\ phase = "running" /\ Fetching
    /\ upcoming > EndBlock /\ flying = {}
    /\ fetch' = "ok"
    /\ UNCHANGED <<upcoming, flying, blockQ>>
    /\ FetchOnly

GiveUp ==
    /\ fetch' = "failed"
    /\ flying' = {}
    /\ UNCHANGED <<upcoming, blockQ>>
    /\ FetchOnly

\* A block that MAX_RETRIES attempts did not get ends every fetch.
FetchFails ==
    /\ phase = "running" /\ Fetching
    /\ flying # {}
    /\ GiveUp

\* So does a channel nobody reads.
SendFails ==
    /\ phase = "running" /\ Fetching
    /\ flying # {} /\ ~Receiving
    /\ GiveUp

----------------------------------------------------------------------------
(***************************************************************************)
(* spawn_rocksdb_batch_accumulator, and spawn_checkpoint_worker.           *)
(***************************************************************************)

AccumulateOnly == UNCHANGED <<backend, phase, starts, fetchVars, tasks, dispatch,
                              doneQ, advanceVars>>

\* A block from the channel, once what could be absorbed has been.
ReceiveBlock ==
    /\ phase = "running" /\ Receiving
    /\ blockQ # <<>>
    /\ contiguous + 1 \notin waiting
    /\ waiting' = waiting \cup {Head(blockQ)}
    /\ blockQ' = Tail(blockQ)
    /\ UNCHANGED <<tableDisk, contiguous, cut, first, nextBatch, batchQ>>
    /\ AccumulateOnly

Batch(n, lo, hi) == [seq |-> n, lo |-> lo, hi |-> hi]

\* Mutant of Absorb: a dispatcher that is gone is waited for.
AbsorbWaits ==
    LET n == contiguous + 1
        full == n \div Interval > cut
    IN  /\ phase = "running" /\ Receiving /\ backend # "mdbx"
        /\ n \in waiting
        /\ contiguous' = n
        /\ waiting' = waiting \ {n}
        /\ \/ /\ ~full
              /\ UNCHANGED <<cut, first, nextBatch, batchQ>>
           \/ /\ full /\ dispatch = "on"
              /\ Len(batchQ) < WorkerCount + 1
              /\ batchQ' = Append(batchQ, Batch(nextBatch, first, n))
              /\ nextBatch' = nextBatch + 1
              /\ cut' = n \div Interval
              /\ first' = n + 1
        /\ UNCHANGED <<tableDisk, blockQ>>
        /\ AccumulateOnly

\* The next block in order; at a checkpoint it closes the batch, which waits
\* for room in the dispatcher's channel.  A dispatcher that is gone ends the
\* accumulator.
Absorb ==
    LET n == contiguous + 1
        full == n \div Interval > cut
    IN  /\ phase = "running" /\ Receiving /\ backend # "mdbx"
        /\ n \in waiting
        /\ contiguous' = n
        /\ waiting' = waiting \ {n}
        /\ \/ /\ ~full
              /\ UNCHANGED <<cut, first, nextBatch, batchQ, blockQ>>
           \/ /\ full /\ dispatch = "on"
              /\ Len(batchQ) < WorkerCount + 1
              /\ batchQ' = Append(batchQ, Batch(nextBatch, first, n))
              /\ nextBatch' = nextBatch + 1
              /\ cut' = n \div Interval
              /\ first' = n + 1
              /\ UNCHANGED blockQ
           \/ /\ full /\ dispatch # "on"
              /\ cut' = NoneYet
              /\ blockQ' = <<>>
              /\ UNCHANGED <<first, nextBatch, batchQ>>
        /\ UNCHANGED tableDisk
        /\ AccumulateOnly

\* Mutant of EndAccumulator: only full batches are sent.
EndAccumulatorFull ==
    /\ phase = "running" /\ Receiving /\ backend # "mdbx"
    /\ fetch \in {"ok", "failed"} /\ blockQ = <<>>
    /\ contiguous + 1 \notin waiting
    /\ cut' = NoneYet
    /\ UNCHANGED <<tableDisk, blockQ, waiting, contiguous, first, nextBatch, batchQ>>
    /\ AccumulateOnly

\* The channel is closed and drained: what is left goes as a last batch.
EndAccumulator ==
    /\ phase = "running" /\ Receiving /\ backend # "mdbx"
    /\ fetch \in {"ok", "failed"} /\ blockQ = <<>>
    /\ contiguous + 1 \notin waiting
    /\ \/ /\ Filling # {} /\ dispatch = "on"
          /\ Len(batchQ) < WorkerCount + 1
          /\ batchQ' = Append(batchQ, Batch(nextBatch, first, contiguous))
       \/ /\ Filling = {} \/ dispatch # "on"
          /\ UNCHANGED batchQ
    /\ cut' = NoneYet
    /\ UNCHANGED <<tableDisk, blockQ, waiting, contiguous, first, nextBatch>>
    /\ AccumulateOnly

\* MDBX: one transaction, synced, holds everything up to the checkpoint.
CommitFilled(hi) ==
    /\ accounts' = accounts \cup first..hi
    /\ slots' = slots \cup first..hi
    /\ synced' = Apply(synced, first..hi, hi)
    /\ first' = hi + 1

MdbxAbsorb ==
    LET n == contiguous + 1
    IN  /\ phase = "running" /\ Receiving /\ backend = "mdbx"
        /\ n \in waiting
        /\ contiguous' = n
        /\ waiting' = waiting \ {n}
        /\ IF n \div Interval > cut
           THEN CommitFilled(n) /\ cut' = n \div Interval
           ELSE UNCHANGED <<accounts, slots, synced, first, cut>>
        /\ UNCHANGED <<log, blockQ, nextBatch, batchQ>>
        /\ AccumulateOnly

EndCheckpointWorker ==
    /\ phase = "running" /\ Receiving /\ backend = "mdbx"
    /\ fetch \in {"ok", "failed"} /\ blockQ = <<>>
    /\ contiguous + 1 \notin waiting
    /\ IF Filling # {} THEN CommitFilled(contiguous)
       ELSE UNCHANGED <<accounts, slots, synced, first>>
    /\ cut' = NoneYet
    /\ final' = contiguous
    /\ UNCHANGED <<backend, phase, starts, log, fetchVars, blockQ, waiting,
                   contiguous, nextBatch, batchQ, tasks, dispatch, doneQ, arrived,
                   nextSeq, drain>>

----------------------------------------------------------------------------
(***************************************************************************)
(* spawn_rocksdb_ingest_dispatcher and its workers.                        *)
(***************************************************************************)

DispatchOnly == UNCHANGED <<backend, phase, starts, fetchVars, blockQ, fillVars,
                            synced, log, advanceVars>>

Joinable == {t \in tasks : t.step \in {"done", "failed"}}

\* The select is biased: with WorkerCount workers a finished one is joined
\* first, but while none is finished the next batch starts one more.
SpawnWorker ==
    /\ phase = "running" /\ dispatch = "on"
    /\ batchQ # <<>>
    /\ Cardinality(tasks) >= WorkerCount => Joinable = {}
    /\ tasks' = tasks \cup {[batch |-> Head(batchQ), step |-> "accounts"]}
    /\ batchQ' = Tail(batchQ)
    /\ UNCHANGED <<accounts, slots, dispatch, doneQ>>
    /\ DispatchOnly

\* ingest_worker_process: the account file is ingested, then the storage
\* file; on schema v3 the versions travel with the small writes instead.
Ingest(t) ==
    /\ phase = "running"
    /\ t \in tasks
    /\ LET range == t.batch.lo..t.batch.hi
           Next(s) == (tasks \ {t}) \cup {[t EXCEPT !.step = s]}
       IN  \/ /\ t.step = "accounts" /\ backend = "v3"
              /\ tasks' = Next("done")
              /\ UNCHANGED <<accounts, slots>>
           \/ /\ t.step = "accounts" /\ backend = "sst"
              /\ accounts' = accounts \cup range
              /\ tasks' = Next("storage")
              /\ UNCHANGED slots
           \/ /\ t.step = "storage" /\ backend = "sst"
              /\ slots' = slots \cup range
              /\ tasks' = Next("done")
              /\ UNCHANGED accounts
           \/ /\ t.step \in {"accounts", "storage"} /\ backend = "sst"
              /\ tasks' = Next("failed")
              /\ UNCHANGED <<accounts, slots>>
    /\ UNCHANGED <<batchQ, dispatch, doneQ>>
    /\ DispatchOnly

\* A finished worker is joined when the pool is full or no batch will come,
\* and handed on when there is room; one that failed ends the dispatcher.
Join(t) ==
    /\ phase = "running" /\ dispatch = "on"
    /\ t \in Joinable
    /\ \/ Cardinality(tasks) >= WorkerCount
       \/ batchQ = <<>> /\ ~Receiving
    /\ \/ /\ t.step = "done"
          /\ Len(doneQ) < WorkerCount + 1
          /\ doneQ' = Append(doneQ, t.batch)
          /\ UNCHANGED <<dispatch, batchQ>>
       \/ /\ t.step = "failed"
          /\ dispatch' = "failed"
          /\ batchQ' = <<>>
          /\ UNCHANGED doneQ
    /\ tasks' = tasks \ {t}
    /\ UNCHANGED <<accounts, slots>>
    /\ DispatchOnly

EndDispatcher ==
    /\ phase = "running" /\ dispatch = "on"
    /\ batchQ = <<>> /\ ~Receiving /\ tasks = {}
    /\ dispatch' = "ok"
    /\ UNCHANGED <<accounts, slots, batchQ, tasks, doneQ>>
    /\ DispatchOnly

----------------------------------------------------------------------------
(***************************************************************************)
(* spawn_rocksdb_watermark_advancer.                                       *)
(***************************************************************************)

AdvanceOnly == UNCHANGED <<backend, phase, starts, fetchVars, blockQ, fillVars,
                           batchQ, tasks, dispatch>>

\* The completions from turn n on that have arrived without a gap.
InOrder(S, n) ==
    LET has == {c.seq : c \in S}
        run == {m \in has : \A i \in n..m : i \in has} \cap {m \in has : m >= n}
    IN  [i \in 1..Cardinality(run) |-> CHOOSE c \in S : c.seq = n + i - 1]

\* Mutant of ReceiveDone: every completion is committed as it arrives.
ReceiveDoneAtOnce ==
    /\ phase = "running"
    /\ doneQ # <<>> /\ drain = <<>>
    /\ drain' = <<Head(doneQ)>>
    /\ nextSeq' = nextSeq + 1
    /\ doneQ' = Tail(doneQ)
    /\ UNCHANGED <<tableDisk, final, arrived>>
    /\ AdvanceOnly

ReceiveDone ==
    /\ phase = "running"
    /\ doneQ # <<>> /\ drain = <<>>
    /\ LET all == arrived \cup {Head(doneQ)}
           ready == InOrder(all, nextSeq)
       IN  /\ drain' = ready
           /\ arrived' = {c \in all : c.seq >= nextSeq + Len(ready)}
           /\ nextSeq' = nextSeq + Len(ready)
    /\ doneQ' = Tail(doneQ)
    /\ UNCHANGED <<tableDisk, final>>
    /\ AdvanceOnly

\* One small write per batch; the last of a drain names the latest block and
\* is synced, which syncs the writes before it.
CommitDrained ==
    LET c == Head(drain)
        range == c.lo..c.hi
        last == Len(drain) = 1
    IN  /\ phase = "running"
        /\ drain # <<>>
        /\ IF last
           THEN /\ synced' = Apply(Now, range, c.hi)
                /\ log' = <<>>
                /\ final' = c.hi
           ELSE /\ log' = Append(log, range)
                /\ UNCHANGED <<synced, final>>
        /\ accounts' = IF backend = "v3" THEN accounts \cup range ELSE accounts
        /\ slots' = IF backend = "v3" THEN slots \cup range ELSE slots
        /\ drain' = Tail(drain)
        /\ UNCHANGED <<doneQ, arrived, nextSeq>>
        /\ AdvanceOnly

----------------------------------------------------------------------------
(***************************************************************************)
(* The end of a run.                                                       *)
(***************************************************************************)

Joined ==
    /\ ~Fetching /\ ~Receiving
    /\ backend # "mdbx" => dispatch # "on" /\ doneQ = <<>> /\ drain = <<>>

\* All tasks are joined before an error is returned; a run that ends short of
\* the end block panics.
Finish ==
    /\ phase = "running" /\ Joined
    /\ phase' = IF fetch = "failed" \/ dispatch = "failed" THEN "failed"
                ELSE IF final < EndBlock THEN "panicked" ELSE "done"
    /\ tasks' = {}
    /\ UNCHANGED <<backend, starts, tableDisk, fetchVars, blockQ, fillVars,
                   batchQ, dispatch, doneQ, advanceVars>>

\* A crash of the machine: of the small writes that were not synced any prefix
\* survives, with the versions that travel with them; what was in memory is gone.
CrashInit ==
    /\ phase = "running"
    /\ phase' = "failed"
    /\ \E n \in 0..Len(log) :
          /\ synced' = Tables(n)
          /\ accounts' = Surviving(accounts, n)
          /\ slots' = Surviving(slots, n)
    /\ log' = <<>>
    /\ fetch' = "ok" /\ flying' = {} /\ blockQ' = <<>> /\ batchQ' = <<>>
    /\ tasks' = {} /\ dispatch' = "ok" /\ doneQ' = <<>>
    /\ waiting' = {} /\ arrived' = {} /\ drain' = <<>>
    /\ upcoming' = 0 /\ contiguous' = NoneYet /\ cut' = 0 /\ first' = 0
    /\ nextBatch' = 0 /\ nextSeq' = 0 /\ final' = 0
    /\ UNCHANGED <<backend, starts>>

ArchiveInitInit ==
    /\ backend \in {"sst", "v3", "mdbx"}
    /\ phase = "stopped"
    /\ starts = 0
    /\ accounts = {} /\ slots = {}
    /\ synced = [infos |-> {}, latest |-> NoneYet]
    /\ log = <<>>
    /\ Idle

Pipeline ==
    \/ BeginFetch \/ LeaveBundles \/ (\E n \in 0..EndBlock : SendBlock(n))
    \/ SendFails \/ EndFetch
    \/ ReceiveBlock \/ Absorb \/ EndAccumulator
    \/ MdbxAbsorb \/ EndCheckpointWorker
    \/ SpawnWorker \/ (\E t \in tasks : Ingest(t) \/ Join(t)) \/ EndDispatcher
    \/ ReceiveDone \/ CommitDrained
    \/ Finish

ArchiveInitNext == StartInit \/ Pipeline \/ FetchFails \/ CrashInit

ArchiveInitSpec == ArchiveInitInit /\ [][ArchiveInitNext]_initVars

----------------------------------------------------------------------------
(***************************************************************************)
(* Properties.                                                             *)
(***************************************************************************)

\* Every variable keeps its type, and the channels their capacities.
InitTypeOK ==
    /\ backend \in {"sst", "v3", "mdbx"}
    /\ phase \in {"stopped", "running", "done", "failed", "panicked"}
    /\ {accounts, slots, synced.infos, flying, waiting} \subseteq SUBSET (0..EndBlock)
    /\ synced.latest \in NoneYet..EndBlock
    /\ Len(blockQ) <= MaxTasks /\ Cardinality(flying) <= MaxTasks
    /\ Len(batchQ) <= WorkerCount + 1 /\ Len(doneQ) <= WorkerCount + 1
    /\ contiguous \in NoneYet..EndBlock
    /\ fetch \in {"bundle", "first", "many", "ok", "failed"}
    /\ dispatch \in {"on", "ok", "failed"}

\* Whatever was fetched, ingested or committed out of order, and however many
\* of the unsynced writes a crash takes, the block a run resumes after and all
\* blocks before it are there in full: infos, account and storage versions
\* (the "Correctness invariant" of archive_init.rs; get_start_block).
ResumePointSound ==
    \A n \in 0..Len(log) :
        0..Tables(n).latest \subseteq Tables(n).infos \cap Surviving(accounts, n)
                                                   \cap Surviving(slots, n)

\* A run in which nothing failed reaches the end block: it never gets to the
\* panic that guards against blocks lost between the stages (run), and one
\* that reports success has loaded the whole chain.
NothingLost ==
    /\ phase # "panicked"
    /\ phase = "done" => synced.latest = EndBlock

\* However the stages fail, a run ends: no stage waits for ever on a channel
\* another one left (the drop of the channels in fetch_blocks, the
\* accumulator, the dispatcher and the advancer).
RunEnds == phase = "running" ~> phase # "running"

\* The load may be stopped at any point and started again, and when it reports
\* success it is complete (get_start_block, run).
LoadSound == InitTypeOK /\ ResumePointSound /\ NothingLost

----------------------------------------------------------------------------
(***************************************************************************)
(* What the steps preserve.                                                *)
(***************************************************************************)

LoadedBlocks == 0..EndBlock
LoadBatches == [seq : Nat, lo : LoadedBlocks, hi : LoadedBlocks]

TableTypes ==
    /\ backend \in {"sst", "v3", "mdbx"}
    /\ phase \in {"stopped", "running", "done", "failed", "panicked"}
    /\ accounts \in SUBSET LoadedBlocks /\ slots \in SUBSET LoadedBlocks
    /\ synced \in [infos : SUBSET LoadedBlocks, latest : NoneYet..EndBlock]
    /\ log \in Seq(SUBSET LoadedBlocks)

FetchTypes ==
    /\ fetch \in {"bundle", "first", "many", "ok", "failed"}
    /\ upcoming \in 0..(EndBlock + 1)
    /\ flying \in SUBSET LoadedBlocks /\ IsFiniteSet(flying)
    /\ Cardinality(flying) <= MaxTasks
    /\ blockQ \in Seq(LoadedBlocks) /\ Len(blockQ) <= MaxTasks

FillTypes ==
    /\ waiting \in SUBSET LoadedBlocks
    /\ contiguous \in NoneYet..EndBlock
    /\ cut \in Nat \cup {NoneYet} /\ first \in Nat /\ nextBatch \in Nat

DispatchTypes ==
    /\ batchQ \in Seq(LoadBatches) /\ Len(batchQ) <= WorkerCount + 1
    /\ tasks \in SUBSET [batch : LoadBatches, step : {"accounts", "storage", "done", "failed"}]
    /\ dispatch \in {"on", "ok", "failed"}
    /\ doneQ \in Seq(LoadBatches) /\ Len(doneQ) <= WorkerCount + 1

AdvanceTypes ==
    /\ arrived \in SUBSET LoadBatches /\ nextSeq \in Nat
    /\ drain \in Seq(LoadBatches) /\ final \in Int

InitTypes == TableTypes /\ FetchTypes /\ FillTypes /\ DispatchTypes /\ AdvanceTypes

Carries(q, x) == \E i \in DOMAIN q : q[i] = x

\* No block is lost on its way to the accumulator, and it stops early only
\* when a fetch or the dispatcher failed.
FetchInv ==
    /\ first <= contiguous + 1
    /\ fetch = "ok" => upcoming = EndBlock + 1 /\ flying = {}
    /\ Receiving /\ fetch # "failed" =>
          \A n \in (contiguous + 1)..(upcoming - 1) :
              n \in waiting \/ n \in flying \/ Carries(blockQ, n)
    /\ ~Receiving => \/ fetch = "failed" \/ dispatch = "failed"
                     \/ fetch = "ok" /\ contiguous = EndBlock

\* A batch is in the dispatcher's channel, with a worker, in the advancer's
\* channel, or waiting for its turn.
Pending(b) ==
    \/ Carries(batchQ, b)
    \/ \E t \in tasks : t.batch = b
    \/ Carries(doneQ, b)
    \/ b \in arrived

\* A worker has handed the batch on, and it is not committed.
Handed(b) == Carries(doneQ, b) \/ b \in arrived \/ Carries(drain, b)

\* The turn of the next batch to commit.
Turn == nextSeq - Len(drain)

\* N batches were sent; batch n holds the blocks c[n]..(c[n + 1] - 1).
SentInv(N, c) ==
    /\ \A n \in 0..(N - 1) : c[n] < c[n + 1]
    /\ Receiving => N = nextBatch /\ c[N] = first
    /\ ~Receiving => \/ fetch = "failed" \/ dispatch = "failed"
                     \/ fetch = "ok" /\ c[N] = EndBlock + 1

IsCut(N, c, b) == b.seq < N /\ b.lo = c[b.seq] /\ b.hi = c[b.seq + 1] - 1

\* The advancer takes them in turn, and none is lost while the dispatcher lives.
TurnInv(N, c) ==
    /\ nextSeq <= N /\ Len(drain) <= nextSeq
    /\ \A b \in LoadBatches : Pending(b) \/ Handed(b) => IsCut(N, c, b)
    /\ \A i \in DOMAIN drain : drain[i].seq = Turn + i - 1
    /\ dispatch # "failed" =>
          \A n \in nextSeq..(N - 1) : \E b \in LoadBatches : Pending(b) /\ b.seq = n

\* What is committed ends where the batch of this turn begins.
CommitInv(c) ==
    /\ synced.latest < c[Turn]
    /\ log = <<>> => c[Turn] = synced.latest + 1
    /\ Logged(Len(log)) = (synced.latest + 1)..(c[Turn] - 1)

AdvancerInv ==
    /\ drain = <<>> => log = <<>>
    /\ final = IF synced.latest = NoneYet THEN 0 ELSE synced.latest
    /\ \A b \in arrived : b.seq # nextSeq
    /\ dispatch = "ok" => batchQ = <<>> /\ tasks = {} /\ ~Receiving

\* The versions of a block are there before its info is.
VersionInv ==
    /\ Logged(Len(log)) \subseteq accounts \cap slots
    /\ backend = "sst" =>
          /\ \A b \in LoadBatches : Handed(b) => b.lo..b.hi \subseteq accounts \cap slots
          /\ \A t \in tasks :
                /\ t.step = "storage" => t.batch.lo..t.batch.hi \subseteq accounts
                /\ t.step = "done" => t.batch.lo..t.batch.hi \subseteq accounts \cap slots

\* The pipeline of an archive with SST files or of schema v3.
PipelineInv ==
    /\ \E N \in Nat, c \in [Nat -> Nat] :
          SentInv(N, c) /\ TurnInv(N, c) /\ CommitInv(c)
    /\ AdvancerInv
    /\ VersionInv

\* The checkpoint worker of MDBX.
CheckpointInv ==
    /\ first = synced.latest + 1 /\ dispatch # "failed"
    /\ batchQ = <<>> /\ tasks = {} /\ doneQ = <<>> /\ drain = <<>> /\ log = <<>>
    /\ ~Receiving => final = contiguous /\ synced.latest = contiguous

\* Everything up to the latest block is there in full.
LoadedInv == 0..synced.latest \subseteq synced.infos \cap accounts \cap slots

InitInv ==
    /\ InitTypes
    /\ LoadedInv
    /\ NothingLost
    /\ phase # "running" => log = <<>>
    /\ phase = "running" =>
          /\ FetchInv
          /\ backend # "mdbx" => PipelineInv
          /\ backend = "mdbx" => CheckpointInv
=============================================================================
