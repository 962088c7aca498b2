-------------------------- MODULE ArchiveInitProofs --------------------------
(***************************************************************************)
(* Theorems about the initial load of an archive, for every chain, every   *)
(* number of concurrent downloads and of ingest workers, every checkpoint  *)
(* interval and the three backends.                                        *)
(***************************************************************************)
EXTENDS ArchiveInit, FiniteSetTheorems, TLAPS

\* Every nonempty set of naturals has a least element.
LEMMA LeastNatural ==
    ASSUME NEW D \in SUBSET Nat, D # {}
    PROVE  \E n \in D : \A m \in D : n <= m
<1> DEFINE R == {ss \in Nat \X Nat : ss[1] < ss[2]}
<1>1. IsWellFoundedOn(R, Nat)
  BY NatLessThanWellFounded DEF OpToRel
<1>2. PICK n \in D : \A m \in D : ~(<<m, n>> \in R)
  <2> HIDE DEF R
  <2> QED BY ZenonT(30), <1>1, WFMin
<1>3. ASSUME NEW m \in D PROVE n <= m
  <2>1. m \in Nat /\ n \in Nat
    OBVIOUS
  <2>2. m < n => <<m, n>> \in R
    BY <2>1
  <2> QED
    BY <1>2, <2>1, <2>2
<1> QED
  BY <1>3


----------------------------------------------------------------------------
(***************************************************************************)
(* Channels, ranges of blocks and the log of small writes.                 *)
(***************************************************************************)

\* What a channel carries after a send (Append), before a receive (Head and
\* Tail), and when it is new.
LEMMA CarriesAppend ==
  ASSUME NEW S, NEW q \in Seq(S), NEW y \in S, NEW x
  PROVE  Carries(Append(q, y), x) <=> Carries(q, x) \/ x = y
<1> DEFINE p == Append(q, y)
<1>1. /\ DOMAIN p = 1..(Len(q) + 1) /\ DOMAIN q = 1..Len(q) /\ Len(q) \in Nat
      /\ \A i \in 1..Len(q) : p[i] = q[i]
      /\ p[Len(q) + 1] = y
  OBVIOUS
<1> HIDE DEF p
<1>2. \A i \in 1..(Len(q) + 1) : i \in 1..Len(q) \/ i = Len(q) + 1
  BY <1>1
<1>3. 1..Len(q) \subseteq 1..(Len(q) + 1) /\ Len(q) + 1 \in 1..(Len(q) + 1)
  BY <1>1
<1>4. Carries(p, x) <=> Carries(q, x) \/ x = y
  BY Zenon, <1>1, <1>2, <1>3 DEF Carries
<1> QED
  BY <1>4 DEF p

\* What is left after a receive, and what was received.
LEMMA CarriesTail ==
  ASSUME NEW S, NEW q \in Seq(S), q # <<>>, NEW x
  PROVE  /\ Carries(q, x) <=> x = Head(q) \/ Carries(Tail(q), x)
         /\ Head(q) \in S /\ Tail(q) \in Seq(S) /\ Len(Tail(q)) = Len(q) - 1
<1>1. /\ DOMAIN q = 1..Len(q) /\ DOMAIN Tail(q) = 1..(Len(q) - 1)
      /\ Len(q) \in Nat /\ Len(q) >= 1 /\ Head(q) = q[1]
      /\ \A i \in 1..(Len(q) - 1) : Tail(q)[i] = q[i + 1]
      /\ Head(q) \in S /\ Tail(q) \in Seq(S) /\ Len(Tail(q)) = Len(q) - 1
  OBVIOUS
<1>2. ASSUME NEW i \in 1..Len(q) PROVE i = 1 \/ (i - 1 \in 1..(Len(q) - 1) /\ (i - 1) + 1 = i)
  BY <1>1
<1>3. ASSUME NEW i \in 1..(Len(q) - 1) PROVE i + 1 \in 1..Len(q)
  BY <1>1
<1>4. 1 \in 1..Len(q)
  BY <1>1
<1>5. ASSUME Carries(q, x) PROVE x = Head(q) \/ Carries(Tail(q), x)
  <2>1. PICK i \in 1..Len(q) : q[i] = x
    BY Zenon, <1>1, <1>5 DEF Carries
  <2>2. CASE i = 1
    BY Zenon, <2>1, <2>2, <1>1
  <2>3. CASE i - 1 \in 1..(Len(q) - 1) /\ (i - 1) + 1 = i
    <3>1. Tail(q)[i - 1] = x
      BY Zenon, <2>1, <2>3, <1>1
    <3> QED
      BY Zenon, <3>1, <2>3, <1>1 DEF Carries
  <2> QED
    BY <1>2, <2>2, <2>3
<1>6. ASSUME x = Head(q) \/ Carries(Tail(q), x) PROVE Carries(q, x)
  BY Zenon, <1>1, <1>3, <1>4, <1>6 DEF Carries
<1> QED
  BY Zenon, <1>1, <1>5, <1>6

\* A new channel carries nothing.
LEMMA CarriesNothing ==
  ASSUME NEW x PROVE ~Carries(<<>>, x)
BY DEF Carries

\* A channel of Ss carries only Ss.
LEMMA CarriesType ==
  ASSUME NEW S, NEW q \in Seq(S), NEW x, Carries(q, x) PROVE x \in S
<1>1. \A i \in DOMAIN q : q[i] \in S
  OBVIOUS
<1> QED
  BY Zenon, <1>1 DEF Carries

\* The first element of a channel, and a channel with one more.
LEMMA QueueFacts ==
  ASSUME NEW S, NEW q \in Seq(S)
  PROVE  /\ Len(q) \in Nat
         /\ q # <<>> => /\ Head(q) = q[1] /\ Head(q) \in S /\ 1 \in DOMAIN q /\ Len(q) >= 1
         /\ \A y \in S : /\ Append(q, y) \in Seq(S) /\ Append(q, y) # <<>>
                         /\ Len(Append(q, y)) = Len(q) + 1
<1>1. Len(q) \in Nat
  OBVIOUS
<1>2. q # <<>> => /\ Head(q) = q[1] /\ Head(q) \in S /\ 1 \in DOMAIN q /\ Len(q) >= 1
  OBVIOUS
<1>3. ASSUME NEW y \in S
      PROVE  /\ Append(q, y) \in Seq(S) /\ Append(q, y) # <<>>
             /\ Len(Append(q, y)) = Len(q) + 1
  <2>1. Append(q, y) \in Seq(S) /\ Len(Append(q, y)) = Len(q) + 1
    OBVIOUS
  <2>2. Len(Append(q, y)) # 0 /\ Len(<<>>) = 0
    BY <1>1, <2>1
  <2> QED
    BY Zenon, <2>1, <2>2
<1> QED
  BY Zenon, <1>1, <1>2, <1>3

\* A receive makes room.
LEMMA QueueTail ==
  ASSUME NEW S, NEW q \in Seq(S), q # <<>>
  PROVE  /\ Tail(q) \in Seq(S) /\ Len(q) \in Nat /\ Len(Tail(q)) = Len(q) - 1
         /\ \A i \in DOMAIN Tail(q) :
               i \in Nat /\ i + 1 \in DOMAIN q /\ Tail(q)[i] = q[i + 1]
OBVIOUS

\* The blocks of a batch.
LEMMA BatchRange ==
  ASSUME NEW b \in LoadBatches
  PROVE  /\ b.lo \in Nat /\ b.hi \in Nat /\ b.hi <= EndBlock
         /\ b.lo \in LoadedBlocks /\ b.hi \in LoadedBlocks
         /\ b.lo..b.hi \in SUBSET LoadedBlocks
<1>1. EndBlock \in Nat
  BY InitAssumption
<1>2. b.lo \in LoadedBlocks /\ b.hi \in LoadedBlocks
  BY DEF LoadBatches
<1> QED
  BY <1>1, <1>2 DEF LoadedBlocks

\* What follows the latest block l, up to a and on to z.
Consecutive(l, a, z) ==
  /\ \A x \in 0..(z - 1) : x \in 0..l \/ x \in (l + 1)..(a - 1) \/ x \in a..(z - 1)
  /\ ((l + 1)..(a - 1)) \cup (a..(z - 1)) = (l + 1)..(z - 1)
  /\ l < z /\ z - 1 < z /\ z = (z - 1) + 1 /\ ((z - 1) + 1)..(z - 1) = {}

\* The blocks of the next batch follow those that are committed.
LEMMA RangeFacts ==
  ASSUME NEW l \in Int, l >= -1, NEW a \in Nat, NEW z \in Nat, l < a, a < z
  PROVE  Consecutive(l, a, z)
BY DEF Consecutive

\* A checkpoint number is a natural number.
LEMMA CheckpointNumber ==
  ASSUME NEW n \in Nat PROVE n \div Interval \in Nat
<1>1. Interval \in Nat /\ Interval > 0
  BY InitAssumption
<1> QED
  BY <1>1

\* The blocks of a log, and of a log with one more write.
LEMMA LoggedMembers ==
  ASSUME NEW n
  PROVE  \A x : x \in Logged(n) <=> \E i \in 1..n : x \in log[i]
BY DEF Logged

\* A write appended to the log adds its blocks and no others.
LEMMA LoggedAppend ==
  ASSUME NEW B, log \in Seq(SUBSET B), NEW r \in SUBSET B, log' = Append(log, r)
  PROVE  Logged(Len(log))' = Logged(Len(log)) \cup r
<1>1. /\ Len(log') = Len(log) + 1 /\ Len(log) \in Nat
      /\ \A i \in 1..Len(log) : log'[i] = log[i]
      /\ log'[Len(log) + 1] = r
  OBVIOUS
<1>2. \A i \in 1..Len(log') : i \in 1..Len(log) \/ i = Len(log) + 1
  BY <1>1
<1>3. 1..Len(log) \subseteq 1..Len(log') /\ Len(log) + 1 \in 1..Len(log')
  BY <1>1
<1>4. ASSUME NEW x
      PROVE  (\E i \in 1..Len(log') : x \in log'[i])
                <=> (\E i \in 1..Len(log) : x \in log[i]) \/ x \in r
  BY Zenon, <1>1, <1>2, <1>3
<1>5. \A x : x \in Logged(Len(log)) <=> \E i \in 1..Len(log) : x \in log[i]
  BY LoggedMembers
<1>6. \A x : x \in Logged(Len(log))' <=> \E i \in 1..Len(log') : x \in log'[i]
  BY DEF Logged
<1> QED
  BY Zenon, <1>4, <1>5, <1>6

\* A synced commit leaves no block in the log.
LEMMA LoggedNothing ==
  log = <<>> => Logged(Len(log)) = {}
BY DEF Logged

\* The drain starts at the turn, has no gap, and stops at the first batch that
\* is not there (the while loop of the advancer).
InOrderResult(S, n, r) ==
  /\ r \in Seq(S)
  /\ \A i \in DOMAIN r : r[i].seq = n + i - 1
  /\ \A b \in S : b.seq # n + Len(r)
  /\ Len(r) > 0 => \E b \in S : b.seq = n + Len(r) - 1

\* InOrder computes such a drain from any batches below a bound.
LEMMA InOrderIs ==
  ASSUME NEW S \in SUBSET LoadBatches, NEW N \in Nat, \A b \in S : b.seq < N,
         NEW n \in Nat
  PROVE  InOrderResult(S, n, InOrder(S, n))
<1> DEFINE has == {c.seq : c \in S}
           run == {m \in has : \A i \in n..m : i \in has} \cap {m \in has : m >= n}
           gaps == {i \in Nat : i >= n /\ i \notin has}
<1>1. /\ has \subseteq Nat /\ \A i \in has : i < N
      /\ \A i : i \in has <=> \E b \in S : b.seq = i
  BY DEF LoadBatches
<1> HIDE DEF has
<1>2. N + n \in gaps
  BY <1>1
<1>3. PICK m \in gaps : \A k \in gaps : m <= k
  <2>1. gaps \subseteq Nat /\ gaps # {}
    BY <1>2
  <2> QED
    BY Zenon, <2>1, LeastNatural
<1>4. m \in Nat /\ m >= n /\ m \notin has
  OBVIOUS
<1>5. \A i \in n..(m - 1) : i \in has
  BY <1>3, <1>4
<1>6. run = n..(m - 1)
  <2>1. ASSUME NEW k \in run PROVE k \in n..(m - 1)
    <3>1. k \in Nat /\ k >= n /\ \A i \in n..k : i \in has
      BY <1>1
    <3>2. ~(m <= k)
      BY <3>1, <1>4
    <3> QED
      BY <3>1, <3>2, <1>4
  <2>2. ASSUME NEW k \in n..(m - 1) PROVE k \in run
    <3>1. k \in Nat /\ k >= n /\ k < m /\ k \in has
      BY <1>4, <1>5
    <3>2. \A i \in n..k : i \in n..(m - 1)
      BY <3>1, <1>4
    <3> QED
      BY <3>1, <3>2, <1>5
  <2> QED
    BY Zenon, <2>1, <2>2
<1>7. Cardinality(run) = m - n
  <2>1. Cardinality(n..(m - 1)) = IF n > m - 1 THEN 0 ELSE (m - 1) - n + 1
    BY <1>4, FS_Interval
  <2>2. Cardinality(run) = Cardinality(n..(m - 1))
    BY Zenon, <1>6
  <2>3. (IF n > m - 1 THEN 0 ELSE (m - 1) - n + 1) = m - n
    BY <1>4
  <2> QED
    BY Zenon, <2>1, <2>2, <2>3
<1> DEFINE r == InOrder(S, n)
<1>8. r = [i \in 1..(m - n) |-> CHOOSE c \in S : c.seq = n + i - 1]
  BY Zenon, <1>7 DEF InOrder, has
<1> HIDE DEF r, run, gaps
<1>9. ASSUME NEW i \in 1..(m - n) PROVE r[i] \in S /\ r[i].seq = n + i - 1
  <2>1. n + i - 1 \in n..(m - 1)
    BY <1>4
  <2>2. \E b \in S : b.seq = n + i - 1
    BY Zenon, <2>1, <1>5, <1>1
  <2>3. r[i] = CHOOSE c \in S : c.seq = n + i - 1
    BY Zenon, <1>8
  <2> QED
    BY Zenon, <2>2, <2>3
<1>10. r \in Seq(S) /\ Len(r) = m - n /\ DOMAIN r = 1..(m - n)
  <2>1. m - n \in Nat
    BY <1>4
  <2>2. DOMAIN r = 1..(m - n)
    BY Zenon, <1>8
  <2>3. r \in [1..(m - n) -> S]
    BY <1>8, <1>9
  <2> QED
    BY <2>1, <2>2, <2>3
<1>11. n + Len(r) = m
  BY <1>10, <1>4
<1>12. \A b \in S : b.seq # n + Len(r)
  BY Zenon, <1>11, <1>4, <1>1
<1>13. Len(r) > 0 => \E b \in S : b.seq = n + Len(r) - 1
  <2>1. Len(r) > 0 => m - 1 \in n..(m - 1) /\ n + Len(r) - 1 = m - 1
    BY <1>10, <1>4
  <2> QED
    BY Zenon, <2>1, <1>5, <1>1
<1>14. InOrderResult(S, n, r)
  BY Zenon, <1>9, <1>10, <1>12, <1>13 DEF InOrderResult
<1> QED
  BY <1>14 DEF r

----------------------------------------------------------------------------

\* The types, in the form the runs check.
LEMMA InitTypesOK == InitTypes => InitTypeOK
<1>1. ASSUME InitTypes
      PROVE  /\ accounts \in SUBSET (0..EndBlock) /\ slots \in SUBSET (0..EndBlock)
             /\ synced.infos \in SUBSET (0..EndBlock)
             /\ flying \in SUBSET (0..EndBlock) /\ waiting \in SUBSET (0..EndBlock)
             /\ synced.latest \in NoneYet..EndBlock
  BY <1>1 DEF InitTypes, TableTypes, FetchTypes, FillTypes, LoadedBlocks
<1> QED
  BY Zenon, <1>1 DEF InitTypes, TableTypes, FetchTypes, FillTypes, DispatchTypes,
     InitTypeOK

\* The facts of the invariant the provers use most.
LEMMA LoadNumbers ==
  ASSUME InitInv
  PROVE  /\ EndBlock \in Nat /\ MaxTasks \in Nat /\ MaxTasks >= 1 /\ WorkerCount \in Nat
         /\ synced.latest \in Int /\ synced.latest >= -1 /\ synced.latest <= EndBlock
         /\ contiguous \in Int /\ contiguous >= -1 /\ contiguous <= EndBlock
         /\ upcoming \in Nat /\ upcoming <= EndBlock + 1
         /\ nextSeq \in Nat /\ nextBatch \in Nat /\ first \in Nat
         /\ Receiving => cut \in Nat
BY InitAssumption DEF InitInv, InitTypes, TableTypes, FetchTypes, FillTypes, AdvanceTypes,
   NoneYet, Receiving

\* A command that has not run yet.
LEMMA LoadStarts == ArchiveInitInit => InitInv
<1> SUFFICES ASSUME ArchiveInitInit PROVE InitInv
  OBVIOUS
<1>0. EndBlock \in Nat /\ MaxTasks \in Nat /\ WorkerCount \in Nat
  BY InitAssumption
<1>1. TableTypes
  BY <1>0 DEF ArchiveInitInit, TableTypes, NoneYet
<1>2. FetchTypes
  <2>1. IsFiniteSet({}) /\ Cardinality({}) = 0
    BY Zenon, FS_EmptySet
  <2>2. flying = {} /\ blockQ = <<>> /\ upcoming = 0 /\ fetch = "ok"
    BY Zenon DEF ArchiveInitInit, Idle
  <2>3. IsFiniteSet(flying) /\ Cardinality(flying) = 0
    BY Zenon, <2>1, <2>2
  <2>4. blockQ \in Seq(LoadedBlocks) /\ Len(blockQ) = 0
    BY <2>2
  <2> QED
    BY <1>0, <2>2, <2>3, <2>4 DEF FetchTypes
<1>3. FillTypes
  BY <1>0 DEF ArchiveInitInit, Idle, FillTypes, NoneYet
<1>4. DispatchTypes
  BY <1>0 DEF ArchiveInitInit, Idle, DispatchTypes
<1>5. AdvanceTypes
  BY <1>0 DEF ArchiveInitInit, Idle, AdvanceTypes
<1>6. LoadedInv
  BY DEF ArchiveInitInit, LoadedInv, NoneYet
<1>7. NothingLost /\ phase # "running" /\ log = <<>>
  BY DEF ArchiveInitInit, NothingLost
<1> QED
  BY Zenon, <1>1, <1>2, <1>3, <1>4, <1>5, <1>6, <1>7 DEF InitInv, InitTypes

\* The write that names the latest block is the last one of the log: what the
\* log holds lies above it.
LEMMA LogIsAbove ==
  ASSUME InitInv, NEW x \in Logged(Len(log)), x \in Int
  PROVE  x > synced.latest /\ phase = "running"
<1>1. log # <<>>
  BY Zenon, LoggedNothing
<1>2. phase = "running" /\ PipelineInv
  BY Zenon, <1>1 DEF InitInv, CheckpointInv
<1>3. PICK N \in Nat, c \in [Nat -> Nat] : CommitInv(c)
  BY Zenon, <1>2 DEF PipelineInv
<1>4. Logged(Len(log)) = (synced.latest + 1)..(c[Turn] - 1)
  BY Zenon, <1>3 DEF CommitInv
<1>5. x >= synced.latest + 1
  BY <1>4
<1>6. synced.latest \in Int
  BY Zenon, LoadNumbers
<1> QED
  BY <1>2, <1>5, <1>6

\* The tables a crash leaves: any part of the log may be gone.
LEMMA CrashLeaves ==
  ASSUME InitInv, NEW n \in 0..Len(log)
  PROVE  /\ Tables(n).latest = synced.latest
         /\ Tables(n) = [infos |-> Tables(n).infos, latest |-> synced.latest]
         /\ Tables(n).infos = synced.infos \cup Logged(n)
         /\ Logged(n) \in SUBSET LoadedBlocks
         /\ 0..synced.latest \subseteq Tables(n).infos \cap Surviving(accounts, n)
                                                       \cap Surviving(slots, n)
<1>1. /\ Tables(n) = [infos |-> synced.infos \cup Logged(n), latest |-> synced.latest]
      /\ Tables(n).latest = synced.latest
      /\ Tables(n).infos = synced.infos \cup Logged(n)
  BY DEF Tables
<1>2. ASSUME NEW x \in 0..synced.latest PROVE x \notin Lost(n)
  <2>1. ~(x > synced.latest) /\ x \in Int
    BY LoadNumbers
  <2>2. x \notin Logged(Len(log))
    BY Zenon, <2>1, LogIsAbove
  <2> QED
    BY Zenon, <2>2 DEF Lost
<1>3. 0..synced.latest \subseteq synced.infos /\ 0..synced.latest \subseteq accounts
      /\ 0..synced.latest \subseteq slots
  BY Zenon DEF InitInv, LoadedInv
<1>4. ASSUME NEW x \in 0..synced.latest
      PROVE  x \in Surviving(accounts, n) /\ x \in Surviving(slots, n)
  BY Zenon, <1>2, <1>3 DEF Surviving
<1>5. Logged(n) \in SUBSET LoadedBlocks
  <2>1. \A i \in 1..n : log[i] \in SUBSET LoadedBlocks
    BY DEF InitInv, InitTypes, TableTypes
  <2> QED
    BY Zenon, <2>1, LoggedMembers
<1> QED
  BY Zenon, <1>1, <1>3, <1>4, <1>5

\* The inductive invariant is at least as strong as what the runs check.
LEMMA LoadResult == InitInv => LoadSound
<1> SUFFICES ASSUME InitInv PROVE LoadSound
  OBVIOUS
<1>1. InitTypeOK /\ NothingLost
  BY Zenon, InitTypesOK DEF InitInv
<1>2. ResumePointSound
  BY Zenon, CrashLeaves DEF ResumePointSound
<1> QED
  BY Zenon, <1>1, <1>2 DEF LoadSound

----------------------------------------------------------------------------

\* The parts of the invariant that a step leaves alone because it leaves their
\* variables alone.
LEMMA LoadFrames ==
  /\ TableTypes /\ UNCHANGED <<backend, phase, tableDisk>> => TableTypes'
  /\ FetchTypes /\ UNCHANGED <<fetchVars, blockQ>> => FetchTypes'
  /\ FillTypes /\ UNCHANGED fillVars => FillTypes'
  /\ DispatchTypes /\ UNCHANGED <<batchQ, tasks, dispatch, doneQ>> => DispatchTypes'
  /\ AdvanceTypes /\ UNCHANGED advanceVars => AdvanceTypes'
  /\ LoadedInv /\ UNCHANGED tableDisk => LoadedInv'
  /\ NothingLost /\ UNCHANGED <<phase, synced>> => NothingLost'
  /\ UNCHANGED log => Logged(Len(log))' = Logged(Len(log))
<1>1. TableTypes /\ UNCHANGED <<backend, phase, tableDisk>> => TableTypes'
  BY DEF TableTypes, tableDisk
<1>2. FetchTypes /\ UNCHANGED <<fetchVars, blockQ>> => FetchTypes'
  BY DEF FetchTypes, fetchVars
<1>3. FillTypes /\ UNCHANGED fillVars => FillTypes'
  BY DEF FillTypes, fillVars
<1>4. DispatchTypes /\ UNCHANGED <<batchQ, tasks, dispatch, doneQ>> => DispatchTypes'
  BY DEF DispatchTypes
<1>5. AdvanceTypes /\ UNCHANGED advanceVars => AdvanceTypes'
  BY DEF AdvanceTypes, advanceVars
<1>6. LoadedInv /\ UNCHANGED tableDisk => LoadedInv'
  BY DEF LoadedInv, tableDisk
<1>7. NothingLost /\ UNCHANGED <<phase, synced>> => NothingLost'
  BY DEF NothingLost
<1>8. UNCHANGED log => Logged(Len(log))' = Logged(Len(log))
  BY DEF Logged
<1> QED
  BY Zenon, <1>1, <1>2, <1>3, <1>4, <1>5, <1>6, <1>7, <1>8

\* Where a batch is depends on the channels, the workers and the drain alone.
LEMMA BatchFrame ==
  ASSUME UNCHANGED <<batchQ, tasks, doneQ, arrived, drain>>
  PROVE  \A b : (Pending(b)' <=> Pending(b)) /\ (Handed(b)' <=> Handed(b))
BY DEF Pending, Handed

\* Steps before the dispatcher's channel do not touch the turns.
LEMMA TurnFrame ==
  ASSUME NEW N, NEW c, TurnInv(N, c),
         UNCHANGED <<batchQ, tasks, dispatch, doneQ, advanceVars>>
  PROVE  TurnInv(N, c)'
<1>1. UNCHANGED <<batchQ, tasks, dispatch, doneQ, arrived, nextSeq, drain>>
  BY DEF advanceVars
<1> QED
  BY <1>1 DEF TurnInv, Pending, Handed, Turn, IsCut

\* Steps that write no block table do not touch what is committed.
LEMMA CommitFrame ==
  ASSUME NEW c, CommitInv(c), UNCHANGED <<synced, log, nextSeq, drain>>
  PROVE  CommitInv(c)'
BY DEF CommitInv, Logged, Turn

\* Steps before the dispatcher's channel do not touch the advancer.
LEMMA AdvancerFrame ==
  ASSUME AdvancerInv,
         UNCHANGED <<tableDisk, advanceVars, batchQ, tasks, dispatch, cut>>
  PROVE  AdvancerInv'
BY DEF AdvancerInv, tableDisk, advanceVars, Receiving

\* Steps that write no versions and move no batch keep the versions in place.
LEMMA VersionFrame ==
  ASSUME VersionInv, UNCHANGED <<backend, tableDisk, doneQ, tasks, advanceVars>>
  PROVE  VersionInv'
<1>1. UNCHANGED <<backend, accounts, slots, log, doneQ, tasks, arrived, drain>>
  BY DEF advanceVars, tableDisk
<1> QED
  BY <1>1 DEF VersionInv, Handed, Logged

\* The fetching tasks touch nothing behind the channel to the accumulator.
LEMMA FetchKeeps ==
  ASSUME InitInv, phase = "running", Fetching, FetchOnly, FetchTypes', FetchInv'
  PROVE  InitInv'
<1>1. /\ UNCHANGED <<backend, phase, tableDisk, fillVars, batchQ, tasks, dispatch,
                     doneQ, advanceVars, synced, cut, first, nextBatch>>
  BY DEF FetchOnly, tableDisk, fillVars
<1>2. InitTypes'
  BY Zenon, <1>1, LoadFrames DEF InitInv, InitTypes
<1>3. LoadedInv' /\ NothingLost' /\ phase' = "running"
  BY Zenon, <1>1, LoadFrames DEF InitInv
<1>4. CASE backend # "mdbx"
  <2>1. PICK N \in Nat, c \in [Nat -> Nat] :
            SentInv(N, c) /\ TurnInv(N, c) /\ CommitInv(c)
    BY Zenon, <1>4 DEF InitInv, PipelineInv
  <2>2. SentInv(N, c)'
    <3>1. fetch # "ok" /\ fetch # "failed"
      BY DEF Fetching
    <3>2. ~Receiving => dispatch = "failed"
      BY Zenon, <2>1, <3>1 DEF SentInv
    <3>3. (Receiving' <=> Receiving) /\ dispatch' = dispatch
      BY <1>1 DEF Receiving
    <3> QED
      BY <1>1, <2>1, <3>2, <3>3 DEF SentInv
  <2>3. TurnInv(N, c)'
    BY Zenon, <2>1, <1>1, TurnFrame
  <2>4. CommitInv(c)'
    <3>1. UNCHANGED <<synced, log, nextSeq, drain>>
      BY <1>1 DEF advanceVars, tableDisk
    <3> QED
      BY Zenon, <2>1, <3>1, CommitFrame
  <2>5. AdvancerInv' /\ VersionInv'
    BY Zenon, <1>1, <1>4, AdvancerFrame, VersionFrame DEF InitInv, PipelineInv
  <2> QED
    BY Zenon, <1>1, <1>2, <1>3, <1>4, <2>2, <2>3, <2>4, <2>5 DEF InitInv, PipelineInv
<1>5. CASE backend = "mdbx"
  <2>1. CheckpointInv'
    BY <1>1, <1>5 DEF InitInv, CheckpointInv, tableDisk, fillVars, advanceVars, Receiving
  <2> QED
    BY Zenon, <1>1, <1>2, <1>3, <1>5, <2>1 DEF InitInv
<1> QED
  BY Zenon, <1>4, <1>5

\* BeginFetch: the new fetch has room, and its block is on its way.
LEMMA BeginFetchKeeps ==
  ASSUME InitInv, BeginFetch PROVE InitInv'
<1>1. /\ phase = "running" /\ Fetching /\ FetchOnly
      /\ flying' = flying \cup {upcoming} /\ upcoming' = upcoming + 1
      /\ fetch' = fetch /\ blockQ' = blockQ /\ upcoming <= EndBlock
      /\ Cardinality(flying) < IF fetch = "many" THEN MaxTasks ELSE 1
  BY DEF BeginFetch, TakeUp
<1>2. /\ waiting' = waiting /\ contiguous' = contiguous /\ cut' = cut /\ first' = first
      /\ dispatch' = dispatch /\ (Receiving' <=> Receiving)
  BY <1>1 DEF FetchOnly, fillVars, Receiving
<1>3. FetchTypes'
  <2>1. IsFiniteSet(flying) /\ Cardinality(flying) \in Nat
    BY Zenon, FS_CardinalityType DEF InitInv, InitTypes, FetchTypes
  <2>2. /\ IsFiniteSet(flying')
        /\ Cardinality(flying') =
              IF upcoming \in flying THEN Cardinality(flying) ELSE Cardinality(flying) + 1
    BY Zenon, <1>1, <2>1, FS_AddElement
  <2>3. Cardinality(flying') <= MaxTasks
    BY <1>1, <2>1, <2>2, LoadNumbers
  <2>4. upcoming \in LoadedBlocks /\ upcoming' \in 0..(EndBlock + 1)
    BY <1>1, LoadNumbers DEF LoadedBlocks
  <2>5. flying' \in SUBSET LoadedBlocks
    BY Zenon, <1>1, <2>4 DEF InitInv, InitTypes, FetchTypes
  <2> QED
    BY Zenon, <1>1, <2>2, <2>3, <2>4, <2>5 DEF InitInv, InitTypes, FetchTypes
<1>4. FetchInv'
  <2>1. FetchInv /\ fetch # "ok" /\ fetch # "failed"
    BY <1>1 DEF InitInv, Fetching
  <2>2. ASSUME Receiving, NEW n \in (contiguous + 1)..(upcoming' - 1)
        PROVE  n \in waiting \/ n \in flying' \/ Carries(blockQ, n)
    <3>1. n = upcoming \/ n \in (contiguous + 1)..(upcoming - 1)
      BY <1>1, LoadNumbers
    <3> QED
      BY Zenon, <1>1, <2>1, <2>2, <3>1 DEF FetchInv
  <2> QED
    BY <1>1, <1>2, <2>1, <2>2 DEF FetchInv
<1> QED
  BY Zenon, <1>1, <1>3, <1>4, FetchKeeps

\* LeaveBundles and EndFetch: the blocks in flight stay as they are.
LEMMA FetchModeKeeps ==
  ASSUME InitInv, phase = "running", Fetching, FetchOnly,
         UNCHANGED <<upcoming, flying, blockQ>>,
         fetch' \in {"first", "many"} \/ (fetch' = "ok" /\ upcoming > EndBlock /\ flying = {})
  PROVE  InitInv'
<1>2. /\ waiting' = waiting /\ contiguous' = contiguous /\ cut' = cut /\ first' = first
      /\ dispatch' = dispatch /\ (Receiving' <=> Receiving)
  BY DEF FetchOnly, fillVars, Receiving
<1>3. FetchTypes'
  BY DEF InitInv, InitTypes, FetchTypes
<1>4. FetchInv'
  <2>1. FetchInv /\ fetch # "ok" /\ fetch # "failed"
    BY DEF InitInv, Fetching
  <2>2. fetch' = "ok" => upcoming = EndBlock + 1 /\ flying = {}
    BY LoadNumbers
  <2> QED
    BY <1>2, <2>1, <2>2 DEF FetchInv
<1> QED
  BY Zenon, <1>3, <1>4, FetchKeeps

\* A fetched block goes into the channel, in any order (buffer_unordered).
LEMMA SendBlockKeeps ==
  ASSUME InitInv, NEW n, SendBlock(n) PROVE InitInv'
<1>1. /\ phase = "running" /\ Fetching /\ FetchOnly /\ Receiving
      /\ n \in flying /\ flying' = flying \ {n} /\ upcoming' = upcoming
      /\ blockQ' = Append(blockQ, n) /\ Len(blockQ) < MaxTasks
      /\ fetch' \in {"bundle", "many"}
  BY DEF SendBlock, Fetching
<1>2. /\ waiting' = waiting /\ contiguous' = contiguous /\ cut' = cut /\ first' = first
      /\ dispatch' = dispatch /\ (Receiving' <=> Receiving)
  BY <1>1 DEF FetchOnly, fillVars, Receiving
<1>3. n \in LoadedBlocks /\ blockQ \in Seq(LoadedBlocks) /\ flying \in SUBSET LoadedBlocks
  BY Zenon, <1>1 DEF InitInv, InitTypes, FetchTypes
<1>4. FetchTypes'
  <2>1. IsFiniteSet(flying) /\ Cardinality(flying) \in Nat /\ Cardinality(flying) <= MaxTasks
    BY Zenon, FS_CardinalityType DEF InitInv, InitTypes, FetchTypes
  <2>2. IsFiniteSet(flying') /\ Cardinality(flying') = Cardinality(flying) - 1
    BY Zenon, <1>1, <2>1, FS_RemoveElement
  <2>3. Cardinality(flying') <= MaxTasks
    BY <2>1, <2>2, LoadNumbers
  <2>4. blockQ' \in Seq(LoadedBlocks) /\ Len(blockQ') <= MaxTasks
    BY <1>1, <1>3, LoadNumbers
  <2>5. flying' \in SUBSET LoadedBlocks /\ fetch' \in {"bundle", "first", "many", "ok", "failed"}
    BY <1>1, <1>3
  <2> QED
    BY Zenon, <1>1, <2>2, <2>3, <2>4, <2>5 DEF InitInv, InitTypes, FetchTypes
<1>5. FetchInv'
  <2>1. FetchInv /\ fetch # "failed" /\ fetch' # "ok" /\ fetch' # "failed"
    BY <1>1 DEF InitInv, Fetching
  <2>2. ASSUME NEW k \in (contiguous + 1)..(upcoming - 1)
        PROVE  k \in waiting \/ k \in flying' \/ Carries(blockQ', k)
    <3>1. k \in waiting \/ k \in flying \/ Carries(blockQ, k)
      BY Zenon, <1>1, <2>1 DEF FetchInv
    <3>2. Carries(blockQ', k) <=> Carries(blockQ, k) \/ k = n
      BY Zenon, <1>1, <1>3, CarriesAppend
    <3> QED
      BY Zenon, <1>1, <3>1, <3>2
  <2> QED
    BY <1>1, <1>2, <2>1, <2>2 DEF FetchInv
<1> QED
  BY Zenon, <1>1, <1>4, <1>5, FetchKeeps

\* FetchFails and SendFails: every fetch is dropped.
LEMMA GiveUpKeeps ==
  ASSUME InitInv, phase = "running", Fetching, GiveUp PROVE InitInv'
<1>1. /\ FetchOnly /\ fetch' = "failed" /\ flying' = {} /\ upcoming' = upcoming
      /\ blockQ' = blockQ
  BY DEF GiveUp
<1>2. first' = first /\ contiguous' = contiguous
  BY <1>1 DEF FetchOnly, fillVars
<1>3. FetchTypes'
  <2>1. IsFiniteSet({}) /\ Cardinality({}) = 0
    BY Zenon, FS_EmptySet
  <2>2. IsFiniteSet(flying') /\ Cardinality(flying') = 0
    BY Zenon, <1>1, <2>1
  <2> QED
    BY <1>1, <2>2, LoadNumbers DEF InitInv, InitTypes, FetchTypes
<1>4. FetchInv'
  BY <1>1, <1>2 DEF InitInv, FetchInv
<1> QED
  BY Zenon, <1>1, <1>3, <1>4, FetchKeeps

----------------------------------------------------------------------------

\* The accumulator's state matters to the later stages only through what it
\* sent, and whether it still may send.
LEMMA SentFrame ==
  ASSUME NEW N, NEW c, SentInv(N, c),
         UNCHANGED <<fetch, dispatch, cut, first, nextBatch>>
  PROVE  SentInv(N, c)'
BY DEF SentInv, Receiving

\* Steps before the accumulator's cut do not touch the pipeline.
LEMMA PipelineFrame ==
  ASSUME PipelineInv,
         UNCHANGED <<backend, tableDisk, fetch, cut, first, nextBatch, batchQ, tasks,
                     dispatch, doneQ, advanceVars>>
  PROVE  PipelineInv'
<1>1. PICK N \in Nat, c \in [Nat -> Nat] : SentInv(N, c) /\ TurnInv(N, c) /\ CommitInv(c)
  BY Zenon DEF PipelineInv
<1>2. UNCHANGED <<synced, log, nextSeq, drain>>
  BY DEF advanceVars, tableDisk
<1>3. SentInv(N, c)' /\ TurnInv(N, c)' /\ CommitInv(c)'
  BY Zenon, <1>1, <1>2, SentFrame, TurnFrame, CommitFrame
<1>4. AdvancerInv' /\ VersionInv'
  BY Zenon, AdvancerFrame, VersionFrame DEF PipelineInv
<1> QED
  BY Zenon, <1>3, <1>4 DEF PipelineInv

\* A batch that was cut stays cut when one more is.
LEMMA CutExtends ==
  ASSUME NEW N \in Nat, NEW c \in [Nat -> Nat], NEW v \in Nat, NEW b \in LoadBatches,
         IsCut(N, c, b)
  PROVE  IsCut(N + 1, [c EXCEPT ![N + 1] = v], b)
<1>1. b.seq \in Nat /\ b.seq < N /\ b.lo = c[b.seq] /\ b.hi = c[b.seq + 1] - 1
  BY DEF IsCut, LoadBatches
<1>2. b.seq # N + 1 /\ b.seq + 1 # N + 1 /\ b.seq < N + 1
  BY <1>1
<1>3. /\ [c EXCEPT ![N + 1] = v][b.seq] = c[b.seq]
      /\ [c EXCEPT ![N + 1] = v][b.seq + 1] = c[b.seq + 1]
  BY <1>1, <1>2
<1> QED
  BY <1>1, <1>2, <1>3 DEF IsCut

\* A batch closed at hi and sent to the dispatcher goes on where the one
\* before it ended (the send in the accumulator's checkpoint and tail branches).
LEMMA SendBatchKeeps ==
  ASSUME InitInv, phase = "running", backend # "mdbx", Receiving, dispatch = "on",
         NEW hi \in LoadedBlocks, first <= hi,
         batchQ' = Append(batchQ, Batch(nextBatch, first, hi)),
         UNCHANGED <<backend, tableDisk, fetchVars, tasks, dispatch, doneQ, advanceVars>>,
         Receiving' => nextBatch' = nextBatch + 1 /\ first' = hi + 1,
         ~Receiving' => fetch = "failed" \/ (fetch = "ok" /\ hi = EndBlock)
  PROVE  PipelineInv' /\ batchQ' \in Seq(LoadBatches)
<1>0. /\ first \in Nat /\ nextBatch \in Nat /\ hi \in Nat /\ EndBlock \in Nat
      /\ hi <= EndBlock /\ nextSeq \in Nat
  BY LoadNumbers DEF LoadedBlocks
<1>1. PICK N \in Nat, c \in [Nat -> Nat] : SentInv(N, c) /\ TurnInv(N, c) /\ CommitInv(c)
  BY Zenon DEF InitInv, PipelineInv
<1>2. N = nextBatch /\ c[N] = first
  BY Zenon, <1>1 DEF SentInv
<1>3. PICK new : new = Batch(nextBatch, first, hi)
  OBVIOUS
<1>4. /\ new \in LoadBatches /\ new.seq = N /\ new.lo = c[N] /\ new.hi = hi
  BY <1>0, <1>2, <1>3 DEF Batch, LoadBatches, LoadedBlocks
<1>5. batchQ \in Seq(LoadBatches) /\ batchQ' = Append(batchQ, new)
  BY Zenon, <1>3 DEF InitInv, InitTypes, DispatchTypes
<1>6. PICK d : d = [c EXCEPT ![N + 1] = hi + 1]
  OBVIOUS
<1>7. /\ d \in [Nat -> Nat] /\ d[N + 1] = hi + 1
      /\ \A k \in Nat : k <= N => d[k] = c[k]
  <2>1. hi + 1 \in Nat /\ N + 1 \in Nat /\ DOMAIN c = Nat
    BY <1>0
  <2>2. d \in [Nat -> Nat] /\ d[N + 1] = hi + 1 /\ \A k \in Nat : k # N + 1 => d[k] = c[k]
    BY Zenon, <1>6, <2>1
  <2>3. \A k \in Nat : k <= N => k # N + 1
    OBVIOUS
  <2> QED
    BY Zenon, <2>2, <2>3
<1>8. SentInv(N + 1, d)'
  <2>1. ASSUME NEW k \in 0..((N + 1) - 1) PROVE d[k] < d[k + 1]
    <3>1. CASE k = N
      BY <1>0, <1>2, <1>7, <3>1
    <3>2. CASE k # N
      <4>1. k \in Nat /\ k <= N /\ k + 1 <= N /\ k + 1 \in Nat /\ k \in 0..(N - 1)
        BY <3>2
      <4>2. d[k] = c[k] /\ d[k + 1] = c[k + 1]
        BY Zenon, <1>7, <4>1
      <4>3. c[k] < c[k + 1]
        BY Zenon, <1>1, <4>1 DEF SentInv
      <4> QED
        BY Zenon, <4>2, <4>3
    <3> QED
      BY Zenon, <3>1, <3>2
  <2>2. Receiving' => N + 1 = nextBatch' /\ d[N + 1] = first'
    BY <1>2, <1>7
  <2>3. ~Receiving' => fetch' = "failed" \/ (fetch' = "ok" /\ d[N + 1] = EndBlock + 1)
    BY <1>7 DEF fetchVars
  <2> QED
    BY Zenon, <2>1, <2>2, <2>3 DEF SentInv
<1>9. UNCHANGED <<tasks, dispatch, doneQ, arrived, nextSeq, drain, synced, log>>
  BY DEF advanceVars, tableDisk
<1>10. ASSUME NEW b
       PROVE  (Pending(b)' <=> Pending(b) \/ b = new) /\ (Handed(b)' <=> Handed(b))
  <2>1. Carries(batchQ', b) <=> Carries(batchQ, b) \/ b = new
    <3>1. Carries(Append(batchQ, new), b) <=> Carries(batchQ, b) \/ b = new
      BY <1>4, <1>5, CarriesAppend
    <3> QED
      BY Zenon, <1>5, <3>1
  <2>2. Pending(b)' <=> (Carries(batchQ', b) \/ (\E t \in tasks : t.batch = b)
                          \/ Carries(doneQ, b) \/ b \in arrived)
    BY <1>9 DEF Pending
  <2>3. Handed(b)' <=> Handed(b)
    BY <1>9 DEF Handed
  <2> QED
    BY Zenon, <2>1, <2>2, <2>3 DEF Pending
<1>11. TurnInv(N + 1, d)'
  <2>1. nextSeq' <= N + 1 /\ Len(drain') <= nextSeq'
    BY <1>0, <1>1, <1>9 DEF TurnInv
  <2>2. ASSUME NEW b \in LoadBatches, Pending(b)' \/ Handed(b)'
        PROVE  IsCut(N + 1, d, b)
    <3>1. CASE b = new
      <4>1. new.seq < N + 1 /\ new.lo = d[new.seq] /\ new.hi = d[new.seq + 1] - 1
        <5>1. d[N] = c[N]
          BY <1>7
        <5>2. hi = d[N + 1] - 1
          BY <1>0, <1>7
        <5> QED
          BY <1>4, <5>1, <5>2
      <4> QED
        BY Zenon, <3>1, <4>1 DEF IsCut
    <3>2. CASE Pending(b) \/ Handed(b)
      <4>1. IsCut(N, c, b)
        BY Zenon, <1>1, <3>2 DEF TurnInv
      <4>2. IsCut(N + 1, [c EXCEPT ![N + 1] = hi + 1], b)
        <5>1. hi + 1 \in Nat
          BY <1>0
        <5> QED
          BY Zenon, <4>1, <5>1, CutExtends
      <4> QED
        BY Zenon, <4>2, <1>6
    <3> QED
      BY Zenon, <1>10, <2>2, <3>1, <3>2
  <2>3. \A i \in DOMAIN drain' : drain'[i].seq = Turn' + i - 1
    BY <1>1, <1>9 DEF TurnInv, Turn
  <2>4. ASSUME NEW n \in nextSeq'..((N + 1) - 1)
        PROVE  \E b \in LoadBatches : Pending(b)' /\ b.seq = n
    <3>1. n = N \/ n \in nextSeq..(N - 1)
      BY <1>0, <1>9
    <3>2. CASE n = N
      BY Zenon, <1>4, <1>10, <3>2
    <3>3. CASE n \in nextSeq..(N - 1)
      <4>1. dispatch # "failed"
        OBVIOUS
      <4>2. \E b \in LoadBatches : Pending(b) /\ b.seq = n
        BY Zenon, <1>1, <3>3, <4>1 DEF TurnInv
      <4> QED
        BY Zenon, <4>2, <1>10
    <3> QED
      BY Zenon, <3>1, <3>2, <3>3
  <2> QED
    BY Zenon, <2>1, <2>2, <2>3, <2>4 DEF TurnInv
<1>12. CommitInv(d)'
  <2>1. CommitInv(c)'
    BY Zenon, <1>1, <1>9, CommitFrame
  <2>2. Turn \in Nat /\ Turn <= N /\ Turn' = Turn
    <3>1. Len(drain) \in Nat /\ Len(drain) <= nextSeq /\ nextSeq <= N
      BY <1>1 DEF TurnInv, InitInv, InitTypes, AdvanceTypes
    <3> QED
      BY <1>0, <1>9, <3>1 DEF Turn
  <2>3. d[Turn'] = c[Turn']
    BY Zenon, <1>7, <2>2
  <2> QED
    BY <2>1, <2>3 DEF CommitInv
<1>13. AdvancerInv'
  BY <1>9 DEF InitInv, PipelineInv, AdvancerInv, advanceVars
<1>14. VersionInv'
  BY Zenon, VersionFrame DEF InitInv, PipelineInv
<1>15. batchQ' \in Seq(LoadBatches)
  BY <1>4, <1>5
<1>16. N + 1 \in Nat
  OBVIOUS
<1> QED
  BY Zenon, <1>7, <1>8, <1>11, <1>12, <1>13, <1>14, <1>15, <1>16 DEF PipelineInv

\* An accumulator that ends without sending: nothing is left to send, or
\* another stage failed.
LEMMA StopSendingKeeps ==
  ASSUME InitInv, phase = "running", backend # "mdbx", Receiving, ~Receiving',
         UNCHANGED <<backend, tableDisk, fetchVars, batchQ, tasks, dispatch, doneQ,
                     advanceVars>>,
         \/ fetch = "failed" \/ dispatch = "failed"
         \/ fetch = "ok" /\ first = EndBlock + 1
  PROVE  PipelineInv'
<1>1. PICK N \in Nat, c \in [Nat -> Nat] : SentInv(N, c) /\ TurnInv(N, c) /\ CommitInv(c)
  BY Zenon DEF InitInv, PipelineInv
<1>2. SentInv(N, c)'
  BY <1>1 DEF SentInv, fetchVars
<1>3. UNCHANGED <<synced, log, nextSeq, drain>>
  BY DEF advanceVars, tableDisk
<1>4. TurnInv(N, c)' /\ CommitInv(c)' /\ VersionInv'
  BY Zenon, <1>1, <1>3, TurnFrame, CommitFrame, VersionFrame DEF InitInv, PipelineInv
<1>5. AdvancerInv'
  BY DEF InitInv, PipelineInv, AdvancerInv, advanceVars, tableDisk
<1> QED
  BY Zenon, <1>2, <1>4, <1>5 DEF PipelineInv

\* A block taken from the channel waits for its turn.
LEMMA ReceiveBlockKeeps ==
  ASSUME InitInv, ReceiveBlock PROVE InitInv'
<1>1. /\ phase = "running" /\ Receiving /\ blockQ # <<>>
      /\ waiting' = waiting \cup {Head(blockQ)} /\ blockQ' = Tail(blockQ)
      /\ UNCHANGED <<backend, phase, tableDisk, fetchVars, contiguous, cut, first,
                     nextBatch, batchQ, tasks, dispatch, doneQ, advanceVars>>
  BY DEF ReceiveBlock, AccumulateOnly
<1>2. UNCHANGED <<fetch, upcoming, flying, synced, log, final>>
  BY <1>1 DEF fetchVars, tableDisk, advanceVars
<1>3. blockQ \in Seq(LoadedBlocks) /\ Len(blockQ) \in Nat /\ Len(blockQ) <= MaxTasks
  BY DEF InitInv, InitTypes, FetchTypes
<1>4. /\ Head(blockQ) \in LoadedBlocks /\ blockQ' \in Seq(LoadedBlocks)
      /\ Len(blockQ') <= MaxTasks
  <2>1. Head(blockQ) \in LoadedBlocks /\ Tail(blockQ) \in Seq(LoadedBlocks)
        /\ Len(Tail(blockQ)) = Len(blockQ) - 1
    BY Zenon, <1>1, <1>3, CarriesTail
  <2>2. Len(Tail(blockQ)) <= MaxTasks
    BY <1>3, <2>1, LoadNumbers
  <2> QED
    BY Zenon, <1>1, <2>1, <2>2
<1>5. FetchTypes' /\ FillTypes'
  <2>1. FetchTypes'
    BY Zenon, <1>2, <1>4 DEF InitInv, InitTypes, FetchTypes
  <2>2. FillTypes'
    BY Zenon, <1>1, <1>4 DEF InitInv, InitTypes, FillTypes
  <2> QED
    BY Zenon, <2>1, <2>2
<1>6. InitTypes' /\ LoadedInv' /\ NothingLost' /\ phase' = "running"
  BY Zenon, <1>1, <1>2, <1>5, LoadFrames DEF InitInv, InitTypes
<1>7. FetchInv'
  <2>1. FetchInv
    BY Zenon, <1>1 DEF InitInv
  <2>2. ASSUME fetch # "failed", NEW k \in (contiguous + 1)..(upcoming - 1)
        PROVE  k \in waiting' \/ k \in flying \/ Carries(blockQ', k)
    <3>1. k \in waiting \/ k \in flying \/ Carries(blockQ, k)
      BY Zenon, <1>1, <2>1, <2>2 DEF FetchInv
    <3>2. Carries(blockQ, k) <=> k = Head(blockQ) \/ Carries(Tail(blockQ), k)
      BY Zenon, <1>1, <1>3, CarriesTail
    <3> QED
      BY Zenon, <1>1, <3>1, <3>2
  <2> QED
    BY <1>1, <1>2, <2>1, <2>2 DEF FetchInv, Receiving
<1>8. backend # "mdbx" => PipelineInv'
  BY Zenon, <1>1, <1>2, PipelineFrame DEF InitInv
<1>9. backend = "mdbx" => CheckpointInv'
  BY <1>1, <1>2 DEF InitInv, CheckpointInv, Receiving, advanceVars
<1> QED
  BY Zenon, <1>1, <1>6, <1>7, <1>8, <1>9 DEF InitInv

\* The next block in order leaves those that wait, and no other block does.
LEMMA AbsorbsNext ==
  ASSUME InitInv, phase = "running", Receiving, contiguous + 1 \in waiting,
         contiguous' = contiguous + 1, waiting' = waiting \ {contiguous + 1},
         UNCHANGED <<fetchVars, dispatch>>,
         first' = first \/ first' = contiguous + 2,
         Receiving' => UNCHANGED blockQ,
         ~Receiving' => dispatch = "failed",
         cut' \in Nat \cup {NoneYet}, nextBatch' \in Nat
  PROVE  /\ FetchInv' /\ FillTypes'
         /\ contiguous + 1 \in LoadedBlocks /\ first <= contiguous + 1
<1>1. UNCHANGED <<fetch, upcoming, flying>>
  BY DEF fetchVars
<1>2. FetchInv
  BY Zenon DEF InitInv
<1>3. contiguous + 1 \in LoadedBlocks /\ first <= contiguous + 1 /\ first \in Nat
  BY Zenon, <1>2 DEF InitInv, InitTypes, FillTypes, FetchInv
<1>4. first' \in Nat /\ first' <= contiguous' + 1
  BY <1>3, LoadNumbers
<1>5. contiguous' \in NoneYet..EndBlock
  BY <1>3, LoadNumbers DEF NoneYet, LoadedBlocks
<1>6. FillTypes'
  <2>1. waiting' \in SUBSET LoadedBlocks
    BY Zenon DEF InitInv, InitTypes, FillTypes
  <2> QED
    BY Zenon, <1>4, <1>5, <2>1 DEF FillTypes
<1>7. ASSUME Receiving', fetch # "failed", NEW k \in (contiguous' + 1)..(upcoming - 1)
      PROVE  k \in waiting' \/ k \in flying \/ Carries(blockQ', k)
  <2>1. k # contiguous + 1 /\ k \in (contiguous + 1)..(upcoming - 1)
    BY LoadNumbers
  <2>2. k \in waiting \/ k \in flying \/ Carries(blockQ, k)
    BY Zenon, <1>2, <1>7, <2>1 DEF FetchInv
  <2> QED
    BY Zenon, <1>7, <2>1, <2>2
<1>8. fetch = "ok" => upcoming = EndBlock + 1 /\ flying = {}
  BY Zenon, <1>2 DEF FetchInv
<1>9. FetchInv'
  BY Zenon, <1>1, <1>4, <1>7, <1>8 DEF FetchInv
<1> QED
  BY Zenon, <1>3, <1>6, <1>9

\* The accumulator takes the next block in order, and cuts a batch at the end of
\* a checkpoint interval.
LEMMA AbsorbKeeps ==
  ASSUME InitInv, Absorb PROVE InitInv'
<1> DEFINE n == contiguous + 1
           full == n \div Interval > cut
<1>1. /\ phase = "running" /\ Receiving /\ backend # "mdbx" /\ n \in waiting
      /\ contiguous' = n /\ waiting' = waiting \ {n}
      /\ UNCHANGED <<backend, phase, tableDisk, fetchVars, tasks, dispatch, doneQ,
                     advanceVars>>
      /\ \/ ~full /\ UNCHANGED <<cut, first, nextBatch, batchQ, blockQ>>
         \/ /\ full /\ dispatch = "on" /\ Len(batchQ) < WorkerCount + 1
            /\ batchQ' = Append(batchQ, Batch(nextBatch, first, n))
            /\ nextBatch' = nextBatch + 1
            /\ cut' = n \div Interval
            /\ first' = n + 1 /\ UNCHANGED blockQ
         \/ /\ full /\ dispatch # "on"
            /\ cut' = NoneYet /\ blockQ' = <<>>
            /\ UNCHANGED <<first, nextBatch, batchQ>>
  BY DEF Absorb, AccumulateOnly
<1>2. UNCHANGED <<fetch, upcoming, flying, synced, log>>
  BY <1>1 DEF fetchVars, tableDisk
<1>3. cut \in Nat /\ nextBatch \in Nat /\ n \div Interval \in Nat /\ NoneYet \notin Nat
      /\ nextBatch + 1 \in Nat /\ n + 1 = contiguous + 2
  <2>1. n \in Nat
    BY LoadNumbers
  <2>2. n \div Interval \in Nat
    BY Zenon, <2>1, CheckpointNumber
  <2>3. cut \in Nat /\ nextBatch \in Nat /\ contiguous \in Int
    BY Zenon, <1>1, LoadNumbers
  <2>4. NoneYet \notin Nat /\ nextBatch + 1 \in Nat /\ n + 1 = contiguous + 2
    BY <2>3 DEF NoneYet
  <2> QED
    BY Zenon, <2>2, <2>3, <2>4
<1> HIDE DEF full
<1>4. dispatch # "on" => dispatch = "failed"
  BY <1>1 DEF InitInv, InitTypes, DispatchTypes, PipelineInv, AdvancerInv
<1>5. LoadedInv' /\ NothingLost' /\ phase' = "running" /\ TableTypes' /\ AdvanceTypes'
  BY Zenon, <1>1, <1>2, LoadFrames DEF InitInv, InitTypes
<1>6. SUFFICES FetchInv' /\ FillTypes' /\ PipelineInv' /\ FetchTypes' /\ DispatchTypes'
  BY Zenon, <1>1, <1>5 DEF InitInv, InitTypes
<1>7. CASE ~full /\ UNCHANGED <<cut, first, nextBatch, batchQ, blockQ>>
  <2>1. FetchInv' /\ FillTypes'
    BY Zenon, <1>1, <1>3, <1>7, AbsorbsNext DEF Receiving
  <2>2. PipelineInv'
    BY Zenon, <1>1, <1>2, <1>7, PipelineFrame DEF InitInv
  <2> QED
    BY Zenon, <1>1, <1>7, <2>1, <2>2, LoadFrames DEF InitInv, InitTypes
<1>8. CASE /\ full /\ dispatch = "on" /\ Len(batchQ) < WorkerCount + 1
           /\ batchQ' = Append(batchQ, Batch(nextBatch, first, n))
           /\ nextBatch' = nextBatch + 1
           /\ cut' = n \div Interval
           /\ first' = n + 1 /\ UNCHANGED blockQ
  <2>0. Receiving' /\ cut' \in Nat
    BY <1>3, <1>8 DEF Receiving, NoneYet
  <2>1. FetchInv' /\ FillTypes' /\ n \in LoadedBlocks /\ first <= n
    BY Zenon, <1>1, <1>3, <1>8, <2>0, AbsorbsNext
  <2>2. PipelineInv' /\ batchQ' \in Seq(LoadBatches)
    BY Zenon, <1>1, <1>8, <2>0, <2>1, SendBatchKeeps
  <2>3. Len(batchQ') <= WorkerCount + 1
    <3>1. Len(batchQ') = Len(batchQ) + 1 /\ Len(batchQ) \in Nat
      BY <1>8 DEF InitInv, InitTypes, DispatchTypes
    <3>2. WorkerCount \in Nat /\ Len(batchQ) < WorkerCount + 1
      BY Zenon, <1>8, LoadNumbers
    <3> QED
      BY <3>1, <3>2
  <2>4. FetchTypes' /\ DispatchTypes'
    BY Zenon, <1>1, <1>8, <2>2, <2>3, LoadFrames DEF InitInv, InitTypes, DispatchTypes
  <2> QED
    BY Zenon, <2>1, <2>2, <2>4
<1>9. CASE /\ full /\ dispatch # "on"
           /\ cut' = NoneYet /\ blockQ' = <<>>
           /\ UNCHANGED <<first, nextBatch, batchQ>>
  <2>0. ~Receiving'
    BY <1>9 DEF Receiving
  <2>1. FetchInv' /\ FillTypes'
    BY Zenon, <1>1, <1>3, <1>4, <1>9, <2>0, AbsorbsNext
  <2>2. PipelineInv'
    BY Zenon, <1>1, <1>4, <1>9, <2>0, StopSendingKeeps
  <2>3. blockQ' \in Seq(LoadedBlocks) /\ Len(blockQ') <= MaxTasks
    BY <1>9, LoadNumbers
  <2>4. FetchTypes' /\ DispatchTypes'
    BY Zenon, <1>1, <1>2, <1>9, <2>3, LoadFrames DEF InitInv, InitTypes, FetchTypes
  <2> QED
    BY Zenon, <2>1, <2>2, <2>4
<1> QED
  BY Zenon, <1>1, <1>7, <1>8, <1>9

\* When the channel is closed and empty after a fetch that succeeded, every
\* block has been absorbed.
LEMMA AllAbsorbed ==
  ASSUME InitInv, phase = "running", Receiving, blockQ = <<>>, fetch = "ok",
         contiguous + 1 \notin waiting
  PROVE  contiguous = EndBlock
<1>1. upcoming = EndBlock + 1 /\ flying = {}
  BY Zenon DEF InitInv, FetchInv
<1>2. SUFFICES ASSUME contiguous # EndBlock PROVE FALSE
  OBVIOUS
<1>3. contiguous + 1 \in (contiguous + 1)..(upcoming - 1)
  BY <1>1, <1>2, LoadNumbers
<1>4. fetch # "failed"
  OBVIOUS
<1>5. Carries(blockQ, contiguous + 1)
  BY Zenon, <1>1, <1>3, <1>4 DEF InitInv, FetchInv
<1> QED
  BY Zenon, <1>5, CarriesNothing

\* The accumulator's last batch, when the channel has closed.
LEMMA EndAccumulatorKeeps ==
  ASSUME InitInv, EndAccumulator PROVE InitInv'
<1>1. /\ phase = "running" /\ Receiving /\ backend # "mdbx"
      /\ fetch \in {"ok", "failed"} /\ blockQ = <<>> /\ contiguous + 1 \notin waiting
      /\ cut' = NoneYet
      /\ UNCHANGED <<backend, phase, tableDisk, fetchVars, blockQ, waiting, contiguous,
                     first, nextBatch, tasks, dispatch, doneQ, advanceVars>>
      /\ \/ /\ Filling # {} /\ dispatch = "on"
            /\ Len(batchQ) < WorkerCount + 1
            /\ batchQ' = Append(batchQ, Batch(nextBatch, first, contiguous))
         \/ (Filling = {} \/ dispatch # "on") /\ UNCHANGED batchQ
  BY DEF EndAccumulator, AccumulateOnly
<1>2. UNCHANGED <<fetch, upcoming, flying, synced, log>> /\ ~Receiving'
  BY <1>1 DEF fetchVars, tableDisk, Receiving
<1>3. fetch = "failed" \/ (fetch = "ok" /\ contiguous = EndBlock)
  BY <1>1, AllAbsorbed
<1>4. LoadedInv' /\ NothingLost' /\ phase' = "running" /\ TableTypes' /\ AdvanceTypes'
      /\ FetchTypes'
  BY Zenon, <1>1, <1>2, LoadFrames DEF InitInv, InitTypes
<1>5. FillTypes'
  BY Zenon, <1>1 DEF InitInv, InitTypes, FillTypes
<1>6. FetchInv'
  BY <1>1, <1>2, <1>3 DEF InitInv, FetchInv
<1>7. SUFFICES PipelineInv' /\ DispatchTypes'
  BY Zenon, <1>1, <1>4, <1>5, <1>6 DEF InitInv, InitTypes
<1>8. CASE /\ Filling # {} /\ dispatch = "on"
           /\ Len(batchQ) < WorkerCount + 1
           /\ batchQ' = Append(batchQ, Batch(nextBatch, first, contiguous))
  <2>1. contiguous \in LoadedBlocks /\ first <= contiguous
    BY <1>8, LoadNumbers DEF Filling, LoadedBlocks
  <2>2. PipelineInv' /\ batchQ' \in Seq(LoadBatches)
    BY Zenon, <1>1, <1>2, <1>3, <1>8, <2>1, SendBatchKeeps
  <2>3. Len(batchQ') = Len(batchQ) + 1 /\ Len(batchQ) \in Nat
    BY <1>8 DEF InitInv, InitTypes, DispatchTypes
  <2>4. WorkerCount \in Nat /\ Len(batchQ) < WorkerCount + 1
    BY Zenon, <1>8, LoadNumbers
  <2>5. Len(batchQ') <= WorkerCount + 1
    BY <2>3, <2>4
  <2> QED
    BY Zenon, <1>1, <2>2, <2>5 DEF InitInv, InitTypes, DispatchTypes
<1>9. CASE (Filling = {} \/ dispatch # "on") /\ UNCHANGED batchQ
  <2>1. dispatch # "on" => dispatch = "failed"
    BY <1>1 DEF InitInv, InitTypes, DispatchTypes, PipelineInv, AdvancerInv
  <2>2. Filling = {} => first = contiguous + 1
    <3>1. first <= contiguous + 1 /\ first \in Int /\ contiguous \in Int
      BY <1>1, LoadNumbers DEF InitInv, FetchInv
    <3> QED
      BY <3>1 DEF Filling
  <2>3. \/ fetch = "failed" \/ dispatch = "failed"
        \/ fetch = "ok" /\ first = EndBlock + 1
    BY <1>3, <1>9, <2>1, <2>2
  <2>4. PipelineInv'
    BY Zenon, <1>1, <1>2, <1>9, <2>3, StopSendingKeeps
  <2> QED
    BY Zenon, <1>1, <1>9, <2>4, LoadFrames DEF InitInv, InitTypes
<1> QED
  BY Zenon, <1>1, <1>8, <1>9

\* A checkpoint of MDBX goes on where the one before it ended.
LEMMA CommitFilledKeeps ==
  ASSUME InitInv, phase = "running", backend = "mdbx", UNCHANGED <<backend, phase, log>>,
         NEW hi \in LoadedBlocks, first <= hi, CommitFilled(hi)
  PROVE  /\ TableTypes' /\ LoadedInv' /\ NothingLost'
         /\ synced'.latest = hi /\ first' = hi + 1
<1>1. /\ accounts' = accounts \cup (first..hi) /\ slots' = slots \cup (first..hi)
      /\ synced' = [infos |-> synced.infos \cup (first..hi), latest |-> hi]
      /\ first' = hi + 1
  BY DEF CommitFilled, Apply
<1>2. synced'.latest = hi /\ synced'.infos = synced.infos \cup (first..hi)
  BY <1>1
<1>3. first = synced.latest + 1 /\ first \in Nat /\ hi \in Nat /\ EndBlock \in Nat
      /\ hi <= EndBlock /\ synced.latest \in Int /\ log = <<>>
  BY LoadNumbers DEF LoadedBlocks, InitInv, CheckpointInv
<1>4. first..hi \subseteq LoadedBlocks /\ hi \in NoneYet..EndBlock
  BY <1>3 DEF LoadedBlocks, NoneYet
<1>5. \A x \in 0..hi : x \in 0..synced.latest \/ x \in first..hi
  BY <1>3
<1>6. LoadedInv'
  BY Zenon, <1>1, <1>2, <1>5 DEF InitInv, LoadedInv
<1>7. TableTypes'
  <2>1. /\ accounts' \in SUBSET LoadedBlocks /\ slots' \in SUBSET LoadedBlocks
        /\ synced.infos \cup (first..hi) \in SUBSET LoadedBlocks
    BY <1>1, <1>4 DEF InitInv, InitTypes, TableTypes
  <2>2. synced' \in [infos : SUBSET LoadedBlocks, latest : NoneYet..EndBlock]
    BY <1>1, <1>4, <2>1
  <2> QED
    BY Zenon, <2>1, <2>2 DEF InitInv, InitTypes, TableTypes
<1>8. NothingLost'
  BY DEF NothingLost
<1> QED
  BY Zenon, <1>1, <1>2, <1>6, <1>7, <1>8

\* The MDBX worker takes the next block, and commits at the end of an interval.
LEMMA MdbxAbsorbKeeps ==
  ASSUME InitInv, MdbxAbsorb PROVE InitInv'
<1> DEFINE n == contiguous + 1
<1>1. /\ phase = "running" /\ Receiving /\ backend = "mdbx" /\ n \in waiting
      /\ contiguous' = n /\ waiting' = waiting \ {n}
      /\ UNCHANGED <<log, blockQ, nextBatch, batchQ, backend, phase, fetchVars, tasks,
                     dispatch, doneQ, advanceVars>>
      /\ \/ CommitFilled(n) /\ cut' = n \div Interval
         \/ UNCHANGED <<accounts, slots, synced, first, cut>>
  BY DEF MdbxAbsorb, AccumulateOnly
<1>2. cut \in Nat /\ nextBatch \in Nat /\ n \div Interval \in Nat
  <2>1. n \in Nat /\ cut \in Nat /\ nextBatch \in Nat
    BY <1>1, LoadNumbers
  <2> QED
    BY Zenon, <2>1, CheckpointNumber
<1>3. cut' \in Nat /\ Receiving'
  <2>1. cut' \in Nat
    BY Zenon, <1>1, <1>2
  <2> QED
    BY <2>1 DEF Receiving, NoneYet
<1>4. first' = first \/ first' = contiguous + 2
  BY <1>1, LoadNumbers DEF CommitFilled
<1>5. FetchInv' /\ FillTypes' /\ n \in LoadedBlocks /\ first <= n
  BY Zenon, <1>1, <1>2, <1>3, <1>4, AbsorbsNext
<1>6. FetchTypes' /\ DispatchTypes' /\ AdvanceTypes' /\ phase' = "running"
  BY Zenon, <1>1, LoadFrames DEF InitInv, InitTypes
<1>7. TableTypes' /\ LoadedInv' /\ NothingLost' /\ CheckpointInv'
  <2>1. CASE CommitFilled(n)
    <3>1. /\ TableTypes' /\ LoadedInv' /\ NothingLost'
          /\ synced'.latest = n /\ first' = n + 1
      BY Zenon, <1>1, <1>5, <2>1, CommitFilledKeeps
    <3>2. CheckpointInv'
      BY <1>1, <1>3, <3>1 DEF InitInv, CheckpointInv, advanceVars
    <3> QED
      BY Zenon, <3>1, <3>2
  <2>2. CASE UNCHANGED <<accounts, slots, synced, first, cut>>
    <3>1. UNCHANGED tableDisk
      BY <1>1, <2>2 DEF tableDisk
    <3>2. CheckpointInv'
      BY <1>1, <1>3, <2>2 DEF InitInv, CheckpointInv, advanceVars
    <3> QED
      BY Zenon, <1>1, <2>2, <3>1, <3>2, LoadFrames DEF InitInv, InitTypes
  <2> QED
    BY Zenon, <1>1, <2>1, <2>2
<1> QED
  BY Zenon, <1>1, <1>5, <1>6, <1>7 DEF InitInv, InitTypes

\* The MDBX worker's last commit, when the channel has closed.
LEMMA EndCheckpointWorkerKeeps ==
  ASSUME InitInv, EndCheckpointWorker PROVE InitInv'
<1>1. /\ phase = "running" /\ Receiving /\ backend = "mdbx"
      /\ fetch \in {"ok", "failed"} /\ blockQ = <<>> /\ contiguous + 1 \notin waiting
      /\ cut' = NoneYet /\ final' = contiguous
      /\ UNCHANGED <<backend, phase, log, fetchVars, blockQ, waiting, contiguous,
                     nextBatch, batchQ, tasks, dispatch, doneQ, arrived, nextSeq, drain>>
      /\ \/ Filling # {} /\ CommitFilled(contiguous)
         \/ Filling = {} /\ UNCHANGED <<accounts, slots, synced, first>>
  BY DEF EndCheckpointWorker
<1>2. UNCHANGED <<fetch, upcoming, flying>> /\ ~Receiving'
  BY <1>1 DEF fetchVars, Receiving
<1>3. fetch = "failed" \/ (fetch = "ok" /\ contiguous = EndBlock)
  BY <1>1, AllAbsorbed
<1>4. FetchTypes' /\ DispatchTypes' /\ phase' = "running"
  BY Zenon, <1>1, LoadFrames DEF InitInv, InitTypes
<1>5. AdvanceTypes'
  <2>1. final' \in Int
    BY <1>1, LoadNumbers
  <2> QED
    BY Zenon, <1>1, <2>1 DEF InitInv, InitTypes, AdvanceTypes
<1>6. first <= contiguous + 1 /\ first \in Int /\ contiguous \in Int
      /\ first = synced.latest + 1 /\ synced.latest \in Int
  BY <1>1, LoadNumbers DEF InitInv, FetchInv, CheckpointInv
<1>7. /\ TableTypes' /\ LoadedInv' /\ NothingLost'
      /\ synced'.latest = contiguous /\ first' = contiguous + 1
  <2>1. CASE Filling # {} /\ CommitFilled(contiguous)
    <3>1. contiguous \in LoadedBlocks /\ first <= contiguous
      BY <2>1, LoadNumbers DEF Filling, LoadedBlocks
    <3> QED
      BY Zenon, <1>1, <2>1, <3>1, CommitFilledKeeps
  <2>2. CASE Filling = {} /\ UNCHANGED <<accounts, slots, synced, first>>
    <3>1. UNCHANGED tableDisk
      BY <1>1, <2>2 DEF tableDisk
    <3>2. synced'.latest = contiguous /\ first' = contiguous + 1
      BY <1>6, <2>2 DEF Filling
    <3> QED
      BY Zenon, <1>1, <2>2, <3>1, <3>2, LoadFrames DEF InitInv, InitTypes
  <2> QED
    BY Zenon, <1>1, <2>1, <2>2
<1>8. FillTypes'
  <2>1. first' \in Nat
    BY <1>7, LoadNumbers
  <2> QED
    BY Zenon, <1>1, <2>1 DEF InitInv, InitTypes, FillTypes
<1>9. FetchInv'
  BY <1>1, <1>2, <1>3, <1>6, <1>7 DEF InitInv, FetchInv
<1>10. CheckpointInv'
  BY <1>1, <1>7 DEF InitInv, CheckpointInv
<1> QED
  BY Zenon, <1>1, <1>4, <1>5, <1>7, <1>8, <1>9, <1>10 DEF InitInv, InitTypes

----------------------------------------------------------------------------

\* What no step behind the accumulator touches.
LEMMA FetchFrame ==
  ASSUME FetchInv, UNCHANGED <<fetchVars, blockQ, fillVars>>,
         dispatch = "failed" => dispatch' = "failed"
  PROVE  FetchInv'
BY DEF FetchInv, fetchVars, fillVars, Receiving

\* A step of the dispatcher or a worker loses no batch while the dispatcher
\* lives, and makes none up.
LEMMA DispatchKeeps ==
  ASSUME InitInv, phase = "running", backend # "mdbx", DispatchOnly, DispatchTypes',
         VersionInv',
         accounts \subseteq accounts' /\ accounts' \in SUBSET LoadedBlocks,
         slots \subseteq slots' /\ slots' \in SUBSET LoadedBlocks,
         \A b \in LoadBatches : Pending(b)' \/ Handed(b)' => Pending(b) \/ Handed(b),
         dispatch' # "failed" =>
            dispatch # "failed" /\ \A b \in LoadBatches : Pending(b) => Pending(b)',
         dispatch' = "ok" => batchQ' = <<>> /\ tasks' = {} /\ ~Receiving
  PROVE  InitInv'
<1>1. UNCHANGED <<backend, phase, synced, log, fetchVars, blockQ, fillVars, advanceVars>>
  BY DEF DispatchOnly
<1>2. UNCHANGED <<fetch, cut, first, nextBatch, arrived, nextSeq, drain, final>>
  BY <1>1 DEF fetchVars, fillVars, advanceVars
<1>3. TableTypes' /\ FetchTypes' /\ FillTypes' /\ AdvanceTypes'
  <2>1. TableTypes'
    BY Zenon, <1>1 DEF InitInv, InitTypes, TableTypes
  <2> QED
    BY Zenon, <1>1, <2>1, LoadFrames DEF InitInv, InitTypes
<1>4. NothingLost' /\ phase' = "running"
  BY Zenon, <1>1, LoadFrames DEF InitInv
<1>5. LoadedInv'
  <2>1. 0..synced'.latest = 0..synced.latest /\ synced'.infos = synced.infos
    BY Zenon, <1>1
  <2> QED
    BY Zenon, <2>1 DEF InitInv, LoadedInv
<1>6. FetchInv'
  BY Zenon, <1>1, FetchFrame DEF InitInv
<1>7. PICK N \in Nat, c \in [Nat -> Nat] : SentInv(N, c) /\ TurnInv(N, c) /\ CommitInv(c)
  BY Zenon DEF InitInv, PipelineInv
<1>8. SentInv(N, c)'
  BY <1>2, <1>7 DEF SentInv, Receiving
<1>9. TurnInv(N, c)'
  <2>1. nextSeq' <= N /\ Len(drain') <= nextSeq'
    BY <1>2, <1>7 DEF TurnInv
  <2>2. \A b \in LoadBatches : Pending(b)' \/ Handed(b)' => IsCut(N, c, b)
    BY Zenon, <1>7 DEF TurnInv
  <2>3. \A i \in DOMAIN drain' : drain'[i].seq = Turn' + i - 1
    BY <1>2, <1>7 DEF TurnInv, Turn
  <2>4. ASSUME dispatch' # "failed", NEW n \in nextSeq'..(N - 1)
        PROVE  \E b \in LoadBatches : Pending(b)' /\ b.seq = n
    BY Zenon, <1>2, <1>7, <2>4 DEF TurnInv
  <2> QED
    BY Zenon, <2>1, <2>2, <2>3, <2>4 DEF TurnInv
<1>10. CommitInv(c)'
  BY Zenon, <1>1, <1>2, <1>7, CommitFrame
<1>11. AdvancerInv'
  BY <1>1, <1>2 DEF InitInv, PipelineInv, AdvancerInv, Receiving
<1> QED
  BY Zenon, <1>1, <1>3, <1>4, <1>5, <1>6, <1>8, <1>9, <1>10, <1>11
     DEF InitInv, InitTypes, PipelineInv

\* The types of the dispatcher's variables, one by one.
LEMMA DispatchFacts ==
  ASSUME InitInv, phase = "running"
  PROVE  /\ accounts \in SUBSET LoadedBlocks /\ slots \in SUBSET LoadedBlocks
         /\ batchQ \in Seq(LoadBatches) /\ doneQ \in Seq(LoadBatches)
         /\ Len(batchQ) \in Nat /\ Len(batchQ) <= WorkerCount + 1
         /\ Len(doneQ) \in Nat /\ Len(doneQ) <= WorkerCount + 1
         /\ \A t \in tasks : t.batch \in LoadBatches
         /\ tasks \in SUBSET [batch : LoadBatches, step : {"accounts", "storage", "done", "failed"}]
         /\ dispatch \in {"on", "ok", "failed"}
         /\ backend # "mdbx" => VersionInv
         /\ backend = "mdbx" => batchQ = <<>> /\ tasks = {} /\ doneQ = <<>> /\ drain = <<>>
<1>1. TableTypes /\ DispatchTypes
  BY Zenon DEF InitInv, InitTypes
<1>2. /\ Len(batchQ) \in Nat /\ Len(doneQ) \in Nat
      /\ \A t \in tasks : t.batch \in LoadBatches
  BY <1>1 DEF DispatchTypes
<1>3. backend # "mdbx" => VersionInv
  BY Zenon DEF InitInv, PipelineInv
<1>4. backend = "mdbx" => batchQ = <<>> /\ tasks = {} /\ doneQ = <<>> /\ drain = <<>>
  BY Zenon DEF InitInv, CheckpointInv
<1> QED
  BY Zenon, <1>1, <1>2, <1>3, <1>4 DEF TableTypes, DispatchTypes

\* SpawnWorker: the batch moves from the channel to a worker.
LEMMA SpawnWorkerKeeps ==
  ASSUME InitInv, SpawnWorker PROVE InitInv'
<1>1. PICK t : t = [batch |-> Head(batchQ), step |-> "accounts"]
  OBVIOUS
<1>2. /\ phase = "running" /\ dispatch = "on" /\ batchQ # <<>>
      /\ tasks' = tasks \cup {t} /\ batchQ' = Tail(batchQ)
      /\ UNCHANGED <<accounts, slots, dispatch, doneQ>> /\ DispatchOnly
  BY <1>1 DEF SpawnWorker
<1>3. backend # "mdbx"
  BY Zenon, <1>2, DispatchFacts
<1>4. UNCHANGED <<backend, log, arrived, drain>>
  BY <1>2 DEF DispatchOnly, advanceVars
<1>5. Head(batchQ) \in LoadBatches /\ batchQ' \in Seq(LoadBatches) /\ Len(batchQ') = Len(batchQ) - 1
  BY Zenon, <1>2, DispatchFacts, CarriesTail
<1>6. t.batch = Head(batchQ) /\ t.step = "accounts"
      /\ t \in [batch : LoadBatches, step : {"accounts", "storage", "done", "failed"}]
  BY <1>1, <1>5
<1>7. DispatchTypes'
  <2>1. Len(batchQ') <= WorkerCount + 1
    BY <1>2, <1>5, DispatchFacts, LoadNumbers
  <2> QED
    BY Zenon, <1>2, <1>5, <1>6, <2>1 DEF InitInv, InitTypes, DispatchTypes
<1>8. ASSUME NEW b PROVE (Pending(b)' <=> Pending(b)) /\ (Handed(b)' <=> Handed(b))
  <2>1. Carries(batchQ, b) <=> b = Head(batchQ) \/ Carries(batchQ', b)
    BY Zenon, <1>2, DispatchFacts, CarriesTail
  <2>2. (\E u \in tasks' : u.batch = b) <=> (\E u \in tasks : u.batch = b) \/ b = Head(batchQ)
    BY Zenon, <1>2, <1>6
  <2>3. Pending(b)' <=> (Carries(batchQ', b) \/ (\E u \in tasks' : u.batch = b)
                          \/ Carries(doneQ, b) \/ b \in arrived)
    BY <1>2, <1>4 DEF Pending
  <2>4. Handed(b)' <=> Handed(b)
    BY <1>2, <1>4 DEF Handed
  <2> QED
    BY Zenon, <2>1, <2>2, <2>3, <2>4 DEF Pending
<1>9. VersionInv'
  <2>1. VersionInv
    BY Zenon, <1>2, <1>3, DispatchFacts
  <2>2. Logged(Len(log))' = Logged(Len(log))
    BY Zenon, <1>4, LoadFrames
  <2>3. "accounts" # "storage" /\ "accounts" # "done"
    OBVIOUS
  <2> QED
    BY Zenon, <1>2, <1>4, <1>6, <1>8, <2>1, <2>2, <2>3 DEF VersionInv
<1>10. dispatch' # "failed" /\ dispatch' # "ok" /\ dispatch # "failed"
  BY <1>2
<1>11. /\ accounts \subseteq accounts' /\ accounts' \in SUBSET LoadedBlocks
       /\ slots \subseteq slots' /\ slots' \in SUBSET LoadedBlocks
  BY Zenon, <1>2, DispatchFacts
<1> QED
  BY Zenon, <1>2, <1>3, <1>7, <1>8, <1>9, <1>10, <1>11, DispatchKeeps

\* Ingest: a worker that goes on keeps its batch, and is done only with both
\* files ingested.
LEMMA WorkerKeeps ==
  ASSUME InitInv, phase = "running", DispatchOnly, UNCHANGED <<batchQ, dispatch, doneQ>>,
         NEW t \in tasks, NEW s \in {"storage", "done", "failed"}, NEW u,
         u.batch = t.batch, u.step = s,
         u \in [batch : LoadBatches, step : {"accounts", "storage", "done", "failed"}],
         tasks' = (tasks \ {t}) \cup {u},
         t.step # "done", t.step # "failed",
         NEW range, range = t.batch.lo..t.batch.hi,
         accounts' = accounts \/ accounts' = accounts \cup range,
         slots' = slots \/ slots' = slots \cup range,
         backend = "sst" => /\ s = "storage" => range \subseteq accounts'
                            /\ s = "done" => range \subseteq accounts' \cap slots'
  PROVE  InitInv'
<1>1. backend # "mdbx" /\ t.batch \in LoadBatches
  BY Zenon, DispatchFacts
<1>2. UNCHANGED <<backend, log, arrived, drain>>
  BY DEF DispatchOnly, advanceVars
<1>3. range \in SUBSET LoadedBlocks
  BY Zenon, <1>1, BatchRange
<1>4. /\ accounts \subseteq accounts' /\ accounts' \in SUBSET LoadedBlocks
      /\ slots \subseteq slots' /\ slots' \in SUBSET LoadedBlocks
  BY Zenon, <1>3, DispatchFacts
<1>5. DispatchTypes'
  BY Zenon DEF InitInv, InitTypes, DispatchTypes
<1>6. ASSUME NEW b PROVE (Pending(b)' <=> Pending(b)) /\ (Handed(b)' <=> Handed(b))
  <2>1. (\E w \in tasks' : w.batch = b) <=> (\E w \in tasks : w.batch = b)
    BY Zenon
  <2>2. Pending(b)' <=> (Carries(batchQ, b) \/ (\E w \in tasks' : w.batch = b)
                          \/ Carries(doneQ, b) \/ b \in arrived)
    BY <1>2 DEF Pending
  <2>3. Handed(b)' <=> Handed(b)
    BY <1>2 DEF Handed
  <2> QED
    BY Zenon, <2>1, <2>2, <2>3 DEF Pending
<1>7. VersionInv'
  <2>1. VersionInv
    BY Zenon, <1>1, DispatchFacts
  <2>2. Logged(Len(log))' = Logged(Len(log))
    BY Zenon, <1>2, LoadFrames
  <2>3. Logged(Len(log))' \subseteq accounts' \cap slots'
    BY Zenon, <2>1, <2>2, <1>4 DEF VersionInv
  <2>4. ASSUME backend = "sst", NEW b \in LoadBatches, Handed(b)'
        PROVE  b.lo..b.hi \subseteq accounts' \cap slots'
    BY Zenon, <2>1, <2>4, <1>4, <1>6 DEF VersionInv
  <2>5. ASSUME backend = "sst", NEW w \in tasks'
        PROVE  /\ w.step = "storage" => w.batch.lo..w.batch.hi \subseteq accounts'
               /\ w.step = "done" => w.batch.lo..w.batch.hi \subseteq accounts' \cap slots'
    <3>1. CASE w \in tasks
      BY Zenon, <2>1, <2>5, <3>1, <1>4 DEF VersionInv
    <3>2. CASE w = u
      BY Zenon, <2>5, <3>2
    <3> QED
      BY Zenon, <3>1, <3>2
  <2> QED
    BY Zenon, <1>2, <2>3, <2>4, <2>5 DEF VersionInv
<1>8. tasks # {}
  OBVIOUS
<1>9. dispatch # "ok"
  BY Zenon, <1>1, <1>8 DEF InitInv, PipelineInv, AdvancerInv
<1>10. dispatch' # "ok" /\ (dispatch' # "failed" => dispatch # "failed")
  BY Zenon, <1>9
<1> QED
  BY Zenon, <1>1, <1>4, <1>5, <1>6, <1>7, <1>10, DispatchKeeps

\* A worker writes the accounts, then the storage, of its batch, or fails.
LEMMA IngestKeeps ==
  ASSUME InitInv, NEW t \in tasks, Ingest(t) PROVE InitInv'
<1>1. /\ phase = "running" /\ DispatchOnly /\ UNCHANGED <<batchQ, dispatch, doneQ>>
      /\ t \in [batch : LoadBatches, step : {"accounts", "storage", "done", "failed"}]
  <2>1. phase = "running" /\ DispatchOnly /\ UNCHANGED <<batchQ, dispatch, doneQ>>
    BY DEF Ingest
  <2> QED
    BY Zenon, <2>1, DispatchFacts
<1>2. PICK range : range = t.batch.lo..t.batch.hi
  OBVIOUS
<1>3. PICK s \in {"storage", "done", "failed"} :
         /\ tasks' = (tasks \ {t}) \cup {[t EXCEPT !.step = s]}
         /\ t.step \in {"accounts", "storage"}
         /\ accounts' = accounts \/ accounts' = accounts \cup range
         /\ slots' = slots \/ slots' = slots \cup range
         /\ backend = "sst" =>
               \/ s = "failed"
               \/ s = "storage" /\ accounts' = accounts \cup range
               \/ /\ s = "done" /\ t.step = "storage"
                  /\ accounts' = accounts /\ slots' = slots \cup range
  <2>1. CASE /\ t.step = "accounts" /\ backend = "v3"
             /\ tasks' = (tasks \ {t}) \cup {[t EXCEPT !.step = "done"]}
             /\ UNCHANGED <<accounts, slots>>
    <3>1. backend # "sst" /\ t.step \in {"accounts", "storage"}
      BY <2>1
    <3> WITNESS "done" \in {"storage", "done", "failed"}
    <3> QED
      BY Zenon, <2>1, <3>1
  <2>2. CASE /\ t.step = "accounts" /\ backend = "sst"
             /\ accounts' = accounts \cup range
             /\ tasks' = (tasks \ {t}) \cup {[t EXCEPT !.step = "storage"]}
             /\ UNCHANGED slots
    <3> WITNESS "storage" \in {"storage", "done", "failed"}
    <3> QED
      BY Zenon, <2>2
  <2>3. CASE /\ t.step = "storage" /\ backend = "sst"
             /\ slots' = slots \cup range
             /\ tasks' = (tasks \ {t}) \cup {[t EXCEPT !.step = "done"]}
             /\ UNCHANGED accounts
    <3> WITNESS "done" \in {"storage", "done", "failed"}
    <3> QED
      BY Zenon, <2>3
  <2>4. CASE /\ t.step \in {"accounts", "storage"} /\ backend = "sst"
             /\ tasks' = (tasks \ {t}) \cup {[t EXCEPT !.step = "failed"]}
             /\ UNCHANGED <<accounts, slots>>
    <3> WITNESS "failed" \in {"storage", "done", "failed"}
    <3> QED
      BY Zenon, <2>4
  <2> QED
    BY Zenon, <1>2, <2>1, <2>2, <2>3, <2>4 DEF Ingest
<1>4. PICK u : u = [t EXCEPT !.step = s]
  OBVIOUS
<1>5. /\ u.batch = t.batch /\ u.step = s
      /\ u \in [batch : LoadBatches, step : {"accounts", "storage", "done", "failed"}]
  BY <1>1, <1>4
<1>6. tasks' = (tasks \ {t}) \cup {u}
  BY Zenon, <1>3, <1>4
<1>7. t.step # "done" /\ t.step # "failed"
  BY <1>3
<1>8. backend = "sst" => /\ s = "storage" => range \subseteq accounts'
                         /\ s = "done" => range \subseteq accounts' \cap slots'
  <2>1. ASSUME backend = "sst", s = "done" PROVE range \subseteq accounts' \cap slots'
    <3>1. t.step = "storage" /\ accounts' = accounts /\ slots' = slots \cup range
      BY <1>3, <2>1
    <3>2. backend # "mdbx"
      BY <2>1
    <3>3. range \subseteq accounts
      BY Zenon, <1>1, <1>2, <2>1, <3>1, <3>2, DispatchFacts DEF VersionInv
    <3> QED
      BY Zenon, <3>1, <3>3
  <2>2. ASSUME backend = "sst", s = "storage" PROVE range \subseteq accounts'
    <3>1. accounts' = accounts \cup range
      BY <1>3, <2>2
    <3> QED
      BY Zenon, <3>1
  <2> QED
    BY Zenon, <2>1, <2>2
<1> QED
  BY Zenon, <1>1, <1>2, <1>3, <1>5, <1>6, <1>7, <1>8, WorkerKeeps

\* Join: a batch whose worker is done is handed on; a worker that failed ends
\* the dispatcher.
LEMMA JoinKeeps ==
  ASSUME InitInv, NEW t \in tasks, Join(t) PROVE InitInv'
<1>1. /\ phase = "running" /\ dispatch = "on" /\ tasks' = tasks \ {t}
      /\ UNCHANGED <<accounts, slots>> /\ DispatchOnly
      /\ \/ /\ t.step = "done" /\ Len(doneQ) < WorkerCount + 1
            /\ doneQ' = Append(doneQ, t.batch)
            /\ UNCHANGED <<dispatch, batchQ>>
         \/ /\ t.step = "failed" /\ dispatch' = "failed" /\ batchQ' = <<>>
            /\ UNCHANGED doneQ
  BY DEF Join
<1>2. UNCHANGED <<backend, log, arrived, drain>>
  BY <1>1 DEF DispatchOnly, advanceVars
<1>3. backend # "mdbx" /\ t.batch \in LoadBatches /\ doneQ \in Seq(LoadBatches) /\ VersionInv
  BY Zenon, <1>1, DispatchFacts
<1>4. /\ accounts \subseteq accounts' /\ accounts' \in SUBSET LoadedBlocks
      /\ slots \subseteq slots' /\ slots' \in SUBSET LoadedBlocks
  BY Zenon, <1>1, DispatchFacts
<1>5. Logged(Len(log))' = Logged(Len(log))
  BY Zenon, <1>2, LoadFrames
<1>6. CASE /\ t.step = "done" /\ Len(doneQ) < WorkerCount + 1
           /\ doneQ' = Append(doneQ, t.batch)
           /\ UNCHANGED <<dispatch, batchQ>>
  <2>1. DispatchTypes'
    <3>1. doneQ' \in Seq(LoadBatches) /\ Len(doneQ') = Len(doneQ) + 1 /\ Len(doneQ) \in Nat
      BY <1>3, <1>6
    <3>2. WorkerCount \in Nat /\ Len(doneQ) < WorkerCount + 1
      BY Zenon, <1>6, LoadNumbers
    <3>3. Len(doneQ') <= WorkerCount + 1
      BY <3>1, <3>2
    <3> QED
      BY Zenon, <1>1, <1>6, <3>1, <3>3 DEF InitInv, InitTypes, DispatchTypes
  <2>2. ASSUME NEW b
        PROVE  /\ Pending(b)' <=> Pending(b)
               /\ Handed(b)' <=> Handed(b) \/ b = t.batch
    <3>1. Carries(doneQ', b) <=> Carries(doneQ, b) \/ b = t.batch
      <4>1. Carries(Append(doneQ, t.batch), b) <=> Carries(doneQ, b) \/ b = t.batch
        BY <1>3, CarriesAppend
      <4> QED
        BY Zenon, <1>6, <4>1
    <3>3. (\E w \in tasks' : w.batch = b) => (\E w \in tasks : w.batch = b)
      BY Zenon, <1>1
    <3>4. (\E w \in tasks : w.batch = b) => (\E w \in tasks' : w.batch = b) \/ b = t.batch
      BY Zenon, <1>1
    <3>5. b = t.batch => \E w \in tasks : w.batch = b
      BY Zenon
    <3>6. Pending(b)' <=> (Carries(batchQ, b) \/ (\E w \in tasks' : w.batch = b)
                            \/ Carries(doneQ', b) \/ b \in arrived)
      BY <1>2, <1>6 DEF Pending
    <3>7. Handed(b)' <=> (Carries(doneQ', b) \/ b \in arrived \/ Carries(drain, b))
      BY <1>2 DEF Handed
    <3> QED
      BY Zenon, <3>1, <3>3, <3>4, <3>5, <3>6, <3>7 DEF Pending, Handed
  <2>3. Pending(t.batch)
    BY Zenon DEF Pending
  <2>4. \A b \in LoadBatches : Pending(b)' \/ Handed(b)' => Pending(b) \/ Handed(b)
    BY Zenon, <2>2, <2>3
  <2>5. VersionInv'
    BY Zenon, <1>1, <1>2, <1>3, <1>5, <1>6, <2>2 DEF VersionInv
  <2>6. dispatch' # "failed" /\ dispatch' # "ok" /\ dispatch # "failed"
    BY <1>1, <1>6
  <2> QED
    BY Zenon, <1>1, <1>3, <1>4, <2>1, <2>2, <2>4, <2>5, <2>6, DispatchKeeps
<1>7. CASE /\ t.step = "failed" /\ dispatch' = "failed" /\ batchQ' = <<>>
           /\ UNCHANGED doneQ
  <2>1. DispatchTypes'
    <3>1. batchQ' \in Seq(LoadBatches) /\ Len(batchQ') <= WorkerCount + 1
      BY <1>7, LoadNumbers
    <3>2. dispatch' \in {"on", "ok", "failed"}
      BY <1>7
    <3> QED
      BY Zenon, <1>1, <1>7, <3>1, <3>2 DEF InitInv, InitTypes, DispatchTypes
  <2>2. ASSUME NEW b
        PROVE  (Pending(b)' => Pending(b)) /\ (Handed(b)' <=> Handed(b))
    <3>1. ~Carries(batchQ', b)
      BY Zenon, <1>7, CarriesNothing
    <3>2. Pending(b)' <=> (Carries(batchQ', b) \/ (\E w \in tasks' : w.batch = b)
                            \/ Carries(doneQ, b) \/ b \in arrived)
      BY <1>2, <1>7 DEF Pending
    <3>3. Handed(b)' <=> Handed(b)
      BY <1>2, <1>7 DEF Handed
    <3> QED
      BY Zenon, <1>1, <3>1, <3>2, <3>3 DEF Pending
  <2>3. VersionInv'
    BY Zenon, <1>1, <1>2, <1>3, <1>5, <2>2 DEF VersionInv
  <2>4. dispatch' # "ok"
    BY <1>7
  <2> QED
    BY Zenon, <1>1, <1>3, <1>4, <1>7, <2>1, <2>2, <2>3, <2>4, DispatchKeeps
<1> QED
  BY Zenon, <1>1, <1>6, <1>7

\* The dispatcher ends when every worker it started was joined.
LEMMA EndDispatcherKeeps ==
  ASSUME InitInv, EndDispatcher PROVE InitInv'
<1>1. /\ phase = "running" /\ dispatch = "on" /\ batchQ = <<>> /\ ~Receiving
      /\ tasks = {} /\ dispatch' = "ok"
      /\ UNCHANGED <<accounts, slots, batchQ, tasks, doneQ>> /\ DispatchOnly
  BY DEF EndDispatcher
<1>2. UNCHANGED <<backend, phase, synced, log, fetchVars, blockQ, fillVars, advanceVars,
                  tableDisk>>
  BY <1>1 DEF DispatchOnly, tableDisk
<1>3. UNCHANGED <<arrived, drain, cut, first, contiguous, final>>
  BY <1>2 DEF advanceVars, fillVars
<1>4. DispatchTypes'
  BY <1>1 DEF InitInv, InitTypes, DispatchTypes
<1>5. CASE backend # "mdbx"
  <2>1. VersionInv'
    BY Zenon, <1>1, <1>2, <1>5, VersionFrame, DispatchFacts
  <2>2. \A b : (Pending(b)' <=> Pending(b)) /\ (Handed(b)' <=> Handed(b))
    BY Zenon, <1>1, <1>3, BatchFrame
  <2>3. dispatch' # "failed" /\ dispatch # "failed"
    BY <1>1
  <2>4. /\ accounts \subseteq accounts' /\ accounts' \in SUBSET LoadedBlocks
        /\ slots \subseteq slots' /\ slots' \in SUBSET LoadedBlocks
    BY Zenon, <1>1, DispatchFacts
  <2> QED
    BY Zenon, <1>1, <1>4, <1>5, <2>1, <2>2, <2>3, <2>4, DispatchKeeps
<1>6. CASE backend = "mdbx"
  <2>1. CheckpointInv'
    BY <1>1, <1>2, <1>3, <1>6 DEF InitInv, CheckpointInv, Receiving
  <2>2. dispatch # "failed"
    BY <1>1
  <2>3. FetchInv'
    BY Zenon, <1>1, <1>2, <2>2, FetchFrame DEF InitInv
  <2> QED
    BY Zenon, <1>1, <1>2, <1>4, <1>6, <2>1, <2>3, LoadFrames DEF InitInv, InitTypes
<1> QED
  BY Zenon, <1>5, <1>6

----------------------------------------------------------------------------

\* ReceiveDone: the completions that are in turn leave those that wait, and no
\* other does.
LEMMA ReceiveDoneKeeps ==
  ASSUME InitInv, ReceiveDone PROVE InitInv'
<1>1. PICK all, ready :
         /\ all = arrived \cup {Head(doneQ)} /\ ready = InOrder(all, nextSeq)
         /\ drain' = ready
         /\ arrived' = {b \in all : b.seq >= nextSeq + Len(ready)}
         /\ nextSeq' = nextSeq + Len(ready)
  BY Zenon DEF ReceiveDone
<1>2. /\ phase = "running" /\ doneQ # <<>> /\ drain = <<>> /\ doneQ' = Tail(doneQ)
      /\ UNCHANGED <<backend, phase, tableDisk, fetchVars, blockQ, fillVars, batchQ,
                     tasks, dispatch, final>>
  BY DEF ReceiveDone, AdvanceOnly
<1>3. backend # "mdbx"
  BY Zenon, <1>2, DispatchFacts
<1>4. UNCHANGED <<accounts, slots, synced, log, fetch, cut, first, nextBatch>>
  BY <1>2 DEF tableDisk, fetchVars, fillVars
<1>5. PICK N \in Nat, c \in [Nat -> Nat] : SentInv(N, c) /\ TurnInv(N, c) /\ CommitInv(c)
  BY Zenon, <1>2, <1>3 DEF InitInv, PipelineInv
<1>6. /\ Head(doneQ) \in LoadBatches /\ doneQ' \in Seq(LoadBatches) /\ Len(doneQ') = Len(doneQ) - 1
      /\ \A b : Carries(doneQ, b) <=> b = Head(doneQ) \/ Carries(doneQ', b)
  <2>1. doneQ \in Seq(LoadBatches)
    BY Zenon, <1>2, DispatchFacts
  <2> QED
    BY Zenon, <1>2, <2>1, CarriesTail
<1>7. /\ all \in SUBSET LoadBatches
      /\ \A b : b \in all <=> b \in arrived \/ b = Head(doneQ)
  BY Zenon, <1>1, <1>6 DEF InitInv, InitTypes, AdvanceTypes
<1>8. nextSeq \in Nat /\ nextSeq <= N
  BY Zenon, <1>5, LoadNumbers DEF TurnInv
<1>9. ASSUME NEW b \in all PROVE b \in LoadBatches /\ Pending(b) /\ Handed(b) /\ b.seq < N
  <2>1. b \in LoadBatches /\ Pending(b) /\ Handed(b)
    BY Zenon, <1>6, <1>7 DEF Pending, Handed
  <2> QED
    BY Zenon, <1>5, <2>1 DEF TurnInv, IsCut
<1>10. InOrderResult(all, nextSeq, ready)
  BY Zenon, <1>1, <1>7, <1>8, <1>9, InOrderIs
<1>11. /\ ready \in Seq(all) /\ Len(ready) \in Nat
       /\ \A i \in DOMAIN ready : ready[i] \in all /\ ready[i].seq = nextSeq + i - 1
       /\ \A b \in all : b.seq # nextSeq + Len(ready)
       /\ Len(ready) > 0 => \E b \in all : b.seq = nextSeq + Len(ready) - 1
  <2>1. \A q \in Seq(all) : Len(q) \in Nat /\ \A i \in DOMAIN q : q[i] \in all
    OBVIOUS
  <2> QED
    BY Zenon, <1>10, <2>1 DEF InOrderResult
<1>12. nextSeq' \in Nat /\ nextSeq' <= N /\ Len(drain') <= nextSeq'
       /\ Turn' = nextSeq /\ Turn = nextSeq
  <2>1. nextSeq' = nextSeq + Len(ready) /\ Len(drain') = Len(ready) /\ Len(drain) = 0
    BY <1>1, <1>2
  <2>2. nextSeq + Len(ready) <= N
    <3>1. CASE Len(ready) = 0
      BY <1>8, <3>1
    <3>2. CASE Len(ready) > 0
      <4>1. PICK b \in all : b.seq = nextSeq + Len(ready) - 1
        BY Zenon, <1>11, <3>2
      <4>2. b.seq < N
        BY Zenon, <1>9
      <4> QED
        BY <1>8, <1>11, <4>1, <4>2
    <3> QED
      BY <1>11, <3>1, <3>2
  <2>3. Turn' = nextSeq' - Len(drain') /\ Turn = nextSeq - Len(drain)
    BY DEF Turn
  <2>4. nextSeq \in Nat /\ Len(ready) \in Nat
    BY Zenon, <1>8, <1>11
  <2>5. \A i, k \in Nat : /\ i + k \in Nat /\ k <= i + k /\ (i + k) - k = i /\ i - 0 = i
    OBVIOUS
  <2> QED
    BY Zenon, <2>1, <2>2, <2>3, <2>4, <2>5
<1>13. ASSUME NEW b
       PROVE  /\ Pending(b)' => Pending(b)
              /\ Handed(b)' => Handed(b)
              /\ Pending(b) => Pending(b)' \/ (b \in all /\ ~(b.seq >= nextSeq'))
  <2>1. Pending(b)' <=> (Carries(batchQ, b) \/ (\E w \in tasks : w.batch = b)
                          \/ Carries(doneQ', b) \/ b \in arrived')
    BY <1>2 DEF Pending
  <2>2. Handed(b)' <=> (Carries(doneQ', b) \/ b \in arrived' \/ Carries(drain', b))
    BY DEF Handed
  <2>3. Carries(drain', b) => b \in all
    BY Zenon, <1>1, <1>11 DEF Carries
  <2>4. b \in arrived' <=> b \in all /\ b.seq >= nextSeq'
    BY Zenon, <1>1
  <2>5. b \in all => Carries(doneQ, b) \/ b \in arrived
    BY Zenon, <1>6, <1>7
  <2>6. Carries(doneQ, b) \/ b \in arrived => Carries(doneQ', b) \/ b \in all
    BY Zenon, <1>6, <1>7
  <2>7. Carries(doneQ', b) => Carries(doneQ, b)
    BY Zenon, <1>6
  <2> QED
    BY Zenon, <2>1, <2>2, <2>3, <2>4, <2>5, <2>6, <2>7 DEF Pending, Handed
<1>14. SentInv(N, c)'
  BY Zenon, <1>2, <1>4, <1>5, SentFrame
<1>15. TurnInv(N, c)'
  <2>1. \A b \in LoadBatches : Pending(b)' \/ Handed(b)' => IsCut(N, c, b)
    BY Zenon, <1>5, <1>13 DEF TurnInv
  <2>2. \A i \in DOMAIN drain' : drain'[i].seq = Turn' + i - 1
    BY Zenon, <1>1, <1>11, <1>12
  <2>3. ASSUME dispatch' # "failed", NEW n \in nextSeq'..(N - 1)
        PROVE  \E b \in LoadBatches : Pending(b)' /\ b.seq = n
    <3>1. n \in nextSeq..(N - 1) /\ n >= nextSeq'
      BY <1>1, <1>8, <1>11, <1>12
    <3>2. dispatch # "failed"
      BY Zenon, <1>2, <2>3
    <3>3. PICK b \in LoadBatches : Pending(b) /\ b.seq = n
      BY Zenon, <1>5, <3>1, <3>2 DEF TurnInv
    <3> QED
      BY Zenon, <1>13, <3>1, <3>3
  <2> QED
    BY Zenon, <1>12, <2>1, <2>2, <2>3 DEF TurnInv
<1>16. CommitInv(c)'
  <2>1. Logged(Len(log))' = Logged(Len(log))
    BY Zenon, <1>4, LoadFrames
  <2>2. c[Turn'] = c[Turn] /\ synced' = synced /\ log' = log
    BY Zenon, <1>4, <1>12
  <2> QED
    BY Zenon, <1>5, <2>1, <2>2 DEF CommitInv
<1>17. AdvancerInv'
  <2>1. AdvancerInv
    BY Zenon, <1>2, <1>3 DEF InitInv, PipelineInv
  <2>2. \A b \in arrived' : b.seq # nextSeq'
    BY Zenon, <1>1, <1>11
  <2>3. log' = <<>>
    BY Zenon, <1>2, <1>4, <2>1 DEF AdvancerInv
  <2> QED
    BY <1>2, <1>4, <2>1, <2>2, <2>3 DEF AdvancerInv, Receiving
<1>18. VersionInv'
  <2>1. VersionInv
    BY Zenon, <1>2, <1>3, DispatchFacts
  <2>2. Logged(Len(log))' = Logged(Len(log))
    BY Zenon, <1>4, LoadFrames
  <2> QED
    BY Zenon, <1>2, <1>4, <1>13, <2>1, <2>2 DEF VersionInv
<1>19. AdvanceTypes'
  <2>1. drain' \in Seq(LoadBatches)
    BY <1>1, <1>7, <1>11
  <2>2. arrived' \in SUBSET LoadBatches
    BY Zenon, <1>1, <1>7
  <2> QED
    BY Zenon, <1>2, <1>12, <2>1, <2>2 DEF InitInv, InitTypes, AdvanceTypes
<1>20. DispatchTypes'
  <2>1. Len(doneQ') <= WorkerCount + 1
    <3>1. Len(doneQ) \in Nat /\ Len(doneQ) <= WorkerCount + 1 /\ WorkerCount \in Nat
      BY Zenon, <1>2, DispatchFacts, LoadNumbers
    <3>2. Len(doneQ') = Len(doneQ) - 1
      BY Zenon, <1>6
    <3> QED
      BY <3>1, <3>2
  <2> QED
    BY Zenon, <1>2, <1>6, <2>1 DEF InitInv, InitTypes, DispatchTypes
<1>21. /\ TableTypes' /\ FetchTypes' /\ FillTypes' /\ LoadedInv' /\ NothingLost'
       /\ phase' = "running" /\ backend' # "mdbx"
  BY Zenon, <1>2, <1>3, <1>4, LoadFrames DEF InitInv, InitTypes
<1>22. FetchInv'
  BY Zenon, <1>2, FetchFrame DEF InitInv
<1> QED
  BY Zenon, <1>14, <1>15, <1>16, <1>17, <1>18, <1>19, <1>20, <1>21, <1>22
     DEF InitInv, InitTypes, PipelineInv

\* The batch of this turn starts where the committed blocks end, and its
\* versions are there.
LEMMA BatchOfTurn ==
  ASSUME InitInv, phase = "running", drain # <<>>,
         NEW N \in Nat, NEW c \in [Nat -> Nat], TurnInv(N, c)
  PROVE  /\ Head(drain) \in LoadBatches /\ Handed(Head(drain))
         /\ Turn \in Nat /\ Turn < N
         /\ Head(drain).lo = c[Turn] /\ Head(drain).hi = c[Turn + 1] - 1
         /\ Head(drain).lo \in Nat /\ Head(drain).hi \in Nat
         /\ Head(drain).lo \in LoadedBlocks /\ Head(drain).hi \in LoadedBlocks
<1>1. drain \in Seq(LoadBatches) /\ nextSeq \in Nat
  BY Zenon DEF InitInv, InitTypes, AdvanceTypes
<1>2. /\ Head(drain) = drain[1] /\ Head(drain) \in LoadBatches /\ 1 \in DOMAIN drain
      /\ Len(drain) \in Nat /\ Len(drain) >= 1
  BY Zenon, <1>1, QueueFacts
<1>3. Handed(Head(drain))
  BY Zenon, <1>2 DEF Handed, Carries
<1>4. Turn \in Nat /\ Turn + 1 - 1 = Turn
  BY <1>1, <1>2 DEF TurnInv, Turn
<1>5. Head(drain).seq = Turn
  BY <1>2, <1>4 DEF TurnInv
<1>6. IsCut(N, c, Head(drain))
  BY Zenon, <1>2, <1>3 DEF TurnInv
<1>7. /\ Head(drain).lo \in LoadedBlocks /\ Head(drain).hi \in LoadedBlocks
      /\ Head(drain).lo \in Nat /\ Head(drain).hi \in Nat
  BY Zenon, <1>2, BatchRange
<1>8. Turn < N /\ Head(drain).lo = c[Turn] /\ Head(drain).hi = c[Turn + 1] - 1
  BY Zenon, <1>5, <1>6 DEF IsCut
<1> QED
  BY Zenon, <1>2, <1>3, <1>4, <1>7, <1>8

\* The advancer commits one batch of the drain, and syncs with the last.
LEMMA CommitDrainedKeeps ==
  ASSUME InitInv, CommitDrained PROVE InitInv'
<1>1. PICK h, range, last :
         /\ h = Head(drain) /\ range = h.lo..h.hi /\ last = (Len(drain) = 1)
         /\ IF last
            THEN /\ synced' = Apply(Now, range, h.hi)
                 /\ log' = <<>>
                 /\ final' = h.hi
            ELSE /\ log' = Append(log, range)
                 /\ UNCHANGED <<synced, final>>
         /\ accounts' = IF backend = "v3" THEN accounts \cup range ELSE accounts
         /\ slots' = IF backend = "v3" THEN slots \cup range ELSE slots
  BY Zenon DEF CommitDrained
<1>2. /\ phase = "running" /\ drain # <<>> /\ drain' = Tail(drain)
      /\ UNCHANGED <<backend, phase, fetchVars, blockQ, fillVars, batchQ, tasks,
                     dispatch, doneQ, arrived, nextSeq>>
  BY DEF CommitDrained, AdvanceOnly
<1>3. backend # "mdbx"
  BY Zenon, <1>2, DispatchFacts
<1>4. UNCHANGED <<fetch, cut, first, nextBatch>>
  BY <1>2 DEF fetchVars, fillVars
<1>5. PICK N \in Nat, c \in [Nat -> Nat] : SentInv(N, c) /\ TurnInv(N, c) /\ CommitInv(c)
  BY Zenon, <1>2, <1>3 DEF InitInv, PipelineInv
<1>6. /\ h \in LoadBatches /\ Handed(h) /\ Turn \in Nat /\ Turn < N
      /\ h.lo = c[Turn] /\ h.hi = c[Turn + 1] - 1
      /\ h.lo \in Nat /\ h.hi \in Nat /\ h.lo \in LoadedBlocks /\ h.hi \in LoadedBlocks
  BY Zenon, <1>1, <1>2, <1>5, BatchOfTurn
<1>7. range \in SUBSET LoadedBlocks
  BY Zenon, <1>1, <1>6, BatchRange
<1>8. AdvancerInv /\ VersionInv /\ LoadedInv
  BY Zenon, <1>2, <1>3 DEF InitInv, PipelineInv
<1>9. /\ drain \in Seq(LoadBatches) /\ drain' \in Seq(LoadBatches) /\ Len(drain) \in Nat
      /\ Len(drain') = Len(drain) - 1 /\ nextSeq \in Nat /\ Len(drain) <= nextSeq
      /\ \A b : Carries(drain', b) => Carries(drain, b)
      /\ \A i \in DOMAIN drain' :
            i \in Nat /\ i + 1 \in DOMAIN drain /\ drain'[i] = drain[i + 1]
  <2>1. drain \in Seq(LoadBatches) /\ nextSeq \in Nat
    BY Zenon DEF InitInv, InitTypes, AdvanceTypes
  <2>2. \A b : Carries(drain', b) => Carries(drain, b)
    BY Zenon, <1>2, <2>1, CarriesTail
  <2> QED
    BY Zenon, <1>2, <1>5, <2>1, <2>2, QueueTail DEF TurnInv
<1>10. Turn' = Turn + 1
  <2>1. Turn' = nextSeq - Len(drain') /\ Turn = nextSeq - Len(drain)
    BY <1>2 DEF Turn
  <2> QED
    BY <1>9, <2>1
<1>11. /\ synced.latest \in Int /\ synced.latest >= -1 /\ c[Turn] \in Nat
       /\ c[Turn + 1] \in Nat /\ c[Turn] < c[Turn + 1] /\ synced.latest < c[Turn]
       /\ Logged(Len(log)) = (synced.latest + 1)..(c[Turn] - 1)
  <2>1. synced.latest \in Int /\ synced.latest >= -1
    BY Zenon, LoadNumbers
  <2>2. Turn \in 0..(N - 1) /\ Turn + 1 \in Nat
    BY <1>6
  <2>3. c[Turn] < c[Turn + 1]
    BY Zenon, <1>5, <2>2 DEF SentInv
  <2>4. c[Turn] \in Nat /\ c[Turn + 1] \in Nat
    BY Zenon, <1>6, <2>2
  <2> QED
    BY Zenon, <1>5, <2>1, <2>3, <2>4 DEF CommitInv
<1>11a. Consecutive(synced.latest, c[Turn], c[Turn + 1])
  BY <1>11, RangeFacts
<1>12. range \subseteq accounts' /\ range \subseteq slots'
       /\ accounts \subseteq accounts' /\ slots \subseteq slots'
  <2>1. CASE backend = "v3"
    BY Zenon, <1>1, <2>1
  <2>2. CASE backend = "sst"
    <3>1. backend # "v3"
      BY <2>2
    <3>2. range \subseteq accounts \cap slots
      BY Zenon, <1>1, <1>6, <1>8, <2>2 DEF VersionInv
    <3> QED
      BY Zenon, <1>1, <3>1, <3>2
  <2>3. backend = "v3" \/ backend = "sst"
    BY <1>3 DEF InitInv, InitTypes, TableTypes
  <2> QED
    BY Zenon, <2>1, <2>2, <2>3
<1>13. accounts' \in SUBSET LoadedBlocks /\ slots' \in SUBSET LoadedBlocks
  <2>1. accounts \in SUBSET LoadedBlocks /\ slots \in SUBSET LoadedBlocks
    BY Zenon, <1>2, DispatchFacts
  <2>2. CASE backend = "v3"
    BY Zenon, <1>1, <1>7, <2>1, <2>2
  <2>3. CASE backend # "v3"
    BY Zenon, <1>1, <2>1, <2>3
  <2> QED
    BY Zenon, <2>2, <2>3
<1>14. Logged(Len(log)) \subseteq accounts \cap slots
  BY Zenon, <1>8 DEF VersionInv
<1>15. \A b : (Pending(b)' <=> Pending(b)) /\ (Handed(b)' => Handed(b))
  <2>1. ASSUME NEW b PROVE Pending(b)' <=> Pending(b)
    BY <1>2 DEF Pending
  <2>2. ASSUME NEW b PROVE Handed(b)' => Handed(b)
    <3>1. Handed(b)' <=> (Carries(doneQ, b) \/ b \in arrived \/ Carries(drain', b))
      BY <1>2 DEF Handed
    <3> QED
      BY Zenon, <1>9, <3>1 DEF Handed
  <2> QED
    BY Zenon, <2>1, <2>2
<1>16. SentInv(N, c)'
  BY Zenon, <1>2, <1>4, <1>5, SentFrame
<1>17. TurnInv(N, c)'
  <2>1. nextSeq' <= N /\ Len(drain') <= nextSeq'
    <3>1. nextSeq <= N /\ nextSeq' = nextSeq
      BY Zenon, <1>2, <1>5 DEF TurnInv
    <3> QED
      BY <1>9, <3>1
  <2>2. \A b \in LoadBatches : Pending(b)' \/ Handed(b)' => IsCut(N, c, b)
    BY Zenon, <1>5, <1>15 DEF TurnInv
  <2>3. ASSUME NEW i \in DOMAIN drain' PROVE drain'[i].seq = Turn' + i - 1
    <3>1. i + 1 \in DOMAIN drain /\ drain'[i] = drain[i + 1] /\ i \in Nat
      BY Zenon, <1>9
    <3>2. drain[i + 1].seq = Turn + (i + 1) - 1
      BY Zenon, <1>5, <3>1 DEF TurnInv
    <3>3. Turn + (i + 1) - 1 = Turn' + i - 1
      BY <1>6, <1>10, <3>1
    <3> QED
      BY Zenon, <3>1, <3>2, <3>3
  <2>4. ASSUME dispatch' # "failed", NEW n \in nextSeq'..(N - 1)
        PROVE  \E b \in LoadBatches : Pending(b)' /\ b.seq = n
    BY Zenon, <1>2, <1>5, <1>15, <2>4 DEF TurnInv
  <2> QED
    BY Zenon, <2>1, <2>2, <2>3, <2>4 DEF TurnInv
<1>18. FetchTypes' /\ FillTypes' /\ DispatchTypes' /\ FetchInv'
       /\ phase' = "running" /\ backend' # "mdbx"
  BY Zenon, <1>2, <1>3, LoadFrames, FetchFrame DEF InitInv, InitTypes
<1>19. ASSUME Logged(Len(log))' \subseteq Logged(Len(log)) \cup range PROVE VersionInv'
  <2>1. Logged(Len(log))' \subseteq accounts' \cap slots'
    BY Zenon, <1>12, <1>14, <1>19
  <2> QED
    BY Zenon, <1>2, <1>8, <1>12, <1>15, <2>1 DEF VersionInv
<1>20. SUFFICES /\ TableTypes' /\ LoadedInv' /\ final' \in Int
                /\ CommitInv(c)' /\ AdvancerInv'
                /\ Logged(Len(log))' \subseteq Logged(Len(log)) \cup range
  <2>1. AdvanceTypes'
    BY Zenon, <1>2, <1>9, <1>20 DEF InitInv, InitTypes, AdvanceTypes
  <2>2. NothingLost'
    BY <1>18 DEF NothingLost
  <2> QED
    BY Zenon, <1>16, <1>17, <1>18, <1>19, <1>20, <2>1, <2>2 DEF InitInv, InitTypes, PipelineInv
<1>21. CASE last
  <2>1. PICK infos : infos = (synced.infos \cup Logged(Len(log))) \cup range
    OBVIOUS
  <2>2. synced' = [infos |-> infos, latest |-> h.hi] /\ log' = <<>> /\ final' = h.hi
    <3>1. Now = [infos |-> synced.infos \cup Logged(Len(log)), latest |-> synced.latest]
      BY DEF Now, Tables
    <3>2. Now.infos = synced.infos \cup Logged(Len(log))
      BY <3>1
    <3> QED
      BY Zenon, <1>1, <1>21, <2>1, <3>2 DEF Apply
  <2>3. synced'.infos = infos /\ synced'.latest = h.hi
    BY <2>2
  <2>4. Logged(Len(log))' = {}
    BY <2>2 DEF Logged
  <2>5. TableTypes'
    <3>1. infos \in SUBSET LoadedBlocks
      <4>1. synced.infos \in SUBSET LoadedBlocks
        BY DEF InitInv, InitTypes, TableTypes
      <4>2. Logged(Len(log)) \in SUBSET LoadedBlocks
        BY Zenon, <1>2, <1>14, DispatchFacts
      <4> QED
        BY Zenon, <1>7, <2>1, <4>1, <4>2
    <3>2. h.hi \in NoneYet..EndBlock
      BY <1>6, LoadNumbers DEF NoneYet, LoadedBlocks
    <3>3. synced' \in [infos : SUBSET LoadedBlocks, latest : NoneYet..EndBlock]
      BY <2>2, <3>1, <3>2
    <3>4. log' \in Seq(SUBSET LoadedBlocks)
      BY <2>2
    <3> QED
      BY Zenon, <1>2, <1>13, <3>3, <3>4 DEF InitInv, InitTypes, TableTypes
  <2>6. LoadedInv'
    <3>1. \A x \in 0..h.hi : \/ x \in 0..synced.latest
                             \/ x \in (synced.latest + 1)..(c[Turn] - 1)
                             \/ x \in h.lo..h.hi
      BY Zenon, <1>6, <1>11a DEF Consecutive
    <3>2. \A x \in 0..h.hi : \/ x \in 0..synced.latest \/ x \in Logged(Len(log)) \/ x \in range
      BY Zenon, <1>1, <1>11, <3>1
    <3>3. ASSUME NEW x \in 0..h.hi PROVE x \in infos /\ x \in accounts' /\ x \in slots'
      BY Zenon, <1>8, <1>12, <1>14, <2>1, <3>2 DEF LoadedInv
    <3> QED
      BY Zenon, <2>3, <3>3 DEF LoadedInv
  <2>7. CommitInv(c)'
    <3>1. h.hi < c[Turn'] /\ c[Turn'] = h.hi + 1 /\ (h.hi + 1)..(c[Turn'] - 1) = {}
      BY Zenon, <1>6, <1>10, <1>11a DEF Consecutive
    <3> QED
      BY Zenon, <2>3, <2>4, <3>1 DEF CommitInv
  <2>8. AdvancerInv'
    <3>1. h.hi # NoneYet
      BY <1>6 DEF NoneYet
    <3>2. final' = IF synced'.latest = NoneYet THEN 0 ELSE synced'.latest
      BY <2>2, <2>3, <3>1
    <3> QED
      BY <1>2, <1>4, <1>8, <2>2, <3>2 DEF AdvancerInv, Receiving
  <2>9. final' \in Int
    BY <1>6, <2>2
  <2> QED
    BY Zenon, <2>4, <2>5, <2>6, <2>7, <2>8, <2>9
<1>22. CASE ~last
  <2>1. log' = Append(log, range) /\ synced' = synced /\ final' = final
    BY Zenon, <1>1, <1>22
  <2>2. log \in Seq(SUBSET LoadedBlocks) /\ final \in Int
    BY Zenon DEF InitInv, InitTypes, TableTypes, AdvanceTypes
  <2>3. log' \in Seq(SUBSET LoadedBlocks) /\ log' # <<>>
    BY Zenon, <1>7, <2>1, <2>2, QueueFacts
  <2>4. Logged(Len(log))' = Logged(Len(log)) \cup range
    BY Zenon, <1>7, <2>1, <2>2, LoggedAppend
  <2>5. TableTypes'
    BY Zenon, <1>2, <1>13, <2>1, <2>3 DEF InitInv, InitTypes, TableTypes
  <2>6. LoadedInv'
    BY Zenon, <1>8, <1>12, <2>1 DEF LoadedInv
  <2>7. CommitInv(c)'
    <3>1. ((synced.latest + 1)..(c[Turn] - 1)) \cup (h.lo..h.hi)
              = (synced.latest + 1)..(c[Turn + 1] - 1)
      BY Zenon, <1>6, <1>11a DEF Consecutive
    <3>2. Logged(Len(log))' = (synced'.latest + 1)..(c[Turn'] - 1)
      BY Zenon, <1>1, <1>10, <1>11, <2>1, <2>4, <3>1
    <3>3. synced.latest < c[Turn + 1]
      BY Zenon, <1>11a DEF Consecutive
    <3>4. synced'.latest < c[Turn']
      BY Zenon, <1>10, <2>1, <3>3
    <3> QED
      BY Zenon, <2>3, <3>2, <3>4 DEF CommitInv
  <2>8. AdvancerInv'
    <3>1. drain' # <<>>
      <4>1. Len(drain) # 1
        BY Zenon, <1>1, <1>22
      <4>2. Len(drain') # 0
        <5>1. \A k \in Nat : k # 1 => k - 1 # 0
          OBVIOUS
        <5> QED
          BY Zenon, <1>9, <4>1, <5>1
      <4> QED
        BY <4>2
    <3> QED
      BY <1>2, <1>4, <1>8, <2>1, <3>1 DEF AdvancerInv, Receiving
  <2> QED
    BY Zenon, <2>1, <2>2, <2>4, <2>5, <2>6, <2>7, <2>8
<1> QED
  BY Zenon, <1>21, <1>22

----------------------------------------------------------------------------

\* Finish: a run in which nothing failed has committed every batch, and the
\* last of them ends at the end block.
LEMMA FinishReaches ==
  ASSUME InitInv, phase = "running", Joined, fetch # "failed", dispatch # "failed"
  PROVE  final = EndBlock /\ synced.latest = EndBlock
<1>1. ~Receiving /\ (backend # "mdbx" => dispatch # "on" /\ doneQ = <<>> /\ drain = <<>>)
  BY Zenon DEF Joined
<1>2. fetch = "ok" /\ contiguous = EndBlock
  BY Zenon, <1>1 DEF InitInv, FetchInv
<1>3. CASE backend = "mdbx"
  BY Zenon, <1>1, <1>2, <1>3 DEF InitInv, CheckpointInv
<1>4. CASE backend # "mdbx"
  <2>1. PICK N \in Nat, c \in [Nat -> Nat] : SentInv(N, c) /\ TurnInv(N, c) /\ CommitInv(c)
    BY Zenon, <1>4 DEF InitInv, PipelineInv
  <2>2. AdvancerInv /\ dispatch = "ok"
    BY <1>1, <1>4 DEF InitInv, InitTypes, DispatchTypes, PipelineInv
  <2>3. batchQ = <<>> /\ tasks = {} /\ log = <<>>
    BY Zenon, <1>1, <1>4, <2>2 DEF AdvancerInv
  <2>4. c[N] = EndBlock + 1
    BY Zenon, <1>1, <2>1 DEF SentInv
  <2>5. nextSeq \in Nat /\ nextSeq <= N /\ synced.latest \in Int /\ EndBlock \in Nat
    BY Zenon, <2>1, LoadNumbers DEF TurnInv
  <2>6. nextSeq = N
    <3>1. SUFFICES ASSUME nextSeq # N PROVE FALSE
      OBVIOUS
    <3>2. nextSeq \in nextSeq..(N - 1)
      BY <2>5, <3>1
    <3>3. PICK b \in LoadBatches : Pending(b) /\ b.seq = nextSeq
      BY Zenon, <2>1, <3>2 DEF TurnInv
    <3>4. b \in arrived
      BY Zenon, <1>1, <1>4, <2>3, <3>3, CarriesNothing DEF Pending
    <3> QED
      BY Zenon, <2>2, <3>3, <3>4 DEF AdvancerInv
  <2>7. Turn = N
    BY <1>1, <1>4, <2>5, <2>6 DEF Turn
  <2>8. c[Turn] = synced.latest + 1
    BY Zenon, <2>1, <2>3 DEF CommitInv
  <2>9. synced.latest = EndBlock
    <3>1. EndBlock + 1 = synced.latest + 1
      BY Zenon, <2>4, <2>7, <2>8
    <3> QED
      BY <2>5, <3>1
  <2>10. final = EndBlock
    <3>1. EndBlock # NoneYet
      BY <2>5 DEF NoneYet
    <3> QED
      BY Zenon, <2>2, <2>9, <3>1 DEF AdvancerInv
  <2> QED
    BY Zenon, <2>9, <2>10
<1> QED
  BY Zenon, <1>3, <1>4

\* The command joins its tasks and reports what failed.
LEMMA FinishKeeps ==
  ASSUME InitInv, Finish PROVE InitInv'
<1>1. /\ phase = "running" /\ Joined /\ tasks' = {}
      /\ phase' = IF fetch = "failed" \/ dispatch = "failed" THEN "failed"
                  ELSE IF final < EndBlock THEN "panicked" ELSE "done"
      /\ UNCHANGED <<backend, tableDisk, fetchVars, blockQ, fillVars, batchQ, dispatch,
                     doneQ, advanceVars>>
  BY DEF Finish
<1>2. UNCHANGED <<accounts, slots, synced, log>>
  BY <1>1 DEF tableDisk
<1>3. /\ phase' \in {"failed", "done"}
      /\ phase' = "done" => synced.latest = EndBlock
  <2>1. CASE fetch = "failed" \/ dispatch = "failed"
    BY <1>1, <2>1
  <2>2. CASE fetch # "failed" /\ dispatch # "failed"
    <3>1. final = EndBlock /\ synced.latest = EndBlock
      BY Zenon, <1>1, <2>2, FinishReaches
    <3>2. ~(final < EndBlock)
      BY <3>1, LoadNumbers
    <3> QED
      BY <1>1, <2>2, <3>1, <3>2
  <2> QED
    BY Zenon, <2>1, <2>2
<1>4. NothingLost' /\ phase' # "running"
  BY <1>2, <1>3 DEF NothingLost
<1>5. log = <<>>
  <2>1. CASE backend = "mdbx"
    BY Zenon, <1>1, <2>1 DEF InitInv, CheckpointInv
  <2>2. CASE backend # "mdbx"
    BY Zenon, <1>1, <2>2 DEF InitInv, PipelineInv, AdvancerInv, Joined
  <2> QED
    BY Zenon, <2>1, <2>2
<1>6. TableTypes' /\ DispatchTypes'
  <2>1. phase' \in {"stopped", "running", "done", "failed", "panicked"}
    BY <1>3
  <2>2. TableTypes'
    BY Zenon, <1>1, <1>2, <2>1 DEF InitInv, InitTypes, TableTypes
  <2>3. DispatchTypes'
    BY Zenon, <1>1 DEF InitInv, InitTypes, DispatchTypes
  <2> QED
    BY Zenon, <2>2, <2>3
<1> QED
  BY Zenon, <1>1, <1>2, <1>4, <1>5, <1>6, LoadFrames DEF InitInv, InitTypes

\* A crash leaves a prefix of the log, and a command that may start again.
LEMMA CrashInitKeeps ==
  ASSUME InitInv, CrashInit PROVE InitInv'
<1>1. PICK n \in 0..Len(log) : /\ synced' = Tables(n)
                               /\ accounts' = Surviving(accounts, n)
                               /\ slots' = Surviving(slots, n)
  BY Zenon DEF CrashInit
<1>2. /\ phase' = "failed" /\ log' = <<>> /\ backend' = backend
      /\ fetch' = "ok" /\ flying' = {} /\ blockQ' = <<>> /\ batchQ' = <<>>
      /\ tasks' = {} /\ dispatch' = "ok" /\ doneQ' = <<>>
      /\ waiting' = {} /\ arrived' = {} /\ drain' = <<>>
      /\ upcoming' = 0 /\ contiguous' = NoneYet /\ cut' = 0 /\ first' = 0
      /\ nextBatch' = 0 /\ nextSeq' = 0 /\ final' = 0
  BY DEF CrashInit
<1>3. EndBlock \in Nat /\ MaxTasks \in Nat /\ WorkerCount \in Nat
  BY Zenon, LoadNumbers
<1>4. TableTypes'
  <2>1. accounts \in SUBSET LoadedBlocks /\ slots \in SUBSET LoadedBlocks
        /\ backend \in {"sst", "v3", "mdbx"}
        /\ synced \in [infos : SUBSET LoadedBlocks, latest : NoneYet..EndBlock]
    BY Zenon DEF InitInv, InitTypes, TableTypes
  <2>2. accounts' \in SUBSET LoadedBlocks /\ slots' \in SUBSET LoadedBlocks
    BY Zenon, <1>1, <2>1 DEF Surviving
  <2>3. synced' = [infos |-> synced.infos \cup Logged(n), latest |-> synced.latest]
    BY Zenon, <1>1 DEF Tables
  <2>4. Logged(n) \in SUBSET LoadedBlocks
    BY Zenon, <1>1, CrashLeaves
  <2>5. synced' \in [infos : SUBSET LoadedBlocks, latest : NoneYet..EndBlock]
    <3>1. synced.infos \in SUBSET LoadedBlocks /\ synced.latest \in NoneYet..EndBlock
      BY <2>1
    <3>2. PICK infos : infos = synced.infos \cup Logged(n)
      OBVIOUS
    <3>3. infos \in SUBSET LoadedBlocks
      BY Zenon, <2>4, <3>1, <3>2
    <3>4. synced' = [infos |-> infos, latest |-> synced.latest]
      BY Zenon, <2>3, <3>2
    <3> QED
      BY <3>1, <3>3, <3>4
  <2>6. log' \in Seq(SUBSET LoadedBlocks)
        /\ phase' \in {"stopped", "running", "done", "failed", "panicked"}
    BY <1>2
  <2> QED
    BY Zenon, <1>2, <2>1, <2>2, <2>5, <2>6 DEF TableTypes
<1>5. FetchTypes'
  <2>1. IsFiniteSet({}) /\ Cardinality({}) = 0
    BY Zenon, FS_EmptySet
  <2>2. IsFiniteSet(flying') /\ Cardinality(flying') = 0
    BY Zenon, <1>2, <2>1
  <2> QED
    BY <1>2, <1>3, <2>2 DEF FetchTypes
<1>6. FillTypes'
  BY <1>2, <1>3 DEF FillTypes, NoneYet
<1>7. DispatchTypes' /\ AdvanceTypes'
  BY <1>2, <1>3 DEF DispatchTypes, AdvanceTypes
<1>8. LoadedInv'
  <2>1. synced'.latest = synced.latest
    BY Zenon, <1>1, CrashLeaves
  <2>2. 0..synced.latest \subseteq synced'.infos \cap accounts' \cap slots'
    BY Zenon, <1>1, CrashLeaves
  <2> QED
    BY Zenon, <2>1, <2>2 DEF LoadedInv
<1>9. NothingLost' /\ phase' # "running"
  BY <1>2 DEF NothingLost
<1> QED
  BY Zenon, <1>2, <1>4, <1>5, <1>6, <1>7, <1>8, <1>9 DEF InitInv, InitTypes

\* A start resumes after the latest block, with nothing in flight.
LEMMA StartInitKeeps ==
  ASSUME InitInv, StartInit PROVE InitInv'
<1>0. /\ EndBlock \in Nat /\ MaxTasks \in Nat /\ WorkerCount \in Nat
      /\ synced.latest \in Int /\ synced.latest >= -1 /\ synced.latest <= EndBlock
  BY Zenon, LoadNumbers
<1>1. StartBlock = synced.latest + 1
  <2>1. Now = [infos |-> synced.infos \cup Logged(Len(log)), latest |-> synced.latest]
    BY Zenon DEF Now, Tables
  <2>2. Now.latest = synced.latest
    BY <2>1
  <2> QED
    BY Zenon, <2>2 DEF StartBlock
<1>2. StartBlock \in Nat
  BY <1>0, <1>1
<1>3. /\ phase \in {"stopped", "failed"}
      /\ blockQ' = <<>> /\ batchQ' = <<>> /\ tasks' = {} /\ doneQ' = <<>>
      /\ UNCHANGED <<backend, tableDisk>>
  BY DEF StartInit
<1>4. UNCHANGED <<accounts, slots, synced, log>> /\ log = <<>>
  BY <1>3 DEF tableDisk, InitInv
<1>5. LoadedInv'
  BY Zenon, <1>3, LoadFrames DEF InitInv
<1>6. ASSUME phase' \in {"done", "running"} PROVE TableTypes'
  BY <1>3, <1>4, <1>6 DEF InitInv, InitTypes, TableTypes
<1>7. blockQ' \in Seq(LoadedBlocks) /\ Len(blockQ') <= MaxTasks
      /\ batchQ' \in Seq(LoadBatches) /\ Len(batchQ') <= WorkerCount + 1
      /\ doneQ' \in Seq(LoadBatches) /\ Len(doneQ') <= WorkerCount + 1
  BY <1>0, <1>3
<1>8. CASE StartBlock > EndBlock
  <2>1. phase' = "done" /\ UNCHANGED <<fetchVars, fillVars, dispatch, advanceVars>>
    BY Zenon, <1>8 DEF StartInit
  <2>2. NothingLost' /\ phase' # "running" /\ phase' \in {"done", "running"}
    BY <1>0, <1>1, <1>4, <1>8, <2>1 DEF NothingLost
  <2>3. UNCHANGED <<fetch, upcoming, flying>>
    BY <2>1 DEF fetchVars
  <2>4. FetchTypes' /\ DispatchTypes'
    BY Zenon, <1>3, <1>7, <2>1, <2>3 DEF InitInv, InitTypes, FetchTypes, DispatchTypes
  <2> QED
    BY Zenon, <1>4, <1>5, <1>6, <2>1, <2>2, <2>4, LoadFrames DEF InitInv, InitTypes
<1>9. CASE ~(StartBlock > EndBlock)
  <2>1. /\ phase' = "running"
        /\ fetch' \in {"bundle", IF StartBlock > 0 THEN "first" ELSE "many"}
        /\ upcoming' = StartBlock
        /\ flying' = {} /\ waiting' = {}
        /\ contiguous' = StartBlock - 1
        /\ cut' = (IF StartBlock = 0 THEN 0 ELSE StartBlock - 1) \div Interval
        /\ first' = StartBlock /\ nextBatch' = 0 /\ dispatch' = "on"
        /\ arrived' = {} /\ nextSeq' = 0 /\ drain' = <<>>
        /\ final' = IF StartBlock = 0 THEN 0 ELSE StartBlock - 1
    BY Zenon, <1>9 DEF StartInit
  <2>2. NothingLost' /\ TableTypes'
    BY <1>6, <2>1 DEF NothingLost
  <2>3. cut' \in Nat /\ Receiving'
    <3>1. (IF StartBlock = 0 THEN 0 ELSE StartBlock - 1) \in Nat
      BY <1>2
    <3>2. cut' \in Nat
      BY Zenon, <2>1, <3>1, CheckpointNumber
    <3> QED
      BY <3>2 DEF Receiving, NoneYet
  <2>4. fetch' \in {"bundle", "first", "many"}
    BY <2>1
  <2>5. FetchTypes'
    <3>1. IsFiniteSet({}) /\ Cardinality({}) = 0
      BY Zenon, FS_EmptySet
    <3>2. IsFiniteSet(flying') /\ Cardinality(flying') = 0
      BY Zenon, <2>1, <3>1
    <3>3. upcoming' \in 0..(EndBlock + 1)
      BY <1>0, <1>2, <1>9, <2>1
    <3>4. flying' \in SUBSET LoadedBlocks /\ Cardinality(flying') <= MaxTasks
          /\ fetch' \in {"bundle", "first", "many", "ok", "failed"}
      BY <1>0, <2>1, <2>4, <3>2
    <3> QED
      BY Zenon, <1>7, <3>2, <3>3, <3>4 DEF FetchTypes
  <2>6. FillTypes'
    BY <1>0, <1>2, <1>9, <2>1, <2>3 DEF FillTypes, NoneYet
  <2>7. DispatchTypes'
    <3>1. tasks' \in SUBSET [batch : LoadBatches, step : {"accounts", "storage", "done", "failed"}]
          /\ dispatch' \in {"on", "ok", "failed"}
      BY <1>3, <2>1
    <3> QED
      BY Zenon, <1>7, <3>1 DEF DispatchTypes
  <2>8. AdvanceTypes'
    BY <1>2, <2>1 DEF AdvanceTypes
  <2>9. FetchInv'
    BY <1>2, <2>1, <2>3, <2>4 DEF FetchInv
  <2>10. ASSUME NEW b PROVE ~Pending(b)' /\ ~Handed(b)'
    <3>1. Pending(b)' <=> (Carries(batchQ', b) \/ (\E w \in tasks' : w.batch = b)
                            \/ Carries(doneQ', b) \/ b \in arrived')
      BY DEF Pending
    <3>2. Handed(b)' <=> (Carries(doneQ', b) \/ b \in arrived' \/ Carries(drain', b))
      BY DEF Handed
    <3> QED
      BY Zenon, <1>3, <2>1, <3>1, <3>2, CarriesNothing
  <2>11. PipelineInv'
    <3>1. PICK c : c = [i \in Nat |-> StartBlock]
      OBVIOUS
    <3>2. c \in [Nat -> Nat] /\ c[0] = StartBlock
      BY <1>2, <3>1
    <3>3. SentInv(0, c)'
      BY <2>1, <2>3, <3>2 DEF SentInv
    <3>4. Turn' = 0
      <4>1. Turn' = nextSeq' - Len(drain')
        BY DEF Turn
      <4>2. Len(drain') = 0 /\ nextSeq' = 0
        BY <2>1
      <4> QED
        BY <4>1, <4>2
    <3>5. TurnInv(0, c)'
      <4>1. nextSeq' <= 0 /\ Len(drain') <= nextSeq' /\ DOMAIN drain' = {}
            /\ nextSeq'..(0 - 1) = {}
        BY <2>1
      <4> QED
        BY Zenon, <2>10, <4>1 DEF TurnInv
    <3>6. Logged(Len(log))' = {}
      BY <1>4 DEF Logged
    <3>7. CommitInv(c)'
      <4>1. c[Turn'] = synced'.latest + 1
        BY Zenon, <1>1, <1>4, <3>2, <3>4
      <4>2. \A k \in Int : k < k + 1 /\ (k + 1)..((k + 1) - 1) = {}
        OBVIOUS
      <4>3. synced'.latest \in Int
        BY Zenon, <1>0, <1>4
      <4> QED
        BY Zenon, <3>6, <4>1, <4>2, <4>3 DEF CommitInv
    <3>8. AdvancerInv'
      <4>1. final' = IF synced'.latest = NoneYet THEN 0 ELSE synced'.latest
        BY <1>0, <1>1, <1>4, <2>1 DEF NoneYet
      <4> QED
        BY <1>4, <2>1, <4>1 DEF AdvancerInv
    <3>9. VersionInv'
      BY Zenon, <1>3, <2>10, <3>6 DEF VersionInv
    <3>10. 0 \in Nat
      OBVIOUS
    <3> QED
      BY Zenon, <3>2, <3>3, <3>5, <3>7, <3>8, <3>9, <3>10 DEF PipelineInv
  <2>12. CheckpointInv'
    BY <1>1, <1>3, <1>4, <2>1, <2>3 DEF CheckpointInv
  <2>13. phase' = "running"
    BY Zenon, <2>1
  <2> QED
    BY Zenon, <1>5, <2>2, <2>5, <2>6, <2>7, <2>8, <2>9, <2>11, <2>12, <2>13
       DEF InitInv, InitTypes
<1> QED
  BY Zenon, <1>8, <1>9

\* Every step of the command, of its stages, of a failed fetch and of a crash.
LEMMA LoadKept == InitInv /\ [ArchiveInitNext]_initVars => InitInv'
<1> SUFFICES ASSUME InitInv, [ArchiveInitNext]_initVars PROVE InitInv'
  OBVIOUS
<1>1. CASE StartInit
  BY Zenon, <1>1, StartInitKeeps
<1>2. CASE BeginFetch
  BY Zenon, <1>2, BeginFetchKeeps
<1>3. CASE LeaveBundles
  <2>1. /\ phase = "running" /\ Fetching /\ FetchOnly /\ fetch' \in {"first", "many"}
        /\ UNCHANGED <<upcoming, flying, blockQ>>
    BY <1>3 DEF LeaveBundles, Fetching
  <2> QED
    BY Zenon, <2>1, FetchModeKeeps
<1>4. CASE \E n \in 0..EndBlock : SendBlock(n)
  BY Zenon, <1>4, SendBlockKeeps
<1>5. CASE SendFails
  BY Zenon, <1>5, GiveUpKeeps DEF SendFails
<1>6. CASE EndFetch
  BY Zenon, <1>6, FetchModeKeeps DEF EndFetch
<1>7. CASE ReceiveBlock
  BY Zenon, <1>7, ReceiveBlockKeeps
<1>8. CASE Absorb
  BY Zenon, <1>8, AbsorbKeeps
<1>9. CASE EndAccumulator
  BY Zenon, <1>9, EndAccumulatorKeeps
<1>10. CASE MdbxAbsorb
  BY Zenon, <1>10, MdbxAbsorbKeeps
<1>11. CASE EndCheckpointWorker
  BY Zenon, <1>11, EndCheckpointWorkerKeeps
<1>12. CASE SpawnWorker
  BY Zenon, <1>12, SpawnWorkerKeeps
<1>13. CASE \E t \in tasks : Ingest(t) \/ Join(t)
  BY Zenon, <1>13, IngestKeeps, JoinKeeps
<1>14. CASE EndDispatcher
  BY Zenon, <1>14, EndDispatcherKeeps
<1>15. CASE ReceiveDone
  BY Zenon, <1>15, ReceiveDoneKeeps
<1>16. CASE CommitDrained
  BY Zenon, <1>16, CommitDrainedKeeps
<1>17. CASE Finish
  BY Zenon, <1>17, FinishKeeps
<1>18. CASE FetchFails
  BY Zenon, <1>18, GiveUpKeeps DEF FetchFails
<1>19. CASE CrashInit
  BY Zenon, <1>19, CrashInitKeeps
<1>20. CASE UNCHANGED initVars
  <2>1. UNCHANGED <<backend, phase, tableDisk, fetchVars, blockQ, fillVars, batchQ, tasks,
                    dispatch, doneQ, advanceVars>>
    BY <1>20 DEF initVars
  <2>2. UNCHANGED <<synced, log, fetch, cut, first, nextBatch>>
    BY <2>1 DEF tableDisk, fetchVars, fillVars
  <2>3. CheckpointInv => CheckpointInv'
    BY <2>1, <2>2 DEF CheckpointInv, Receiving, fillVars, advanceVars
  <2> QED
    BY Zenon, <2>1, <2>2, <2>3, LoadFrames, FetchFrame, PipelineFrame DEF InitInv, InitTypes
<1> QED
  BY Zenon, <1>1, <1>2, <1>3, <1>4, <1>5, <1>6, <1>7, <1>8, <1>9, <1>10, <1>11, <1>12,
     <1>13, <1>14, <1>15, <1>16, <1>17, <1>18, <1>19, <1>20 DEF ArchiveInitNext, Pipeline

\* However blocks, batches and completions overtake each other, whatever fails
\* and wherever a crash cuts the log, the point a later run resumes from is
\* complete, and a run that reports success has loaded everything
\* (get_start_block, the accumulator, dispatcher and advancer of
\* archive_init.rs).
THEOREM LoadStaysSound == ArchiveInitSpec => []LoadSound
<1>1. ArchiveInitInit => InitInv
  BY LoadStarts
<1>2. InitInv /\ [ArchiveInitNext]_initVars => InitInv'
  BY LoadKept
<1>3. InitInv => LoadSound
  BY LoadResult
<1> QED
  BY <1>1, <1>2, <1>3, PTL DEF ArchiveInitSpec
=============================================================================
