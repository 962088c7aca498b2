---------------------------- MODULE Interceptor ----------------------------
(***************************************************************************)
(* The load shedder in front of the JSON-RPC server.  A worker samples the *)
(* process's CPU time and the IO pressure at every tick, keeps per minute  *)
(* how often requests say they were retried, and publishes two words: how  *)
(* much to refuse, and whether the other nodes seem overloaded too.        *)
(* Requests read them and tell the worker of their retries over a channel. *)
(*                                                                         *)
(* Time is counted in sampling intervals.  A CPU sample is the CPU time    *)
(* used so far; a usage is compared with a threshold by cross-multiplying, *)
(* so no fraction is formed.  procfs is external: every value it could     *)
(* give is one of a few levels.                                            *)
(***************************************************************************)
EXTENDS Integers, Sequences, FiniteSets, SequencesExt

CONSTANTS
    Minute,         \* sampling intervals per minute
    Window,         \* of the retry recorder, in minutes
    CpuWindow,      \* in sampling intervals
    CpuThreshold,   \* low, middle and high, in CPU time per interval
    IoThreshold,    \* some.avg10: low, middle and high
    IoFullThreshold,
    IoEnable,
    RetryNum, RetryDen, \* not_retry_threshold
    MaxRetries,     \* largest x-load-retries of a request
    MaxTime, MaxQueued, MaxRequests \* bounds of the model

ASSUME InterceptorAssumption ==
    /\ {Minute, Window, CpuWindow, RetryDen} \subseteq Nat \ {0}
    /\ CpuThreshold \in [1..3 -> Nat]
    /\ \A T \in {IoThreshold, IoFullThreshold} :
          T \in [1..3 -> Nat] /\ T[1] < T[2] /\ T[2] < T[3]
    /\ IoEnable \in BOOLEAN

VARIABLES
    time,       \* sampling intervals since the start
    cpu,        \* CPU time used up to each time
    minute,     \* now_minute of the worker
    entries,    \* of the retry recorder
    retriesQ,   \* channel to the worker
    recorded,   \* what the recorder was ever told
    samples,    \* of the CPU recorder
    loadStatus, \* load_status
    cpuStatus,  \* its CPU part
    elsewhere,  \* other_overloaded
    answer      \* to the last request

shedVars == <<time, cpu, minute, entries, retriesQ, recorded, samples, loadStatus,
              cpuStatus, elsewhere, answer>>

Larger(a, b) == IF a >= b THEN a ELSE b

----------------------------------------------------------------------------
(***************************************************************************)
(* RetryRecorder.                                                          *)
(***************************************************************************)

\* add: the last entry counts the current minute, or a new one does.
AddRetry(E, m, r) ==
    IF E # <<>> /\ Last(E).minute = m
    THEN [E EXCEPT ![Len(E)] = [minute |-> m, requests |-> @.requests + 1,
                                retries |-> @.retries + r]]
    ELSE Append(E, [minute |-> m, requests |-> 1, retries |-> r])

\* Mutant of ClearOld: an entry as old as the window is kept.
ClearOldLate(E, m) ==
    LET kept == {i \in 1..Len(E) : m <= Window + E[i].minute}
    IN  SubSeq(E, Len(E) - Cardinality(kept) + 1, Len(E))

\* clear: entries as old as the window go, from the front.
ClearOld(E, m) ==
    LET kept == {i \in 1..Len(E) : \E j \in 1..i : m < Window + E[j].minute}
    IN  SubSeq(E, Len(E) - Cardinality(kept) + 1, Len(E))

Requests(E) == FoldLeft(LAMBDA n, e : n + e.requests, 0, E)
Retries(E) == FoldLeft(LAMBDA n, e : n + e.retries, 0, E)

\* stat() >= not_retry_threshold.
RetryRateHigh(E) ==
    IF Requests(E) = 0 THEN RetryNum = 0
    ELSE Retries(E) * RetryDen >= RetryNum * Requests(E)

----------------------------------------------------------------------------
(***************************************************************************)
(* CpuRecorder and the load status.                                        *)
(***************************************************************************)

\* Mutant of DropOld: every sample a window old goes.
DropOldAll(S) == SelectSeq(S, LAMBDA s : time - s.at < CpuWindow)

\* record: of the samples at least a window old, the newest is kept.
DropOld(S) ==
    LET old == {i \in 1..Len(S) : i >= 2 /\ \A j \in 2..i : time - S[j].at >= CpuWindow}
    IN  SubSeq(S, Cardinality(old) + 1, Len(S))

\* Mutant of CpuStatus: a usage is formed from the first samples on.
CpuStatusAtOnce(S) ==
    LET elapsed == time - S[1].at
        used == Last(S).cpu - S[1].cpu
    IN  CASE used <= CpuThreshold[1] * elapsed -> 0
          [] used <= CpuThreshold[2] * elapsed -> 1
          [] used <= CpuThreshold[3] * elapsed -> 2
          [] OTHER -> 3

\* cpu_load_status of the usage since the oldest sample; nothing is refused
\* before a full window was seen.
CpuStatus(S) ==
    LET elapsed == time - S[1].at
        used == Last(S).cpu - S[1].cpu
    IN  IF elapsed < CpuWindow THEN 0
        ELSE CASE used <= CpuThreshold[1] * elapsed -> 0
               [] used <= CpuThreshold[2] * elapsed -> 1
               [] used <= CpuThreshold[3] * elapsed -> 2
               [] OTHER -> 3

\* The highest level one of the two pressures reaches, 0 if none.
Level(some, full) ==
    Cardinality({i \in 1..3 : \E j \in i..3 :
                    some >= IoThreshold[j] \/ full >= IoFullThreshold[j]})

\* io_pressure_load_status: the higher of the two pressures decides.
IoStatus(some, full) == IF IoEnable THEN Level(some, full) ELSE 0

----------------------------------------------------------------------------
(***************************************************************************)
(* Actions.                                                                *)
(***************************************************************************)

\* An interval passes, in which the process uses some CPU time.
Pass(used) ==
    /\ time < MaxTime
    /\ time' = time + 1
    /\ cpu' = Append(cpu, Last(cpu) + used)
    /\ UNCHANGED <<minute, entries, retriesQ, recorded, samples, loadStatus,
                   cpuStatus, elsewhere, answer>>

\* run, interval.tick(): set_load_status, set_other_overloaded, then the
\* worker's minute moves and old entries are cleared.  io is what the pressure
\* file says, or that it cannot be read, which refuses nothing.
Sample(io) ==
    LET S == DropOld(Append(samples, [at |-> time, cpu |-> Last(cpu)]))
    IN  /\ samples[Len(samples)].at < time
        /\ samples' = S
        /\ cpuStatus' = CpuStatus(S)
        /\ loadStatus' = Larger(CpuStatus(S),
                                IF io.readable THEN IoStatus(io.some, io.full)
                                ELSE 0)
        /\ elsewhere' = RetryRateHigh(entries)
        /\ minute' = time \div Minute
        /\ entries' = ClearOld(entries, minute')
        /\ UNCHANGED <<time, cpu, retriesQ, recorded, answer>>

\* run, retries_receiver.recv().
ReceiveRetries ==
    /\ retriesQ # <<>>
    /\ entries' = AddRetry(entries, minute, Head(retriesQ))
    /\ recorded' = Append(recorded, [minute |-> minute, retries |-> Head(retriesQ)])
    /\ retriesQ' = Tail(retriesQ)
    /\ UNCHANGED <<time, cpu, minute, samples, loadStatus, cpuStatus, elsewhere,
                   answer>>

\* check_load_status: whom the published status refuses.
Refused(priority) ==
    CASE loadStatus = 0 -> FALSE
      [] loadStatus = 1 -> priority = "low"
      [] loadStatus = 2 -> priority \in {"low", "medium"}
      [] OTHER -> TRUE

\* Interceptor::call: an expired request is neither recorded nor served, and a
\* refused one is told whether to try another node.
Request(priority, expired, retries) ==
    /\ IF expired
       THEN answer' = "expired" /\ UNCHANGED retriesQ
       ELSE /\ Len(retriesQ) < MaxQueued
            /\ Len(recorded) + Len(retriesQ) < MaxRequests
            /\ retriesQ' = Append(retriesQ, retries)
            /\ answer' = IF ~Refused(priority) THEN "served"
                         ELSE IF elsewhere THEN "do not retry" ELSE "overloaded"
    /\ UNCHANGED <<time, cpu, minute, entries, recorded, samples, loadStatus,
                   cpuStatus, elsewhere>>

\* A request that asks to skip the interceptor.
SkipInterceptor ==
    /\ answer' = "served"
    /\ UNCHANGED <<time, cpu, minute, entries, retriesQ, recorded, samples,
                   loadStatus, cpuStatus, elsewhere>>

ShedInit ==
    /\ time = 0 /\ minute = 0
    /\ cpu = <<0>>
    /\ entries = <<>> /\ retriesQ = <<>> /\ recorded = <<>>
    /\ samples = <<[at |-> 0, cpu |-> 0]>>
    /\ loadStatus = 0 /\ cpuStatus = 0 /\ elsewhere = FALSE
    /\ answer = "none"

ShedNext ==
    \/ \E used \in {0, CpuThreshold[3] + 1} : Pass(used)
    \/ \E io \in [readable : BOOLEAN, some : {0, IoThreshold[2]},
                  full : {0, IoFullThreshold[3]}] : Sample(io)
    \/ ReceiveRetries
    \/ \E p \in {"high", "medium", "low"}, x \in BOOLEAN, r \in 0..MaxRetries :
          Request(p, x, r)
    \/ SkipInterceptor

----------------------------------------------------------------------------
(***************************************************************************)
(* Properties.                                                             *)
(***************************************************************************)

\* The recorder's entries, one per minute and merged as they come, hold
\* exactly the retries it was told of in the last Window minutes of the
\* worker's clock, however late a tick is (RetryRecorder).
RecorderExact ==
    LET recent == SelectSeq(recorded, LAMBDA r : minute < Window + r.minute)
    IN  /\ Requests(entries) = Len(recent)
        /\ Retries(entries) = FoldLeft(LAMBDA n, r : n + r.retries, 0, recent)
        /\ \A i, j \in DOMAIN entries : i < j => entries[i].minute < entries[j].minute

\* CPU load sheds requests only when the process really used more than the low
\* threshold over a stretch that is at least the window and ends with the last
\* sample; a burst shorter than the window is averaged out, and a late tick
\* stretches the average instead of losing it (CpuRecorder::record).
ShedsOnSustainedLoad ==
    cpuStatus > 0 =>
        LET end == Last(samples).at
        IN  \E w \in CpuWindow..end :
                cpu[end + 1] - cpu[end - w + 1] > CpuThreshold[1] * w

\* The converse, where it is most wanted: a process that has been above the
\* high threshold at every moment since it started is refusing everything as
\* soon as a sample a window after the start was taken.
OverloadIsSeen ==
    LET end == Last(samples).at
    IN  /\ end >= CpuWindow
        /\ \A t \in 1..end : cpu[t + 1] - cpu[t] > CpuThreshold[3]
        => loadStatus = 3

\* The worker's two windows are exact: requests are shed under sustained load,
\* then surely, and by retries that are recent (CpuRecorder, RetryRecorder).
ShedsExactly == RecorderExact /\ ShedsOnSustainedLoad /\ OverloadIsSeen
=============================================================================
