-------------------------- MODULE IteratorTracker --------------------------
(***************************************************************************)
(* The tracker of archive read handles.  A handle holds RocksDB iterators, *)
(* which keep old files alive; a monitor marks a handle that is older than *)
(* the timeout, so that its next read fails, and takes the iterators away  *)
(* from one older than twice the timeout.                                  *)
(*                                                                         *)
(* The map of handles is taken to be one shard: the monitor keeps it       *)
(* locked while it works on an entry, and handles cannot be added or       *)
(* removed meanwhile.  The counters that only feed a log line are left out.*)
(***************************************************************************)
EXTENDS Integers, FiniteSets

CONSTANTS
    Handles,    \* ids of the handles ever opened
    Timeout     \* in steps of the clock

ASSUME TrackerAssumption == IsFiniteSet(Handles) /\ Timeout \in Nat \ {0}

VARIABLES
    stage,      \* of each handle's user
    age,        \* time since registration, up to what the monitor tells apart
    iterators,  \* handles whose iterators are alive
    active,     \* registered handles
    timedOut,   \* handles whose flag is set
    released,   \* entries marked force_released
    count,      \* timed_out_count
    pending,    \* removed entries that timed_out_count still has to lose
    monitor,    \* where the monitor stands
    now,        \* the ages it goes by
    scan,       \* entries it has yet to visit
    visited,    \* the entry it holds
    overdue     \* its force_released list

trackerVars == <<stage, age, iterators, active, timedOut, released, count, pending,
                 monitor, now, scan, visited, overdue>>

monitorVars == <<monitor, now, scan, visited, overdue>>
userVars == <<stage, age>>

MaxAge == 2 * Timeout + 1

\* The shard is free: the monitor is not inside an entry.
Unlocked == monitor \notin {"count", "release"}

Move(h, from, to) == stage[h] = from /\ stage' = [stage EXCEPT ![h] = to]

----------------------------------------------------------------------------
(***************************************************************************)
(* The users of the handles.                                               *)
(***************************************************************************)

\* new_state_iterators, then register.
CreateIterators(h) ==
    /\ Move(h, "none", "created")
    /\ iterators' = iterators \cup {h}
    /\ UNCHANGED <<age, active, timedOut, released, count, pending, monitorVars>>

Register(h) ==
    /\ Unlocked
    /\ Move(h, "created", "open")
    /\ active' = active \cup {h}
    /\ UNCHANGED <<age, iterators, timedOut, released, count, pending, monitorVars>>

\* check_timeout; a read whose flag is set fails here.
BeginRead(h) ==
    /\ h \notin timedOut
    /\ Move(h, "open", "checked")
    /\ UNCHANGED <<age, iterators, active, timedOut, released, count, pending,
                   monitorVars>>

\* The iterator is locked for the seek; a read that finds it gone fails.
LockIterator(h) ==
    /\ Move(h, "checked", IF h \in iterators THEN "reading" ELSE "open")
    /\ UNCHANGED <<age, iterators, active, timedOut, released, count, pending,
                   monitorVars>>

EndRead(h) ==
    /\ Move(h, "reading", "open")
    /\ UNCHANGED <<age, iterators, active, timedOut, released, count, pending,
                   monitorVars>>

\* unregister, up to the removal of the entry: its flag tells whether the
\* counter has to be lowered.
RemoveEntry(h) ==
    /\ Unlocked
    /\ active' = active \ {h}
    /\ pending' = IF h \in active \cap timedOut THEN pending \cup {h} ELSE pending

LowerCount(h) ==
    /\ h \in pending
    /\ pending' = pending \ {h}
    /\ count' = count - 1
    /\ UNCHANGED <<userVars, iterators, active, timedOut, released, monitorVars>>

\* Mutant of DropHandle: the flag is looked at whether or not the entry was
\* still there.
DropHandleAnyway(h) ==
    /\ Unlocked
    /\ Move(h, "open", "gone")
    /\ active' = active \ {h}
    /\ pending' = IF h \in timedOut THEN pending \cup {h} ELSE pending
    /\ iterators' = iterators \ {h}
    /\ UNCHANGED <<age, timedOut, released, count, monitorVars>>

\* The handle is dropped; with the entry go the last references to its
\* iterators.
DropHandle(h) ==
    /\ Move(h, "open", "gone")
    /\ RemoveEntry(h)
    /\ iterators' = iterators \ {h}
    /\ UNCHANGED <<age, timedOut, released, count, monitorVars>>

\* Time passes for the registered handles.
Elapse ==
    /\ \E h \in active : age[h] < MaxAge
    /\ age' = [h \in Handles |-> IF h \in active /\ age[h] < MaxAge
                                 THEN age[h] + 1 ELSE age[h]]
    /\ UNCHANGED <<stage, iterators, active, timedOut, released, count, pending,
                   monitorVars>>

----------------------------------------------------------------------------
(***************************************************************************)
(* monitor_loop.                                                           *)
(***************************************************************************)

Wake ==
    /\ monitor = "asleep"
    /\ monitor' = "scan"
    /\ now' = age
    /\ scan' = Handles
    /\ overdue' = {}
    /\ UNCHANGED <<userVars, iterators, active, timedOut, released, count, pending,
                   visited>>

\* Mutant of Visit: an entry is marked as soon as it reaches the timeout.
VisitEarly(h) ==
    /\ monitor = "scan"
    /\ h \in scan
    /\ scan' = scan \ {h}
    /\ visited' = h
    /\ IF h \in active \ timedOut /\ now[h] >= Timeout
       THEN timedOut' = timedOut \cup {h} /\ monitor' = "count"
       ELSE /\ monitor' = IF h \in (active \cap timedOut) \ released
                             /\ now[h] > 2 * Timeout
                          THEN "release" ELSE "scan"
            /\ UNCHANGED timedOut
    /\ UNCHANGED <<userVars, iterators, active, released, count, pending, now,
                   overdue>>

\* Mutant of Visit: an entry that is marked is done with.
VisitOnce(h) ==
    /\ monitor = "scan"
    /\ h \in scan
    /\ scan' = scan \ {h}
    /\ visited' = h
    /\ IF h \in active \ timedOut /\ now[h] > Timeout
       THEN timedOut' = timedOut \cup {h} /\ monitor' = "count"
       ELSE UNCHANGED <<timedOut, monitor>>
    /\ UNCHANGED <<userVars, iterators, active, released, count, pending, now,
                   overdue>>

\* One entry: mark it when it is late, take it up for release when it is
\* marked and twice as late.
Visit(h) ==
    /\ monitor = "scan"
    /\ h \in scan
    /\ scan' = scan \ {h}
    /\ visited' = h
    /\ IF h \in active \ timedOut /\ now[h] > Timeout
       THEN timedOut' = timedOut \cup {h} /\ monitor' = "count"
       ELSE /\ monitor' = IF h \in (active \cap timedOut) \ released
                             /\ now[h] > 2 * Timeout
                          THEN "release" ELSE "scan"
            /\ UNCHANGED timedOut
    /\ UNCHANGED <<userVars, iterators, active, released, count, pending, now,
                   overdue>>

RaiseCount ==
    /\ monitor = "count"
    /\ count' = count + 1
    /\ monitor' = "scan"
    /\ UNCHANGED <<userVars, iterators, active, timedOut, released, pending, now,
                   scan, visited, overdue>>

\* Mutant of Release: the iterator's lock is not waited for.
ReleaseAtOnce ==
    /\ monitor = "release"
    /\ iterators' = iterators \ {visited}
    /\ released' = released \cup {visited}
    /\ overdue' = overdue \cup {visited}
    /\ monitor' = "scan"
    /\ UNCHANGED <<userVars, active, timedOut, count, pending, now, scan, visited>>

\* SharedIterators::release waits for a read that has the iterator locked.
Release ==
    /\ monitor = "release"
    /\ stage[visited] # "reading"
    /\ iterators' = iterators \ {visited}
    /\ released' = released \cup {visited}
    /\ overdue' = overdue \cup {visited}
    /\ monitor' = "scan"
    /\ UNCHANGED <<userVars, active, timedOut, count, pending, now, scan, visited>>

EndScan ==
    /\ monitor = "scan" /\ scan = {}
    /\ monitor' = "unregister"
    /\ UNCHANGED <<userVars, iterators, active, timedOut, released, count, pending,
                   now, scan, visited, overdue>>

UnregisterOverdue(h) ==
    /\ monitor = "unregister"
    /\ h \in overdue
    /\ RemoveEntry(h)
    /\ overdue' = overdue \ {h}
    /\ UNCHANGED <<userVars, iterators, timedOut, released, count, monitor, now,
                   scan, visited>>

Sleep ==
    /\ monitor = "unregister" /\ overdue = {}
    /\ monitor' = "asleep"
    /\ UNCHANGED <<userVars, iterators, active, timedOut, released, count, pending,
                   now, scan, visited, overdue>>

TrackerInit ==
    /\ stage = [h \in Handles |-> "none"]
    /\ age = [h \in Handles |-> 0]
    /\ iterators = {} /\ active = {} /\ timedOut = {} /\ released = {}
    /\ count = 0 /\ pending = {}
    /\ monitor = "asleep" /\ now = age /\ scan = {} /\ overdue = {}
    /\ visited = CHOOSE h \in Handles : TRUE

MonitorStep ==
    \/ Wake \/ RaiseCount \/ Release \/ EndScan \/ Sleep
    \/ \E h \in Handles : Visit(h) \/ UnregisterOverdue(h)

\* What a user's call goes on to do by itself.
UserStep(h) == Register(h) \/ LockIterator(h) \/ EndRead(h) \/ LowerCount(h)

TrackerNext ==
    \/ MonitorStep \/ Elapse
    \/ \E h \in Handles : \/ CreateIterators(h) \/ BeginRead(h) \/ DropHandle(h)
                          \/ UserStep(h)

TrackerSpec == TrackerInit /\ [][TrackerNext]_trackerVars

----------------------------------------------------------------------------
(***************************************************************************)
(* Properties.                                                             *)
(***************************************************************************)

\* Every variable keeps its type, and timed_out_count, which wraps below zero,
\* is the number of marked handles still registered whatever the monitor and
\* the users' drops do in between (unregister, monitor_loop).
TrackerTypeOK ==
    /\ stage \in [Handles -> {"none", "created", "open", "checked", "reading", "gone"}]
    /\ age \in [Handles -> 0..MaxAge]
    /\ {iterators, active, timedOut, released, scan, overdue} \subseteq SUBSET Handles
    /\ monitor \in {"asleep", "scan", "count", "release", "unregister"}
    /\ count = Cardinality(active \cap timedOut) + Cardinality(pending)
                  - IF monitor = "count" THEN 1 ELSE 0

\* A handle's reads do not fail before it is older than the timeout, and its
\* iterators are not taken before twice that (monitor_loop).
NoEarlyTimeout ==
    \A h \in Handles :
        /\ h \in timedOut => age[h] > Timeout
        /\ stage[h] \in {"open", "checked", "reading"} /\ h \notin iterators
              => age[h] > 2 * Timeout

\* A seek never runs on an iterator that has been taken away (release, and the
\* lock read_account and read_storage hold over their seek).
SeeksOnLiveIterator == \A h \in Handles : stage[h] = "reading" => h \in iterators

\* A handle its user never drops does not keep its iterators: the monitor gets
\* to it, and to the next one, while reads and drops go on ("automatically
\* closes them after a configurable timeout").
IteratorsFreed == \A h \in Handles : stage[h] = "open" ~> h \notin iterators

\* The monitor never harms a handle in use and both keep count of the marked
\* ones (monitor_loop, unregister, release).
HandlesSafe == TrackerTypeOK /\ NoEarlyTimeout /\ SeeksOnLiveIterator

\* The rest of the types, and the ages the monitor goes by are not ahead of the
\* clock.
MonitorTypes ==
    /\ pending \in SUBSET Handles
    /\ count \in Int
    /\ now \in [Handles -> 0..MaxAge]
    /\ \A h \in Handles : now[h] <= age[h]
    /\ monitor \in {"count", "release"} => visited \in active \cap timedOut
    /\ monitor = "release" => now[visited] > 2 * Timeout

\* What the map's entries, the flags and the iterators say of a handle's user.
EntriesFollowUse ==
    /\ \A h \in active : stage[h] \in {"open", "checked", "reading"}
    /\ \A h \in timedOut \cup pending : stage[h] \notin {"none", "created"}
    /\ \A h \in Handles : stage[h] = "created" => h \in iterators
    /\ active \cap pending = {}

\* What the steps of the tracker preserve together with HandlesSafe.
TrackerInv == HandlesSafe /\ MonitorTypes /\ EntriesFollowUse
=============================================================================
