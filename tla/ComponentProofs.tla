--------------------------- MODULE ComponentProofs ---------------------------
(***************************************************************************)
(* Proofs about components that stand alone: the iterator tracker, Tempo's *)
(* expiring nonces and its validator registry.                             *)
(***************************************************************************)
EXTENDS IteratorTracker, ExpiringNonces, ValidatorConfig, FiniteSetTheorems,
        TLAPS

----------------------------------------------------------------------------
(***************************************************************************)
(* The iterator tracker.                                                   *)
(***************************************************************************)

\* The types of the tracker, one by one.
LEMMA TrackerTypes ==
  ASSUME TrackerInv
  PROVE  /\ stage \in [Handles -> {"none", "created", "open", "checked",
                                   "reading", "gone"}]
         /\ age \in [Handles -> Nat] /\ now \in [Handles -> Nat]
         /\ \A h \in Handles : age[h] <= MaxAge /\ now[h] <= MaxAge
         /\ Timeout \in Nat /\ MaxAge \in Nat /\ MaxAge = 2 * Timeout + 1
         /\ iterators \subseteq Handles /\ active \subseteq Handles
         /\ timedOut \subseteq Handles /\ released \subseteq Handles
         /\ scan \subseteq Handles /\ overdue \subseteq Handles
         /\ pending \subseteq Handles
<1>1. Timeout \in Nat /\ MaxAge \in Nat /\ MaxAge = 2 * Timeout + 1
  BY TrackerAssumption DEF MaxAge
<1>2. age \in [Handles -> 0..MaxAge] /\ now \in [Handles -> 0..MaxAge]
  BY Zenon DEF TrackerInv, HandlesSafe, TrackerTypeOK, MonitorTypes
<1>3. /\ age \in [Handles -> Nat] /\ now \in [Handles -> Nat]
      /\ \A h \in Handles : age[h] <= MaxAge /\ now[h] <= MaxAge
  BY <1>1, <1>2
<1> QED
  BY Zenon, <1>1, <1>3 DEF TrackerInv, HandlesSafe, TrackerTypeOK, MonitorTypes

\* Marking, removing and counting down an entry change the two sets that
\* timed_out_count counts by one.
LEMMA MarkedSets ==
  ASSUME TrackerInv
  PROVE  /\ IsFiniteSet(active \cap timedOut) /\ IsFiniteSet(pending)
         /\ Cardinality(active \cap timedOut) \in Nat
         /\ Cardinality(pending) \in Nat
<1>1. active \cap timedOut \subseteq Handles /\ pending \subseteq Handles
  BY Zenon, TrackerTypes
<1>2. IsFiniteSet(active \cap timedOut) /\ IsFiniteSet(pending)
  BY Zenon, <1>1, TrackerAssumption, FS_Subset
<1> QED
  BY Zenon, <1>2, FS_CardinalityType

\* Removing an entry (unregister) moves it from the marked and registered ones
\* to those timed_out_count has yet to lose, and leaves their number alone.
LEMMA RemoveKeepsCount ==
  ASSUME TrackerInv, NEW h \in Handles, RemoveEntry(h), timedOut' = timedOut
  PROVE  /\ Cardinality((active \cap timedOut)') + Cardinality(pending')
              = Cardinality(active \cap timedOut) + Cardinality(pending)
         /\ Cardinality((active \cap timedOut)') \in Nat
         /\ Cardinality(pending') \in Nat
         /\ pending' \subseteq Handles /\ active' \cap pending' = {}
<1>0. /\ Cardinality((active \cap timedOut)') \in Nat
      /\ Cardinality(pending') \in Nat
  <2>1. (active \cap timedOut)' \subseteq Handles /\ pending' \subseteq Handles
    BY Zenon, TrackerTypes DEF RemoveEntry
  <2> QED
    BY Zenon, <2>1, TrackerAssumption, FS_Subset, FS_CardinalityType
<1>1. CASE h \in active \cap timedOut
  <2>1. /\ (active \cap timedOut)' = (active \cap timedOut) \ {h}
        /\ pending' = pending \cup {h} /\ h \notin pending
    BY Zenon, <1>1 DEF RemoveEntry, TrackerInv, EntriesFollowUse
  <2>4. Cardinality((active \cap timedOut)') = Cardinality(active \cap timedOut) - 1
    <3>1. PICK S : S = active \cap timedOut
      BY Zenon
    <3>2. IsFiniteSet(S) /\ h \in S
      BY Zenon, <1>1, <3>1, MarkedSets
    <3>3. Cardinality(S \ {h}) = Cardinality(S) - 1
      BY Zenon, <3>2, FS_RemoveElement
    <3> QED
      BY Zenon, <2>1, <3>1, <3>3
  <2>2. Cardinality(pending') = Cardinality(pending) + 1
    BY Zenon, <2>1, MarkedSets, FS_AddElement
  <2>3. pending' \subseteq Handles /\ active' \cap pending' = {}
    BY Zenon, <2>1, TrackerTypes DEF RemoveEntry, TrackerInv, EntriesFollowUse
  <2> QED
    BY <1>0, <2>4, <2>2, <2>3, MarkedSets
<1>2. CASE h \notin active \cap timedOut
  <2>1. (active \cap timedOut)' = active \cap timedOut /\ pending' = pending
    BY Zenon, <1>2 DEF RemoveEntry
  <2>2. pending' \subseteq Handles /\ active' \cap pending' = {}
    BY Zenon, <2>1, TrackerTypes DEF RemoveEntry, TrackerInv, EntriesFollowUse
  <2> QED
    BY Zenon, <1>0, <2>1, <2>2
<1> QED
  BY Zenon, <1>1, <1>2

\* timed_out_count stays what it should be, and pending what it is for.
LEMMA CountStep ==
  ASSUME TrackerInv, TrackerNext
  PROVE  /\ count' \in Int
         /\ count' = Cardinality((active \cap timedOut)') + Cardinality(pending')
                       - IF monitor' = "count" THEN 1 ELSE 0
         /\ pending' \subseteq Handles /\ active' \cap pending' = {}
<1> DEFINE Goal == /\ count' \in Int
                   /\ count' = Cardinality((active \cap timedOut)')
                                 + Cardinality(pending')
                                 - IF monitor' = "count" THEN 1 ELSE 0
                   /\ pending' \subseteq Handles /\ active' \cap pending' = {}
<1>0. /\ count \in Int
      /\ count = Cardinality(active \cap timedOut) + Cardinality(pending)
                   - IF monitor = "count" THEN 1 ELSE 0
      /\ pending \subseteq Handles /\ active \cap pending = {}
  BY Zenon, TrackerTypes
  DEF TrackerInv, HandlesSafe, TrackerTypeOK, MonitorTypes, EntriesFollowUse
<1>1. ASSUME /\ (active \cap timedOut)' = active \cap timedOut
             /\ pending' = pending /\ count' = count /\ active' \cap pending' = {}
             /\ (monitor' = "count") = (monitor = "count")
      PROVE  Goal
  BY Zenon, <1>0, <1>1
<1>2. ASSUME NEW h \in Handles, Visit(h), monitor' = "count"
      PROVE  Goal
  <2>1. /\ monitor = "scan" /\ count' = count /\ pending' = pending
        /\ active' = active
    BY Zenon, <1>2 DEF Visit
  <2>2. h \in active \ timedOut /\ timedOut' = timedOut \cup {h}
    BY <1>2 DEF Visit
  <2>3. (active \cap timedOut)' = (active \cap timedOut) \cup {h}
    BY Zenon, <2>1, <2>2
  <2>4. Cardinality((active \cap timedOut)') = Cardinality(active \cap timedOut) + 1
    BY Zenon, <2>2, <2>3, MarkedSets, FS_AddElement
  <2> QED
    BY <1>0, <1>2, <2>1, <2>4, MarkedSets
<1>3. ASSUME NEW h \in Handles, Visit(h), monitor' # "count"
      PROVE  Goal
  <2>1. monitor = "scan" /\ UNCHANGED <<count, pending, active, timedOut>>
    BY <1>3 DEF Visit
  <2> QED
    BY Zenon, <1>1, <1>0, <1>3, <2>1
<1>4. CASE RaiseCount
  <2>1. /\ count' = count + 1 /\ monitor = "count" /\ monitor' = "scan"
        /\ UNCHANGED <<pending, active, timedOut>>
    BY Zenon, <1>4 DEF RaiseCount
  <2> QED
    BY <1>0, <2>1, MarkedSets
<1>5. ASSUME NEW h \in Handles, LowerCount(h)
      PROVE  Goal
  <2>1. /\ h \in pending /\ pending' = pending \ {h} /\ count' = count - 1
        /\ UNCHANGED <<active, timedOut, monitor>>
    BY Zenon, <1>5 DEF LowerCount, monitorVars
  <2>2. Cardinality(pending') = Cardinality(pending) - 1
    BY Zenon, <2>1, MarkedSets, FS_RemoveElement
  <2>3. pending' \subseteq Handles /\ active' \cap pending' = {}
    BY Zenon, <1>0, <2>1
  <2> QED
    BY <1>0, <2>1, <2>2, <2>3, MarkedSets
<1>6. ASSUME NEW h \in Handles, UnregisterOverdue(h) \/ DropHandle(h)
      PROVE  Goal
  <2>1. /\ RemoveEntry(h) /\ timedOut' = timedOut /\ count' = count
        /\ monitor' = monitor
    BY Zenon, <1>6 DEF UnregisterOverdue, DropHandle, monitorVars
  <2>2. /\ Cardinality((active \cap timedOut)') + Cardinality(pending')
             = Cardinality(active \cap timedOut) + Cardinality(pending)
        /\ Cardinality((active \cap timedOut)') \in Nat
        /\ Cardinality(pending') \in Nat
        /\ pending' \subseteq Handles /\ active' \cap pending' = {}
    BY Zenon, <2>1, RemoveKeepsCount
  <2> QED
    BY <1>0, <2>1, <2>2, MarkedSets
<1>7. ASSUME NEW h \in Handles, Register(h)
      PROVE  Goal
  <2>1. /\ stage[h] = "created" /\ active' = active \cup {h}
        /\ UNCHANGED <<timedOut, pending, count, monitor>>
    BY Zenon, <1>7 DEF Register, Move, monitorVars
  <2>2. h \notin timedOut /\ h \notin pending
    BY Zenon, <2>1 DEF TrackerInv, EntriesFollowUse
  <2>3. (active \cap timedOut)' = active \cap timedOut /\ active' \cap pending' = {}
    BY <1>0, <2>1, <2>2, MarkedSets
  <2> QED
    BY Zenon, <1>1, <2>1, <2>3
<1>8. CASE Wake \/ Release \/ EndScan \/ Sleep \/ Elapse
  <2>1. /\ UNCHANGED <<active, timedOut, pending, count>>
        /\ monitor = "count" <=> monitor' = "count"
    BY <1>8 DEF Wake, Release, EndScan, Sleep, Elapse, monitorVars
  <2> QED
    BY Zenon, <1>0, <1>1, <2>1
<1>9. ASSUME NEW h \in Handles, \/ CreateIterators(h) \/ BeginRead(h)
                                \/ LockIterator(h) \/ EndRead(h)
      PROVE  Goal
  <2>1. UNCHANGED <<active, timedOut, pending, count, monitor>>
    BY Zenon, <1>9
    DEF CreateIterators, BeginRead, LockIterator, EndRead, monitorVars
  <2> QED
    BY Zenon, <1>0, <1>1, <2>1
<1> QED
  BY Zenon, <1>2, <1>3, <1>4, <1>5, <1>6, <1>7, <1>8, <1>9
  DEF TrackerNext, MonitorStep, UserStep

\* The clock: ages only grow, within their bound, and the monitor's are behind.
LEMMA AgesStep ==
  ASSUME TrackerInv, TrackerNext
  PROVE  /\ age' \in [Handles -> 0..MaxAge] /\ now' \in [Handles -> 0..MaxAge]
         /\ \A h \in Handles : age[h] <= age'[h] /\ now'[h] <= age'[h]
<1>0. /\ age \in [Handles -> 0..MaxAge] /\ now \in [Handles -> 0..MaxAge]
      /\ \A h \in Handles : now[h] <= age[h]
  BY Zenon DEF TrackerInv, HandlesSafe, TrackerTypeOK, MonitorTypes
<1>1. CASE Elapse
  <2>1. /\ now' = now
        /\ age' = [h \in Handles |-> IF h \in active /\ age[h] < MaxAge
                                     THEN age[h] + 1 ELSE age[h]]
    BY Zenon, <1>1 DEF Elapse, monitorVars
  <2>2. ASSUME NEW h \in Handles
        PROVE  age'[h] \in 0..MaxAge /\ age[h] <= age'[h] /\ now'[h] <= age'[h]
    <3>1. /\ age[h] \in Nat /\ now[h] \in Nat /\ MaxAge \in Nat
          /\ age[h] <= MaxAge /\ now[h] <= age[h]
      BY Zenon, <1>0, TrackerTypes
    <3>2. age'[h] = IF h \in active /\ age[h] < MaxAge THEN age[h] + 1 ELSE age[h]
      BY Zenon, <2>1
    <3> QED
      BY <2>1, <3>1, <3>2
  <2> QED
    BY Zenon, <1>0, <2>1, <2>2
<1>2. CASE Wake
  <2>1. age' = age /\ now' = age
    BY Zenon, <1>2 DEF Wake, userVars
  <2> QED
    BY <1>0, <2>1, TrackerTypes
<1>3. CASE age' = age /\ now' = now
  BY <1>0, <1>3, TrackerTypes
<1>4. CASE MonitorStep /\ ~Wake
  <2>1. age' = age /\ now' = now
    BY Zenon, <1>4
    DEF MonitorStep, RaiseCount, Release, EndScan, Sleep, Visit, UnregisterOverdue,
        userVars
  <2> QED
    BY Zenon, <1>3, <2>1
<1>5. ASSUME NEW h \in Handles, \/ CreateIterators(h) \/ BeginRead(h)
                                \/ DropHandle(h) \/ UserStep(h)
      PROVE  age' = age /\ now' = now
  BY Zenon, <1>5
  DEF CreateIterators, BeginRead, DropHandle, UserStep, Register, LockIterator,
      EndRead, LowerCount, monitorVars, userVars
<1> QED
  BY Zenon, <1>1, <1>2, <1>3, <1>4, <1>5 DEF TrackerNext

\* A step of the monitor: it marks and takes only what is late, holds a marked
\* entry while it works on it, and leaves the users where they are.
LEMMA MonitorKeeps ==
  ASSUME TrackerInv, MonitorStep
  PROVE  /\ {iterators', active', timedOut', released', scan', overdue'}
              \subseteq SUBSET Handles
         /\ monitor' \in {"asleep", "scan", "count", "release", "unregister"}
         /\ stage' = stage /\ age' = age
         /\ monitor' \in {"count", "release"} => visited' \in active' \cap timedOut'
         /\ monitor' = "release" => now'[visited'] > 2 * Timeout
         /\ NoEarlyTimeout' /\ SeeksOnLiveIterator'
         /\ \A h \in active' : stage'[h] \in {"open", "checked", "reading"}
         /\ \A h \in timedOut' \cup pending' : stage'[h] \notin {"none", "created"}
         /\ \A h \in Handles : stage'[h] = "created" => h \in iterators'
<1> DEFINE Goal == /\ {iterators', active', timedOut', released', scan', overdue'}
                        \subseteq SUBSET Handles
                   /\ monitor' \in {"asleep", "scan", "count", "release", "unregister"}
                   /\ stage' = stage /\ age' = age
                   /\ monitor' \in {"count", "release"}
                        => visited' \in active' \cap timedOut'
                   /\ monitor' = "release" => now'[visited'] > 2 * Timeout
                   /\ NoEarlyTimeout' /\ SeeksOnLiveIterator'
                   /\ \A h \in active' : stage'[h] \in {"open", "checked", "reading"}
                   /\ \A h \in timedOut' \cup pending' :
                         stage'[h] \notin {"none", "created"}
                   /\ \A h \in Handles : stage'[h] = "created" => h \in iterators'
<1>0. /\ NoEarlyTimeout /\ SeeksOnLiveIterator
      /\ {iterators, active, timedOut, released, scan, overdue} \subseteq SUBSET Handles
      /\ monitor \in {"asleep", "scan", "count", "release", "unregister"}
      /\ monitor \in {"count", "release"} => visited \in active \cap timedOut
      /\ monitor = "release" => now[visited] > 2 * Timeout
      /\ \A h \in active : stage[h] \in {"open", "checked", "reading"}
      /\ \A h \in timedOut \cup pending : stage[h] \notin {"none", "created"}
      /\ \A h \in Handles : stage[h] = "created" => h \in iterators
      /\ \A h \in Handles : now[h] <= age[h]
  BY Zenon DEF TrackerInv, HandlesSafe, TrackerTypeOK, MonitorTypes, EntriesFollowUse
<1>1. CASE Wake \/ RaiseCount \/ EndScan \/ Sleep
  <2>1. /\ UNCHANGED <<stage, age, iterators, active, timedOut, released, pending>>
        /\ monitor' \in {"asleep", "scan", "unregister"}
        /\ scan' \subseteq Handles /\ overdue' \subseteq Handles
    BY Zenon, <1>1, TrackerTypes
    DEF Wake, RaiseCount, EndScan, Sleep, userVars
  <2>2. monitor' \notin {"count", "release"}
    BY <2>1
  <2>3. NoEarlyTimeout' /\ SeeksOnLiveIterator'
    BY Zenon, <1>0, <2>1 DEF NoEarlyTimeout, SeeksOnLiveIterator
  <2> QED
    BY Zenon, <1>0, <2>1, <2>2, <2>3
<1>2. CASE Release
  <2>1. /\ monitor = "release" /\ stage[visited] # "reading"
        /\ iterators' = iterators \ {visited}
        /\ released' = released \cup {visited} /\ overdue' = overdue \cup {visited}
        /\ monitor' = "scan"
        /\ UNCHANGED <<stage, age, active, timedOut, pending, scan>>
    BY Zenon, <1>2 DEF Release, userVars
  <2>2. /\ visited \in Handles /\ visited \in active /\ now[visited] > 2 * Timeout
        /\ stage[visited] # "created"
    BY <1>0, <2>1, TrackerTypes
  <2>3. age[visited] > 2 * Timeout
    BY <1>0, <2>2, TrackerTypes
  <2>4. NoEarlyTimeout'
    BY Zenon, <1>0, <2>1, <2>3 DEF NoEarlyTimeout
  <2>5. SeeksOnLiveIterator'
    BY Zenon, <1>0, <2>1 DEF SeeksOnLiveIterator
  <2>6. {iterators', active', timedOut', released', scan', overdue'}
           \subseteq SUBSET Handles
    BY Zenon, <2>1, <2>2, TrackerTypes
  <2>7. monitor' \notin {"count", "release"}
    BY <2>1
  <2> QED
    BY Zenon, <1>0, <2>1, <2>2, <2>4, <2>5, <2>6, <2>7
<1>3. ASSUME NEW h \in Handles, Visit(h)
      PROVE  Goal
  <2>1. /\ monitor = "scan" /\ scan' = scan \ {h} /\ visited' = h
        /\ UNCHANGED <<stage, age, iterators, active, released, pending, now, overdue>>
    BY Zenon, <1>3 DEF Visit, userVars
  <2>2. \/ /\ h \in active \ timedOut /\ now[h] > Timeout
           /\ timedOut' = timedOut \cup {h} /\ monitor' = "count"
        \/ /\ h \in active \cap timedOut /\ now[h] > 2 * Timeout
           /\ timedOut' = timedOut /\ monitor' = "release"
        \/ timedOut' = timedOut /\ monitor' = "scan"
    BY <1>3 DEF Visit
  <2>3. /\ monitor' \in {"asleep", "scan", "count", "release", "unregister"}
        /\ monitor' \in {"count", "release"} => visited' \in active' \cap timedOut'
        /\ monitor' = "release" => now'[visited'] > 2 * Timeout
    BY <2>1, <2>2
  <2>4. now[h] > Timeout => age[h] > Timeout
    BY <1>0, TrackerTypes
  <2>5. NoEarlyTimeout'
    BY Zenon, <1>0, <2>1, <2>2, <2>4 DEF NoEarlyTimeout
  <2>6. SeeksOnLiveIterator'
    BY Zenon, <1>0, <2>1 DEF SeeksOnLiveIterator
  <2>7. h \in active => stage[h] \notin {"none", "created"}
    BY <1>0
  <2>8. \A k \in timedOut' \cup pending' : stage'[k] \notin {"none", "created"}
    BY Zenon, <1>0, <2>1, <2>2, <2>7
  <2>9. {iterators', active', timedOut', released', scan', overdue'}
           \subseteq SUBSET Handles
    <3>1. timedOut' \subseteq timedOut \cup {h}
      BY Zenon, <2>2
    <3>2. timedOut' \in SUBSET Handles
      BY <1>0, <3>1
    <3>3. scan' \in SUBSET Handles
      BY <1>0, <2>1
    <3>4. /\ iterators' \in SUBSET Handles /\ active' \in SUBSET Handles
          /\ released' \in SUBSET Handles /\ overdue' \in SUBSET Handles
      BY <1>0, <2>1
    <3> QED
      BY <3>2, <3>3, <3>4
  <2> QED
    BY Zenon, <1>0, <2>1, <2>3, <2>5, <2>6, <2>8, <2>9
<1>4. ASSUME NEW h \in Handles, UnregisterOverdue(h)
      PROVE  Goal
  <2>1. /\ monitor = "unregister" /\ monitor' = monitor
        /\ active' = active \ {h} /\ overdue' = overdue \ {h}
        /\ pending' = IF h \in active \cap timedOut THEN pending \cup {h} ELSE pending
        /\ UNCHANGED <<stage, age, iterators, timedOut, released, scan>>
    BY Zenon, <1>4 DEF UnregisterOverdue, RemoveEntry, userVars
  <2>2. NoEarlyTimeout' /\ SeeksOnLiveIterator'
    BY Zenon, <1>0, <2>1 DEF NoEarlyTimeout, SeeksOnLiveIterator
  <2>3. \A k \in timedOut' \cup pending' : stage'[k] \notin {"none", "created"}
    <3>1. pending' \subseteq pending \cup timedOut
      BY Zenon, <2>1
    <3> QED
      BY Zenon, <1>0, <2>1, <3>1
  <2>4. {iterators', active', timedOut', released', scan', overdue'}
           \subseteq SUBSET Handles
    BY Zenon, <2>1, TrackerTypes
  <2>5. monitor' \notin {"count", "release"}
    BY <2>1
  <2> QED
    BY Zenon, <1>0, <2>1, <2>2, <2>3, <2>4, <2>5
<1> QED
  BY Zenon, <1>1, <1>2, <1>3, <1>4 DEF MonitorStep

\* A step of a handle's user, or of the clock: a seek starts only on a live
\* iterator, and an entry is not touched while the monitor holds it.
LEMMA UserKeeps ==
  ASSUME TrackerInv,
         \/ Elapse
         \/ \E h \in Handles : \/ CreateIterators(h) \/ BeginRead(h)
                               \/ DropHandle(h) \/ UserStep(h)
  PROVE  /\ stage' \in [Handles -> {"none", "created", "open", "checked",
                                    "reading", "gone"}]
         /\ {iterators', active', timedOut', released', scan', overdue'}
              \subseteq SUBSET Handles
         /\ UNCHANGED monitorVars
         /\ monitor' \in {"count", "release"} => visited' \in active' \cap timedOut'
         /\ NoEarlyTimeout' /\ SeeksOnLiveIterator'
         /\ \A h \in active' : stage'[h] \in {"open", "checked", "reading"}
         /\ \A h \in timedOut' \cup pending' : stage'[h] \notin {"none", "created"}
         /\ \A h \in Handles : stage'[h] = "created" => h \in iterators'
<1> DEFINE Stages == {"none", "created", "open", "checked", "reading", "gone"}
           Goal == /\ stage' \in [Handles -> Stages]
                   /\ {iterators', active', timedOut', released', scan', overdue'}
                        \subseteq SUBSET Handles
                   /\ UNCHANGED monitorVars
                   /\ monitor' \in {"count", "release"}
                        => visited' \in active' \cap timedOut'
                   /\ NoEarlyTimeout' /\ SeeksOnLiveIterator'
                   /\ \A h \in active' : stage'[h] \in {"open", "checked", "reading"}
                   /\ \A h \in timedOut' \cup pending' :
                         stage'[h] \notin {"none", "created"}
                   /\ \A h \in Handles : stage'[h] = "created" => h \in iterators'
<1>0. /\ NoEarlyTimeout /\ SeeksOnLiveIterator
      /\ monitor \in {"count", "release"} => visited \in active \cap timedOut
      /\ \A h \in active : stage[h] \in {"open", "checked", "reading"}
      /\ \A h \in timedOut \cup pending : stage[h] \notin {"none", "created"}
      /\ \A h \in Handles : stage[h] = "created" => h \in iterators
  BY Zenon DEF TrackerInv, HandlesSafe, TrackerTypeOK, MonitorTypes, EntriesFollowUse
<1>1. ASSUME /\ UNCHANGED <<stage, iterators, active, timedOut, released, monitorVars>>
             /\ pending' \subseteq pending
             /\ \A h \in Handles : age[h] <= age'[h]
             /\ age' \in [Handles -> Nat]
      PROVE  Goal
  <2>1. NoEarlyTimeout'
    <3> SUFFICES ASSUME NEW h \in Handles
                 PROVE  /\ h \in timedOut => age'[h] > Timeout
                        /\ (stage[h] \in {"open", "checked", "reading"}
                              /\ h \notin iterators) => age'[h] > 2 * Timeout
      BY Zenon, <1>1 DEF NoEarlyTimeout
    <3>1. /\ h \in timedOut => age[h] > Timeout
          /\ (stage[h] \in {"open", "checked", "reading"}
                /\ h \notin iterators) => age[h] > 2 * Timeout
      BY Zenon, <1>0 DEF NoEarlyTimeout
    <3>2. age[h] \in Nat /\ age'[h] \in Nat /\ age[h] <= age'[h] /\ Timeout \in Nat
      BY Zenon, <1>1, TrackerTypes
    <3> QED
      BY <3>1, <3>2
  <2>2. SeeksOnLiveIterator'
    BY Zenon, <1>0, <1>1 DEF SeeksOnLiveIterator
  <2>3. {iterators', active', timedOut', released', scan', overdue'}
           \subseteq SUBSET Handles
    BY Zenon, <1>1, TrackerTypes DEF monitorVars
  <2>4. \A h \in timedOut' \cup pending' : stage'[h] \notin {"none", "created"}
    BY Zenon, <1>0, <1>1
  <2>5. stage' \in [Handles -> Stages] /\ UNCHANGED monitorVars
    BY Zenon, <1>1, TrackerTypes
  <2> QED
    BY Zenon, <1>0, <1>1, <2>1, <2>2, <2>3, <2>4, <2>5 DEF monitorVars
<1>2. CASE Elapse
  <2>1. UNCHANGED <<stage, iterators, active, timedOut, released, pending, monitorVars>>
    BY Zenon, <1>2 DEF Elapse
  <2>2. TrackerNext
    BY Zenon, <1>2 DEF TrackerNext
  <2>3. age' \in [Handles -> 0..MaxAge] /\ \A h \in Handles : age[h] <= age'[h]
    BY Zenon, <2>2, AgesStep
  <2>4. age' \in [Handles -> Nat]
    BY <2>3, TrackerTypes
  <2> QED
    BY Zenon, <1>1, <2>1, <2>3, <2>4
<1>3. ASSUME NEW h \in Handles, LowerCount(h)
      PROVE  Goal
  <2>1. /\ UNCHANGED <<stage, age, iterators, active, timedOut, released, monitorVars>>
        /\ pending' \subseteq pending
    BY Zenon, <1>3 DEF LowerCount, userVars
  <2>2. age' \in [Handles -> Nat] /\ \A k \in Handles : age[k] <= age'[k]
    BY <2>1, TrackerTypes
  <2> QED
    BY Zenon, <1>1, <2>1, <2>2
<1>4. ASSUME NEW h \in Handles, NEW from \in Stages, NEW to \in Stages,
             Move(h, from, to),
             UNCHANGED <<age, timedOut, released, monitorVars>>,
             pending' \subseteq pending \cup (timedOut \cap active),
             iterators' \subseteq Handles /\ iterators \ {h} \subseteq iterators',
             active' \ {h} = active \ {h},
             monitor \in {"count", "release"} => active' = active,
             to \in {"none", "created"} => from \in {"none", "created"} /\ h \notin active',
             h \in active' => to \in {"open", "checked", "reading"},
             to = "created" => h \in iterators',
             to = "reading" => h \in iterators',
             to \in {"open", "checked"} => h \in iterators' \/ age[h] > 2 * Timeout
      PROVE  Goal
  <2>1. stage[h] = from /\ stage' = [stage EXCEPT ![h] = to]
    BY Zenon, <1>4 DEF Move
  <2>2. stage' \in [Handles -> Stages] /\ stage'[h] = to
    BY Zenon, <2>1, TrackerTypes
  <2>3. \A k \in Handles : k # h => stage'[k] = stage[k]
    BY Zenon, <2>1, TrackerTypes
  <2>4. NoEarlyTimeout'
    <3>1. ASSUME NEW k \in Handles, k # h, k \notin iterators'
          PROVE  k \notin iterators
      BY Zenon, <1>4, <3>1
    <3>2. to \in {"open", "checked", "reading"} /\ h \notin iterators'
            => age[h] > 2 * Timeout
      BY <1>4
    <3> SUFFICES ASSUME NEW k \in Handles
                 PROVE  /\ k \in timedOut => age[k] > Timeout
                        /\ (stage'[k] \in {"open", "checked", "reading"}
                              /\ k \notin iterators') => age[k] > 2 * Timeout
      BY Zenon, <1>4 DEF NoEarlyTimeout
    <3> QED
      BY Zenon, <1>0, <2>2, <2>3, <3>1, <3>2 DEF NoEarlyTimeout
  <2>5. SeeksOnLiveIterator'
    BY Zenon, <1>0, <1>4, <2>2, <2>3 DEF SeeksOnLiveIterator
  <2>6. \A k \in active' : stage'[k] \in {"open", "checked", "reading"}
    <3> SUFFICES ASSUME NEW k \in active'
                 PROVE  stage'[k] \in {"open", "checked", "reading"}
      BY Zenon
    <3>1. k # h => k \in active
      BY Zenon, <1>4
    <3> QED
      BY Zenon, <1>0, <1>4, <2>2, <2>3, <3>1, TrackerTypes
  <2>7. \A k \in timedOut' \cup pending' : stage'[k] \notin {"none", "created"}
    <3> SUFFICES ASSUME NEW k \in timedOut' \cup pending'
                 PROVE  stage'[k] \notin {"none", "created"}
      BY Zenon
    <3>1. k \in timedOut \cup pending /\ k \in Handles
      BY Zenon, <1>4, TrackerTypes
    <3>2. stage[k] \notin {"none", "created"}
      BY Zenon, <1>0, <3>1
    <3> QED
      BY Zenon, <1>4, <2>1, <2>2, <2>3, <3>1, <3>2
  <2>8. \A k \in Handles : stage'[k] = "created" => k \in iterators'
    BY Zenon, <1>0, <1>4, <2>2, <2>3
  <2>9. active' \subseteq Handles
    BY Zenon, <1>4, TrackerTypes
  <2>10. {iterators', active', timedOut', released', scan', overdue'}
           \subseteq SUBSET Handles
    BY Zenon, <1>4, <2>9, TrackerTypes DEF monitorVars
  <2>11. monitor' \in {"count", "release"} => visited' \in active' \cap timedOut'
    BY Zenon, <1>0, <1>4 DEF monitorVars
  <2> QED
    BY Zenon, <1>4, <2>2, <2>4, <2>5, <2>6, <2>7, <2>8, <2>10, <2>11
<1>5. ASSUME NEW h \in Handles, CreateIterators(h)
      PROVE  Goal
  <2>1. /\ Move(h, "none", "created") /\ iterators' = iterators \cup {h}
        /\ UNCHANGED <<age, timedOut, released, monitorVars, active, pending>>
    BY Zenon, <1>5 DEF CreateIterators
  <2>2. h \notin active
    BY <1>0, <2>1 DEF Move
  <2> QED
    BY Zenon, <1>4, <2>1, <2>2, TrackerTypes
<1>6. ASSUME NEW h \in Handles, Register(h)
      PROVE  Goal
  <2>1. /\ Move(h, "created", "open") /\ active' = active \cup {h} /\ Unlocked
        /\ UNCHANGED <<age, timedOut, released, monitorVars, iterators, pending>>
    BY Zenon, <1>6 DEF Register
  <2>2. h \in iterators
    BY Zenon, <1>0, <2>1 DEF Move
  <2>3. monitor \notin {"count", "release"}
    BY Zenon, <2>1 DEF Unlocked
  <2> QED
    BY Zenon, <1>4, <2>1, <2>2, <2>3, TrackerTypes
<1>7. ASSUME NEW h \in Handles, BeginRead(h) \/ LockIterator(h) \/ EndRead(h)
      PROVE  Goal
  <2>1. UNCHANGED <<age, timedOut, released, monitorVars, iterators, active, pending>>
    BY Zenon, <1>7 DEF BeginRead, LockIterator, EndRead
  <2>2. \/ Move(h, "open", "checked")
        \/ Move(h, "checked", "reading") /\ h \in iterators
        \/ Move(h, "checked", "open")
        \/ Move(h, "reading", "open")
    BY <1>7 DEF BeginRead, LockIterator, EndRead
  <2>3. ASSUME NEW from \in {"open", "checked", "reading"},
               NEW to \in {"open", "checked", "reading"}, Move(h, from, to)
        PROVE  h \in iterators \/ age[h] > 2 * Timeout
    BY Zenon, <1>0, <2>3 DEF Move, NoEarlyTimeout
  <2>4. ASSUME NEW from \in {"open", "checked", "reading"},
               NEW to \in {"open", "checked", "reading"}, Move(h, from, to),
               to = "reading" => h \in iterators
        PROVE  Goal
    <3>1. from \in Stages /\ to \in Stages /\ to \notin {"none", "created"}
      BY <2>4
    <3> QED
      BY Zenon, <1>4, <2>1, <2>3, <2>4, <3>1, TrackerTypes
  <2> QED
    BY Zenon, <2>2, <2>4
<1>8. ASSUME NEW h \in Handles, DropHandle(h)
      PROVE  Goal
  <2>1. /\ Move(h, "open", "gone") /\ active' = active \ {h} /\ Unlocked
        /\ pending' = IF h \in active \cap timedOut THEN pending \cup {h} ELSE pending
        /\ iterators' = iterators \ {h}
        /\ UNCHANGED <<age, timedOut, released, monitorVars>>
    BY Zenon, <1>8 DEF DropHandle, RemoveEntry
  <2>2. pending' \subseteq pending \cup (timedOut \cap active)
    BY Zenon, <2>1
  <2>3. monitor \notin {"count", "release"}
    BY Zenon, <2>1 DEF Unlocked
  <2> QED
    BY Zenon, <1>4, <2>1, <2>2, <2>3, TrackerTypes
<1> QED
  BY Zenon, <1>2, <1>3, <1>5, <1>6, <1>7, <1>8 DEF UserStep

\* Every step of the tracker keeps what the monitor and the users rely on.
LEMMA TrackerStep ==
  ASSUME TrackerInv, [TrackerNext]_trackerVars
  PROVE  TrackerInv'
<1>1. CASE TrackerNext
  <2>0. MonitorStep \/ ~MonitorStep
    OBVIOUS
  <2>1. /\ stage' \in [Handles -> {"none", "created", "open", "checked", "reading",
                                   "gone"}]
        /\ {iterators', active', timedOut', released', scan', overdue'}
             \subseteq SUBSET Handles
        /\ monitor' \in {"asleep", "scan", "count", "release", "unregister"}
        /\ monitor' \in {"count", "release"} => visited' \in active' \cap timedOut'
        /\ monitor' = "release" => now'[visited'] > 2 * Timeout
        /\ NoEarlyTimeout' /\ SeeksOnLiveIterator'
        /\ \A h \in active' : stage'[h] \in {"open", "checked", "reading"}
        /\ \A h \in timedOut' \cup pending' : stage'[h] \notin {"none", "created"}
        /\ \A h \in Handles : stage'[h] = "created" => h \in iterators'
    <3>1. CASE MonitorStep
      BY Zenon, <3>1, MonitorKeeps, TrackerTypes
    <3>2. CASE ~MonitorStep
      <4>1. \/ Elapse
            \/ \E h \in Handles : \/ CreateIterators(h) \/ BeginRead(h)
                                  \/ DropHandle(h) \/ UserStep(h)
        BY Zenon, <1>1, <3>2 DEF TrackerNext
      <4>2. /\ monitor \in {"asleep", "scan", "count", "release", "unregister"}
            /\ monitor = "release" => now[visited] > 2 * Timeout
        BY Zenon DEF TrackerInv, HandlesSafe, TrackerTypeOK, MonitorTypes
      <4>3. UNCHANGED <<monitor, now, visited>>
        BY Zenon, <4>1, UserKeeps DEF monitorVars
      <4> QED
        BY Zenon, <4>1, <4>2, <4>3, UserKeeps
    <3> QED
      BY Zenon, <3>1, <3>2
  <2>2. /\ count' \in Int
        /\ count' = Cardinality((active \cap timedOut)') + Cardinality(pending')
                      - IF monitor' = "count" THEN 1 ELSE 0
        /\ pending' \subseteq Handles /\ active' \cap pending' = {}
    BY Zenon, <1>1, CountStep
  <2>3. /\ age' \in [Handles -> 0..MaxAge] /\ now' \in [Handles -> 0..MaxAge]
        /\ \A h \in Handles : age[h] <= age'[h] /\ now'[h] <= age'[h]
    BY Zenon, <1>1, AgesStep
  <2>4. HandlesSafe'
    BY Zenon, <2>1, <2>2, <2>3 DEF HandlesSafe, TrackerTypeOK
  <2> QED
    BY Zenon, <2>1, <2>2, <2>3, <2>4 DEF TrackerInv, MonitorTypes, EntriesFollowUse
<1>2. CASE UNCHANGED trackerVars
  BY Zenon, <1>2
  DEF trackerVars, TrackerInv, HandlesSafe, TrackerTypeOK, NoEarlyTimeout,
      SeeksOnLiveIterator, MonitorTypes, EntriesFollowUse
<1> QED
  BY Zenon, <1>1, <1>2

\* The monitor never harms a handle in use: no read fails before the timeout, no
\* iterator goes before twice that or under a seek, and timed_out_count is the
\* number of marked handles whatever the order of the monitor's and the users'
\* steps (monitor_loop, unregister, release), for any number of handles.
THEOREM HandlesStaySafe == TrackerSpec => []HandlesSafe
<1>1. TrackerInit => TrackerInv
  <2> SUFFICES ASSUME TrackerInit
               PROVE  TrackerInv
    BY Zenon
  <2>1. Timeout \in Nat /\ 0 \in 0..MaxAge
    BY TrackerAssumption DEF MaxAge
  <2>2. /\ age = [h \in Handles |-> 0] /\ now = age
        /\ stage = [h \in Handles |-> "none"]
    BY Zenon DEF TrackerInit
  <2>3. /\ age \in [Handles -> 0..MaxAge] /\ now \in [Handles -> 0..MaxAge]
        /\ \A h \in Handles : now[h] <= age[h] /\ stage[h] = "none"
    BY <2>1, <2>2
  <2>4. Cardinality(active \cap timedOut) = 0 /\ Cardinality(pending) = 0
    BY FS_EmptySet DEF TrackerInit
  <2>5. HandlesSafe
    BY <2>3, <2>4
    DEF TrackerInit, HandlesSafe, TrackerTypeOK, NoEarlyTimeout, SeeksOnLiveIterator
  <2> QED
    BY <2>3, <2>5 DEF TrackerInit, TrackerInv, MonitorTypes, EntriesFollowUse
<1>2. TrackerInv /\ [TrackerNext]_trackerVars => TrackerInv'
  BY Zenon, TrackerStep
<1>3. TrackerInv => HandlesSafe
  BY Zenon DEF TrackerInv
<1> QED
  BY <1>1, <1>2, <1>3, PTL DEF TrackerSpec

----------------------------------------------------------------------------
(***************************************************************************)
(* Expiring nonces, for every set of transactions, every ring capacity     *)
(* before and after T11 and every expiry window.                           *)
(***************************************************************************)

\* The pointer never leaves the ring, and the tables keep their types.
LEMMA NonceTypes == NonceSpec => []NonceTypeOK
<1>1. NonceInit => NonceTypeOK
  BY NonceAssumption DEF NonceInit, NonceTypeOK
<1>2. NonceTypeOK /\ [NonceNext]_nonceVars => NonceTypeOK'
  <2> SUFFICES ASSUME NonceTypeOK, [NonceNext]_nonceVars PROVE NonceTypeOK'
    OBVIOUS
  <2>1. ASSUME NEW h \in Hashes, CheckAndMarkExpiringNonce(h)
        PROVE  NonceTypeOK'
    <3>1. seen' \in [Hashes -> Nat]
      BY <2>1, NonceAssumption
      DEF NonceTypeOK, CheckAndMarkExpiringNonce, Remember
    <3>2. ptr' \in 0..LargeRing - 1
      BY <2>1, NonceAssumption
      DEF NonceTypeOK, CheckAndMarkExpiringNonce, Capacity
    <3> QED
      BY <2>1, <3>1, <3>2 DEF NonceTypeOK, CheckAndMarkExpiringNonce
  <2>2. CASE NextBlock
    BY <2>2 DEF NonceTypeOK, NextBlock
  <2>3. CASE UNCHANGED nonceVars
    BY <2>3 DEF NonceTypeOK, nonceVars
  <2> QED
    BY <2>1, <2>2, <2>3 DEF NonceNext
<1> QED
  BY <1>1, <1>2, PTL DEF NonceSpec

\* A transaction that was let through stays in the seen set until its
\* valid_before has passed: the ring evicts only what has expired.
LEMMA NonceRemembered == NonceSpec => []Remembered
<1>1. NonceInit => Remembered
  BY DEF NonceInit, Remembered
<1>2. NonceTypeOK /\ Remembered /\ [NonceNext]_nonceVars => Remembered'
  <2> SUFFICES ASSUME NonceTypeOK, Remembered, [NonceNext]_nonceVars
               PROVE  Remembered'
    OBVIOUS
  <2>1. ASSUME NEW h \in Hashes, CheckAndMarkExpiringNonce(h)
        PROVE  Remembered'
    <3>1. executed[h] = 0
      <4>1. /\ ValidBefore[h] \in Nat /\ seen[h] \in Nat /\ blockTime \in Nat
            /\ executed[h] \in Nat
        BY NonceAssumption DEF NonceTypeOK
      <4>2. ValidBefore[h] > blockTime /\ ~(seen[h] # 0 /\ seen[h] > blockTime)
        BY <2>1 DEF CheckAndMarkExpiringNonce, Live
      <4>3. executed[h] # 1
        BY <4>1, <4>2 DEF Remembered
      <4> QED
        BY <4>1, <4>3 DEF Remembered
    <3>2. ASSUME NEW g \in Hashes, g = ring[ptr]
          PROVE  seen[g] = 0 \/ ValidBefore[g] <= blockTime
      BY <2>1, <3>2, NonceAssumption
      DEF NonceTypeOK, Remembered, CheckAndMarkExpiringNonce, Evict, Live
    <3>3. SUFFICES ASSUME NEW g \in Hashes
                   PROVE  /\ executed'[g] <= 1
                          /\ executed'[g] = 1 =>
                                seen'[g] = ValidBefore[g] \/ ValidBefore[g] <= blockTime'
                          /\ seen'[g] # 0 => seen'[g] = ValidBefore[g]
      BY DEF Remembered
    <3>4. CASE g = h
      BY <2>1, <3>1, <3>4, NonceAssumption
      DEF NonceTypeOK, CheckAndMarkExpiringNonce, Remember
    <3>5. CASE g # h
      BY <2>1, <3>2, <3>5, NonceAssumption
      DEF NonceTypeOK, Remembered, CheckAndMarkExpiringNonce, Remember
    <3> QED
      BY <3>4, <3>5
  <2>2. CASE NextBlock
    BY <2>2, NonceAssumption DEF NonceTypeOK, Remembered, NextBlock
  <2>3. CASE UNCHANGED nonceVars
    BY <2>3 DEF Remembered, nonceVars
  <2> QED
    BY <2>1, <2>2, <2>3 DEF NonceNext
<1> QED
  BY <1>1, <1>2, NonceTypes, PTL DEF NonceSpec

\* No expiring-nonce transaction is let through twice.
THEOREM NoTransactionReplayed == NonceSpec => []NoReplay
<1>1. Remembered => NoReplay
  BY DEF Remembered, NoReplay
<1> QED
  BY <1>1, NonceRemembered, PTL

\* The seen set never outgrows the ring.
THEOREM SeenStaysInRing == NonceSpec => []SeenInRing
<1>1. NonceInit => SeenInRing
  BY DEF NonceInit, SeenInRing
<1>2. NonceTypeOK /\ SeenInRing /\ [NonceNext]_nonceVars => SeenInRing'
  <2> SUFFICES ASSUME NonceTypeOK, SeenInRing, [NonceNext]_nonceVars
               PROVE  SeenInRing'
    OBVIOUS
  <2>1. ASSUME NEW h \in Hashes, CheckAndMarkExpiringNonce(h)
        PROVE  SeenInRing'
    <3>1. SUFFICES ASSUME NEW g \in Hashes, seen'[g] # 0
                   PROVE  \E i \in DOMAIN ring' : ring'[i] = g
      BY DEF SeenInRing
    <3>2. CASE g = h
      BY <2>1, <3>2 DEF NonceTypeOK, CheckAndMarkExpiringNonce
    <3>3. CASE g # h
      <4>1. seen[g] # 0 /\ g # ring[ptr]
        BY <2>1, <3>1, <3>3 DEF NonceTypeOK, CheckAndMarkExpiringNonce, Remember
      <4>2. PICK i \in DOMAIN ring : ring[i] = g
        BY <4>1 DEF SeenInRing
      <4> QED
        BY <2>1, <4>1, <4>2 DEF NonceTypeOK, CheckAndMarkExpiringNonce
    <3> QED
      BY <3>2, <3>3
  <2>2. CASE NextBlock
    BY <2>2 DEF SeenInRing, NextBlock
  <2>3. CASE UNCHANGED nonceVars
    BY <2>3 DEF SeenInRing, nonceVars
  <2> QED
    BY <2>1, <2>2, <2>3 DEF NonceNext
<1> QED
  BY <1>1, <1>2, NonceTypes, PTL DEF NonceSpec

----------------------------------------------------------------------------
(***************************************************************************)
(* The validator registry.                                                 *)
(***************************************************************************)

\* The updates of the registry's parts, by name.
Updated(f, x, v) == [f EXCEPT ![x] = v]
Deactivated(r, i) == [r EXCEPT ![i].off = TRUE]
PlacedAt(r, i, n) == [r EXCEPT ![i].activeIdx = n]
Rotated(r, i, k, ip) ==
    Append([r EXCEPT ![i].key = k, ![i].ingress = ip],
           [r[i] EXCEPT !.off = TRUE, !.activeIdx = 0])
Readdressed(r, i, a) == [r EXCEPT ![i].addr = a]
Reconnected(r, i, ip) == [r EXCEPT ![i].ingress = ip]

\* Appending to a sequence, element by element.
LEMMA AppendedSeq ==
  ASSUME NEW S, NEW s \in Seq(S), NEW e \in S
  PROVE  /\ Append(s, e) \in Seq(S)
         /\ DOMAIN s = 1..Len(s) /\ Len(s) \in Nat
         /\ DOMAIN Append(s, e) = 1..(Len(s) + 1)
         /\ DOMAIN Append(s, e) = DOMAIN s \cup {Len(s) + 1}
         /\ Len(s) + 1 \notin DOMAIN s
         /\ \A i \in DOMAIN s : Append(s, e)[i] = s[i]
         /\ Append(s, e)[Len(s) + 1] = e
  OBVIOUS

\* The registry after a step, from its parts.
LEMMA RegistryParts ==
  ASSUME NEW r \in Seq(ValidatorRecord), NEW A \in Seq(Nat),
         NEW K \in [PublicKeys -> Nat], NEW D \in [ValidatorAddresses -> Nat],
         NEW I \in SUBSET Ingresses, Agree(r, A, K, D, I),
         registry' = [records |-> r, active |-> A, byKey |-> K, byAddress |-> D,
                      ingresses |-> I]
  PROVE  /\ registry' \in Registries
         /\ Agree(registry.records, registry.active, registry.byKey, registry.byAddress,
                  registry.ingresses)'
<1>1. /\ registry'.records = r /\ registry'.active = A /\ registry'.byKey = K
      /\ registry'.byAddress = D /\ registry'.ingresses = I
  OBVIOUS
<1>2. registry' \in Registries
  BY DEF Registries
<1> QED
  BY Zenon, <1>1, <1>2

\* append_validator on the parts of a registry that agree: the new record's
\* key is new, no active validator has its address, and its endpoint is free
\* unless the record is deactivated.
LEMMA AppendAgrees ==
  ASSUME NEW r \in Seq(ValidatorRecord), NEW A \in Seq(Nat),
         NEW K \in [PublicKeys -> Nat], NEW D \in [ValidatorAddresses -> Nat],
         NEW I \in SUBSET Ingresses, Agree(r, A, K, D, I),
         NEW k \in PublicKeys, NEW a \in ValidatorAddresses, NEW ip \in Ingresses,
         NEW off \in BOOLEAN,
         K[k] = 0, D[a] # 0 => r[D[a]].off, ~off => ip \notin I,
         registry' = [records |-> Append(r,
                         [key |-> k, addr |-> a, ingress |-> ip, off |-> off,
                          activeIdx |-> IF off THEN 0 ELSE Len(A) + 1]),
                      active |-> IF off THEN A ELSE Append(A, Len(r) + 1),
                      byKey |-> Updated(K, k, Len(r) + 1),
                      byAddress |-> Updated(D, a, Len(r) + 1),
                      ingresses |-> IF off THEN I ELSE I \cup {ip}]
  PROVE  /\ registry' \in Registries
         /\ Agree(registry.records, registry.active, registry.byKey, registry.byAddress,
                  registry.ingresses)'
<1>1. Len(A) \in Nat /\ Len(r) \in Nat
  OBVIOUS
<1>x. PICK x : x = [key |-> k, addr |-> a, ingress |-> ip, off |-> off,
                    activeIdx |-> IF off THEN 0 ELSE Len(A) + 1]
  BY Zenon
<1>n. PICK n : n = Len(r) + 1
  BY Zenon
<1>r. PICK r2 : r2 = Append(r, x)
  BY Zenon
<1>A. PICK A2 : A2 = IF off THEN A ELSE Append(A, n)
  BY Zenon
<1>K. PICK K2 : K2 = Updated(K, k, n)
  BY Zenon
<1>D. PICK D2 : D2 = Updated(D, a, n)
  BY Zenon
<1>I. PICK I2 : I2 = IF off THEN I ELSE I \cup {ip}
  BY Zenon
<1>2. /\ x \in ValidatorRecord
      /\ x.key = k /\ x.addr = a /\ x.ingress = ip /\ x.off = off
      /\ off => x.activeIdx = 0
      /\ ~off => x.activeIdx = Len(A) + 1
  BY <1>1, <1>x DEF ValidatorRecord
<1>3. /\ r2 \in Seq(ValidatorRecord)
      /\ DOMAIN r2 = DOMAIN r \cup {n} /\ n \notin DOMAIN r /\ n \in Nat /\ n # 0
      /\ \A i \in DOMAIN r : r2[i] = r[i]
      /\ r2[n] = x
      /\ r2[n].key = k /\ r2[n].addr = a /\ r2[n].ingress = ip
      /\ ~off => ~r2[n].off /\ r2[n].activeIdx = Len(A) + 1
      /\ r2[n].off => off /\ r2[n].activeIdx = 0
      /\ ~r2[n].off => ~off
  <2>1. /\ r2 \in Seq(ValidatorRecord)
        /\ DOMAIN r2 = DOMAIN r \cup {n} /\ n \notin DOMAIN r /\ n \in Nat /\ n # 0
        /\ \A i \in DOMAIN r : r2[i] = r[i]
        /\ r2[n] = x
    BY <1>1, <1>2, <1>n, <1>r, AppendedSeq
  <2> QED
    BY <1>2, <2>1
<1>4. /\ A2 \in Seq(Nat)
      /\ off => A2 = A
      /\ ~off => /\ DOMAIN A2 = DOMAIN A \cup {Len(A) + 1}
                 /\ Len(A) + 1 \notin DOMAIN A
                 /\ \A p \in DOMAIN A : A2[p] = A[p]
                 /\ A2[Len(A) + 1] = n
  <2>1. n \in Nat
    BY <1>1, <1>n
  <2>2. CASE off
    BY Zenon, <1>A, <2>2
  <2>3. CASE ~off
    <3>1. A2 = Append(A, n)
      BY Zenon, <1>A, <2>3
    <3> QED
      BY <2>1, <2>3, <3>1, AppendedSeq
  <2> QED
    BY Zenon, <2>2, <2>3
<1>5. /\ K2 \in [PublicKeys -> Nat] /\ K2[k] = n
      /\ \A q \in PublicKeys : q # k => K2[q] = K[q]
  BY <1>3, <1>K DEF Updated
<1>6. /\ D2 \in [ValidatorAddresses -> Nat] /\ D2[a] = n
      /\ \A q \in ValidatorAddresses : q # a => D2[q] = D[q]
  BY <1>3, <1>D DEF Updated
<1>7. I2 \in SUBSET Ingresses /\ I \subseteq I2 /\ (~off => ip \in I2)
  BY Zenon, <1>I
<1>8. \A i \in DOMAIN r : r[i] \in ValidatorRecord /\ i \in Nat /\ i # 0
  OBVIOUS
<1>9. \A i \in DOMAIN r : /\ r[i].key \in PublicKeys /\ r[i].addr \in ValidatorAddresses
                          /\ r[i].off \in BOOLEAN /\ r[i].ingress \in Ingresses
  BY <1>8 DEF ValidatorRecord
\* The active list: old entries are as before, the new one is n's.
<1>10. \A p \in DOMAIN A2 :
          A2[p] \in DOMAIN r2 /\ ~r2[A2[p]].off /\ r2[A2[p]].activeIdx = p
  <2> SUFFICES ASSUME NEW p \in DOMAIN A2
               PROVE  A2[p] \in DOMAIN r2 /\ ~r2[A2[p]].off /\ r2[A2[p]].activeIdx = p
    BY Zenon
  <2>1. CASE p \in DOMAIN A
    <3>1. A2[p] = A[p]
      BY Zenon, <1>4, <2>1
    <3>2. A[p] \in DOMAIN r /\ ~r[A[p]].off /\ r[A[p]].activeIdx = p
      BY Zenon, <2>1 DEF Agree
    <3> QED
      BY Zenon, <1>3, <3>1, <3>2
  <2>2. CASE p \notin DOMAIN A
    <3>1. ~off /\ p = Len(A) + 1 /\ A2[p] = n
      BY Zenon, <1>4, <2>2
    <3> QED
      BY Zenon, <1>3, <3>1
  <2> QED
    BY Zenon, <2>1, <2>2
\* The records: old ones keep their places, keys and addresses.
<1>11. \A i \in DOMAIN r2 :
          /\ K2[r2[i].key] = i
          /\ r2[i].off => r2[i].activeIdx = 0
          /\ ~r2[i].off => /\ r2[i].activeIdx \in DOMAIN A2 /\ A2[r2[i].activeIdx] = i
                           /\ D2[r2[i].addr] = i /\ r2[i].ingress \in I2
  <2> SUFFICES ASSUME NEW i \in DOMAIN r2
               PROVE  /\ K2[r2[i].key] = i
                      /\ r2[i].off => r2[i].activeIdx = 0
                      /\ ~r2[i].off => /\ r2[i].activeIdx \in DOMAIN A2
                                       /\ A2[r2[i].activeIdx] = i
                                       /\ D2[r2[i].addr] = i /\ r2[i].ingress \in I2
    OBVIOUS
  <2>1. CASE i = n
    <3>1. ~r2[n].off => r2[n].activeIdx \in DOMAIN A2 /\ A2[r2[n].activeIdx] = n
      BY Zenon, <1>3, <1>4
    <3>2. K2[r2[n].key] = n /\ D2[r2[n].addr] = n
      BY Zenon, <1>3, <1>5, <1>6
    <3>3. ~r2[n].off => r2[n].ingress \in I2
      BY Zenon, <1>3, <1>7
    <3>4. r2[n].off => r2[n].activeIdx = 0
      BY Zenon, <1>3
    <3> QED
      BY Zenon, <2>1, <3>1, <3>2, <3>3, <3>4
  <2>2. CASE i \in DOMAIN r
    <3>1. /\ K[r[i].key] = i
          /\ r[i].off => r[i].activeIdx = 0
          /\ ~r[i].off => /\ r[i].activeIdx \in DOMAIN A /\ A[r[i].activeIdx] = i
                          /\ D[r[i].addr] = i /\ r[i].ingress \in I
      BY Zenon, <2>2 DEF Agree
    <3>2. r[i].key # k
      BY Zenon, <1>8, <2>2, <3>1
    <3>3. ~r[i].off => r[i].addr # a
      BY Zenon, <1>8, <2>2, <3>1
    <3>4. r2[i] = r[i]
      BY Zenon, <1>3, <2>2
    <3>5. K2[r2[i].key] = i
      BY <1>5, <1>9, <2>2, <3>1, <3>2, <3>4
    <3>6. ~r[i].off => D2[r[i].addr] = i
      BY Zenon, <1>6, <1>9, <2>2, <3>1, <3>3
    <3>7. ~r[i].off => r[i].activeIdx \in DOMAIN A2 /\ A2[r[i].activeIdx] = i
      BY Zenon, <1>4, <3>1
    <3> QED
      BY Zenon, <1>7, <3>1, <3>4, <3>5, <3>6, <3>7
  <2> QED
    BY Zenon, <1>3, <2>1, <2>2
<1>12. \A q \in PublicKeys : K2[q] # 0 => K2[q] \in DOMAIN r2 /\ r2[K2[q]].key = q
  <2> SUFFICES ASSUME NEW q \in PublicKeys, K2[q] # 0
               PROVE  K2[q] \in DOMAIN r2 /\ r2[K2[q]].key = q
    BY Zenon
  <2>1. CASE q = k
    BY Zenon, <1>3, <1>5, <2>1
  <2>2. CASE q # k
    <3>1. K2[q] = K[q]
      BY Zenon, <1>5, <2>2
    <3>2. K[q] \in DOMAIN r /\ r[K[q]].key = q
      BY Zenon, <3>1 DEF Agree
    <3> QED
      BY <1>3, <3>1, <3>2
  <2> QED
    BY Zenon, <2>1, <2>2
<1>13. \A q \in ValidatorAddresses :
          D2[q] # 0 => D2[q] \in DOMAIN r2 /\ r2[D2[q]].addr = q
  <2> SUFFICES ASSUME NEW q \in ValidatorAddresses, D2[q] # 0
               PROVE  D2[q] \in DOMAIN r2 /\ r2[D2[q]].addr = q
    BY Zenon
  <2>1. CASE q = a
    BY Zenon, <1>3, <1>6, <2>1
  <2>2. CASE q # a
    <3>1. D2[q] = D[q]
      BY Zenon, <1>6, <2>2
    <3>2. D[q] \in DOMAIN r /\ r[D[q]].addr = q
      BY Zenon, <3>1 DEF Agree
    <3> QED
      BY <1>3, <3>1, <3>2
  <2> QED
    BY Zenon, <2>1, <2>2
<1>14. \A e \in I2 : \E i \in DOMAIN r2 : ~r2[i].off /\ r2[i].ingress = e
  <2> SUFFICES ASSUME NEW e \in I2
               PROVE  \E i \in DOMAIN r2 : ~r2[i].off /\ r2[i].ingress = e
    BY Zenon
  <2>1. CASE e \in I
    <3>1. PICK i \in DOMAIN r : ~r[i].off /\ r[i].ingress = e
      BY Zenon, <2>1 DEF Agree
    <3> QED
      BY Zenon, <1>3, <3>1
  <2>2. CASE e \notin I
    <3>1. ~off /\ e = ip
      BY Zenon, <1>I, <2>2
    <3> QED
      BY Zenon, <1>3, <3>1
  <2> QED
    BY Zenon, <2>1, <2>2
<1>15. \A i, j \in DOMAIN r2 :
          ~r2[i].off /\ ~r2[j].off /\ r2[i].ingress = r2[j].ingress => i = j
  <2>1. \A i \in DOMAIN r : ~r[i].off => r[i].ingress \in I
    BY Zenon DEF Agree
  <2>2. \A i, j \in DOMAIN r :
          ~r[i].off /\ ~r[j].off /\ r[i].ingress = r[j].ingress => i = j
    BY Zenon DEF Agree
  <2> SUFFICES ASSUME NEW i \in DOMAIN r2, NEW j \in DOMAIN r2,
                      ~r2[i].off, ~r2[j].off, r2[i].ingress = r2[j].ingress
               PROVE  i = j
    OBVIOUS
  <2>3. CASE i \in DOMAIN r /\ j \in DOMAIN r
    BY Zenon, <1>3, <2>2, <2>3
  <2>4. CASE i = n /\ j \in DOMAIN r
    <3>1. ~r2[n].off /\ ~r[j].off /\ r[j].ingress = r2[n].ingress
      BY Zenon, <1>3, <2>4
    <3>2. ip \notin I /\ r2[n].ingress = ip
      BY Zenon, <1>3, <3>1
    <3> QED
      BY Zenon, <2>1, <2>4, <3>1, <3>2
  <2>5. CASE i \in DOMAIN r /\ j = n
    <3>1. ~r2[n].off /\ ~r[i].off /\ r[i].ingress = r2[n].ingress
      BY Zenon, <1>3, <2>5
    <3>2. ip \notin I /\ r2[n].ingress = ip
      BY Zenon, <1>3, <3>1
    <3> QED
      BY Zenon, <2>1, <2>5, <3>1, <3>2
  <2> QED
    BY Zenon, <1>3, <2>3, <2>4, <2>5
<1>16. Agree(r2, A2, K2, D2, I2)
  BY Zenon, <1>10, <1>11, <1>12, <1>13, <1>14, <1>15 DEF Agree
<1>17. registry' = [records |-> r2, active |-> A2, byKey |-> K2, byAddress |-> D2,
                    ingresses |-> I2]
  BY Zenon, <1>x, <1>n, <1>r, <1>A, <1>K, <1>D, <1>I
<1>18. /\ r2 \in Seq(ValidatorRecord) /\ A2 \in Seq(Nat) /\ K2 \in [PublicKeys -> Nat]
       /\ D2 \in [ValidatorAddresses -> Nat] /\ I2 \in SUBSET Ingresses
  BY Zenon, <1>3, <1>4, <1>5, <1>6, <1>7
<1> QED
  BY Zenon, <1>16, <1>17, <1>18, RegistryParts

\* The elements of a sequence.
LEMMA ElementInSeq ==
  ASSUME NEW S, NEW s \in Seq(S), NEW i \in DOMAIN s
  PROVE  s[i] \in S
  OBVIOUS

\* What setting deactivated_at, setting active_idx and swap_and_pop leave of the
\* records r, and of the active list A.
IsDeactivated(r2, r, i) ==
    /\ r2 \in Seq(ValidatorRecord) /\ DOMAIN r2 = DOMAIN r
    /\ \A j \in DOMAIN r : j # i => r2[j] = r[j]
    /\ r2[i].off /\ r2[i].activeIdx = r[i].activeIdx /\ r2[i].key = r[i].key
    /\ r2[i].addr = r[i].addr /\ r2[i].ingress = r[i].ingress
IsPlaced(r2, r, i, n) ==
    /\ r2 \in Seq(ValidatorRecord) /\ DOMAIN r2 = DOMAIN r
    /\ \A j \in DOMAIN r : j # i => r2[j] = r[j]
    /\ r2[i].off = r[i].off /\ r2[i].activeIdx = n /\ r2[i].key = r[i].key
    /\ r2[i].addr = r[i].addr /\ r2[i].ingress = r[i].ingress
IsPopped(r2, r, i, m, pos) ==
    /\ r2 \in Seq(ValidatorRecord) /\ DOMAIN r2 = DOMAIN r
    /\ r2[i].off /\ r2[i].activeIdx = 0
    /\ m # i => r2[m].activeIdx = pos /\ ~r2[m].off
    /\ \A j \in DOMAIN r : j # i /\ j # m => r2[j] = r[j]
    /\ \A j \in DOMAIN r : j # i => (r2[j].off <=> r[j].off)
    /\ \A j \in DOMAIN r : /\ r2[j].key = r[j].key /\ r2[j].addr = r[j].addr
                           /\ r2[j].ingress = r[j].ingress
IsPoppedList(A2, A, pos, m) ==
    /\ A2 \in Seq(Nat) /\ DOMAIN A2 = 1..(Len(A) - 1)
    /\ pos < Len(A) => A2[pos] = m
    /\ \A p \in DOMAIN A2 : p \in DOMAIN A /\ (p # pos => A2[p] = A[p])

\* Setting deactivated_at of a record.
LEMMA OffSet ==
  ASSUME NEW r \in Seq(ValidatorRecord), NEW i \in DOMAIN r
  PROVE  IsDeactivated(Deactivated(r, i), r, i)
<1>1. r[i] \in ValidatorRecord
  BY Zenon, ElementInSeq
<1>2. PICK e : e = [r[i] EXCEPT !.off = TRUE]
  BY Zenon
<1>3. /\ e \in ValidatorRecord /\ e.off /\ e.activeIdx = r[i].activeIdx
      /\ e.key = r[i].key /\ e.addr = r[i].addr /\ e.ingress = r[i].ingress
  BY <1>1, <1>2 DEF ValidatorRecord
<1>4. PICK r2 : r2 = Deactivated(r, i)
  BY Zenon
<1>5. r2 = [r EXCEPT ![i] = e]
  BY Zenon, <1>2, <1>4 DEF Deactivated
<1>6. /\ r2 \in Seq(ValidatorRecord) /\ DOMAIN r2 = DOMAIN r /\ r2[i] = e
      /\ \A j \in DOMAIN r : j # i => r2[j] = r[j]
  BY <1>3, <1>5
<1> QED
  BY Zenon, <1>3, <1>4, <1>6 DEF IsDeactivated

\* Setting active_idx of a record.
LEMMA PlaceSet ==
  ASSUME NEW r \in Seq(ValidatorRecord), NEW i \in DOMAIN r, NEW n \in Nat
  PROVE  IsPlaced(PlacedAt(r, i, n), r, i, n)
<1>1. r[i] \in ValidatorRecord
  BY Zenon, ElementInSeq
<1>2. PICK e : e = [r[i] EXCEPT !.activeIdx = n]
  BY Zenon
<1>3. /\ e \in ValidatorRecord /\ e.off = r[i].off /\ e.activeIdx = n
      /\ e.key = r[i].key /\ e.addr = r[i].addr /\ e.ingress = r[i].ingress
  BY <1>1, <1>2 DEF ValidatorRecord
<1>4. PICK r2 : r2 = PlacedAt(r, i, n)
  BY Zenon
<1>5. r2 = [r EXCEPT ![i] = e]
  BY Zenon, <1>2, <1>4 DEF PlacedAt
<1>6. /\ r2 \in Seq(ValidatorRecord) /\ DOMAIN r2 = DOMAIN r /\ r2[i] = e
      /\ \A j \in DOMAIN r : j # i => r2[j] = r[j]
  BY <1>3, <1>5
<1> QED
  BY Zenon, <1>3, <1>4, <1>6 DEF IsPlaced

\* swap_and_pop on the records: i is deactivated and m, the last of the active
\* list, moves to i's place there.
LEMMA PoppedRecords ==
  ASSUME NEW r \in Seq(ValidatorRecord), NEW i \in DOMAIN r, NEW m \in DOMAIN r,
         ~r[m].off, NEW pos \in Nat
  PROVE  IsPopped(PlacedAt(PlacedAt(Deactivated(r, i), m, pos), i, 0), r, i, m, pos)
<1>s. PICK s1 : s1 = Deactivated(r, i)
  BY Zenon
<1>t. PICK s2 : s2 = PlacedAt(s1, m, pos)
  BY Zenon
<1>r. PICK r2 : r2 = PlacedAt(s2, i, 0)
  BY Zenon
<1>1. /\ s1 \in Seq(ValidatorRecord) /\ DOMAIN s1 = DOMAIN r
      /\ \A j \in DOMAIN r : j # i => s1[j] = r[j]
      /\ s1[i].off /\ s1[i].activeIdx = r[i].activeIdx /\ s1[i].key = r[i].key
      /\ s1[i].addr = r[i].addr /\ s1[i].ingress = r[i].ingress
  <2>1. IsDeactivated(s1, r, i)
    BY Zenon, <1>s, OffSet
  <2> QED
    BY Zenon, <2>1 DEF IsDeactivated
<1>2. m \in DOMAIN s1
  BY Zenon, <1>1
<1>3. /\ s2 \in Seq(ValidatorRecord) /\ DOMAIN s2 = DOMAIN s1
      /\ \A j \in DOMAIN s1 : j # m => s2[j] = s1[j]
      /\ s2[m].off = s1[m].off /\ s2[m].activeIdx = pos /\ s2[m].key = s1[m].key
      /\ s2[m].addr = s1[m].addr /\ s2[m].ingress = s1[m].ingress
  <2>1. IsPlaced(s2, s1, m, pos)
    BY Zenon, <1>1, <1>2, <1>t, PlaceSet
  <2> QED
    BY Zenon, <2>1 DEF IsPlaced
<1>4. i \in DOMAIN s2 /\ 0 \in Nat
  BY <1>1, <1>3
<1>5. /\ r2 \in Seq(ValidatorRecord) /\ DOMAIN r2 = DOMAIN s2
      /\ \A j \in DOMAIN s2 : j # i => r2[j] = s2[j]
      /\ r2[i].off = s2[i].off /\ r2[i].activeIdx = 0 /\ r2[i].key = s2[i].key
      /\ r2[i].addr = s2[i].addr /\ r2[i].ingress = s2[i].ingress
  <2>1. IsPlaced(r2, s2, i, 0)
    BY Zenon, <1>3, <1>4, <1>r, PlaceSet
  <2> QED
    BY Zenon, <2>1 DEF IsPlaced
<1>6. DOMAIN r2 = DOMAIN r /\ DOMAIN s2 = DOMAIN r
  BY Zenon, <1>1, <1>3, <1>5
<1>7. /\ s2[i].off = s1[i].off /\ s2[i].key = s1[i].key /\ s2[i].addr = s1[i].addr
      /\ s2[i].ingress = s1[i].ingress
  <2>1. CASE i = m
    BY Zenon, <1>3, <2>1
  <2>2. CASE i # m
    BY Zenon, <1>1, <1>3, <2>2
  <2> QED
    BY Zenon, <2>1, <2>2
<1>8. /\ r2[i].off /\ r2[i].activeIdx = 0 /\ r2[i].key = r[i].key
      /\ r2[i].addr = r[i].addr /\ r2[i].ingress = r[i].ingress
  BY Zenon, <1>1, <1>5, <1>7
<1>9. \A j \in DOMAIN r : j # i /\ j # m => r2[j] = r[j]
  BY <1>1, <1>3, <1>5, <1>6
<1>10. m # i => /\ r2[m].off = r[m].off /\ r2[m].activeIdx = pos
                /\ r2[m].key = r[m].key /\ r2[m].addr = r[m].addr
                /\ r2[m].ingress = r[m].ingress
  <2> SUFFICES ASSUME m # i
               PROVE  /\ r2[m].off = r[m].off /\ r2[m].activeIdx = pos
                      /\ r2[m].key = r[m].key /\ r2[m].addr = r[m].addr
                      /\ r2[m].ingress = r[m].ingress
    BY Zenon
  <2>1. r2[m] = s2[m] /\ s1[m] = r[m]
    BY Zenon, <1>1, <1>5, <1>6
  <2> QED
    BY Zenon, <1>3, <2>1
<1>11. \A j \in DOMAIN r : /\ j # i => (r2[j].off <=> r[j].off)
                           /\ r2[j].key = r[j].key /\ r2[j].addr = r[j].addr
                           /\ r2[j].ingress = r[j].ingress
  <2> SUFFICES ASSUME NEW j \in DOMAIN r
               PROVE  /\ j # i => (r2[j].off <=> r[j].off)
                      /\ r2[j].key = r[j].key /\ r2[j].addr = r[j].addr
                      /\ r2[j].ingress = r[j].ingress
    BY Zenon
  <2>1. CASE j = i
    BY Zenon, <1>8, <2>1
  <2>2. CASE j # i /\ j = m
    BY Zenon, <1>10, <2>2
  <2>3. CASE j # i /\ j # m
    BY Zenon, <1>9, <2>3
  <2> QED
    BY Zenon, <2>1, <2>2, <2>3
<1>12. IsPopped(r2, r, i, m, pos)
  BY Zenon, <1>5, <1>6, <1>8, <1>9, <1>10, <1>11 DEF IsPopped
<1> QED
  BY Zenon, <1>s, <1>t, <1>r, <1>12

\* swap_and_pop on the active list.
LEMMA PoppedList ==
  ASSUME NEW A \in Seq(Nat), NEW pos \in DOMAIN A, NEW m \in Nat,
         NEW B, B = Updated(A, pos, m)
  PROVE  IsPoppedList(SubSeq(B, 1, Len(B) - 1), A, pos, m)
<1>1. DOMAIN A = 1..Len(A) /\ Len(A) \in Nat
  OBVIOUS
<1>2. /\ B \in Seq(Nat) /\ DOMAIN B = DOMAIN A /\ Len(B) = Len(A) /\ B[pos] = m
      /\ \A p \in DOMAIN A : p # pos => B[p] = A[p]
  BY DEF Updated
<1>3. PICK A2 : A2 = SubSeq(B, 1, Len(B) - 1)
  BY Zenon
<1>4. PICK n : n = Len(A) - 1
  BY Zenon
<1>5. n \in 0..Len(B) /\ A2 = SubSeq(B, 1, n)
  BY <1>1, <1>2, <1>3, <1>4
<1>6. A2 \in Seq(Nat) /\ DOMAIN A2 = 1..n /\ \A p \in 1..n : A2[p] = B[p]
  BY <1>1, <1>2, <1>5
<1>7. \A p \in 1..n : p \in DOMAIN A
  BY <1>1, <1>4
<1>8. pos < Len(A) => pos \in 1..n
  BY <1>1, <1>4
<1>9. IsPoppedList(A2, A, pos, m)
  BY Zenon, <1>2, <1>4, <1>6, <1>7, <1>8 DEF IsPoppedList
<1> QED
  BY Zenon, <1>3, <1>9

\* Deactivating a record of parts that agree: swap-and-pop on the active list.
LEMMA PopAgrees ==
  ASSUME NEW r \in Seq(ValidatorRecord), NEW A \in Seq(Nat),
         NEW K \in [PublicKeys -> Nat], NEW D \in [ValidatorAddresses -> Nat],
         NEW I \in SUBSET Ingresses, Agree(r, A, K, D, I),
         NEW i \in DOMAIN r, ~r[i].off,
         NEW pos, pos = r[i].activeIdx, NEW m, m = A[Len(A)],
         registry' = [records |-> PlacedAt(PlacedAt(Deactivated(r, i), m, pos), i, 0),
                      active |-> SubSeq(Updated(A, pos, m), 1,
                                        Len(Updated(A, pos, m)) - 1),
                      byKey |-> K, byAddress |-> D,
                      ingresses |-> I \ {r[i].ingress}]
  PROVE  /\ registry' \in Registries
         /\ Agree(registry.records, registry.active, registry.byKey, registry.byAddress,
                  registry.ingresses)'
<1>r. PICK r2 : r2 = PlacedAt(PlacedAt(Deactivated(r, i), m, pos), i, 0)
  BY Zenon
<1>B. PICK B : B = Updated(A, pos, m)
  BY Zenon
<1>A. PICK A2 : A2 = SubSeq(B, 1, Len(B) - 1)
  BY Zenon
<1>I. PICK I2 : I2 = I \ {r[i].ingress}
  BY Zenon
<1>1. \A j \in DOMAIN r : r[j] \in ValidatorRecord
  OBVIOUS
<1>2. \A j \in DOMAIN r : /\ r[j].key \in PublicKeys /\ r[j].addr \in ValidatorAddresses
                          /\ r[j].ingress \in Ingresses /\ r[j].off \in BOOLEAN
                          /\ r[j].activeIdx \in Nat
  BY <1>1 DEF ValidatorRecord
<1>3. \A p \in DOMAIN A :
          A[p] \in DOMAIN r /\ ~r[A[p]].off /\ r[A[p]].activeIdx = p
  BY Zenon DEF Agree
<1>4. \A j \in DOMAIN r :
          /\ K[r[j].key] = j
          /\ r[j].off => r[j].activeIdx = 0
          /\ ~r[j].off => /\ r[j].activeIdx \in DOMAIN A /\ A[r[j].activeIdx] = j
                          /\ D[r[j].addr] = j /\ r[j].ingress \in I
  BY Zenon DEF Agree
<1>5. pos \in DOMAIN A /\ A[pos] = i
  BY Zenon, <1>4
<1>6. /\ DOMAIN A = 1..Len(A) /\ Len(A) \in DOMAIN A /\ pos \in Nat /\ pos # 0
      /\ Len(A) \in Nat
  BY <1>5
<1>7. m \in DOMAIN r /\ ~r[m].off /\ r[m].activeIdx = Len(A) /\ m \in Nat
  <2>1. m \in DOMAIN r /\ ~r[m].off /\ r[m].activeIdx = Len(A)
    BY Zenon, <1>3, <1>6
  <2>2. \A j \in DOMAIN r : j \in Nat
    OBVIOUS
  <2> QED
    BY Zenon, <2>1, <2>2
\* The records: i is deactivated, m moves to i's place, the rest stay.
<1>8. /\ r2 \in Seq(ValidatorRecord) /\ DOMAIN r2 = DOMAIN r
      /\ r2[i].off /\ r2[i].activeIdx = 0
      /\ m # i => r2[m].activeIdx = pos /\ ~r2[m].off
      /\ \A j \in DOMAIN r : j # i /\ j # m => r2[j] = r[j]
      /\ \A j \in DOMAIN r : j # i => (r2[j].off <=> r[j].off)
      /\ \A j \in DOMAIN r : /\ r2[j].key = r[j].key /\ r2[j].addr = r[j].addr
                             /\ r2[j].ingress = r[j].ingress
  <2>1. m \in DOMAIN r /\ ~r[m].off /\ pos \in Nat
    BY Zenon, <1>6, <1>7
  <2>2. IsPopped(r2, r, i, m, pos)
    BY Zenon, <1>r, <2>1, PoppedRecords
  <2> QED
    BY Zenon, <2>2 DEF IsPopped
<1>9. /\ A2 \in Seq(Nat) /\ DOMAIN A2 = 1..(Len(A) - 1)
      /\ pos < Len(A) => A2[pos] = m
      /\ \A p \in DOMAIN A2 : p \in DOMAIN A /\ (p # pos => A2[p] = A[p])
  <2>1. pos \in DOMAIN A /\ m \in Nat
    BY Zenon, <1>5, <1>7
  <2>2. IsPoppedList(A2, A, pos, m)
    BY Zenon, <1>A, <1>B, <2>1, PoppedList
  <2> QED
    BY Zenon, <2>2 DEF IsPoppedList
<1>dom. DOMAIN r2 = DOMAIN r
  BY Zenon, <1>8
<1>same. \A j \in DOMAIN r : /\ r2[j].key = r[j].key /\ r2[j].addr = r[j].addr
                             /\ r2[j].ingress = r[j].ingress
  BY Zenon, <1>8
\* m is i exactly when i is the last of the active list.
<1>10. m = i <=> pos = Len(A)
  BY Zenon, <1>5, <1>7
<1>11. \A p \in DOMAIN A2 :
          A2[p] \in DOMAIN r2 /\ ~r2[A2[p]].off /\ r2[A2[p]].activeIdx = p
  <2> SUFFICES ASSUME NEW p \in DOMAIN A2
               PROVE  A2[p] \in DOMAIN r2 /\ ~r2[A2[p]].off /\ r2[A2[p]].activeIdx = p
    BY Zenon
  <2>1. p \in DOMAIN A /\ p < Len(A)
    BY <1>6, <1>9
  <2>2. CASE p = pos
    <3>1. A2[p] = m /\ m # i
      BY <1>9, <1>10, <2>1, <2>2, <1>6
    <3> QED
      BY Zenon, <1>7, <1>8, <2>2, <3>1
  <2>3. CASE p # pos
    <3>1. A2[p] = A[p]
      BY Zenon, <1>9, <2>3
    <3>2. A[p] \in DOMAIN r /\ ~r[A[p]].off /\ r[A[p]].activeIdx = p
      BY Zenon, <1>3, <2>1
    <3>3. A[p] # i /\ A[p] # m
      BY <1>7, <2>1, <2>3, <3>2, <1>6
    <3> QED
      BY <1>8, <3>1, <3>2, <3>3
  <2> QED
    BY Zenon, <2>2, <2>3
<1>12. \A j \in DOMAIN r2 :
          /\ K[r2[j].key] = j
          /\ r2[j].off => r2[j].activeIdx = 0
          /\ ~r2[j].off => /\ r2[j].activeIdx \in DOMAIN A2 /\ A2[r2[j].activeIdx] = j
                           /\ D[r2[j].addr] = j /\ r2[j].ingress \in I2
  <2> SUFFICES ASSUME NEW j \in DOMAIN r
               PROVE  /\ K[r2[j].key] = j
                      /\ r2[j].off => r2[j].activeIdx = 0
                      /\ ~r2[j].off => /\ r2[j].activeIdx \in DOMAIN A2
                                       /\ A2[r2[j].activeIdx] = j
                                       /\ D[r2[j].addr] = j /\ r2[j].ingress \in I2
    BY <1>8
  <2>1. K[r2[j].key] = j
    BY Zenon, <1>4, <1>same
  <2>2. CASE j = i
    BY Zenon, <1>8, <2>1, <2>2
  <2>3. CASE j # i
    <3>1. r2[j].off => r2[j].activeIdx = 0
      <4>1. ASSUME r2[j].off PROVE j # m
        BY Zenon, <1>8, <2>3, <4>1
      <4> QED
        BY <1>4, <1>8, <2>3, <4>1
    <3>2. ASSUME ~r2[j].off PROVE D[r2[j].addr] = j /\ r2[j].ingress \in I2
      <4>1. ~r[j].off
        BY Zenon, <1>8, <2>3, <3>2
      <4>2. D[r[j].addr] = j /\ r[j].ingress \in I
        BY Zenon, <1>4, <4>1
      <4>3. r[j].ingress # r[i].ingress
        BY Zenon, <2>3, <4>1 DEF Agree
      <4> QED
        <5>1. r[j].ingress \in I2
          BY Zenon, <1>I, <4>2, <4>3
        <5>2. r2[j].addr = r[j].addr /\ r2[j].ingress = r[j].ingress
          BY Zenon, <1>same
        <5> QED
          BY Zenon, <4>2, <5>1, <5>2
    <3>3. ASSUME ~r2[j].off
          PROVE  r2[j].activeIdx \in DOMAIN A2 /\ A2[r2[j].activeIdx] = j
      <4>1. ~r[j].off
        BY Zenon, <1>8, <2>3, <3>3
      <4>2. CASE j = m
        <5>1. r2[j].activeIdx = pos
          BY Zenon, <1>8, <2>3, <4>2
        <5>2. pos < Len(A)
          BY <1>5, <1>6, <1>10, <2>3, <4>2
        <5> QED
          BY <1>6, <1>9, <4>2, <5>1, <5>2
      <4>3. CASE j # m
        <5>1. r2[j].activeIdx = r[j].activeIdx
          BY Zenon, <1>8, <2>3, <4>3
        <5>2. r[j].activeIdx \in DOMAIN A /\ A[r[j].activeIdx] = j
          BY Zenon, <1>4, <4>1
        <5>3. r[j].activeIdx # Len(A) /\ r[j].activeIdx # pos
          BY Zenon, <1>5, <2>3, <4>3, <5>2
        <5>4. r[j].activeIdx \in DOMAIN A2
          BY <1>6, <1>9, <5>2, <5>3
        <5> QED
          BY Zenon, <1>9, <5>1, <5>2, <5>3, <5>4
      <4> QED
        BY Zenon, <4>2, <4>3
    <3> QED
      BY Zenon, <2>1, <3>1, <3>2, <3>3
  <2> QED
    BY Zenon, <2>2, <2>3
<1>13. \A k \in PublicKeys : K[k] # 0 => K[k] \in DOMAIN r2 /\ r2[K[k]].key = k
  <2>1. \A k \in PublicKeys : K[k] # 0 => K[k] \in DOMAIN r /\ r[K[k]].key = k
    BY Zenon DEF Agree
  <2> QED
    BY Zenon, <1>dom, <1>same, <2>1
<1>14. \A a \in ValidatorAddresses : D[a] # 0 => D[a] \in DOMAIN r2 /\ r2[D[a]].addr = a
  <2>1. \A a \in ValidatorAddresses : D[a] # 0 => D[a] \in DOMAIN r /\ r[D[a]].addr = a
    BY Zenon DEF Agree
  <2> QED
    BY Zenon, <1>dom, <1>same, <2>1
<1>15. \A ip \in I2 : \E j \in DOMAIN r2 : ~r2[j].off /\ r2[j].ingress = ip
  <2> SUFFICES ASSUME NEW ip \in I2
               PROVE  \E j \in DOMAIN r2 : ~r2[j].off /\ r2[j].ingress = ip
    BY Zenon
  <2>1. ip \in I /\ ip # r[i].ingress
    BY Zenon, <1>I
  <2>2. PICK j \in DOMAIN r : ~r[j].off /\ r[j].ingress = ip
    BY Zenon, <2>1 DEF Agree
  <2>3. j # i
    BY Zenon, <2>1, <2>2
  <2> QED
    BY Zenon, <1>8, <2>2, <2>3
<1>16. \A j, k \in DOMAIN r2 :
          ~r2[j].off /\ ~r2[k].off /\ r2[j].ingress = r2[k].ingress => j = k
  <2>1. \A j, k \in DOMAIN r :
          ~r[j].off /\ ~r[k].off /\ r[j].ingress = r[k].ingress => j = k
    BY Zenon DEF Agree
  <2>2. \A j \in DOMAIN r : ~r2[j].off => ~r[j].off
    BY Zenon, <1>8
  <2> QED
    <3> SUFFICES ASSUME NEW j \in DOMAIN r, NEW k \in DOMAIN r, ~r2[j].off, ~r2[k].off,
                        r2[j].ingress = r2[k].ingress
                 PROVE  j = k
      BY <1>dom
    <3>1. ~r[j].off /\ ~r[k].off
      BY Zenon, <2>2
    <3>2. r[j].ingress = r[k].ingress
      BY Zenon, <1>same
    <3> QED
      BY Zenon, <2>1, <3>1, <3>2
<1>17. Agree(r2, A2, K, D, I2)
  BY Zenon, <1>11, <1>12, <1>13, <1>14, <1>15, <1>16 DEF Agree
<1>18. registry' = [records |-> r2, active |-> A2, byKey |-> K, byAddress |-> D,
                    ingresses |-> I2]
  BY Zenon, <1>r, <1>B, <1>A, <1>I
<1>19. r2 \in Seq(ValidatorRecord) /\ A2 \in Seq(Nat) /\ I2 \in SUBSET Ingresses
  BY Zenon, <1>8, <1>9, <1>I
<1> QED
  BY Zenon, <1>17, <1>18, <1>19, RegistryParts

\* rotate_validator on the records: i takes the new identity and n, the new
\* record, is the deactivated snapshot of the old one.
IsRotated(r2, r, i, k, ip, n) ==
    /\ r2 \in Seq(ValidatorRecord) /\ DOMAIN r2 = DOMAIN r \cup {n}
    /\ n \notin DOMAIN r /\ n \in Nat /\ n # 0
    /\ \A j \in DOMAIN r : j # i => r2[j] = r[j]
    /\ r2[i].key = k /\ r2[i].ingress = ip /\ r2[i].addr = r[i].addr
    /\ ~r2[i].off /\ r2[i].activeIdx = r[i].activeIdx
    /\ r2[n].off /\ r2[n].activeIdx = 0 /\ r2[n].key = r[i].key

\* What rotate_validator makes of the records.
LEMMA RotatedRecords ==
  ASSUME NEW r \in Seq(ValidatorRecord), NEW i \in DOMAIN r, ~r[i].off,
         NEW k \in PublicKeys, NEW ip \in Ingresses
  PROVE  IsRotated(Rotated(r, i, k, ip), r, i, k, ip, Len(r) + 1)
<1>1. r[i] \in ValidatorRecord
  BY Zenon, ElementInSeq
<1>2. PICK e : e = [[r[i] EXCEPT !.key = k] EXCEPT !.ingress = ip]
  BY Zenon
<1>3. /\ e \in ValidatorRecord /\ ~e.off /\ e.activeIdx = r[i].activeIdx
      /\ e.key = k /\ e.addr = r[i].addr /\ e.ingress = ip
  BY <1>1, <1>2 DEF ValidatorRecord
<1>4. PICK x : x = [r[i] EXCEPT !.off = TRUE, !.activeIdx = 0]
  BY Zenon
<1>5. x \in ValidatorRecord /\ x.off /\ x.activeIdx = 0 /\ x.key = r[i].key
  BY <1>1, <1>4 DEF ValidatorRecord
<1>6. PICK s1 : s1 = [r EXCEPT ![i] = e]
  BY Zenon
<1>7. /\ s1 \in Seq(ValidatorRecord) /\ DOMAIN s1 = DOMAIN r /\ Len(s1) = Len(r)
      /\ s1[i] = e
      /\ \A j \in DOMAIN r : j # i => s1[j] = r[j]
  BY <1>3, <1>6
<1>8. PICK r2 : r2 = Append(s1, x)
  BY Zenon
<1>9. PICK n : n = Len(r) + 1
  BY Zenon
<1>10. /\ r2 \in Seq(ValidatorRecord) /\ DOMAIN r2 = DOMAIN s1 \cup {n}
       /\ n \notin DOMAIN s1 /\ n \in Nat /\ n # 0
       /\ \A j \in DOMAIN s1 : r2[j] = s1[j]
       /\ r2[n] = x
  BY <1>5, <1>7, <1>8, <1>9, AppendedSeq
<1>11. Rotated(r, i, k, ip) = r2
  <2>1. [r EXCEPT ![i].key = k, ![i].ingress = ip] = s1
    BY <1>2, <1>6
  <2> QED
    BY Zenon, <1>4, <1>8, <2>1 DEF Rotated
<1>12. r2[i] = e /\ \A j \in DOMAIN r : j # i => r2[j] = r[j]
  BY Zenon, <1>7, <1>10
<1>13. IsRotated(r2, r, i, k, ip, n)
  BY <1>3, <1>5, <1>7, <1>10, <1>12 DEF IsRotated
<1> QED
  BY Zenon, <1>9, <1>11, <1>13

\* rotate_validator on parts that agree.
LEMMA RotateAgrees ==
  ASSUME NEW r \in Seq(ValidatorRecord), NEW A \in Seq(Nat),
         NEW K \in [PublicKeys -> Nat], NEW D \in [ValidatorAddresses -> Nat],
         NEW I \in SUBSET Ingresses, Agree(r, A, K, D, I),
         NEW i \in DOMAIN r, ~r[i].off,
         NEW k \in PublicKeys, NEW ip \in Ingresses, K[k] = 0, ip \notin I,
         registry' = [records |-> Rotated(r, i, k, ip), active |-> A,
                      byKey |-> Updated(Updated(K, r[i].key, Len(r) + 1), k, i),
                      byAddress |-> D,
                      ingresses |-> (I \ {r[i].ingress}) \cup {ip}]
  PROVE  /\ registry' \in Registries
         /\ Agree(registry.records, registry.active, registry.byKey, registry.byAddress,
                  registry.ingresses)'
<1>1. \A j \in DOMAIN r : r[j] \in ValidatorRecord /\ j \in Nat /\ j # 0
  OBVIOUS
<1>2. \A j \in DOMAIN r : /\ r[j].key \in PublicKeys /\ r[j].addr \in ValidatorAddresses
                          /\ r[j].ingress \in Ingresses /\ r[j].off \in BOOLEAN
                          /\ r[j].activeIdx \in Nat
  BY <1>1 DEF ValidatorRecord
<1>3. \A p \in DOMAIN A :
          A[p] \in DOMAIN r /\ ~r[A[p]].off /\ r[A[p]].activeIdx = p
  BY Zenon DEF Agree
<1>4. \A j \in DOMAIN r :
          /\ K[r[j].key] = j
          /\ r[j].off => r[j].activeIdx = 0
          /\ ~r[j].off => /\ r[j].activeIdx \in DOMAIN A /\ A[r[j].activeIdx] = j
                          /\ D[r[j].addr] = j /\ r[j].ingress \in I
  BY Zenon DEF Agree
<1>5. \A q \in PublicKeys : K[q] # 0 => K[q] \in DOMAIN r /\ r[K[q]].key = q
  BY Zenon DEF Agree
<1>6. \A q \in ValidatorAddresses : D[q] # 0 => D[q] \in DOMAIN r /\ r[D[q]].addr = q
  BY Zenon DEF Agree
<1>7. \A e \in I : \E j \in DOMAIN r : ~r[j].off /\ r[j].ingress = e
  BY Zenon DEF Agree
<1>8. \A j, l \in DOMAIN r :
          ~r[j].off /\ ~r[l].off /\ r[j].ingress = r[l].ingress => j = l
  BY Zenon DEF Agree
<1>n. PICK n : n = Len(r) + 1
  BY Zenon
<1>r. PICK r2 : r2 = Rotated(r, i, k, ip)
  BY Zenon
<1>K. PICK K2 : K2 = Updated(Updated(K, r[i].key, n), k, i)
  BY Zenon
<1>I. PICK I2 : I2 = (I \ {r[i].ingress}) \cup {ip}
  BY Zenon
<1>9. IsRotated(r2, r, i, k, ip, n)
  BY Zenon, <1>n, <1>r, RotatedRecords
<1>10. /\ r2 \in Seq(ValidatorRecord) /\ DOMAIN r2 = DOMAIN r \cup {n}
       /\ n \notin DOMAIN r /\ n \in Nat /\ n # 0
       /\ \A j \in DOMAIN r : j # i => r2[j] = r[j]
  BY Zenon, <1>9 DEF IsRotated
<1>11. /\ r2[i].key = k /\ r2[i].ingress = ip /\ r2[i].addr = r[i].addr
       /\ ~r2[i].off /\ r2[i].activeIdx = r[i].activeIdx
       /\ r2[n].off /\ r2[n].activeIdx = 0 /\ r2[n].key = r[i].key
  BY Zenon, <1>9 DEF IsRotated
<1>12. r[i].key \in PublicKeys /\ K[r[i].key] = i /\ i # 0 /\ i \in Nat /\ r[i].key # k
  BY Zenon, <1>1, <1>2, <1>4
<1>13. /\ K2 \in [PublicKeys -> Nat] /\ K2[k] = i /\ K2[r[i].key] = n
       /\ \A q \in PublicKeys : q # k /\ q # r[i].key => K2[q] = K[q]
  BY <1>10, <1>12, <1>K DEF Updated
<1>14. \A p \in DOMAIN A :
          A[p] \in DOMAIN r2 /\ ~r2[A[p]].off /\ r2[A[p]].activeIdx = p
  <2> SUFFICES ASSUME NEW p \in DOMAIN A
               PROVE  A[p] \in DOMAIN r2 /\ ~r2[A[p]].off /\ r2[A[p]].activeIdx = p
    BY Zenon
  <2>1. A[p] \in DOMAIN r /\ ~r[A[p]].off /\ r[A[p]].activeIdx = p
    BY Zenon, <1>3
  <2>2. CASE A[p] = i
    BY Zenon, <1>10, <1>11, <2>1, <2>2
  <2>3. CASE A[p] # i
    BY Zenon, <1>10, <2>1, <2>3
  <2> QED
    BY Zenon, <2>2, <2>3
<1>15. \A j \in DOMAIN r2 :
          /\ K2[r2[j].key] = j
          /\ r2[j].off => r2[j].activeIdx = 0
          /\ ~r2[j].off => /\ r2[j].activeIdx \in DOMAIN A /\ A[r2[j].activeIdx] = j
                           /\ D[r2[j].addr] = j /\ r2[j].ingress \in I2
  <2> SUFFICES ASSUME NEW j \in DOMAIN r2
               PROVE  /\ K2[r2[j].key] = j
                      /\ r2[j].off => r2[j].activeIdx = 0
                      /\ ~r2[j].off => /\ r2[j].activeIdx \in DOMAIN A
                                       /\ A[r2[j].activeIdx] = j
                                       /\ D[r2[j].addr] = j /\ r2[j].ingress \in I2
    OBVIOUS
  <2>1. CASE j = n
    BY Zenon, <1>11, <1>13, <2>1
  <2>2. CASE j = i
    <3>1. r[i].activeIdx \in DOMAIN A /\ A[r[i].activeIdx] = i /\ D[r[i].addr] = i
      BY Zenon, <1>4
    <3>2. ip \in I2
      BY Zenon, <1>I
    <3>3. r2[i].activeIdx \in DOMAIN A /\ A[r2[i].activeIdx] = i /\ D[r2[i].addr] = i
      BY Zenon, <1>11, <3>1
    <3>4. K2[r2[i].key] = i /\ r2[i].ingress \in I2
      BY Zenon, <1>11, <1>13, <3>2
    <3> QED
      BY Zenon, <1>11, <2>2, <3>3, <3>4
  <2>3. CASE j \in DOMAIN r /\ j # i
    <3>1. r2[j] = r[j]
      BY Zenon, <1>10, <2>3
    <3>2. /\ K[r[j].key] = j
          /\ r[j].off => r[j].activeIdx = 0
          /\ ~r[j].off => /\ r[j].activeIdx \in DOMAIN A /\ A[r[j].activeIdx] = j
                          /\ D[r[j].addr] = j /\ r[j].ingress \in I
      BY Zenon, <1>4, <2>3
    <3>3. r[j].key \in PublicKeys /\ r[j].key # k /\ r[j].key # r[i].key
      BY Zenon, <1>1, <1>2, <1>12, <2>3, <3>2
    <3>4. K2[r[j].key] = j
      BY Zenon, <1>13, <3>2, <3>3
    <3>5. ASSUME ~r[j].off PROVE r[j].ingress \in I2
      <4>1. r[j].ingress # r[i].ingress
        BY Zenon, <1>8, <2>3, <3>5
      <4>2. r[j].ingress \in I
        BY Zenon, <3>2, <3>5
      <4> QED
        BY Zenon, <1>I, <4>1, <4>2
    <3> QED
      BY Zenon, <3>1, <3>2, <3>4, <3>5
  <2> QED
    BY Zenon, <1>10, <2>1, <2>2, <2>3
<1>16. \A q \in PublicKeys : K2[q] # 0 => K2[q] \in DOMAIN r2 /\ r2[K2[q]].key = q
  <2> SUFFICES ASSUME NEW q \in PublicKeys, K2[q] # 0
               PROVE  K2[q] \in DOMAIN r2 /\ r2[K2[q]].key = q
    BY Zenon
  <2>1. CASE q = k
    BY Zenon, <1>10, <1>11, <1>13, <2>1
  <2>2. CASE q = r[i].key
    BY Zenon, <1>10, <1>11, <1>13, <2>2
  <2>3. CASE q # k /\ q # r[i].key
    <3>1. K2[q] = K[q]
      BY Zenon, <1>13, <2>3
    <3>2. K[q] \in DOMAIN r /\ r[K[q]].key = q
      BY Zenon, <1>5, <3>1
    <3>3. K[q] # i
      BY Zenon, <2>3, <3>2
    <3>4. r2[K[q]] = r[K[q]] /\ K[q] \in DOMAIN r2
      BY Zenon, <1>10, <3>2, <3>3
    <3> QED
      BY Zenon, <3>1, <3>2, <3>4
  <2> QED
    BY Zenon, <2>1, <2>2, <2>3
<1>17. \A q \in ValidatorAddresses : D[q] # 0 => D[q] \in DOMAIN r2 /\ r2[D[q]].addr = q
  <2> SUFFICES ASSUME NEW q \in ValidatorAddresses, D[q] # 0
               PROVE  D[q] \in DOMAIN r2 /\ r2[D[q]].addr = q
    BY Zenon
  <2>1. D[q] \in DOMAIN r /\ r[D[q]].addr = q
    BY Zenon, <1>6
  <2>2. r2[D[q]].addr = r[D[q]].addr
    BY Zenon, <1>10, <1>11, <2>1
  <2> QED
    BY Zenon, <1>10, <2>1, <2>2
<1>18. \A e \in I2 : \E j \in DOMAIN r2 : ~r2[j].off /\ r2[j].ingress = e
  <2> SUFFICES ASSUME NEW e \in I2
               PROVE  \E j \in DOMAIN r2 : ~r2[j].off /\ r2[j].ingress = e
    BY Zenon
  <2>1. CASE e = ip
    BY Zenon, <1>10, <1>11, <2>1
  <2>2. CASE e # ip
    <3>1. e \in I /\ e # r[i].ingress
      BY Zenon, <1>I, <2>2
    <3>2. PICK j \in DOMAIN r : ~r[j].off /\ r[j].ingress = e
      BY Zenon, <1>7, <3>1
    <3>3. j # i
      BY Zenon, <3>1, <3>2
    <3> QED
      BY Zenon, <1>10, <3>2, <3>3
  <2> QED
    BY Zenon, <2>1, <2>2
<1>19. \A j, l \in DOMAIN r2 :
          ~r2[j].off /\ ~r2[l].off /\ r2[j].ingress = r2[l].ingress => j = l
  <2> SUFFICES ASSUME NEW j \in DOMAIN r2, NEW l \in DOMAIN r2,
                      ~r2[j].off, ~r2[l].off, r2[j].ingress = r2[l].ingress
               PROVE  j = l
    OBVIOUS
  <2>1. j # n /\ l # n /\ j \in DOMAIN r /\ l \in DOMAIN r
    BY Zenon, <1>10, <1>11
  <2>2. ASSUME NEW m \in DOMAIN r, m # i, ~r2[m].off
        PROVE  r2[m].ingress # ip
    <3>1. r2[m] = r[m]
      BY Zenon, <1>10, <2>2
    <3>2. r[m].ingress \in I
      BY Zenon, <1>4, <2>2, <3>1
    <3> QED
      BY Zenon, <3>1, <3>2
  <2>3. CASE j = i
    BY Zenon, <1>11, <2>1, <2>2, <2>3
  <2>4. CASE l = i
    BY Zenon, <1>11, <2>1, <2>2, <2>4
  <2>5. CASE j # i /\ l # i
    BY Zenon, <1>8, <1>10, <2>1, <2>5
  <2> QED
    BY Zenon, <2>3, <2>4, <2>5
<1>20. Agree(r2, A, K2, D, I2)
  BY Zenon, <1>14, <1>15, <1>16, <1>17, <1>18, <1>19 DEF Agree
<1>21. registry' = [records |-> r2, active |-> A, byKey |-> K2, byAddress |-> D,
                    ingresses |-> I2]
  BY Zenon, <1>n, <1>r, <1>K, <1>I
<1>22. I2 \in SUBSET Ingresses
  BY Zenon, <1>I
<1> QED
  BY Zenon, <1>10, <1>13, <1>20, <1>21, <1>22, RegistryParts

\* What changing the endpoint or the address of record i leaves of the rest.
IsReconnected(r2, r, i, ip) ==
    /\ r2 \in Seq(ValidatorRecord) /\ DOMAIN r2 = DOMAIN r
    /\ \A j \in DOMAIN r : /\ r2[j].key = r[j].key /\ r2[j].addr = r[j].addr
                           /\ r2[j].off = r[j].off /\ r2[j].activeIdx = r[j].activeIdx
    /\ \A j \in DOMAIN r : j # i => r2[j].ingress = r[j].ingress
    /\ r2[i].ingress = ip
IsReaddressed(r2, r, i, a) ==
    /\ r2 \in Seq(ValidatorRecord) /\ DOMAIN r2 = DOMAIN r
    /\ \A j \in DOMAIN r : /\ r2[j].key = r[j].key /\ r2[j].ingress = r[j].ingress
                           /\ r2[j].off = r[j].off /\ r2[j].activeIdx = r[j].activeIdx
    /\ \A j \in DOMAIN r : j # i => r2[j].addr = r[j].addr
    /\ r2[i].addr = a

\* Setting the endpoint of a record.
LEMMA ReconnectedRecords ==
  ASSUME NEW r \in Seq(ValidatorRecord), NEW i \in DOMAIN r, NEW ip \in Ingresses
  PROVE  IsReconnected(Reconnected(r, i, ip), r, i, ip)
<1>1. r[i] \in ValidatorRecord
  BY Zenon, ElementInSeq
<1>2. PICK e : e = [r[i] EXCEPT !.ingress = ip]
  BY Zenon
<1>3. /\ e \in ValidatorRecord /\ e.off = r[i].off /\ e.activeIdx = r[i].activeIdx
      /\ e.key = r[i].key /\ e.addr = r[i].addr /\ e.ingress = ip
  BY <1>1, <1>2 DEF ValidatorRecord
<1>4. PICK r2 : r2 = Reconnected(r, i, ip)
  BY Zenon
<1>5. r2 = [r EXCEPT ![i] = e]
  BY Zenon, <1>2, <1>4 DEF Reconnected
<1>6. /\ r2 \in Seq(ValidatorRecord) /\ DOMAIN r2 = DOMAIN r /\ r2[i] = e
      /\ \A j \in DOMAIN r : j # i => r2[j] = r[j]
  BY <1>3, <1>5
<1>7. \A j \in DOMAIN r : /\ r2[j].key = r[j].key /\ r2[j].addr = r[j].addr
                          /\ r2[j].off = r[j].off /\ r2[j].activeIdx = r[j].activeIdx
  BY <1>3, <1>6
<1>8. IsReconnected(r2, r, i, ip)
  BY <1>3, <1>6, <1>7 DEF IsReconnected
<1> QED
  BY Zenon, <1>4, <1>8

\* Setting the address of a record.
LEMMA ReaddressedRecords ==
  ASSUME NEW r \in Seq(ValidatorRecord), NEW i \in DOMAIN r, NEW a \in ValidatorAddresses
  PROVE  IsReaddressed(Readdressed(r, i, a), r, i, a)
<1>1. r[i] \in ValidatorRecord
  BY Zenon, ElementInSeq
<1>2. PICK e : e = [r[i] EXCEPT !.addr = a]
  BY Zenon
<1>3. /\ e \in ValidatorRecord /\ e.off = r[i].off /\ e.activeIdx = r[i].activeIdx
      /\ e.key = r[i].key /\ e.addr = a /\ e.ingress = r[i].ingress
  BY <1>1, <1>2 DEF ValidatorRecord
<1>4. PICK r2 : r2 = Readdressed(r, i, a)
  BY Zenon
<1>5. r2 = [r EXCEPT ![i] = e]
  BY Zenon, <1>2, <1>4 DEF Readdressed
<1>6. /\ r2 \in Seq(ValidatorRecord) /\ DOMAIN r2 = DOMAIN r /\ r2[i] = e
      /\ \A j \in DOMAIN r : j # i => r2[j] = r[j]
  BY <1>3, <1>5
<1>7. \A j \in DOMAIN r : /\ r2[j].key = r[j].key /\ r2[j].ingress = r[j].ingress
                          /\ r2[j].off = r[j].off /\ r2[j].activeIdx = r[j].activeIdx
  BY <1>3, <1>6
<1>8. IsReaddressed(r2, r, i, a)
  BY <1>3, <1>6, <1>7 DEF IsReaddressed
<1> QED
  BY Zenon, <1>4, <1>8

\* set_ip_addresses on parts that agree: the endpoint is the old one or free.
LEMMA ReconnectAgrees ==
  ASSUME NEW r \in Seq(ValidatorRecord), NEW A \in Seq(Nat),
         NEW K \in [PublicKeys -> Nat], NEW D \in [ValidatorAddresses -> Nat],
         NEW I \in SUBSET Ingresses, Agree(r, A, K, D, I),
         NEW i \in DOMAIN r, ~r[i].off,
         NEW ip \in Ingresses, ip = r[i].ingress \/ ip \notin I,
         registry' = [records |-> Reconnected(r, i, ip), active |-> A, byKey |-> K,
                      byAddress |-> D,
                      ingresses |-> (I \ {r[i].ingress}) \cup {ip}]
  PROVE  /\ registry' \in Registries
         /\ Agree(registry.records, registry.active, registry.byKey, registry.byAddress,
                  registry.ingresses)'
<1>1. \A j \in DOMAIN r : r[j] \in ValidatorRecord /\ j \in Nat /\ j # 0
  OBVIOUS
<1>2. \A j \in DOMAIN r : /\ r[j].key \in PublicKeys /\ r[j].addr \in ValidatorAddresses
                          /\ r[j].ingress \in Ingresses /\ r[j].off \in BOOLEAN
                          /\ r[j].activeIdx \in Nat
  BY <1>1 DEF ValidatorRecord
<1>3. \A p \in DOMAIN A :
          A[p] \in DOMAIN r /\ ~r[A[p]].off /\ r[A[p]].activeIdx = p
  BY Zenon DEF Agree
<1>4. \A j \in DOMAIN r :
          /\ K[r[j].key] = j
          /\ r[j].off => r[j].activeIdx = 0
          /\ ~r[j].off => /\ r[j].activeIdx \in DOMAIN A /\ A[r[j].activeIdx] = j
                          /\ D[r[j].addr] = j /\ r[j].ingress \in I
  BY Zenon DEF Agree
<1>5. \A q \in PublicKeys : K[q] # 0 => K[q] \in DOMAIN r /\ r[K[q]].key = q
  BY Zenon DEF Agree
<1>6. \A q \in ValidatorAddresses : D[q] # 0 => D[q] \in DOMAIN r /\ r[D[q]].addr = q
  BY Zenon DEF Agree
<1>7. \A e \in I : \E j \in DOMAIN r : ~r[j].off /\ r[j].ingress = e
  BY Zenon DEF Agree
<1>8. \A j, l \in DOMAIN r :
          ~r[j].off /\ ~r[l].off /\ r[j].ingress = r[l].ingress => j = l
  BY Zenon DEF Agree
<1>r. PICK r2 : r2 = Reconnected(r, i, ip)
  BY Zenon
<1>I. PICK I2 : I2 = (I \ {r[i].ingress}) \cup {ip}
  BY Zenon
<1>9. IsReconnected(r2, r, i, ip)
  BY Zenon, <1>r, ReconnectedRecords
<1>10. r2 \in Seq(ValidatorRecord) /\ DOMAIN r2 = DOMAIN r
  BY Zenon, <1>9 DEF IsReconnected
<1>11. \A j \in DOMAIN r : /\ r2[j].key = r[j].key /\ r2[j].addr = r[j].addr
                           /\ r2[j].off = r[j].off /\ r2[j].activeIdx = r[j].activeIdx
  BY Zenon, <1>9 DEF IsReconnected
<1>12. /\ \A j \in DOMAIN r : j # i => r2[j].ingress = r[j].ingress
       /\ r2[i].ingress = ip
  BY Zenon, <1>9 DEF IsReconnected
<1>13. \A p \in DOMAIN A :
          A[p] \in DOMAIN r2 /\ ~r2[A[p]].off /\ r2[A[p]].activeIdx = p
  BY Zenon, <1>3, <1>10, <1>11
<1>14. \A j \in DOMAIN r : ~r2[j].off => r2[j].ingress \in I2
  <2> SUFFICES ASSUME NEW j \in DOMAIN r, ~r2[j].off
               PROVE  r2[j].ingress \in I2
    OBVIOUS
  <2>1. ~r[j].off
    BY Zenon, <1>11
  <2>2. CASE j = i
    BY Zenon, <1>12, <1>I, <2>2
  <2>3. CASE j # i
    <3>1. r[j].ingress \in I /\ r[j].ingress # r[i].ingress
      BY Zenon, <1>4, <1>8, <2>1, <2>3
    <3> QED
      BY Zenon, <1>12, <1>I, <2>3, <3>1
  <2> QED
    BY Zenon, <2>2, <2>3
<1>15. \A j \in DOMAIN r2 :
          /\ K[r2[j].key] = j
          /\ r2[j].off => r2[j].activeIdx = 0
          /\ ~r2[j].off => /\ r2[j].activeIdx \in DOMAIN A /\ A[r2[j].activeIdx] = j
                           /\ D[r2[j].addr] = j /\ r2[j].ingress \in I2
  BY Zenon, <1>4, <1>10, <1>11, <1>14
<1>16. \A q \in PublicKeys : K[q] # 0 => K[q] \in DOMAIN r2 /\ r2[K[q]].key = q
  BY Zenon, <1>5, <1>10, <1>11
<1>17. \A q \in ValidatorAddresses : D[q] # 0 => D[q] \in DOMAIN r2 /\ r2[D[q]].addr = q
  BY Zenon, <1>6, <1>10, <1>11
<1>18. \A e \in I2 : \E j \in DOMAIN r2 : ~r2[j].off /\ r2[j].ingress = e
  <2> SUFFICES ASSUME NEW e \in I2
               PROVE  \E j \in DOMAIN r2 : ~r2[j].off /\ r2[j].ingress = e
    BY Zenon
  <2>1. CASE e = ip
    BY Zenon, <1>10, <1>11, <1>12, <2>1
  <2>2. CASE e # ip
    <3>1. e \in I /\ e # r[i].ingress
      BY Zenon, <1>I, <2>2
    <3>2. PICK j \in DOMAIN r : ~r[j].off /\ r[j].ingress = e
      BY Zenon, <1>7, <3>1
    <3>3. j # i
      BY Zenon, <3>1, <3>2
    <3>4. ~r2[j].off /\ r2[j].ingress = e
      BY Zenon, <1>11, <1>12, <3>2, <3>3
    <3> QED
      BY Zenon, <1>10, <3>4
  <2> QED
    BY Zenon, <2>1, <2>2
<1>19. \A j, l \in DOMAIN r2 :
          ~r2[j].off /\ ~r2[l].off /\ r2[j].ingress = r2[l].ingress => j = l
  <2> SUFFICES ASSUME NEW j \in DOMAIN r, NEW l \in DOMAIN r,
                      ~r2[j].off, ~r2[l].off, r2[j].ingress = r2[l].ingress
               PROVE  j = l
    BY <1>10
  <2>1. ~r[j].off /\ ~r[l].off
    BY Zenon, <1>11
  <2>2. ASSUME NEW m \in DOMAIN r, m # i, ~r[m].off
        PROVE  r2[m].ingress # ip
    <3>1. r2[m].ingress = r[m].ingress
      BY Zenon, <1>12, <2>2
    <3>2. r[m].ingress \in I
      BY Zenon, <1>4, <2>2
    <3>3. r[m].ingress # r[i].ingress
      BY Zenon, <1>8, <2>2
    <3> QED
      BY Zenon, <3>1, <3>2, <3>3
  <2>3. CASE j = i
    BY Zenon, <1>12, <2>1, <2>2, <2>3
  <2>4. CASE l = i
    BY Zenon, <1>12, <2>1, <2>2, <2>4
  <2>5. CASE j # i /\ l # i
    <3>1. r[j].ingress = r[l].ingress
      BY Zenon, <1>12, <2>5
    <3> QED
      BY Zenon, <1>8, <2>1, <3>1
  <2> QED
    BY Zenon, <2>3, <2>4, <2>5
<1>20. Agree(r2, A, K, D, I2)
  BY Zenon, <1>13, <1>15, <1>16, <1>17, <1>18, <1>19 DEF Agree
<1>21. registry' = [records |-> r2, active |-> A, byKey |-> K, byAddress |-> D,
                    ingresses |-> I2]
  BY Zenon, <1>r, <1>I
<1>22. I2 \in SUBSET Ingresses
  BY Zenon, <1>I
<1> QED
  BY Zenon, <1>10, <1>20, <1>21, <1>22, RegistryParts

\* transfer_validator_ownership on parts that agree: no active validator has
\* the new address.
LEMMA ReaddressAgrees ==
  ASSUME NEW r \in Seq(ValidatorRecord), NEW A \in Seq(Nat),
         NEW K \in [PublicKeys -> Nat], NEW D \in [ValidatorAddresses -> Nat],
         NEW I \in SUBSET Ingresses, Agree(r, A, K, D, I),
         NEW i \in DOMAIN r, ~r[i].off,
         NEW a \in ValidatorAddresses, D[a] # 0 => r[D[a]].off,
         registry' = [records |-> Readdressed(r, i, a), active |-> A, byKey |-> K,
                      byAddress |-> Updated(Updated(D, r[i].addr, 0), a, i),
                      ingresses |-> I]
  PROVE  /\ registry' \in Registries
         /\ Agree(registry.records, registry.active, registry.byKey, registry.byAddress,
                  registry.ingresses)'
<1>1. \A j \in DOMAIN r : r[j] \in ValidatorRecord /\ j \in Nat /\ j # 0
  OBVIOUS
<1>2. \A j \in DOMAIN r : /\ r[j].key \in PublicKeys /\ r[j].addr \in ValidatorAddresses
                          /\ r[j].ingress \in Ingresses /\ r[j].off \in BOOLEAN
                          /\ r[j].activeIdx \in Nat
  BY <1>1 DEF ValidatorRecord
<1>3. \A p \in DOMAIN A :
          A[p] \in DOMAIN r /\ ~r[A[p]].off /\ r[A[p]].activeIdx = p
  BY Zenon DEF Agree
<1>4. \A j \in DOMAIN r :
          /\ K[r[j].key] = j
          /\ r[j].off => r[j].activeIdx = 0
          /\ ~r[j].off => /\ r[j].activeIdx \in DOMAIN A /\ A[r[j].activeIdx] = j
                          /\ D[r[j].addr] = j /\ r[j].ingress \in I
  BY Zenon DEF Agree
<1>5. \A q \in PublicKeys : K[q] # 0 => K[q] \in DOMAIN r /\ r[K[q]].key = q
  BY Zenon DEF Agree
<1>6. \A q \in ValidatorAddresses : D[q] # 0 => D[q] \in DOMAIN r /\ r[D[q]].addr = q
  BY Zenon DEF Agree
<1>7. \A e \in I : \E j \in DOMAIN r : ~r[j].off /\ r[j].ingress = e
  BY Zenon DEF Agree
<1>8. \A j, l \in DOMAIN r :
          ~r[j].off /\ ~r[l].off /\ r[j].ingress = r[l].ingress => j = l
  BY Zenon DEF Agree
<1>r. PICK r2 : r2 = Readdressed(r, i, a)
  BY Zenon
<1>D. PICK D2 : D2 = Updated(Updated(D, r[i].addr, 0), a, i)
  BY Zenon
<1>9. IsReaddressed(r2, r, i, a)
  BY Zenon, <1>r, ReaddressedRecords
<1>10. r2 \in Seq(ValidatorRecord) /\ DOMAIN r2 = DOMAIN r
  BY Zenon, <1>9 DEF IsReaddressed
<1>11. \A j \in DOMAIN r : /\ r2[j].key = r[j].key /\ r2[j].ingress = r[j].ingress
                           /\ r2[j].off = r[j].off /\ r2[j].activeIdx = r[j].activeIdx
  BY Zenon, <1>9 DEF IsReaddressed
<1>12. /\ \A j \in DOMAIN r : j # i => r2[j].addr = r[j].addr
       /\ r2[i].addr = a
  BY Zenon, <1>9 DEF IsReaddressed
<1>13. /\ r[i].addr \in ValidatorAddresses /\ D[r[i].addr] = i /\ i # 0 /\ i \in Nat
       /\ r[i].addr # a
  <2>1. r[i].addr \in ValidatorAddresses
    BY Zenon, <1>2
  <2>2. D[r[i].addr] = i
    BY Zenon, <1>4
  <2>3. i # 0 /\ i \in Nat
    BY Zenon, <1>1
  <2>4. ASSUME r[i].addr = a
        PROVE  FALSE
    <3>1. D[a] = i
      BY Zenon, <2>2, <2>4
    <3>2. r[D[a]].off
      BY Zenon, <2>3, <3>1
    <3> QED
      BY Zenon, <3>1, <3>2
  <2> QED
    BY Zenon, <2>1, <2>2, <2>3, <2>4
<1>14. /\ D2 \in [ValidatorAddresses -> Nat] /\ D2[a] = i /\ D2[r[i].addr] = 0
       /\ \A q \in ValidatorAddresses : q # a /\ q # r[i].addr => D2[q] = D[q]
  BY <1>13, <1>D DEF Updated
<1>15. \A p \in DOMAIN A :
          A[p] \in DOMAIN r2 /\ ~r2[A[p]].off /\ r2[A[p]].activeIdx = p
  BY Zenon, <1>3, <1>10, <1>11
<1>16. \A j \in DOMAIN r : ~r[j].off => D2[r2[j].addr] = j
  <2> SUFFICES ASSUME NEW j \in DOMAIN r, ~r[j].off
               PROVE  D2[r2[j].addr] = j
    OBVIOUS
  <2>1. CASE j = i
    BY Zenon, <1>12, <1>14, <2>1
  <2>2. CASE j # i
    <3>1. D[r[j].addr] = j /\ j # 0
      BY Zenon, <1>1, <1>4
    <3>2. r[j].addr # a /\ r[j].addr # r[i].addr
      BY Zenon, <1>13, <2>2, <3>1
    <3>3. r[j].addr \in ValidatorAddresses
      BY Zenon, <1>2
    <3> QED
      BY Zenon, <1>12, <1>14, <2>2, <3>1, <3>2, <3>3
  <2> QED
    BY Zenon, <2>1, <2>2
<1>17. \A j \in DOMAIN r2 :
          /\ K[r2[j].key] = j
          /\ r2[j].off => r2[j].activeIdx = 0
          /\ ~r2[j].off => /\ r2[j].activeIdx \in DOMAIN A /\ A[r2[j].activeIdx] = j
                           /\ D2[r2[j].addr] = j /\ r2[j].ingress \in I
  <2> SUFFICES ASSUME NEW j \in DOMAIN r
               PROVE  /\ K[r2[j].key] = j
                      /\ r2[j].off => r2[j].activeIdx = 0
                      /\ ~r2[j].off => /\ r2[j].activeIdx \in DOMAIN A
                                       /\ A[r2[j].activeIdx] = j
                                       /\ D2[r2[j].addr] = j /\ r2[j].ingress \in I
    BY Zenon, <1>10
  <2>1. /\ r2[j].key = r[j].key /\ r2[j].ingress = r[j].ingress
        /\ r2[j].off = r[j].off /\ r2[j].activeIdx = r[j].activeIdx
    BY Zenon, <1>11
  <2>2. K[r2[j].key] = j
    BY Zenon, <1>4, <2>1
  <2>3. r2[j].off => r2[j].activeIdx = 0
    BY Zenon, <1>4, <2>1
  <2>4. ASSUME ~r2[j].off
        PROVE  /\ r2[j].activeIdx \in DOMAIN A /\ A[r2[j].activeIdx] = j
               /\ D2[r2[j].addr] = j /\ r2[j].ingress \in I
    <3>1. ~r[j].off
      BY Zenon, <2>1, <2>4
    <3>2. /\ r[j].activeIdx \in DOMAIN A /\ A[r[j].activeIdx] = j
          /\ r[j].ingress \in I
      BY Zenon, <1>4, <3>1
    <3>3. D2[r2[j].addr] = j
      BY Zenon, <1>16, <3>1
    <3> QED
      BY Zenon, <2>1, <3>2, <3>3
  <2> QED
    BY Zenon, <2>2, <2>3, <2>4
<1>18. \A q \in PublicKeys : K[q] # 0 => K[q] \in DOMAIN r2 /\ r2[K[q]].key = q
  BY Zenon, <1>5, <1>10, <1>11
<1>19. \A q \in ValidatorAddresses :
          D2[q] # 0 => D2[q] \in DOMAIN r2 /\ r2[D2[q]].addr = q
  <2> SUFFICES ASSUME NEW q \in ValidatorAddresses, D2[q] # 0
               PROVE  D2[q] \in DOMAIN r2 /\ r2[D2[q]].addr = q
    BY Zenon
  <2>1. CASE q = a
    BY Zenon, <1>10, <1>12, <1>14, <2>1
  <2>2. CASE q # a
    <3>1. q # r[i].addr
      BY Zenon, <1>14
    <3>2. D2[q] = D[q]
      BY Zenon, <1>14, <2>2, <3>1
    <3>3. D[q] \in DOMAIN r /\ r[D[q]].addr = q
      BY Zenon, <1>6, <3>2
    <3>4. D[q] # i
      BY Zenon, <3>1, <3>3
    <3>5. r2[D[q]].addr = r[D[q]].addr
      BY Zenon, <1>12, <3>3, <3>4
    <3> QED
      BY Zenon, <1>10, <3>2, <3>3, <3>5
  <2> QED
    BY Zenon, <2>1, <2>2
<1>20. \A e \in I : \E j \in DOMAIN r2 : ~r2[j].off /\ r2[j].ingress = e
  <2> SUFFICES ASSUME NEW e \in I
               PROVE  \E j \in DOMAIN r2 : ~r2[j].off /\ r2[j].ingress = e
    BY Zenon
  <2>1. PICK j \in DOMAIN r : ~r[j].off /\ r[j].ingress = e
    BY Zenon, <1>7
  <2>2. ~r2[j].off /\ r2[j].ingress = e
    BY Zenon, <1>11, <2>1
  <2> QED
    BY Zenon, <1>10, <2>2
<1>21. \A j, l \in DOMAIN r2 :
          ~r2[j].off /\ ~r2[l].off /\ r2[j].ingress = r2[l].ingress => j = l
  <2> SUFFICES ASSUME NEW j \in DOMAIN r, NEW l \in DOMAIN r,
                      ~r2[j].off, ~r2[l].off, r2[j].ingress = r2[l].ingress
               PROVE  j = l
    BY <1>10
  <2>1. ~r[j].off /\ ~r[l].off /\ r[j].ingress = r[l].ingress
    BY Zenon, <1>11
  <2> QED
    BY Zenon, <1>8, <2>1
<1>22. Agree(r2, A, K, D2, I)
  BY Zenon, <1>15, <1>17, <1>18, <1>19, <1>20, <1>21 DEF Agree
<1>23. registry' = [records |-> r2, active |-> A, byKey |-> K, byAddress |-> D2,
                    ingresses |-> I]
  BY Zenon, <1>r, <1>D
<1> QED
  BY Zenon, <1>10, <1>14, <1>22, <1>23, RegistryParts

\* A registry of the invariant, as its parts.
LEMMA RegistryHasParts ==
  ASSUME RegistryInv
  PROVE  \E r, A, K, D, I :
            /\ r \in Seq(ValidatorRecord) /\ A \in Seq(Nat)
            /\ K \in [PublicKeys -> Nat] /\ D \in [ValidatorAddresses -> Nat]
            /\ I \in SUBSET Ingresses /\ Agree(r, A, K, D, I)
            /\ registry = [records |-> r, active |-> A, byKey |-> K, byAddress |-> D,
                           ingresses |-> I]
<1>1. registry \in Registries
  BY Zenon DEF RegistryInv
<1>2. /\ registry.records \in Seq(ValidatorRecord) /\ registry.active \in Seq(Nat)
      /\ registry.byKey \in [PublicKeys -> Nat]
      /\ registry.byAddress \in [ValidatorAddresses -> Nat]
      /\ registry.ingresses \in SUBSET Ingresses
      /\ registry = [records |-> registry.records, active |-> registry.active,
                     byKey |-> registry.byKey, byAddress |-> registry.byAddress,
                     ingresses |-> registry.ingresses]
  BY <1>1 DEF Registries
<1> QED
  BY Zenon, <1>2 DEF RegistryInv

\* A record is active when the invariant's parts say so.
LEMMA ActiveIsRecord ==
  ASSUME NEW i \in ActiveRecords
  PROVE  i \in DOMAIN registry.records /\ ~registry.records[i].off
  BY Zenon DEF ActiveRecords, IsActive

\* add_validator.
LEMMA RegisterKeeps ==
  ASSUME RegistryInv, NEW k \in PublicKeys, NEW a \in ValidatorAddresses,
         NEW ip \in Ingresses, RegisterValidator(k, a, ip)
  PROVE  /\ registry' \in Registries
         /\ Agree(registry.records, registry.active, registry.byKey, registry.byAddress,
                  registry.ingresses)'
<1>0. PICK r, A, K, D, I :
        /\ r \in Seq(ValidatorRecord) /\ A \in Seq(Nat)
        /\ K \in [PublicKeys -> Nat] /\ D \in [ValidatorAddresses -> Nat]
        /\ I \in SUBSET Ingresses /\ Agree(r, A, K, D, I)
        /\ registry = [records |-> r, active |-> A, byKey |-> K, byAddress |-> D,
                       ingresses |-> I]
  BY Zenon, RegistryHasParts
<1>1. /\ registry.records = r /\ registry.active = A /\ registry.byKey = K
      /\ registry.byAddress = D /\ registry.ingresses = I
  BY <1>0
<1>2. K[k] = 0 /\ (D[a] # 0 => r[D[a]].off) /\ ip \notin I
  BY <1>1 DEF RegisterValidator, NewKey, NewAddress, IsActive
<1>3. registry' = [records |-> Append(r,
                         [key |-> k, addr |-> a, ingress |-> ip, off |-> FALSE,
                          activeIdx |-> IF FALSE THEN 0 ELSE Len(A) + 1]),
                   active |-> IF FALSE THEN A ELSE Append(A, Len(r) + 1),
                   byKey |-> Updated(K, k, Len(r) + 1),
                   byAddress |-> Updated(D, a, Len(r) + 1),
                   ingresses |-> IF FALSE THEN I ELSE I \cup {ip}]
  BY <1>0 DEF RegisterValidator, AppendValidator, Updated
<1> QED
  BY Zenon, <1>0, <1>2, <1>3, AppendAgrees

\* deactivate_validator.
LEMMA DeactivateKeeps ==
  ASSUME RegistryInv, NEW i \in ActiveRecords, DeactivateValidator(i)
  PROVE  /\ registry' \in Registries
         /\ Agree(registry.records, registry.active, registry.byKey, registry.byAddress,
                  registry.ingresses)'
<1>0. PICK r, A, K, D, I :
        /\ r \in Seq(ValidatorRecord) /\ A \in Seq(Nat)
        /\ K \in [PublicKeys -> Nat] /\ D \in [ValidatorAddresses -> Nat]
        /\ I \in SUBSET Ingresses /\ Agree(r, A, K, D, I)
        /\ registry = [records |-> r, active |-> A, byKey |-> K, byAddress |-> D,
                       ingresses |-> I]
  BY Zenon, RegistryHasParts
<1>1. /\ registry.records = r /\ registry.active = A /\ registry.byKey = K
      /\ registry.byAddress = D /\ registry.ingresses = I
  BY <1>0
<1>2. i \in DOMAIN r /\ ~r[i].off
  BY Zenon, <1>1, ActiveIsRecord
<1>p. PICK pos : pos = r[i].activeIdx
  BY Zenon
<1>m. PICK m : m = A[Len(A)]
  BY Zenon
<1>3. Deactivated(r, i)[i].activeIdx = pos
  <2>1. r[i] \in ValidatorRecord
    BY Zenon, <1>0, <1>2, ElementInSeq
  <2> QED
    BY <1>0, <1>2, <1>p, <2>1 DEF Deactivated, ValidatorRecord
<1>4. PICK reg : reg = [records |-> Deactivated(r, i), active |-> A, byKey |-> K,
                        byAddress |-> D, ingresses |-> I \ {r[i].ingress}]
  BY Zenon
<1>5. reg = [registry EXCEPT !.ingresses = @ \ {registry.records[i].ingress},
                             !.records[i].off = TRUE]
  <2>1. PICK I2 : I2 = I \ {r[i].ingress}
    BY Zenon
  <2>2. registry.ingresses \ {registry.records[i].ingress} = I2
    BY Zenon, <1>1, <2>1
  <2>3. registry = [records |-> r, active |-> A, byKey |-> K, byAddress |-> D,
                    ingresses |-> I]
    BY Zenon, <1>0
  <2>4. PICK x : x = [registry EXCEPT !.ingresses = I2, !.records[i].off = TRUE]
    BY Zenon
  <2>5. x = [records |-> [r EXCEPT ![i].off = TRUE], active |-> A, byKey |-> K,
             byAddress |-> D, ingresses |-> I2]
    BY <2>3, <2>4
  <2>6. [registry EXCEPT !.ingresses = @ \ {registry.records[i].ingress},
                         !.records[i].off = TRUE] = x
    BY Zenon, <2>2, <2>4
  <2> QED
    BY Zenon, <1>4, <2>1, <2>5, <2>6 DEF Deactivated
<1>6. registry' = SwapAndPop(reg, i)
  BY Zenon, <1>5 DEF DeactivateValidator
<1>7. registry' = [records |-> PlacedAt(PlacedAt(Deactivated(r, i), m, pos), i, 0),
                   active |-> SubSeq(Updated(A, pos, m), 1,
                                     Len(Updated(A, pos, m)) - 1),
                   byKey |-> K, byAddress |-> D,
                   ingresses |-> I \ {r[i].ingress}]
  BY <1>3, <1>4, <1>6, <1>m DEF SwapAndPop, PlacedAt, Updated
<1> QED
  BY Zenon, <1>0, <1>2, <1>7, <1>p, <1>m, PopAgrees

\* rotate_validator.
LEMMA RotateKeeps ==
  ASSUME RegistryInv, NEW i \in ActiveRecords, NEW k \in PublicKeys,
         NEW ip \in Ingresses, RotateValidator(i, k, ip)
  PROVE  /\ registry' \in Registries
         /\ Agree(registry.records, registry.active, registry.byKey, registry.byAddress,
                  registry.ingresses)'
<1>0. PICK r, A, K, D, I :
        /\ r \in Seq(ValidatorRecord) /\ A \in Seq(Nat)
        /\ K \in [PublicKeys -> Nat] /\ D \in [ValidatorAddresses -> Nat]
        /\ I \in SUBSET Ingresses /\ Agree(r, A, K, D, I)
        /\ registry = [records |-> r, active |-> A, byKey |-> K, byAddress |-> D,
                       ingresses |-> I]
  BY Zenon, RegistryHasParts
<1>1. /\ registry.records = r /\ registry.active = A /\ registry.byKey = K
      /\ registry.byAddress = D /\ registry.ingresses = I
  BY <1>0
<1>2. i \in DOMAIN r /\ ~r[i].off
  BY Zenon, <1>1, ActiveIsRecord
<1>3. K[k] = 0 /\ ip \notin I
  BY <1>1 DEF RotateValidator, NewKey
<1>4. registry' = [records |-> Rotated(r, i, k, ip), active |-> A,
                   byKey |-> Updated(Updated(K, r[i].key, Len(r) + 1), k, i),
                   byAddress |-> D,
                   ingresses |-> (I \ {r[i].ingress}) \cup {ip}]
  BY <1>0 DEF RotateValidator, TrackIngress, Rotated, Updated
<1> QED
  BY Zenon, <1>0, <1>2, <1>3, <1>4, RotateAgrees

\* set_ip_addresses.
LEMMA ReconnectKeeps ==
  ASSUME RegistryInv, NEW i \in ActiveRecords, NEW ip \in Ingresses,
         SetIpAddresses(i, ip)
  PROVE  /\ registry' \in Registries
         /\ Agree(registry.records, registry.active, registry.byKey, registry.byAddress,
                  registry.ingresses)'
<1>0. PICK r, A, K, D, I :
        /\ r \in Seq(ValidatorRecord) /\ A \in Seq(Nat)
        /\ K \in [PublicKeys -> Nat] /\ D \in [ValidatorAddresses -> Nat]
        /\ I \in SUBSET Ingresses /\ Agree(r, A, K, D, I)
        /\ registry = [records |-> r, active |-> A, byKey |-> K, byAddress |-> D,
                       ingresses |-> I]
  BY Zenon, RegistryHasParts
<1>1. /\ registry.records = r /\ registry.active = A /\ registry.byKey = K
      /\ registry.byAddress = D /\ registry.ingresses = I
  BY <1>0
<1>2. i \in DOMAIN r /\ ~r[i].off
  BY Zenon, <1>1, ActiveIsRecord
<1>3. ip = r[i].ingress \/ ip \notin I
  BY <1>1 DEF SetIpAddresses
<1>4. registry' = [records |-> Reconnected(r, i, ip), active |-> A, byKey |-> K,
                   byAddress |-> D, ingresses |-> (I \ {r[i].ingress}) \cup {ip}]
  BY <1>0 DEF SetIpAddresses, TrackIngress, Reconnected
<1> QED
  BY Zenon, <1>0, <1>2, <1>3, <1>4, ReconnectAgrees

\* transfer_validator_ownership.
LEMMA TransferKeeps ==
  ASSUME RegistryInv, NEW i \in ActiveRecords, NEW a \in ValidatorAddresses,
         TransferValidatorOwnership(i, a)
  PROVE  /\ registry' \in Registries
         /\ Agree(registry.records, registry.active, registry.byKey, registry.byAddress,
                  registry.ingresses)'
<1>0. PICK r, A, K, D, I :
        /\ r \in Seq(ValidatorRecord) /\ A \in Seq(Nat)
        /\ K \in [PublicKeys -> Nat] /\ D \in [ValidatorAddresses -> Nat]
        /\ I \in SUBSET Ingresses /\ Agree(r, A, K, D, I)
        /\ registry = [records |-> r, active |-> A, byKey |-> K, byAddress |-> D,
                       ingresses |-> I]
  BY Zenon, RegistryHasParts
<1>1. /\ registry.records = r /\ registry.active = A /\ registry.byKey = K
      /\ registry.byAddress = D /\ registry.ingresses = I
  BY <1>0
<1>2. i \in DOMAIN r /\ ~r[i].off
  BY Zenon, <1>1, ActiveIsRecord
<1>3. D[a] # 0 => r[D[a]].off
  BY <1>1 DEF TransferValidatorOwnership, NewAddress, IsActive
<1>4. registry' = [records |-> Readdressed(r, i, a), active |-> A, byKey |-> K,
                   byAddress |-> Updated(Updated(D, r[i].addr, 0), a, i),
                   ingresses |-> I]
  BY <1>0 DEF TransferValidatorOwnership, Readdressed, Updated
<1> QED
  BY Zenon, <1>0, <1>2, <1>3, <1>4, ReaddressAgrees

\* migrate_validator, when it does not skip the entry.
LEMMA MigrateKeeps ==
  ASSUME RegistryInv, MigrateValidator, ~Skips(v1[Len(v1) - Processed])
  PROVE  /\ registry' \in Registries
         /\ Agree(registry.records, registry.active, registry.byKey, registry.byAddress,
                  registry.ingresses)'
<1>0. PICK r, A, K, D, I :
        /\ r \in Seq(ValidatorRecord) /\ A \in Seq(Nat)
        /\ K \in [PublicKeys -> Nat] /\ D \in [ValidatorAddresses -> Nat]
        /\ I \in SUBSET Ingresses /\ Agree(r, A, K, D, I)
        /\ registry = [records |-> r, active |-> A, byKey |-> K, byAddress |-> D,
                       ingresses |-> I]
  BY Zenon, RegistryHasParts
<1>1. /\ registry.records = r /\ registry.active = A /\ registry.byKey = K
      /\ registry.byAddress = D /\ registry.ingresses = I
  BY <1>0
<1>v. PICK val : val = v1[Len(v1) - Processed]
  BY Zenon
<1>w. val \in [key : PublicKeys, addr : ValidatorAddresses, ingress : Ingresses,
               active : BOOLEAN, valid : BOOLEAN]
  <2>1. Processed \in Nat /\ Processed < Len(v1)
    BY <1>0, <1>1 DEF RegistryInv, MigrateValidator, Processed
  <2>2. v1 \in Seq([key : PublicKeys, addr : ValidatorAddresses, ingress : Ingresses,
                    active : BOOLEAN, valid : BOOLEAN])
    BY Zenon, ValidatorAssumption DEF RegistryInv
  <2>3. Len(v1) - Processed \in DOMAIN v1
    BY <2>1, <2>2
  <2>4. \A S : \A s \in Seq(S) : \A j \in DOMAIN s : s[j] \in S
    OBVIOUS
  <2> QED
    BY Zenon, <1>v, <2>2, <2>3, <2>4
<1>x. ~Skips(val) /\ (~val.valid \/ ~NewKey(val.key) \/ NewAddress(val.addr))
  BY Zenon, <1>v DEF MigrateValidator
<1>y. registry' = [AppendValidator(registry, val.key, val.addr, val.ingress, ~val.active)
                   EXCEPT !.ingresses = IF val.active THEN @ \cup {val.ingress} ELSE @]
  BY Zenon, <1>v DEF MigrateValidator
<1>k. PICK k : k = val.key
  BY Zenon
<1>a. PICK a : a = val.addr
  BY Zenon
<1>i. PICK ip : ip = val.ingress
  BY Zenon
<1>o. PICK off : off = ~val.active
  BY Zenon
<1>2. k \in PublicKeys /\ a \in ValidatorAddresses /\ ip \in Ingresses /\ off \in BOOLEAN
  BY <1>k, <1>a, <1>i, <1>o, <1>w
<1>3. NewKey(k) /\ NewAddress(a) /\ (~off => ip \notin registry.ingresses)
  BY Zenon, <1>k, <1>a, <1>i, <1>o, <1>x DEF Skips
<1>4. K[k] = 0 /\ (D[a] # 0 => r[D[a]].off) /\ (~off => ip \notin I)
  BY Zenon, <1>1, <1>3 DEF NewKey, NewAddress, IsActive
<1>5. registry' = [AppendValidator(registry, k, a, ip, off)
                   EXCEPT !.ingresses = IF val.active THEN @ \cup {ip} ELSE @]
  BY Zenon, <1>k, <1>a, <1>i, <1>o, <1>y
<1>6. registry' = [records |-> Append(r,
                         [key |-> k, addr |-> a, ingress |-> ip, off |-> off,
                          activeIdx |-> IF off THEN 0 ELSE Len(A) + 1]),
                   active |-> IF off THEN A ELSE Append(A, Len(r) + 1),
                   byKey |-> Updated(K, k, Len(r) + 1),
                   byAddress |-> Updated(D, a, Len(r) + 1),
                   ingresses |-> IF off THEN I ELSE I \cup {ip}]
  <2>0. registry = [records |-> r, active |-> A, byKey |-> K, byAddress |-> D,
                    ingresses |-> I]
    BY Zenon, <1>0
  <2>1. PICK x : x = AppendValidator(registry, k, a, ip, off)
    BY Zenon
  <2>2. x = [records |-> Append(r,
                [key |-> k, addr |-> a, ingress |-> ip, off |-> off,
                 activeIdx |-> IF off THEN 0 ELSE Len(A) + 1]),
             active |-> IF off THEN A ELSE Append(A, Len(r) + 1),
             byKey |-> Updated(K, k, Len(r) + 1),
             byAddress |-> Updated(D, a, Len(r) + 1), ingresses |-> I]
    BY <2>0, <2>1 DEF AppendValidator, Updated
  <2>3. registry' = [x EXCEPT !.ingresses = IF val.active THEN @ \cup {ip} ELSE @]
    BY Zenon, <1>5, <2>1
  <2>4. CASE val.active
    <3>1. ~off
      BY Zenon, <1>o, <2>4
    <3>2. registry' = [x EXCEPT !.ingresses = I \cup {ip}]
      BY <2>2, <2>3, <2>4
    <3> QED
      BY <2>2, <3>1, <3>2
  <2>5. CASE ~val.active
    <3>1. off
      BY Zenon, <1>o, <2>5
    <3>2. registry' = [x EXCEPT !.ingresses = I]
      BY <2>2, <2>3, <2>5
    <3> QED
      BY <2>2, <3>1, <3>2
  <2> QED
    BY Zenon, <2>4, <2>5
<1> QED
  BY Zenon, <1>0, <1>2, <1>4, <1>6, AppendAgrees

\* The empty registry agrees with itself.
LEMMA RegistryStarts ==
  ASSUME ValidatorInit
  PROVE  RegistryInv
<1>1. v1 \in V1Lists /\ initialized \in BOOLEAN /\ skipped \in Nat
  BY DEF ValidatorInit
<1>2. /\ registry.records = <<>> /\ registry.active = <<>> /\ registry.ingresses = {}
      /\ registry.byKey = [k \in PublicKeys |-> 0]
      /\ registry.byAddress = [a \in ValidatorAddresses |-> 0]
      /\ registry \in Registries
  BY DEF ValidatorInit, EmptyRegistry, Registries
<1>3. Agree(registry.records, registry.active, registry.byKey, registry.byAddress,
            registry.ingresses)
  BY <1>2 DEF Agree
<1> QED
  BY Zenon, <1>1, <1>2, <1>3 DEF RegistryInv

\* Every step of the registry keeps its list and its indexes in agreement.
LEMMA RegistryKept ==
  ASSUME RegistryInv, [ValidatorNext]_registryVars
  PROVE  RegistryInv'
<1> DEFINE Sound == /\ registry \in Registries
                    /\ Agree(registry.records, registry.active, registry.byKey,
                             registry.byAddress, registry.ingresses)
           Rest == v1 \in V1Lists /\ initialized \in BOOLEAN /\ skipped \in Nat
<1>0. Sound /\ Rest
  BY Zenon DEF RegistryInv
<1> SUFFICES Sound' /\ Rest'
  BY Zenon DEF RegistryInv
<1>1. ASSUME UNCHANGED registry
      PROVE  Sound'
  BY Zenon, <1>0, <1>1
<1>2. ASSUME UNCHANGED <<v1, initialized, skipped>>
      PROVE  Rest'
  BY <1>0, <1>2
<1> HIDE DEF Sound, Rest
<1>3. CASE MigrateValidator
  <2>1. Rest'
    BY <1>0, <1>3 DEF MigrateValidator, Rest
  <2>2. CASE Skips(v1[Len(v1) - Processed])
    <3>1. UNCHANGED registry
      BY Zenon, <1>3, <2>2 DEF MigrateValidator
    <3> QED
      BY Zenon, <1>1, <2>1, <3>1
  <2>3. CASE ~Skips(v1[Len(v1) - Processed])
    BY Zenon, <1>3, <2>1, <2>3, MigrateKeeps DEF Sound
  <2> QED
    BY Zenon, <2>2, <2>3
<1>4. CASE InitializeIfMigrated
  <2>1. Rest'
    BY <1>0, <1>4 DEF InitializeIfMigrated, Rest
  <2>2. UNCHANGED registry
    BY Zenon, <1>4 DEF InitializeIfMigrated
  <2> QED
    BY Zenon, <1>1, <2>1, <2>2
<1>5. ASSUME NEW k \in PublicKeys, NEW a \in ValidatorAddresses, NEW ip \in Ingresses,
             RegisterValidator(k, a, ip)
      PROVE  Sound' /\ Rest'
  <2>1. Sound'
    BY Zenon, <1>5, RegisterKeeps DEF Sound
  <2>2. UNCHANGED <<v1, initialized, skipped>>
    BY Zenon, <1>5 DEF RegisterValidator
  <2> QED
    BY Zenon, <1>2, <2>1, <2>2
<1>6. ASSUME NEW i \in ActiveRecords, DeactivateValidator(i)
      PROVE  Sound' /\ Rest'
  <2>1. Sound'
    BY Zenon, <1>6, DeactivateKeeps DEF Sound
  <2>2. UNCHANGED <<v1, initialized, skipped>>
    BY Zenon, <1>6 DEF DeactivateValidator
  <2> QED
    BY Zenon, <1>2, <2>1, <2>2
<1>7. ASSUME NEW i \in ActiveRecords, NEW k \in PublicKeys, NEW ip \in Ingresses,
             RotateValidator(i, k, ip)
      PROVE  Sound' /\ Rest'
  <2>1. Sound'
    BY Zenon, <1>7, RotateKeeps DEF Sound
  <2>2. UNCHANGED <<v1, initialized, skipped>>
    BY Zenon, <1>7 DEF RotateValidator
  <2> QED
    BY Zenon, <1>2, <2>1, <2>2
<1>8. ASSUME NEW i \in ActiveRecords, NEW ip \in Ingresses, SetIpAddresses(i, ip)
      PROVE  Sound' /\ Rest'
  <2>1. Sound'
    BY Zenon, <1>8, ReconnectKeeps DEF Sound
  <2>2. UNCHANGED <<v1, initialized, skipped>>
    BY Zenon, <1>8 DEF SetIpAddresses
  <2> QED
    BY Zenon, <1>2, <2>1, <2>2
<1>9. ASSUME NEW i \in ActiveRecords, NEW a \in ValidatorAddresses,
             TransferValidatorOwnership(i, a)
      PROVE  Sound' /\ Rest'
  <2>1. Sound'
    BY Zenon, <1>9, TransferKeeps DEF Sound
  <2>2. UNCHANGED <<v1, initialized, skipped>>
    BY Zenon, <1>9 DEF TransferValidatorOwnership
  <2> QED
    BY Zenon, <1>2, <2>1, <2>2
<1>10. CASE UNCHANGED registryVars
  <2>1. UNCHANGED registry /\ UNCHANGED <<v1, initialized, skipped>>
    BY <1>10 DEF registryVars
  <2> QED
    BY Zenon, <1>1, <1>2, <2>1
<1> QED
  BY Zenon, <1>3, <1>4, <1>5, <1>6, <1>7, <1>8, <1>9, <1>10 DEF ValidatorNext

\* Agreement of the parts is what the property says of the registry.
LEMMA AgreementIsExact ==
  ASSUME RegistryInv
  PROVE  RegistryExact
<1>0. PICK r, A, K, D, I :
        /\ r \in Seq(ValidatorRecord) /\ A \in Seq(Nat)
        /\ K \in [PublicKeys -> Nat] /\ D \in [ValidatorAddresses -> Nat]
        /\ I \in SUBSET Ingresses /\ Agree(r, A, K, D, I)
        /\ registry = [records |-> r, active |-> A, byKey |-> K, byAddress |-> D,
                       ingresses |-> I]
  BY Zenon, RegistryHasParts
<1>1. /\ registry.records = r /\ registry.active = A /\ registry.byKey = K
      /\ registry.byAddress = D /\ registry.ingresses = I
  BY <1>0
<1>2. ActiveRecords = {i \in DOMAIN r : ~r[i].off}
  BY Zenon, <1>1 DEF ActiveRecords, IsActive
<1>3. Agree(r, A, K, D, I)
  BY Zenon, <1>0
<1>4. ActiveListExact
  BY Zenon, <1>1, <1>3 DEF ActiveListExact, IsActive, Agree
<1>5. LookupsExact
  BY Zenon, <1>1, <1>2, <1>3 DEF LookupsExact, Agree
<1>6. I = {r[i].ingress : i \in ActiveRecords}
  <2>1. \A i \in ActiveRecords : r[i].ingress \in I
    BY Zenon, <1>2, <1>3 DEF Agree
  <2>2. \A ip \in I : \E i \in ActiveRecords : r[i].ingress = ip
    BY Zenon, <1>2, <1>3 DEF Agree
  <2> QED
    BY <2>1, <2>2
<1>7. \A i, j \in ActiveRecords : r[i].ingress = r[j].ingress => i = j
  BY Zenon, <1>2, <1>3 DEF Agree
<1>8. IngressesExact
  BY Zenon, <1>1, <1>6, <1>7 DEF IngressesExact
<1> QED
  BY Zenon, <1>4, <1>5, <1>8 DEF RegistryExact

\* Through migration, registration, deactivation with its swap-and-pop,
\* rotation, and changes of endpoint and owner, the validator list and its
\* indexes say the same, for any V1 registry and any number of records.
THEOREM RegistryStaysExact == ValidatorSpec => []RegistryExact
<1>1. ValidatorInit => RegistryInv
  BY RegistryStarts
<1>2. RegistryInv /\ [ValidatorNext]_registryVars => RegistryInv'
  BY RegistryKept
<1>3. RegistryInv => RegistryExact
  BY AgreementIsExact
<1> QED
  BY <1>1, <1>2, <1>3, PTL DEF ValidatorSpec
=============================================================================
