--------------------------- MODULE ExpiringNonces ---------------------------
(***************************************************************************)
(* Tempo's expiring nonces: a transaction with the expiring nonce key has  *)
(* no nonce of its own; its replay hash is remembered until its            *)
(* valid_before has passed.  The hashes sit in a circular buffer that      *)
(* evicts expired ones as its pointer advances, and whose capacity and     *)
(* expiry window grow at T11.                                              *)
(***************************************************************************)
EXTENDS Integers, FiniteSets

CONSTANTS Hashes,        \* transactions, by replay hash
          ValidBefore,   \* the valid_before each hash commits to
          SmallRing, LargeRing,      \* expiring_nonce_set_capacity
          ShortWindow, LongWindow,   \* expiring_nonce_max_expiry_secs
          NoHash,        \* B256::ZERO, an empty ring slot
          MaxBlockTime   \* bound on the block blockTime

ASSUME NonceAssumption ==
    /\ ValidBefore \in [Hashes -> Nat]
    /\ SmallRing \in Nat \ {0} /\ LargeRing \in Nat /\ SmallRing <= LargeRing
    /\ ShortWindow \in Nat /\ LongWindow \in Nat
    /\ NoHash \notin Hashes
    /\ MaxBlockTime \in Nat

VARIABLES seen,      \* expiring_nonce_seen: the expiry recorded, or 0
          ring,      \* expiring_nonce_ring
          ptr,       \* expiring_nonce_ring_ptr
          blockTime, \* the block timestamp
          grown,     \* whether T11 is active
          executed   \* how often each transaction has been let through

nonceVars == <<seen, ring, ptr, blockTime, grown, executed>>

Capacity == IF grown THEN LargeRing ELSE SmallRing
MaxExpiry == IF grown THEN LongWindow ELSE ShortWindow

NonceInit ==
    /\ seen = [h \in Hashes |-> 0]
    /\ ring = [i \in 0..LargeRing - 1 |-> NoHash]
    /\ ptr = 0 /\ blockTime = 0 /\ grown \in BOOLEAN
    /\ executed = [h \in Hashes |-> 0]

Live(h) == seen[h] # 0 /\ seen[h] > blockTime

\* Mutant: an entry is evicted in the second it is last valid.
EvictEarly(old) == seen[old] > blockTime + 1

\* An entry that still protects its transaction blocks the ring.
Evict(old) == Live(old)

\* The expired entry leaves the seen set, then the new one is recorded.
Remember(old, h) ==
    [g \in Hashes |-> IF g = h THEN ValidBefore[h]
                      ELSE IF g = old THEN 0 ELSE seen[g]]

CheckAndMarkExpiringNonce(h) ==
    /\ ValidBefore[h] > blockTime /\ ValidBefore[h] <= blockTime + MaxExpiry
    /\ ~Live(h)
    /\ ring[ptr] # NoHash => ~Evict(ring[ptr])
    /\ seen' = Remember(ring[ptr], h)
    /\ ring' = [ring EXCEPT ![ptr] = h]
    /\ ptr' = IF ptr + 1 >= Capacity THEN 0 ELSE ptr + 1
    /\ executed' = [executed EXCEPT ![h] = @ + 1]
    /\ UNCHANGED <<blockTime, grown>>

\* A later block, perhaps the first under T11.
NextBlock ==
    /\ blockTime < MaxBlockTime
    /\ blockTime' = blockTime + 1
    /\ grown' \in {g \in BOOLEAN : grown => g}
    /\ UNCHANGED <<seen, ring, ptr, executed>>

NonceNext ==
    \/ \E h \in Hashes : CheckAndMarkExpiringNonce(h)
    \/ NextBlock

NonceSpec == NonceInit /\ [][NonceNext]_nonceVars

----------------------------------------------------------------------------
(* Properties *)

NonceTypeOK ==
    /\ seen \in [Hashes -> Nat]
    /\ ring \in [0..LargeRing - 1 -> Hashes \cup {NoHash}]
    /\ ptr \in 0..LargeRing - 1
    /\ blockTime \in Nat /\ grown \in BOOLEAN
    /\ executed \in [Hashes -> Nat]

\* No transaction is let through twice, whatever entries the ring evicts
\* between the two attempts and whenever the ring grows.
NoReplay == \A h \in Hashes : executed[h] <= 1

\* Every hash in the seen set sits in the ring, so the set holds no more
\* entries than the ring has slots, and each will be evicted in turn.
SeenInRing ==
    \A h \in Hashes : seen[h] # 0 => \E i \in DOMAIN ring : ring[i] = h

\* What makes NoReplay inductive: a transaction that was let through is in
\* the seen set with its own expiry, or can no longer pass the expiry check.
Remembered ==
    \A h \in Hashes :
        /\ executed[h] <= 1
        /\ executed[h] = 1 => seen[h] = ValidBefore[h] \/ ValidBefore[h] <= blockTime
        /\ seen[h] # 0 => seen[h] = ValidBefore[h]
=============================================================================
