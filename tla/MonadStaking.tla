---------------------------- MODULE MonadStaking -----------------------------
(***************************************************************************)
(* The staking precompile of Monad (monad/precompile/staking), for one      *)
(* validator.  A call that returns an error is reverted, so every action    *)
(* is a call that succeeds; `ok` records whether the contract's own checks  *)
(* (SolvencyError, CompoundLogicError, underflow) let a computation pass.   *)
(* The epoch is driven by the node's system calls, which are not in this    *)
(* repository: Snapshot and EpochChange model what the contract relies on.  *)
(* Signatures, the commission and the amounts' upper limits are left out.   *)
(***************************************************************************)
EXTENDS Integers, FiniteSets, FiniteSetsExt

CONSTANTS Delegators,
          Auth,         \* the validator's own delegator (auth_address)
          Stakes,       \* amounts delegated and undelegated
          RewardSizes,  \* amounts of external rewards
          WithdrawalIds,
          Dust,         \* DUST_THRESHOLD
          MinAuth,      \* min_auth_address_stake
          ActiveStake,  \* active_validator_stake
          Bias,         \* UNIT_BIAS
          MaxEpoch,     \* bound on the epoch
          MaxBalance,   \* bound on the contract's balance
          MaxAcc,       \* bound on the validator's accumulator
          Sentinel, Empty, NoRequest

ASSUME StakingAssumption ==
    /\ Auth \in Delegators /\ IsFiniteSet(Delegators)
    /\ {Sentinel, Empty} \cap Delegators = {} /\ Sentinel # Empty
    /\ Stakes \subseteq Nat \ {0} /\ RewardSizes \subseteq Nat \ {0}
    /\ {Dust, MinAuth, ActiveStake, Bias, MaxEpoch, MaxBalance, MaxAcc} \subseteq Nat \ {0}

VARIABLES staking,  \* the storage of the contract
          funds     \* the contract's balance

stakingVars == <<staking, funds>>

Flags == {"stake_too_low", "withdrawn"}
NoDelegator == [stake |-> 0, acc |-> 0, rewards |-> 0, delta |-> 0, next |-> 0,
                deltaEpoch |-> 0, nextEpoch |-> 0]
NoAccumulator == [value |-> 0, refs |-> 0]
NoNode == [prev |-> Empty, next |-> Empty]

ActivationEpoch(s) == s.epoch + IF s.delay THEN 2 ELSE 1

IsEpochActive(s, epoch) == epoch # 0 /\ epoch <= s.epoch

CalculateRewards(stake, current, last) == ((current - last) * stake) \div Bias

IncrementRefcount(s) ==
    [s EXCEPT !.accs[ActivationEpoch(s)] =
        [value |-> s.acc, refs |-> @.refs + 1]]

\* Mutant of DecrementRefcount: the first reader clears the accumulator.
DecrementRefcountClears(s, epoch) ==
    [s EXCEPT !.accs[epoch] = NoAccumulator]

DecrementRefcount(s, epoch) ==
    [s EXCEPT !.accs[epoch] =
        IF @.refs <= 1 THEN NoAccumulator ELSE [@ EXCEPT !.refs = @ - 1]]

NextEpochStake(del) == del.stake + del.delta + del.next

PromoteDelta(s, d) ==
    [s EXCEPT !.del[d] =
        [@ EXCEPT !.delta = s.del[d].next, !.next = 0,
                  !.deltaEpoch = s.del[d].nextEpoch, !.nextEpoch = 0]]

\* Mutant of Collect: the rewards stay unclaimed as well.
CollectTwice(s, d, rewards) ==
    [s EXCEPT !.ok = @ /\ rewards >= 0 /\ s.unclaimed >= rewards,
              !.del[d].rewards = @ + rewards]

(* reward_invariant and add_delegator_rewards: what a delegator earned     *)
(* moves from the validator's unclaimed rewards to its own.                 *)
Collect(s, d, rewards) ==
    [s EXCEPT !.ok = @ /\ rewards >= 0 /\ s.unclaimed >= rewards,
              !.unclaimed = @ - rewards,
              !.del[d].rewards = @ + rewards]

ApplyCompound(s, d) ==
    LET del == s.del[d]
        epochAcc == s.accs[del.deltaEpoch].value
        compounded == [DecrementRefcount(s, del.deltaEpoch) EXCEPT
                         !.ok = @ /\ epochAcc >= del.acc,
                         !.del[d].acc = epochAcc,
                         !.del[d].stake = @ + del.delta]
    IN  Collect(PromoteDelta(compounded, d), d,
                CalculateRewards(del.stake, epochAcc, del.acc))

PullUpToDate(s, d) ==
    LET early == s.del[d].deltaEpoch = 0 /\ s.del[d].nextEpoch <= s.epoch + 1
        promoted == IF early THEN PromoteDelta(s, d) ELSE s
        compounds == IsEpochActive(s, promoted.del[d].deltaEpoch)
        boundary == IsEpochActive(s, promoted.del[d].nextEpoch)
        first == IF boundary
                 THEN ApplyCompound([promoted EXCEPT !.ok = @ /\ compounds], d)
                 ELSE promoted
        second == IF compounds THEN ApplyCompound(first, d) ELSE first
        del == second.del[d]
    IN  IF del.stake = 0 THEN second
        ELSE Collect([second EXCEPT !.ok = @ /\ s.acc >= del.acc,
                                    !.del[d].acc = s.acc],
                     d, CalculateRewards(del.stake, s.acc, del.acc))

-----------------------------------------------------------------------------
(* The list of the validator's delegators, a doubly linked list through    *)
(* nodes that start at the sentinel.                                        *)
ListInsert(nodes, d) ==
    LET second == nodes[Sentinel].next
    IN  IF nodes[d].prev # Empty THEN nodes
        ELSE [n \in DOMAIN nodes |->
                CASE n = d -> [prev |-> Sentinel, next |-> second]
                  [] n = Sentinel -> [nodes[n] EXCEPT !.next = d]
                  [] n = second -> [nodes[n] EXCEPT !.prev = d]
                  [] OTHER -> nodes[n]]

\* Mutant of ListRemove: the back link of the next node is not updated.
ListRemoveForward(nodes, d) ==
    LET before == nodes[d].prev
        after == nodes[d].next
    IN  IF before = Empty THEN nodes
        ELSE [n \in DOMAIN nodes |->
                CASE n = d -> NoNode
                  [] n = before -> [nodes[n] EXCEPT !.next = after]
                  [] OTHER -> nodes[n]]

ListRemove(nodes, d) ==
    LET before == nodes[d].prev
        after == nodes[d].next
    IN  IF before = Empty THEN nodes
        ELSE [n \in DOMAIN nodes |->
                CASE n = d -> NoNode
                  [] n = before -> [nodes[n] EXCEPT !.next = after]
                  [] n = after -> [nodes[n] EXCEPT !.prev = before]
                  [] OTHER -> nodes[n]]

-----------------------------------------------------------------------------
Pledge(s, d, amount) ==
    LET del == s.del[d]
    IN  IF s.delay
        THEN [s EXCEPT !.del[d].next = @ + amount,
                       !.del[d].nextEpoch = ActivationEpoch(s)]
        ELSE [s EXCEPT !.del[d].delta = @ + amount,
                       !.del[d].deltaEpoch = ActivationEpoch(s)]

DelegateTo(s, d, amount) ==
    LET pulled == PullUpToDate(s, d)
        counted == IF s.delay THEN pulled.del[d].nextEpoch = 0
                   ELSE pulled.del[d].deltaEpoch = 0
        pledged == Pledge(pulled, d, amount)
        referenced == IF counted THEN IncrementRefcount(pledged) ELSE pledged
        stake == s.stake + amount
        authBack == d = Auth /\ NextEpochStake(pledged.del[d]) >= MinAuth
        flags == s.flags \ ((IF stake >= ActiveStake THEN {"stake_too_low"} ELSE {})
                            \cup (IF authBack THEN {"withdrawn"} ELSE {}))
    IN  [referenced EXCEPT !.stake = stake,
                           !.flags = flags,
                           !.inValset = @ \/ flags = {},
                           !.nodes = ListInsert(@, d)]

AddValidator(amount) ==
    LET created == [staking EXCEPT !.exists = TRUE, !.flags = {"stake_too_low"}]
    IN  /\ ~staking.exists
        /\ amount >= MinAuth
        /\ staking' = DelegateTo(created, Auth, amount)
        /\ staking'.ok
        /\ funds' = funds + amount
        /\ funds' <= MaxBalance

Delegate(d, amount) ==
    /\ staking.exists
    /\ amount >= Dust
    /\ staking' = DelegateTo(staking, d, amount)
    /\ staking'.ok
    /\ funds' = funds + amount
    /\ funds' <= MaxBalance

Undelegate(d, wanted, id) ==
    LET pulled == PullUpToDate(staking, d)
        rest == pulled.del[d].stake - wanted
        dust == rest < Dust
        amount == IF dust THEN wanted + rest ELSE wanted
        del == [pulled.del[d] EXCEPT !.stake = IF dust THEN 0 ELSE rest]
        stake == pulled.stake - amount
        flags == pulled.flags
                 \cup (IF d = Auth /\ NextEpochStake(del) < MinAuth
                       THEN {"withdrawn"} ELSE {})
                 \cup (IF stake < ActiveStake THEN {"stake_too_low"} ELSE {})
        left == NextEpochStake(del) = 0
    IN  /\ staking.exists
        /\ staking.requests[d][id] = NoRequest
        /\ pulled.ok
        /\ rest >= 0
        /\ staking' =
             [IncrementRefcount(pulled) EXCEPT
                !.stake = stake,
                !.flags = flags,
                !.requests[d][id] = [amount |-> amount, acc |-> del.acc,
                                     epoch |-> ActivationEpoch(pulled)],
                !.del[d] = [del EXCEPT !.acc = IF del.stake = 0 THEN 0 ELSE @],
                !.nodes = IF left THEN ListRemove(@, d) ELSE @]
        /\ UNCHANGED funds

Compound(d) ==
    LET pulled == PullUpToDate(staking, d)
        rewards == pulled.del[d].rewards
        emptied == [pulled EXCEPT !.del[d].rewards = 0]
    IN  /\ pulled.ok
        /\ rewards # 0 => staking.exists /\ rewards >= Dust
        /\ staking' = IF rewards = 0 THEN emptied ELSE DelegateTo(emptied, d, rewards)
        /\ staking'.ok
        /\ UNCHANGED funds

RequestRewards(s, d, id) ==
    LET request == s.requests[d][id]
    IN  CalculateRewards(request.amount, s.accs[request.epoch].value, request.acc)

Ready(s, d, id) ==
    s.requests[d][id] # NoRequest /\ IsEpochActive(s, s.requests[d][id].epoch + 1)

(* The checks of `withdraw` on a request that is ready. *)
Payable(s, balance, d, id) ==
    LET request == s.requests[d][id]
    IN  /\ s.accs[request.epoch].value >= request.acc
        /\ s.unclaimed >= RequestRewards(s, d, id)
        /\ balance >= request.amount + RequestRewards(s, d, id)

WithdrawRequest(d, id) ==
    LET request == staking.requests[d][id]
        rewards == RequestRewards(staking, d, id)
    IN  /\ Ready(staking, d, id)
        /\ Payable(staking, funds, d, id)
        /\ staking' = [DecrementRefcount(staking, request.epoch) EXCEPT
                         !.requests[d][id] = NoRequest,
                         !.unclaimed = @ - rewards]
        /\ funds' = funds - request.amount - rewards

ClaimDelegatorRewards(d) ==
    LET pulled == PullUpToDate(staking, d)
        rewards == pulled.del[d].rewards
    IN  /\ pulled.ok
        /\ funds >= rewards
        /\ staking' = [pulled EXCEPT !.del[d].rewards = 0]
        /\ funds' = funds - rewards

\* Mutant of ThisEpochStake: the snapshot is never used.
ThisEpochStakeConsensus(s) == s.consensus

(* A reward is spread over the stake that is active in this epoch. *)
ThisEpochStake(s) == IF s.delay THEN s.snapshot ELSE s.consensus

ApplyReward(s, amount) ==
    [s EXCEPT !.acc = @ + (amount * Bias) \div ThisEpochStake(s),
              !.unclaimed = @ + amount]

ExternalReward(amount) ==
    /\ staking.exists
    /\ ThisEpochStake(staking) # 0
    /\ staking' = ApplyReward(staking, amount)
    /\ funds' = funds + amount
    /\ funds' <= MaxBalance
    /\ staking'.acc <= MaxAcc

-----------------------------------------------------------------------------
(* The node's system calls.  At the boundary block the stake of a validator *)
(* without flags becomes its stake of the next epoch, the current one is    *)
(* kept as the snapshot, and the delay period begins.  At the change the    *)
(* accumulators that wait for the new epoch take the value they start from. *)
Snapshot ==
    /\ ~staking.delay
    /\ staking.epoch < MaxEpoch
    /\ staking' = [staking EXCEPT
                     !.delay = TRUE,
                     !.snapshot = staking.consensus,
                     !.consensus = IF staking.inValset /\ staking.flags = {}
                                   THEN staking.stake ELSE 0,
                     !.inValset = @ /\ staking.flags = {}]
    /\ UNCHANGED funds

EpochChange ==
    /\ staking.delay
    /\ staking' = [staking EXCEPT
                     !.delay = FALSE,
                     !.epoch = @ + 1,
                     !.accs[staking.epoch + 1] =
                         IF @.refs = 0 THEN @ ELSE [@ EXCEPT !.value = staking.acc]]
    /\ UNCHANGED funds

StakingInit ==
    /\ staking = [ok |-> TRUE, epoch |-> 1, delay |-> FALSE,
                  exists |-> FALSE, flags |-> {}, inValset |-> FALSE,
                  stake |-> 0, acc |-> 0, unclaimed |-> 0,
                  consensus |-> 0, snapshot |-> 0,
                  accs |-> [e \in 0 .. MaxEpoch + 2 |-> NoAccumulator],
                  del |-> [d \in Delegators |-> NoDelegator],
                  requests |-> [d \in Delegators |->
                                  [i \in WithdrawalIds |-> NoRequest]],
                  nodes |-> [n \in Delegators \cup {Sentinel} |-> NoNode]]
    /\ funds = 0

StakingNext ==
    \/ \E amount \in Stakes : AddValidator(amount)
    \/ \E d \in Delegators, amount \in Stakes :
         \/ Delegate(d, amount)
         \/ \E id \in WithdrawalIds : Undelegate(d, amount, id)
    \/ \E d \in Delegators :
         \/ Compound(d)
         \/ ClaimDelegatorRewards(d)
         \/ \E id \in WithdrawalIds : WithdrawRequest(d, id)
    \/ \E amount \in RewardSizes : ExternalReward(amount)
    \/ Snapshot
    \/ EpochChange

-----------------------------------------------------------------------------
Requested == {r \in Delegators \X WithdrawalIds :
                staking.requests[r[1]][r[2]] # NoRequest}

Total(Value(_)) == MapThenSumSet(Value, Delegators)

(* The contract's balance is exactly what it owes: the stake of the        *)
(* validator, the amounts being withdrawn, the rewards credited to          *)
(* delegators and those not yet credited; and the validator's stake is the  *)
(* sum of its delegators' stakes, active or to be.                          *)
FundsAccounted ==
    /\ staking.stake = Total(LAMBDA d : NextEpochStake(staking.del[d]))
    /\ funds = staking.stake + staking.unclaimed
                 + Total(LAMBDA d : staking.del[d].rewards)
                 + MapThenSumSet(LAMBDA r : staking.requests[r[1]][r[2]].amount,
                                 Requested)

(* An accumulator kept for an epoch is referenced exactly by those that    *)
(* will read it: the delegations that become active in that epoch and the   *)
(* withdrawals requested for it.  One too few and a reader finds 0 where    *)
(* the epoch's value was; one too many and the slot is never freed.         *)
AccumulatorsCounted ==
    \A epoch \in DOMAIN staking.accs \ {0} :
        staking.accs[epoch].refs =
            Cardinality({d \in Delegators : staking.del[d].deltaEpoch = epoch})
            + Cardinality({d \in Delegators : staking.del[d].nextEpoch = epoch})
            + Cardinality({r \in Requested :
                             staking.requests[r[1]][r[2]].epoch = epoch})

(* No delegator is ever locked out by the contract's own consistency       *)
(* checks: bringing it up to date succeeds in every state, and so does the  *)
(* payment of every withdrawal that is ready.                               *)
NeverLockedOut ==
    /\ \A d \in Delegators : PullUpToDate(staking, d).ok
    /\ \A r \in Requested :
         Ready(staking, r[1], r[2]) => Payable(staking, funds, r[1], r[2])

(* The validator's list holds exactly the delegators that have stake with  *)
(* it, now or from a coming epoch on, and its links agree in both           *)
(* directions.                                                              *)
DelegatorsListed ==
    LET nodes == staking.nodes
        listed == {d \in Delegators : nodes[d].prev # Empty}
    IN  /\ listed = {d \in Delegators : NextEpochStake(staking.del[d]) > 0}
        /\ \A n \in listed \cup {Sentinel}, m \in Delegators :
             nodes[n].next = m <=> m \in listed /\ nodes[m].prev = n

\* Stakes, rewards and withdrawals that take effect epochs later are accounted
\* for, listed and can be collected (pull_delegator_up_to_date, withdraw).
StakingSound ==
    FundsAccounted /\ AccumulatorsCounted /\ NeverLockedOut /\ DelegatorsListed
=============================================================================
