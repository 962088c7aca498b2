------------------------------- MODULE Tip20 -------------------------------
(***************************************************************************)
(* The TIP-20 token precompile of the Tempo chain: balances and supply,    *)
(* the opt-in reward pool, and the receive-policy guard that keeps what a  *)
(* receiver's policy refuses.  A call that returns an error is reverted,   *)
(* so every action is a call that succeeds.  Roles, transfer policies and  *)
(* spending limits only decide whether a call reverts, or whether an       *)
(* inbound amount goes to the guard: the actions take either outcome.      *)
(* Memos, events and virtual addresses (which name another account to      *)
(* credit) are left out, and so are allowances.                            *)
(***************************************************************************)
EXTENDS Integers, FiniteSets, FiniteSetsExt, Sequences

CONSTANTS Holders,      \* accounts
          Nobody,       \* Address::ZERO
          Token,        \* the token's own address: the reward pool
          Guard,        \* RECEIVE_POLICY_GUARD_ADDRESS
          Amounts,      \* amounts a call may name
          Caps,         \* supply caps an admin may set
          Precision,    \* ACC_PRECISION
          MaxRpt,       \* bound on global_reward_per_token
          MaxReceipts   \* bound on receipts issued

ASSUME Tip20Assumption ==
    /\ Precision \in Nat \ {0} /\ MaxRpt \in Nat /\ MaxReceipts \in Nat
    /\ Amounts \subseteq Nat /\ Caps \subseteq Nat /\ Caps # {}
    /\ {Nobody, Token, Guard} \cap Holders = {}
    /\ Cardinality({Nobody, Token, Guard}) = 3

VARIABLES tip,      \* the token's storage
          receipts, \* the guard's balances, one per receipt nonce
          paused,
          tempo     \* the active hardfork

tipVars == <<tip, receipts, paused, tempo>>

Accounts == Holders \cup {Token, Guard}

\* T12 only adds burn_at, whose effect is a burn.
Hardforks == {5, 6, 7, 8}

-----------------------------------------------------------------------------
(* Rewards. *)

\* What a holder's balance earned since its rewards were last brought up to
\* date.
Accrued(t, h) ==
    (t.balance[h] * (t.rpt - t.info[h].rpt)) \div Precision

\* The recipient update_rewards reports: none at all since T8.
RewardDelegate(t, h) ==
    IF tempo >= 8 \/ h = Nobody THEN Nobody ELSE t.info[h].recipient

\* update_rewards: what the holder earned goes to its recipient.
UpdateRewards(t, h) ==
    IF tempo >= 8 \/ h = Nobody
      THEN t
      ELSE LET to == t.info[h].recipient
               paid == IF to = Nobody THEN t.info
                       ELSE [t.info EXCEPT ![to].owed = @ + Accrued(t, h)]
           IN  [t EXCEPT !.info = [paid EXCEPT ![h].rpt = t.rpt]]

\* handle_rewards_on_transfer: both sides are brought up to date, and the
\* opted-in supply follows an amount that enters or leaves it.
HandleRewardsOnTransfer(t, from, to, amount) ==
    LET settled == UpdateRewards(UpdateRewards(t, from), to)
        leaves == RewardDelegate(t, from) # Nobody /\ RewardDelegate(t, to) = Nobody
        enters == RewardDelegate(t, from) = Nobody /\ RewardDelegate(t, to) # Nobody
    IN  [settled EXCEPT !.optedIn =
            @ + (IF enters THEN amount ELSE 0) - (IF leaves THEN amount ELSE 0)]

\* Mutant of HandleRewardsOnMint: a mint does not settle the receiver's rewards first.
HandleRewardsOnMintLate(t, to, amount) ==
    [t EXCEPT !.optedIn = @ + (IF RewardDelegate(t, to) # Nobody THEN amount ELSE 0)]

HandleRewardsOnMint(t, to, amount) ==
    [UpdateRewards(t, to) EXCEPT !.optedIn =
        @ + (IF RewardDelegate(t, to) # Nobody THEN amount ELSE 0)]

-----------------------------------------------------------------------------
(* Balances. *)

\* Mutant of TransferTo: both balances are read before either is written.
TransferToReadFirst(t, from, to, amount) ==
    LET settled == HandleRewardsOnTransfer(t, from, to, amount)
        debited == [settled EXCEPT !.balance[from] = @ - amount]
    IN  IF to = Nobody THEN debited
        ELSE [debited EXCEPT !.balance[to] = t.balance[to] + amount]

\* _transfer_to; the zero address is credited nothing.
TransferTo(t, from, to, amount) ==
    LET settled == HandleRewardsOnTransfer(t, from, to, amount)
        debited == [settled EXCEPT !.balance[from] = @ - amount]
    IN  IF to = Nobody THEN debited
        ELSE [debited EXCEPT !.balance[to] = @ + amount]

\* _mint_to.
MintTo(t, to, amount) ==
    [HandleRewardsOnMint(t, to, amount) EXCEPT
        !.supply = @ + amount, !.balance[to] = @ + amount]

\* Every burn: a transfer to the zero address, then the supply.
BurnFrom(t, from, amount) ==
    [TransferTo(t, from, Nobody, amount) EXCEPT !.supply = @ - amount]

\* store_blocked: a new receipt, under the next nonce, for an amount the
\* guard now holds.
StoreBlocked(amount) ==
    /\ Len(receipts) < MaxReceipts
    /\ receipts' = Append(receipts, amount)

\* validate_inbound_or_block: since T6 an amount the receiver's policy
\* refuses goes to the guard against a receipt, and nothing may be sent to
\* the guard itself.  The caller says what the token is when the amount is
\* delivered to the receiver, and when it is diverted to the guard.
Inbound(delivered, diverted, to, amount) ==
    \/ /\ tempo >= 6 => to # Guard
       /\ tip' = delivered
       /\ UNCHANGED receipts
    \/ /\ tempo >= 6 /\ to # Guard
       /\ tip' = diverted
       /\ StoreBlocked(amount)

\* transfer, transfer_from, system_transfer_from, with or without a memo.
Transfer(from, to, amount) ==
    /\ ~paused
    /\ amount <= tip.balance[from]
    /\ Inbound(TransferTo(tip, from, to, amount),
               TransferTo(tip, from, Guard, amount), to, amount)
    /\ UNCHANGED <<paused, tempo>>

\* mint, up to the supply cap.
Mint(to, amount) ==
    /\ ~paused
    /\ tip.supply + amount <= tip.cap
    /\ Inbound(MintTo(tip, to, amount), MintTo(tip, Guard, amount), to, amount)
    /\ UNCHANGED <<paused, tempo>>

\* Mutant of Protected: the guard's balance may be burnt like any other.
ProtectedPoolOnly == {Token}

\* check_burn_address: custody that backs outstanding claims.
Protected == {Token} \cup (IF tempo >= 6 THEN {Guard} ELSE {})

\* burn, burn_blocked and burn_at (since T12).
Burn(from, amount) ==
    /\ ~paused
    /\ from \notin Protected
    /\ amount <= tip.balance[from]
    /\ tip' = BurnFrom(tip, from, amount)
    /\ UNCHANGED <<receipts, paused, tempo>>

\* claim: the receipt is spent, and release_blocked_funds pays it out.
Claim(n, to) ==
    /\ tempo >= 6 /\ ~paused
    /\ receipts[n] > 0
    /\ receipts[n] <= tip.balance[Guard]
    /\ receipts' = [receipts EXCEPT ![n] = 0]
    /\ tip' = TransferTo(tip, Guard, to, receipts[n])
    /\ UNCHANGED <<paused, tempo>>

\* burn_blocked_receipt: the guard's balance is burnt and the receipt spent.
BurnBlockedReceipt(n) ==
    /\ tempo >= 6 /\ ~paused
    /\ receipts[n] > 0
    /\ receipts[n] <= tip.balance[Guard]
    /\ tip' = BurnFrom(tip, Guard, receipts[n])
    /\ receipts' = [receipts EXCEPT ![n] = 0]
    /\ UNCHANGED <<paused, tempo>>

-----------------------------------------------------------------------------
(* The reward calls. *)

\* distribute_reward: the amount joins the pool and is spread over the
\* supply opted in once it has left the funder.  A no-op since T7.
DistributeReward(from, amount) ==
    /\ tempo < 7 /\ ~paused
    /\ amount > 0 /\ amount <= tip.balance[from]
    /\ \E t \in {TransferTo(tip, from, Token, amount)}:
          /\ t.optedIn > 0
          /\ tip' = [t EXCEPT !.rpt = @ + (amount * Precision) \div t.optedIn]
    /\ tip'.rpt <= MaxRpt
    /\ UNCHANGED <<receipts, paused, tempo>>

\* set_reward_recipient: Nobody opts out.  A no-op since T7.
SetRewardRecipient(h, to) ==
    /\ tempo < 7 /\ ~paused
    /\ LET from == RewardDelegate(tip, h)
           t == UpdateRewards(tip, h)
           change == IF from # Nobody /\ to = Nobody THEN -t.balance[h]
                     ELSE IF from = Nobody /\ to # Nobody THEN t.balance[h]
                     ELSE 0
       IN  tip' = [t EXCEPT !.optedIn = @ + change, !.info[h].recipient = to]
    /\ UNCHANGED <<receipts, paused, tempo>>

\* Mutant of ClaimRewards: a claimed reward does not join the opted-in supply.
ClaimRewardsUncounted(h) ==
    /\ ~paused
    /\ LET t == UpdateRewards(tip, h)
           paid == Min({t.info[h].owed, t.balance[Token]})
       IN  tip' = [t EXCEPT !.info[h].owed = @ - paid,
                            !.balance[Token] = @ - paid,
                            !.balance[h] = @ + paid]
    /\ UNCHANGED <<receipts, paused, tempo>>

\* claim_rewards: what the pool can pay of what is owed.
ClaimRewards(h) ==
    /\ ~paused
    /\ LET t == UpdateRewards(tip, h)
           paid == Min({t.info[h].owed, t.balance[Token]})
       IN  tip' = [t EXCEPT
                      !.info[h].owed = @ - paid,
                      !.balance[Token] = @ - paid,
                      !.balance[h] = @ + paid,
                      !.optedIn = @ + (IF RewardDelegate(tip, h) # Nobody THEN paid ELSE 0)]
    /\ UNCHANGED <<receipts, paused, tempo>>

\* Mutant of GetPendingRewards: rewards that go to somebody else count as the holder's own.
GetPendingRewardsOfBalance(h) ==
    tip.info[h].owed
      + (IF tempo < 8 /\ tip.info[h].recipient # Nobody THEN Accrued(tip, h) ELSE 0)

\* get_pending_rewards: what an account is told it could claim.
GetPendingRewards(h) ==
    tip.info[h].owed
      + (IF tempo < 8 /\ tip.info[h].recipient = h THEN Accrued(tip, h) ELSE 0)

-----------------------------------------------------------------------------
(* Administration. *)

SetSupplyCap(c) ==
    /\ c >= tip.supply
    /\ tip' = [tip EXCEPT !.cap = c]
    /\ UNCHANGED <<receipts, paused, tempo>>

\* pause and unpause.
SetPaused ==
    /\ paused' = ~paused
    /\ UNCHANGED <<tip, receipts, tempo>>

\* A hardfork activates between two calls.
NextFork ==
    /\ \E f \in Hardforks: f > tempo /\ tempo' = f
    /\ UNCHANGED <<tip, receipts, paused>>

Tip20Init ==
    /\ tip = [balance |-> [a \in Accounts |-> 0],
              supply |-> 0, cap |-> Max(Caps), optedIn |-> 0, rpt |-> 0,
              info |-> [a \in Accounts |-> [recipient |-> Nobody, rpt |-> 0, owed |-> 0]]]
    /\ receipts = << >>
    /\ paused = FALSE
    /\ tempo = 5

Tip20Next ==
    \/ \E a \in Holders, b \in Holders \cup {Guard}, n \in Amounts: Transfer(a, b, n)
    \/ \E a \in Holders \cup {Guard}, n \in Amounts: Mint(a, n)
    \/ \E a \in Holders \cup {Guard}, n \in Amounts: Burn(a, n)
    \/ \E n \in DOMAIN receipts, a \in Holders: Claim(n, a)
    \/ \E n \in DOMAIN receipts: BurnBlockedReceipt(n)
    \/ \E a \in Holders, n \in Amounts: DistributeReward(a, n)
    \/ \E a \in Holders, b \in Holders \cup {Nobody}: SetRewardRecipient(a, b)
    \/ \E a \in Holders: ClaimRewards(a)
    \/ \E c \in Caps: SetSupplyCap(c)
    \/ SetPaused
    \/ NextFork

-----------------------------------------------------------------------------
(* What must hold. *)

Supply(t) == MapThenSumSet(LAMBDA a: t.balance[a], Accounts)

\* The total supply the token reports is the sum of all balances, the reward
\* pool's and the guard's included, and never above the cap: through mints,
\* burns, refused transfers, receipts, reward payouts and transfers to
\* oneself.
SupplyExact ==
    /\ tip.supply = Supply(tip)
    /\ tip.supply <= tip.cap

\* While rewards are kept (before T8), the opted-in supply, the divisor of
\* every distribution, is exactly what the holders with a recipient own.
OptedInExact ==
    tempo < 8 =>
      tip.optedIn = MapThenSumSet(LAMBDA a: IF tip.info[a].recipient = Nobody
                                              THEN 0 ELSE tip.balance[a], Accounts)

\* The pool holds what all holders are owed together with what they have
\* earned and not settled, so claim_rewards never has to pay less than it
\* owes: rounding, changes of recipient and balances that move between two
\* distributions never promise more than was distributed.
RewardsCovered ==
    tip.balance[Token] >=
      MapThenSumSet(LAMBDA a: tip.info[a].owed
                       + (IF tempo < 8 /\ tip.info[a].recipient # Nobody
                            THEN Accrued(tip, a) ELSE 0), Accounts)

\* Every outstanding receipt can be paid: the guard's balance covers them all.
ReceiptsCovered ==
    tip.balance[Guard] >= MapThenSumSet(LAMBDA n: receipts[n], DOMAIN receipts)

\* getPendingRewards tells an account what claim_rewards would pay it now.
PendingMatchesClaim ==
    \A h \in Holders:
      LET t == UpdateRewards(tip, h)
      IN  GetPendingRewards(h) = Min({t.info[h].owed, t.balance[Token]})

\* Every unit of the token is counted once, in balances, rewards and receipts
\* (update_rewards, _transfer_to, store_blocked).
TokenSound ==
    /\ SupplyExact /\ OptedInExact /\ RewardsCovered
    /\ ReceiptsCovered /\ PendingMatchesClaim
=============================================================================
