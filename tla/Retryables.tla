---------------------------- MODULE Retryables ----------------------------
(***************************************************************************)
(* Arbitrum's retryable tickets.  A submission from L1 mints a deposit,    *)
(* pays a submission fee, puts the call's value in the ticket's escrow and *)
(* may schedule a first attempt; anyone may schedule another one, prolong  *)
(* the ticket, and its beneficiary may cancel it.  An attempt takes the    *)
(* value out of escrow, runs, and settles: refunds of fees are limited to  *)
(* what the deposit paid for.  Attempts run first in, first out after the  *)
(* transaction that scheduled them, by when the ticket may be gone; an     *)
(* attempt may itself schedule, prolong and cancel other tickets, and if   *)
(* it fails that is undone and the attempts behind it are dropped.         *)
(*                                                                         *)
(* Amounts are in units of the base fee, so a unit of gas costs one; no    *)
(* infrastructure fee account is configured.                               *)
(***************************************************************************)
EXTENDS Integers, FiniteSets, FiniteSetsExt, Sequences

CONSTANTS Tickets,
          Sender,          \* submit.from
          RefundTo,        \* submit.fee_refund_addr
          Heir,            \* submit.beneficiary
          Callee,          \* submit.retry_to
          Network,         \* the network fee account
          Donor,           \* who calls redeem
          CallValue,       \* submit.retry_value
          SubmissionFee,   \* the fee for the ticket's calldata
          DepositSizes, MaxFees, GasLimits, FeeCaps,   \* of a submission
          MinGas,          \* MIN_TRANSACTION_GAS
          Lifetime,        \* RETRYABLE_LIFETIME_SECONDS
          Savings, DonorSavings,   \* what Sender and Donor own at first
          Unlimited,       \* the max_refund of a redeem, U256::MAX
          MaxScheduled,    \* bound on attempts waiting to run
          MaxWindows,      \* bound on the keepalives of a ticket
          MaxSeconds       \* bound on the timestamp

Purses == {Sender, RefundTo, Heir, Callee, Network, Donor} \cup Tickets

ASSUME RetryableAssumption ==
    /\ Cardinality(Purses) = 6 + Cardinality(Tickets)
    /\ \A S \in {DepositSizes, MaxFees, GasLimits, FeeCaps} : S \subseteq Nat
    /\ {CallValue, SubmissionFee, MinGas, Savings, DonorSavings, Unlimited,
        MaxScheduled, MaxWindows, MaxSeconds} \subseteq Nat
    /\ Lifetime \in Nat \ {0}

VARIABLES purse,      \* balances; a ticket stands for its escrow address
          ticket,     \* the stored record: timeout 0 when there is none
          logged,     \* RedeemScheduled events of the current transaction
          queue,      \* scheduled attempts, first in first out
          current,    \* the attempt being executed, and the state to return to
          seconds,
          arbos60,    \* ArbOS 60 or later
          deposit,    \* ghost: the deposit of each submission, -1 before it
          refunded,   \* ghost: what RefundTo got back for each ticket
          promised    \* ghost: the timeout last announced for each ticket

retryVars == <<purse, ticket, logged, queue, current, seconds, arbos60, deposit,
               refunded, promised>>

\* The number of tries only tells attempts apart in their hash.
NoTicket == [timeout |-> 0, windows |-> 0]
NoAttempt == [ticket |-> Network]

TakeFunds(pool, amount) == Min({pool, amount})

CanPay(f, from, amount) == f[from] >= amount

\* try_transfer: all or nothing.
TryTransfer(f, from, to, amount) ==
    IF CanPay(f, from, amount)
    THEN [a \in Purses |-> f[a] + (IF a = to THEN amount ELSE 0)
                                - (IF a = from THEN amount ELSE 0)]
    ELSE f

Credited(f, to, amount) == [f EXCEPT ![to] = @ + amount]

----------------------------------------------------------------------------
(* Submission *)

\* submit_retryable, in pieces: each operator is the rest of the function
\* after some of its early returns, and yields the balances it leaves, whether
\* it stored the ticket and the attempts it scheduled.
Outcome(f, created, attempts) ==
    [purse |-> f, created |-> created, attempts |-> attempts]

\* Mutant: the attempt's refund is what was paid, whoever paid it.
PayGasWhole(t, f, avail, fee, gas, cap) ==
    LET maxCost == cap * gas
        withheld == TakeFunds(avail, gas)
        over == TakeFunds(avail - withheld, (cap - 1) * gas)
        paid == TryTransfer(f, Sender, Network, gas)
    IN  IF f[Sender] < maxCost \/ gas < MinGas \/ cap < 1
        THEN Outcome(TryTransfer(f, Sender, RefundTo, TakeFunds(avail, maxCost)),
                     TRUE, <<>>)
        ELSE Outcome(TryTransfer(paid, Sender, RefundTo, over), TRUE,
                     <<[ticket |-> t, gas |-> gas, to |-> RefundTo,
                        maxRefund |-> SubmissionFee + gas,
                        feeRefund |-> SubmissionFee]>>)

PayGas(t, f, avail, fee, gas, cap) ==
    LET maxCost == cap * gas
        withheld == TakeFunds(avail, gas)
        over == TakeFunds(avail - withheld, (cap - 1) * gas)
        paid == TryTransfer(f, Sender, Network, gas)
    IN  IF f[Sender] < maxCost \/ gas < MinGas \/ cap < 1
        THEN Outcome(TryTransfer(f, Sender, RefundTo, TakeFunds(avail, maxCost)),
                     TRUE, <<>>)
        ELSE Outcome(TryTransfer(paid, Sender, RefundTo, over), TRUE,
                     <<[ticket |-> t, gas |-> gas, to |-> RefundTo,
                        maxRefund |-> avail - over + fee,
                        feeRefund |-> SubmissionFee]>>)

PutInEscrow(t, f, avail, fee, maxFee, gas, cap) ==
    LET excess == TakeFunds(avail, maxFee - SubmissionFee)
        f1 == TryTransfer(f, Sender, RefundTo, excess)
        undone == TryTransfer(TryTransfer(f1, Network, Sender, SubmissionFee),
                              Sender, RefundTo, fee)
    IN  IF ~CanPay(f1, Sender, CallValue)
        THEN Outcome(undone, FALSE, <<>>)
        ELSE PayGas(t, TryTransfer(f1, Sender, t, CallValue), avail - excess,
                    fee, gas, cap)

SubmitRetryable(t, value, maxFee, gas, cap) ==
    LET f0 == Credited(purse, Sender, value)
        avail == value - TakeFunds(value, CallValue)
        fee == TakeFunds(avail, SubmissionFee)
    IN  IF \/ f0[Sender] < maxFee
           \/ maxFee < SubmissionFee
           \/ ~CanPay(f0, Sender, SubmissionFee)
        THEN Outcome(f0, FALSE, <<>>)
        ELSE PutInEscrow(t, TryTransfer(f0, Sender, Network, SubmissionFee),
                    avail - fee, fee, maxFee, gas, cap)

\* What RefundTo received is what its balance gained.
Refunds(t) ==
    refunded' = [refunded EXCEPT ![t] = @ + purse'[RefundTo] - purse[RefundTo]]

BetweenTransactions == logged = <<>> /\ queue = <<>> /\ current = NoAttempt

Submit(t, value, maxFee, gas, cap) ==
    /\ BetweenTransactions
    /\ deposit[t] = -1
    /\ \E o \in {SubmitRetryable(t, value, maxFee, gas, cap)} :
          /\ purse' = o.purse
          /\ queue' = o.attempts
          /\ ticket' = IF o.created
                       THEN [ticket EXCEPT ![t] =
                               [timeout |-> seconds + Lifetime, windows |-> 0]]
                       ELSE ticket
          /\ promised' = IF o.created
                         THEN [promised EXCEPT ![t] = seconds + Lifetime]
                         ELSE promised
    /\ Refunds(t)
    /\ deposit' = [deposit EXCEPT ![t] = value]
    /\ UNCHANGED <<logged, current, seconds, arbos60>>

----------------------------------------------------------------------------
(* The precompile, called by a transaction of Donor or by an attempt *)

\* Mutant: the windows that keepalives added are not counted.
EffectiveTimeoutFirst(t) == ticket[t].timeout

\* From ArbOS 60 on the windows of keepalives count at once.
EffectiveTimeout(t) ==
    ticket[t].timeout + (IF arbos60 THEN ticket[t].windows * Lifetime ELSE 0)

IsLive(t) == ticket[t].timeout # 0 /\ EffectiveTimeout(t) >= seconds

InTransaction == queue = <<>> \/ current # NoAttempt

Keepalive(t) ==
    LET timeout == ticket[t].timeout + ticket[t].windows * Lifetime
    IN  /\ InTransaction /\ IsLive(t)
        /\ timeout <= seconds + Lifetime
        /\ ticket[t].windows < MaxWindows
        /\ ticket' = [ticket EXCEPT ![t].windows = @ + 1]
        /\ promised' = [promised EXCEPT ![t] =
                          IF arbos60 THEN timeout + Lifetime ELSE @]
        /\ UNCHANGED <<purse, logged, queue, current, seconds, arbos60, deposit,
                       refunded>>

\* The donated gas is burnt in the calling transaction: Donor pays for it, or
\* it comes out of what the current attempt has left.
Redeem(t, gas) ==
    /\ InTransaction /\ current.ticket # t /\ IsLive(t)
    /\ gas >= MinGas
    /\ Len(logged) + Len(queue) < MaxScheduled
    /\ \/ /\ current = NoAttempt /\ CanPay(purse, Donor, gas)
          /\ purse' = TryTransfer(purse, Donor, Network, gas)
          /\ UNCHANGED current
       \/ /\ current # NoAttempt /\ current.left >= gas
          /\ current' = [current EXCEPT !.left = @ - gas]
          /\ UNCHANGED purse
    /\ logged' = Append(logged, [ticket |-> t, gas |-> gas, to |-> Donor,
                                 maxRefund |-> Unlimited, feeRefund |-> 0])
    /\ UNCHANGED <<ticket, queue, seconds, arbos60, deposit, refunded, promised>>

Deleted(f, t) == TryTransfer(f, t, Heir, f[t])

CancelTicket(t) ==
    /\ InTransaction /\ current.ticket # t /\ IsLive(t)
    /\ ticket' = [ticket EXCEPT ![t] = NoTicket]
    /\ purse' = Deleted(purse, t)
    /\ UNCHANGED <<logged, queue, current, seconds, arbos60, deposit, refunded,
                   promised>>

\* scheduled_retryables_from_logs: an event whose ticket the same transaction
\* went on to delete schedules nothing.
Scheduled(tickets) ==
    LET stored(r) == tickets[r.ticket].timeout # 0
    IN  SelectSeq(logged, stored)

EndTransaction ==
    /\ current = NoAttempt /\ logged # <<>>
    /\ queue' = Scheduled(ticket)
    /\ logged' = <<>>
    /\ UNCHANGED <<purse, ticket, current, seconds, arbos60, deposit, refunded,
                   promised>>

----------------------------------------------------------------------------
(* Attempts *)

\* prepare_redeem; the attempt then pays for its gas with the minted
\* prepayment and sends the value on.
PrepareRedeem(r) ==
    Credited(TryTransfer(purse, r.ticket, Sender, CallValue), Sender, r.gas)

BeginAttempt ==
    LET r == Head(queue)
        bought == Credited(PrepareRedeem(r), Sender, -r.gas)
    IN  /\ current = NoAttempt /\ logged = <<>> /\ queue # <<>>
        /\ IsLive(r.ticket)
        /\ current' = [ticket |-> r.ticket, attempt |-> r, left |-> r.gas,
                       purse |-> bought, tickets |-> ticket, promised |-> promised]
        /\ purse' = TryTransfer(bought, Sender, Callee, CallValue)
        /\ queue' = Tail(queue)
        /\ UNCHANGED <<ticket, logged, seconds, arbos60, deposit, refunded, promised>>

\* The ticket was redeemed or cancelled, or timed out: the attempt is an error
\* and the attempts behind it are dropped.
AttemptFails ==
    /\ current = NoAttempt /\ logged = <<>> /\ queue # <<>>
    /\ ~IsLive(Head(queue).ticket)
    /\ queue' = <<>>
    /\ UNCHANGED <<purse, ticket, logged, current, seconds, arbos60, deposit,
                   refunded, promised>>

\* refund: to the refund address while the pool lasts, the rest to the sender.
RefundFees(st, r, amount) ==
    LET part == TakeFunds(st.pool, amount)
    IN  [f |-> TryTransfer(TryTransfer(st.f, Network, r.to, part),
                           Network, Sender, amount - part),
         pool |-> st.pool - part]

\* Mutant: the reimbursed gas stays with the sender.
ReimbursedKept(f, left) == Credited(f, Sender, left)

\* reimburse_caller returns the unused gas to the sender, finish_redeem takes
\* it back before the network account refunds it.
Reimbursed(f, left) == Credited(Credited(f, Sender, left), Sender, -left)

\* A successful attempt refunds the submission fee, a failed one forfeits it
\* from the pool; then the gas it used leaves the pool.
RefundPool(r, st, ok, left) ==
    LET s == IF ok THEN RefundFees(st, r, r.feeRefund)
             ELSE [st EXCEPT !.pool = @ - TakeFunds(@, r.feeRefund)]
    IN  [s EXCEPT !.pool = @ - TakeFunds(@, r.gas - left)]

\* Mutant: a failed attempt leaves the value with the sender.
FinishRedeemKept(r, f, ok, left, multi) ==
    LET s == RefundPool(r, [f |-> Reimbursed(f, left), pool |-> r.maxRefund], ok, left)
        paid == RefundFees(RefundFees(s, r, left), r, multi).f
    IN  IF ok THEN Deleted(paid, r.ticket) ELSE paid

FinishRedeem(r, f, ok, left, multi) ==
    LET s == RefundPool(r, [f |-> Reimbursed(f, left), pool |-> r.maxRefund], ok, left)
        paid == RefundFees(RefundFees(s, r, left), r, multi).f
    IN  IF ok THEN Deleted(paid, r.ticket)
        ELSE TryTransfer(paid, Sender, r.ticket, CallValue)

\* multi is the refund for gas whose resources cost less than the base fee.
EndAttempt(ok, left, multi) ==
    LET r == current.attempt
        after == IF ok THEN [ticket EXCEPT ![r.ticket] = NoTicket]
                 ELSE current.tickets
    IN  /\ current # NoAttempt /\ left <= current.left /\ multi <= r.gas - left
        /\ purse' = FinishRedeem(r, IF ok THEN purse ELSE current.purse, ok, left,
                                 multi)
        /\ ticket' = after
        /\ promised' = IF ok THEN promised ELSE current.promised
        /\ queue' = IF ok THEN queue \o Scheduled(after) ELSE <<>>
        /\ IF r.to = RefundTo THEN Refunds(r.ticket) ELSE UNCHANGED refunded
        /\ logged' = <<>> /\ current' = NoAttempt
        /\ UNCHANGED <<seconds, arbos60, deposit>>

LaterBlock ==
    /\ BetweenTransactions /\ seconds < MaxSeconds
    /\ seconds' = seconds + 1
    /\ arbos60' \in {v \in BOOLEAN : arbos60 => v}
    /\ UNCHANGED <<purse, ticket, logged, queue, current, deposit, refunded,
                   promised>>

RetryInit ==
    /\ purse = [a \in Purses |-> CASE a = Sender -> Savings
                              [] a = Donor -> DonorSavings
                              [] OTHER -> 0]
    /\ ticket = [t \in Tickets |-> NoTicket]
    /\ logged = <<>> /\ queue = <<>> /\ current = NoAttempt
    /\ seconds = 1 /\ arbos60 \in BOOLEAN
    /\ deposit = [t \in Tickets |-> -1]
    /\ refunded = [t \in Tickets |-> 0]
    /\ promised = [t \in Tickets |-> 0]

RetryNext ==
    \/ \E t \in Tickets :
          \/ \E v \in DepositSizes, m \in MaxFees, g \in GasLimits, c \in FeeCaps :
                Submit(t, v, m, g, c)
          \/ Keepalive(t)
          \/ \E g \in GasLimits : Redeem(t, g)
          \/ CancelTicket(t)
    \/ EndTransaction
    \/ BeginAttempt
    \/ AttemptFails
    \/ /\ current # NoAttempt
       /\ \E ok \in BOOLEAN, left, multi \in 0..current.attempt.gas :
             EndAttempt(ok, left, multi)
    \/ LaterBlock

----------------------------------------------------------------------------
(* Properties *)

\* A stored ticket's escrow holds exactly the call's value, except while an
\* attempt has it, and a deleted ticket's escrow is empty: through attempts
\* that fail, arrive late or delete other tickets, and through cancellation
\* (prepare_redeem, finish_redeem, delete_retryable).
EscrowExact ==
    \A t \in Tickets :
        purse[t] = IF ticket[t].timeout # 0 /\ current.ticket # t
                   THEN CallValue ELSE 0

\* No path of a submission or an attempt creates or destroys money: the
\* balances add up to the savings and the deposits minted.
MoneyConserved ==
    MapThenSumSet(LAMBDA a : purse[a], Purses) =
        Savings + DonorSavings
            + MapThenSumSet(LAMBDA t : Max({deposit[t], 0}), Tickets)

\* What a submission and its first attempt refund to fee_refund_addr is at
\* most what the deposit brought beyond the call's value (available_refund,
\* max_refund and take_funds).
RefundWithinDeposit ==
    \A t \in Tickets : refunded[t] <= Max({0, deposit[t] - CallValue})

\* A ticket that is still stored can be redeemed until the timeout that its
\* submission or its last keepalive announced.
TimeoutKept ==
    \A t \in Tickets :
        (ticket[t].timeout # 0 /\ seconds <= promised[t]) => IsLive(t)

\* A ticket's money and its lifetime are kept through submission, attempts,
\* keepalive and cancellation (submit_retryable, finish_redeem).
TicketsSound ==
    EscrowExact /\ MoneyConserved /\ RefundWithinDeposit /\ TimeoutKept
============================================================================
