--------------------------- MODULE ChannelReserve ---------------------------
(***************************************************************************)
(* The TIP-20 channel reserve of the Tempo chain, which keeps the deposits *)
(* of payment channels, and the storage credits (TIP-1060) its writes      *)
(* spend and earn.  A channel is named by its payer and by the context     *)
(* hash of the transaction that opened it; the payer signs vouchers for a  *)
(* cumulative amount and the payee redeems them.  A call that returns an   *)
(* error is reverted, so every action is a call that succeeds; a call that *)
(* ends in a Fatal error is an action too, and sets fatal.                 *)
(***************************************************************************)
EXTENDS Integers, FiniteSets, FiniteSetsExt

CONSTANTS Payers,
          Sums,      \* amounts of deposits and vouchers
          MaxTx,     \* transactions that may open channels
          MaxDeposit,
          Grace,     \* CLOSE_GRACE_PERIOD
          MaxNow     \* bound on the block time

ASSUME ReserveAssumption ==
    /\ Sums \subseteq Nat \ {0}
    /\ {MaxTx, MaxDeposit, Grace, MaxNow} \subseteq Nat \ {0}

VARIABLES chan,      \* channel_states
          slots,     \* channel_storage_credits
          bank,      \* the reserve's balance, mode and budget of storage credits
          tx,        \* the last context hash, and whether the transaction
          running,   \* that has it is running (channel_open_context_hash)
          opened,    \* opened_this_tx
          custody,   \* the reserve's balance of the token
          signed,    \* the vouchers out: the largest amount signed per channel
          redeemed,  \* history: what the payee got through a channel
          clock, t7, fatal

chanVars == <<chan, slots, bank, tx, running, opened, custody, signed, redeemed,
              clock, t7, fatal>>

Channels == Payers \X (1 .. MaxTx)

\* An empty slot: exists() is deposit # 0.
NoChannel == [deposit |-> 0, settled |-> 0, closeAt |-> 0]

Exists(c) == chan[c].deposit # 0

-----------------------------------------------------------------------------
(* Storage credits: what account_storage_write does for the reserve. *)

\* A slot of the reserve is cleared: a credit is minted.
Cleared(b) == [b EXCEPT !.balance = @ + 1]

\* A slot is created: in direct mode a credit within the budget pays for it,
\* otherwise gas does.
Created(b) ==
    IF b.mode = "direct" /\ b.balance > 0 /\ b.budget > 0
      THEN [b EXCEPT !.balance = @ - 1, !.budget = @ - 1]
      ELSE b

\* preserve, which every call to the reserve begins with since T7.
Preserved(b) == [b EXCEPT !.mode = "preserve", !.budget = 0]

\* with_budget around the creation of one slot: the budget is set, the write
\* accounted, and the mode put back.
WithBudget(b, limit) ==
    Preserved(Created([b EXCEPT !.mode = "direct", !.budget = limit]))

\* Mutant of CreditSlots: the slot that keeps the count is not paid for with
\* a credit.
CreditSlotsFree(s, payer, n) ==
    [s EXCEPT !.slots[payer] = @ + n]

\* credit_channel_storage_slots: the payer's count grows by n.  The slot that
\* keeps it, when new, is paid for with one of the reserve's own credits.
CreditSlots(s, payer, n) ==
    IF n = 0 THEN s
    ELSE IF s.slots[payer] > 0 THEN [s EXCEPT !.slots[payer] = @ + n]
    ELSE LET after == WithBudget(s.bank, 1)
         IN  [slots |-> [s.slots EXCEPT ![payer] = n],
              bank |-> after,
              fatal |-> s.fatal \/ after.balance # s.bank.balance - 1]

\* delete_channel_state_and_credit_payer: what clearing the channel minted is
\* the payer's.
DeleteChannel(payer) ==
    LET s == [slots |-> slots, bank |-> Preserved(bank), fatal |-> fatal]
        minted == [s EXCEPT !.bank = Cleared(@)]
        n == minted.bank.balance - s.bank.balance
    IN  IF t7 THEN CreditSlots(minted, payer, n) ELSE [s EXCEPT !.bank = bank]

\* write_channel_state_spending_credit: a new channel is paid for with one of
\* the payer's credits, if there is one, and the rest is booked again.
SpendCredit(payer) ==
    LET s == [slots |-> slots, bank |-> Preserved(bank), fatal |-> fatal]
        current == slots[payer]
        before == Cleared(s.bank)
        after == WithBudget(before, current)
        spent == before.balance - after.balance
    IN  IF ~t7 THEN [s EXCEPT !.bank = bank]
        ELSE IF current = 0 THEN [s EXCEPT !.bank = Created(@)]
        ELSE CreditSlots([slots |-> [slots EXCEPT ![payer] = 0],
                          bank |-> after,
                          fatal |-> fatal \/ spent # 1],
                         payer, Max({current - spent, 0}))

Booked(s) ==
    /\ slots' = s.slots /\ bank' = s.bank /\ fatal' = s.fatal

\* A call that touches no slot of the reserve only sets the mode.
Unbooked ==
    /\ bank' = (IF t7 THEN Preserved(bank) ELSE bank)
    /\ UNCHANGED <<slots, fatal>>

-----------------------------------------------------------------------------
(* The calls. *)

\* Mutant of Open: a channel closed in this transaction may be opened again.
OpenAgain(p, amount) ==
    LET c == <<p, tx>>
    IN  /\ running /\ ~Exists(c)
        /\ custody' = custody + amount
        /\ chan' = [chan EXCEPT ![c] = [NoChannel EXCEPT !.deposit = amount]]
        /\ opened' = opened \cup {c}
        /\ Booked(SpendCredit(p))
        /\ UNCHANGED <<tx, running, signed, redeemed, clock, t7>>

\* open, within a transaction that has a context hash.
Open(p, amount) ==
    LET c == <<p, tx>>
    IN  /\ running /\ ~Exists(c) /\ c \notin opened
        /\ custody' = custody + amount
        /\ chan' = [chan EXCEPT ![c] = [NoChannel EXCEPT !.deposit = amount]]
        /\ opened' = opened \cup {c}
        /\ Booked(SpendCredit(p))
        /\ UNCHANGED <<tx, running, signed, redeemed, clock, t7>>

\* settle: the payee redeems a voucher for more than was settled.
SettleVoucher(c, amount) ==
    /\ Exists(c)
    /\ amount <= chan[c].deposit
    /\ amount > chan[c].settled
    /\ amount \in signed[c]
    /\ LET delta == amount - chan[c].settled
       IN  /\ custody' = custody - delta
           /\ redeemed' = [redeemed EXCEPT ![c] = @ + delta]
    /\ chan' = [chan EXCEPT ![c].settled = amount]
    /\ Unbooked
    /\ UNCHANGED <<tx, running, opened, signed, clock, t7>>

\* top_up: more deposit, or none, and a close request is withdrawn.
TopUp(c, amount) ==
    /\ Exists(c)
    /\ amount > 0 \/ chan[c].closeAt # 0
    /\ chan[c].deposit + amount <= MaxDeposit
    /\ custody' = custody + amount
    /\ chan' = [chan EXCEPT ![c].deposit = @ + amount, ![c].closeAt = 0]
    /\ Unbooked
    /\ UNCHANGED <<tx, running, opened, signed, redeemed, clock, t7>>

\* request_close; a second request changes nothing.
RequestClose(c) ==
    /\ Exists(c) /\ chan[c].closeAt = 0
    /\ chan' = [chan EXCEPT ![c].closeAt = clock]
    /\ Unbooked
    /\ UNCHANGED <<tx, running, opened, custody, signed, redeemed, clock, t7>>

\* close by the payee: capture up to a voucher, refund the rest.
Close(c, capture, cumulative) ==
    /\ Exists(c)
    /\ capture >= chan[c].settled /\ capture <= cumulative
    /\ capture <= chan[c].deposit
    /\ capture > chan[c].settled => cumulative \in signed[c]
    /\ LET delta == capture - chan[c].settled
           refund == chan[c].deposit - capture
       IN  /\ custody' = custody - delta - refund
           /\ redeemed' = [redeemed EXCEPT ![c] = @ + delta]
    /\ chan' = [chan EXCEPT ![c] = NoChannel]
    /\ Booked(DeleteChannel(c[1]))
    /\ UNCHANGED <<tx, running, opened, signed, clock, t7>>

\* Mutant of WithdrawDeposit: what was settled is refunded too.
WithdrawWhole(c) ==
    /\ Exists(c)
    /\ chan[c].closeAt # 0 /\ clock >= chan[c].closeAt + Grace
    /\ custody' = custody - chan[c].deposit
    /\ chan' = [chan EXCEPT ![c] = NoChannel]
    /\ Booked(DeleteChannel(c[1]))
    /\ UNCHANGED <<tx, running, opened, signed, redeemed, clock, t7>>

\* withdraw by the payer, once the grace period of its request is over.
WithdrawDeposit(c) ==
    /\ Exists(c)
    /\ chan[c].closeAt # 0 /\ clock >= chan[c].closeAt + Grace
    /\ custody' = custody - (chan[c].deposit - chan[c].settled)
    /\ chan' = [chan EXCEPT ![c] = NoChannel]
    /\ Booked(DeleteChannel(c[1]))
    /\ UNCHANGED <<tx, running, opened, signed, redeemed, clock, t7>>

\* External.  The payer signs a voucher; a channel's name can be computed
\* before the channel is opened.
Sign(c, amount) ==
    /\ amount \notin signed[c]
    /\ signed' = [signed EXCEPT ![c] = @ \cup {amount}]
    /\ UNCHANGED <<chan, slots, bank, tx, running, opened, custody, redeemed, clock, t7, fatal>>

\* External.  A transaction with an expiring nonce begins: it has a context
\* of its own, and transient storage is empty.
NonceTx ==
    /\ tx < MaxTx
    /\ tx' = tx + 1 /\ running' = TRUE
    /\ opened' = {}
    /\ bank' = [bank EXCEPT !.mode = "refund", !.budget = 0]
    /\ UNCHANGED <<chan, slots, custody, signed, redeemed, clock, t7, fatal>>

\* External.  A transaction without one begins, perhaps in a later block or
\* after the T7 hardfork.
PlainTx(later, fork) ==
    /\ running' = FALSE /\ tx' = tx
    /\ opened' = {}
    /\ bank' = [bank EXCEPT !.mode = "refund", !.budget = 0]
    /\ clock' = clock + later /\ clock' <= MaxNow
    /\ t7' = (t7 \/ fork)
    /\ UNCHANGED <<chan, slots, custody, signed, redeemed, fatal>>

ReserveInit ==
    /\ chan = [c \in Channels |-> NoChannel]
    /\ slots = [p \in Payers |-> 0]
    /\ bank = [balance |-> 0, mode |-> "refund", budget |-> 0]
    /\ tx = 0 /\ running = FALSE
    /\ opened = {}
    /\ custody = 0
    /\ signed = [c \in Channels |-> {}]
    /\ redeemed = [c \in Channels |-> 0]
    /\ clock = 1
    /\ t7 = FALSE
    /\ fatal = FALSE

ReserveNext ==
    \/ \E p \in Payers, n \in Sums: Open(p, n)
    \/ \E c \in Channels:
          \/ \E n \in Sums: SettleVoucher(c, n) \/ Sign(c, n)
          \/ \E n \in Sums \cup {0}: TopUp(c, n)
          \/ RequestClose(c)
          \/ \E n \in Sums \cup {0}, m \in Sums: Close(c, n, m)
          \/ WithdrawDeposit(c)
    \/ NonceTx
    \/ \E later \in {0, 1}, fork \in BOOLEAN: PlainTx(later, fork)

-----------------------------------------------------------------------------

\* The reserve holds, to the unit, what its open channels have not paid out.
CustodyExact ==
    custody = MapThenSumSet(LAMBDA c: chan[c].deposit - chan[c].settled, Channels)

\* A channel never pays its payee more than the largest voucher signed for
\* it, over all the times it is opened and closed: a voucher is not good for
\* a second channel of the same name.
PaidWithinVoucher ==
    \A c \in Channels: redeemed[c] <= Max(signed[c] \cup {0})

\* The bookkeeping of storage credits never ends in a Fatal error: each
\* payer's count is backed by the credits the reserve has, less the one that
\* paid for the slot the count is kept in.
CreditsBacked ==
    /\ ~fatal
    /\ bank.balance = MapThenSumSet(LAMBDA p: Max({slots[p] - 1, 0}), Payers)

\* Deposits, vouchers and storage credits add up through every life of a
\* channel (open, settle, close, withdraw).
ReserveSound == CustodyExact /\ PaidWithinVoucher /\ CreditsBacked
=============================================================================
