---------------------------- MODULE StablecoinDex ----------------------------
(***************************************************************************)
(* The order book of one pair of the Tempo stablecoin exchange             *)
(* (tempo/precompile/stablecoin_dex.rs).  A call that returns an error is   *)
(* reverted as a whole, so every action below is a call that succeeds; the  *)
(* one error the contract catches itself is a flip that cannot be placed.   *)
(* Transfer policies and pauses belong to the tokens: a call that succeeds  *)
(* found its caller allowed and the tokens not paused, so what is left of   *)
(* them is the set of makers a swap finds blocked.  Amounts are far below   *)
(* the u128 limit.  Order storage layouts, storage credits and routes over  *)
(* several books are left out.                                              *)
(***************************************************************************)
EXTENDS Integers, FiniteSets, FiniteSetsExt, Functions, Sequences, TLC

CONSTANTS Makers,     \* users that place orders
          Takers,     \* users that swap
          Ticks,      \* the ticks orders may rest at
          Scale,      \* PRICE_SCALE
          OrderSizes, \* the amounts of orders, in base
          SwapSizes,  \* the exact amounts swaps name
          MaxOrderId, \* bound on next_order_id
          MaxHeld,    \* bound on the tokens the exchange holds
          MaxCalls    \* bound on the calls of a behaviour

ASSUME DexAssumption ==
    /\ Ticks \subseteq Int /\ IsFiniteSet(Ticks) /\ Scale \in Nat \ {0}
    /\ \A t \in Ticks : Scale + t > 0
    /\ OrderSizes \subseteq Nat \ {0} /\ SwapSizes \subseteq Nat \ {0}
    /\ MaxOrderId \in Nat /\ MaxHeld \in Nat
    /\ MaxCalls \in Nat

VARIABLES dex,      \* the storage of the contract
          held,     \* the contract's own TIP-20 balances
          fork,     \* the active hardfork
          calls     \* calls made so far

dexVars == <<dex, held, fork, calls>>

Counted == calls < MaxCalls /\ calls' = calls + 1

Users == Makers \cup Takers
Tokens == {"base", "quote"}
Forks == <<"T4", "T5", "T12">>

(* BOOLEAN names a side: TRUE the bids, FALSE the asks. *)
NoTick(isBid) == IF isBid THEN Min(Ticks) - 1 ELSE Max(Ticks) + 1

EmptyLevel == [head |-> 0, tail |-> 0, total |-> 0]

TickToPrice(tick) == Scale + tick

BaseToQuoteDown(amount, tick) == (amount * TickToPrice(tick)) \div Scale

BaseToQuote(amount, tick) ==
    (amount * TickToPrice(tick) + Scale - 1) \div Scale

QuoteToBaseDown(amount, tick) == (amount * Scale) \div TickToPrice(tick)

QuoteToBase(amount, tick) ==
    (amount * Scale + TickToPrice(tick) - 1) \div TickToPrice(tick)

EscrowToken(isBid) == IF isBid THEN "quote" ELSE "base"

Escrow(isBid, amount, tick) ==
    IF isBid THEN BaseToQuote(amount, tick) ELSE amount

Smaller(a, b) == IF a < b THEN a ELSE b

(* next_initialized_tick: downward for bids, upward for asks. *)
NextInitializedTick(d, tick, isBid) ==
    LET further == {t \in d.bits[isBid] : IF isBid THEN t < tick ELSE t > tick}
    IN  CASE further = {} -> NoTick(isBid)
          [] further # {} /\ isBid -> Max(further)
          [] OTHER -> Min(further)

Credit(d, user, token, amount) == [d EXCEPT !.balance[user][token] = @ + amount]

Unlisted(d, id) == [d EXCEPT !.orders = Restrict(@, DOMAIN @ \ {id})]

CommitOrderToBook(d, order) ==
    LET level == d.level[order.isBid][order.tick]
        first == level.tail = 0
        best == d.best[order.isBid]
        better == IF order.isBid THEN order.tick > best ELSE order.tick < best
        linked == IF first THEN d.orders
                  ELSE [d.orders EXCEPT ![level.tail].next = order.id]
    IN  [d EXCEPT
          !.level[order.isBid][order.tick] =
              [head |-> IF first THEN order.id ELSE level.head,
               tail |-> order.id,
               total |-> IF fork = "T12" THEN level.total
                         ELSE level.total + order.remaining],
          !.bits[order.isBid] = IF first THEN @ \cup {order.tick} ELSE @,
          !.best[order.isBid] = IF first /\ better THEN order.tick ELSE @,
          !.orders = (order.id :> [order EXCEPT !.prev = level.tail]) @@ linked]

NewOrder(id, user, amount, isBid, tick, isFlip, flipTick) ==
    [id |-> id, maker |-> user, isBid |-> isBid, tick |-> tick,
     amount |-> amount, remaining |-> amount, prev |-> 0, next |-> 0,
     isFlip |-> isFlip, flipTick |-> flipTick]

-----------------------------------------------------------------------------
(* The caller pays from its balance in the exchange if that covers the     *)
(* whole amount; otherwise the balance is used up and the rest comes from   *)
(* its wallet.                                                              *)
FromWallet(d, user, token, amount) ==
    IF d.balance[user][token] >= amount THEN 0
    ELSE amount - d.balance[user][token]

DecrementBalance(d, user, token, amount) ==
    [d EXCEPT !.balance[user][token] = IF @ >= amount THEN @ - amount ELSE 0]

PlaceOrder(user, amount, isBid, tick, isFlip, flipTick) ==
    LET token == EscrowToken(isBid)
        escrow == Escrow(isBid, amount, tick)
        order == NewOrder(dex.nextId, user, amount, isBid, tick, isFlip, flipTick)
        paid == [DecrementBalance(dex, user, token, escrow) EXCEPT !.nextId = @ + 1]
    IN  /\ dex.nextId <= MaxOrderId
        /\ held[token] + FromWallet(dex, user, token, escrow) <= MaxHeld
        /\ held' = [held EXCEPT ![token] = @ + FromWallet(dex, user, token, escrow)]
        /\ dex' = CommitOrderToBook(paid, order)
        /\ Counted
        /\ UNCHANGED fork

Place(user, amount, isBid, tick) == PlaceOrder(user, amount, isBid, tick, FALSE, 0)

PlaceFlip(user, amount, isBid, tick, flipTick) ==
    /\ flipTick = tick => fork # "T4"
    /\ IF isBid THEN flipTick >= tick ELSE flipTick <= tick
    /\ PlaceOrder(user, amount, isBid, tick, TRUE, flipTick)

-----------------------------------------------------------------------------
(* A filled flip order is placed again on the other side, paid from the    *)
(* maker's balance: under its own id since T5 (flip_in_place), under a new  *)
(* one before (place_flip with internal_balance_only).                      *)
CanFlip(d, order, blocked) ==
    /\ order.maker \notin blocked
    /\ d.balance[order.maker][EscrowToken(~order.isBid)]
         >= Escrow(~order.isBid, order.amount, order.flipTick)

Flip(d, order) ==
    LET id == IF fork = "T4" THEN d.nextId ELSE order.id
        flipped == NewOrder(id, order.maker, order.amount, ~order.isBid,
                            order.flipTick, TRUE, order.tick)
        paid == [d EXCEPT !.balance[order.maker][EscrowToken(flipped.isBid)] =
                     @ - Escrow(flipped.isBid, flipped.amount, flipped.tick)]
        counted == IF fork = "T4" THEN [paid EXCEPT !.nextId = @ + 1] ELSE paid
    IN  CommitOrderToBook(counted, flipped)

\* Mutant of Proceeds: an ask is paid for the whole order.
ProceedsOfWholeOrder(d, order, fill) ==
    IF order.isBid THEN Credit(d, order.maker, "base", fill)
    ELSE Credit(d, order.maker, "quote", BaseToQuote(order.remaining, order.tick))

Proceeds(d, order, fill) ==
    IF order.isBid THEN Credit(d, order.maker, "base", fill)
    ELSE Credit(d, order.maker, "quote", BaseToQuote(fill, order.tick))

PartialFillOrder(d, order, fill) ==
    [Proceeds(d, order, fill) EXCEPT
        !.orders[order.id].remaining = @ - fill,
        !.level[order.isBid][order.tick].total = IF fork = "T12" THEN @ ELSE @ - fill]

FillOrder(d, order, blocked) ==
    LET credited == Proceeds(d, order, order.remaining)
        flips == order.isFlip /\ CanFlip(credited, order, blocked)
        replaced == IF flips THEN Flip(credited, order) ELSE credited
        settled == IF flips /\ fork # "T4" THEN replaced
                   ELSE Unlisted(replaced, order.id)
    IN  IF order.next = 0
        THEN [settled EXCEPT
                 !.level[order.isBid][order.tick] = EmptyLevel,
                 !.bits[order.isBid] = @ \ {order.tick},
                 !.best[order.isBid] =
                     NextInitializedTick(settled, order.tick, order.isBid)]
        ELSE [settled EXCEPT
                 !.level[order.isBid][order.tick] =
                     [head |-> order.next, tail |-> @.tail,
                      total |-> IF fork = "T12" THEN @.total
                                ELSE @.total - order.remaining],
                 !.orders[order.next].prev = 0]

\* Mutant of NextOrderAfter: the next tick comes before the next order of this one.
NextTickFirst(d, order) ==
    LET tick == NextInitializedTick(d, order.tick, order.isBid)
    IN  IF tick = NoTick(order.isBid) THEN order.next
        ELSE d.level[order.isBid][tick].head

(* The order a trade fills once `order` is used up; 0 when there is none. *)
NextOrderAfter(d, order) ==
    LET tick == NextInitializedTick(d, order.tick, order.isBid)
    IN  CASE order.next # 0 -> order.next
          [] order.next = 0 /\ tick = NoTick(order.isBid) -> 0
          [] OTHER -> d.level[order.isBid][tick].head

-----------------------------------------------------------------------------
(* What fill_orders_exact_in and fill_orders_exact_out take from one       *)
(* order: the base filled, the amount added to the result and the amount    *)
(* still to trade.                                                          *)
FillExactIn(amount, order) ==
    LET wanted == IF order.isBid THEN amount
                  ELSE QuoteToBaseDown(amount, order.tick)
        fill == Smaller(wanted, order.remaining)
    IN  [fill |-> fill,
         add |-> IF order.isBid THEN BaseToQuoteDown(fill, order.tick) ELSE fill,
         left |-> IF wanted <= order.remaining THEN 0
                  ELSE IF order.isBid THEN amount - order.remaining
                  ELSE amount - BaseToQuote(order.remaining, order.tick)]

FillExactOut(amount, order) ==
    LET wanted == IF order.isBid THEN QuoteToBase(amount, order.tick) ELSE amount
        fill == Smaller(wanted, order.remaining)
        received == IF order.isBid THEN BaseToQuoteDown(fill, order.tick) ELSE fill
    IN  [fill |-> fill,
         add |-> IF order.isBid THEN fill ELSE BaseToQuote(fill, order.tick),
         left |-> IF wanted > order.remaining THEN amount - received ELSE 0]

Filled(exactIn, amount, order) ==
    IF exactIn THEN FillExactIn(amount, order) ELSE FillExactOut(amount, order)

(* The loop of the two functions, from the order `id` on.  A full fill     *)
(* that leaves something to trade and no order to trade it with fails.      *)
RECURSIVE FillOrders(_, _, _, _, _, _)
FillOrders(d, blocked, exactIn, amount, id, sum) ==
    LET order == d.orders[id]
        step == Filled(exactIn, amount, order)
        full == FillOrder(d, order, blocked)
        next == NextOrderAfter(full, order)
    IN  CASE step.fill < order.remaining ->
               [ok |-> TRUE, d |-> PartialFillOrder(d, order, step.fill),
                sum |-> sum + step.add]
          [] step.fill = order.remaining /\ step.left = 0 ->
               [ok |-> TRUE, d |-> full, sum |-> sum + step.add]
          [] step.fill = order.remaining /\ step.left > 0 /\ next = 0 ->
               [ok |-> FALSE, d |-> d, sum |-> 0]
          [] OTHER -> FillOrders(full, blocked, exactIn, step.left, next, sum + step.add)

(* get_best_price_level: an empty side is an error. *)
Trade(d, blocked, exactIn, isBid, amount) ==
    IF d.best[isBid] = NoTick(isBid) THEN [ok |-> FALSE, d |-> d, sum |-> 0]
    ELSE FillOrders(d, blocked, exactIn, amount, d.level[isBid][d.best[isBid]].head, 0)

(* A swap against the bids sells base for quote, one against the asks the  *)
(* reverse.  The limit the caller names only decides whether it succeeds.   *)
TokenIn(isBid) == IF isBid THEN "base" ELSE "quote"

Settle(isBid, fromWallet, amountOut) ==
    /\ held[EscrowToken(isBid)] >= amountOut
    /\ held[TokenIn(isBid)] + fromWallet <= MaxHeld
    /\ held' = [held EXCEPT ![TokenIn(isBid)] = @ + fromWallet,
                            ![EscrowToken(isBid)] = @ - amountOut]
    /\ Counted
    /\ UNCHANGED fork

SwapExactAmountIn(user, blocked, isBid, amount) ==
    LET token == TokenIn(isBid)
        paid == DecrementBalance(dex, user, token, amount)
    IN  \E trade \in {Trade(paid, blocked, TRUE, isBid, amount)} :
        /\ trade.ok
        /\ trade.d.nextId <= MaxOrderId + 1
        /\ dex' = trade.d
        /\ Settle(isBid, FromWallet(dex, user, token, amount), trade.sum)

SwapExactAmountOut(user, blocked, isBid, amount) ==
    LET token == TokenIn(isBid)
    IN  \E trade \in {Trade(dex, blocked, FALSE, isBid, amount)} :
        /\ trade.ok
        /\ trade.d.nextId <= MaxOrderId + 1
        /\ dex' = DecrementBalance(trade.d, user, token, trade.sum)
        /\ Settle(isBid, FromWallet(trade.d, user, token, trade.sum), amount)

-----------------------------------------------------------------------------
\* Mutant of CancelActiveOrder: the best tick is not moved.
CancelKeepsBest(order) ==
    LET level == dex.level[order.isBid][order.tick]
        head == IF order.prev = 0 THEN order.next ELSE level.head
        tail == IF order.next = 0 THEN order.prev ELSE level.tail
        total == IF fork = "T12" THEN level.total ELSE level.total - order.remaining
        linked == [i \in DOMAIN dex.orders \ {order.id} |->
                     [dex.orders[i] EXCEPT
                        !.next = IF i = order.prev THEN order.next ELSE @,
                        !.prev = IF i = order.next THEN order.prev ELSE @]]
        unlinked ==
          [dex EXCEPT
            !.orders = linked,
            !.level[order.isBid][order.tick] =
                [head |-> head, tail |-> tail, total |-> total],
            !.bits[order.isBid] = IF head = 0 THEN @ \ {order.tick} ELSE @]
    IN  /\ dex' = Credit(unlinked, order.maker, EscrowToken(order.isBid),
                         Escrow(order.isBid, order.remaining, order.tick))
        /\ Counted
        /\ UNCHANGED <<held, fork>>

CancelActiveOrder(order) ==
    LET level == dex.level[order.isBid][order.tick]
        head == IF order.prev = 0 THEN order.next ELSE level.head
        tail == IF order.next = 0 THEN order.prev ELSE level.tail
        total == IF fork = "T12" THEN level.total ELSE level.total - order.remaining
        linked == [i \in DOMAIN dex.orders \ {order.id} |->
                     [dex.orders[i] EXCEPT
                        !.next = IF i = order.prev THEN order.next ELSE @,
                        !.prev = IF i = order.next THEN order.prev ELSE @]]
        unlinked ==
          [dex EXCEPT
            !.orders = linked,
            !.level[order.isBid][order.tick] =
                [head |-> head, tail |-> tail, total |-> total],
            !.bits[order.isBid] = IF head = 0 THEN @ \ {order.tick} ELSE @,
            !.best[order.isBid] =
                IF head = 0 /\ @ = order.tick
                THEN NextInitializedTick(dex, order.tick, order.isBid) ELSE @]
    IN  /\ dex' = Credit(unlinked, order.maker, EscrowToken(order.isBid),
                         Escrow(order.isBid, order.remaining, order.tick))
        /\ Counted
        /\ UNCHANGED <<held, fork>>

Cancel(user, id) ==
    /\ dex.orders[id].maker = user
    /\ dex.orders[id].remaining # 0
    /\ CancelActiveOrder(dex.orders[id])

CancelStaleOrder(id, blocked) ==
    /\ dex.orders[id].maker \in blocked
    /\ CancelActiveOrder(dex.orders[id])

Withdraw(user, token, amount) ==
    /\ dex.balance[user][token] >= amount
    /\ held[token] >= amount
    /\ dex' = [dex EXCEPT !.balance[user][token] = @ - amount]
    /\ held' = [held EXCEPT ![token] = @ - amount]
    /\ Counted
    /\ UNCHANGED fork

Activate ==
    /\ \E i \in 1 .. Len(Forks) - 1 : fork = Forks[i] /\ fork' = Forks[i + 1]
    /\ UNCHANGED <<dex, held, calls>>

-----------------------------------------------------------------------------
DexInit ==
    /\ dex = [orders |-> <<>>,
              level |-> [b \in BOOLEAN |-> [t \in Ticks |-> EmptyLevel]],
              bits |-> [b \in BOOLEAN |-> {}],
              best |-> [b \in BOOLEAN |-> NoTick(b)],
              nextId |-> 1,
              balance |-> [u \in Users |-> [k \in Tokens |-> 0]]]
    /\ held = [k \in Tokens |-> 0]
    /\ fork = Forks[1]
    /\ calls = 0

DexNext ==
    \/ \E user \in Takers, isBid \in BOOLEAN, amount \in SwapSizes :
         \E blocked \in SUBSET (Makers \ {user}) :
            \/ SwapExactAmountIn(user, blocked, isBid, amount)
            \/ SwapExactAmountOut(user, blocked, isBid, amount)
    \/ \E user \in Makers, amount \in OrderSizes, isBid \in BOOLEAN, tick \in Ticks :
         \/ Place(user, amount, isBid, tick)
         \/ \E flipTick \in Ticks : PlaceFlip(user, amount, isBid, tick, flipTick)
    \/ \E id \in DOMAIN dex.orders :
         \/ \E user \in Makers : Cancel(user, id)
         \/ \E blocked \in SUBSET Makers : CancelStaleOrder(id, blocked)
    \/ \E user \in Users, token \in Tokens :
         Withdraw(user, token, dex.balance[user][token])
    \/ Activate

-----------------------------------------------------------------------------
(* The quotes.  Since T12 a quote walks the orders (quote_per_order);      *)
(* before, it walks the ticks and their aggregate liquidity.                *)
TakerOutput(fill, order) ==
    IF order.isBid THEN BaseToQuoteDown(fill, order.tick) ELSE fill

\* Mutant of StepExactIn: a used-up ask costs its price rounded down.
StepExactInCheaper(amount, order) ==
    LET baseOut == QuoteToBaseDown(amount, order.tick)
        fill == Smaller(IF order.isBid THEN amount ELSE baseOut, order.remaining)
        quoteNeeded == BaseToQuoteDown(order.remaining, order.tick)
    IN  [fill |-> fill,
         add |-> TakerOutput(fill, order),
         left |-> CASE order.isBid -> Max({amount - order.remaining, 0})
                    [] ~order.isBid /\ baseOut > order.remaining -> amount - quoteNeeded
                    [] OTHER -> 0]

StepExactIn(amount, order) ==
    LET baseOut == QuoteToBaseDown(amount, order.tick)
        fill == Smaller(IF order.isBid THEN amount ELSE baseOut, order.remaining)
        quoteNeeded == BaseToQuote(order.remaining, order.tick)
    IN  [fill |-> fill,
         add |-> TakerOutput(fill, order),
         left |-> CASE order.isBid -> Max({amount - order.remaining, 0})
                    [] ~order.isBid /\ baseOut > order.remaining -> amount - quoteNeeded
                    [] OTHER -> 0]

StepExactOut(amount, order) ==
    LET demand == IF order.isBid THEN QuoteToBase(amount, order.tick) ELSE amount
        fill == Smaller(demand, order.remaining)
    IN  [fill |-> fill,
         add |-> IF order.isBid THEN fill ELSE BaseToQuote(fill, order.tick),
         left |-> IF demand > order.remaining
                  THEN amount - TakerOutput(order.remaining, order) ELSE 0]

Failed == [ok |-> FALSE, sum |-> 0]

RECURSIVE QuotePerOrder(_, _, _, _)
QuotePerOrder(exactIn, amount, id, sum) ==
    LET order == dex.orders[id]
        step == IF exactIn THEN StepExactIn(amount, order) ELSE StepExactOut(amount, order)
        next == NextOrderAfter(dex, order)
    IN  CASE step.fill < order.remaining \/ step.left = 0 ->
               [ok |-> TRUE, sum |-> sum + step.add]
          [] step.fill = order.remaining /\ step.left > 0 /\ next = 0 -> Failed
          [] OTHER -> QuotePerOrder(exactIn, step.left, next, sum + step.add)

LevelStepIn(amount, tick, total, isBid) ==
    LET fill == Smaller(IF isBid THEN amount ELSE QuoteToBaseDown(amount, tick), total)
    IN  [fill |-> fill,
         add |-> IF isBid THEN BaseToQuoteDown(fill, tick) ELSE fill,
         left |-> amount - (IF isBid THEN fill ELSE BaseToQuote(fill, tick))]

LevelStepOut(amount, tick, total, isBid) ==
    LET fill == Smaller(IF isBid THEN QuoteToBase(amount, tick) ELSE amount, total)
        out == IF isBid THEN Smaller(BaseToQuoteDown(fill, tick), amount) ELSE fill
    IN  [fill |-> fill,
         add |-> IF isBid THEN fill ELSE BaseToQuote(fill, tick),
         left |-> amount - out]

RECURSIVE QuotePerTick(_, _, _, _, _)
QuotePerTick(exactIn, isBid, amount, tick, sum) ==
    LET total == dex.level[isBid][tick].total
        step == IF exactIn THEN LevelStepIn(amount, tick, total, isBid)
                ELSE LevelStepOut(amount, tick, total, isBid)
        next == NextInitializedTick(dex, tick, isBid)
    IN  CASE total = 0 /\ next = NoTick(isBid) -> Failed
          [] total = 0 /\ next # NoTick(isBid) ->
               QuotePerTick(exactIn, isBid, amount, next, sum)
          [] total # 0 /\ (step.fill < total \/ step.left = 0) ->
               [ok |-> TRUE, sum |-> sum + step.add]
          [] total # 0 /\ step.fill = total /\ step.left > 0 /\ next = NoTick(isBid) ->
               Failed
          [] OTHER -> QuotePerTick(exactIn, isBid, step.left, next, sum + step.add)

Quote(exactIn, isBid, amount) ==
    LET best == dex.best[isBid]
    IN  CASE best = NoTick(isBid) -> Failed
          [] best # NoTick(isBid) /\ fork = "T12" ->
               QuotePerOrder(exactIn, amount, dex.level[isBid][best].head, 0)
          [] OTHER -> QuotePerTick(exactIn, isBid, amount, best, 0)

-----------------------------------------------------------------------------
(* The orders reachable from `id`; an id that repeats or is gone ends it.  *)
RECURSIVE Chain(_, _)
Chain(id, seen) ==
    IF id \notin DOMAIN dex.orders \/ id \in seen THEN <<>>
    ELSE <<id>> \o Chain(dex.orders[id].next, seen \cup {id})

Queue(isBid, tick) == Chain(dex.level[isBid][tick].head, {})

Resting(isBid, tick) ==
    {i \in DOMAIN dex.orders :
        dex.orders[i].isBid = isBid /\ dex.orders[i].tick = tick}

(* Every level's list holds the orders resting at its tick, each once, and *)
(* its links agree in both directions; the bitmap names the levels that     *)
(* hold an order, the best tick is the best of them, and before T12 the     *)
(* level's aggregate is what its orders have left.                          *)
BookConsistent ==
    \A isBid \in BOOLEAN :
        /\ \A tick \in Ticks :
             LET queue == Queue(isBid, tick)
                 level == dex.level[isBid][tick]
                 ends(i) == dex.orders[queue[i]].prev =
                              IF i = 1 THEN 0 ELSE queue[i - 1]
             IN  /\ Range(queue) = Resting(isBid, tick)
                 /\ \A i \in DOMAIN queue : ends(i)
                 /\ level.head = 0 <=> queue = <<>>
                 /\ level.tail = IF queue = <<>> THEN 0 ELSE queue[Len(queue)]
                 /\ tick \in dex.bits[isBid] <=> queue # <<>>
                 /\ fork # "T12" =>
                      level.total = MapThenSumSet(
                          LAMBDA i : dex.orders[i].remaining, Resting(isBid, tick))
        /\ dex.best[isBid] = CASE dex.bits[isBid] = {} -> NoTick(isBid)
                               [] dex.bits[isBid] # {} /\ isBid -> Max(dex.bits[isBid])
                               [] OTHER -> Min(dex.bits[isBid])

(* The exchange holds enough of each token to pay every balance and to     *)
(* give back what every resting order still has in escrow, whatever the     *)
(* fills, flips and cancellations rounded.                                  *)
DexSolvent ==
    \A token \in Tokens :
        held[token] >=
            MapThenSumSet(LAMBDA u : dex.balance[u][token], Users)
            + MapThenSumSet(
                LAMBDA i : Escrow(dex.orders[i].isBid, dex.orders[i].remaining,
                                  dex.orders[i].tick),
                {i \in DOMAIN dex.orders : EscrowToken(dex.orders[i].isBid) = token})

(* A quote answers what the swap would do.  Since T12 the two agree to the *)
(* unit and on failure; before, the aggregate hides the rounding of the     *)
(* single orders, so a quote may promise more, never less, than the swap    *)
(* gives (exact in) or may ask for less, never more, than it takes.         *)
QuotesMatchSwaps ==
    \A exactIn \in BOOLEAN, isBid \in BOOLEAN, amount \in SwapSizes :
      \A quote \in {Quote(exactIn, isBid, amount)},
         swap \in {Trade(dex, {}, exactIn, isBid, amount)} :
        /\ fork = "T12" => quote.ok = swap.ok /\ quote.sum = swap.sum
        /\ swap.ok /\ fork # "T12" =>
             /\ quote.ok
             /\ IF exactIn THEN quote.sum >= swap.sum ELSE quote.sum <= swap.sum

Ahead(id, isBid) ==
    LET tick == dex.orders[id].tick
        queue == Queue(isBid, tick)
        better(t) == IF isBid THEN t > tick ELSE t < tick
    IN  UNION {Resting(isBid, t) : t \in {t \in Ticks : better(t)}}
        \cup {queue[i] : i \in {i \in DOMAIN queue :
                                 \E j \in DOMAIN queue : i < j /\ queue[j] = id}}

(* A swap fills by price, then by arrival: when it takes anything from an  *)
(* order, every order ahead of it (at a better tick, or before it in its    *)
(* level's list) has left that side of the book.                            *)
PriceTimePriority ==
    \A exactIn \in BOOLEAN, isBid \in BOOLEAN, amount \in SwapSizes :
      \A trade \in {Trade(dex, {}, exactIn, isBid, amount)} :
        LET after == trade.d.orders
            gone(i) == i \notin DOMAIN after \/ after[i].isBid # isBid
        IN  trade.ok =>
              \A tick \in Ticks : \A id \in Resting(isBid, tick) :
                gone(id) \/ after[id].remaining < dex.orders[id].remaining
                => \A other \in Ahead(id, isBid) : gone(other)

\* Through every order, fill, flip and cancellation the book's structures agree
\* and what they promise is paid for (fill_order, cancel_active_order).
BookSound == BookConsistent /\ DexSolvent

\* A taker gets what was quoted, from the orders whose turn it is
\* (fill_orders_exact_in, quote_exact_in and their exact-out twins).
TradesFair == PriceTimePriority /\ QuotesMatchSwaps
=============================================================================
