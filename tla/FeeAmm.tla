------------------------------- MODULE FeeAmm -------------------------------
(***************************************************************************)
(* One pool of the fee manager of the Tempo chain: liquidity providers     *)
(* deposit the validator's token, the fees of a transaction are swapped    *)
(* into it at a fixed rate, and anyone may swap the user's token back out. *)
(* A call that returns an error is reverted, so every action is a call     *)
(* that succeeds.  The node never executes the fee swap itself: it reads   *)
(* the reservation the chain makes before a transaction, which the calls   *)
(* of that transaction must leave alone.                                   *)
(***************************************************************************)
EXTENDS Integers, FiniteSets, FiniteSetsExt

CONSTANTS Providers,
          M, N, SCALE,    \* the rates of a fee swap and of a rebalance swap
          MinLiquidity,   \* MIN_LIQUIDITY
          Deposits, Shares, Outs, Fees,   \* amounts a call may name
          MaxReserve      \* bound on the reserves

ASSUME FeeAmmAssumption ==
    /\ {M, N, SCALE, MinLiquidity} \subseteq Nat \ {0}
    /\ M <= N /\ N <= SCALE
    /\ Deposits \subseteq Nat /\ Shares \subseteq Nat \ {0}
    /\ Outs \subseteq Nat \ {0} /\ Fees \subseteq Nat /\ MaxReserve \in Nat

VARIABLES pool,      \* reserves, LP supply and LP balances
          fees,      \* collected_fees of the validator
          manager,   \* the fee manager's balances of the two tokens
          reserved   \* pending_fee_swap_reservation

ammVars == <<pool, fees, manager, reserved>>

\* compute_amount_out.
ComputeAmountOut(in) == (in * M) \div SCALE

\* Mutant of Liquidity: the user's token in the pool counts for nothing.
LiquidityOfReserve(amount) ==
    IF pool.user = 0 /\ pool.validator = 0
      THEN amount \div 2 - MinLiquidity
      ELSE (amount * pool.total) \div pool.validator

\* The LP tokens a deposit earns: half of it less the locked part in a new
\* pool, its share of the pool's worth in an old one.
Liquidity(amount) ==
    IF pool.user = 0 /\ pool.validator = 0
      THEN amount \div 2 - MinLiquidity
      ELSE (amount * pool.total) \div (pool.validator + (N * pool.user) \div SCALE)

\* Mutant of MintShares: a pool whose validator reserve was drained counts as
\* new.
MintSharesDrained(p, amount) ==
    LET new == pool.validator = 0
    IN  /\ ~new => pool.validator + (N * pool.user) \div SCALE > 0
        /\ Liquidity(amount) > 0
        /\ pool' = [pool EXCEPT
                       !.validator = @ + amount,
                       !.total = @ + Liquidity(amount) + (IF new THEN MinLiquidity ELSE 0),
                       !.lp[p] = @ + Liquidity(amount)]
        /\ pool'.validator <= MaxReserve
        /\ manager' = [manager EXCEPT !.validator = @ + amount]
        /\ UNCHANGED <<fees, reserved>>

\* mint.  The first deposit locks MinLiquidity LP tokens that nobody owns.
MintShares(p, amount) ==
    LET new == pool.user = 0 /\ pool.validator = 0
    IN  /\ ~new => pool.validator + (N * pool.user) \div SCALE > 0
        /\ Liquidity(amount) > 0
        /\ pool' = [pool EXCEPT
                       !.validator = @ + amount,
                       !.total = @ + Liquidity(amount) + (IF new THEN MinLiquidity ELSE 0),
                       !.lp[p] = @ + Liquidity(amount)]
        /\ pool'.validator <= MaxReserve
        /\ manager' = [manager EXCEPT !.validator = @ + amount]
        /\ UNCHANGED <<fees, reserved>>

\* Mutant of BurnShares: the reservation is compared with the reserve the
\* burn found, not with the one it leaves.
BurnSharesUnreserved(p, shares) ==
    LET user == (shares * pool.user) \div pool.total
        validator == (shares * pool.validator) \div pool.total
    IN  /\ shares <= pool.lp[p]
        /\ pool.validator >= reserved
        /\ pool' = [pool EXCEPT !.user = @ - user, !.validator = @ - validator,
                                !.total = @ - shares, !.lp[p] = @ - shares]
        /\ manager' = [user |-> manager.user - user,
                       validator |-> manager.validator - validator]
        /\ UNCHANGED <<fees, reserved>>

\* burn: a share of both reserves, rounded down, unless that would touch the
\* reservation.
BurnShares(p, shares) ==
    LET user == (shares * pool.user) \div pool.total
        validator == (shares * pool.validator) \div pool.total
    IN  /\ shares <= pool.lp[p]
        /\ pool.validator - validator >= reserved
        /\ pool' = [pool EXCEPT !.user = @ - user, !.validator = @ - validator,
                                !.total = @ - shares, !.lp[p] = @ - shares]
        /\ manager' = [user |-> manager.user - user,
                       validator |-> manager.validator - validator]
        /\ UNCHANGED <<fees, reserved>>

\* rebalance_swap: user tokens out at the rate N, rounded against the swapper.
RebalanceSwap(out) ==
    LET in == (out * N) \div SCALE + 1
    IN  /\ out <= pool.user
        /\ pool.validator + in >= reserved
        /\ pool' = [pool EXCEPT !.validator = @ + in, !.user = @ - out]
        /\ pool'.validator <= MaxReserve
        /\ manager' = [user |-> manager.user - out,
                       validator |-> manager.validator + in]
        /\ UNCHANGED <<fees, reserved>>

\* Mutant of DistributeFees: the ledger is not cleared.
DistributeFeesAgain ==
    /\ fees > 0
    /\ manager' = [manager EXCEPT !.validator = @ - fees]
    /\ UNCHANGED <<pool, fees, reserved>>

\* distribute_fees: the ledger is cleared and its amount paid out.
DistributeFees ==
    /\ fees > 0
    /\ fees' = 0
    /\ manager' = [manager EXCEPT !.validator = @ - fees]
    /\ UNCHANGED <<pool, reserved>>

\* External.  Before a transaction the chain reserves what the swap of its
\* highest fee would take.
ReserveFee(fee) ==
    /\ reserved = 0
    /\ ComputeAmountOut(fee) <= pool.validator
    /\ reserved' = ComputeAmountOut(fee)
    /\ UNCHANGED <<pool, fees, manager>>

\* External.  After it, the fee really due is swapped and the reservation,
\* which lives in transient storage, is gone.
SwapFee(fee) ==
    /\ reserved > 0
    /\ ComputeAmountOut(fee) <= reserved
    /\ reserved' = 0
    /\ pool' = [pool EXCEPT !.user = @ + fee, !.validator = @ - ComputeAmountOut(fee)]
    /\ pool'.user <= MaxReserve
    /\ fees' = fees + ComputeAmountOut(fee)
    /\ fees' <= MaxReserve
    /\ manager' = [manager EXCEPT !.user = @ + fee]

FeeAmmInit ==
    /\ pool = [user |-> 0, validator |-> 0, total |-> 0,
               lp |-> [p \in Providers |-> 0]]
    /\ fees = 0
    /\ manager = [user |-> 0, validator |-> 0]
    /\ reserved = 0

FeeAmmNext ==
    \/ \E p \in Providers, amount \in Deposits: MintShares(p, amount)
    \/ \E p \in Providers, shares \in Shares: BurnShares(p, shares)
    \/ \E out \in Outs: RebalanceSwap(out)
    \/ DistributeFees
    \/ \E fee \in Fees: ReserveFee(fee) \/ SwapFee(fee)

-----------------------------------------------------------------------------

\* The LP supply is what the providers hold and the locked minimum, once: a
\* pool that was opened keeps a reserve for ever, so no later deposit is
\* taken for the first.
LpSupplyExact ==
    LET held == MapThenSumSet(LAMBDA p: pool.lp[p], Providers)
    IN  IF pool.user = 0 /\ pool.validator = 0
          THEN pool.total = 0 /\ held = 0
          ELSE pool.total = held + MinLiquidity

\* The fee manager owns its pool's reserves and the fees it has yet to
\* distribute.
ManagerSolvent ==
    /\ manager.user = pool.user
    /\ manager.validator = pool.validator + fees

\* No call of a transaction leaves less in the pool than the swap of its own
\* fee will take.
ReservationKept == reserved <= pool.validator

\* The worth of the reserves, at the rate of a rebalance swap.
Worth == SCALE * pool.validator + N * pool.user

\* No call makes the shares of the others worth less.  Only a deposit may,
\* by the rounding of its divisor, and then all shares together lose less
\* than one unit of the validator's token.
ShareValueKept ==
    [][pool.total > 0 =>
          IF pool'.total > pool.total
            THEN Worth' * pool.total + SCALE * pool'.total > Worth * pool'.total
            ELSE Worth' * pool.total >= Worth * pool'.total]_ammVars

\* The pool's shares, reserves, collected fees and reservation are covered at
\* every point of a transaction (mint, burn, rebalance_swap, distribute_fees).
PoolSound == LpSupplyExact /\ ManagerSolvent /\ ReservationKept
=============================================================================
