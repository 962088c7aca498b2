---------------------------- MODULE QuoteTokens ----------------------------
(***************************************************************************)
(* The quote tokens of Tempo's TIP-20 tokens.  Every token names the token *)
(* it is quoted in; a token's admin stages a new quote token and completes *)
(* the change later, while other admins do the same.  The stablecoin DEX   *)
(* routes a swap between any two tokens along these links.                 *)
(***************************************************************************)
EXTENDS Integers, FiniteSets, Sequences, SequencesExt

CONSTANTS Coins,       \* token addresses other than pathUSD
          Reserved,    \* those in the reserved range
          PathUSD,
          ZeroAddress,
          MaxBooks     \* bound on the number of order books

ASSUME QuoteAssumption ==
    /\ IsFiniteSet(Coins) /\ Reserved \subseteq Coins
    /\ MaxBooks \in Nat
    /\ PathUSD \notin Coins /\ ZeroAddress \notin Coins \cup {PathUSD}

VARIABLES deployed,   \* tokens that have code
          usd,        \* those whose currency is USD
          quote,      \* quote_token of each deployed token
          nextQuote,  \* next_quote_token
          books       \* pairs <<base, quote>> with an order book

quoteVars == <<deployed, usd, quote, nextQuote, books>>

----------------------------------------------------------------------------

\* The tokens met when following quote tokens from t, t first; a walk longer
\* than the number of tokens has met one twice.
Walk(t) ==
    LET at[n \in 0..Cardinality(Coins) + 1] ==
            IF n = 0 THEN t
            ELSE LET u == at[n - 1]
                 IN  IF u \in deployed \ {PathUSD} THEN quote[u] ELSE u
    IN  at

\* find_path_to_root; <<>> when the walk ends at a token without a quote
\* token, which from_address refuses.
FindPathToRoot(t) ==
    LET at == Walk(t)
        ends == {n \in DOMAIN at : at[n] = PathUSD}
    IN  IF ends = {} THEN <<>>
        ELSE [i \in 1..(CHOOSE n \in ends : \A m \in ends : n <= m) + 1 |-> at[i - 1]]

QuoteInit ==
    /\ deployed = {PathUSD} /\ usd = {PathUSD}
    /\ quote = [t \in {PathUSD} |-> ZeroAddress]
    /\ nextQuote = quote
    /\ books = {}

Initialize(t, q, isUsd) ==
    /\ deployed' = deployed \cup {t}
    /\ usd' = IF isUsd THEN usd \cup {t} ELSE usd
    /\ quote' = [u \in deployed' |-> IF u = t THEN q ELSE quote[u]]
    /\ nextQuote' = [u \in deployed' |-> IF u = t THEN q ELSE nextQuote[u]]
    /\ UNCHANGED books

CreateToken(t, q, isUsd) ==
    /\ t \notin deployed /\ q \in deployed
    /\ isUsd => q \in usd
    /\ t \notin Reserved
    /\ Initialize(t, q, isUsd)

\* At genesis and hard forks; the quote token may be left out.
CreateTokenReservedAddress(t, q, isUsd) ==
    /\ t \notin deployed
    /\ q # ZeroAddress => q \in deployed /\ (isUsd => q \in usd)
    /\ t \in Reserved
    /\ Initialize(t, q, isUsd)

SetNextQuoteToken(t, q) ==
    /\ t \in deployed \ {PathUSD} /\ q \in deployed
    /\ t \in usd => q \in usd
    /\ nextQuote' = [nextQuote EXCEPT ![t] = q]
    /\ UNCHANGED <<deployed, usd, quote, books>>

\* Mutant: the new quote token is only compared with the token itself.
CompleteQuoteTokenUpdateNear(t) ==
    /\ t \in deployed \ {PathUSD}
    /\ nextQuote[t] \notin {t, ZeroAddress}
    /\ quote' = [quote EXCEPT ![t] = nextQuote[t]]
    /\ UNCHANGED <<deployed, usd, nextQuote, books>>

\* The walk from the staged token must reach pathUSD without meeting t.
CompleteQuoteTokenUpdate(t) ==
    /\ t \in deployed \ {PathUSD}
    /\ LET path == FindPathToRoot(nextQuote[t])
       IN  path # <<>> /\ t \notin ToSet(path)
    /\ quote' = [quote EXCEPT ![t] = nextQuote[t]]
    /\ UNCHANGED <<deployed, usd, nextQuote, books>>

CreatePair(t) ==
    /\ Cardinality(books) < MaxBooks
    /\ t \in deployed /\ quote[t] # ZeroAddress
    /\ t \in usd /\ quote[t] \in usd
    /\ <<t, quote[t]>> \notin books
    /\ books' = books \cup {<<t, quote[t]>>}
    /\ UNCHANGED <<deployed, usd, quote, nextQuote>>

QuoteNext ==
    \E t \in Coins :
        \/ \E q \in deployed \cup {ZeroAddress}, isUsd \in BOOLEAN :
              \/ CreateToken(t, q, isUsd)
              \/ CreateTokenReservedAddress(t, q, isUsd)
        \/ \E q \in deployed : SetNextQuoteToken(t, q)
        \/ CompleteQuoteTokenUpdate(t)
        \/ CreatePair(t)

----------------------------------------------------------------------------
(* Routes *)

\* validate_and_build_route: every hop has an order book in the direction of
\* the current quote token.
ValidRoute(path) ==
    \A i \in 1..Len(path) - 1 :
        LET in == path[i]
            out == path[i + 1]
        IN  IF quote[in] = out THEN <<in, out>> \in books
            ELSE quote[out] = in /\ <<out, in>> \in books

\* Mutant: the way down starts at pathUSD and not at the common ancestor.
FindTradePathByRoot(in, out) ==
    IF quote[in] = out \/ quote[out] = in THEN <<in, out>>
    ELSE FindPathToRoot(in) \o Tail(Reverse(FindPathToRoot(out)))

\* Down the quote tokens to the first one both chains share, and up again.
FindTradePath(in, out) ==
    IF quote[in] = out \/ quote[out] = in THEN <<in, out>>
    ELSE LET up == FindPathToRoot(in)
             down == FindPathToRoot(out)
             lca == SelectInSeq(up, LAMBDA t : t \in ToSet(down))
         IN  SubSeq(up, 1, lca)
             \o Reverse(SubSeq(down, 1, SelectInSeq(down, LAMBDA t : t = up[lca]) - 1))

----------------------------------------------------------------------------
(* Properties *)

\* However the admins interleave staging and completing, following quote
\* tokens never runs in a circle (complete_quote_token_update and
\* find_path_to_root walk them in an unbounded loop), ends at pathUSD or at
\* a token that has none, and stays in USD once it started there.
QuoteTreeSound ==
    \A t \in deployed :
        LET at == Walk(t)
            last == at[Cardinality(Coins) + 1]
        IN  /\ last \in {PathUSD, ZeroAddress}
            /\ t \in usd => \A n \in DOMAIN at : at[n] \in usd \cup {ZeroAddress}

\* No book in use leads from a token of S to one outside.
Separated(S) == \A t \in S, u \in deployed \ S : ~ValidRoute(<<t, u>>)

\* Between two tokens quoted down to pathUSD, the path find_trade_path tries
\* starts and ends right and visits no token twice; it lacks an order book
\* only when the books in use do not connect the two tokens at all.
RouteExact ==
    LET rooted == {t \in deployed : FindPathToRoot(t) # <<>>}
    IN  \A in, out \in rooted :
            in # out =>
                LET p == FindTradePath(in, out)
                IN  /\ Head(p) = in /\ Last(p) = out /\ IsInjective(p)
                    /\ \/ ValidRoute(p)
                       \/ \E S \in SUBSET (deployed \ {in, out}) : Separated(S \cup {in})

\* Quote tokens form a tree and every route over it is right
\* (complete_quote_token_update, find_trade_path).
RoutesSound == QuoteTreeSound /\ RouteExact
============================================================================
