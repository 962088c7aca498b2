-------------------------- MODULE AccountKeychain --------------------------
(***************************************************************************)
(* Tempo's account keychain: the access keys of one account, the spending  *)
(* limit of each key for one token (one-shot or renewed every period) and  *)
(* the tree of calls a key may make.  A transaction is signed by the root  *)
(* key or by an active access key; it may administer the keychain, spend,  *)
(* and have what it spent refunded.  Time and the hard fork move only      *)
(* between transactions.                                                   *)
(*                                                                         *)
(* The ghosts book and policy record what the account asked for: how much  *)
(* it granted a key for the current window and what the key spent of it,   *)
(* and the calls it last allowed.                                          *)
(***************************************************************************)
EXTENDS Integers, FiniteSets, FiniteSetsExt

CONSTANTS AccessKeys,      \* key ids other than the root key
          Root,            \* stands for transaction_key = 0
          Limits,          \* amounts a limit is set to, and amounts spent
          Periods,         \* period lengths offered; 0 is a one-shot limit
          Expiries,        \* expiry timestamps offered
          Targets,         \* contracts a scope may name
          Selectors,       \* their functions
          Recipients,      \* first arguments of those functions
          MaxTimestamp     \* bound on the block timestamp

ASSUME KeychainAssumption ==
    /\ Limits \subseteq Nat /\ Periods \subseteq Nat
    /\ Expiries \subseteq Nat \ {0}
    /\ MaxTimestamp \in Nat
    /\ Root \notin AccessKeys

VARIABLES keys,       \* AuthorizedKey of each key id
          limits,     \* SpendingLimitState of each key
          scopes,     \* KeyScope of each key
          signer,     \* the transaction's key (transient slot)
          paid,       \* what this transaction has spent under the key
          timestamp, spec,
          book, policy

keychainVars == <<keys, limits, scopes, signer, paid, timestamp, spec,
                  book, policy>>

\* The hard forks the code tells apart: T2, T3 (periods, scopes), T6 (admin
\* keys) and T7 (the marker of an exhausted periodic limit).
Specs == {2, 3, 6, 7}

Never == 1000            \* u64::MAX, the expiry of an admin key
MaxCapped == 1500        \* u128::MAX
Exhausted == 2000        \* ZERO_PERIODIC_REMAINING_SENTINEL, U256::MAX

NoKey == [expiry |-> 0, enforce |-> FALSE, revoked |-> FALSE, admin |-> FALSE]
NoLimit == [remaining |-> 0, max |-> 0, period |-> 0, end |-> 0]

\* The scope tree: the set of targets, the selectors under each target and
\* the recipients under each selector are stored separately, so that rows
\* of an absent target or selector may outlive it.
NoScope == [scoped |-> FALSE, targets |-> {},
            selectors |-> [t \in Targets |-> {}],
            recipients |-> [c \in Targets \X Selectors |-> {}]]

----------------------------------------------------------------------------
(* Keys *)

Active(k) == keys[k].expiry > timestamp /\ ~keys[k].revoked

IsAdminKey(k) == Active(k) /\ keys[k].admin

\* The caller is tx.origin, the account itself; another caller is refused.
EnsureAdminCaller == signer # Root => spec >= 6 /\ IsAdminKey(signer)

----------------------------------------------------------------------------
(* Call scopes *)

\* Mutant: the recipient rows of the cleared selectors stay.
ClearSelectorsOnly(sc, t) == [sc EXCEPT !.selectors[t] = {}]

ClearTargetSelectors(sc, t) ==
    [sc EXCEPT !.selectors[t] = {},
               !.recipients = [c \in DOMAIN @ |->
                   IF c[1] = t /\ c[2] \in sc.selectors[t] THEN {} ELSE @[c]]]

\* A rule maps the selectors it names to their recipients; a selector mapped
\* to {} may be called with any recipient, and the empty rule allows every
\* selector of the target.
Rules == UNION {[S -> SUBSET Recipients] : S \in SUBSET Selectors}

UpsertTargetScope(sc, t, rule) ==
    LET clear == ClearTargetSelectors([sc EXCEPT !.targets = @ \cup {t}], t)
    IN  [clear EXCEPT
            !.selectors[t] = DOMAIN rule,
            !.recipients = [c \in DOMAIN @ |->
                IF c[1] = t /\ c[2] \in DOMAIN rule
                   /\ (rule[c[2]] # {} \/ spec < 4)
                THEN rule[c[2]] ELSE @[c]]]

RemoveTargetScope(sc, t) ==
    IF t \in sc.targets
    THEN ClearTargetSelectors([sc EXCEPT !.targets = @ \ {t}], t)
    ELSE sc

ClearAllTargetScopes(sc) ==
    [sc EXCEPT
        !.targets = {},
        !.selectors = [t \in Targets |-> IF t \in sc.targets THEN {} ELSE @[t]],
        !.recipients = [c \in DOMAIN @ |->
            IF c[1] \in sc.targets /\ c[2] \in sc.selectors[c[1]]
            THEN {} ELSE @[c]]]

\* The calls offered: none listed (any call), deny all, or one rule for one
\* target.
AllowedCalls == {[any |-> TRUE, rules |-> <<>>], [any |-> FALSE, rules |-> <<>>]}
                \cup {[any |-> FALSE, rules |-> <<t, r>>] : t \in Targets, r \in Rules}

ReplaceAllowedCalls(sc, calls) ==
    LET clear == [ClearAllTargetScopes(sc) EXCEPT !.scoped = ~calls.any]
    IN  IF calls.rules = <<>> THEN clear
        ELSE UpsertTargetScope(clear, calls.rules[1], calls.rules[2])

\* validate_call_scope_for_transaction: one top-level call of target t.
CallAllowed(k, t, s, r) ==
    LET sc == scopes[k]
    IN  \/ ~sc.scoped
        \/ /\ t \in sc.targets
           /\ \/ sc.selectors[t] = {}
              \/ /\ s \in sc.selectors[t]
                 /\ sc.recipients[<<t, s>>] = {} \/ r \in sc.recipients[<<t, s>>]

\* What the account asked for: every call, or per target one of its rules.
Anything == [any |-> TRUE, rule |-> [t \in {} |-> <<>>]]

PolicyOf(calls) ==
    [any |-> calls.any,
     rule |-> IF calls.rules = <<>> THEN [t \in {} |-> <<>>]
              ELSE [t \in {calls.rules[1]} |-> calls.rules[2]]]

PolicyAllows(p, t, s, r) ==
    \/ p.any
    \/ /\ t \in DOMAIN p.rule
       /\ \/ DOMAIN p.rule[t] = {}
          \/ s \in DOMAIN p.rule[t] /\ (p.rule[t][s] = {} \/ r \in p.rule[t][s])

----------------------------------------------------------------------------
(* Spending limits *)

\* From T3 on a limit fits in the supply range of a token.
T3SpendingLimitCap(amount) == amount <= MaxCapped

Stored(remaining) == IF spec >= 7 /\ remaining = Exhausted THEN 0 ELSE remaining

ComputeNextPeriodEnd(lim) ==
    lim.end + lim.period * ((timestamp - lim.end) \div lim.period + 1)

\* effective_limit_state of an active key: what is left, and the window's end.
EffectiveLimitState(k) ==
    LET lim == limits[k]
    IN  CASE spec < 3 \/ lim.period = 0 -> <<lim.remaining, 0>>
          [] spec >= 3 /\ lim.period # 0 /\ timestamp < lim.end ->
                <<Stored(lim.remaining), lim.end>>
          [] OTHER -> <<lim.max, ComputeNextPeriodEnd(lim)>>

\* Mutant: the next window starts when it is first used.
RolledOverFromNow(lim) ==
    IF lim.period # 0 /\ timestamp >= lim.end
    THEN [lim EXCEPT !.end = timestamp + lim.period, !.remaining = lim.max]
    ELSE IF lim.period # 0 THEN [lim EXCEPT !.remaining = Stored(@)] ELSE lim

\* The limit after the roll-over of a finished window.
RolledOver(lim) ==
    IF lim.period # 0 /\ timestamp >= lim.end
    THEN [lim EXCEPT !.end = ComputeNextPeriodEnd(lim), !.remaining = lim.max]
    ELSE IF lim.period # 0 THEN [lim EXCEPT !.remaining = Stored(@)] ELSE lim

\* verify_and_update_spending, when the amount is within the limit.
Deduct(lim, amount) ==
    LET left == lim.remaining - amount
    IN  [lim EXCEPT !.remaining =
            IF lim.period # 0 /\ spec >= 7 /\ left = 0 THEN Exhausted ELSE left]

\* refund_spending_limit.
Refunded(lim, amount) ==
    LET back == IF lim.period # 0 THEN Stored(lim.remaining) + amount
                ELSE lim.remaining + amount
    IN  [lim EXCEPT !.remaining =
            IF spec < 3 \/ lim.max = 0 THEN back ELSE Min({back, lim.max})]

\* The account's own reckoning of the current window: a window starts every
\* period after the key was authorised, with the whole limit.
CurrentWindow(b) == IF b.period = 0 THEN 0 ELSE (timestamp - b.start) \div b.period

Current(b) ==
    IF CurrentWindow(b) = b.window THEN b
    ELSE [b EXCEPT !.window = CurrentWindow(b), !.granted = b.limit, !.spent = 0]

SpentBook(b, amount) == [Current(b) EXCEPT !.spent = @ + amount]

NoBook == [start |-> 0, period |-> 0, window |-> 0, limit |-> 0,
           granted |-> 0, spent |-> 0]

----------------------------------------------------------------------------
(* Transactions *)

KeychainInit ==
    /\ keys = [k \in AccessKeys |-> NoKey]
    /\ limits = [k \in AccessKeys |-> NoLimit]
    /\ scopes = [k \in AccessKeys |-> NoScope]
    /\ signer = Root /\ paid = 0
    /\ timestamp = 0 /\ spec \in Specs
    /\ book = [k \in AccessKeys |-> NoBook]
    /\ policy = [k \in AccessKeys |-> Anything]

\* The next transaction, in this block or a later one, perhaps past a fork;
\* an access key is validated before it runs.
BeginTransaction ==
    /\ timestamp' \in {t \in {timestamp, timestamp + 1} : t <= MaxTimestamp}
    /\ spec' \in {s \in Specs : s >= spec}
    /\ signer' \in {Root} \cup
           {k \in AccessKeys : keys[k].expiry > timestamp' /\ ~keys[k].revoked}
    /\ paid' = 0
    /\ UNCHANGED <<keys, limits, scopes, book, policy>>

Fresh(k) == keys[k].expiry = 0 /\ ~keys[k].revoked

\* authorize_key before T3: only the remaining amount is written.
AuthorizeKeyLegacy(k, expiry, enforce, amount) ==
    /\ spec < 3
    /\ EnsureAdminCaller /\ expiry > timestamp /\ Fresh(k)
    /\ keys' = [keys EXCEPT ![k] = [NoKey EXCEPT !.expiry = expiry,
                                                 !.enforce = enforce]]
    /\ limits' = IF enforce THEN [limits EXCEPT ![k].remaining = amount]
                 ELSE limits
    /\ book' = IF enforce
               THEN [book EXCEPT ![k].limit = amount, ![k].granted = amount]
               ELSE book
    /\ UNCHANGED <<scopes, signer, paid, timestamp, spec, policy>>

AuthorizeKey(k, expiry, enforce, amount, period, calls) ==
    /\ spec >= 3
    /\ EnsureAdminCaller /\ expiry > timestamp /\ Fresh(k)
    /\ enforce => T3SpendingLimitCap(amount)
    /\ keys' = [keys EXCEPT ![k] = [NoKey EXCEPT !.expiry = expiry,
                                                 !.enforce = enforce]]
    /\ limits' =
         IF enforce
         THEN [limits EXCEPT ![k] =
                  [remaining |-> amount, max |-> amount, period |-> period,
                   end |-> IF period = 0 THEN 0 ELSE timestamp + period]]
         ELSE limits
    /\ scopes' = [scopes EXCEPT ![k] = ReplaceAllowedCalls(@, calls)]
    /\ book' = IF enforce
               THEN [book EXCEPT ![k] =
                       [start |-> timestamp, period |-> period, window |-> 0,
                        limit |-> amount, granted |-> amount, spent |-> 0]]
               ELSE book
    /\ policy' = [policy EXCEPT ![k] = PolicyOf(calls)]
    /\ UNCHANGED <<signer, paid, timestamp, spec>>

AuthorizeAdminKey(k) ==
    /\ spec >= 6
    /\ EnsureAdminCaller /\ Fresh(k)
    /\ keys' = [keys EXCEPT ![k] = [NoKey EXCEPT !.expiry = Never,
                                                 !.admin = TRUE]]
    /\ UNCHANGED <<limits, scopes, signer, paid, timestamp, spec, book, policy>>

RevokeKey(k) ==
    /\ EnsureAdminCaller /\ keys[k].expiry # 0
    /\ keys' = [keys EXCEPT ![k] = [NoKey EXCEPT !.revoked = TRUE]]
    /\ UNCHANGED <<limits, scopes, signer, paid, timestamp, spec, book, policy>>

\* A new limit is available in full at once; period and window stay.
UpdateSpendingLimit(k, amount) ==
    /\ EnsureAdminCaller /\ Active(k) /\ ~keys[k].admin
    /\ spec >= 3 => T3SpendingLimitCap(amount)
    /\ keys' = [keys EXCEPT ![k].enforce = TRUE]
    /\ limits' = IF spec >= 3
                 THEN [limits EXCEPT ![k].remaining = amount, ![k].max = amount]
                 ELSE [limits EXCEPT ![k].remaining = amount]
    /\ book' = [book EXCEPT ![k] =
                  [Current(@) EXCEPT !.limit = amount, !.granted = amount,
                                     !.spent = 0]]
    /\ UNCHANGED <<scopes, signer, paid, timestamp, spec, policy>>

SetAllowedCalls(k, t, rule) ==
    /\ spec >= 3
    /\ EnsureAdminCaller /\ Active(k) /\ ~keys[k].admin
    /\ scopes' = [scopes EXCEPT ![k] =
                    [UpsertTargetScope(@, t, rule) EXCEPT !.scoped = TRUE]]
    /\ policy' = [policy EXCEPT ![k] =
          [any |-> FALSE,
           rule |-> [u \in DOMAIN @.rule \cup {t} |->
                        IF u = t THEN rule ELSE @.rule[u]]]]
    /\ UNCHANGED <<keys, limits, signer, paid, timestamp, spec, book>>

RemoveAllowedCalls(k, t) ==
    /\ spec >= 3
    /\ EnsureAdminCaller /\ Active(k) /\ ~keys[k].admin
    /\ scopes[k].scoped
    /\ scopes' = [scopes EXCEPT ![k] = RemoveTargetScope(@, t)]
    /\ policy' = [policy EXCEPT ![k].rule =
                    [u \in DOMAIN @ \ {t} |-> @[u]]]
    /\ UNCHANGED <<keys, limits, signer, paid, timestamp, spec, book>>

\* authorize_transfer, and authorize_approve for an increase.
Spend(amount) ==
    /\ signer # Root
    /\ Active(signer) /\ keys[signer].enforce
    /\ LET lim == IF spec >= 3 THEN RolledOver(limits[signer])
                  ELSE limits[signer]
       IN  /\ amount <= lim.remaining
           /\ limits' = [limits EXCEPT ![signer] = Deduct(lim, amount)]
    /\ paid' = paid + amount
    /\ book' = [book EXCEPT ![signer] = SpentBook(@, amount)]
    /\ UNCHANGED <<keys, scopes, signer, timestamp, spec, policy>>

\* The fee handler gives back what the transaction did not use; the amount
\* is at most what it was charged.
Refund(amount) ==
    /\ signer # Root
    /\ amount \in 1..paid
    /\ Active(signer) /\ keys[signer].enforce
    /\ limits' = [limits EXCEPT ![signer] = Refunded(@, amount)]
    /\ paid' = paid - amount
    /\ book' = [book EXCEPT ![signer].spent = @ - amount]
    /\ UNCHANGED <<keys, scopes, signer, timestamp, spec, policy>>

KeychainNext ==
    \/ BeginTransaction
    \/ \E k \in AccessKeys :
          \/ \E e \in Expiries, b \in BOOLEAN, a \in Limits :
                \/ AuthorizeKeyLegacy(k, e, b, a)
                \/ \E p \in Periods, c \in AllowedCalls :
                       AuthorizeKey(k, e, b, a, p, c)
          \/ AuthorizeAdminKey(k)
          \/ RevokeKey(k)
          \/ \E a \in Limits : UpdateSpendingLimit(k, a)
          \/ \E t \in Targets :
                \/ \E r \in Rules : SetAllowedCalls(k, t, r)
                \/ RemoveAllowedCalls(k, t)
    \/ \E a \in Limits : Spend(a) \/ Refund(a)

KeychainSpec == KeychainInit /\ [][KeychainNext]_keychainVars

----------------------------------------------------------------------------
(* Properties *)

\* What get_remaining_limit_with_period reports for an active key is exactly
\* what the account granted it for the current window less what it has spent
\* there, and the window ends where the key's periods end: through spends,
\* refunds, roll-overs of several windows at once, changes of the limit, rows
\* written before T3 without a maximum, and the T7 marker of an empty limit.
RemainingExact ==
    \A k \in AccessKeys :
        Active(k) /\ keys[k].enforce =>
            LET b == Current(book[k])
            IN  EffectiveLimitState(k) =
                    <<b.granted - b.spent,
                      IF b.period = 0 THEN 0
                      ELSE b.start + b.period * (b.window + 1)>>

\* A call of an active key passes validate_call_scope_for_transaction exactly
\* when the account's latest word on that target allows it: rows that an
\* earlier rule left in the scope tree neither widen nor narrow a later one.
ScopeExact ==
    \A k \in AccessKeys, t \in Targets, s \in Selectors, r \in Recipients :
        Active(k) => (CallAllowed(k, t, s, r) <=> PolicyAllows(policy[k], t, s, r))

\* A key may do and spend exactly what the account last granted it
\* (verify_and_update_spending, validate_call_scope_for_transaction).
GrantsExact == RemainingExact /\ ScopeExact

----------------------------------------------------------------------------
(* What the steps preserve *)

KeyRecords == [expiry : Nat, enforce : BOOLEAN, revoked : BOOLEAN, admin : BOOLEAN]
LimitRows == [remaining : Nat, max : Nat, period : Nat, end : Nat]
LimitBooks == [start : Nat, period : Nat, window : Nat, limit : Nat,
               granted : Nat, spent : Nat]
ScopeTrees == [scoped : BOOLEAN, targets : SUBSET Targets,
               selectors : [Targets -> SUBSET Selectors],
               recipients : [Targets \X Selectors -> SUBSET Recipients]]
CallPolicies == [any : BOOLEAN, rule : UNION {[T -> Rules] : T \in SUBSET Targets}]

KeychainTypes ==
    /\ keys \in [AccessKeys -> KeyRecords]
    /\ limits \in [AccessKeys -> LimitRows]
    /\ scopes \in [AccessKeys -> ScopeTrees]
    /\ signer \in AccessKeys \cup {Root} /\ paid \in Nat
    /\ timestamp \in Nat /\ spec \in Specs
    /\ book \in [AccessKeys -> LimitBooks]
    /\ policy \in [AccessKeys -> CallPolicies]

\* A limit's row is that of window j of the account's book.
RowOf(lim, b, j) == lim.end = b.start + b.period * (j + 1)

\* What is left of a limit is what the book says, or the marker of nothing.
LeftIs(lim, b) ==
    \/ lim.remaining = b.granted - b.spent
    \/ spec >= 7 /\ lim.remaining = Exhausted /\ b.spent = b.granted

\* A limit's row and the book agree, or the row is of an earlier window of which
\* only the new limit is of interest (update_spending_limit does not roll over).
RowRight(lim, b) ==
    /\ lim.period = b.period
    /\ b.spent <= b.granted
    /\ b.period = 0 => /\ b.window = 0 /\ lim.remaining = b.granted - b.spent
                       /\ lim.max = 0 \/ (spec >= 3 /\ lim.max = b.granted)
    /\ b.period # 0 =>
          /\ spec >= 3 /\ b.start <= timestamp /\ b.window <= CurrentWindow(b)
          /\ lim.max = b.limit /\ b.granted = b.limit /\ b.granted < Exhausted
          /\ \E j \in 0..b.window :
                /\ RowOf(lim, b, j)
                /\ j < b.window => b.spent = 0
                /\ j = b.window => LeftIs(lim, b)

\* A key's row is written when the key is authorised with a limit or gets one;
\* an admin key has none.
KeyRight(key, lim, b) ==
    /\ key.enforce => ~key.admin
    /\ key.expiry = 0 => ~key.enforce
    /\ ~key.revoked =>
          /\ RowRight(lim, b)
          /\ ~key.enforce => lim = NoLimit /\ b = NoBook

\* What a transaction has spent was spent in the current window, by a key that
\* cannot administer.
PaidRight ==
    paid > 0 => /\ signer \in AccessKeys
                /\ ~keys[signer].admin /\ ~keys[signer].revoked
                /\ paid <= book[signer].spent
                /\ CurrentWindow(book[signer]) = book[signer].window
                /\ book[signer].period # 0 =>
                      RowOf(limits[signer], book[signer], book[signer].window)

\* The scope tree is the policy's, and has no rows of absent targets or
\* selectors.
ScopeRight(sc, p) ==
    /\ sc.scoped = ~p.any /\ DOMAIN p.rule = sc.targets
    /\ \A t \in Targets \ sc.targets : sc.selectors[t] = {}
    /\ \A t \in Targets : \A s \in Selectors \ sc.selectors[t] :
          sc.recipients[<<t, s>>] = {}
    /\ \A t \in sc.targets :
          /\ DOMAIN p.rule[t] = sc.selectors[t]
          /\ \A s \in sc.selectors[t] : p.rule[t][s] = sc.recipients[<<t, s>>]

KeychainInv ==
    /\ KeychainTypes
    /\ \A k \in AccessKeys : /\ KeyRight(keys[k], limits[k], book[k])
                             /\ ScopeRight(scopes[k], policy[k])
    /\ PaidRight
============================================================================
