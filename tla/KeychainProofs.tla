--------------------------- MODULE KeychainProofs ---------------------------
(***************************************************************************)
(* Proofs about Tempo's account keychain: arithmetic of windows, then the  *)
(* rows of a limit, the scope trees, and one lemma per operation.          *)
(***************************************************************************)
EXTENDS AccountKeychain, TLAPS

\* The quotient of a natural number, told from its bounds.
LEMMA Quotient ==
  ASSUME NEW x \in Nat, NEW p \in Nat, p # 0
  PROVE  x \div p \in Nat /\ p * (x \div p) <= x /\ x < p * ((x \div p) + 1)
OBVIOUS

\* Multiples of a natural number.
LEMMA Products ==
  ASSUME NEW p \in Nat, NEW q \in Nat, NEW r \in Nat
  PROVE  /\ p * q \in Nat /\ p * (q + r) = p * q + p * r
         /\ q <= r => p * q <= p * r
OBVIOUS

\* The bounds of ComputeNextPeriodEnd's quotient determine it.
LEMMA QuotientIs ==
  ASSUME NEW x \in Nat, NEW p \in Nat, p # 0, NEW q \in Nat, p * q <= x, x < p * (q + 1)
  PROVE  x \div p = q
<1>1. x \div p \in Nat /\ p * (x \div p) <= x /\ x < p * ((x \div p) + 1)
  BY Quotient
<1> DEFINE d == x \div p
<1> HIDE DEF d
<1>2. d \in Nat /\ p * d <= x /\ x < p * (d + 1)
  BY <1>1 DEF d
<1>3. ~(d < q)
  <2> SUFFICES ASSUME d < q PROVE FALSE
    OBVIOUS
  <2>1. p * (d + 1) <= p * q
    BY <1>2, Products
  <2> QED
    BY <1>2, <2>1, Products
<1>4. ~(q < d)
  <2> SUFFICES ASSUME q < d PROVE FALSE
    OBVIOUS
  <2>1. p * (q + 1) <= p * d
    BY <1>2, Products
  <2> QED
    BY <1>2, <2>1, Products
<1> QED
  BY <1>2, <1>3, <1>4 DEF d

\* The lesser of two numbers.
LEMMA MinIs ==
  ASSUME NEW a \in Nat, NEW b \in Nat, a <= b PROVE Min({a, b}) = a
BY DEF Min

\* The window of a time x after the first one began, and the end of that window
\* reckoned from the end of an earlier one.
LEMMA Windows ==
  ASSUME NEW x \in Nat, NEW p \in Nat, p # 0, NEW j \in Nat
  PROVE  /\ x \div p \in Nat
         /\ x < p * (j + 1) => x \div p <= j
         /\ x >= p * (j + 1) =>
               /\ j < x \div p
               /\ p * (j + 1) + p * ((x - p * (j + 1)) \div p + 1) = p * (x \div p + 1)
<1> DEFINE w == x \div p
<1>1. w \in Nat /\ p * w <= x /\ x < p * (w + 1)
  BY Quotient
<1> HIDE DEF w
<1>2. ASSUME x < p * (j + 1) PROVE w <= j
  <2> SUFFICES ASSUME j + 1 <= w PROVE FALSE
    BY <1>1
  <2>1. p * (j + 1) <= p * w
    BY <1>1, Products
  <2> QED
    BY <1>1, <1>2, <2>1, Products
<1>3. ASSUME x >= p * (j + 1) PROVE j < w
  <2> SUFFICES ASSUME w + 1 <= j + 1 PROVE FALSE
    BY <1>1
  <2>1. p * (w + 1) <= p * (j + 1)
    BY <1>1, Products
  <2> QED
    BY <1>1, <1>3, <2>1, Products
<1>4. ASSUME x >= p * (j + 1)
      PROVE  p * (j + 1) + p * ((x - p * (j + 1)) \div p + 1) = p * (w + 1)
  <2> DEFINE d == w - (j + 1)
             y == x - p * (j + 1)
  <2>1. d \in Nat /\ d + (j + 1) = w
    BY <1>1, <1>3, <1>4
  <2>2. y \in Nat /\ y + p * (j + 1) = x
    BY <1>4, Products
  <2> HIDE DEF d, y
  <2>3. p * w = p * (j + 1) + p * d /\ p * (w + 1) = p * w + p /\ p * (d + 1) = p * d + p
    BY <1>1, <2>1, Products
  <2>4. p * d \in Nat /\ p * (j + 1) \in Nat
    BY <2>1, Products
  <2>5. p * d <= y /\ y < p * (d + 1)
    BY <1>1, <2>2, <2>3, <2>4
  <2>6. y \div p = d
    BY <2>1, <2>2, <2>5, QuotientIs
  <2>7. p * (j + 1) + p * (d + 1) = p * (w + 1)
    BY <2>3, <2>4
  <2> QED
    BY <2>6, <2>7 DEF y
<1> QED
  BY <1>1, <1>2, <1>3, <1>4 DEF w

----------------------------------------------------------------------------

\* The account's book of the current window.
LEMMA CurrentFacts ==
  ASSUME NEW b \in LimitBooks, timestamp \in Nat, b.period # 0 => b.start <= timestamp
  PROVE  /\ CurrentWindow(b) \in Nat /\ Current(b) \in LimitBooks
         /\ Current(b).start = b.start /\ Current(b).period = b.period
         /\ Current(b).window = CurrentWindow(b) /\ Current(b).limit = b.limit
         /\ CurrentWindow(Current(b)) = CurrentWindow(b)
         /\ CurrentWindow(b) = b.window => Current(b) = b
         /\ CurrentWindow(b) # b.window =>
               Current(b).granted = b.limit /\ Current(b).spent = 0
<1>1. b.start \in Nat /\ b.period \in Nat /\ b.limit \in Nat /\ b.window \in Nat
  BY DEF LimitBooks
<1>2. CurrentWindow(b) \in Nat
  <2>1. CASE b.period = 0
    BY <2>1 DEF CurrentWindow
  <2>2. CASE b.period # 0
    <3>1. timestamp - b.start \in Nat
      BY <1>1, <2>2
    <3>2. (timestamp - b.start) \div b.period \in Nat
      BY <1>1, <2>2, <3>1, Quotient
    <3> QED
      BY <2>2, <3>2 DEF CurrentWindow
  <2> QED
    BY <2>1, <2>2
<1> DEFINE w == CurrentWindow(b)
           c == [b EXCEPT !.window = w, !.granted = b.limit, !.spent = 0]
<1>3. /\ c \in LimitBooks /\ c.start = b.start /\ c.period = b.period /\ c.window = w
      /\ c.limit = b.limit /\ c.granted = b.limit /\ c.spent = 0
  <2> HIDE DEF w
  <2>1. w \in Nat
    BY <1>2 DEF w
  <2> QED
    BY Zenon, <1>1, <2>1 DEF LimitBooks
<1>4. CurrentWindow(c) = CurrentWindow(b)
  BY <1>3 DEF CurrentWindow
<1>5. Current(b) = IF w = b.window THEN b ELSE c
  BY DEF Current
<1> HIDE DEF c
<1>6. CASE w = b.window
  BY Zenon, <1>2, <1>5, <1>6
<1>7. CASE w # b.window
  <2>1. Current(b) = c
    BY Zenon, <1>5, <1>7
  <2> QED
    BY Zenon, <1>2, <1>3, <1>4, <1>7, <2>1
<1> QED
  BY <1>6, <1>7

\* The row of a periodic limit at the current time, and the book.
LEMMA RowFacts ==
  ASSUME NEW lim \in LimitRows, NEW b \in LimitBooks, timestamp \in Nat,
         RowRight(lim, b), b.period # 0
  PROVE  /\ timestamp < lim.end =>
               /\ CurrentWindow(b) = b.window
               /\ RowOf(lim, b, b.window) /\ LeftIs(lim, b)
         /\ timestamp >= lim.end =>
               /\ Current(b).spent = 0
               /\ ComputeNextPeriodEnd(lim) = b.start + b.period * (CurrentWindow(b) + 1)
<1>1. /\ lim.period = b.period /\ b.start <= timestamp /\ b.window <= CurrentWindow(b)
      /\ lim.end \in Nat /\ b.start \in Nat /\ b.period \in Nat /\ b.window \in Nat
  BY DEF RowRight, LimitBooks, LimitRows
<1>2. PICK j \in 0..b.window : /\ RowOf(lim, b, j)
                               /\ j < b.window => b.spent = 0
                               /\ j = b.window => LeftIs(lim, b)
  BY DEF RowRight
<1> DEFINE x == timestamp - b.start
           p == b.period
           w == CurrentWindow(b)
<1>3. x \in Nat /\ p \in Nat /\ p # 0 /\ j \in Nat /\ j <= b.window /\ w = x \div p
  BY <1>1 DEF CurrentWindow
<1>4. lim.end = b.start + p * (j + 1) /\ p * (j + 1) \in Nat
  BY <1>2, <1>3, Products DEF RowOf
<1>5. timestamp = b.start + x /\ timestamp - lim.end = x - p * (j + 1)
  BY <1>1, <1>3, <1>4
<1> HIDE DEF x, p, w
<1>6. /\ w \in Nat
      /\ x < p * (j + 1) => w <= j
      /\ x >= p * (j + 1) =>
            j < w /\ p * (j + 1) + p * ((x - p * (j + 1)) \div p + 1) = p * (w + 1)
  BY Zenon, <1>3, Windows
<1>7. ASSUME timestamp < lim.end
      PROVE  w = b.window /\ RowOf(lim, b, b.window) /\ LeftIs(lim, b)
  <2>1. x < p * (j + 1)
    BY <1>1, <1>3, <1>4, <1>5, <1>7
  <2>2. w = b.window /\ j = b.window
    BY <1>1, <1>3, <1>6, <2>1 DEF w
  <2> QED
    BY Zenon, <1>2, <2>2
<1>8. ASSUME timestamp >= lim.end
      PROVE  /\ Current(b).spent = 0
             /\ ComputeNextPeriodEnd(lim) = b.start + p * (w + 1)
  <2>1. x >= p * (j + 1)
    BY <1>1, <1>3, <1>4, <1>5, <1>8
  <2>2. Current(b).spent = 0
    <3>1. CASE w = b.window
      <4>1. b.spent = 0
        BY <1>2, <1>3, <1>6, <2>1, <3>1
      <4> QED
        BY <3>1, <4>1, CurrentFacts, <1>1 DEF w
    <3>2. CASE w # b.window
      BY Zenon, <1>1, <3>2, CurrentFacts DEF w
    <3> QED
      BY <3>1, <3>2
  <2>3. ComputeNextPeriodEnd(lim) = lim.end + p * ((x - p * (j + 1)) \div p + 1)
    BY <1>1, <1>5 DEF ComputeNextPeriodEnd, p
  <2>4. (x - p * (j + 1)) \div p \in Nat
    <3>1. x - p * (j + 1) \in Nat
      BY <1>3, <1>4, <2>1
    <3> QED
      BY <1>3, <3>1, Quotient
  <2>5. /\ p * ((x - p * (j + 1)) \div p + 1) \in Nat /\ p * (w + 1) \in Nat
        /\ p * (j + 1) + p * ((x - p * (j + 1)) \div p + 1) = p * (w + 1)
    BY <1>3, <1>6, <2>1, <2>4, Products
  <2> QED
    BY <1>1, <1>4, <2>2, <2>3, <2>5
<1> QED
  BY Zenon, <1>7, <1>8 DEF w, p

\* What is left of a limit after a roll-over is what the account's book says.
LEMMA RolledFacts ==
  ASSUME NEW lim \in LimitRows, NEW b \in LimitBooks, timestamp \in Nat, spec \in Specs,
         RowRight(lim, b),
         NEW r, r = RolledOver(lim), NEW c, c = Current(b)
  PROVE  /\ r \in LimitRows /\ c \in LimitBooks
         /\ r.period = b.period /\ c.period = b.period /\ c.start = b.start
         /\ r.remaining = c.granted - c.spent
         /\ c.spent <= c.granted
         /\ c.window = CurrentWindow(b) /\ CurrentWindow(c) = CurrentWindow(b)
         /\ b.period = 0 => r = lim /\ c = b
         /\ b.period # 0 => /\ r.max = c.limit /\ c.granted = c.limit
                            /\ c.granted < Exhausted /\ RowOf(r, c, c.window)
<1>1. /\ lim.period = b.period /\ b.spent <= b.granted
      /\ b.period = 0 => b.window = 0 /\ lim.remaining = b.granted - b.spent
      /\ b.period # 0 => /\ b.start <= timestamp /\ lim.max = b.limit
                         /\ b.granted = b.limit /\ b.granted < Exhausted /\ spec >= 3
  BY Zenon DEF RowRight
<1>2. /\ lim.remaining \in Nat /\ lim.max \in Nat /\ lim.period \in Nat /\ lim.end \in Nat
      /\ b.start \in Nat /\ b.period \in Nat /\ b.window \in Nat /\ b.limit \in Nat
      /\ b.granted \in Nat /\ b.spent \in Nat
  BY DEF LimitRows, LimitBooks
<1>3. /\ CurrentWindow(b) \in Nat /\ c \in LimitBooks
      /\ c.start = b.start /\ c.period = b.period
      /\ c.window = CurrentWindow(b) /\ c.limit = b.limit
      /\ CurrentWindow(c) = CurrentWindow(b)
      /\ CurrentWindow(b) = b.window => c = b
      /\ CurrentWindow(b) # b.window => c.granted = b.limit /\ c.spent = 0
  BY Zenon, <1>1, CurrentFacts
<1>4. CASE b.period = 0
  <2>1. r = lim
    BY <1>1, <1>4 DEF RolledOver
  <2>2. CurrentWindow(b) = b.window
    BY <1>1, <1>4 DEF CurrentWindow
  <2> QED
    BY Zenon, <1>1, <1>3, <1>4, <2>1, <2>2
<1>5. CASE b.period # 0
  <2>0. /\ c.granted = c.limit /\ c.granted = b.granted /\ c.spent <= c.granted
        /\ c.granted < Exhausted
    BY <1>1, <1>2, <1>3, <1>5
  <2>1. CASE timestamp < lim.end
    <3>1. CurrentWindow(b) = b.window /\ RowOf(lim, b, b.window) /\ LeftIs(lim, b)
      BY Zenon, <1>5, <2>1, RowFacts
    <3>2. r = [lim EXCEPT !.remaining = Stored(@)]
      BY <1>1, <1>2, <1>5, <2>1 DEF RolledOver
    <3>3. Stored(lim.remaining) = b.granted - b.spent
      BY <1>1, <1>2, <1>5, <3>1 DEF Stored, LeftIs, Exhausted
    <3>4. /\ r \in LimitRows /\ r.period = lim.period /\ r.max = lim.max
          /\ r.end = lim.end /\ r.remaining = b.granted - b.spent
      <4>1. b.granted - b.spent \in Nat
        BY <1>1, <1>2
      <4> QED
        BY <3>2, <3>3, <4>1 DEF LimitRows
    <3>5. RowOf(r, b, b.window)
      BY <3>1, <3>4 DEF RowOf
    <3> QED
      BY Zenon, <1>1, <1>3, <1>5, <2>0, <3>1, <3>4, <3>5
  <2>2. CASE timestamp >= lim.end
    <3>1. /\ c.spent = 0
          /\ ComputeNextPeriodEnd(lim) = b.start + b.period * (CurrentWindow(b) + 1)
      BY Zenon, <1>5, <2>2, RowFacts
    <3> DEFINE e == b.start + b.period * (CurrentWindow(b) + 1)
    <3>2. e \in Nat
      BY <1>2, <1>3, Products
    <3>3. r = [lim EXCEPT !.end = e, !.remaining = lim.max]
      BY <1>1, <1>2, <1>5, <2>2, <3>1 DEF RolledOver
    <3> HIDE DEF e
    <3>4. /\ r \in LimitRows /\ r.period = lim.period /\ r.max = lim.max
          /\ r.end = e /\ r.remaining = lim.max
      BY Zenon, <1>2, <3>2, <3>3 DEF LimitRows
    <3>5. RowOf(r, c, c.window)
      BY <1>3, <3>4 DEF RowOf, e
    <3>6. r.remaining = c.granted - c.spent
      BY <1>1, <1>2, <1>5, <2>0, <3>1, <3>4
    <3> QED
      BY Zenon, <1>1, <1>3, <1>5, <2>0, <3>4, <3>5, <3>6
  <2> QED
    BY <1>2, <2>1, <2>2
<1> QED
  BY <1>4, <1>5

\* get_remaining_limit_with_period says what a roll-over would write.
LEMMA EffectiveFacts ==
  ASSUME NEW k \in AccessKeys, limits[k] \in LimitRows, book[k] \in LimitBooks,
         timestamp \in Nat, spec \in Specs, RowRight(limits[k], book[k]),
         NEW b, b = Current(book[k])
  PROVE  EffectiveLimitState(k) =
            <<b.granted - b.spent,
              IF b.period = 0 THEN 0 ELSE b.start + b.period * (b.window + 1)>>
<1> DEFINE lim == limits[k]
<1>0. PICK r : r = RolledOver(lim)
  OBVIOUS
<1>1. /\ r \in LimitRows /\ b \in LimitBooks
      /\ r.period = book[k].period /\ b.period = book[k].period
      /\ r.remaining = b.granted - b.spent
      /\ book[k].period = 0 => r = lim
      /\ book[k].period # 0 => RowOf(r, b, b.window)
  <2> HIDE DEF lim
  <2>1. lim \in LimitRows /\ RowRight(lim, book[k])
    BY DEF lim
  <2> QED
    BY <1>0, <2>1, RolledFacts
<1>2. /\ lim.period = book[k].period /\ lim.period \in Nat /\ lim.end \in Nat
      /\ book[k].period # 0 => spec >= 3
  BY DEF RowRight, LimitRows
<1>3. CASE lim.period = 0
  BY <1>1, <1>2, <1>3 DEF EffectiveLimitState
<1>4. CASE lim.period # 0 /\ timestamp < lim.end
  <2>1. EffectiveLimitState(k) = <<Stored(lim.remaining), lim.end>>
    BY <1>2, <1>4 DEF EffectiveLimitState, Specs
  <2>2. r = [lim EXCEPT !.remaining = Stored(@)]
    BY <1>0, <1>2, <1>4 DEF RolledOver
  <2>3. r.remaining = Stored(lim.remaining) /\ r.end = lim.end
    BY <2>2 DEF LimitRows
  <2> QED
    BY <1>1, <1>2, <1>4, <2>1, <2>3 DEF RowOf
<1>5. CASE lim.period # 0 /\ ~(timestamp < lim.end)
  <2>1. EffectiveLimitState(k) = <<lim.max, ComputeNextPeriodEnd(lim)>>
    BY <1>2, <1>5 DEF EffectiveLimitState, Specs
  <2>2. r = [lim EXCEPT !.end = ComputeNextPeriodEnd(lim), !.remaining = lim.max]
    BY <1>0, <1>2, <1>5 DEF RolledOver
  <2>3. r.remaining = lim.max /\ r.end = ComputeNextPeriodEnd(lim)
    BY <2>2 DEF LimitRows
  <2> QED
    BY <1>1, <1>2, <1>5, <2>1, <2>3 DEF RowOf
<1> QED
  BY <1>3, <1>4, <1>5

\* The invariant says what is to be proved.
LEMMA GrantsFollow ==
  ASSUME KeychainInv PROVE GrantsExact
<1>1. RemainingExact
  <2> SUFFICES ASSUME NEW k \in AccessKeys, Active(k), keys[k].enforce
               PROVE  EffectiveLimitState(k) =
                         <<Current(book[k]).granted - Current(book[k]).spent,
                           IF Current(book[k]).period = 0 THEN 0
                           ELSE Current(book[k]).start
                                + Current(book[k]).period * (Current(book[k]).window + 1)>>
    BY Zenon DEF RemainingExact
  <2>1. limits[k] \in LimitRows /\ book[k] \in LimitBooks /\ timestamp \in Nat /\ spec \in Specs
    BY DEF KeychainInv, KeychainTypes
  <2>2. RowRight(limits[k], book[k])
    BY Zenon DEF KeychainInv, KeyRight, Active
  <2> QED
    BY Zenon, <2>1, <2>2, EffectiveFacts
<1>2. ScopeExact
  <2> SUFFICES ASSUME NEW k \in AccessKeys, NEW t \in Targets, NEW s \in Selectors,
                      NEW r \in Recipients
               PROVE  CallAllowed(k, t, s, r) <=> PolicyAllows(policy[k], t, s, r)
    BY Zenon DEF ScopeExact
  <2>1. ScopeRight(scopes[k], policy[k])
    BY Zenon DEF KeychainInv
  <2>2. scopes[k] \in ScopeTrees /\ policy[k] \in CallPolicies
    BY DEF KeychainInv, KeychainTypes
  <2> QED
    BY <2>1, <2>2 DEF ScopeRight, CallAllowed, PolicyAllows, ScopeTrees, CallPolicies
<1> QED
  BY <1>1, <1>2 DEF GrantsExact

----------------------------------------------------------------------------

\* A rule names selectors and gives each its recipients.
LEMMA RuleFacts ==
  ASSUME NEW rule \in Rules
  PROVE  /\ DOMAIN rule \subseteq Selectors
         /\ \A s \in DOMAIN rule : rule[s] \in SUBSET Recipients
BY DEF Rules

\* Tree q is tree sc without the selectors of target t.
Cleared(sc, t, q) ==
  /\ q \in ScopeTrees /\ q.scoped = sc.scoped /\ q.targets = sc.targets
  /\ \A u \in Targets : q.selectors[u] = IF u = t THEN {} ELSE sc.selectors[u]
  /\ \A u \in Targets, s \in Selectors :
        q.recipients[<<u, s>>] =
           IF u = t /\ s \in sc.selectors[t] THEN {} ELSE sc.recipients[<<u, s>>]

\* This is what clear_target_selectors computes.
LEMMA ClearIs ==
  ASSUME NEW sc \in ScopeTrees, NEW t \in Targets
  PROVE  Cleared(sc, t, ClearTargetSelectors(sc, t))
<1>0. PICK q : q = ClearTargetSelectors(sc, t)
  OBVIOUS
<1> DEFINE R == [c \in Targets \X Selectors |->
                   IF c[1] = t /\ c[2] \in sc.selectors[t] THEN {} ELSE sc.recipients[c]]
           S == [sc.selectors EXCEPT ![t] = {}]
<1>1. sc.selectors \in [Targets -> SUBSET Selectors]
      /\ sc.recipients \in [Targets \X Selectors -> SUBSET Recipients]
      /\ sc.scoped \in BOOLEAN /\ sc.targets \in SUBSET Targets
  BY DEF ScopeTrees
<1>2. S \in [Targets -> SUBSET Selectors] /\ R \in [Targets \X Selectors -> SUBSET Recipients]
  BY <1>1
<1>3. \A u \in Targets : S[u] = IF u = t THEN {} ELSE sc.selectors[u]
  BY <1>1
<1>4. \A u \in Targets, s \in Selectors :
         R[<<u, s>>] = IF u = t /\ s \in sc.selectors[t] THEN {} ELSE sc.recipients[<<u, s>>]
  OBVIOUS
<1>5. q = [sc EXCEPT !.selectors = S, !.recipients = R]
  BY Zenon, <1>0, <1>1 DEF ClearTargetSelectors, ScopeTrees
<1> HIDE DEF S, R
<1>6. /\ q \in ScopeTrees /\ q.scoped = sc.scoped /\ q.targets = sc.targets
      /\ q.selectors = S /\ q.recipients = R
  BY Zenon, <1>2, <1>5 DEF ScopeTrees
<1> QED
  BY Zenon, <1>0, <1>3, <1>4, <1>6 DEF Cleared

\* Tree q is tree sc with this rule for target t.
Upserted(sc, t, rule, q) ==
  /\ q \in ScopeTrees /\ q.scoped = sc.scoped /\ q.targets = sc.targets \cup {t}
  /\ \A u \in Targets : q.selectors[u] = IF u = t THEN DOMAIN rule ELSE sc.selectors[u]
  /\ \A u \in Targets \ {t}, s \in Selectors :
        q.recipients[<<u, s>>] = sc.recipients[<<u, s>>]
  /\ \A s \in Selectors :
        q.recipients[<<t, s>>] = IF s \in DOMAIN rule THEN rule[s] ELSE {}

\* This is what upsert_target_scope computes, if no row is left of a selector
\* that the target does not have.
LEMMA UpsertIs ==
  ASSUME NEW sc \in ScopeTrees, NEW t \in Targets, NEW rule \in Rules,
         \A s \in Selectors \ sc.selectors[t] : sc.recipients[<<t, s>>] = {}
  PROVE  Upserted(sc, t, rule, UpsertTargetScope(sc, t, rule))
<1>0. PICK q : q = UpsertTargetScope(sc, t, rule)
  OBVIOUS
<1>1. PICK a : a = [sc EXCEPT !.targets = @ \cup {t}]
  BY Zenon
<1>2. /\ a \in ScopeTrees /\ a.scoped = sc.scoped /\ a.targets = sc.targets \cup {t}
      /\ a.selectors = sc.selectors /\ a.recipients = sc.recipients
  BY <1>1 DEF ScopeTrees
<1>3. PICK c : c = ClearTargetSelectors(a, t)
  OBVIOUS
<1>4. /\ c \in ScopeTrees /\ c.scoped = sc.scoped /\ c.targets = sc.targets \cup {t}
      /\ \A u \in Targets : c.selectors[u] = IF u = t THEN {} ELSE sc.selectors[u]
      /\ \A u \in Targets, s \in Selectors :
            c.recipients[<<u, s>>] =
               IF u = t /\ s \in sc.selectors[t] THEN {} ELSE sc.recipients[<<u, s>>]
  <2>1. Cleared(a, t, c)
    BY Zenon, <1>2, <1>3, ClearIs
  <2> QED
    BY <1>2, <2>1 DEF Cleared
<1>5. \A s \in Selectors : c.recipients[<<t, s>>] = {}
  BY <1>4
<1>6. /\ c.selectors \in [Targets -> SUBSET Selectors]
      /\ c.recipients \in [Targets \X Selectors -> SUBSET Recipients]
      /\ c.scoped \in BOOLEAN /\ c.targets \in SUBSET Targets
  BY <1>4 DEF ScopeTrees
<1> DEFINE S == [c.selectors EXCEPT ![t] = DOMAIN rule]
           R == [d \in Targets \X Selectors |->
                   IF d[1] = t /\ d[2] \in DOMAIN rule /\ (rule[d[2]] # {} \/ spec < 4)
                   THEN rule[d[2]] ELSE c.recipients[d]]
<1>7. q = [c EXCEPT !.selectors = S, !.recipients = R]
  BY Zenon, <1>0, <1>1, <1>3, <1>4, <1>6 DEF UpsertTargetScope, ScopeTrees
<1>8. S \in [Targets -> SUBSET Selectors] /\ R \in [Targets \X Selectors -> SUBSET Recipients]
  BY <1>6, RuleFacts
<1>9. \A u \in Targets : S[u] = IF u = t THEN DOMAIN rule ELSE sc.selectors[u]
  BY <1>4, <1>6
<1>10. \A u \in Targets \ {t}, s \in Selectors : R[<<u, s>>] = sc.recipients[<<u, s>>]
  BY Zenon, <1>4
<1>11. \A s \in Selectors : R[<<t, s>>] = IF s \in DOMAIN rule THEN rule[s] ELSE {}
  BY Zenon, <1>5
<1> HIDE DEF S, R
<1>12. /\ q \in ScopeTrees /\ q.scoped = c.scoped /\ q.targets = c.targets
       /\ q.selectors = S /\ q.recipients = R
  BY Zenon, <1>4, <1>7, <1>8 DEF ScopeTrees
<1> QED
  BY Zenon, <1>0, <1>4, <1>9, <1>10, <1>11, <1>12 DEF Upserted

\* Tree q is tree sc without target t.
Removed(sc, t, q) ==
  /\ q \in ScopeTrees /\ q.scoped = sc.scoped /\ q.targets = sc.targets \ {t}
  /\ \A u \in Targets : q.selectors[u] = IF u = t THEN {} ELSE sc.selectors[u]
  /\ \A u \in Targets \ {t}, s \in Selectors :
        q.recipients[<<u, s>>] = sc.recipients[<<u, s>>]
  /\ \A s \in Selectors : q.recipients[<<t, s>>] = {}

\* This is what remove_target_scope computes.
LEMMA RemoveIs ==
  ASSUME NEW sc \in ScopeTrees, NEW t \in Targets,
         \A s \in Selectors \ sc.selectors[t] : sc.recipients[<<t, s>>] = {},
         t \notin sc.targets => sc.selectors[t] = {}
  PROVE  Removed(sc, t, RemoveTargetScope(sc, t))
<1>0. PICK q : q = RemoveTargetScope(sc, t)
  OBVIOUS
<1>1. CASE t \notin sc.targets
  <2>1. q = sc /\ sc.targets = sc.targets \ {t} /\ sc.selectors[t] = {}
    BY <1>0, <1>1 DEF RemoveTargetScope
  <2> QED
    BY <1>0, <2>1 DEF Removed
<1>2. CASE t \in sc.targets
  <2>1. PICK a : a = [sc EXCEPT !.targets = @ \ {t}]
    BY Zenon
  <2>2. /\ a \in ScopeTrees /\ a.scoped = sc.scoped /\ a.targets = sc.targets \ {t}
        /\ a.selectors = sc.selectors /\ a.recipients = sc.recipients
    BY <2>1 DEF ScopeTrees
  <2>3. q = ClearTargetSelectors(a, t)
    BY <1>0, <1>2, <2>1 DEF RemoveTargetScope
  <2>4. Cleared(a, t, q)
    BY Zenon, <2>2, <2>3, ClearIs
  <2> QED
    BY <1>0, <2>2, <2>4 DEF Cleared, Removed
<1> QED
  BY <1>1, <1>2

\* Tree q has no rows at all.
Emptied(q) ==
  /\ q \in ScopeTrees /\ q.targets = {}
  /\ \A u \in Targets : q.selectors[u] = {}
  /\ \A u \in Targets, s \in Selectors : q.recipients[<<u, s>>] = {}

\* This is what clear_all_target_scopes leaves of a tree without stray rows.
LEMMA ClearAllIs ==
  ASSUME NEW sc \in ScopeTrees, NEW p, ScopeRight(sc, p)
  PROVE  Emptied(ClearAllTargetScopes(sc))
<1>0. PICK q : q = ClearAllTargetScopes(sc)
  OBVIOUS
<1> DEFINE S == [t \in Targets |-> IF t \in sc.targets THEN {} ELSE sc.selectors[t]]
           R == [c \in Targets \X Selectors |->
                   IF c[1] \in sc.targets /\ c[2] \in sc.selectors[c[1]]
                   THEN {} ELSE sc.recipients[c]]
<1>1. /\ sc.selectors \in [Targets -> SUBSET Selectors]
      /\ sc.recipients \in [Targets \X Selectors -> SUBSET Recipients]
      /\ sc.scoped \in BOOLEAN /\ sc.targets \in SUBSET Targets
  BY DEF ScopeTrees
<1>2. S \in [Targets -> SUBSET Selectors] /\ R \in [Targets \X Selectors -> SUBSET Recipients]
  BY <1>1
<1>3. q = [sc EXCEPT !.targets = {}, !.selectors = S, !.recipients = R]
  BY Zenon, <1>0, <1>1 DEF ClearAllTargetScopes, ScopeTrees
<1>4. \A u \in Targets : S[u] = {}
  BY DEF ScopeRight
<1>5. \A u \in Targets, s \in Selectors : R[<<u, s>>] = {}
  BY Zenon DEF ScopeRight
<1> HIDE DEF S, R
<1>6. q \in ScopeTrees /\ q.targets = {} /\ q.selectors = S /\ q.recipients = R
  BY Zenon, <1>2, <1>3 DEF ScopeTrees
<1> QED
  BY Zenon, <1>0, <1>4, <1>5, <1>6 DEF Emptied

\* A tree, a policy, and that they agree.
ScopePair(sc, p) == sc \in ScopeTrees /\ p \in CallPolicies /\ ScopeRight(sc, p)

\* Agreement, told from the fields.
LEMMA ScopePairIs ==
  ASSUME NEW q \in ScopeTrees, NEW a \in BOOLEAN, NEW T \in SUBSET Targets,
         NEW f \in [T -> Rules], q.scoped = ~a, q.targets = T,
         \A u \in Targets \ T : q.selectors[u] = {},
         \A u \in Targets : \A s \in Selectors \ q.selectors[u] : q.recipients[<<u, s>>] = {},
         \A u \in T : /\ DOMAIN f[u] = q.selectors[u]
                      /\ \A s \in q.selectors[u] : f[u][s] = q.recipients[<<u, s>>]
  PROVE  ScopePair(q, [any |-> a, rule |-> f])
<1>1. PICK p : p = [any |-> a, rule |-> f]
  BY Zenon
<1>2. p.any = a /\ p.rule = f /\ DOMAIN p.rule = T
  BY <1>1
<1>3. p \in CallPolicies
  BY <1>1 DEF CallPolicies
<1> QED
  BY ZenonT(30), <1>1, <1>2, <1>3 DEF ScopePair, ScopeRight

\* The functions of a policy.
LEMMA PolicyFacts ==
  ASSUME NEW sc, NEW p, ScopePair(sc, p)
  PROVE  /\ sc.targets \in SUBSET Targets /\ p.rule \in [sc.targets -> Rules]
         /\ p.any \in BOOLEAN
BY DEF ScopePair, ScopeRight, ScopeTrees, CallPolicies

\* set_allowed_calls.
LEMMA UpsertKeeps ==
  ASSUME NEW sc, NEW p, ScopePair(sc, p), NEW t \in Targets, NEW rule \in Rules
  PROVE  ScopePair([UpsertTargetScope(sc, t, rule) EXCEPT !.scoped = TRUE],
                   [any |-> FALSE,
                    rule |-> [u \in DOMAIN p.rule \cup {t} |->
                                IF u = t THEN rule ELSE p.rule[u]]])
<1>1. PICK a : a = UpsertTargetScope(sc, t, rule)
  OBVIOUS
<1>2. Upserted(sc, t, rule, a)
  BY Zenon, <1>1, UpsertIs DEF ScopePair, ScopeRight
<1>3. PICK q : q = [a EXCEPT !.scoped = TRUE]
  BY Zenon
<1>4. /\ q \in ScopeTrees /\ q.scoped = TRUE /\ q.targets = a.targets
      /\ q.selectors = a.selectors /\ q.recipients = a.recipients
  BY Zenon, <1>2, <1>3 DEF Upserted, ScopeTrees
<1> DEFINE T == sc.targets \cup {t}
           f == [u \in T |-> IF u = t THEN rule ELSE p.rule[u]]
<1>5. sc.targets \in SUBSET Targets /\ p.rule \in [sc.targets -> Rules]
  BY PolicyFacts
<1>6. T \in SUBSET Targets /\ f \in [T -> Rules] /\ DOMAIN p.rule = sc.targets
  BY <1>5
<1>7. \A u \in T : f[u] = IF u = t THEN rule ELSE p.rule[u]
  OBVIOUS
<1> HIDE DEF f
<1>8. \A u \in Targets \ T : q.selectors[u] = {}
  BY <1>2, <1>4 DEF Upserted, ScopePair, ScopeRight
<1>9. \A u \in Targets : \A s \in Selectors \ q.selectors[u] : q.recipients[<<u, s>>] = {}
  <2> SUFFICES ASSUME NEW u \in Targets, NEW s \in Selectors, s \notin q.selectors[u]
               PROVE  q.recipients[<<u, s>>] = {}
    BY Zenon
  <2>1. CASE u = t
    BY <1>2, <1>4, <2>1 DEF Upserted
  <2>2. CASE u # t
    BY <1>2, <1>4, <2>2 DEF Upserted, ScopePair, ScopeRight
  <2> QED
    BY <2>1, <2>2
<1>10. ASSUME NEW u \in T
       PROVE  /\ DOMAIN f[u] = q.selectors[u]
              /\ \A s \in q.selectors[u] : f[u][s] = q.recipients[<<u, s>>]
  <2>1. CASE u = t
    <3>1. f[u] = rule /\ q.selectors[u] = DOMAIN rule /\ DOMAIN rule \subseteq Selectors
      BY <1>2, <1>4, <1>7, <2>1, RuleFacts DEF Upserted
    <3>2. \A s \in DOMAIN rule : q.recipients[<<t, s>>] = rule[s]
      BY <1>2, <1>4, <3>1 DEF Upserted
    <3> QED
      BY <2>1, <3>1, <3>2
  <2>2. CASE u # t
    <3>1. /\ u \in sc.targets /\ f[u] = p.rule[u] /\ q.selectors[u] = sc.selectors[u]
          /\ q.selectors[u] \subseteq Selectors
      BY <1>2, <1>4, <1>5, <1>7, <2>2 DEF Upserted, ScopeTrees
    <3>2. \A s \in q.selectors[u] : q.recipients[<<u, s>>] = sc.recipients[<<u, s>>]
      BY <1>2, <1>4, <1>5, <2>2, <3>1 DEF Upserted
    <3>3. /\ DOMAIN p.rule[u] = sc.selectors[u]
          /\ \A s \in sc.selectors[u] : p.rule[u][s] = sc.recipients[<<u, s>>]
      BY Zenon, <3>1 DEF ScopePair, ScopeRight
    <3> QED
      BY <3>1, <3>2, <3>3
  <2> QED
    BY <2>1, <2>2
<1>11. q.scoped = ~FALSE /\ q.targets = T
  BY Zenon, <1>2, <1>4 DEF Upserted
<1>12. ScopePair(q, [any |-> FALSE, rule |-> f])
  BY ZenonT(30), <1>4, <1>6, <1>8, <1>9, <1>10, <1>11, ScopePairIs
<1> QED
  BY Zenon, <1>1, <1>3, <1>6, <1>12 DEF f

\* remove_allowed_calls.
LEMMA RemoveKeeps ==
  ASSUME NEW sc, NEW p, ScopePair(sc, p), NEW t \in Targets
  PROVE  ScopePair(RemoveTargetScope(sc, t),
                   [p EXCEPT !.rule = [u \in DOMAIN @ \ {t} |-> @[u]]])
<1>1. PICK q : q = RemoveTargetScope(sc, t)
  OBVIOUS
<1>2. Removed(sc, t, q)
  BY Zenon, <1>1, RemoveIs DEF ScopePair, ScopeRight
<1> DEFINE T == sc.targets \ {t}
           f == [u \in T |-> p.rule[u]]
<1>3. sc.targets \in SUBSET Targets /\ p.rule \in [sc.targets -> Rules] /\ p.any \in BOOLEAN
  BY PolicyFacts
<1>4. T \in SUBSET Targets /\ f \in [T -> Rules] /\ DOMAIN p.rule = sc.targets
  BY <1>3
<1>5. \A u \in T : f[u] = p.rule[u]
  OBVIOUS
<1>6. [p EXCEPT !.rule = [u \in DOMAIN @ \ {t} |-> @[u]]] = [any |-> p.any, rule |-> f]
  BY <1>4 DEF ScopePair, CallPolicies
<1> HIDE DEF f
<1>7. \A u \in Targets \ T : q.selectors[u] = {}
  BY <1>2 DEF Removed, ScopePair, ScopeRight
<1>8. \A u \in Targets : \A s \in Selectors \ q.selectors[u] : q.recipients[<<u, s>>] = {}
  <2> SUFFICES ASSUME NEW u \in Targets, NEW s \in Selectors, s \notin q.selectors[u]
               PROVE  q.recipients[<<u, s>>] = {}
    BY Zenon
  <2>1. CASE u = t
    BY <1>2, <2>1 DEF Removed
  <2>2. CASE u # t
    BY <1>2, <2>2 DEF Removed, ScopePair, ScopeRight
  <2> QED
    BY <2>1, <2>2
<1>9. ASSUME NEW u \in T
      PROVE  /\ DOMAIN f[u] = q.selectors[u]
             /\ \A s \in q.selectors[u] : f[u][s] = q.recipients[<<u, s>>]
  <2>1. /\ u \in sc.targets /\ f[u] = p.rule[u] /\ q.selectors[u] = sc.selectors[u]
        /\ q.selectors[u] \subseteq Selectors
    BY <1>2, <1>3, <1>5 DEF Removed, ScopeTrees
  <2>2. \A s \in q.selectors[u] : q.recipients[<<u, s>>] = sc.recipients[<<u, s>>]
    BY <1>2, <1>3, <2>1 DEF Removed
  <2>3. /\ DOMAIN p.rule[u] = sc.selectors[u]
        /\ \A s \in sc.selectors[u] : p.rule[u][s] = sc.recipients[<<u, s>>]
    BY Zenon, <2>1 DEF ScopePair, ScopeRight
  <2> QED
    BY <2>1, <2>2, <2>3
<1>10. q \in ScopeTrees /\ q.scoped = ~p.any /\ q.targets = T
  BY <1>2 DEF Removed, ScopePair, ScopeRight
<1>11. ScopePair(q, [any |-> p.any, rule |-> f])
  BY Zenon, <1>3, <1>4, <1>7, <1>8, <1>9, <1>10, ScopePairIs
<1> QED
  BY Zenon, <1>1, <1>6, <1>11

\* replace_allowed_calls, of an authorisation.
LEMMA ReplaceKeeps ==
  ASSUME NEW sc, NEW p, ScopePair(sc, p), NEW calls \in AllowedCalls
  PROVE  ScopePair(ReplaceAllowedCalls(sc, calls), PolicyOf(calls))
<1>1. PICK e : e = ClearAllTargetScopes(sc)
  OBVIOUS
<1>2. Emptied(e)
  BY Zenon, <1>1, ClearAllIs DEF ScopePair
<1>3. PICK a : a = [e EXCEPT !.scoped = ~calls.any]
  BY Zenon
<1>4. calls.any \in BOOLEAN
  <2>1. \/ calls = [any |-> TRUE, rules |-> <<>>]
        \/ calls = [any |-> FALSE, rules |-> <<>>]
        \/ \E t \in Targets, r \in Rules : calls = [any |-> FALSE, rules |-> <<t, r>>]
    BY DEF AllowedCalls
  <2>2. CASE calls = [any |-> TRUE, rules |-> <<>>]
    BY <2>2
  <2>3. CASE calls = [any |-> FALSE, rules |-> <<>>]
    BY <2>3
  <2>4. CASE \E t \in Targets, r \in Rules : calls = [any |-> FALSE, rules |-> <<t, r>>]
    BY <2>4
  <2> QED
    BY Zenon, <2>1, <2>2, <2>3, <2>4
<1>5. /\ a \in ScopeTrees /\ a.scoped = ~calls.any /\ a.targets = {}
      /\ a.selectors = e.selectors /\ a.recipients = e.recipients
  BY Zenon, <1>2, <1>3, <1>4 DEF Emptied, ScopeTrees
<1>6. CASE calls.rules = <<>>
  <2> DEFINE f == [t \in {} |-> <<>>]
  <2>1. ReplaceAllowedCalls(sc, calls) = a
    BY <1>1, <1>3, <1>6 DEF ReplaceAllowedCalls
  <2>2. PolicyOf(calls) = [any |-> calls.any, rule |-> f]
    BY <1>6 DEF PolicyOf
  <2>3. f \in [{} -> Rules]
    OBVIOUS
  <2>4. /\ \A u \in Targets \ {} : a.selectors[u] = {}
        /\ \A u \in Targets : \A s \in Selectors \ a.selectors[u] : a.recipients[<<u, s>>] = {}
    BY Zenon, <1>2, <1>5 DEF Emptied
  <2> HIDE DEF f
  <2>5. ScopePair(a, [any |-> calls.any, rule |-> f])
    BY Zenon, <1>4, <1>5, <2>3, <2>4, ScopePairIs
  <2> QED
    BY Zenon, <2>1, <2>2, <2>5
<1>7. CASE calls.rules # <<>>
  <2>1. PICK t \in Targets, rule \in Rules :
           calls = [any |-> FALSE, rules |-> <<t, rule>>]
    BY <1>7 DEF AllowedCalls
  <2>2. calls.any = FALSE /\ calls.rules[1] = t /\ calls.rules[2] = rule
    BY <2>1
  <2>3. PICK q : q = UpsertTargetScope(a, t, rule)
    OBVIOUS
  <2>4. ReplaceAllowedCalls(sc, calls) = q
    BY <1>1, <1>3, <1>7, <2>2, <2>3 DEF ReplaceAllowedCalls
  <2>5. PolicyOf(calls) = [any |-> FALSE, rule |-> [u \in {t} |-> rule]]
    BY Zenon, <1>7, <2>2 DEF PolicyOf
  <2>6. Upserted(a, t, rule, q)
    BY Zenon, <1>2, <1>5, <2>3, UpsertIs DEF Emptied
  <2> DEFINE f == [u \in {t} |-> rule]
  <2>7. {t} \in SUBSET Targets /\ f \in [{t} -> Rules] /\ f[t] = rule
    OBVIOUS
  <2> HIDE DEF f
  <2>8. q \in ScopeTrees /\ q.scoped = ~FALSE /\ q.targets = {t}
    BY <1>5, <2>2, <2>6 DEF Upserted
  <2>9. \A u \in Targets \ {t} : q.selectors[u] = {}
    BY <1>2, <1>5, <2>6 DEF Upserted, Emptied
  <2>10. \A u \in Targets : \A s \in Selectors \ q.selectors[u] : q.recipients[<<u, s>>] = {}
    <3> SUFFICES ASSUME NEW u \in Targets, NEW s \in Selectors, s \notin q.selectors[u]
                 PROVE  q.recipients[<<u, s>>] = {}
      BY Zenon
    <3>1. CASE u = t
      BY <2>6, <3>1 DEF Upserted
    <3>2. CASE u # t
      BY <1>2, <1>5, <2>6, <3>2 DEF Upserted, Emptied
    <3> QED
      BY <3>1, <3>2
  <2>11. /\ DOMAIN f[t] = q.selectors[t]
         /\ \A s \in q.selectors[t] : f[t][s] = q.recipients[<<t, s>>]
    <3>1. q.selectors[t] = DOMAIN rule /\ DOMAIN rule \subseteq Selectors
      BY <2>6, RuleFacts DEF Upserted
    <3>2. \A s \in DOMAIN rule : q.recipients[<<t, s>>] = rule[s]
      BY <2>6, <3>1 DEF Upserted
    <3> QED
      BY <2>7, <3>1, <3>2
  <2>12. \A u \in {t} : /\ DOMAIN f[u] = q.selectors[u]
                        /\ \A s \in q.selectors[u] : f[u][s] = q.recipients[<<u, s>>]
    BY Zenon, <2>11
  <2>13. ScopePair(q, [any |-> FALSE, rule |-> f])
    BY ZenonT(30), <2>12, <2>7, <2>8, <2>9, <2>10, ScopePairIs
  <2> QED
    BY Zenon, <2>4, <2>5, <2>13 DEF f
<1> QED
  BY <1>6, <1>7

----------------------------------------------------------------------------

\* The types of the parts of the state, and what the invariant says of a key.
LEMMA KeychainFacts ==
  ASSUME KeychainInv
  PROVE  /\ signer \in AccessKeys \cup {Root} /\ paid \in Nat
         /\ timestamp \in Nat /\ spec \in Specs /\ Root \notin AccessKeys
         /\ \A k \in AccessKeys : /\ keys[k] \in KeyRecords /\ limits[k] \in LimitRows
                                  /\ book[k] \in LimitBooks
                                  /\ KeyRight(keys[k], limits[k], book[k])
                                  /\ ScopePair(scopes[k], policy[k])
BY KeychainAssumption DEF KeychainInv, KeychainTypes, ScopePair

\* The rows of a key that agree.
KeyTriple(key, lim, b) ==
  /\ key \in KeyRecords /\ lim \in LimitRows /\ b \in LimitBooks
  /\ KeyRight(key, lim, b)

\* Whether rows agree depends on the time and the fork alone.
LEMMA KeyFrame ==
  ASSUME NEW key, NEW lim, NEW b, KeyRight(key, lim, b), UNCHANGED <<timestamp, spec>>
  PROVE  KeyRight(key, lim, b)'
BY DEF KeyRight, RowRight, LeftIs, RowOf, CurrentWindow

\* What a step owes to the limits: rows that agree.
LimitsKept ==
  /\ keys' \in [AccessKeys -> KeyRecords] /\ limits' \in [AccessKeys -> LimitRows]
  /\ book' \in [AccessKeys -> LimitBooks]
  /\ \A l \in AccessKeys : KeyRight(keys[l], limits[l], book[l])'

\* A step that changes the rows of one key to rows that agree.
LEMMA KeyStep ==
  ASSUME KeychainInv, NEW k \in AccessKeys, NEW key, NEW lim, NEW b,
         KeyTriple(key, lim, b), UNCHANGED <<timestamp, spec>>,
         keys' = [keys EXCEPT ![k] = key], limits' = [limits EXCEPT ![k] = lim],
         book' = [book EXCEPT ![k] = b]
  PROVE  LimitsKept
<1>1. /\ keys \in [AccessKeys -> KeyRecords] /\ limits \in [AccessKeys -> LimitRows]
      /\ book \in [AccessKeys -> LimitBooks]
  BY DEF KeychainInv, KeychainTypes
<1>2. /\ keys' \in [AccessKeys -> KeyRecords] /\ limits' \in [AccessKeys -> LimitRows]
      /\ book' \in [AccessKeys -> LimitBooks]
  BY <1>1 DEF KeyTriple
<1>3. ASSUME NEW l \in AccessKeys PROVE KeyRight(keys[l], limits[l], book[l])'
  <2>1. PICK key2, lim2, b2 :
           /\ key2 = keys'[l] /\ lim2 = limits'[l] /\ b2 = book'[l]
    OBVIOUS
  <2>2. KeyRight(key2, lim2, b2)
    <3>1. CASE l = k
      BY <1>1, <2>1, <3>1 DEF KeyTriple
    <3>2. CASE l # k
      <4>1. key2 = keys[l] /\ lim2 = limits[l] /\ b2 = book[l]
        BY <1>1, <2>1, <3>2
      <4> QED
        BY Zenon, <4>1, KeychainFacts
    <3> QED
      BY <3>1, <3>2
  <2>3. KeyRight(key2, lim2, b2)'
    BY Zenon, <2>2, KeyFrame
  <2> QED
    BY <2>1, <2>3
<1> QED
  BY Zenon, <1>2, <1>3 DEF LimitsKept

\* The same for a step that leaves them alone.
LEMMA KeyStays ==
  ASSUME KeychainInv, UNCHANGED <<timestamp, spec, keys, limits, book>>
  PROVE  LimitsKept
<1>1. ASSUME NEW l \in AccessKeys PROVE KeyRight(keys[l], limits[l], book[l])'
  BY KeychainFacts DEF KeyRight, RowRight, LeftIs, RowOf, CurrentWindow
<1> QED
  BY SMTT(30), <1>1 DEF LimitsKept, KeychainInv, KeychainTypes

\* What a step owes to the scopes.
ScopesKept ==
  /\ scopes' \in [AccessKeys -> ScopeTrees] /\ policy' \in [AccessKeys -> CallPolicies]
  /\ \A l \in AccessKeys : ScopeRight(scopes[l], policy[l])'

\* A step that changes the scope of one key and the account's word on it.
LEMMA ScopeStep ==
  ASSUME KeychainInv, NEW k \in AccessKeys, NEW q, NEW p, ScopePair(q, p),
         scopes' = [scopes EXCEPT ![k] = q], policy' = [policy EXCEPT ![k] = p]
  PROVE  ScopesKept
<1>1. scopes \in [AccessKeys -> ScopeTrees] /\ policy \in [AccessKeys -> CallPolicies]
  BY DEF KeychainInv, KeychainTypes
<1>2. scopes' \in [AccessKeys -> ScopeTrees] /\ policy' \in [AccessKeys -> CallPolicies]
  BY <1>1 DEF ScopePair
<1>3. ASSUME NEW l \in AccessKeys PROVE ScopeRight(scopes[l], policy[l])'
  <2>1. PICK q2, p2 : q2 = scopes'[l] /\ p2 = policy'[l]
    OBVIOUS
  <2>2. ScopeRight(q2, p2)
    <3>1. CASE l = k
      BY <1>1, <2>1, <3>1 DEF ScopePair
    <3>2. CASE l # k
      <4>1. q2 = scopes[l] /\ p2 = policy[l]
        BY <1>1, <2>1, <3>2
      <4> QED
        BY Zenon, <4>1 DEF KeychainInv
    <3> QED
      BY <3>1, <3>2
  <2>3. ScopeRight(q2, p2)'
    BY <2>2 DEF ScopeRight
  <2> QED
    BY <2>1, <2>3
<1> QED
  BY Zenon, <1>2, <1>3 DEF ScopesKept

\* The same for a step that leaves them alone.
LEMMA ScopeStays ==
  ASSUME KeychainInv, UNCHANGED <<scopes, policy>>
  PROVE  ScopesKept
<1>1. ASSUME NEW l \in AccessKeys PROVE ScopeRight(scopes[l], policy[l])'
  BY DEF KeychainInv, ScopeRight
<1> QED
  BY <1>1 DEF ScopesKept, KeychainInv, KeychainTypes

\* The parts make the invariant.
LEMMA KeychainKept ==
  ASSUME LimitsKept, ScopesKept, PaidRight',
         signer' \in AccessKeys \cup {Root}, paid' \in Nat, timestamp' \in Nat,
         spec' \in Specs
  PROVE  KeychainInv'
BY Zenon DEF LimitsKept, ScopesKept, KeychainInv, KeychainTypes

\* Who administers the keychain has spent nothing (ensure_admin_caller).
LEMMA AdminPaysNothing ==
  ASSUME KeychainInv, EnsureAdminCaller PROVE paid = 0
<1>1. paid \in Nat /\ Root \notin AccessKeys /\ PaidRight
  BY Zenon, KeychainFacts DEF KeychainInv
<1>2. ~(paid > 0)
  BY Zenon, <1>1 DEF PaidRight, EnsureAdminCaller, IsAdminKey
<1> QED
  BY <1>1, <1>2

\* An administrator's step on one key.
LEMMA AdminStep ==
  ASSUME KeychainInv, EnsureAdminCaller, LimitsKept, ScopesKept,
         UNCHANGED <<signer, paid, timestamp, spec>>
  PROVE  KeychainInv'
<1>1. paid' = 0
  BY AdminPaysNothing
<1>2. PaidRight'
  BY <1>1 DEF PaidRight
<1>3. /\ signer' \in AccessKeys \cup {Root} /\ paid' \in Nat /\ timestamp' \in Nat
      /\ spec' \in Specs
  BY KeychainFacts
<1> QED
  BY Zenon, <1>2, <1>3, KeychainKept

\* A capped limit is below the marker of an exhausted one (t3_spending_limit_cap).
LEMMA LimitFacts ==
  ASSUME NEW a \in Limits PROVE a \in Nat /\ (T3SpendingLimitCap(a) => a < Exhausted)
BY KeychainAssumption DEF T3SpendingLimitCap, MaxCapped, Exhausted

\* A key that was never authorised has no rows.
LEMMA FreshFacts ==
  ASSUME KeychainInv, NEW k \in AccessKeys, Fresh(k)
  PROVE  limits[k] = NoLimit /\ book[k] = NoBook /\ RowRight(NoLimit, NoBook)
<1>1. KeyRight(keys[k], limits[k], book[k])
  BY Zenon, KeychainFacts
<1>2. keys[k].expiry = 0 /\ ~keys[k].revoked
  BY DEF Fresh
<1>3. ~keys[k].enforce
  BY Zenon, <1>1, <1>2 DEF KeyRight
<1>4. limits[k] = NoLimit /\ book[k] = NoBook /\ RowRight(limits[k], book[k])
  BY Zenon, <1>1, <1>2, <1>3 DEF KeyRight
<1> QED
  BY Zenon, <1>4

\* A row as an authorisation writes it.
LEMMA NewRow ==
  ASSUME NEW lim \in LimitRows, NEW b \in LimitBooks, timestamp \in Nat,
         lim.period = b.period, b.window = 0, b.spent = 0,
         lim.remaining = b.granted,
         b.period = 0 => lim.max = 0 \/ (spec >= 3 /\ lim.max = b.granted),
         b.period # 0 => /\ spec >= 3 /\ b.start = timestamp
                         /\ lim.end = timestamp + b.period
                         /\ lim.max = b.limit /\ b.granted = b.limit
                         /\ b.granted < Exhausted
  PROVE  RowRight(lim, b)
<1>1. /\ b.granted \in Nat /\ b.period \in Nat /\ b.start \in Nat
      /\ b.granted - b.spent = b.granted /\ b.spent <= b.granted
  BY DEF LimitBooks
<1>2. CASE b.period = 0
  BY Zenon, <1>1, <1>2 DEF RowRight
<1>3. CASE b.period # 0
  <2>1. RowOf(lim, b, 0)
    BY <1>1, <1>3 DEF RowOf
  <2>2. LeftIs(lim, b)
    BY Zenon, <1>1 DEF LeftIs
  <2>3. b.start <= timestamp /\ CurrentWindow(b) \in Nat
    BY <1>1, <1>3, CurrentFacts
  <2>4. b.window <= CurrentWindow(b) /\ 0 \in 0..b.window /\ ~(0 < b.window)
    BY <2>3
  <2> QED
    BY Zenon, <1>1, <1>3, <2>1, <2>2, <2>3, <2>4 DEF RowRight
<1> QED
  BY <1>2, <1>3

\* Authorisations before T3.
LEMMA AuthorizeKeyLegacyKeeps ==
  ASSUME KeychainInv, NEW k \in AccessKeys, NEW e \in Expiries, NEW f \in BOOLEAN,
         NEW a \in Limits, AuthorizeKeyLegacy(k, e, f, a)
  PROVE  KeychainInv'
<1>1. /\ EnsureAdminCaller /\ Fresh(k)
      /\ UNCHANGED <<scopes, signer, paid, timestamp, spec, policy>>
  BY DEF AuthorizeKeyLegacy
<1>2. PICK key : key = [NoKey EXCEPT !.expiry = e, !.enforce = f]
  OBVIOUS
<1>3. PICK lim : lim = IF f THEN [NoLimit EXCEPT !.remaining = a] ELSE NoLimit
  BY Zenon
<1>4. PICK b : b = IF f THEN [NoBook EXCEPT !.limit = a, !.granted = a] ELSE NoBook
  OBVIOUS
<1>5. /\ limits \in [AccessKeys -> LimitRows] /\ book \in [AccessKeys -> LimitBooks]
      /\ limits[k] = NoLimit /\ book[k] = NoBook /\ RowRight(NoLimit, NoBook)
  BY <1>1, FreshFacts DEF KeychainInv, KeychainTypes
<1>6. keys' = [keys EXCEPT ![k] = key]
  BY <1>2 DEF AuthorizeKeyLegacy
<1>7. limits' = [limits EXCEPT ![k] = lim]
  BY Zenon, <1>3, <1>5 DEF AuthorizeKeyLegacy
<1>8. book' = [book EXCEPT ![k] = b]
  BY Zenon, <1>4, <1>5 DEF AuthorizeKeyLegacy
<1>9. /\ key \in KeyRecords /\ key.enforce = f /\ key.expiry = e /\ e # 0
      /\ ~key.admin /\ ~key.revoked
  <2>1. e \in Nat /\ e # 0
    BY KeychainAssumption
  <2> QED
    BY Zenon, <1>2, <2>1 DEF NoKey, KeyRecords
<1>10. /\ lim \in LimitRows /\ lim.max = 0 /\ lim.period = 0
       /\ lim.remaining = IF f THEN a ELSE 0
  BY <1>3, LimitFacts DEF NoLimit, LimitRows
<1>11. /\ b \in LimitBooks /\ b.period = 0 /\ b.window = 0 /\ b.spent = 0
       /\ b.granted = IF f THEN a ELSE 0
  BY Zenon, <1>4, LimitFacts DEF NoBook, LimitBooks
<1>12. RowRight(lim, b)
  BY <1>10, <1>11, NewRow, KeychainFacts
<1>13. ~f => lim = NoLimit /\ b = NoBook
  BY Zenon, <1>3, <1>4
<1>14. KeyTriple(key, lim, b)
  BY Zenon, <1>9, <1>10, <1>11, <1>12, <1>13 DEF KeyTriple, KeyRight
<1>15. LimitsKept
  BY Zenon, <1>1, <1>6, <1>7, <1>8, <1>14, KeyStep
<1>16. ScopesKept
  BY <1>1, ScopeStays
<1> QED
  BY Zenon, <1>1, <1>15, <1>16, AdminStep

\* Authorisations from T3 on.
LEMMA AuthorizeKeyKeeps ==
  ASSUME KeychainInv, NEW k \in AccessKeys, NEW e \in Expiries, NEW f \in BOOLEAN,
         NEW a \in Limits, NEW p \in Periods, NEW c \in AllowedCalls,
         AuthorizeKey(k, e, f, a, p, c)
  PROVE  KeychainInv'
<1>1. /\ EnsureAdminCaller /\ Fresh(k) /\ spec >= 3
      /\ UNCHANGED <<signer, paid, timestamp, spec>>
  BY DEF AuthorizeKey
<1>2. PICK key : key = [NoKey EXCEPT !.expiry = e, !.enforce = f]
  OBVIOUS
<1>3. PICK lim : lim = IF f THEN [remaining |-> a, max |-> a, period |-> p,
                                  end |-> IF p = 0 THEN 0 ELSE timestamp + p]
                       ELSE NoLimit
  BY Zenon
<1>4. PICK b : b = IF f THEN [start |-> timestamp, period |-> p, window |-> 0,
                              limit |-> a, granted |-> a, spent |-> 0]
                   ELSE NoBook
  BY Zenon
<1>5. /\ limits \in [AccessKeys -> LimitRows] /\ book \in [AccessKeys -> LimitBooks]
      /\ limits[k] = NoLimit /\ book[k] = NoBook /\ RowRight(NoLimit, NoBook)
  BY <1>1, FreshFacts DEF KeychainInv, KeychainTypes
<1>6. keys' = [keys EXCEPT ![k] = key]
  BY <1>2 DEF AuthorizeKey
<1>7. limits' = [limits EXCEPT ![k] = lim]
  BY Zenon, <1>3, <1>5 DEF AuthorizeKey
<1>8. book' = [book EXCEPT ![k] = b]
  BY Zenon, <1>4, <1>5 DEF AuthorizeKey
<1>9. /\ key \in KeyRecords /\ key.enforce = f /\ key.expiry = e /\ e # 0
      /\ ~key.admin /\ ~key.revoked
  <2>1. e \in Nat /\ e # 0
    BY SMTT(30), KeychainAssumption
  <2> QED
    BY Zenon, <1>2, <2>1 DEF NoKey, KeyRecords
<1>10. a \in Nat /\ (f => a < Exhausted) /\ p \in Nat /\ timestamp \in Nat
  <2>1. f => T3SpendingLimitCap(a)
    BY DEF AuthorizeKey
  <2> QED
    BY <2>1, LimitFacts, KeychainAssumption, KeychainFacts
<1>11. KeyTriple(key, lim, b)
  <2>1. CASE f
    <3>1. /\ lim \in LimitRows /\ lim.max = a /\ lim.period = p /\ lim.remaining = a
          /\ p # 0 => lim.end = timestamp + p
      BY <1>3, <1>10, <2>1 DEF LimitRows
    <3>2. /\ b \in LimitBooks /\ b.period = p /\ b.window = 0 /\ b.spent = 0
          /\ b.granted = a /\ b.limit = a /\ b.start = timestamp
      BY <1>4, <1>10, <2>1 DEF LimitBooks
    <3>3. RowRight(lim, b)
      BY <1>1, <1>10, <2>1, <3>1, <3>2, NewRow
    <3> QED
      BY Zenon, <1>9, <2>1, <3>1, <3>2, <3>3 DEF KeyTriple, KeyRight
  <2>2. CASE ~f
    <3>1. lim = NoLimit /\ b = NoBook
      BY Zenon, <1>3, <1>4, <2>2
    <3>2. lim \in LimitRows /\ b \in LimitBooks
      BY Zenon, <1>5, <3>1, KeychainFacts
    <3> QED
      BY Zenon, <1>5, <1>9, <2>2, <3>1, <3>2 DEF KeyTriple, KeyRight
  <2> QED
    BY <2>1, <2>2
<1>12. LimitsKept
  BY Zenon, <1>1, <1>6, <1>7, <1>8, <1>11, KeyStep
<1>13. ScopesKept
  <2>1. PICK q, g : q = ReplaceAllowedCalls(scopes[k], c) /\ g = PolicyOf(c)
    OBVIOUS
  <2>2. scopes' = [scopes EXCEPT ![k] = q] /\ policy' = [policy EXCEPT ![k] = g]
    BY <2>1 DEF AuthorizeKey, KeychainInv, KeychainTypes
  <2>3. ScopePair(q, g)
    BY Zenon, <2>1, ReplaceKeeps, KeychainFacts
  <2> QED
    BY Zenon, <2>2, <2>3, ScopeStep
<1> QED
  BY Zenon, <1>1, <1>12, <1>13, AdminStep

\* Admin keys.
LEMMA AuthorizeAdminKeyKeeps ==
  ASSUME KeychainInv, NEW k \in AccessKeys, AuthorizeAdminKey(k)
  PROVE  KeychainInv'
<1>1. /\ EnsureAdminCaller /\ Fresh(k)
      /\ UNCHANGED <<limits, scopes, signer, paid, timestamp, spec, book, policy>>
  BY DEF AuthorizeAdminKey
<1>2. PICK key : key = [NoKey EXCEPT !.expiry = Never, !.admin = TRUE]
  OBVIOUS
<1>3. /\ limits \in [AccessKeys -> LimitRows] /\ book \in [AccessKeys -> LimitBooks]
      /\ limits[k] = NoLimit /\ book[k] = NoBook /\ RowRight(NoLimit, NoBook)
      /\ NoLimit \in LimitRows /\ NoBook \in LimitBooks
  BY <1>1, FreshFacts, KeychainFacts DEF KeychainInv, KeychainTypes
<1>4. key \in KeyRecords /\ key.enforce = FALSE
  <2>1. key = [expiry |-> Never, enforce |-> FALSE, revoked |-> FALSE, admin |-> TRUE]
    BY Zenon, <1>2 DEF NoKey
  <2>2. Never \in Nat
    BY DEF Never
  <2> QED
    BY <2>1, <2>2 DEF KeyRecords
<1>5. KeyTriple(key, NoLimit, NoBook)
  BY Zenon, <1>3, <1>4 DEF KeyTriple, KeyRight
<1>6. /\ keys' = [keys EXCEPT ![k] = key]
      /\ limits' = [limits EXCEPT ![k] = NoLimit] /\ book' = [book EXCEPT ![k] = NoBook]
  BY <1>1, <1>2, <1>3 DEF AuthorizeAdminKey
<1>7. LimitsKept
  BY Zenon, <1>1, <1>5, <1>6, KeyStep
<1>8. ScopesKept
  BY <1>1, ScopeStays
<1> QED
  BY Zenon, <1>1, <1>7, <1>8, AdminStep

\* A revoked key stays revoked, and owes nothing.
LEMMA RevokeKeyKeeps ==
  ASSUME KeychainInv, NEW k \in AccessKeys, RevokeKey(k)
  PROVE  KeychainInv'
<1>1. /\ EnsureAdminCaller
      /\ UNCHANGED <<limits, scopes, signer, paid, timestamp, spec, book, policy>>
  BY DEF RevokeKey
<1>2. PICK key : key = [NoKey EXCEPT !.revoked = TRUE]
  BY Zenon
<1>3. key \in KeyRecords /\ key.enforce = FALSE /\ key.revoked = TRUE
  BY Zenon, <1>2 DEF NoKey, KeyRecords
<1>4. PICK lim, b : lim = limits[k] /\ b = book[k]
  OBVIOUS
<1>5. lim \in LimitRows /\ b \in LimitBooks
  BY Zenon, <1>4, KeychainFacts
<1>6. KeyTriple(key, lim, b)
  BY Zenon, <1>3, <1>5 DEF KeyTriple, KeyRight
<1>7. /\ keys' = [keys EXCEPT ![k] = key]
      /\ limits' = [limits EXCEPT ![k] = lim] /\ book' = [book EXCEPT ![k] = b]
  BY <1>1, <1>2, <1>4 DEF RevokeKey, KeychainInv, KeychainTypes
<1>8. LimitsKept
  BY Zenon, <1>1, <1>6, <1>7, KeyStep
<1>9. ScopesKept
  BY <1>1, ScopeStays
<1> QED
  BY Zenon, <1>1, <1>8, <1>9, AdminStep

\* What update_spending_limit writes, and the account's book of it.
UpdatedLimit(l, a) == IF spec >= 3 THEN [l EXCEPT !.remaining = a, !.max = a]
                      ELSE [l EXCEPT !.remaining = a]
UpdatedBook(b, a) == [Current(b) EXCEPT !.limit = a, !.granted = a, !.spent = 0]

\* A row and a book that agree.
RowPair(l, b) == l \in LimitRows /\ b \in LimitBooks /\ RowRight(l, b)

\* A row with a new limit, in the window it was in.
LEMMA UpdatedRow ==
  ASSUME NEW l, NEW b, RowPair(l, b),
         timestamp \in Nat, spec \in Specs, NEW a \in Nat, spec >= 3 => a < Exhausted
  PROVE  RowPair(UpdatedLimit(l, a), UpdatedBook(b, a))
<1>a. PICK m, d : m = UpdatedLimit(l, a) /\ d = UpdatedBook(b, a)
  OBVIOUS
<1>b. l \in LimitRows /\ b \in LimitBooks /\ RowRight(l, b)
  BY DEF RowPair
<1> SUFFICES m \in LimitRows /\ d \in LimitBooks /\ RowRight(m, d)
  BY Zenon, <1>a DEF RowPair
<1>1. PICK c : c = Current(b)
  OBVIOUS
<1>2. PICK r : r = RolledOver(l)
  OBVIOUS
<1>3. /\ c \in LimitBooks /\ c.period = b.period /\ c.start = b.start
      /\ c.window = CurrentWindow(b)
  BY <1>b, <1>1, <1>2, RolledFacts
<1>4. /\ d \in LimitBooks /\ d.period = b.period /\ d.start = b.start
      /\ d.window = CurrentWindow(b) /\ d.limit = a /\ d.granted = a /\ d.spent = 0
  <2>1. d = [c EXCEPT !.limit = a, !.granted = a, !.spent = 0]
    BY Zenon, <1>a, <1>1 DEF UpdatedBook
  <2>2. /\ d \in LimitBooks /\ d.period = c.period /\ d.start = c.start
        /\ d.window = c.window /\ d.limit = a /\ d.granted = a /\ d.spent = 0
    BY Zenon, <1>3, <2>1 DEF LimitBooks
  <2> QED
    BY Zenon, <1>3, <2>2
<1>5. /\ m \in LimitRows /\ m.period = l.period /\ m.end = l.end /\ m.remaining = a
      /\ m.max = IF spec >= 3 THEN a ELSE l.max
  BY Zenon, <1>a, <1>b DEF LimitRows, UpdatedLimit
<1>6. m.period = d.period /\ d.spent <= d.granted /\ d.granted - d.spent = a
  BY <1>b, <1>4, <1>5 DEF RowRight
<1>7. CASE b.period = 0
  <2>1. d.window = 0
    BY <1>4, <1>7 DEF CurrentWindow
  <2>2. m.max = 0 \/ (spec >= 3 /\ m.max = d.granted)
    <3>1. l.max = 0 \/ spec >= 3
      BY Zenon, <1>b, <1>7 DEF RowRight
    <3> QED
      BY <1>4, <1>5, <3>1
  <2> QED
    BY Zenon, <1>4, <1>5, <1>6, <1>7, <2>1, <2>2 DEF RowRight
<1>8. CASE b.period # 0
  <2>1. /\ spec >= 3 /\ b.start <= timestamp /\ b.window <= CurrentWindow(b)
        /\ b.window \in Nat /\ CurrentWindow(b) \in Nat
    <3>1. spec >= 3 /\ b.start <= timestamp /\ b.window <= CurrentWindow(b)
      BY Zenon, <1>b, <1>8 DEF RowRight
    <3>2. b.window \in Nat
      BY <1>b DEF LimitBooks
    <3> QED
      BY Zenon, <1>b, <3>1, <3>2, CurrentFacts
  <2>2. PICK j \in 0..b.window : RowOf(l, b, j)
    BY Zenon, <1>b, <1>8 DEF RowRight
  <2>3. RowOf(m, d, j)
    BY <1>4, <1>5, <2>2 DEF RowOf
  <2>4. j \in 0..d.window /\ d.window <= CurrentWindow(d)
    <3>1. CurrentWindow(d) = CurrentWindow(b)
      BY <1>4 DEF CurrentWindow
    <3> QED
      BY <1>4, <2>1, <3>1
  <2>5. LeftIs(m, d)
    BY Zenon, <1>5, <1>6 DEF LeftIs
  <2>6. /\ m.max = d.limit /\ d.granted = d.limit /\ d.granted < Exhausted
        /\ d.start <= timestamp
    BY <1>4, <1>5, <2>1
  <2> QED
    BY Zenon, <1>4, <1>5, <1>6, <1>8, <2>1, <2>3, <2>4, <2>5, <2>6 DEF RowRight
<1> QED
  BY <1>7, <1>8

\* update_spending_limit.
LEMMA UpdateSpendingLimitKeeps ==
  ASSUME KeychainInv, NEW k \in AccessKeys, NEW a \in Limits, UpdateSpendingLimit(k, a)
  PROVE  KeychainInv'
<1>1. /\ EnsureAdminCaller /\ Active(k) /\ ~keys[k].admin
      /\ UNCHANGED <<scopes, signer, paid, timestamp, spec, policy>>
  BY DEF UpdateSpendingLimit
<1>2. PICK key : key = [keys[k] EXCEPT !.enforce = TRUE]
  BY Zenon
<1>3. PICK lim : lim = (IF spec >= 3 THEN [limits[k] EXCEPT !.remaining = a, !.max = a]
                        ELSE [limits[k] EXCEPT !.remaining = a])
  BY Zenon
<1>4. PICK b : b = [Current(book[k]) EXCEPT !.limit = a, !.granted = a, !.spent = 0]
  OBVIOUS
<1>5. /\ keys[k] \in KeyRecords /\ limits[k] \in LimitRows /\ book[k] \in LimitBooks
      /\ KeyRight(keys[k], limits[k], book[k]) /\ timestamp \in Nat /\ spec \in Specs
  BY Zenon, KeychainFacts
<1>6. RowRight(limits[k], book[k])
  BY Zenon, <1>1, <1>5 DEF KeyRight, Active
<1>7. lim \in LimitRows /\ b \in LimitBooks /\ RowRight(lim, b)
  <2>1. PICK l, c : l = limits[k] /\ c = book[k]
    OBVIOUS
  <2>2. /\ l \in LimitRows /\ c \in LimitBooks /\ RowRight(l, c) /\ a \in Nat
        /\ spec >= 3 => a < Exhausted
    BY Zenon, <1>5, <1>6, <2>1, LimitFacts DEF UpdateSpendingLimit
  <2>3. RowPair(l, c)
    BY Zenon, <2>2 DEF RowPair
  <2>4. RowPair(UpdatedLimit(l, a), UpdatedBook(c, a))
    BY Zenon, <1>5, <2>2, <2>3, UpdatedRow
  <2>5. lim = UpdatedLimit(l, a) /\ b = UpdatedBook(c, a)
    BY Zenon, <1>3, <1>4, <2>1 DEF UpdatedLimit, UpdatedBook
  <2> QED
    BY Zenon, <2>4, <2>5 DEF RowPair
<1>8. /\ key \in KeyRecords /\ key.enforce = TRUE /\ key.admin = FALSE
      /\ key.expiry # 0
  <2>1. keys[k].expiry # 0 /\ keys[k].admin = FALSE
    BY <1>1, <1>5 DEF Active, KeyRecords
  <2> QED
    BY Zenon, <1>2, <1>5, <2>1 DEF KeyRecords
<1>9. KeyTriple(key, lim, b)
  BY Zenon, <1>7, <1>8 DEF KeyTriple, KeyRight
<1>10. keys' = [keys EXCEPT ![k] = key]
  BY <1>2 DEF UpdateSpendingLimit, KeychainInv, KeychainTypes
<1>11. limits' = [limits EXCEPT ![k] = lim]
  BY Zenon, <1>3 DEF UpdateSpendingLimit, KeychainInv, KeychainTypes
<1>12. book' = [book EXCEPT ![k] = b]
  BY <1>4 DEF UpdateSpendingLimit, KeychainInv, KeychainTypes
<1>13. LimitsKept
  BY Zenon, <1>1, <1>9, <1>10, <1>11, <1>12, KeyStep
<1>14. ScopesKept
  BY <1>1, ScopeStays
<1> QED
  BY Zenon, <1>1, <1>13, <1>14, AdminStep

\* set_allowed_calls.
LEMMA SetAllowedCallsKeeps ==
  ASSUME KeychainInv, NEW k \in AccessKeys, NEW t \in Targets, NEW rule \in Rules,
         SetAllowedCalls(k, t, rule)
  PROVE  KeychainInv'
<1>1. EnsureAdminCaller /\ UNCHANGED <<keys, limits, signer, paid, timestamp, spec, book>>
  BY DEF SetAllowedCalls
<1>2. PICK sc, p : sc = scopes[k] /\ p = policy[k]
  OBVIOUS
<1>3. PICK q, g :
         /\ q = [UpsertTargetScope(sc, t, rule) EXCEPT !.scoped = TRUE]
         /\ g = [any |-> FALSE, rule |-> [u \in DOMAIN p.rule \cup {t} |->
                                            IF u = t THEN rule ELSE p.rule[u]]]
  BY Zenon
<1>4. ScopePair(sc, p)
  BY Zenon, <1>2, KeychainFacts
<1>5. ScopePair(q, g)
  <2>1. ScopePair([UpsertTargetScope(sc, t, rule) EXCEPT !.scoped = TRUE],
                  [any |-> FALSE, rule |-> [u \in DOMAIN p.rule \cup {t} |->
                                              IF u = t THEN rule ELSE p.rule[u]]])
    BY <1>4, UpsertKeeps
  <2> QED
    BY Zenon, <1>3, <2>1
<1>6. scopes' = [scopes EXCEPT ![k] = q]
  BY <1>2, <1>3 DEF SetAllowedCalls, KeychainInv, KeychainTypes
<1>7. policy' = [policy EXCEPT ![k] = g]
  BY <1>2, <1>3 DEF SetAllowedCalls, KeychainInv, KeychainTypes
<1>8. ScopesKept
  BY Zenon, <1>5, <1>6, <1>7, ScopeStep
<1>9. LimitsKept
  BY <1>1, KeyStays
<1> QED
  BY Zenon, <1>1, <1>8, <1>9, AdminStep

\* remove_allowed_calls.
LEMMA RemoveAllowedCallsKeeps ==
  ASSUME KeychainInv, NEW k \in AccessKeys, NEW t \in Targets, RemoveAllowedCalls(k, t)
  PROVE  KeychainInv'
<1>1. EnsureAdminCaller /\ UNCHANGED <<keys, limits, signer, paid, timestamp, spec, book>>
  BY DEF RemoveAllowedCalls
<1>2. PICK sc, p : sc = scopes[k] /\ p = policy[k]
  OBVIOUS
<1>3. PICK q, g : /\ q = RemoveTargetScope(sc, t)
                  /\ g = [p EXCEPT !.rule = [u \in DOMAIN @ \ {t} |-> @[u]]]
  BY Zenon
<1>4. ScopePair(sc, p)
  BY Zenon, <1>2, KeychainFacts
<1>5. ScopePair(q, g)
  BY Zenon, <1>3, <1>4, RemoveKeeps
<1>6. scopes' = [scopes EXCEPT ![k] = q]
  BY <1>2, <1>3 DEF RemoveAllowedCalls, KeychainInv, KeychainTypes
<1>7. policy' = [policy EXCEPT ![k] = g]
  BY <1>2, <1>3 DEF RemoveAllowedCalls, KeychainInv, KeychainTypes
<1>8. ScopesKept
  BY Zenon, <1>5, <1>6, <1>7, ScopeStep
<1>9. LimitsKept
  BY <1>1, KeyStays
<1> QED
  BY Zenon, <1>1, <1>8, <1>9, AdminStep

\* The row that verify_and_update_spending deducts from.
SpendLimit(l) == IF spec >= 3 THEN RolledOver(l) ELSE l

\* A row and a book of the current window.
RowNow(l, b) ==
  /\ RowPair(l, b) /\ CurrentWindow(b) = b.window
  /\ b.period # 0 => RowOf(l, b, b.window)

\* The row of the current window, rolled over and reduced by what was spent
\* (verify_and_update_spending).
LEMMA SpentRow ==
  ASSUME NEW l, NEW b, RowPair(l, b), timestamp \in Nat, spec \in Specs,
         NEW a \in Nat, a <= SpendLimit(l).remaining
  PROVE  /\ RowNow(Deduct(SpendLimit(l), a), SpentBook(b, a))
         /\ SpentBook(b, a).spent = Current(b).spent + a
         /\ Current(b).spent \in Nat
         /\ CurrentWindow(b) = b.window => Current(b) = b
<1>1. l \in LimitRows /\ b \in LimitBooks /\ RowRight(l, b)
  BY DEF RowPair
<1>2. PICK r : r = RolledOver(l)
  OBVIOUS
<1>3. PICK c : c = Current(b)
  OBVIOUS
<1>4. /\ r \in LimitRows /\ c \in LimitBooks
      /\ r.period = b.period /\ c.period = b.period /\ c.start = b.start
      /\ r.remaining = c.granted - c.spent
      /\ c.spent <= c.granted
      /\ c.window = CurrentWindow(b) /\ CurrentWindow(c) = CurrentWindow(b)
      /\ b.period = 0 => r = l /\ c = b
      /\ b.period # 0 => /\ r.max = c.limit /\ c.granted = c.limit
                         /\ c.granted < Exhausted /\ RowOf(r, c, c.window)
  BY <1>1, <1>2, <1>3, RolledFacts
<1>5. /\ b.period # 0 => spec >= 3 /\ b.start <= timestamp
      /\ b.period = 0 => l.max = 0 \/ (spec >= 3 /\ l.max = b.granted)
  BY Zenon, <1>1 DEF RowRight
<1>6. SpendLimit(l) = r
  BY <1>2, <1>4, <1>5 DEF SpendLimit
<1>7. PICK m, d : m = Deduct(r, a) /\ d = SpentBook(b, a)
  OBVIOUS
<1>8. /\ r.remaining \in Nat /\ r.period \in Nat /\ c.spent \in Nat /\ c.granted \in Nat
      /\ c.window \in Nat /\ a <= r.remaining
  BY <1>4, <1>6 DEF LimitRows, LimitBooks
<1>9. /\ d \in LimitBooks /\ d.period = c.period /\ d.start = c.start /\ d.window = c.window
      /\ d.limit = c.limit /\ d.granted = c.granted /\ d.spent = c.spent + a
  <2>1. d = [c EXCEPT !.spent = @ + a]
    BY Zenon, <1>3, <1>7 DEF SpentBook
  <2>2. c.spent + a \in Nat
    BY <1>8
  <2> QED
    BY <1>4, <2>1, <2>2 DEF LimitBooks
<1>10. /\ m \in LimitRows /\ m.period = r.period /\ m.max = r.max /\ m.end = r.end
       /\ m.remaining = IF r.period # 0 /\ spec >= 7 /\ r.remaining - a = 0
                        THEN Exhausted ELSE r.remaining - a
  <2>1. PICK e : e = IF r.period # 0 /\ spec >= 7 /\ r.remaining - a = 0
                     THEN Exhausted ELSE r.remaining - a
    OBVIOUS
  <2>2. e \in Nat
    BY <1>8, <2>1 DEF Exhausted
  <2>3. m = [r EXCEPT !.remaining = e]
    BY <1>7, <2>1 DEF Deduct
  <2>4. /\ m \in LimitRows /\ m.period = r.period /\ m.max = r.max /\ m.end = r.end
        /\ m.remaining = e
    BY <1>4, <2>2, <2>3 DEF LimitRows
  <2> QED
    BY <2>1, <2>4
<1>11. CurrentWindow(d) = d.window
  <2>1. CurrentWindow(d) = CurrentWindow(c)
    BY <1>9 DEF CurrentWindow
  <2> QED
    BY Zenon, <1>4, <1>9, <2>1
<1>12. m.period = d.period /\ d.spent <= d.granted
  BY <1>4, <1>8, <1>9, <1>10
<1>13. RowRight(m, d) /\ (d.period # 0 => RowOf(m, d, d.window))
  <2>1. CASE b.period = 0
    <3>1. d.window = 0 /\ d.period = 0
      BY <1>4, <1>9, <2>1 DEF CurrentWindow
    <3>2. m.remaining = d.granted - d.spent
      BY <1>4, <1>8, <1>9, <1>10, <2>1
    <3>3. m.max = 0 \/ (spec >= 3 /\ m.max = d.granted)
      BY Zenon, <1>4, <1>5, <1>9, <1>10, <2>1
    <3> QED
      BY Zenon, <1>12, <3>1, <3>2, <3>3 DEF RowRight
  <2>2. CASE b.period # 0
    <3>1. RowOf(m, d, d.window)
      BY <1>4, <1>9, <1>10, <2>2 DEF RowOf
    <3>2. LeftIs(m, d)
      BY <1>4, <1>8, <1>9, <1>10 DEF LeftIs
    <3>3. /\ m.max = d.limit /\ d.granted = d.limit /\ d.granted < Exhausted
          /\ d.start <= timestamp /\ spec >= 3
      BY Zenon, <1>4, <1>5, <1>9, <1>10, <2>2
    <3>4. d.window \in 0..d.window /\ d.window <= CurrentWindow(d) /\ ~(d.window < d.window)
      BY <1>8, <1>9, <1>11
    <3>5. d.period # 0
      BY <1>4, <1>9, <2>2
    <3> QED
      BY Zenon, <1>12, <3>1, <3>2, <3>3, <3>4, <3>5 DEF RowRight
  <2> QED
    BY <2>1, <2>2
<1>14. CurrentWindow(b) = b.window => Current(b) = b
  BY DEF Current
<1>15. RowNow(m, d)
  BY Zenon, <1>9, <1>10, <1>11, <1>13 DEF RowNow, RowPair
<1>16. m = Deduct(SpendLimit(l), a)
  BY Zenon, <1>6, <1>7
<1> QED
  BY Zenon, <1>3, <1>7, <1>8, <1>9, <1>14, <1>15, <1>16

\* What a key that cannot administer has spent in the current window.
LEMMA PaidStep ==
  ASSUME signer \in AccessKeys, ~keys[signer].admin, ~keys[signer].revoked,
         UNCHANGED <<timestamp, keys, signer>>,
         NEW m, NEW d, m = limits'[signer], d = book'[signer], RowNow(m, d),
         paid' <= d.spent
  PROVE  PaidRight'
<1>1. CurrentWindow(d) = d.window /\ (d.period # 0 => RowOf(m, d, d.window))
  BY Zenon DEF RowNow
<1>2. CurrentWindow(d)' = d.window
  BY <1>1 DEF CurrentWindow
<1>3. (d.period # 0 => RowOf(m, d, d.window))'
  BY <1>1 DEF RowOf
<1> QED
  BY <1>2, <1>3 DEF PaidRight

\* A step that changes the rows of the signer alone.
LEMMA SignerStep ==
  ASSUME KeychainInv, signer \in AccessKeys, keys[signer].enforce, ~keys[signer].revoked,
         UNCHANGED <<keys, scopes, signer, timestamp, spec, policy>>,
         NEW m, NEW d, RowNow(m, d), limits' = [limits EXCEPT ![signer] = m],
         book' = [book EXCEPT ![signer] = d], paid' \in Nat, paid' <= d.spent
  PROVE  KeychainInv'
<1>1. PICK k, key : k = signer /\ key = keys[k]
  OBVIOUS
<1>2. /\ k \in AccessKeys /\ key \in KeyRecords /\ KeyRight(key, limits[k], book[k])
      /\ timestamp \in Nat /\ spec \in Specs
  BY Zenon, <1>1, KeychainFacts
<1>3. key.enforce /\ ~key.revoked /\ ~key.admin /\ key.expiry # 0
  BY Zenon, <1>1, <1>2 DEF KeyRight
<1>4. KeyTriple(key, m, d)
  BY Zenon, <1>2, <1>3 DEF KeyTriple, KeyRight, RowNow, RowPair
<1>5. /\ keys' = [keys EXCEPT ![k] = key]
      /\ limits' = [limits EXCEPT ![k] = m] /\ book' = [book EXCEPT ![k] = d]
  BY <1>1 DEF KeychainInv, KeychainTypes
<1>6. LimitsKept
  BY Zenon, <1>2, <1>4, <1>5, KeyStep
<1>7. ScopesKept
  BY ScopeStays
<1>8. m = limits'[signer] /\ d = book'[signer]
  BY DEF KeychainInv, KeychainTypes
<1>9. PaidRight'
  BY <1>1, <1>3, <1>8, PaidStep
<1> QED
  BY Zenon, <1>2, <1>6, <1>7, <1>9, KeychainKept

\* verify_and_update_spending.
LEMMA SpendKeeps ==
  ASSUME KeychainInv, NEW a \in Limits, Spend(a)
  PROVE  KeychainInv'
<1>1. /\ signer # Root /\ Active(signer) /\ keys[signer].enforce /\ paid' = paid + a
      /\ UNCHANGED <<keys, scopes, signer, timestamp, spec, policy>>
  BY DEF Spend
<1>2. /\ signer \in AccessKeys /\ paid \in Nat /\ timestamp \in Nat /\ spec \in Specs
      /\ PaidRight /\ a \in Nat
  BY <1>1, KeychainFacts, LimitFacts DEF KeychainInv
<1>3. PICK l, b : l = limits[signer] /\ b = book[signer]
  OBVIOUS
<1>4. RowPair(l, b) /\ ~keys[signer].revoked
  BY Zenon, <1>1, <1>2, <1>3, KeychainFacts DEF RowPair, KeyRight, Active
<1>5. a <= SpendLimit(l).remaining
  BY Zenon, <1>3 DEF Spend, SpendLimit
<1>6. PICK m, d : m = Deduct(SpendLimit(l), a) /\ d = SpentBook(b, a)
  OBVIOUS
<1>7. /\ RowNow(m, d) /\ d.spent = Current(b).spent + a /\ Current(b).spent \in Nat
      /\ CurrentWindow(b) = b.window => Current(b) = b
  BY Zenon, <1>2, <1>4, <1>5, <1>6, SpentRow
<1>8. limits' = [limits EXCEPT ![signer] = m]
  BY Zenon, <1>3, <1>6 DEF Spend, SpendLimit
<1>9. book' = [book EXCEPT ![signer] = d]
  BY <1>2, <1>3, <1>6 DEF Spend, KeychainInv, KeychainTypes
<1>10. paid' \in Nat /\ paid' <= d.spent
  <2>1. CASE paid = 0
    BY <1>1, <1>2, <1>7, <2>1
  <2>2. CASE paid > 0
    <3>1. CurrentWindow(b) = b.window /\ paid <= b.spent
      BY Zenon, <1>2, <1>3, <2>2 DEF PaidRight
    <3>2. Current(b).spent = b.spent
      BY Zenon, <1>7, <3>1
    <3> QED
      BY <1>1, <1>2, <1>7, <3>1, <3>2
  <2> QED
    BY <1>2, <2>1, <2>2
<1> QED
  BY Zenon, <1>1, <1>2, <1>4, <1>7, <1>8, <1>9, <1>10, SignerStep

\* The account's book of a refund.
RefundedBook(b, a) == [b EXCEPT !.spent = @ - a]

\* The end of the current window is yet to come.
LEMMA WindowOpen ==
  ASSUME NEW l \in LimitRows, NEW b \in LimitBooks, timestamp \in Nat, b.period # 0,
         b.start <= timestamp, CurrentWindow(b) = b.window, RowOf(l, b, b.window)
  PROVE  timestamp < l.end
<1>1. b.start \in Nat /\ b.period \in Nat /\ b.window \in Nat
  BY DEF LimitBooks
<1>2. PICK x, p, w : x = timestamp - b.start /\ p = b.period /\ w = b.window
  OBVIOUS
<1>3. x \in Nat /\ p \in Nat /\ p # 0 /\ w = x \div p /\ timestamp = b.start + x
  BY <1>1, <1>2 DEF CurrentWindow
<1>4. x < p * (w + 1)
  BY <1>3, Quotient
<1>5. l.end = b.start + p * (w + 1) /\ p * (w + 1) \in Nat
  BY <1>1, <1>2, Products DEF RowOf
<1> QED
  BY <1>1, <1>3, <1>4, <1>5

\* The row of the current window with an amount given back: no more than was
\* granted, so that the cap at the maximum never bites (refund_spending_limit).
LEMMA RefundedRow ==
  ASSUME NEW l, NEW b, RowNow(l, b), timestamp \in Nat, spec \in Specs,
         NEW a \in Nat, a <= b.spent
  PROVE  RowNow(Refunded(l, a), RefundedBook(b, a)) /\ RefundedBook(b, a).spent = b.spent - a
<1>1. /\ l \in LimitRows /\ b \in LimitBooks /\ RowRight(l, b) /\ CurrentWindow(b) = b.window
      /\ b.period # 0 => RowOf(l, b, b.window)
  BY Zenon DEF RowNow, RowPair
<1>2. /\ l.remaining \in Nat /\ l.max \in Nat /\ l.period \in Nat
      /\ b.spent \in Nat /\ b.granted \in Nat /\ b.window \in Nat /\ b.period \in Nat
  BY <1>1 DEF LimitRows, LimitBooks
<1>3. /\ l.period = b.period /\ b.spent <= b.granted
      /\ b.period = 0 => /\ b.window = 0 /\ l.remaining = b.granted - b.spent
                         /\ l.max = 0 \/ (spec >= 3 /\ l.max = b.granted)
      /\ b.period # 0 => /\ spec >= 3 /\ b.start <= timestamp
                         /\ l.max = b.limit /\ b.granted = b.limit
                         /\ b.granted < Exhausted
  BY Zenon, <1>1 DEF RowRight
<1>4. PICK m, d : m = Refunded(l, a) /\ d = RefundedBook(b, a)
  OBVIOUS
<1>5. /\ d \in LimitBooks /\ d.period = b.period /\ d.start = b.start /\ d.window = b.window
      /\ d.limit = b.limit /\ d.granted = b.granted /\ d.spent = b.spent - a
  <2>1. PICK e : e = b.spent - a
    OBVIOUS
  <2>2. e \in Nat
    BY <1>2, <2>1
  <2>3. d = [b EXCEPT !.spent = e]
    BY <1>4, <2>1 DEF RefundedBook
  <2>4. /\ d \in LimitBooks /\ d.period = b.period /\ d.start = b.start
        /\ d.window = b.window /\ d.limit = b.limit /\ d.granted = b.granted /\ d.spent = e
    BY <1>1, <2>2, <2>3 DEF LimitBooks
  <2> QED
    BY Zenon, <2>1, <2>4
<1>6. PICK back : back = b.granted - b.spent + a
  OBVIOUS
<1>7. back \in Nat /\ back <= b.granted /\ back = d.granted - d.spent
  BY <1>2, <1>3, <1>5, <1>6
<1>8. (IF l.period # 0 THEN Stored(l.remaining) + a ELSE l.remaining + a) = back
  <2>1. CASE b.period = 0
    BY <1>3, <1>6, <2>1
  <2>2. CASE b.period # 0
    <3>1. timestamp < l.end
      BY Zenon, <1>1, <1>3, <2>2, WindowOpen
    <3>2. LeftIs(l, b)
      BY Zenon, <1>1, <2>2, <3>1, RowFacts
    <3>3. Stored(l.remaining) = b.granted - b.spent
      BY <1>2, <1>3, <2>2, <3>2 DEF Stored, LeftIs, Exhausted
    <3> QED
      BY <1>3, <1>6, <2>2, <3>3
  <2> QED
    BY <2>1, <2>2
<1>9. (IF spec < 3 \/ l.max = 0 THEN back ELSE Min({back, l.max})) = back
  <2>1. CASE l.max = 0
    BY <2>1
  <2>2. CASE l.max # 0
    <3>1. l.max = b.granted
      BY Zenon, <1>3, <2>2
    <3>2. Min({back, l.max}) = back
      BY <1>2, <1>7, <3>1, MinIs
    <3> QED
      BY <3>2
  <2> QED
    BY <2>1, <2>2
<1>10. m = [l EXCEPT !.remaining = back]
  BY <1>4, <1>8, <1>9 DEF Refunded
<1>11. /\ m \in LimitRows /\ m.period = l.period /\ m.max = l.max /\ m.end = l.end
       /\ m.remaining = back
  BY <1>1, <1>7, <1>10 DEF LimitRows
<1>12. m.period = d.period /\ d.spent <= d.granted
  BY <1>2, <1>3, <1>5, <1>11
<1>13. CurrentWindow(d) = d.window
  BY <1>1, <1>5 DEF CurrentWindow
<1>14. d.period # 0 => RowOf(m, d, d.window)
  BY <1>1, <1>5, <1>11 DEF RowOf
<1>15. RowRight(m, d)
  <2>1. CASE d.period = 0
    BY Zenon, <1>3, <1>5, <1>7, <1>11, <1>12, <2>1 DEF RowRight
  <2>2. CASE d.period # 0
    <3>1. LeftIs(m, d)
      BY Zenon, <1>7, <1>11 DEF LeftIs
    <3>2. /\ m.max = d.limit /\ d.granted = d.limit /\ d.granted < Exhausted
          /\ d.start <= timestamp /\ spec >= 3
      BY Zenon, <1>3, <1>5, <1>11, <2>2
    <3>3. d.window \in 0..d.window /\ d.window <= CurrentWindow(d) /\ ~(d.window < d.window)
      BY <1>2, <1>5, <1>13
    <3> QED
      BY Zenon, <1>12, <1>14, <2>2, <3>1, <3>2, <3>3 DEF RowRight
  <2> QED
    BY <2>1, <2>2
<1> QED
  BY Zenon, <1>4, <1>5, <1>11, <1>13, <1>14, <1>15 DEF RowNow, RowPair

\* refund_spending_limit.
LEMMA RefundKeeps ==
  ASSUME KeychainInv, NEW a \in Limits, Refund(a)
  PROVE  KeychainInv'
<1>1. /\ signer # Root /\ a \in 1..paid /\ Active(signer) /\ keys[signer].enforce
      /\ paid' = paid - a
      /\ UNCHANGED <<keys, scopes, signer, timestamp, spec, policy>>
  BY SMTT(30) DEF Refund
<1>2. /\ signer \in AccessKeys /\ paid \in Nat /\ timestamp \in Nat /\ spec \in Specs
      /\ PaidRight
  BY <1>1, KeychainFacts DEF KeychainInv
<1>3. a \in Nat /\ a <= paid /\ paid > 0
  BY <1>1, <1>2
<1>4. PICK l, b : l = limits[signer] /\ b = book[signer]
  OBVIOUS
<1>5. RowPair(l, b) /\ ~keys[signer].revoked
  BY Zenon, <1>1, <1>2, <1>4, KeychainFacts DEF RowPair, KeyRight, Active
<1>6. paid <= b.spent /\ RowNow(l, b)
  BY Zenon, <1>2, <1>3, <1>4, <1>5 DEF PaidRight, RowNow
<1>7. b.spent \in Nat /\ a <= b.spent
  <2>1. b.spent \in Nat
    BY <1>5 DEF RowPair, LimitBooks
  <2> QED
    BY <1>2, <1>3, <1>6, <2>1
<1>8. PICK m, d : m = Refunded(l, a) /\ d = RefundedBook(b, a)
  OBVIOUS
<1>9. RowNow(m, d) /\ d.spent = b.spent - a
  BY Zenon, <1>2, <1>3, <1>6, <1>7, <1>8, RefundedRow
<1>10. limits' = [limits EXCEPT ![signer] = m]
  BY <1>2, <1>4, <1>8 DEF Refund, KeychainInv, KeychainTypes
<1>11. book' = [book EXCEPT ![signer] = d]
  BY <1>2, <1>4, <1>8 DEF Refund, RefundedBook, KeychainInv, KeychainTypes
<1>12. paid' \in Nat /\ paid' <= d.spent
  BY <1>1, <1>2, <1>3, <1>6, <1>7, <1>9
<1> QED
  BY Zenon, <1>1, <1>2, <1>5, <1>9, <1>10, <1>11, <1>12, SignerStep

\* A later time is in no earlier window.
LEMMA QuotientGrows ==
  ASSUME NEW x \in Nat, NEW y \in Nat, x <= y, NEW p \in Nat, p # 0
  PROVE  x \div p <= y \div p
<1>1. PICK v, w : v = x \div p /\ w = y \div p
  OBVIOUS
<1>2. /\ v \in Nat /\ p * v <= x /\ w \in Nat /\ y < p * (w + 1)
  BY <1>1, Quotient
<1> SUFFICES ASSUME w + 1 <= v PROVE FALSE
  BY <1>1, <1>2
<1>3. p * (w + 1) <= p * v /\ p * v \in Nat /\ p * (w + 1) \in Nat
  BY <1>2, Products
<1> QED
  BY <1>2, <1>3

\* Rows that agree do so at a later time and past a fork.
LEMMA RowLater ==
  ASSUME NEW l \in LimitRows, NEW b \in LimitBooks, RowRight(l, b), timestamp \in Nat,
         timestamp' \in Nat, timestamp <= timestamp', spec \in Specs, spec' \in Specs,
         spec <= spec'
  PROVE  RowRight(l, b)'
<1>1. b.start \in Nat /\ b.period \in Nat /\ b.window \in Nat
  BY DEF LimitBooks
<1>2. /\ l.period = b.period /\ b.spent <= b.granted
      /\ b.period = 0 => /\ b.window = 0 /\ l.remaining = b.granted - b.spent
                         /\ l.max = 0 \/ (spec >= 3 /\ l.max = b.granted)
      /\ b.period # 0 =>
            /\ spec >= 3 /\ b.start <= timestamp /\ b.window <= CurrentWindow(b)
            /\ l.max = b.limit /\ b.granted = b.limit /\ b.granted < Exhausted
            /\ \E j \in 0..b.window : /\ RowOf(l, b, j)
                                      /\ j < b.window => b.spent = 0
                                      /\ j = b.window => LeftIs(l, b)
  BY Zenon DEF RowRight
<1>3. spec >= 3 => spec' >= 3
  BY DEF Specs
<1>4. LeftIs(l, b) => LeftIs(l, b)'
  BY DEF LeftIs, Specs
<1>5. CASE b.period = 0
  BY Zenon, <1>2, <1>3, <1>5 DEF RowRight
<1>6. CASE b.period # 0
  <2>1. PICK x, y : x = timestamp - b.start /\ y = timestamp' - b.start
    OBVIOUS
  <2>2. /\ x \in Nat /\ y \in Nat /\ x <= y /\ b.start <= timestamp'
    BY <1>1, <1>2, <1>6, <2>1
  <2>3. x \div b.period \in Nat /\ y \div b.period \in Nat /\ x \div b.period <= y \div b.period
    BY <1>1, <1>6, <2>2, Quotient, QuotientGrows
  <2>4. CurrentWindow(b) = x \div b.period /\ CurrentWindow(b)' = y \div b.period
    BY <1>6, <2>1 DEF CurrentWindow
  <2>5. b.window <= CurrentWindow(b)'
    BY <1>1, <1>2, <1>6, <2>3, <2>4
  <2>6. PICK j \in 0..b.window : /\ RowOf(l, b, j)
                                 /\ j < b.window => b.spent = 0
                                 /\ j = b.window => LeftIs(l, b)
    BY Zenon, <1>2, <1>6
  <2>7. RowOf(l, b, j)'
    BY <2>6 DEF RowOf
  <2> QED
    BY Zenon, <1>2, <1>3, <1>4, <1>6, <2>2, <2>5, <2>6, <2>7 DEF RowRight
<1> QED
  BY <1>5, <1>6

\* The next transaction has spent nothing.
LEMMA BeginTransactionKeeps ==
  ASSUME KeychainInv, BeginTransaction
  PROVE  KeychainInv'
<1>1. /\ timestamp' \in {timestamp, timestamp + 1} /\ spec' \in Specs /\ spec' >= spec
      /\ signer' \in {Root} \cup AccessKeys /\ paid' = 0
      /\ UNCHANGED <<keys, limits, scopes, book, policy>>
  BY DEF BeginTransaction
<1>2. /\ timestamp \in Nat /\ timestamp' \in Nat /\ timestamp <= timestamp'
      /\ spec \in Specs /\ spec <= spec'
  BY <1>1, KeychainFacts DEF Specs
<1>3. ASSUME NEW k \in AccessKeys PROVE KeyRight(keys[k], limits[k], book[k])'
  <2>1. PICK key, l, b : key = keys[k] /\ l = limits[k] /\ b = book[k]
    OBVIOUS
  <2>2. key = keys'[k] /\ l = limits'[k] /\ b = book'[k]
    BY <1>1, <2>1
  <2>3. l \in LimitRows /\ b \in LimitBooks /\ KeyRight(key, l, b)
    BY Zenon, <2>1, KeychainFacts
  <2>4. RowRight(l, b) => RowRight(l, b)'
    BY <1>1, <1>2, <2>3, RowLater
  <2>5. KeyRight(key, l, b)'
    BY Zenon, <2>3, <2>4 DEF KeyRight
  <2> QED
    BY <2>2, <2>5
<1>4. LimitsKept
  BY <1>1, <1>3 DEF LimitsKept, KeychainInv, KeychainTypes
<1>5. ScopesKept
  BY <1>1, ScopeStays
<1>6. PaidRight'
  BY <1>1 DEF PaidRight
<1>7. signer' \in AccessKeys \cup {Root} /\ paid' \in Nat
  BY <1>1
<1> QED
  BY Zenon, <1>1, <1>2, <1>4, <1>5, <1>6, <1>7, KeychainKept

\* No key, no row, no scope: the invariant holds of an empty keychain.
LEMMA KeychainStarts ==
  ASSUME KeychainInit PROVE KeychainInv
<1>1. /\ NoKey \in KeyRecords /\ NoKey.enforce = FALSE
      /\ NoLimit \in LimitRows /\ NoBook \in LimitBooks
  BY DEF NoKey, NoLimit, NoBook, KeyRecords, LimitRows, LimitBooks
<1>2. RowRight(NoLimit, NoBook)
  BY DEF RowRight, NoLimit, NoBook, Exhausted
<1>3. KeyRight(NoKey, NoLimit, NoBook)
  BY Zenon, <1>1, <1>2 DEF KeyRight
<1>4. NoScope \in ScopeTrees /\ ScopeRight(NoScope, Anything)
  <2>1. /\ NoScope.scoped = FALSE /\ NoScope.targets = {}
        /\ NoScope.selectors = [t \in Targets |-> {}]
        /\ NoScope.recipients = [c \in Targets \X Selectors |-> {}]
    BY DEF NoScope
  <2>2. Anything.any = TRUE /\ DOMAIN Anything.rule = {}
    BY DEF Anything
  <2>3. NoScope \in ScopeTrees
    BY DEF NoScope, ScopeTrees
  <2> QED
    BY Zenon, <2>1, <2>2, <2>3 DEF ScopeRight
<1>5. Anything \in CallPolicies
  <2>1. PICK f : f = [t \in {} |-> <<>>]
    OBVIOUS
  <2>2. f \in [{} -> Rules]
    BY <2>1
  <2>3. f \in UNION {[T -> Rules] : T \in SUBSET Targets}
    BY <2>2
  <2>4. Anything = [any |-> TRUE, rule |-> f]
    BY <2>1 DEF Anything
  <2> QED
    BY <2>3, <2>4 DEF CallPolicies
<1>6. KeychainTypes
  BY <1>1, <1>4, <1>5 DEF KeychainTypes, KeychainInit
<1>7. \A k \in AccessKeys : /\ KeyRight(keys[k], limits[k], book[k])
                            /\ ScopeRight(scopes[k], policy[k])
  BY <1>3, <1>4 DEF KeychainInit
<1>8. PaidRight
  BY DEF PaidRight, KeychainInit
<1> QED
  BY Zenon, <1>6, <1>7, <1>8 DEF KeychainInv

\* Every step keeps the invariant.
LEMMA KeychainStep ==
  ASSUME KeychainInv, [KeychainNext]_keychainVars PROVE KeychainInv'
<1>1. CASE BeginTransaction
  BY <1>1, BeginTransactionKeeps
<1>2. ASSUME NEW k \in AccessKeys, NEW e \in Expiries, NEW b \in BOOLEAN, NEW a \in Limits,
             AuthorizeKeyLegacy(k, e, b, a)
      PROVE  KeychainInv'
  BY <1>2, AuthorizeKeyLegacyKeeps
<1>3. ASSUME NEW k \in AccessKeys, NEW e \in Expiries, NEW b \in BOOLEAN, NEW a \in Limits,
             NEW p \in Periods, NEW c \in AllowedCalls, AuthorizeKey(k, e, b, a, p, c)
      PROVE  KeychainInv'
  BY <1>3, AuthorizeKeyKeeps
<1>4. ASSUME NEW k \in AccessKeys, AuthorizeAdminKey(k) PROVE KeychainInv'
  BY <1>4, AuthorizeAdminKeyKeeps
<1>5. ASSUME NEW k \in AccessKeys, RevokeKey(k) PROVE KeychainInv'
  BY <1>5, RevokeKeyKeeps
<1>6. ASSUME NEW k \in AccessKeys, NEW a \in Limits, UpdateSpendingLimit(k, a)
      PROVE  KeychainInv'
  BY <1>6, UpdateSpendingLimitKeeps
<1>7. ASSUME NEW k \in AccessKeys, NEW t \in Targets, NEW r \in Rules,
             SetAllowedCalls(k, t, r)
      PROVE  KeychainInv'
  BY <1>7, SetAllowedCallsKeeps
<1>8. ASSUME NEW k \in AccessKeys, NEW t \in Targets, RemoveAllowedCalls(k, t)
      PROVE  KeychainInv'
  BY <1>8, RemoveAllowedCallsKeeps
<1>9. ASSUME NEW a \in Limits, Spend(a) PROVE KeychainInv'
  BY <1>9, SpendKeeps
<1>10. ASSUME NEW a \in Limits, Refund(a) PROVE KeychainInv'
  BY <1>10, RefundKeeps
<1>11. CASE UNCHANGED keychainVars
  <2>1. UNCHANGED <<keys, limits, scopes, signer, paid, timestamp, spec, book, policy>>
    BY <1>11 DEF keychainVars
  <2>2. LimitsKept /\ ScopesKept
    BY SMTT(30), <2>1, KeyStays, ScopeStays
  <2>3. PaidRight'
    BY <2>1 DEF KeychainInv, PaidRight, CurrentWindow, RowOf
  <2>4. /\ signer' \in AccessKeys \cup {Root} /\ paid' \in Nat /\ timestamp' \in Nat
        /\ spec' \in Specs
    BY <2>1, KeychainFacts
  <2> QED
    BY Zenon, <2>2, <2>3, <2>4, KeychainKept
<1> QED
  BY Zenon, <1>1, <1>2, <1>3, <1>4, <1>5, <1>6, <1>7, <1>8, <1>9, <1>10, <1>11
     DEF KeychainNext

\* A key may do and spend exactly what the account last granted it, whatever the
\* periods, limits, rules and times: through roll-overs of many windows, refunds,
\* new limits in a window that has begun or that the row has not reached, rows
\* written before T3 and the T7 marker of an empty limit
\* (verify_and_update_spending, refund_spending_limit, upsert_target_scope).
THEOREM GrantsStayExact == KeychainSpec => []GrantsExact
<1>1. KeychainInit => KeychainInv
  BY KeychainStarts
<1>2. KeychainInv /\ [KeychainNext]_keychainVars => KeychainInv'
  BY KeychainStep
<1>3. KeychainInv => GrantsExact
  BY GrantsFollow
<1> QED
  BY <1>1, <1>2, <1>3, PTL DEF KeychainSpec
=============================================================================
