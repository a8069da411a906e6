------------------------ MODULE ArbitrageDecisionProofs ------------------------
(***************************************************************************)
(* The decision of the arbitrage, proved for every number of exchanges,    *)
(* every fee, slippage and daily volume, and every ticker and balance.     *)
(*                                                                         *)
(* The matcher's loop finds the best bid and ask because their order,      *)
(* price first and then the exchange's place in the map, is total on the   *)
(* finitely many exchanges heard (BestExists).  The rest is arithmetic on  *)
(* products of natural numbers, which the lemmas break into steps that     *)
(* each compare two products.                                              *)
(***************************************************************************)
EXTENDS ArbitrageDecision, FiniteSetTheorems, WellFoundedInduction, TLAPS

\* The tickers heard so far.
Inv ==
    /\ IsFiniteSet(DOMAIN tickers) /\ DOMAIN tickers \subseteq Exchanges
    /\ tickers = [e \in DOMAIN tickers |-> tickers[e]]
    /\ \A e \in DOMAIN tickers : tickers[e] \in Quotes
    /\ base \in Nat /\ quote \in Nat

\* The first state satisfies the invariant.
LEMMA InvInit == Init => Inv
<1> SUFFICES ASSUME Init PROVE Inv
  OBVIOUS
<1>1. tickers = [e \in {} |-> 0] /\ DOMAIN tickers = {}
  BY DEF Init
<1>2. IsFiniteSet(DOMAIN tickers)
  BY <1>1, FS_EmptySet
<1>3. base \in Nat /\ quote \in Nat
  BY DecisionAssumption DEF Init
<1> QED BY <1>1, <1>2, <1>3 DEF Inv

\* A ticker or a balance changes, and the invariant stays.
LEMMA InvStep == Inv /\ [Next]_vars => Inv'
<1> SUFFICES ASSUME Inv, [Next]_vars PROVE Inv'
  OBVIOUS
<1>1. ASSUME NEW e \in Exchanges, NEW q \in Quotes, StoreTicker(e, q) PROVE Inv'
  <2>1. /\ tickers' = [f \in DOMAIN tickers \cup {e} |-> IF f = e THEN q ELSE tickers[f]]
        /\ base' = base /\ quote' = quote
    BY <1>1 DEF StoreTicker
  <2>2. DOMAIN tickers' = DOMAIN tickers \cup {e}
    BY <2>1
  <2>3. IsFiniteSet(DOMAIN tickers')
    BY <2>2, FS_AddElement DEF Inv
  <2>4. \A f \in DOMAIN tickers' : tickers'[f] \in Quotes
    BY <2>1, <2>2 DEF Inv
  <2>5. tickers' = [f \in DOMAIN tickers' |-> tickers'[f]]
    BY <2>1
  <2> QED BY <2>1, <2>2, <2>3, <2>4, <2>5 DEF Inv
<1>2. ASSUME NEW x \in Amounts, BaseBalance(x) \/ QuoteBalance(x) PROVE Inv'
  <2>1. tickers' = tickers /\ x \in Nat
    BY <1>2, DecisionAssumption DEF BaseBalance, QuoteBalance
  <2>2. base' \in Nat /\ quote' \in Nat
    BY <1>2, <2>1 DEF BaseBalance, QuoteBalance, Inv
  <2> QED BY <2>1, <2>2 DEF Inv
<1>3. CASE UNCHANGED vars
  BY <1>3 DEF vars, Inv
<1> QED BY <1>1, <1>2, <1>3 DEF Next

\* The tickers heard are of the known exchanges, with prices and volumes.
THEOREM InvCorrect == Spec => []Inv
<1>1. Init => Inv
  BY InvInit
<1>2. Inv /\ [Next]_vars => Inv'
  BY InvStep
<1> QED BY <1>1, <1>2, PTL DEF Spec

-----------------------------------------------------------------------------
(***************************************************************************)
(* The best of finitely many                                               *)
(***************************************************************************)

\* A set of natural numbers has a least element: the only induction used here.
LEMMA Least ==
    ASSUME NEW T, T \subseteq Nat, T # {}
    PROVE  \E x \in T : \A y \in T : x <= y
<1> DEFINE R == OpToRel(<, Nat)
<1>1. IsWellFoundedOn(R, Nat)
  BY NatLessThanWellFounded
<1>2. \E x \in T : \A y \in T : ~(<<y, x>> \in R)
  <2> HIDE DEF R
  <2> QED BY <1>1, WFMin
<1>3. PICK x \in T : \A y \in T : ~(<<y, x>> \in R)
  BY <1>2
<1>4. ASSUME NEW y \in T PROVE x <= y
  <2>1. x \in Nat /\ y \in Nat
    OBVIOUS
  <2>2. ~(y < x)
    BY <1>3, <2>1 DEF OpToRel
  <2> QED BY <2>1, <2>2
<1> QED BY <1>4

IsBest(e, D, R) == e \in D /\ \A f \in D \ {e} : <<e, f>> \in R

Total(D, R) ==
    /\ \A e, f \in D : e # f => <<e, f>> \in R \/ <<f, e>> \in R
    /\ \A e, f, g \in D : <<e, f>> \in R /\ <<f, g>> \in R => <<e, g>> \in R

\* A finite set with a total order has a best element: take the smallest one that
\* has none, and an element out of it.
LEMMA BestExists ==
    ASSUME NEW D, IsFiniteSet(D), D # {}, NEW R, Total(D, R)
    PROVE  \E e \in D : IsBest(e, D, R)
<1> DEFINE Bestless(T) == T # {} /\ ~\E e \in T : IsBest(e, T, R)
           sizes == {Cardinality(T) : T \in {S \in SUBSET D : Bestless(S)}}
<1> SUFFICES ASSUME Bestless(D) PROVE FALSE
  OBVIOUS
<1>1. sizes \subseteq Nat
  BY FS_Subset, FS_CardinalityType
<1>2. sizes # {}
  OBVIOUS
<1>3. PICK n \in sizes : \A m \in sizes : n <= m
  <2> HIDE DEF sizes
  <2> QED BY <1>1, <1>2, Least
<1>4. PICK T \in SUBSET D : Bestless(T) /\ n = Cardinality(T)
  BY <1>3
<1>5. PICK x \in T : TRUE
  BY <1>4
<1> DEFINE U == T \ {x}
<1>6. IsFiniteSet(T) /\ IsFiniteSet(U) /\ Cardinality(U) = n - 1 /\ n \in Nat /\ U \in SUBSET D
  <2>1. IsFiniteSet(T)
    BY FS_Subset
  <2> QED BY <1>1, <1>3, <1>4, <1>5, <2>1, FS_RemoveElement
<1>7. ~Bestless(U)
  <2> SUFFICES ASSUME Bestless(U) PROVE FALSE
    OBVIOUS
  <2>1. Cardinality(U) \in sizes
    BY <1>6
  <2>2. n <= n - 1
    BY <1>3, <1>6, <2>1
  <2> QED BY <1>6, <2>2
<1>8. CASE U = {}
  <2>1. IsBest(x, T, R)
    BY <1>5, <1>8 DEF IsBest
  <2> QED BY <1>4, <1>5, <2>1
<1>9. CASE U # {}
  <2>1. PICK y \in U : IsBest(y, U, R)
    BY <1>7, <1>9
  <2>2. x \in D /\ y \in D /\ x # y /\ \A f \in T : f \in D
    BY <1>4, <1>5, <2>1
  <2>3. CASE <<x, y>> \in R
    <3>1. \A f \in T \ {x} : <<x, f>> \in R
      BY <2>1, <2>2, <2>3 DEF IsBest, Total
    <3> QED BY <1>4, <1>5, <3>1 DEF IsBest
  <2>4. CASE <<y, x>> \in R
    <3>1. \A f \in T \ {y} : <<y, f>> \in R
      BY <2>1, <2>4 DEF IsBest
    <3> QED BY <1>4, <2>1, <3>1 DEF IsBest
  <2> QED BY <2>2, <2>3, <2>4 DEF Total
<1> QED BY <1>8, <1>9

\* The tickers of a reachable state, and the numbers in them.
LEMMA Quoted ==
    ASSUME Inv, NEW e \in DOMAIN tickers
    PROVE  /\ e \in Exchanges
           /\ tickers[e].bid \in Nat /\ tickers[e].ask \in Nat /\ tickers[e].ask > 0
           /\ tickers[e].bid_vol \in Nat /\ tickers[e].bid_vol > 0
           /\ tickers[e].ask_vol \in Nat /\ tickers[e].ask_vol > 0
BY DecisionAssumption DEF Inv, Ticker

\* FindMatch's loop finds an exchange with the highest bid.
LEMMA BestBidIs ==
    ASSUME Inv, DOMAIN tickers # {}
    PROVE  /\ BestBid(tickers) \in DOMAIN tickers
           /\ \A f \in DOMAIN tickers : tickers[f].bid <= tickers[BestBid(tickers)].bid
<1> DEFINE D == DOMAIN tickers
           Beats(e, f) == \/ tickers[e].bid > tickers[f].bid
                          \/ tickers[e].bid = tickers[f].bid /\ Rank[e] < Rank[f]
           R == {p \in D \X D : Beats(p[1], p[2])}
<1>1. \A e \in D : tickers[e].bid \in Nat /\ Rank[e] \in Nat
  BY Quoted, OrdersAssumption
<1>2. \A e, f \in D : Rank[e] = Rank[f] => e = f
  BY Quoted, OrdersAssumption
<1>3. \A e, f \in D : <<e, f>> \in R <=> Beats(e, f)
  OBVIOUS
<1>4. Total(D, R)
  BY <1>1, <1>2, <1>3 DEF Total
<1>5. PICK e \in D : IsBest(e, D, R)
  <2> HIDE DEF R
  <2> QED BY <1>4, BestExists DEF Inv
<1>6. \A f \in D \ {e} : Beats(e, f)
  BY <1>3, <1>5 DEF IsBest
<1>7. BestBid(tickers) \in D /\ \A f \in D \ {BestBid(tickers)} : Beats(BestBid(tickers), f)
  BY <1>6 DEF BestBid
<1> QED BY <1>1, <1>7

\* And one with the lowest ask.
LEMMA BestAskIs ==
    ASSUME Inv, DOMAIN tickers # {}
    PROVE  /\ BestAsk(tickers) \in DOMAIN tickers
           /\ \A f \in DOMAIN tickers : tickers[f].ask >= tickers[BestAsk(tickers)].ask
<1> DEFINE D == DOMAIN tickers
           Beats(e, f) == \/ tickers[e].ask < tickers[f].ask
                          \/ tickers[e].ask = tickers[f].ask /\ Rank[e] < Rank[f]
           R == {p \in D \X D : Beats(p[1], p[2])}
<1>1. \A e \in D : tickers[e].ask \in Nat /\ Rank[e] \in Nat
  BY Quoted, OrdersAssumption
<1>2. \A e, f \in D : Rank[e] = Rank[f] => e = f
  BY Quoted, OrdersAssumption
<1>3. \A e, f \in D : <<e, f>> \in R <=> Beats(e, f)
  OBVIOUS
<1>4. Total(D, R)
  BY <1>1, <1>2, <1>3 DEF Total
<1>5. PICK e \in D : IsBest(e, D, R)
  <2> HIDE DEF R
  <2> QED BY <1>4, BestExists DEF Inv
<1>6. \A f \in D \ {e} : Beats(e, f)
  BY <1>3, <1>5 DEF IsBest
<1>7. BestAsk(tickers) \in D /\ \A f \in D \ {BestAsk(tickers)} : Beats(BestAsk(tickers), f)
  BY <1>6 DEF BestAsk
<1> QED BY <1>1, <1>7

-----------------------------------------------------------------------------
(***************************************************************************)
(* Products                                                                *)
(***************************************************************************)

\* Products of natural numbers, which the solver multiplies only when told.
LEMMA Product ==
    ASSUME NEW x \in Nat, NEW y \in Nat
    PROVE  x * y \in Nat /\ (x > 0 /\ y > 0 => x * y > 0)
OBVIOUS

\* Products grow with their factors.
LEMMA ProductGrows ==
    ASSUME NEW x \in Nat, NEW y \in Nat, NEW z \in Nat, NEW w \in Nat, x <= z, y <= w
    PROVE  x * y <= z * w
<1>1. (z - x) * y \in Nat /\ z * (w - y) \in Nat
  BY Product
<1>2. z * w - x * y = (z - x) * y + z * (w - y)
  OBVIOUS
<1>3. x * y \in Nat /\ z * w \in Nat
  BY Product
<1> QED BY <1>1, <1>2, <1>3

\* What sells at a profit after fees, margin and slippage sells at one after fees.
LEMMA ProfitMeans ==
    ASSUME NEW b \in Exchanges, NEW a \in Exchanges, NEW bid \in Nat, NEW ask \in Nat,
           ask > 0, Profit(b, bid, a, ask) >= 0
    PROVE  /\ bid - Slippage[b] \in Nat /\ bid - Slippage[b] > 0
           /\ BuyCost(a) * ask <= SellCost(b) * bid
<1> DEFINE p == Unit - Fee[b] - Margin
           q == Unit + Fee[a] + Margin
           x == bid - Slippage[b]
           y == ask + Slippage[a]
<1>1. /\ p \in Nat /\ p > 0 /\ q \in Nat /\ q > 0 /\ x \in Int /\ y \in Nat /\ y > 0
      /\ x <= bid /\ ask <= y
      /\ SellCost(b) \in Nat /\ p <= SellCost(b) /\ BuyCost(a) \in Nat /\ BuyCost(a) <= q
  BY OrdersAssumption DEF SellCost, BuyCost
<1>2. p * x >= q * y
  <2>1. Profit(b, bid, a, ask) = p * x - q * y
    BY DEF Profit
  <2>2. p * x \in Int /\ q * y \in Int
    BY <1>1
  <2> HIDE DEF p, q, x, y
  <2> QED BY <2>1, <2>2
<1> HIDE DEF p, q, x, y
<1>3. q * y > 0 /\ q * y \in Nat
  BY <1>1, Product
<1>4. x > 0
  <2> SUFFICES ASSUME x <= 0 PROVE FALSE
    BY <1>1
  <2>1. p * (-x) \in Nat /\ p * x = -(p * (-x))
    BY <1>1
  <2> QED BY <1>1, <1>2, <1>3, <2>1
<1>5. p * x <= SellCost(b) * bid
  BY <1>1, <1>4, ProductGrows
<1>6. BuyCost(a) * ask <= q * y
  BY <1>1, ProductGrows
<1>7. p * x \in Int /\ BuyCost(a) * ask \in Nat /\ SellCost(b) * bid \in Nat
  BY <1>1, <1>4, Product
<1>8. BuyCost(a) * ask <= SellCost(b) * bid
  BY <1>2, <1>3, <1>5, <1>6, <1>7
<1> QED BY <1>1, <1>4, <1>8 DEF x

\* Higher bids, lower asks, fees and slippages make more profit.
LEMMA ProfitGrows ==
    ASSUME NEW b \in Exchanges, NEW a \in Exchanges, NEW bid \in Nat, NEW ask \in Nat,
           NEW c \in Exchanges, NEW d \in Exchanges, NEW bid2 \in Nat, NEW ask2 \in Nat,
           ask > 0, ask2 > 0, Profit(b, bid, a, ask) >= 0, bid <= bid2, ask2 <= ask,
           Fee[c] <= Fee[b], Slippage[c] <= Slippage[b],
           Fee[d] <= Fee[a], Slippage[d] <= Slippage[a]
    PROVE  Profit(b, bid, a, ask) <= Profit(c, bid2, d, ask2)
<1> DEFINE p == Unit - Fee[b] - Margin
           q == Unit + Fee[a] + Margin
           x == bid - Slippage[b]
           y == ask + Slippage[a]
           p2 == Unit - Fee[c] - Margin
           q2 == Unit + Fee[d] + Margin
           x2 == bid2 - Slippage[c]
           y2 == ask2 + Slippage[d]
<1>1. x \in Nat
  BY ProfitMeans
<1>2. /\ {p, q, y, p2, q2, y2, x2} \subseteq Int
      /\ p > 0 /\ q > 0 /\ y > 0 /\ q2 > 0 /\ y2 > 0
      /\ p <= p2 /\ x <= x2 /\ q2 <= q /\ y2 <= y
  BY OrdersAssumption
<1>3. Profit(b, bid, a, ask) = p * x - q * y /\ Profit(c, bid2, d, ask2) = p2 * x2 - q2 * y2
  BY DEF Profit
<1> HIDE DEF p, q, x, y, p2, q2, x2, y2
<1>4. p * x <= p2 * x2
  <2>1. p \in Nat /\ p2 \in Nat /\ x2 \in Nat
    BY <1>1, <1>2
  <2> QED BY <1>1, <1>2, <2>1, ProductGrows
<1>5. q2 * y2 <= q * y
  <2>1. q \in Nat /\ q2 \in Nat /\ y \in Nat /\ y2 \in Nat
    BY <1>2
  <2> QED BY <1>2, <2>1, ProductGrows
<1>6. {p * x, q * y, p2 * x2, q2 * y2} \subseteq Int
  BY <1>1, <1>2
<1> QED BY <1>3, <1>4, <1>5, <1>6
-----------------------------------------------------------------------------
(***************************************************************************)
(* The match                                                               *)
(***************************************************************************)

\* The two sides of a match.
LEMMA MatchSides ==
    ASSUME Inv, DOMAIN tickers # {}
    PROVE  /\ Bid.exchange \in DOMAIN tickers /\ Ask.exchange \in DOMAIN tickers
           /\ Bid.exchange \in Exchanges /\ Ask.exchange \in Exchanges
           /\ Bid.exchange = BestBid(tickers) /\ Ask.exchange = BestAsk(tickers)
           /\ Bid.price = tickers[Bid.exchange].bid /\ Ask.price = tickers[Ask.exchange].ask
           /\ Bid.price \in Nat /\ Ask.price \in Nat /\ Ask.price > 0
           /\ Bid.vol \in Nat /\ Bid.vol > 0 /\ Ask.vol \in Nat /\ Ask.vol > 0
           /\ Match <=> Bid.price > 0
                        /\ Profit(Bid.exchange, Bid.price, Ask.exchange, Ask.price) >= 0
<1>1. BestBid(tickers) \in DOMAIN tickers /\ BestAsk(tickers) \in DOMAIN tickers
  BY BestBidIs, BestAskIs
<1> QED BY <1>1, Quoted DEF Bid, Ask, Match, HasMatch

\* A match on one exchange would pay fee, margin or slippage on a spread below zero.
LEMMA Different ==
    ASSUME Inv, \A e \in Exchanges : Fee[e] + Margin + Slippage[e] > 0
    PROVE  DifferentExchanges
<1> SUFFICES ASSUME Match, \A e \in DOMAIN tickers : tickers[e].bid <= tickers[e].ask,
                    Bid.exchange = Ask.exchange
             PROVE  FALSE
  BY DEF DifferentExchanges
<1>1. DOMAIN tickers # {}
  BY DEF Match, HasMatch
<1> DEFINE e == Bid.exchange
           bid == Bid.price
           ask == Ask.price
<1>2. /\ e \in Exchanges /\ bid \in Nat /\ bid > 0 /\ ask \in Nat /\ bid <= ask
      /\ Profit(e, bid, e, ask) >= 0 /\ ask > 0
  BY <1>1, MatchSides
<1> HIDE DEF e, bid, ask
<1>3. bid - Slippage[e] \in Nat /\ Slippage[e] \in Nat /\ Fee[e] \in Nat /\ Margin \in Nat
        /\ Unit - Fee[e] - Margin \in Nat /\ Unit - Fee[e] - Margin > 0
        /\ Fee[e] + Margin + Slippage[e] > 0 /\ Unit \in Nat
  BY <1>2, ProfitMeans, OrdersAssumption
<1> DEFINE p == Unit - Fee[e] - Margin
           f == Fee[e] + Margin
           g == Slippage[e]
<1>4. p \in Nat /\ p > 0 /\ f \in Nat /\ g \in Nat /\ f + g > 0 /\ Unit = p + f
        /\ Unit + Fee[e] + Margin = p + 2 * f
  BY <1>3
<1>5. Profit(e, bid, e, ask) = p * (bid - g) - (p + 2 * f) * (ask + g)
  BY <1>3, <1>4 DEF Profit
<1> HIDE DEF p, f, g
<1>6. (p + 2 * f) * (ask + g) = p * ask + p * g + 2 * (f * ask) + 2 * (f * g)
  BY <1>2, <1>4
<1>7. p * (bid - g) = p * bid - p * g
  BY <1>2, <1>4
<1>8. p * bid <= p * ask /\ {p * bid, p * ask, p * g, f * ask, f * g} \subseteq Nat
  BY <1>2, <1>4, ProductGrows, Product
<1>9. p * g > 0 \/ f * ask > 0
  BY <1>2, <1>4, Product
<1> QED BY <1>2, <1>5, <1>6, <1>7, <1>8, <1>9

\* While no book is crossed, and with a fee, a margin or a slippage on every exchange,
\* a match never buys and sells on the same one.
THEOREM DifferentExchangesCorrect ==
    ASSUME \A e \in Exchanges : Fee[e] + Margin + Slippage[e] > 0
    PROVE  Spec => []DifferentExchanges
<1>1. Inv => DifferentExchanges
  BY Different
<1> QED BY <1>1, InvCorrect, PTL

\* A cheaper pair of exchanges at better prices has at least the profit.
LEMMA NoBetter == Inv => NoBetterAtSameCost
<1> SUFFICES ASSUME Inv, DOMAIN tickers # {}, tickers[BestBid(tickers)].bid > 0,
                    NEW b \in DOMAIN tickers, NEW a \in DOMAIN tickers,
                    Fee[b] >= Fee[Bid.exchange], Slippage[b] >= Slippage[Bid.exchange],
                    Fee[a] >= Fee[Ask.exchange], Slippage[a] >= Slippage[Ask.exchange],
                    Profit(b, tickers[b].bid, a, tickers[a].ask) >= 0
             PROVE  /\ Match
                    /\ Profit(b, tickers[b].bid, a, tickers[a].ask)
                         <= Profit(Bid.exchange, Bid.price, Ask.exchange, Ask.price)
  BY DEF NoBetterAtSameCost
<1> DEFINE c == Bid.exchange
           d == Ask.exchange
           bid == tickers[b].bid
           ask == tickers[a].ask
<1>1. /\ b \in Exchanges /\ a \in Exchanges /\ bid \in Nat /\ ask \in Nat /\ ask > 0
  BY Quoted
<1>2. /\ c \in Exchanges /\ d \in Exchanges /\ Bid.price \in Nat /\ Ask.price \in Nat
      /\ Ask.price > 0 /\ Bid.price > 0
      /\ Match <=> Bid.price > 0 /\ Profit(c, Bid.price, d, Ask.price) >= 0
  BY MatchSides
<1>3. bid <= Bid.price /\ Ask.price <= ask
  BY <1>1, <1>2, MatchSides, BestBidIs, BestAskIs
<1>4. Fee[c] <= Fee[b] /\ Slippage[c] <= Slippage[b] /\ Fee[d] <= Fee[a]
        /\ Slippage[d] <= Slippage[a]
  BY <1>1, <1>2, OrdersAssumption
<1>5. Profit(b, bid, a, ask) <= Profit(c, Bid.price, d, Ask.price)
  <2> HIDE DEF c, d, bid, ask
  <2> QED BY <1>1, <1>2, <1>3, <1>4, ProfitGrows DEF c, d, bid, ask
<1>6. Profit(b, bid, a, ask) \in Int /\ Profit(c, Bid.price, d, Ask.price) \in Int
  BY <1>1, <1>2, OrdersAssumption DEF Profit
<1> QED BY <1>2, <1>5, <1>6

\* Comparing prices before fees, the matcher misses no match between exchanges that
\* cost as much as those it looks at, and no better one: for any fees and tickers.
THEOREM NoBetterCorrect == Spec => []NoBetterAtSameCost
BY NoBetter, InvCorrect, PTL

-----------------------------------------------------------------------------
(***************************************************************************)
(* The orders of the match                                                 *)
(***************************************************************************)

\* The two coefficients are natural numbers and add up to one.
LEMMA Coefficients ==
    ASSUME NEW b \in Exchanges, NEW a \in Exchanges, NEW v \in Nat \ {0}, NEW w \in Nat \ {0}
    PROVE  /\ AskCoeff(b, v, a, w) \in Nat /\ BidCoeff(b, v, a, w) \in Nat
           /\ CoeffUnit(b, v, a, w) \in Nat
           /\ AskCoeff(b, v, a, w) + BidCoeff(b, v, a, w) = CoeffUnit(b, v, a, w)
<1> DEFINE x == DailyVolume[a]
           y == DailyVolume[b]
<1>1. x \in Nat /\ y \in Nat
  BY OrdersAssumption
<1>2. /\ AskCoeff(b, v, a, w) = x * (v + w) + w * (x + y)
      /\ BidCoeff(b, v, a, w) = y * (v + w) + v * (x + y)
      /\ CoeffUnit(b, v, a, w) = (2 * (x + y)) * (v + w)
  BY DEF AskCoeff, BidCoeff, CoeffUnit, Weight
<1> HIDE DEF x, y
<1>3. {x * (v + w), w * (x + y), y * (v + w), v * (x + y)} \subseteq Nat
  BY <1>1, Product
<1>4. (2 * (x + y)) * (v + w)
        = (x * (v + w) + w * (x + y)) + (y * (v + w) + v * (x + y))
  BY <1>1
<1> QED BY <1>2, <1>3, <1>4

\* The numbers of the two orders.
LEMMA Prices ==
    ASSUME Inv, Match
    PROVE  \E ca, cb, sc, bc \in Nat :
              /\ sc = SellCost(Bid.exchange) /\ bc = BuyCost(Ask.exchange)
              /\ bc * Ask.price <= sc * Bid.price
              /\ Buy.num = Ask.price * ca * bc + sc * Bid.price * cb
              /\ Buy.den = (ca + cb) * bc
              /\ Sell.num = Bid.price * cb * sc + bc * Ask.price * ca
              /\ Sell.den = (ca + cb) * sc
<1>1. DOMAIN tickers # {}
  BY DEF Match, HasMatch
<1> DEFINE b == Bid.exchange
           a == Ask.exchange
           ca == AskCoeff(b, Bid.vol, a, Ask.vol)
           cb == BidCoeff(b, Bid.vol, a, Ask.vol)
<1>2. /\ b \in Exchanges /\ a \in Exchanges /\ Bid.price \in Nat /\ Ask.price \in Nat
      /\ Ask.price > 0 /\ Bid.vol \in Nat \ {0} /\ Ask.vol \in Nat \ {0}
      /\ Profit(b, Bid.price, a, Ask.price) >= 0
  BY <1>1, MatchSides
<1>3. SellCost(b) \in Nat /\ BuyCost(a) \in Nat
  BY <1>2, OrdersAssumption DEF SellCost, BuyCost
<1>4. BuyCost(a) * Ask.price <= SellCost(b) * Bid.price
  BY <1>2, ProfitMeans
<1>5. ca \in Nat /\ cb \in Nat /\ CoeffUnit(b, Bid.vol, a, Ask.vol) = ca + cb
  BY <1>2, Coefficients
<1>6. /\ Buy.num = Ask.price * ca * BuyCost(a) + SellCost(b) * Bid.price * cb
      /\ Buy.den = (ca + cb) * BuyCost(a)
      /\ Sell.num = Bid.price * cb * SellCost(b) + BuyCost(a) * Ask.price * ca
      /\ Sell.den = (ca + cb) * SellCost(b)
  BY <1>5 DEF Buy, Sell, BuyPrice, SellPrice
<1> QED BY <1>3, <1>4, <1>5, <1>6

\* Both prices are the same mean of bid and ask, weighted by what each side costs.
LEMMA ZeroProfit == Inv => WorstCaseZeroProfit
<1> SUFFICES ASSUME Inv, Match
             PROVE  SellCost(Bid.exchange) * Sell.num * Buy.den
                      = BuyCost(Ask.exchange) * Buy.num * Sell.den
  BY DEF WorstCaseZeroProfit
<1> DEFINE x == Bid.price
           y == Ask.price
<1>1. x \in Nat /\ y \in Nat
  BY MatchSides DEF Match, HasMatch
<1>2. PICK ca \in Nat, cb \in Nat, sc \in Nat, bc \in Nat :
              /\ sc = SellCost(Bid.exchange) /\ bc = BuyCost(Ask.exchange)
              /\ Buy.num = y * ca * bc + sc * x * cb
              /\ Buy.den = (ca + cb) * bc
              /\ Sell.num = x * cb * sc + bc * y * ca
              /\ Sell.den = (ca + cb) * sc
  BY Prices
<1> HIDE DEF x, y
<1>3. x * cb * sc + bc * y * ca = y * ca * bc + sc * x * cb
  BY <1>1
<1> DEFINE n == y * ca * bc + sc * x * cb
<1>4. n \in Int
  BY <1>1
<1>5. sc * n * ((ca + cb) * bc) = bc * n * ((ca + cb) * sc)
  <2> HIDE DEF n
  <2> QED BY <1>4
<1> QED BY <1>2, <1>3, <1>5

\* Both orders of a match filled at their own prices cost in fees what they earn:
\* for any fees, weights, volumes and prices.
THEOREM WorstCaseCorrect == Spec => []WorstCaseZeroProfit
BY ZeroProfit, InvCorrect, PTL

\* A mean lies between the two amounts it is taken of.
LEMMA Crossing == Inv => PricesCrossTheBook
<1> SUFFICES ASSUME Inv, Match
             PROVE  Buy.num >= Ask.price * Buy.den /\ Sell.num <= Bid.price * Sell.den
  BY DEF PricesCrossTheBook
<1> DEFINE x == Bid.price
           y == Ask.price
<1>1. x \in Nat /\ y \in Nat
  BY MatchSides DEF Match, HasMatch
<1>2. PICK ca \in Nat, cb \in Nat, sc \in Nat, bc \in Nat :
              /\ bc * y <= sc * x
              /\ Buy.num = y * ca * bc + sc * x * cb
              /\ Buy.den = (ca + cb) * bc
              /\ Sell.num = x * cb * sc + bc * y * ca
              /\ Sell.den = (ca + cb) * sc
  BY Prices
<1> HIDE DEF x, y
<1>3. bc * y \in Nat /\ sc * x \in Nat
  BY <1>1, Product
<1>4. (bc * y) * cb <= (sc * x) * cb /\ (bc * y) * ca <= (sc * x) * ca
  BY <1>2, <1>3, ProductGrows
<1>5. y * ((ca + cb) * bc) = y * ca * bc + (bc * y) * cb
  BY <1>1
<1>6. x * ((ca + cb) * sc) = x * cb * sc + (sc * x) * ca
  BY <1>1
<1>7. {y * ca * bc, (bc * y) * cb, (sc * x) * cb, x * cb * sc, (sc * x) * ca, (bc * y) * ca}
         \subseteq Nat
  BY <1>1, <1>3, Product
<1>8. sc * x * cb = (sc * x) * cb /\ bc * y * ca = (bc * y) * ca
  OBVIOUS
<1>9. y * ca * bc + sc * x * cb >= y * ((ca + cb) * bc)
  BY <1>4, <1>5, <1>7, <1>8
<1>10. x * cb * sc + bc * y * ca <= x * ((ca + cb) * sc)
  BY <1>4, <1>6, <1>7, <1>8
<1> QED BY <1>2, <1>9, <1>10 DEF x, y

\* The calculator, which knows only the fees, never puts an order of a match on the
\* wrong side of the book it was computed from.
THEOREM PricesCrossCorrect == Spec => []PricesCrossTheBook
BY Crossing, InvCorrect, PTL

\* The quantity is a minimum of three amounts, each rounded towards zero.
LEMMA Bounded == Inv => QuantityBounded
<1> SUFFICES ASSUME Inv, Match
             PROVE  /\ Qty >= 0
                    /\ Qty <= 3 * Smaller(Bid.vol, Ask.vol) * Ask.price
                    /\ Qty <= 9 * base * Ask.price
                    /\ Qty <= 9 * quote
  BY DEF QuantityBounded
<1>1. /\ Ask.price \in Nat /\ Bid.vol \in Nat /\ Ask.vol \in Nat /\ base \in Nat /\ quote \in Nat
  BY MatchSides DEF Match, HasMatch, Inv
<1> DEFINE v == Smaller(Bid.vol, Ask.vol)
           book == 3 * v * Ask.price
           funds == 9 * base * Ask.price
<1>2. v \in Nat
  BY <1>1 DEF Smaller
<1>3. book \in Nat /\ funds \in Nat /\ 9 * quote \in Nat
  BY <1>1, <1>2, Product
<1>4. Qty = Smaller(book, Smaller(Smaller(book, 9 * quote), funds))
  BY DEF Qty, Quantity
<1> HIDE DEF book, funds
<1>5. Qty >= 0 /\ Qty <= book /\ Qty <= funds /\ Qty <= 9 * quote
  BY <1>3, <1>4 DEF Smaller
<1> QED BY <1>5 DEF book, funds

\* The quantity of a match is at most 30% of the volumes and 90% of either balance, the
\* quote balance counted at the price of the ask and not at that of the order: the
\* nested minimum of arbitrage_order_calculator.cc:50-52 has no other bound in it.
THEOREM QuantityCorrect == Spec => []QuantityBounded
BY Bounded, InvCorrect, PTL
=============================================================================
