----------------------- MODULE MarketMakingBacktestProofs -----------------------
(***************************************************************************)
(* The backtest exchange and the strategies played against it, for every   *)
(* set of tickers, every latency, fee and slippage, and any number of      *)
(* orders and tickers.                                                     *)
(*                                                                         *)
(* The lists are kept in the order the orders were made in, and so is      *)
(* time: the limit orders that are due are the oldest ones, so that they   *)
(* come to rest behind those that rest already.  Each list is then its set *)
(* of orders, and an event moves orders from one set to another.           *)
(***************************************************************************)
EXTENDS MarketMakingBacktest, FiniteSetTheorems, SequenceTheorems, WellFoundedInduction, TLAPS

\* The orders of a list are in the order they were made in.
Rising(list) == \A i, j \in DOMAIN list : i < j => list[i].id < list[j].id

\* What rests was made before what is pending, and what is pending longer was made
\* before: the due limit orders are the oldest ones.
ListInv ==
    /\ Rising(pendingMarket) /\ Rising(pendingLimit) /\ Rising(resting) /\ Rising(orders)
    /\ \A o \in Range(resting), p \in Range(pendingLimit) : o.id < p.id
    /\ \A o, p \in Range(pendingLimit) : o.id < p.id => o.created <= p.created

\* Nothing is of a time to come, and what rests has arrived.
TimeInv ==
    /\ \A o \in Open : o.created <= updated
    /\ \A o \in Range(resting) : IsDue(o, updated)
    /\ \A f \in fills : f.at <= updated
    /\ past \in Seq([ticker : Tickers, at : 0..MaxTime])
    /\ \A p \in Range(past) : p.at <= updated

\* The exchange has the last ticker.
TickerInv == ticker = IF past = <<>> THEN NoTicker ELSE past[Len(past)].ticker

Made == Open \cup Filled \cup refused \cup cancelled

\* Each order made is in one place, and filled once.
OnceInv ==
    /\ \A o, p \in Made : o.id = p.id => o = p
    /\ Ids(Made) = 1..lastOrderId
    /\ Range(pendingMarket) \cap Range(pendingLimit) = {}
    /\ Range(resting) \cap (Range(pendingMarket) \cup Range(pendingLimit)) = {}
    /\ Filled \cap Open = {}
    /\ refused \cap (Open \cup Filled) = {}
    /\ cancelled \cap (Open \cup Filled \cup refused) = {}
    /\ \A f, g \in fills : f.order = g.order => f = g

\* The risk manager's orders are the exchange's open ones and those it refused.
RiskInv ==
    program = "market making" =>
        /\ Range(orders) = Open \cup refused
        /\ tradingBalance = base - InitialBase

Inv ==
    /\ TypeOK /\ ListInv /\ TimeInv /\ TickerInv /\ OnceInv /\ RiskInv
    /\ NoLookahead /\ FillPriceBounded /\ MissedOnlyBehindAFill

-----------------------------------------------------------------------------
(***************************************************************************)
(* Lists of orders                                                         *)
(***************************************************************************)

\* A set of natural numbers has a least element: the only induction used here.
LEMMA Least ==
    ASSUME NEW T, T \subseteq Nat, T # {}
    PROVE  \E x \in T : \A y \in T : x <= y
<1> DEFINE R == OpToRel(<, Nat)
<1>1. IsWellFoundedOn(R, Nat)
  BY NatLessThanWellFounded
<1>2. \E x \in T : \A y \in T : ~(<<y, x>> \in R)
  <2> HIDE DEF R
  <2> QED BY <1>1, WFMin
<1>3. PICK x \in T : \A y \in T : ~(<<y, x>> \in R)
  BY <1>2
<1>4. ASSUME NEW y \in T PROVE x <= y
  <2>1. x \in Nat /\ y \in Nat
    OBVIOUS
  <2>2. ~(y < x)
    BY <1>3, <2>1 DEF OpToRel
  <2> QED BY <2>1, <2>2
<1> QED BY <1>4

\* How many of the positions of I come before i.
Rank(I, i) == Cardinality({j \in I : j < i})

\* Of two positions the later one has more before it.
LEMMA RankGrows ==
    ASSUME NEW n \in Nat, NEW I \in SUBSET (1..n), NEW i \in I, NEW j \in I, i < j
    PROVE  Rank(I, i) < Rank(I, j)
<1> DEFINE A == {k \in I : k < i}
           B == {k \in I : k < j}
<1>1. IsFiniteSet(1..n)
  BY FS_Interval
<1>2. IsFiniteSet(I)
  BY <1>1, FS_Subset
<1>3. A \in SUBSET I /\ B \in SUBSET I /\ A \cup {i} \in SUBSET B /\ i \notin A
  <2>1. i \in Int /\ j \in Int /\ ~(i < i)
    OBVIOUS
  <2>2. \A k \in I : k \in Int /\ (k < i => k < j)
    BY <2>1
  <2> QED BY <2>1, <2>2
<1> HIDE DEF A, B
<1>4. IsFiniteSet(A) /\ IsFiniteSet(B)
  BY <1>2, <1>3, FS_Subset
<1>5. Cardinality(A \cup {i}) = Cardinality(A) + 1
  BY <1>3, <1>4, FS_AddElement
<1>6. Cardinality(A \cup {i}) <= Cardinality(B)
  BY <1>3, <1>4, FS_Subset
<1>7. Cardinality(A) \in Nat /\ Cardinality(B) \in Nat
  BY <1>4, FS_CardinalityType
<1>8. Cardinality(A) < Cardinality(B)
  BY <1>5, <1>6, <1>7
<1> QED BY <1>8 DEF Rank, A, B

\* The ranks are 0, 1, 2 and so on, each of one position, in their order.
LEMMA Ranks ==
    ASSUME NEW m \in Nat, NEW I \in SUBSET (1..m)
    PROVE  LET n == Cardinality(I)
           IN  /\ n \in Nat
               /\ \A i \in I : Rank(I, i) \in 0..(n - 1)
               /\ \A i, j \in I : i < j <=> Rank(I, i) < Rank(I, j)
               /\ \A i, j \in I : Rank(I, i) = Rank(I, j) => i = j
               /\ \A k \in 0..(n - 1) : \E i \in I : Rank(I, i) = k
<1> DEFINE n == Cardinality(I)
<1>1. IsFiniteSet(I) /\ n \in Nat
  <2>1. IsFiniteSet(1..m)
    BY FS_Interval
  <2>2. IsFiniteSet(I)
    BY <2>1, FS_Subset
  <2> QED BY <2>2, FS_CardinalityType
<1>2. ASSUME NEW i \in I PROVE Rank(I, i) \in 0..(n - 1)
  <2> DEFINE A == {k \in I : k < i}
  <2>1. A \in SUBSET I /\ i \notin A
    OBVIOUS
  <2> HIDE DEF A
  <2>2. A \cup {i} \in SUBSET I
    BY <2>1
  <2>3. IsFiniteSet(A)
    BY <1>1, <2>1, FS_Subset
  <2>4. Cardinality(A \cup {i}) = Cardinality(A) + 1
    BY <2>1, <2>3, FS_AddElement
  <2>5. Cardinality(A \cup {i}) <= n
    BY <1>1, <2>2, FS_Subset
  <2>6. Cardinality(A) \in Nat
    BY <2>3, FS_CardinalityType
  <2>7. Cardinality(A) \in 0..(n - 1)
    BY <1>1, <2>4, <2>5, <2>6
  <2> QED BY <2>7 DEF Rank, A
<1>3. ASSUME NEW i \in I, NEW j \in I
      PROVE  /\ i < j <=> Rank(I, i) < Rank(I, j)
             /\ Rank(I, i) = Rank(I, j) => i = j
  <2>1. i < j => Rank(I, i) < Rank(I, j)
    BY RankGrows
  <2>2. j < i => Rank(I, j) < Rank(I, i)
    BY RankGrows
  <2>3. Rank(I, i) \in Int /\ Rank(I, j) \in Int
    BY <1>1, <1>2
  <2>4. i \in Int /\ j \in Int
    OBVIOUS
  <2> QED BY <2>1, <2>2, <2>3, <2>4
<1>4. ASSUME NEW k \in 0..(n - 1) PROVE \E i \in I : Rank(I, i) = k
  <2> DEFINE f == [i \in I |-> Rank(I, i)]
  <2>1. f \in Injection(I, 0..(n - 1))
    <3>1. f \in [I -> 0..(n - 1)]
      BY <1>2
    <3>2. \A i, j \in I : f[i] = f[j] => i = j
      BY <1>3
    <3> HIDE DEF f
    <3> QED BY <3>1, <3>2 DEF Injection, IsInjective
  <2>2. IsFiniteSet(0..(n - 1)) /\ Cardinality(0..(n - 1)) = n
    <3> HIDE DEF n
    <3>1. /\ IsFiniteSet(0..(n - 1))
          /\ Cardinality(0..(n - 1)) = IF 0 > n - 1 THEN 0 ELSE (n - 1) - 0 + 1
      BY <1>1, FS_Interval
    <3> QED BY <1>1, <3>1
  <2>3. f \in Surjection(I, 0..(n - 1))
    <3> HIDE DEF f
    <3> QED BY <2>1, <2>2, FS_Injection
  <2> QED BY <2>3 DEF Surjection
<1> QED BY <1>1, <1>2, <1>3, <1>4

\* OrdersAt lists the orders of the positions it is given, in their order.
LEMMA OrdersAtIs ==
    ASSUME NEW S, NEW list \in Seq(S), NEW I \in SUBSET (1..Len(list))
    PROVE  /\ OrdersAt(list, I) \in Seq(S)
           /\ Range(OrdersAt(list, I)) = {list[i] : i \in I}
           /\ Rising(list) => Rising(OrdersAt(list, I))
<1> DEFINE n == Cardinality(I)
           At(k) == CHOOSE i \in I : Rank(I, i) = k - 1
           res == OrdersAt(list, I)
<1>1. Len(list) \in Nat /\ DOMAIN list = 1..Len(list)
  OBVIOUS
<1>2. /\ n \in Nat
      /\ \A i \in I : Rank(I, i) \in 0..(n - 1)
      /\ \A i, j \in I : i < j <=> Rank(I, i) < Rank(I, j)
      /\ \A i, j \in I : Rank(I, i) = Rank(I, j) => i = j
      /\ \A k \in 0..(n - 1) : \E i \in I : Rank(I, i) = k
  BY <1>1, Ranks
<1>3. res = [k \in 1..n |-> list[At(k)]]
  BY DEF OrdersAt, Rank
<1> HIDE DEF n, res
<1>4. ASSUME NEW k \in 1..n PROVE At(k) \in I /\ Rank(I, At(k)) = k - 1
  <2>1. k - 1 \in 0..(n - 1)
    BY <1>2
  <2>2. \E i \in I : Rank(I, i) = k - 1
    BY <1>2, <2>1
  <2> QED BY <2>2
<1>5. \A i \in I : \E k \in 1..n : At(k) = i
  <2> SUFFICES ASSUME NEW i \in I PROVE \E k \in 1..n : At(k) = i
    OBVIOUS
  <2> DEFINE k == Rank(I, i) + 1
  <2>1. k \in 1..n /\ k - 1 = Rank(I, i)
    BY <1>2
  <2> HIDE DEF k
  <2>2. At(k) \in I /\ Rank(I, At(k)) = Rank(I, i)
    BY <1>4, <2>1
  <2>3. At(k) = i
    <3> HIDE DEF At
    <3> QED BY <1>2, <2>2
  <2> QED BY <2>1, <2>3
<1>6. \A k, l \in 1..n : k < l => At(k) < At(l)
  <2> SUFFICES ASSUME NEW k \in 1..n, NEW l \in 1..n, k < l PROVE At(k) < At(l)
    OBVIOUS
  <2>1. At(k) \in I /\ At(l) \in I /\ Rank(I, At(k)) = k - 1 /\ Rank(I, At(l)) = l - 1
    BY <1>4
  <2> HIDE DEF At
  <2>2. k - 1 < l - 1
    OBVIOUS
  <2> QED BY <1>2, <2>1, <2>2
<1>7. \A k \in 1..n : At(k) \in I /\ At(k) \in DOMAIN list /\ res[k] = list[At(k)]
  BY <1>1, <1>3, <1>4
<1>8. DOMAIN res = 1..n
  BY <1>3
<1>9. res \in Seq(S)
  <2>1. \A k \in 1..n : list[At(k)] \in S
    <3> HIDE DEF At
    <3> QED BY <1>1, <1>7
  <2> HIDE DEF At
  <2>2. res \in [1..n -> S]
    BY <1>3, <2>1
  <2> QED BY <1>2, <2>2
<1> HIDE DEF At
<1>10. Range(res) = {list[i] : i \in I}
  <2>1. ASSUME NEW o \in Range(res) PROVE o \in {list[i] : i \in I}
    <3>1. PICK k \in 1..n : o = res[k]
      BY <1>8 DEF Range
    <3> QED BY <1>7, <3>1
  <2>2. ASSUME NEW i \in I PROVE list[i] \in Range(res)
    <3>1. PICK k \in 1..n : At(k) = i
      BY <1>5
    <3> QED BY <1>7, <1>8, <3>1 DEF Range
  <2> QED BY <2>1, <2>2
<1>11. Rising(list) => Rising(res)
  <2> SUFFICES ASSUME Rising(list), NEW k \in 1..n, NEW l \in 1..n, k < l
               PROVE  res[k].id < res[l].id
    BY <1>8 DEF Rising
  <2>1. At(k) < At(l) /\ At(k) \in DOMAIN list /\ At(l) \in DOMAIN list
    BY <1>6, <1>7
  <2>2. list[At(k)].id < list[At(l)].id
    BY <2>1 DEF Rising
  <2> QED BY <1>7, <2>2
<1> QED BY <1>9, <1>10, <1>11 DEF res

\* Distinct orders of a set: as many as there are ids.
LEMMA IdsSize ==
    ASSUME NEW S, NEW n \in Nat, Ids(S) \subseteq 1..n, \A o, p \in S : o.id = p.id => o = p
    PROVE  /\ IsFiniteSet(S)
           /\ Cardinality(S) = Cardinality(Ids(S))
<1> DEFINE f == [o \in S |-> o.id]
<1>1. f \in Injection(S, Ids(S)) /\ f \in Surjection(S, Ids(S))
  <2>1. f \in [S -> Ids(S)]
    BY DEF Ids
  <2>2. \A o, p \in S : f[o] = f[p] => o = p
    OBVIOUS
  <2>3. \A i \in Ids(S) : \E o \in S : f[o] = i
    BY DEF Ids
  <2> HIDE DEF f
  <2> QED BY <2>1, <2>2, <2>3 DEF Injection, IsInjective, Surjection
<1>2. IsFiniteSet(Ids(S))
  <2>1. IsFiniteSet(1..n)
    BY FS_Interval
  <2> QED BY <2>1, FS_Subset
<1> HIDE DEF f
<1>3. IsFiniteSet(S)
  BY <1>1, <1>2, FS_Injection
<1> QED BY <1>1, <1>2, <1>3, FS_Injection

\* The positions of a list in order are as many as the orders at them.
LEMMA PlacesSize ==
    ASSUME NEW S, NEW list \in Seq(S), \A o \in S : o.id \in Nat, Rising(list),
           NEW I \in SUBSET (1..Len(list)), NEW T, T = {list[i] : i \in I}
    PROVE  IsFiniteSet(T) /\ Cardinality(T) = Cardinality(I)
<1> DEFINE f == [i \in I |-> list[i]]
<1>1. Len(list) \in Nat /\ DOMAIN list = 1..Len(list)
  OBVIOUS
<1>2. IsFiniteSet(I)
  <2>1. IsFiniteSet(1..Len(list))
    BY <1>1, FS_Interval
  <2> QED BY <2>1, FS_Subset
<1>3. f \in Injection(I, T)
  <2>1. f \in [I -> T]
    OBVIOUS
  <2>2. ASSUME NEW i \in I, NEW j \in I, f[i] = f[j] PROVE i = j
    <3>1. i \in DOMAIN list /\ j \in DOMAIN list /\ i \in Int /\ j \in Int
      BY <1>1
    <3>2. list[i] = list[j] /\ list[i] \in S /\ list[i].id \in Nat
      BY <2>2, <3>1
    <3>3. ~(list[i].id < list[j].id) /\ ~(list[j].id < list[i].id)
      BY <3>2
    <3>4. ~(i < j) /\ ~(j < i)
      BY <3>1, <3>3 DEF Rising
    <3> QED BY <3>1, <3>4
  <2> HIDE DEF f
  <2> QED BY <2>1, <2>2 DEF Injection, IsInjective
<1>4. f \in Surjection(I, T)
  BY DEF Surjection
<1> HIDE DEF f
<1> QED BY <1>2, <1>3, <1>4, FS_Surjection

\* A list in order is as long as it has orders, and counts those of a side.
LEMMA ListSize ==
    ASSUME NEW S, NEW list \in Seq(S), \A o \in S : o.id \in Nat, Rising(list)
    PROVE  /\ IsFiniteSet(Range(list))
           /\ Cardinality(Range(list)) = Len(list)
           /\ \A side : Count(list, side) = Cardinality({o \in Range(list) : o.side = side})
<1>1. Len(list) \in Nat /\ DOMAIN list = 1..Len(list) /\ 1..Len(list) \in SUBSET (1..Len(list))
  OBVIOUS
<1>2. Range(list) = {list[i] : i \in 1..Len(list)}
  BY <1>1 DEF Range
<1>3. IsFiniteSet(Range(list)) /\ Cardinality(Range(list)) = Cardinality(1..Len(list))
  <2> DEFINE I == 1..Len(list)
             T == Range(list)
  <2>1. I \in SUBSET (1..Len(list)) /\ T = {list[i] : i \in I}
    BY <1>2
  <2> HIDE DEF I, T
  <2>2. IsFiniteSet(T) /\ Cardinality(T) = Cardinality(I)
    BY <2>1, PlacesSize
  <2> QED BY <2>2 DEF I, T
<1>4. Cardinality(1..Len(list)) = Len(list)
  <2>1. Cardinality(1..Len(list)) = IF 1 > Len(list) THEN 0 ELSE Len(list) - 1 + 1
    BY <1>1, FS_Interval
  <2> QED BY <1>1, <2>1
<1>5. ASSUME NEW side
      PROVE  Count(list, side) = Cardinality({o \in Range(list) : o.side = side})
  <2> DEFINE I == {i \in DOMAIN list : list[i].side = side}
             T == {o \in Range(list) : o.side = side}
  <2>1. I \in SUBSET (1..Len(list)) /\ T = {list[i] : i \in I}
    BY <1>1, <1>2
  <2> HIDE DEF I, T
  <2>2. Cardinality(T) = Cardinality(I)
    BY <2>1, PlacesSize
  <2> QED BY <2>2 DEF Count, I, T
<1> QED BY <1>3, <1>4, <1>5

\* A list behind another.
LEMMA ConcatIs ==
    ASSUME NEW S, NEW a \in Seq(S), NEW b \in Seq(S)
    PROVE  /\ a \o b \in Seq(S)
           /\ Range(a \o b) = Range(a) \cup Range(b)
           /\ Len(a \o b) = Len(a) + Len(b)
           /\ Rising(a) /\ Rising(b) /\ (\A o \in Range(a), p \in Range(b) : o.id < p.id)
                  => Rising(a \o b)
<1> DEFINE c == a \o b
           m == Len(a)
           n == Len(b)
<1>1. /\ m \in Nat /\ n \in Nat /\ DOMAIN a = 1..m /\ DOMAIN b = 1..n
      /\ c \in Seq(S) /\ Len(c) = m + n /\ DOMAIN c = 1..(m + n)
  OBVIOUS
<1>2. \A i \in 1..m : i \in DOMAIN c /\ c[i] = a[i]
  BY <1>1
<1>3. \A i \in 1..n : m + i \in DOMAIN c /\ c[m + i] = b[i]
  BY <1>1
<1>4. \A k \in DOMAIN c : k \in 1..m \/ (k - m \in 1..n /\ k = m + (k - m))
  BY <1>1
<1> HIDE DEF c, m, n
<1>5. \A k \in DOMAIN c : \/ k \in DOMAIN a /\ c[k] = a[k]
                          \/ k - m \in DOMAIN b /\ c[k] = b[k - m]
  <2> SUFFICES ASSUME NEW k \in DOMAIN c
               PROVE  \/ k \in DOMAIN a /\ c[k] = a[k]
                      \/ k - m \in DOMAIN b /\ c[k] = b[k - m]
    OBVIOUS
  <2>1. CASE k \in 1..m
    BY <1>1, <1>2, <2>1
  <2>2. CASE k - m \in 1..n /\ k = m + (k - m)
    <3>1. c[m + (k - m)] = b[k - m]
      BY <1>3, <2>2
    <3>2. c[k] = b[k - m]
      BY <2>2, <3>1
    <3> QED BY <1>1, <2>2, <3>2
  <2> QED BY <1>4, <2>1, <2>2
<1>6. Range(c) = Range(a) \cup Range(b)
  <2>1. Range(c) \subseteq Range(a) \cup Range(b)
    BY <1>5 DEF Range
  <2>2. Range(a) \subseteq Range(c) /\ Range(b) \subseteq Range(c)
    BY <1>1, <1>2, <1>3 DEF Range
  <2> QED BY <2>1, <2>2
<1>7. ASSUME Rising(a), Rising(b), \A o \in Range(a), p \in Range(b) : o.id < p.id,
             NEW k \in DOMAIN c, NEW l \in DOMAIN c, k < l
      PROVE  c[k].id < c[l].id
  <2>1. k \in Int /\ l \in Int
    BY <1>1
  <2>2. CASE k \in DOMAIN a /\ c[k] = a[k] /\ l \in DOMAIN a /\ c[l] = a[l]
    BY <1>7, <2>2 DEF Rising
  <2>3. CASE k \in DOMAIN a /\ c[k] = a[k] /\ l - m \in DOMAIN b /\ c[l] = b[l - m]
    <3>1. a[k] \in Range(a) /\ b[l - m] \in Range(b)
      BY <2>3 DEF Range
    <3> QED BY <1>7, <2>3, <3>1
  <2>4. CASE k - m \in DOMAIN b /\ c[k] = b[k - m] /\ l - m \in DOMAIN b /\ c[l] = b[l - m]
    <3>1. k - m < l - m
      BY <1>1, <1>7, <2>1
    <3> QED BY <1>7, <2>4, <3>1 DEF Rising
  <2>5. ~(k - m \in DOMAIN b /\ l \in DOMAIN a)
    BY <1>1, <1>7, <2>1
  <2> QED BY <1>5, <2>2, <2>3, <2>4, <2>5
<1> QED BY <1>1, <1>6, <1>7 DEF Rising, c, m, n

\* An order at the end.
LEMMA AppendIs ==
    ASSUME NEW S, NEW list \in Seq(S), NEW order \in S
    PROVE  /\ Append(list, order) \in Seq(S)
           /\ Range(Append(list, order)) = Range(list) \cup {order}
           /\ Rising(list) /\ (\A o \in Range(list) : o.id < order.id)
                  => Rising(Append(list, order))
<1> DEFINE one == <<order>>
<1>1. Append(list, order) = list \o one
  OBVIOUS
<1>2. one \in Seq(S) /\ Range(one) = {order} /\ Rising(one)
  <2>1. one \in Seq(S) /\ DOMAIN one = {1} /\ one[1] = order
    OBVIOUS
  <2> HIDE DEF one
  <2> QED BY <2>1 DEF Range, Rising
<1> HIDE DEF one
<1> QED BY <1>1, <1>2, ConcatIs

-----------------------------------------------------------------------------
(***************************************************************************)
(* The loop over the resting orders                                        *)
(***************************************************************************)

\* The function of FilledAt, for a list of n orders.
Walked(f, list, t, n) ==
    f = [i \in 0..n |-> i > 0 /\ IsReached(list[i], t) /\ ~f[i - 1]]

\* There is one.
LEMMA WalkedExists ==
    ASSUME NEW n \in Nat, NEW list, NEW t
    PROVE  \E f : Walked(f, list, t, n)
<1> DEFINE Has(k) == \E f : Walked(f, list, t, k)
           T == {k \in Nat : ~Has(k)}
<1> HIDE DEF Has
<1> SUFFICES ASSUME T # {} PROVE FALSE
  BY DEF Has
<1>1. PICK k \in T : \A j \in T : k <= j
  <2>1. T \subseteq Nat
    OBVIOUS
  <2> HIDE DEF T
  <2> QED BY <2>1, Least
<1>2. k \in Nat /\ ~Has(k)
  OBVIOUS
<1>3. CASE k = 0
  <2> DEFINE g == [i \in 0..0 |-> FALSE]
             next(i) == i > 0 /\ IsReached(list[i], t) /\ ~g[i - 1]
  <2>1. \A i \in 0..0 : next(i) = FALSE
    <3>1. \A i \in 0..0 : ~(i > 0)
      OBVIOUS
    <3> HIDE DEF g
    <3> QED BY <3>1, Zenon
  <2>2. g = [i \in 0..0 |-> next(i)]
    <3> HIDE DEF next
    <3> QED BY <2>1, Zenon
  <2>3. Has(0)
    <3> HIDE DEF g
    <3> QED BY <2>2, Zenon DEF Has, Walked
  <2> QED BY <1>2, <1>3, <2>3
<1>4. CASE k # 0
  <2>1. k - 1 \in Nat /\ k - 1 < k
    BY <1>2, <1>4
  <2>2. Has(k - 1)
    BY <1>1, <2>1
  <2>3. PICK g : Walked(g, list, t, k - 1)
    BY <2>2 DEF Has
  <2> DEFINE before(i) == i > 0 /\ IsReached(list[i], t) /\ ~g[i - 1]
             h == [i \in 0..k |-> IF i = k THEN before(k) ELSE g[i]]
             next(i) == i > 0 /\ IsReached(list[i], t) /\ ~h[i - 1]
  <2>4. \A i \in 0..(k - 1) : g[i] = before(i)
    <3>1. g = [i \in 0..(k - 1) |-> before(i)]
      BY <2>3 DEF Walked
    <3> HIDE DEF before
    <3> QED BY <3>1, Zenon
  <2>5. \A i \in 0..k : i # k => i \in 0..(k - 1)
    BY <2>1
  <2>6. \A i \in 0..k : i > 0 => i - 1 \in 0..k /\ i - 1 # k
    BY <2>1
  <2>7. \A i \in 0..k : i > 0 => h[i - 1] = g[i - 1]
    BY <2>6, Zenon
  <2>8. \A i \in 0..k : next(i) = before(i)
    <3> HIDE DEF h
    <3> QED BY <2>7, Zenon
  <2>9. \A i \in 0..k : h[i] = before(i)
    <3> HIDE DEF before
    <3> QED BY <2>4, <2>5, Zenon
  <2>10. h = [i \in 0..k |-> next(i)]
    <3>1. h = [i \in 0..k |-> h[i]]
      BY Zenon
    <3>2. \A i \in 0..k : h[i] = next(i)
      <4> HIDE DEF h, next, before
      <4> QED BY <2>8, <2>9, Zenon
    <3> HIDE DEF h, next
    <3> QED BY <3>1, <3>2, Zenon
  <2>11. Has(k)
    <3> HIDE DEF h
    <3> QED BY <2>10, Zenon DEF Has, Walked
  <2> QED BY <1>2, <2>11
<1> QED BY <1>3, <1>4

\* Only an order whose price is reached is filled, and one whose price is reached
\* is left only behind a filled one.
LEMMA FilledAtIs ==
    ASSUME NEW S, NEW list \in Seq(S), NEW t
    PROVE  /\ FilledAt(list, t) \in SUBSET (1..Len(list))
           /\ \A i \in FilledAt(list, t) : IsReached(list[i], t)
           /\ \A i \in 1..Len(list) : IsReached(list[i], t) /\ i \notin FilledAt(list, t)
                  => i - 1 \in FilledAt(list, t)
<1> DEFINE n == Len(list)
           f == CHOOSE g : Walked(g, list, t, n)
           F == FilledAt(list, t)
<1>1. n \in Nat
  OBVIOUS
<1>2. F = {i \in 1..n : f[i]}
  BY DEF FilledAt, Walked
<1>3. Walked(f, list, t, n)
  <2>1. \E g : Walked(g, list, t, n)
    BY <1>1, WalkedExists
  <2> QED BY <2>1, Zenon
<1> HIDE DEF f, F
<1> DEFINE next(i) == i > 0 /\ IsReached(list[i], t) /\ ~f[i - 1]
<1>4. \A i \in 0..n : f[i] = next(i)
  <2>1. f = [i \in 0..n |-> next(i)]
    BY <1>3, Zenon DEF Walked
  <2> HIDE DEF next
  <2> QED BY <2>1, Zenon
<1>5. \A i \in 1..n : i \in 0..n /\ i > 0 /\ (i = 1 \/ i - 1 \in 1..n) /\ i - 1 \in 0..n
  BY <1>1
<1>6. \A i \in F : IsReached(list[i], t)
  BY <1>2, <1>4, <1>5, Zenon
<1>7. ASSUME NEW i \in 1..n, IsReached(list[i], t), i \notin F PROVE i - 1 \in F
  <2>1. ~f[i]
    BY <1>2, <1>7, Zenon
  <2>2. f[i - 1]
    BY <1>4, <1>5, <1>7, <2>1, Zenon
  <2>3. i # 1
    <3> SUFFICES ASSUME i = 1 PROVE FALSE
      OBVIOUS
    <3>1. i - 1 = 0 /\ 0 \in 0..n /\ ~(0 > 0)
      BY <1>1
    <3>2. f[0] = next(0)
      BY <1>4, <3>1, Zenon
    <3> QED BY <2>2, <3>1, <3>2, Zenon
  <2>4. i - 1 \in 1..n
    BY <1>5, <2>3
  <2> QED BY <1>2, <2>2, <2>4, Zenon
<1> QED BY <1>2, <1>6, <1>7 DEF F

-----------------------------------------------------------------------------
(***************************************************************************)
(* What a ticker does to the lists                                         *)
(***************************************************************************)

\* What the assumptions say of the constants.
LEMMA Constants ==
    /\ {Qty, Unit, Fee, Slippage, Latency, InitialQuote, InitialBase, Spread, MaxTime} \subseteq Nat
    /\ \A t \in Tickers : /\ t \in [bid : Nat, ask : Nat]
                          /\ 0 < t.bid /\ t.bid <= t.ask
                          /\ Spread < BasePrice(t)
    /\ NoTicker \notin Tickers
    /\ LimitPrices \subseteq Nat
<1>1. NoTicker.bid = 0
  BY DEF NoTicker
<1>2. \A t \in Tickers : 0 < t.bid
  BY BacktestAssumption
<1>3. NoTicker \notin Tickers
  BY <1>1, <1>2
<1> QED BY <1>3, BacktestAssumption, MarketMakingAssumption

\* The fields of an order.
LEMMA OrderIs ==
    \A o \in Order : /\ o.id \in Nat /\ o.price \in Nat /\ o.created \in 0..MaxTime
                     /\ o.created \in Nat /\ o.side \in {"BUY", "SELL"}
BY Constants DEF Order

\* What TypeOK says of the lists and the balances.
LEMMA ListTypes ==
    ASSUME TypeOK
    PROVE  /\ pendingMarket \in Seq(Order) /\ pendingLimit \in Seq(Order)
           /\ resting \in Seq(Order) /\ orders \in Seq(Order)
           /\ updated \in Nat /\ updated \in 0..MaxTime /\ base \in Int /\ quote \in Int
           /\ tradingBalance \in Int /\ lastOrderId \in Nat
           /\ \A o \in Open : o \in Order
<1>1. /\ pendingMarket \in Seq(Order) /\ pendingLimit \in Seq(Order)
      /\ resting \in Seq(Order) /\ orders \in Seq(Order)
      /\ updated \in 0..MaxTime /\ base \in Int /\ quote \in Int
      /\ tradingBalance \in Int /\ lastOrderId \in Nat
  BY DEF TypeOK
<1>2. updated \in Nat
  BY <1>1, Constants
<1>3. \A list : list \in Seq(Order) => \A o \in Range(list) : o \in Order
  BY DEF Range
<1>4. \A o \in Open : o \in Order
  BY <1>1, <1>3 DEF Open
<1> QED BY <1>1, <1>2, <1>4

\* No event is of a time before the last one.
LEMMA EventTime ==
    ASSUME TypeOK, NEW at \in updated..MaxTime
    PROVE  updated \in Nat /\ at \in Nat /\ at \in 0..MaxTime /\ updated <= at
<1>1. updated \in 0..MaxTime
  BY DEF TypeOK
<1>2. MaxTime \in Nat
  BY Constants
<1> QED BY <1>1, <1>2

\* The orders at some positions are those that are not at the others.
LEMMA SplitIs ==
    ASSUME NEW S, NEW list \in Seq(S), \A o \in S : o.id \in Nat, Rising(list),
           NEW I \in SUBSET (1..Len(list))
    PROVE  Range(OrdersAt(list, (1..Len(list)) \ I)) = Range(list) \ Range(OrdersAt(list, I))
<1> DEFINE J == (1..Len(list)) \ I
<1>1. DOMAIN list = 1..Len(list) /\ J \in SUBSET (1..Len(list))
  OBVIOUS
<1>2. \A i, j \in DOMAIN list : list[i] = list[j] => i = j
  <2> SUFFICES ASSUME NEW i \in DOMAIN list, NEW j \in DOMAIN list, list[i] = list[j]
               PROVE  i = j
    OBVIOUS
  <2>1. i \in Int /\ j \in Int /\ list[i].id \in Nat
    BY <1>1
  <2>2. ~(list[i].id < list[j].id) /\ ~(list[j].id < list[i].id)
    BY <2>1
  <2> QED BY <2>1, <2>2 DEF Rising
<1>3. \A i \in 1..Len(list) : i \in I \/ i \in J
  OBVIOUS
<1>4. \A i \in J : i \notin I
  OBVIOUS
<1> HIDE DEF J
<1>5. Range(OrdersAt(list, I)) = {list[i] : i \in I}
  BY OrdersAtIs
<1>6. Range(OrdersAt(list, J)) = {list[i] : i \in J}
  BY <1>1, OrdersAtIs
<1>7. Range(list) = {list[i] : i \in 1..Len(list)}
  BY <1>1 DEF Range
<1>8. Range(OrdersAt(list, J)) = Range(list) \ Range(OrdersAt(list, I))
  BY <1>1, <1>2, <1>3, <1>4, <1>5, <1>6, <1>7
<1> QED BY <1>8 DEF J

\* A market order that is due is executed, once the exchange has a ticker.
IsPriced(o, at) == ticker # NoTicker /\ IsDue(o, at)

\* The lists an event with a ticker makes of those there are: the due orders
\* leave the pending ones, and what rests is filled or stays.
Moves(t, at) ==
    /\ {DueMarket(at), StaysPendingMarket(at), ExecutedLimit(t, at), StaysPendingLimit(at),
        PutToRest(t, at), FilledResting(t, at), StaysResting(t, at)} \subseteq Seq(Order)
    /\ Rising(DueMarket(at)) /\ Rising(StaysPendingMarket(at)) /\ Rising(ExecutedLimit(t, at))
    /\ Rising(StaysPendingLimit(at)) /\ Rising(FilledResting(t, at)) /\ Rising(StaysResting(t, at))
    /\ Range(DueMarket(at)) = {o \in Range(pendingMarket) : IsPriced(o, at)}
    /\ Range(StaysPendingMarket(at)) = {o \in Range(pendingMarket) : ~IsPriced(o, at)}
    /\ Range(ExecutedLimit(t, at)) =
           {o \in Range(pendingLimit) : IsDue(o, at) /\ CrossesMiddle(o, t)}
    /\ Range(StaysPendingLimit(at)) = {o \in Range(pendingLimit) : ~IsDue(o, at)}
    /\ Range(PutToRest(t, at)) =
           Range(resting) \cup {o \in Range(pendingLimit) : IsDue(o, at) /\ ~CrossesMiddle(o, t)}
    /\ Range(FilledResting(t, at)) \subseteq Range(PutToRest(t, at))
    /\ Range(StaysResting(t, at)) = Range(PutToRest(t, at)) \ Range(FilledResting(t, at))
    /\ \A o \in Range(FilledResting(t, at)) : IsReached(o, t)
    /\ \A o \in Range(StaysResting(t, at)) :
          IsReached(o, t) => \E p \in Range(FilledResting(t, at)) : p.id < o.id

\* HandlePendingMarketOrders: the due market orders are executed if there is a ticker
\* before, the others stay.
LEMMA MarketMoves ==
    ASSUME TypeOK, ListInv, NEW at
    PROVE  /\ DueMarket(at) \in Seq(Order) /\ StaysPendingMarket(at) \in Seq(Order)
           /\ Rising(DueMarket(at)) /\ Rising(StaysPendingMarket(at))
           /\ Range(DueMarket(at)) = {o \in Range(pendingMarket) : IsPriced(o, at)}
           /\ Range(StaysPendingMarket(at)) = {o \in Range(pendingMarket) : ~IsPriced(o, at)}
<1> DEFINE list == pendingMarket
           I == MarketDueAt(at)
<1>1. list \in Seq(Order) /\ Rising(list) /\ DOMAIN list = 1..Len(list)
  BY ListTypes DEF ListInv
<1>2. I = {i \in DOMAIN list : IsPriced(list[i], at)}
  BY DEF MarketDueAt, DueAt, IsPriced
<1> HIDE DEF I
<1>3. I \in SUBSET (1..Len(list)) /\ (1..Len(list)) \ I \in SUBSET (1..Len(list))
  BY <1>1, <1>2
<1>4. DueMarket(at) = OrdersAt(list, I) /\ StaysPendingMarket(at) = OrdersAt(list, (1..Len(list)) \ I)
  BY <1>1 DEF DueMarket, StaysPendingMarket, I
<1> HIDE DEF list
<1>5. OrdersAt(list, I) \in Seq(Order) /\ Rising(OrdersAt(list, I))
  BY <1>1, <1>3, OrdersAtIs
<1>6. /\ OrdersAt(list, (1..Len(list)) \ I) \in Seq(Order)
      /\ Rising(OrdersAt(list, (1..Len(list)) \ I))
  BY <1>1, <1>3, OrdersAtIs
<1>7. Range(OrdersAt(list, I)) = {list[i] : i \in I}
  BY <1>1, <1>3, OrdersAtIs
<1>8. Range(OrdersAt(list, (1..Len(list)) \ I)) = Range(list) \ Range(OrdersAt(list, I))
  BY <1>1, <1>3, OrderIs, SplitIs
<1>9. Range(OrdersAt(list, I)) = {o \in Range(list) : IsPriced(o, at)}
  BY <1>2, <1>7 DEF Range
<1>10. Range(OrdersAt(list, (1..Len(list)) \ I)) = {o \in Range(list) : ~IsPriced(o, at)}
  BY <1>8, <1>9
<1> QED BY <1>4, <1>5, <1>6, <1>9, <1>10 DEF list

\* HandlePendingLimitOrders: of the due limit orders those that cross the middle are
\* executed, the others come to rest; those that are not due stay.
LEMMA LimitMoves ==
    ASSUME TypeOK, ListInv, NEW t, NEW at
    PROVE  /\ ExecutedLimit(t, at) \in Seq(Order) /\ StaysPendingLimit(at) \in Seq(Order)
           /\ Rising(ExecutedLimit(t, at)) /\ Rising(StaysPendingLimit(at))
           /\ Range(ExecutedLimit(t, at)) =
                  {o \in Range(pendingLimit) : IsDue(o, at) /\ CrossesMiddle(o, t)}
           /\ Range(StaysPendingLimit(at)) = {o \in Range(pendingLimit) : ~IsDue(o, at)}
           /\ PutToRest(t, at) \in Seq(Order) /\ Rising(PutToRest(t, at))
           /\ Range(PutToRest(t, at)) = Range(resting)
                  \cup {o \in Range(pendingLimit) : IsDue(o, at) /\ ~CrossesMiddle(o, t)}
<1> DEFINE list == pendingLimit
           D == DueAt(list, at)
           C == CrossingAt(list, t)
           E == D \cap C
           P == D \ C
           K == (1..Len(list)) \ D
           rest == OrdersAt(list, P)
<1>1. list \in Seq(Order) /\ Rising(list) /\ DOMAIN list = 1..Len(list)
  BY ListTypes DEF ListInv
<1>2. /\ ExecutedLimit(t, at) = OrdersAt(list, E)
      /\ StaysPendingLimit(at) = OrdersAt(list, K)
      /\ PutToRest(t, at) = resting \o OrdersAt(list, P)
  BY <1>1 DEF ExecutedLimit, StaysPendingLimit, PutToRest
<1>3. /\ E = {i \in DOMAIN list : IsDue(list[i], at) /\ CrossesMiddle(list[i], t)}
      /\ P = {i \in DOMAIN list : IsDue(list[i], at) /\ ~CrossesMiddle(list[i], t)}
      /\ K = {i \in DOMAIN list : ~IsDue(list[i], at)}
  BY <1>1 DEF DueAt, CrossingAt
<1> HIDE DEF list, D, C, E, P, K
<1>4. E \in SUBSET (1..Len(list)) /\ P \in SUBSET (1..Len(list)) /\ K \in SUBSET (1..Len(list))
  BY <1>1, <1>3
<1>5. /\ OrdersAt(list, E) \in Seq(Order) /\ Rising(OrdersAt(list, E))
      /\ Range(OrdersAt(list, E)) = {list[i] : i \in E}
  BY <1>1, <1>4, OrdersAtIs
<1>6. /\ rest \in Seq(Order) /\ Rising(rest)
      /\ Range(rest) = {list[i] : i \in P}
  BY <1>1, <1>4, OrdersAtIs
<1>7. /\ OrdersAt(list, K) \in Seq(Order) /\ Rising(OrdersAt(list, K))
      /\ Range(OrdersAt(list, K)) = {list[i] : i \in K}
  BY <1>1, <1>4, OrdersAtIs
<1>8. /\ Range(OrdersAt(list, E)) = {o \in Range(list) : IsDue(o, at) /\ CrossesMiddle(o, t)}
      /\ Range(rest) = {o \in Range(list) : IsDue(o, at) /\ ~CrossesMiddle(o, t)}
      /\ Range(OrdersAt(list, K)) = {o \in Range(list) : ~IsDue(o, at)}
  <2>1. Range(OrdersAt(list, E)) = {o \in Range(list) : IsDue(o, at) /\ CrossesMiddle(o, t)}
    BY <1>3, <1>5 DEF Range
  <2>2. Range(rest) = {o \in Range(list) : IsDue(o, at) /\ ~CrossesMiddle(o, t)}
    <3> HIDE DEF rest
    <3> QED BY <1>3, <1>6 DEF Range
  <2>3. Range(OrdersAt(list, K)) = {o \in Range(list) : ~IsDue(o, at)}
    BY <1>3, <1>7 DEF Range
  <2> QED BY <2>1, <2>2, <2>3
<1>9. /\ resting \o rest \in Seq(Order) /\ Rising(resting \o rest)
      /\ Range(resting \o rest) = Range(resting) \cup Range(rest)
  <2>1. resting \in Seq(Order) /\ Rising(resting)
    BY ListTypes DEF ListInv
  <2>2. \A o \in Range(resting), p \in Range(rest) : o.id < p.id
    BY <1>8 DEF ListInv, list
  <2> HIDE DEF rest
  <2> QED BY <1>6, <2>1, <2>2, ConcatIs
<1> QED BY <1>2, <1>5, <1>7, <1>8, <1>9 DEF list

\* HandleLimitOrders: what is filled was reached, and a reached order that stays is behind
\* a filled one.
LEMMA RestingMoves ==
    ASSUME TypeOK, ListInv, NEW t, NEW at
    PROVE  /\ FilledResting(t, at) \in Seq(Order) /\ StaysResting(t, at) \in Seq(Order)
           /\ Rising(FilledResting(t, at)) /\ Rising(StaysResting(t, at))
           /\ Range(FilledResting(t, at)) \subseteq Range(PutToRest(t, at))
           /\ Range(StaysResting(t, at)) =
                  Range(PutToRest(t, at)) \ Range(FilledResting(t, at))
           /\ \A o \in Range(FilledResting(t, at)) : IsReached(o, t)
           /\ \A o \in Range(StaysResting(t, at)) :
                 IsReached(o, t) => \E p \in Range(FilledResting(t, at)) : p.id < o.id
<1> DEFINE list == PutToRest(t, at)
           I == FilledAt(list, t)
           J == (1..Len(list)) \ I
<1>1. list \in Seq(Order) /\ Rising(list) /\ DOMAIN list = 1..Len(list)
  BY LimitMoves
<1>2. FilledResting(t, at) = OrdersAt(list, I) /\ StaysResting(t, at) = OrdersAt(list, J)
  BY DEF FilledResting, StaysResting
<1> HIDE DEF list, I
<1>3. /\ I \in SUBSET (1..Len(list))
      /\ \A i \in I : IsReached(list[i], t)
      /\ \A i \in 1..Len(list) : IsReached(list[i], t) /\ i \notin I => i - 1 \in I
  BY <1>1, FilledAtIs DEF I
<1>4. Range(OrdersAt(list, J)) = Range(list) \ Range(OrdersAt(list, I))
  BY <1>1, <1>3, OrderIs, SplitIs
<1>5. J \in SUBSET (1..Len(list)) /\ \A i \in J : i \in 1..Len(list) /\ i \notin I
  OBVIOUS
<1> HIDE DEF J
<1>6. /\ OrdersAt(list, I) \in Seq(Order) /\ Rising(OrdersAt(list, I))
      /\ Range(OrdersAt(list, I)) = {list[i] : i \in I}
  BY <1>1, <1>3, OrdersAtIs
<1>7. /\ OrdersAt(list, J) \in Seq(Order) /\ Rising(OrdersAt(list, J))
      /\ Range(OrdersAt(list, J)) = {list[i] : i \in J}
  BY <1>1, <1>5, OrdersAtIs
<1>8. Range(OrdersAt(list, I)) \subseteq Range(list)
  BY <1>1, <1>3, <1>6 DEF Range
<1>9. \A o \in Range(OrdersAt(list, I)) : IsReached(o, t)
  BY <1>3, <1>6
<1>10. ASSUME NEW o \in Range(OrdersAt(list, J)), IsReached(o, t)
       PROVE  \E p \in Range(OrdersAt(list, I)) : p.id < o.id
  <2>1. PICK i \in J : o = list[i]
    BY <1>7
  <2>2. i \in 1..Len(list) /\ i - 1 \in I
    BY <1>3, <1>5, <1>10, <2>1
  <2>3. i - 1 \in DOMAIN list /\ i \in DOMAIN list /\ i - 1 < i
    BY <1>1, <1>3, <2>2
  <2>4. list[i - 1].id < list[i].id
    BY <1>1, <2>3 DEF Rising
  <2> QED BY <1>6, <2>1, <2>2, <2>4
<1> QED BY <1>2, <1>4, <1>6, <1>7, <1>8, <1>9, <1>10 DEF list

\* What OnBookTicker does to the three lists, as sets.
LEMMA MovesAre ==
    ASSUME TypeOK, ListInv, NEW t, NEW at
    PROVE  Moves(t, at)
<1>1. /\ {DueMarket(at), StaysPendingMarket(at)} \subseteq Seq(Order)
      /\ Rising(DueMarket(at)) /\ Rising(StaysPendingMarket(at))
      /\ Range(DueMarket(at)) = {o \in Range(pendingMarket) : IsPriced(o, at)}
      /\ Range(StaysPendingMarket(at)) = {o \in Range(pendingMarket) : ~IsPriced(o, at)}
  BY MarketMoves
<1> QED BY <1>1, LimitMoves, RestingMoves DEF Moves

-----------------------------------------------------------------------------
(***************************************************************************)
(* New orders                                                              *)
(***************************************************************************)

\* A backtest begins with no orders and no tickers.
LEMMA InitInv == Init => Inv
<1> SUFFICES ASSUME Init PROVE Inv
  OBVIOUS
<1>1. /\ updated = 0 /\ ticker = NoTicker /\ bookTicker = NoTicker
      /\ pendingMarket = <<>> /\ pendingLimit = <<>> /\ resting = <<>> /\ orders = <<>>
      /\ base = InitialBase /\ quote = InitialQuote * Unit /\ tradingBalance = 0
      /\ lastOrderId = 0 /\ fills = {} /\ refused = {} /\ cancelled = {} /\ past = <<>>
      /\ program \in {"market making", "direct"}
  BY DEF Init, ExchangeInit
<1>2. Range(<<>>) = {} /\ Rising(<<>>) /\ \A S : <<>> \in Seq(S)
  BY DEF Range, Rising
<1>3. Open = {} /\ Filled = {} /\ Made = {}
  BY <1>1, <1>2 DEF Open, Filled, Made
<1>4. TypeOK
  <2>1. base \in Int /\ updated \in 0..MaxTime
    <3>1. base = InitialBase /\ updated = 0
      BY <1>1
    <3>2. InitialBase \in Nat /\ MaxTime \in Nat
      BY Constants
    <3> QED BY <3>1, <3>2
  <2>2. quote \in Int
    <3>1. quote = InitialQuote * Unit
      BY <1>1
    <3>2. InitialQuote \in Nat /\ Unit \in Nat
      BY Constants
    <3> QED BY <3>1, <3>2
  <2>3. {ticker, bookTicker} \subseteq Tickers \cup {NoTicker}
    BY <1>1
  <2>4. {pendingMarket, pendingLimit, resting, orders} \subseteq Seq(Order)
    BY <1>1, <1>2
  <2>5. tradingBalance \in Int /\ lastOrderId \in Nat
    <3>1. tradingBalance = 0 /\ lastOrderId = 0
      BY <1>1
    <3> QED BY <3>1
  <2>6. fills = {} /\ refused = {} /\ cancelled = {} /\ program \in {"market making", "direct"}
    BY <1>1
  <2> QED BY <2>1, <2>2, <2>3, <2>4, <2>5, <2>6 DEF TypeOK
<1>5. ListInv
  BY <1>1, <1>2 DEF ListInv
<1>6. TimeInv
  BY <1>1, <1>2, <1>3 DEF TimeInv
<1>7. TickerInv
  BY <1>1 DEF TickerInv
<1>8. OnceInv
  <2>1. 1..0 = {}
    OBVIOUS
  <2> QED BY <1>1, <1>2, <1>3, <2>1 DEF OnceInv, Ids
<1>9. RiskInv
  <2>1. 0 = InitialBase - InitialBase
    BY Constants
  <2> QED BY <1>1, <1>2, <1>3, <2>1 DEF RiskInv
<1>10. NoLookahead /\ FillPriceBounded /\ MissedOnlyBehindAFill
  BY <1>1, <1>2 DEF NoLookahead, FillPriceBounded, MissedOnlyBehindAFill
<1> QED BY <1>4, <1>5, <1>6, <1>7, <1>8, <1>9, <1>10 DEF Inv

\* What is known of the tickers there were.
LEMMA PastIs ==
    ASSUME TypeOK, TimeInv
    PROVE  /\ Len(past) \in Nat /\ DOMAIN past = 1..Len(past)
           /\ \A i \in DOMAIN past : /\ past[i].ticker \in Tickers /\ past[i].at \in Nat
                                     /\ past[i].at \in 0..MaxTime /\ past[i].at <= updated
           /\ \A p \in Range(past) : p.ticker \in Tickers /\ p.at \in Nat /\ p.at <= updated
<1>1. past \in Seq([ticker : Tickers, at : 0..MaxTime]) /\ MaxTime \in Nat
  BY Constants DEF TimeInv
<1>2. Len(past) \in Nat /\ DOMAIN past = 1..Len(past)
  BY <1>1
<1>3. ASSUME NEW i \in DOMAIN past
      PROVE  /\ past[i].ticker \in Tickers /\ past[i].at \in Nat
             /\ past[i].at \in 0..MaxTime /\ past[i].at <= updated
  <2>1. past[i] \in [ticker : Tickers, at : 0..MaxTime]
    <3> DEFINE P == [ticker : Tickers, at : 0..MaxTime]
    <3>1. past \in Seq(P)
      BY <1>1
    <3> HIDE DEF P
    <3>2. past[i] \in P
      BY <3>1
    <3> QED BY <3>2 DEF P
  <2>2. past[i] \in Range(past)
    BY DEF Range
  <2> QED BY <1>1, <2>1, <2>2 DEF TimeInv
<1>4. \A p \in Range(past) : \E i \in DOMAIN past : p = past[i]
  BY DEF Range
<1> QED BY <1>2, <1>3, <1>4

\* What is known of the orders there are.
LEMMA MadeIs ==
    ASSUME TypeOK, OnceInv
    PROVE  /\ Made \subseteq Order
           /\ \A o \in Made : o.id \in 1..lastOrderId /\ o.id <= lastOrderId
           /\ lastOrderId \in Nat
<1>1. lastOrderId \in Nat /\ \A f \in fills : f.order \in Order
  BY DEF TypeOK
<1>2. Open \subseteq Order /\ refused \subseteq Order /\ cancelled \subseteq Order
  BY ListTypes DEF TypeOK
<1>3. Filled \subseteq Order
  BY <1>1 DEF Filled
<1>4. Made \subseteq Order
  BY <1>2, <1>3 DEF Made
<1>5. \A o \in Made : o.id \in 1..lastOrderId
  BY DEF OnceInv, Ids
<1> QED BY <1>1, <1>4, <1>5

\* The orders an order event makes: those put to the market orders, those put to the
\* limit orders, and those refused.
NewOrders(m, l, r, k) ==
    /\ m \cup l \cup r \subseteq Order
    /\ \A o \in m \cup l \cup r : o.created = updated
    /\ \A o, p \in m \cup l \cup r : o.id = p.id => o = p
    /\ Ids(m \cup l \cup r) = (lastOrderId + 1)..(lastOrderId + k)
    /\ m \cap l = {} /\ r \cap (m \cup l) = {}

OrderStep(m, l, r, k) ==
    /\ pendingMarket' \in Seq(Order) /\ Range(pendingMarket') = Range(pendingMarket) \cup m
    /\ pendingLimit' \in Seq(Order) /\ Range(pendingLimit') = Range(pendingLimit) \cup l
    /\ Rising(pendingMarket') /\ Rising(pendingLimit')
    /\ orders' \in Seq(Order) /\ Rising(orders')
    /\ refused' = refused \cup r
    /\ lastOrderId' = lastOrderId + k
    /\ updated' = updated /\ ticker' = ticker /\ resting' = resting /\ base' = base
    /\ quote' = quote /\ fills' = fills /\ cancelled' = cancelled /\ past' = past
    /\ program' = program /\ bookTicker' = bookTicker /\ tradingBalance' = tradingBalance

\* They are later than all orders there are.
LEMMA NewOrdersLater ==
    ASSUME TypeOK, OnceInv, NEW m, NEW l, NEW r, NEW k \in Nat, NewOrders(m, l, r, k)
    PROVE  \A o \in m \cup l \cup r, p \in Made : p.id < o.id
<1> SUFFICES ASSUME NEW o \in m \cup l \cup r, NEW p \in Made PROVE p.id < o.id
  OBVIOUS
<1>1. o.id \in Ids(m \cup l \cup r)
  BY DEF Ids
<1>2. o.id \in (lastOrderId + 1)..(lastOrderId + k)
  BY <1>1 DEF NewOrders
<1>3. p.id \in 1..lastOrderId /\ lastOrderId \in Nat
  BY MadeIs
<1> QED BY <1>2, <1>3

\* New orders go behind all others.
LEMMA OrderLists ==
    ASSUME TypeOK, ListInv, TimeInv, OnceInv, NEW m, NEW l, NEW r, NEW k \in Nat,
           NewOrders(m, l, r, k), OrderStep(m, l, r, k)
    PROVE  ListInv'
<1>1. Rising(pendingMarket') /\ Rising(pendingLimit') /\ Rising(resting') /\ Rising(orders')
  BY DEF ListInv, OrderStep
<1>2. \A o \in l, p \in Made : p.id < o.id
  BY NewOrdersLater
<1>3. Range(resting) \subseteq Made /\ Range(pendingLimit) \subseteq Made
  BY DEF Made, Open
<1>4. ASSUME NEW o \in Range(resting'), NEW p \in Range(pendingLimit') PROVE o.id < p.id
  <2>1. o \in Range(resting) /\ p \in Range(pendingLimit) \cup l
    BY DEF OrderStep
  <2> QED BY <1>2, <1>3, <2>1 DEF ListInv
<1>5. ASSUME NEW o \in Range(pendingLimit'), NEW p \in Range(pendingLimit'), o.id < p.id
      PROVE  o.created <= p.created
  <2>1. o \in Range(pendingLimit) \cup l /\ p \in Range(pendingLimit) \cup l
    BY DEF OrderStep
  <2>2. CASE o \in Range(pendingLimit) /\ p \in Range(pendingLimit)
    BY <1>5, <2>2 DEF ListInv
  <2>3. CASE o \in Range(pendingLimit) /\ p \in l
    <3>1. p.created = updated /\ o.created <= updated
      BY <2>3 DEF NewOrders, TimeInv, Open
    <3> QED BY <3>1
  <2>4. CASE o \in l /\ p \in Range(pendingLimit)
    <3>1. p.id < o.id
      BY <1>2, <1>3, <2>4
    <3>2. o \in Order /\ p \in Order
      BY <2>4, ListTypes DEF NewOrders, Open
    <3>3. o.id \in Nat /\ p.id \in Nat
      BY <3>2, OrderIs
    <3> QED BY <1>5, <3>1, <3>3
  <2>5. CASE o \in l /\ p \in l
    <3>1. o.created = updated /\ p.created = updated /\ updated \in Nat
      BY <2>5, ListTypes DEF NewOrders
    <3> QED BY <3>1
  <2> QED BY <2>1, <2>2, <2>3, <2>4, <2>5
<1> QED BY <1>1, <1>4, <1>5 DEF ListInv

\* New orders are of now.
LEMMA OrderTimes ==
    ASSUME TypeOK, TimeInv, TickerInv, NEW m, NEW l, NEW r, NEW k \in Nat,
           NewOrders(m, l, r, k), OrderStep(m, l, r, k)
    PROVE  TypeOK' /\ TimeInv' /\ TickerInv'
<1>1. Open' = Open \cup m \cup l
  BY DEF Open, OrderStep
<1>2. TypeOK'
  <2>1. lastOrderId' \in Nat
    BY ListTypes DEF OrderStep
  <2>2. refused' \cup cancelled' \subseteq Order
    BY DEF TypeOK, OrderStep, NewOrders
  <2>3. resting' \in Seq(Order) /\ updated' \in 0..MaxTime
    BY DEF TypeOK, OrderStep
  <2>4. {base', quote', tradingBalance'} \subseteq Int
    BY DEF TypeOK, OrderStep
  <2>5. {ticker', bookTicker'} \subseteq Tickers \cup {NoTicker} /\ program' \in {"market making", "direct"}
    BY DEF TypeOK, OrderStep
  <2>6. {pendingMarket', pendingLimit', resting', orders'} \subseteq Seq(Order)
    BY <2>3 DEF OrderStep
  <2>7. \A f \in fills' : f.order \in Order /\ f.at \in 0..MaxTime /\ f.ticker \in Tickers
    BY DEF TypeOK, OrderStep
  <2> QED BY <2>1, <2>2, <2>3, <2>4, <2>5, <2>6, <2>7 DEF TypeOK
<1>3. TimeInv'
  <2>1. \A o \in Open' : o.created <= updated'
    <3>1. \A o \in m \cup l : o.created = updated
      BY DEF NewOrders
    <3>2. updated <= updated /\ updated' = updated
      BY ListTypes DEF OrderStep
    <3> QED BY <1>1, <3>1, <3>2 DEF TimeInv
  <2>2. \A o \in Range(resting') : IsDue(o, updated')
    BY DEF TimeInv, OrderStep
  <2>3. /\ \A f \in fills' : f.at <= updated'
        /\ past' \in Seq([ticker : Tickers, at : 0..MaxTime])
        /\ \A p \in Range(past') : p.at <= updated'
    BY DEF TimeInv, OrderStep
  <2> QED BY <2>1, <2>2, <2>3 DEF TimeInv
<1>4. TickerInv'
  BY DEF TickerInv, OrderStep
<1> QED BY <1>2, <1>3, <1>4

\* Each new order is in one of the lists or refused.
LEMMA OrderOnce ==
    ASSUME TypeOK, OnceInv, NEW m, NEW l, NEW r, NEW k \in Nat,
           NewOrders(m, l, r, k), OrderStep(m, l, r, k)
    PROVE  OnceInv'
<1> DEFINE new == m \cup l \cup r
<1>1. Open' = Open \cup m \cup l /\ Filled' = Filled
  BY DEF Open, Filled, OrderStep
<1>2. Made' = Made \cup new
  BY <1>1 DEF Made, OrderStep
<1>3. \A o \in new, p \in Made : p.id < o.id /\ o.id \in Nat /\ p.id \in Nat
  <2>1. \A o \in new, p \in Made : p.id < o.id
    BY NewOrdersLater
  <2>2. new \subseteq Order /\ Made \subseteq Order
    BY MadeIs DEF NewOrders
  <2> QED BY <2>1, <2>2, OrderIs
<1>4. \A o \in new, p \in Made : p.id # o.id
  BY <1>3
<1>5. new \cap Made = {}
  BY <1>4
<1>6. \A o, p \in Made' : o.id = p.id => o = p
  <2>1. \A o, p \in new : o.id = p.id => o = p
    BY DEF NewOrders
  <2>2. \A o, p \in Made : o.id = p.id => o = p
    BY DEF OnceInv
  <2> HIDE DEF new
  <2> QED BY <1>2, <1>4, <2>1, <2>2
<1>7. Ids(Made') = 1..lastOrderId'
  <2>1. Ids(Made') = Ids(Made) \cup Ids(new)
    BY <1>2 DEF Ids
  <2>2. Ids(Made) = 1..lastOrderId /\ Ids(new) = (lastOrderId + 1)..(lastOrderId + k)
    BY DEF OnceInv, NewOrders
  <2>3. lastOrderId' = lastOrderId + k /\ lastOrderId \in Nat
    BY ListTypes DEF OrderStep
  <2>4. \A i : i \in 1..lastOrderId \/ i \in (lastOrderId + 1)..(lastOrderId + k) <=> i \in 1..lastOrderId'
    BY <2>3
  <2> QED BY <2>1, <2>2, <2>4
<1>8. /\ Range(pendingMarket) \subseteq Made /\ Range(pendingLimit) \subseteq Made
      /\ Range(resting) \subseteq Made /\ Open \subseteq Made /\ Filled \subseteq Made
      /\ refused \subseteq Made /\ cancelled \subseteq Made
  BY DEF Made, Open
<1>9. /\ Range(pendingMarket') \cap Range(pendingLimit') = {}
      /\ Range(resting') \cap (Range(pendingMarket') \cup Range(pendingLimit')) = {}
  BY <1>5, <1>8 DEF OrderStep, NewOrders, OnceInv
<1>10. /\ Filled' \cap Open' = {}
       /\ refused' \cap (Open' \cup Filled') = {}
       /\ cancelled' \cap (Open' \cup Filled' \cup refused') = {}
  <2>1. Filled \cap Open = {} /\ refused \cap (Open \cup Filled) = {}
        /\ cancelled \cap (Open \cup Filled \cup refused) = {}
    BY DEF OnceInv
  <2>2. refused' = refused \cup r /\ cancelled' = cancelled
    BY DEF OrderStep
  <2>3. r \cap (m \cup l) = {}
    BY DEF NewOrders
  <2> QED BY <1>1, <1>5, <1>8, <2>1, <2>2, <2>3
<1>11. \A f, g \in fills' : f.order = g.order => f = g
  BY DEF OnceInv, OrderStep
<1> QED BY <1>6, <1>7, <1>9, <1>10, <1>11 DEF OnceInv

\* Nothing is said of the fills and of the orders that rest, which stay as they are.
LEMMA OrderFills ==
    ASSUME TypeOK, TimeInv, NoLookahead, FillPriceBounded, MissedOnlyBehindAFill,
           NEW m, NEW l, NEW r, NEW k \in Nat,
           NewOrders(m, l, r, k), OrderStep(m, l, r, k)
    PROVE  NoLookahead' /\ FillPriceBounded' /\ MissedOnlyBehindAFill'
<1>1. fills' = fills /\ past' = past /\ resting' = resting /\ ticker' = ticker
  BY DEF OrderStep
<1>2. \A f \in fills' :
          /\ IsDue(f.order, f.at)
          /\ f.how = "market" => IsTicker(MarketTicker(f.order), f.ticker)'
          /\ f.how = "due" => IsTicker(KnownBefore(f.order) + 1, f.ticker)'
  BY <1>1 DEF NoLookahead, IsTicker, MarketTicker, KnownBefore
<1>3. ASSUME NEW o \in m \cup l, NEW p \in Range(past)
      PROVE  ~IsDue(o, p.at)
  <2>1. o.created = updated /\ p.at <= updated /\ updated \in Nat /\ Latency \in Nat
    BY ListTypes, Constants DEF NewOrders, TimeInv
  <2>2. p.at \in Int
    BY PastIs
  <2> QED BY <2>1, <2>2 DEF IsDue
<1>4. \A o \in Range(pendingLimit'), p \in Range(past') : ~IsDue(o, p.at)
  BY <1>1, <1>3 DEF NoLookahead, OrderStep
<1>5. \A o \in Range(pendingMarket'), p \in Range(past') : IsDue(o, p.at) => Len(past') = 1
  BY <1>1, <1>3 DEF NoLookahead, OrderStep
<1>6. NoLookahead'
  BY <1>2, <1>4, <1>5 DEF NoLookahead
<1>7. FillPriceBounded'
  BY <1>1 DEF FillPriceBounded
<1>8. MissedOnlyBehindAFill'
  BY <1>1 DEF MissedOnlyBehindAFill
<1> QED BY <1>6, <1>7, <1>8

\* New orders keep the invariant, if the risk manager's orders follow.
LEMMA OrderInv ==
    ASSUME Inv, NEW m, NEW l, NEW r, NEW k \in Nat,
           NewOrders(m, l, r, k), OrderStep(m, l, r, k), RiskInv'
    PROVE  Inv'
<1>1. ListInv'
  BY OrderLists DEF Inv
<1>2. TypeOK' /\ TimeInv' /\ TickerInv'
  BY OrderTimes DEF Inv
<1>3. OnceInv'
  BY OrderOnce DEF Inv
<1>4. NoLookahead' /\ FillPriceBounded' /\ MissedOnlyBehindAFill'
  BY OrderFills DEF Inv
<1> QED BY <1>1, <1>2, <1>3, <1>4 DEF Inv

\* One new order.
LEMMA OneOrder ==
    ASSUME TypeOK, NEW type \in {"MARKET", "LIMIT"}, NEW side \in {"BUY", "SELL"}, NEW price \in Nat,
           NEW order, order = NewOrder(lastOrderId + 1, type, side, price)
    PROVE  /\ order \in Order /\ order.id = lastOrderId + 1 /\ order.created = updated
           /\ Ids({order}) = (lastOrderId + 1)..(lastOrderId + 1)
<1>1. lastOrderId \in Nat /\ updated \in 0..MaxTime
  BY ListTypes
<1>2. order \in Order /\ order.id = lastOrderId + 1 /\ order.created = updated
  BY <1>1 DEF NewOrder, Order
<1>3. (lastOrderId + 1)..(lastOrderId + 1) = {lastOrderId + 1}
  BY <1>1
<1>4. Ids({order}) = {order.id}
  BY DEF Ids
<1> QED BY <1>2, <1>3, <1>4

\* The limit orders there are funds for go behind the pending ones.
LEMMA AddIs ==
    ASSUME TypeOK, ListInv, NEW list \in Seq(Order), Rising(list), AddLimitOrders(list),
           \A o \in Range(pendingLimit), p \in Range(list) : o.id < p.id
    PROVE  /\ pendingLimit' \in Seq(Order) /\ Rising(pendingLimit')
           /\ Range(pendingLimit') =
                  Range(pendingLimit) \cup {o \in Range(list) : CanExecuteOrder(o)}
<1> DEFINE I == {i \in DOMAIN list : CanExecuteOrder(list[i])}
           add == OrdersAt(list, I)
<1>1. pendingLimit' = pendingLimit \o add
  BY DEF AddLimitOrders
<1>2. I \in SUBSET (1..Len(list)) /\ DOMAIN list = 1..Len(list)
  OBVIOUS
<1>3. \A o : o \in {list[i] : i \in I} <=> o \in Range(list) /\ CanExecuteOrder(o)
  BY DEF Range
<1> HIDE DEF I
<1>4. add \in Seq(Order) /\ Rising(add) /\ Range(add) = {list[i] : i \in I}
  BY <1>2, OrdersAtIs
<1> HIDE DEF add
<1>5. Range(add) = {o \in Range(list) : CanExecuteOrder(o)}
  BY <1>3, <1>4
<1>6. pendingLimit \in Seq(Order) /\ Rising(pendingLimit)
  BY ListTypes DEF ListInv
<1>7. \A o \in Range(pendingLimit), p \in Range(add) : o.id < p.id
  BY <1>5
<1> QED BY <1>1, <1>4, <1>5, <1>6, <1>7, ConcatIs

\* A program makes a market order.
LEMMA MarketOrderInv ==
    ASSUME Inv, NEW side \in {"BUY", "SELL"}, DirectMarketOrder(side)
    PROVE  Inv'
<1> DEFINE order == NewOrder(lastOrderId + 1, "MARKET", side, 0)
<1>1. TypeOK /\ ListInv /\ OnceInv
  BY DEF Inv
<1>2. /\ order \in Order /\ order.id = lastOrderId + 1 /\ order.created = updated
      /\ Ids({order}) = (lastOrderId + 1)..(lastOrderId + 1)
  BY <1>1, OneOrder
<1>3. /\ program = "direct"
      /\ pendingMarket' = Append(pendingMarket, order) /\ lastOrderId' = lastOrderId + 1
      /\ pendingLimit' = pendingLimit /\ orders' = orders /\ refused' = refused
      /\ updated' = updated /\ ticker' = ticker /\ resting' = resting /\ base' = base
      /\ quote' = quote /\ fills' = fills /\ cancelled' = cancelled /\ past' = past
      /\ program' = program /\ bookTicker' = bookTicker /\ tradingBalance' = tradingBalance
  BY DEF DirectMarketOrder, CanOrder, MarketOrder, riskVars
<1> HIDE DEF order
<1>4. NewOrders({order}, {}, {}, 1)
  BY <1>2 DEF NewOrders
<1>5. /\ pendingMarket' \in Seq(Order) /\ Range(pendingMarket') = Range(pendingMarket) \cup {order}
      /\ Rising(pendingMarket')
  <2>1. pendingMarket \in Seq(Order) /\ Rising(pendingMarket)
    BY <1>1, ListTypes DEF ListInv
  <2>2. \A o \in Range(pendingMarket) : o.id < order.id
    BY <1>1, <1>4, NewOrdersLater DEF Made, Open
  <2> QED BY <1>2, <1>3, <2>1, <2>2, AppendIs
<1>6. OrderStep({order}, {}, {}, 1)
  BY <1>1, <1>3, <1>5, ListTypes DEF OrderStep, ListInv
<1>7. RiskInv'
  BY <1>3 DEF RiskInv
<1> QED BY <1>4, <1>6, <1>7, OrderInv

\* A program makes a limit order, which may be refused.
LEMMA LimitOrderInv ==
    ASSUME Inv, NEW side \in {"BUY", "SELL"}, NEW price \in LimitPrices,
           DirectLimitOrder(side, price)
    PROVE  Inv'
<1> DEFINE order == NewOrder(lastOrderId + 1, "LIMIT", side, price)
           list == <<order>>
           l == {o \in {order} : CanExecuteOrder(o)}
           r == {o \in {order} : ~CanExecuteOrder(o)}
<1>1. TypeOK /\ ListInv /\ OnceInv
  BY DEF Inv
<1>2. /\ order \in Order /\ order.id = lastOrderId + 1 /\ order.created = updated
      /\ Ids({order}) = (lastOrderId + 1)..(lastOrderId + 1)
  BY <1>1, Constants, OneOrder
<1>3. /\ program = "direct"
      /\ AddLimitOrders(list)
      /\ refused' = IF CanExecuteOrder(order) THEN refused ELSE refused \cup {order}
      /\ orders' = orders /\ cancelled' = cancelled /\ past' = past
      /\ program' = program /\ bookTicker' = bookTicker /\ tradingBalance' = tradingBalance
  BY DEF DirectLimitOrder, CanOrder, riskVars
<1>4. /\ Len(list) = 1 /\ list \in Seq(Order) /\ Range(list) = {order} /\ Rising(list)
  <2>1. DOMAIN list = {1} /\ list[1] = order /\ Len(list) = 1
    OBVIOUS
  <2>2. list \in Seq(Order)
    BY <1>2
  <2> HIDE DEF list
  <2> QED BY <2>1, <2>2 DEF Range, Rising
<1> HIDE DEF order, list
<1>5. /\ lastOrderId' = lastOrderId + 1 /\ pendingMarket' = pendingMarket
      /\ updated' = updated /\ ticker' = ticker /\ resting' = resting /\ base' = base
      /\ quote' = quote /\ fills' = fills
  BY <1>3, <1>4 DEF AddLimitOrders
<1>6. l \cup r = {order} /\ l \cap r = {} /\ refused' = refused \cup r
  BY <1>3
<1>7. NewOrders({}, l, r, 1)
  <2>1. {} \cup l \cup r = {order} /\ {} \cap l = {} /\ r \cap ({} \cup l) = {}
    BY <1>6
  <2> HIDE DEF l, r
  <2> QED BY <1>2, <2>1 DEF NewOrders
<1>8. \A o \in Range(pendingLimit) : o.id < order.id
  <2>1. order \in {} \cup l \cup r
    BY <1>6
  <2> HIDE DEF l, r
  <2> QED BY <1>1, <1>7, <2>1, NewOrdersLater DEF Made, Open
<1>9. /\ pendingLimit' \in Seq(Order) /\ Rising(pendingLimit')
      /\ Range(pendingLimit') = Range(pendingLimit) \cup l
  <2>1. \A o \in Range(pendingLimit), p \in Range(list) : o.id < p.id
    BY <1>4, <1>8
  <2>2. l = {o \in Range(list) : CanExecuteOrder(o)}
    BY <1>4
  <2> HIDE DEF l
  <2> QED BY <1>1, <1>3, <1>4, <2>1, <2>2, AddIs
<1> HIDE DEF l, r
<1>10. OrderStep({}, l, r, 1)
  <2>1. pendingMarket \in Seq(Order) /\ Rising(pendingMarket)
    BY <1>1, ListTypes DEF ListInv
  <2>2. orders \in Seq(Order) /\ Rising(orders)
    BY <1>1, ListTypes DEF ListInv
  <2> QED BY <1>3, <1>5, <1>6, <1>9, <2>1, <2>2 DEF OrderStep
<1>11. RiskInv'
  BY <1>3 DEF RiskInv
<1> QED BY <1>7, <1>10, <1>11, OrderInv

\* The two orders of the strategy.
LEMMA CalculateIs ==
    ASSUME TypeOK, bookTicker \in Tickers
    PROVE  /\ CalculateOrders \in Seq(Order) /\ Len(CalculateOrders) = 2
           /\ Rising(CalculateOrders)
           /\ \A o \in Range(CalculateOrders) : o.created = updated
           /\ \A o, p \in Range(CalculateOrders) : o.id = p.id => o = p
           /\ Ids(Range(CalculateOrders)) = (lastOrderId + 1)..(lastOrderId + 2)
<1> DEFINE mid == BasePrice(bookTicker)
           s == NewOrder(lastOrderId + 1, "LIMIT", "SELL", mid + Spread)
           b == NewOrder(lastOrderId + 2, "LIMIT", "BUY", mid - Spread)
           list == <<s, b>>
<1>1. mid \in Nat /\ Spread \in Nat /\ Spread < mid
  <2>1. bookTicker.bid \in Nat /\ bookTicker.ask \in Nat
    BY Constants
  <2>2. mid \in Nat
    BY <2>1 DEF BasePrice
  <2> QED BY <2>2, Constants
<1>2. lastOrderId \in Nat /\ updated \in 0..MaxTime
  BY ListTypes
<1>3. mid + Spread \in Nat /\ mid - Spread \in Nat
  <2> HIDE DEF mid
  <2> QED BY <1>1
<1> HIDE DEF mid
<1>4. /\ s \in Order /\ s.id = lastOrderId + 1 /\ s.created = updated
      /\ b \in Order /\ b.id = lastOrderId + 2 /\ b.created = updated
  BY <1>2, <1>3 DEF NewOrder, Order
<1>5. CalculateOrders = list
  BY DEF CalculateOrders, mid
<1> HIDE DEF s, b
<1>6. list \in Seq(Order) /\ Len(list) = 2 /\ DOMAIN list = 1..2 /\ list[1] = s /\ list[2] = b
  BY <1>4
<1> HIDE DEF list
<1>7. Range(list) = {s, b}
  <2>1. \A i : i \in 1..2 <=> i = 1 \/ i = 2
    OBVIOUS
  <2> QED BY <1>6, <2>1 DEF Range
<1>8. s.id < b.id /\ s.id # b.id
  BY <1>2, <1>4
<1>9. Rising(list)
  <2>1. \A i, j \in 1..2 : i < j => i = 1 /\ j = 2
    OBVIOUS
  <2> QED BY <1>6, <1>8, <2>1 DEF Rising
<1>10. Ids(Range(list)) = (lastOrderId + 1)..(lastOrderId + 2)
  <2>1. Ids(Range(list)) = {s.id, b.id}
    BY <1>7 DEF Ids
  <2>2. \A i : i \in (lastOrderId + 1)..(lastOrderId + 2) <=> i = lastOrderId + 1 \/ i = lastOrderId + 2
    BY <1>2
  <2> QED BY <1>4, <2>1, <2>2
<1> QED BY <1>4, <1>5, <1>6, <1>7, <1>8, <1>9, <1>10

\* OnPricePrediction: the risk manager makes a sell and a buy order.
LEMMA PredictionInv ==
    ASSUME Inv, OnPricePrediction
    PROVE  Inv'
<1> DEFINE list == CalculateOrders
           new == Range(list)
           l == {o \in new : CanExecuteOrder(o)}
           r == {o \in new : ~CanExecuteOrder(o)}
<1>1. TypeOK /\ ListInv /\ OnceInv /\ RiskInv
  BY DEF Inv
<1>2. /\ program = "market making" /\ bookTicker # NoTicker
      /\ AddLimitOrders(list)
      /\ orders' = orders \o list
      /\ refused' = refused \cup r
      /\ program' = program /\ bookTicker' = bookTicker /\ tradingBalance' = tradingBalance
      /\ cancelled' = cancelled /\ past' = past
  BY DEF OnPricePrediction
<1>3. bookTicker \in Tickers
  BY <1>1, <1>2 DEF TypeOK
<1>4. /\ list \in Seq(Order) /\ Len(list) = 2 /\ Rising(list)
      /\ \A o \in new : o.created = updated
      /\ \A o, p \in new : o.id = p.id => o = p
      /\ Ids(new) = (lastOrderId + 1)..(lastOrderId + 2)
  BY <1>1, <1>3, CalculateIs
<1> HIDE DEF list
<1>5. /\ lastOrderId' = lastOrderId + 2 /\ pendingMarket' = pendingMarket
      /\ updated' = updated /\ ticker' = ticker /\ resting' = resting /\ base' = base
      /\ quote' = quote /\ fills' = fills
  BY <1>2, <1>4 DEF AddLimitOrders
<1>6. new \subseteq Order /\ l \cup r = new /\ l \cap r = {}
  <2>1. new \subseteq Order
    BY <1>4 DEF Range
  <2> HIDE DEF new
  <2>2. l \cup r = new /\ l \cap r = {}
    OBVIOUS
  <2> QED BY <2>1, <2>2
<1> HIDE DEF new
<1>7. NewOrders({}, l, r, 2)
  <2>1. {} \cup l \cup r = new /\ {} \cap l = {} /\ r \cap ({} \cup l) = {}
    BY <1>6
  <2> HIDE DEF l, r
  <2> QED BY <1>4, <1>6, <2>1 DEF NewOrders
<1>8. \A o \in Made, p \in new : o.id < p.id
  <2>1. {} \cup l \cup r = new
    BY <1>6
  <2> HIDE DEF l, r
  <2> QED BY <1>1, <1>7, <2>1, NewOrdersLater
<1>9. Range(orders) \subseteq Made /\ Range(pendingLimit) \subseteq Made
  BY <1>1, <1>2 DEF RiskInv, Made, Open
<1>10. /\ pendingLimit' \in Seq(Order) /\ Rising(pendingLimit')
       /\ Range(pendingLimit') = Range(pendingLimit) \cup l
  <2>1. \A o \in Range(pendingLimit), p \in Range(list) : o.id < p.id
    BY <1>8, <1>9 DEF new
  <2>2. l = {o \in Range(list) : CanExecuteOrder(o)}
    BY DEF new
  <2> HIDE DEF l
  <2> QED BY <1>1, <1>2, <1>4, <2>1, <2>2, AddIs
<1>11. orders' \in Seq(Order) /\ Rising(orders') /\ Range(orders') = Range(orders) \cup new
  <2>1. \A o \in Range(orders), p \in Range(list) : o.id < p.id
    BY <1>8, <1>9 DEF new
  <2>2. orders \in Seq(Order) /\ Rising(orders)
    BY <1>1, ListTypes DEF ListInv
  <2>3. /\ orders \o list \in Seq(Order) /\ Rising(orders \o list)
        /\ Range(orders \o list) = Range(orders) \cup Range(list)
    BY <1>4, <2>1, <2>2, ConcatIs
  <2> QED BY <1>2, <2>3 DEF new
<1> HIDE DEF l, r
<1>12. OrderStep({}, l, r, 2)
  <2>1. pendingMarket \in Seq(Order) /\ Rising(pendingMarket)
    BY <1>1, ListTypes DEF ListInv
  <2> QED BY <1>2, <1>5, <1>10, <1>11, <2>1 DEF OrderStep
<1>13. RiskInv'
  <2>1. Range(orders) = Open \cup refused /\ tradingBalance = base - InitialBase
    BY <1>1, <1>2 DEF RiskInv
  <2>2. Open' = Open \cup l
    BY <1>5, <1>10 DEF Open
  <2>3. Range(orders') = Open' \cup refused'
    BY <1>2, <1>6, <1>11, <2>1, <2>2
  <2>4. tradingBalance' = base' - InitialBase
    BY <1>2, <1>5, <2>1
  <2> QED BY <2>3, <2>4 DEF RiskInv
<1> QED BY <1>7, <1>12, <1>13, OrderInv

-----------------------------------------------------------------------------
(***************************************************************************)
(* Cancelled orders, other tickers                                         *)
(***************************************************************************)

\* Nothing that NoLookahead is about changes.
LEMMA SameLookahead ==
    ASSUME NoLookahead, fills' = fills, past' = past, pendingMarket' = pendingMarket,
           pendingLimit' = pendingLimit
    PROVE  NoLookahead'
<1>1. \A order : KnownBefore(order)' = KnownBefore(order)
  BY DEF KnownBefore
<1>2. \A n, t : IsTicker(n, t)' = IsTicker(n, t)
  BY DEF IsTicker
<1>3. \A order : MarketTicker(order)' = MarketTicker(order)
  BY <1>1 DEF MarketTicker
<1> QED BY <1>1, <1>2, <1>3 DEF NoLookahead

\* A program cancels a resting order.
LEMMA CancelInv ==
    ASSUME Inv, NEW order \in Range(resting), DirectCancel(order)
    PROVE  Inv'
<1> DEFINE I == {i \in DOMAIN resting : resting[i].id # order.id}
<1>1. /\ TypeOK /\ ListInv /\ TimeInv /\ TickerInv /\ OnceInv
      /\ NoLookahead /\ FillPriceBounded /\ MissedOnlyBehindAFill
  BY DEF Inv
<1>2. /\ program = "direct" /\ resting' = OrdersAt(resting, I)
      /\ cancelled' = cancelled \cup {order}
      /\ updated' = updated /\ ticker' = ticker /\ pendingMarket' = pendingMarket
      /\ pendingLimit' = pendingLimit /\ base' = base /\ quote' = quote
      /\ lastOrderId' = lastOrderId /\ fills' = fills /\ bookTicker' = bookTicker
      /\ orders' = orders /\ tradingBalance' = tradingBalance /\ program' = program
      /\ refused' = refused /\ past' = past
  BY DEF DirectCancel, CancelOrder, riskVars
<1>3. resting \in Seq(Order) /\ Rising(resting) /\ DOMAIN resting = 1..Len(resting)
  BY <1>1, ListTypes DEF ListInv
<1>4. I \in SUBSET (1..Len(resting)) /\ \A i : i \in I <=> i \in DOMAIN resting /\ resting[i].id # order.id
  BY <1>3
<1> HIDE DEF I
<1>5. /\ resting' \in Seq(Order) /\ Rising(resting')
      /\ Range(resting') = {resting[i] : i \in I}
  BY <1>2, <1>3, <1>4, OrdersAtIs
<1>6. order \in Made /\ Range(resting) \subseteq Made
  BY DEF Made, Open
<1>7. \A o \in Range(resting) : o.id = order.id <=> o = order
  BY <1>1, <1>6 DEF OnceInv
<1>8. Range(resting') = Range(resting) \ {order}
  <2>1. \A i \in DOMAIN resting : resting[i] \in Range(resting)
    BY DEF Range
  <2>2. \A o \in Range(resting) : \E i \in DOMAIN resting : o = resting[i]
    BY DEF Range
  <2> QED BY <1>4, <1>5, <1>7, <2>1, <2>2
<1>9. /\ order \notin Range(pendingMarket) /\ order \notin Range(pendingLimit)
      /\ order \notin Filled /\ order \notin refused /\ order \notin cancelled /\ order \in Open
  BY <1>1 DEF OnceInv, Open
<1>10. Open' = Open \ {order} /\ Filled' = Filled
  BY <1>2, <1>8, <1>9 DEF Open, Filled
<1>11. Made' = Made
  BY <1>2, <1>9, <1>10 DEF Made
<1>12. TypeOK'
  <2>1. order \in Order
    BY <1>1, <1>9, ListTypes
  <2>2. refused' \cup cancelled' \subseteq Order
    BY <1>1, <1>2, <2>1 DEF TypeOK
  <2>3. {pendingMarket', pendingLimit', resting', orders'} \subseteq Seq(Order)
    BY <1>1, <1>2, <1>5, ListTypes
  <2>4. /\ updated' \in 0..MaxTime /\ {ticker', bookTicker'} \subseteq Tickers \cup {NoTicker}
        /\ {base', quote', tradingBalance'} \subseteq Int /\ lastOrderId' \in Nat
        /\ program' \in {"market making", "direct"}
    BY <1>1, <1>2 DEF TypeOK
  <2>5. \A f \in fills' : f.order \in Order /\ f.at \in 0..MaxTime /\ f.ticker \in Tickers
    BY <1>1, <1>2 DEF TypeOK
  <2> QED BY <2>2, <2>3, <2>4, <2>5 DEF TypeOK
<1>13. ListInv'
  BY <1>1, <1>2, <1>5, <1>8 DEF ListInv
<1>14. TimeInv'
  BY <1>1, <1>2, <1>8, <1>10 DEF TimeInv
<1>15. TickerInv'
  BY <1>1, <1>2 DEF TickerInv
<1>16. OnceInv'
  <2>1. (\A o, p \in Made' : o.id = p.id => o = p) /\ Ids(Made') = 1..lastOrderId'
    BY <1>1, <1>2, <1>11 DEF OnceInv
  <2>2. /\ Range(pendingMarket') \cap Range(pendingLimit') = {}
        /\ Range(resting') \cap (Range(pendingMarket') \cup Range(pendingLimit')) = {}
    BY <1>1, <1>2, <1>8 DEF OnceInv
  <2>3. /\ Filled' \cap Open' = {}
        /\ refused' \cap (Open' \cup Filled') = {}
        /\ cancelled' \cap (Open' \cup Filled' \cup refused') = {}
    BY <1>1, <1>2, <1>9, <1>10 DEF OnceInv
  <2>4. \A f, g \in fills' : f.order = g.order => f = g
    BY <1>1, <1>2 DEF OnceInv
  <2> QED BY <2>1, <2>2, <2>3, <2>4 DEF OnceInv
<1>17. RiskInv'
  BY <1>2 DEF RiskInv
<1>18. NoLookahead'
  BY <1>1, <1>2, SameLookahead
<1>19. FillPriceBounded' /\ MissedOnlyBehindAFill'
  BY <1>1, <1>2, <1>8 DEF FillPriceBounded, MissedOnlyBehindAFill
<1> QED BY <1>12, <1>13, <1>14, <1>15, <1>16, <1>17, <1>18, <1>19 DEF Inv

\* What has arrived stays so.
LEMMA DueLater ==
    ASSUME NEW o \in Order, NEW a \in Nat, NEW b \in Nat, a <= b, IsDue(o, a)
    PROVE  IsDue(o, b)
BY OrderIs, Constants DEF IsDue

\* A ticker of another exchange fills nothing.
LEMMA OtherInv ==
    ASSUME Inv, NEW t \in Tickers, NEW at \in updated..MaxTime, OtherTicker(t, at)
    PROVE  Inv'
<1>1. /\ TypeOK /\ ListInv /\ TimeInv /\ TickerInv /\ OnceInv /\ RiskInv
      /\ NoLookahead /\ FillPriceBounded /\ MissedOnlyBehindAFill
  BY DEF Inv
<1>2. /\ updated' = at
      /\ bookTicker' = IF program = "market making" THEN t ELSE bookTicker
      /\ ticker' = ticker /\ pendingMarket' = pendingMarket /\ resting' = resting
      /\ pendingLimit' = pendingLimit /\ base' = base /\ quote' = quote
      /\ lastOrderId' = lastOrderId /\ fills' = fills /\ cancelled' = cancelled
      /\ orders' = orders /\ tradingBalance' = tradingBalance /\ program' = program
      /\ refused' = refused /\ past' = past
  BY DEF OtherTicker, OnOtherTicker
<1>3. updated \in Nat /\ at \in Nat /\ at \in 0..MaxTime /\ updated <= at
  BY <1>1, EventTime
<1>4. Open' = Open /\ Filled' = Filled /\ Made' = Made
  BY <1>2 DEF Open, Filled, Made
<1>5. TypeOK'
  <2>1. {ticker', bookTicker'} \subseteq Tickers \cup {NoTicker}
    BY <1>1, <1>2 DEF TypeOK
  <2>2. {pendingMarket', pendingLimit', resting', orders'} \subseteq Seq(Order)
    BY <1>1, <1>2 DEF TypeOK
  <2>3. /\ {base', quote', tradingBalance'} \subseteq Int /\ lastOrderId' \in Nat
        /\ program' \in {"market making", "direct"} /\ refused' \cup cancelled' \subseteq Order
    BY <1>1, <1>2 DEF TypeOK
  <2>4. \A f \in fills' : f.order \in Order /\ f.at \in 0..MaxTime /\ f.ticker \in Tickers
    BY <1>1, <1>2 DEF TypeOK
  <2>5. updated' \in 0..MaxTime
    BY <1>2, <1>3
  <2> QED BY <2>1, <2>2, <2>3, <2>4, <2>5 DEF TypeOK
<1>6. ListInv'
  BY <1>1, <1>2 DEF ListInv
<1>7. TimeInv'
  <2>1. \A o \in Open' : o.created <= updated'
    <3> SUFFICES ASSUME NEW o \in Open PROVE o.created <= at
      BY <1>2, <1>4
    <3>1. o.created \in Nat /\ o.created <= updated
      BY <1>1, ListTypes, OrderIs DEF TimeInv
    <3> QED BY <1>3, <3>1
  <2>2. \A o \in Range(resting') : IsDue(o, updated')
    <3>1. \A o \in Range(resting) : o \in Order /\ IsDue(o, updated)
      BY <1>1, ListTypes DEF TimeInv, Open
    <3> QED BY <1>2, <1>3, <3>1, DueLater
  <2>3. \A f \in fills' : f.at <= updated'
    <3> SUFFICES ASSUME NEW f \in fills PROVE f.at <= at
      BY <1>2
    <3>1. f.at \in 0..MaxTime /\ f.at <= updated
      BY <1>1 DEF TypeOK, TimeInv
    <3> QED BY <1>3, <3>1
  <2>4. \A p \in Range(past') : p.at <= updated'
    <3> SUFFICES ASSUME NEW p \in Range(past) PROVE p.at <= at
      BY <1>2
    <3>1. p.at \in Nat /\ p.at <= updated
      BY <1>1, PastIs
    <3> QED BY <1>3, <3>1
  <2>5. past' \in Seq([ticker : Tickers, at : 0..MaxTime])
    BY <1>1, <1>2 DEF TimeInv
  <2> QED BY <2>1, <2>2, <2>3, <2>4, <2>5 DEF TimeInv
<1>8. TickerInv'
  BY <1>1, <1>2 DEF TickerInv
<1>9. OnceInv'
  BY <1>1, <1>2, <1>4 DEF OnceInv
<1>10. RiskInv'
  BY <1>1, <1>2, <1>4 DEF RiskInv
<1>11. NoLookahead'
  BY <1>1, <1>2, SameLookahead
<1>12. FillPriceBounded' /\ MissedOnlyBehindAFill'
  BY <1>1, <1>2 DEF FillPriceBounded, MissedOnlyBehindAFill
<1> QED BY <1>5, <1>6, <1>7, <1>8, <1>9, <1>10, <1>11, <1>12 DEF Inv

\* A step that changes nothing.
LEMMA StutterInv ==
    ASSUME Inv, UNCHANGED vars
    PROVE  Inv'
<1>1. /\ ticker' = ticker /\ pendingMarket' = pendingMarket /\ resting' = resting
      /\ pendingLimit' = pendingLimit /\ base' = base /\ quote' = quote /\ updated' = updated
      /\ lastOrderId' = lastOrderId /\ fills' = fills /\ cancelled' = cancelled
      /\ orders' = orders /\ tradingBalance' = tradingBalance /\ program' = program
      /\ refused' = refused /\ past' = past /\ bookTicker' = bookTicker
  BY DEF vars, exchangeVars, riskVars
<1>2. Open' = Open /\ Filled' = Filled /\ Made' = Made
  BY <1>1 DEF Open, Filled, Made
<1>3. TypeOK' /\ ListInv' /\ TimeInv'
  BY <1>1, <1>2 DEF Inv, TypeOK, ListInv, TimeInv
<1>4. TickerInv' /\ OnceInv' /\ RiskInv'
  BY <1>1, <1>2 DEF Inv, TickerInv, OnceInv, RiskInv
<1>5. NoLookahead'
  BY <1>1, SameLookahead DEF Inv
<1>6. FillPriceBounded' /\ MissedOnlyBehindAFill'
  BY <1>1 DEF Inv, FillPriceBounded, MissedOnlyBehindAFill
<1> QED BY <1>3, <1>4, <1>5, <1>6 DEF Inv

-----------------------------------------------------------------------------
(***************************************************************************)
(* A ticker of the exchange                                                *)
(***************************************************************************)

\* The fills of a list of orders.
LEMMA FillsOfIs ==
    ASSUME NEW list, NEW t, NEW at, NEW how
    PROVE  /\ \A f \in FillsOf(list, t, at, how) :
                 /\ f.order \in Range(list) /\ f.how = how /\ f.at = at /\ f.ticker = t
                 /\ f.price = IF f.order.side = "SELL" THEN f.ticker.bid ELSE f.ticker.ask
           /\ \A o \in Range(list) : \E f \in FillsOf(list, t, at, how) : f.order = o
           /\ \A f, g \in FillsOf(list, t, at, how) : f.order = g.order => f = g
<1> DEFINE Paid(o) == IF o.side = "SELL" THEN t.bid ELSE t.ask
           Fill(o) == [order |-> o, how |-> how, at |-> at, ticker |-> t, price |-> Paid(o)]
           F == FillsOf(list, t, at, how)
<1>1. F = {Fill(list[i]) : i \in DOMAIN list}
  BY DEF FillsOf
<1>2. \A o : /\ Fill(o).order = o /\ Fill(o).how = how /\ Fill(o).at = at
             /\ Fill(o).ticker = t /\ Fill(o).price = Paid(o)
  BY Zenon
<1>3. Range(list) = {list[i] : i \in DOMAIN list}
  BY DEF Range
<1> HIDE DEF F, Fill
<1>4. \A f \in F : f.order \in Range(list) /\ f = Fill(f.order)
  BY <1>1, <1>2, <1>3
<1>5. \A o \in Range(list) : Fill(o) \in F
  BY <1>1, <1>3
<1>6. \A f \in F : f.how = how /\ f.at = at /\ f.ticker = t /\ f.price = Paid(f.order)
  BY <1>2, <1>4
<1>7. \A f, g \in F : f.order = g.order => f = g
  BY <1>4
<1>8. \A o \in Range(list) : \E f \in F : f.order = o
  BY <1>2, <1>5
<1>9. \A f \in F : f.price = IF f.order.side = "SELL" THEN f.ticker.bid ELSE f.ticker.ask
  BY <1>6
<1> QED BY <1>4, <1>6, <1>7, <1>8, <1>9 DEF F

\* What a ticker fills, of the orders that were due and of those that rested.
Filling(new, dm, ex, fr, t, at) ==
    /\ \A f \in new :
          /\ f.at = at
          /\ f.price = IF f.order.side = "SELL" THEN f.ticker.bid ELSE f.ticker.ask
          /\ \/ f.how = "market" /\ f.order \in dm /\ f.ticker = ticker
             \/ f.how = "due" /\ f.order \in ex /\ f.ticker = t
             \/ f.how = "rested" /\ f.order \in fr /\ f.ticker = t
    /\ \A o \in dm \cup ex : \E f \in new : f.order = o
    /\ \A o \in fr : \E f \in new : f.order = o /\ f.how = "rested"
    /\ dm \cap (ex \cup fr) = {} /\ ex \cap fr = {}
           => \A f, g \in new : f.order = g.order => f = g

\* The fills of a ticker are those of the three lists.
LEMMA FillsOnIs ==
    ASSUME NEW t, NEW at
    PROVE  Filling(FillsOn(t, at), Range(DueMarket(at)), Range(ExecutedLimit(t, at)),
                   Range(FilledResting(t, at)), t, at)
<1> DEFINE D == FillsOf(DueMarket(at), ticker, at, "market")
           E == FillsOf(ExecutedLimit(t, at), t, at, "due")
           R == FillsOf(FilledResting(t, at), t, at, "rested")
           dm == Range(DueMarket(at))
           ex == Range(ExecutedLimit(t, at))
           fr == Range(FilledResting(t, at))
           new == FillsOn(t, at)
<1>1. new = D \cup E \cup R
  BY DEF FillsOn
<1>2. /\ \A f \in D : /\ f.order \in dm /\ f.how = "market" /\ f.at = at /\ f.ticker = ticker
                      /\ f.price = IF f.order.side = "SELL" THEN f.ticker.bid ELSE f.ticker.ask
      /\ \A o \in dm : \E f \in D : f.order = o
      /\ \A f, g \in D : f.order = g.order => f = g
  BY FillsOfIs
<1>3. /\ \A f \in E : /\ f.order \in ex /\ f.how = "due" /\ f.at = at /\ f.ticker = t
                      /\ f.price = IF f.order.side = "SELL" THEN f.ticker.bid ELSE f.ticker.ask
      /\ \A o \in ex : \E f \in E : f.order = o
      /\ \A f, g \in E : f.order = g.order => f = g
  BY FillsOfIs
<1>4. /\ \A f \in R : /\ f.order \in fr /\ f.how = "rested" /\ f.at = at /\ f.ticker = t
                      /\ f.price = IF f.order.side = "SELL" THEN f.ticker.bid ELSE f.ticker.ask
      /\ \A o \in fr : \E f \in R : f.order = o
      /\ \A f, g \in R : f.order = g.order => f = g
  BY FillsOfIs
<1> HIDE DEF D, E, R, dm, ex, fr, new
<1>5. ASSUME NEW f \in new
      PROVE  /\ f.at = at
             /\ f.price = IF f.order.side = "SELL" THEN f.ticker.bid ELSE f.ticker.ask
             /\ \/ f.how = "market" /\ f.order \in dm /\ f.ticker = ticker
                \/ f.how = "due" /\ f.order \in ex /\ f.ticker = t
                \/ f.how = "rested" /\ f.order \in fr /\ f.ticker = t
  <2>1. CASE f \in D
    BY <1>2, <2>1
  <2>2. CASE f \in E
    BY <1>3, <2>2
  <2>3. CASE f \in R
    BY <1>4, <2>3
  <2> QED BY <1>1, <2>1, <2>2, <2>3
<1>6. \A o \in dm \cup ex : \E f \in new : f.order = o
  BY <1>1, <1>2, <1>3
<1>7. \A o \in fr : \E f \in new : f.order = o /\ f.how = "rested"
  BY <1>1, <1>4
<1>8. ASSUME dm \cap (ex \cup fr) = {}, ex \cap fr = {},
             NEW f \in new, NEW g \in new, f.order = g.order
      PROVE  f = g
  <2>1. \A o : ~(o \in dm /\ o \in ex) /\ ~(o \in dm /\ o \in fr) /\ ~(o \in ex /\ o \in fr)
    BY <1>8
  <2>2. /\ f \in D => f.order \in dm
        /\ f \in E => f.order \in ex
        /\ f \in R => f.order \in fr
        /\ g \in D => g.order \in dm
        /\ g \in E => g.order \in ex
        /\ g \in R => g.order \in fr
    BY <1>2, <1>3, <1>4
  <2>3. \/ f \in D /\ g \in D
        \/ f \in E /\ g \in E
        \/ f \in R /\ g \in R
    BY <1>1, <1>8, <2>1, <2>2
  <2> QED BY <1>2, <1>3, <1>4, <1>8, <2>3
<1> QED BY <1>5, <1>6, <1>7, <1>8 DEF Filling, dm, ex, fr, new

\* The ticker as moves of orders from one set to another: of the pending ones, dm
\* and ex are executed, tr come to rest, and fr are filled of those that rest.
BookSets(dm, ex, tr, fr, t, at) ==
    /\ dm = Range(DueMarket(at)) /\ ex = Range(ExecutedLimit(t, at))
    /\ fr = Range(FilledResting(t, at))
    /\ dm = {o \in Range(pendingMarket) : IsPriced(o, at)}
    /\ ex = {o \in Range(pendingLimit) : IsDue(o, at) /\ CrossesMiddle(o, t)}
    /\ tr = {o \in Range(pendingLimit) : IsDue(o, at) /\ ~CrossesMiddle(o, t)}
    /\ fr \subseteq Range(resting) \cup tr
    /\ pendingMarket' \in Seq(Order) /\ pendingLimit' \in Seq(Order) /\ resting' \in Seq(Order)
    /\ Rising(pendingMarket') /\ Rising(pendingLimit') /\ Rising(resting')
    /\ Range(pendingMarket') = Range(pendingMarket) \ dm
    /\ Range(pendingLimit') = Range(pendingLimit) \ (ex \cup tr)
    /\ Range(resting') = (Range(resting) \cup tr) \ fr
    /\ \A o \in fr : IsReached(o, t)
    /\ \A o \in Range(resting') : IsReached(o, t) => \E p \in fr : p.id < o.id
    /\ fills' = fills \cup FillsOn(t, at)
    /\ Filling(FillsOn(t, at), dm, ex, fr, t, at)
    /\ updated' = at /\ ticker' = t /\ past' = Append(past, [ticker |-> t, at |-> at])
    /\ lastOrderId' = lastOrderId /\ refused' = refused /\ cancelled' = cancelled
    /\ program' = program

\* A ticker of the exchange moves orders between the lists as sets.
LEMMA BookSetsAre ==
    ASSUME Inv, NEW t \in Tickers, NEW at \in updated..MaxTime, BookTicker(t, at)
    PROVE  \E dm, ex, tr, fr : BookSets(dm, ex, tr, fr, t, at)
<1> DEFINE dm == Range(DueMarket(at))
           ex == Range(ExecutedLimit(t, at))
           fr == Range(FilledResting(t, at))
           tr == {o \in Range(pendingLimit) : IsDue(o, at) /\ ~CrossesMiddle(o, t)}
<1>1. Moves(t, at)
  BY MovesAre DEF Inv
<1>2. Filling(FillsOn(t, at), dm, ex, fr, t, at)
  BY FillsOnIs
<1>3. /\ pendingMarket' = StaysPendingMarket(at) /\ pendingLimit' = StaysPendingLimit(at)
      /\ resting' = StaysResting(t, at) /\ fills' = fills \cup FillsOn(t, at)
      /\ updated' = at /\ ticker' = t /\ past' = Append(past, [ticker |-> t, at |-> at])
      /\ lastOrderId' = lastOrderId /\ refused' = refused /\ cancelled' = cancelled
      /\ program' = program
  BY DEF BookTicker, OnBookTicker
<1>4. /\ dm = {o \in Range(pendingMarket) : IsPriced(o, at)}
      /\ ex = {o \in Range(pendingLimit) : IsDue(o, at) /\ CrossesMiddle(o, t)}
      /\ fr \subseteq Range(resting) \cup tr
      /\ \A o \in fr : IsReached(o, t)
  BY <1>1 DEF Moves
<1>5. /\ pendingMarket' \in Seq(Order) /\ pendingLimit' \in Seq(Order) /\ resting' \in Seq(Order)
      /\ Rising(pendingMarket') /\ Rising(pendingLimit') /\ Rising(resting')
  BY <1>1, <1>3 DEF Moves
<1>6. /\ Range(pendingMarket') = {o \in Range(pendingMarket) : ~IsPriced(o, at)}
      /\ Range(pendingLimit') = {o \in Range(pendingLimit) : ~IsDue(o, at)}
      /\ Range(resting') = (Range(resting) \cup tr) \ fr
      /\ \A o \in Range(resting') : IsReached(o, t) => \E p \in fr : p.id < o.id
  BY <1>1, <1>3 DEF Moves
<1> HIDE DEF dm, ex, fr
<1>7. /\ Range(pendingMarket') = Range(pendingMarket) \ dm
      /\ Range(pendingLimit') = Range(pendingLimit) \ (ex \cup tr)
  BY <1>4, <1>6
<1> HIDE DEF tr
<1>8. BookSets(dm, ex, tr, fr, t, at)
  BY <1>2, <1>3, <1>4, <1>5, <1>6, <1>7 DEF BookSets, dm, ex, tr, fr
<1> QED BY <1>8

\* The orders a ticker fills were open, each in one list.
LEMMA FilledWereOpen ==
    ASSUME OnceInv, NEW dm, NEW ex, NEW tr, NEW fr, NEW t, NEW at,
           BookSets(dm, ex, tr, fr, t, at)
    PROVE  /\ dm \cap (ex \cup fr) = {} /\ ex \cap fr = {} /\ ex \cap tr = {}
           /\ dm \cup ex \cup tr \cup fr \subseteq Open
           /\ Open' = Open \ (dm \cup ex \cup fr)
           /\ Filled' = Filled \cup dm \cup ex \cup fr
           /\ Made' = Made
<1>1. /\ dm \subseteq Range(pendingMarket) /\ ex \subseteq Range(pendingLimit)
      /\ tr \subseteq Range(pendingLimit) /\ ex \cap tr = {}
      /\ fr \subseteq Range(resting) \cup tr
  BY DEF BookSets
<1>2. /\ Range(pendingMarket) \cap Range(pendingLimit) = {}
      /\ Range(resting) \cap (Range(pendingMarket) \cup Range(pendingLimit)) = {}
  BY DEF OnceInv
<1>3. dm \cap (ex \cup fr) = {} /\ ex \cap fr = {}
  BY <1>1, <1>2
<1>4. dm \cup ex \cup tr \cup fr \subseteq Open
  BY <1>1 DEF Open
<1>5. Open' = Open \ (dm \cup ex \cup fr)
  <2>1. /\ Range(pendingMarket') = Range(pendingMarket) \ dm
        /\ Range(pendingLimit') = Range(pendingLimit) \ (ex \cup tr)
        /\ Range(resting') = (Range(resting) \cup tr) \ fr
    BY DEF BookSets
  <2>2. Open' = (Range(pendingMarket) \ dm) \cup (Range(pendingLimit) \ (ex \cup tr))
                    \cup ((Range(resting) \cup tr) \ fr)
    BY <2>1 DEF Open
  <2> QED BY <1>1, <1>2, <2>2 DEF Open
<1>6. Filled' = Filled \cup dm \cup ex \cup fr
  <2> DEFINE new == FillsOn(t, at)
  <2>1. fills' = fills \cup new
    BY DEF BookSets
  <2>2. Filling(new, dm, ex, fr, t, at)
    BY DEF BookSets
  <2> HIDE DEF new
  <2>3. \A f \in new : f.order \in dm \cup ex \cup fr
    BY <2>2 DEF Filling
  <2>4. \A o \in dm \cup ex \cup fr : \E f \in new : f.order = o
    BY <2>2 DEF Filling
  <2>5. {f.order : f \in new} = dm \cup ex \cup fr
    BY <2>3, <2>4
  <2>6. Filled' = {f.order : f \in fills'}
    BY DEF Filled
  <2>7. Filled' = Filled \cup {f.order : f \in new}
    BY <2>1, <2>6 DEF Filled
  <2> QED BY <2>5, <2>7
<1>7. Made' = Made
  <2>1. refused' = refused /\ cancelled' = cancelled
    BY DEF BookSets
  <2>2. Made' = Open' \cup Filled' \cup refused \cup cancelled
    BY <2>1 DEF Made
  <2>3. Open' \cup Filled' = Open \cup Filled
    BY <1>4, <1>5, <1>6
  <2> QED BY <2>2, <2>3 DEF Made
<1> QED BY <1>1, <1>3, <1>4, <1>5, <1>6, <1>7

\* What a ticker moves stays in one place, and what it fills is filled once.
LEMMA BookOnce ==
    ASSUME OnceInv, NEW dm, NEW ex, NEW tr, NEW fr, NEW t, NEW at,
           BookSets(dm, ex, tr, fr, t, at)
    PROVE  OnceInv'
<1>1. /\ dm \cap (ex \cup fr) = {} /\ ex \cap fr = {} /\ ex \cap tr = {}
      /\ dm \cup ex \cup tr \cup fr \subseteq Open
      /\ Open' = Open \ (dm \cup ex \cup fr)
      /\ Filled' = Filled \cup dm \cup ex \cup fr
      /\ Made' = Made
  BY FilledWereOpen
<1>2. lastOrderId' = lastOrderId /\ refused' = refused /\ cancelled' = cancelled
  BY DEF BookSets
<1>3. (\A o, p \in Made' : o.id = p.id => o = p) /\ Ids(Made') = 1..lastOrderId'
  BY <1>1, <1>2 DEF OnceInv
<1>4. /\ Range(pendingMarket') \cap Range(pendingLimit') = {}
      /\ Range(resting') \cap (Range(pendingMarket') \cup Range(pendingLimit')) = {}
  <2>1. /\ Range(pendingMarket') = Range(pendingMarket) \ dm
        /\ Range(pendingLimit') = Range(pendingLimit) \ (ex \cup tr)
        /\ Range(resting') = (Range(resting) \cup tr) \ fr
        /\ tr \subseteq Range(pendingLimit)
    BY DEF BookSets
  <2>2. /\ Range(pendingMarket) \cap Range(pendingLimit) = {}
        /\ Range(resting) \cap (Range(pendingMarket) \cup Range(pendingLimit)) = {}
    BY DEF OnceInv
  <2> QED BY <2>1, <2>2
<1>5. /\ Filled' \cap Open' = {}
      /\ refused' \cap (Open' \cup Filled') = {}
      /\ cancelled' \cap (Open' \cup Filled' \cup refused') = {}
  <2>1. /\ Filled \cap Open = {} /\ refused \cap (Open \cup Filled) = {}
        /\ cancelled \cap (Open \cup Filled \cup refused) = {}
    BY DEF OnceInv
  <2> QED BY <1>1, <1>2, <2>1
<1>6. ASSUME NEW f \in fills', NEW g \in fills', f.order = g.order PROVE f = g
  <2> DEFINE new == FillsOn(t, at)
  <2>1. fills' = fills \cup new /\ Filling(new, dm, ex, fr, t, at)
    BY DEF BookSets
  <2> HIDE DEF new
  <2>2. \A h \in new : h.order \in Open
    BY <1>1, <2>1 DEF Filling
  <2>3. \A h \in fills : h.order \notin Open
    BY DEF OnceInv, Filled
  <2>4. \A h, k \in new : h.order = k.order => h = k
    BY <1>1, <2>1 DEF Filling
  <2>5. \A h, k \in fills : h.order = k.order => h = k
    BY DEF OnceInv
  <2> QED BY <1>6, <2>1, <2>2, <2>3, <2>4, <2>5
<1> QED BY <1>3, <1>4, <1>5, <1>6 DEF OnceInv

\* A ticker is later than all before, and what comes to rest has arrived.
LEMMA BookTimes ==
    ASSUME TypeOK, TimeInv, TickerInv, OnceInv, NEW t \in Tickers, NEW at \in updated..MaxTime,
           NEW dm, NEW ex, NEW tr, NEW fr, BookSets(dm, ex, tr, fr, t, at)
    PROVE  TimeInv'
<1>1. updated \in Nat /\ at \in Nat /\ at \in 0..MaxTime /\ updated <= at
  BY EventTime
<1>2. updated' = at /\ past' = Append(past, [ticker |-> t, at |-> at])
  BY DEF BookSets
<1>3. \A o \in Open' : o.created <= at
  <2> SUFFICES ASSUME NEW o \in Open' PROVE o.created <= at
    OBVIOUS
  <2>1. o \in Open
    BY FilledWereOpen
  <2>2. o.created \in Nat /\ o.created <= updated
    BY <2>1, ListTypes, OrderIs DEF TimeInv
  <2> QED BY <1>1, <2>2
<1>4. \A o \in Range(resting') : IsDue(o, at)
  <2> SUFFICES ASSUME NEW o \in Range(resting') PROVE IsDue(o, at)
    OBVIOUS
  <2>1. o \in Range(resting) \/ o \in tr
    BY DEF BookSets
  <2>2. CASE o \in tr
    BY <2>2 DEF BookSets
  <2>3. CASE o \in Range(resting)
    <3>1. o \in Order /\ IsDue(o, updated)
      BY <2>3, ListTypes DEF TimeInv, Open
    <3> QED BY <1>1, <3>1, DueLater
  <2> QED BY <2>1, <2>2, <2>3
<1>5. \A f \in fills' : f.at <= at
  <2> SUFFICES ASSUME NEW f \in fills' PROVE f.at <= at
    OBVIOUS
  <2>1. f \in fills \/ f \in FillsOn(t, at)
    BY DEF BookSets
  <2>2. CASE f \in fills
    <3>1. f.at \in 0..MaxTime /\ f.at <= updated
      BY <2>2 DEF TypeOK, TimeInv
    <3> QED BY <1>1, <3>1
  <2>3. CASE f \in FillsOn(t, at)
    <3>1. f.at = at
      BY <2>3 DEF BookSets, Filling
    <3> QED BY <1>1, <3>1
  <2> QED BY <2>1, <2>2, <2>3
<1>6. past' \in Seq([ticker : Tickers, at : 0..MaxTime])
  <2> DEFINE P == [ticker : Tickers, at : 0..MaxTime]
             p == [ticker |-> t, at |-> at]
  <2>1. past \in Seq(P) /\ p \in P
    BY <1>1 DEF TimeInv
  <2>2. past' = Append(past, p)
    BY <1>2
  <2> HIDE DEF P, p
  <2>3. past' \in Seq(P)
    BY <2>1, <2>2
  <2> QED BY <2>3 DEF P
<1>7. \A p \in Range(past') : p.at <= at
  <2>1. DOMAIN past = 1..Len(past) /\ Len(past) \in Nat
    BY PastIs
  <2>2. /\ DOMAIN past' = 1..(Len(past) + 1)
        /\ \A i \in DOMAIN past : past'[i] = past[i]
        /\ past'[Len(past) + 1] = [ticker |-> t, at |-> at]
    BY <1>2, <2>1 DEF TimeInv
  <2> SUFFICES ASSUME NEW i \in DOMAIN past' PROVE past'[i].at <= at
    BY DEF Range
  <2>3. CASE i \in DOMAIN past
    <3>1. past[i].at \in Nat /\ past[i].at <= updated
      BY <2>3, PastIs
    <3> QED BY <1>1, <2>2, <2>3, <3>1
  <2>4. CASE i = Len(past) + 1
    <3>1. past'[i].at = at
      BY <2>2, <2>4
    <3> QED BY <1>1, <3>1
  <2> QED BY <2>1, <2>2, <2>3, <2>4
<1> QED BY <1>2, <1>3, <1>4, <1>5, <1>6, <1>7 DEF TimeInv

\* The tickers there were, and one more.
LEMMA PastGrows ==
    ASSUME TypeOK, TimeInv, NEW t, NEW at, past' = Append(past, [ticker |-> t, at |-> at])
    PROVE  /\ Len(past) \in Nat /\ Len(past') = Len(past) + 1
           /\ DOMAIN past = 1..Len(past) /\ DOMAIN past' = 1..(Len(past) + 1)
           /\ \A i \in DOMAIN past : past'[i] = past[i]
           /\ past'[Len(past) + 1].ticker = t /\ past'[Len(past) + 1].at = at
<1> DEFINE p == [ticker |-> t, at |-> at]
           P == [ticker : Tickers, at : 0..MaxTime]
<1>1. p.ticker = t /\ p.at = at
  OBVIOUS
<1>2. past \in Seq(P) /\ past' = Append(past, p)
  BY DEF TimeInv
<1> HIDE DEF p, P
<1>3. /\ Len(past) \in Nat /\ Len(past') = Len(past) + 1
      /\ DOMAIN past = 1..Len(past) /\ DOMAIN past' = 1..(Len(past) + 1)
      /\ \A i \in DOMAIN past : past'[i] = past[i]
      /\ past'[Len(past) + 1] = p
  BY <1>2
<1> QED BY <1>1, <1>3

\* The exchange keeps the ticker.
LEMMA BookTickerIs ==
    ASSUME TypeOK, TimeInv, NEW t \in Tickers, NEW at, NEW dm, NEW ex, NEW tr, NEW fr,
           BookSets(dm, ex, tr, fr, t, at)
    PROVE  TickerInv'
<1>1. ticker' = t /\ past' = Append(past, [ticker |-> t, at |-> at])
  BY DEF BookSets
<1>2. Len(past') = Len(past) + 1 /\ Len(past) \in Nat /\ past'[Len(past) + 1].ticker = t
  BY <1>1, PastGrows
<1>3. past' # <<>>
  <2>1. Len(past') # 0
    BY <1>2
  <2> QED BY <2>1
<1>4. ticker' = IF past' = <<>> THEN NoTicker ELSE past'[Len(past')].ticker
  BY <1>1, <1>2, <1>3
<1> QED BY <1>4 DEF TickerInv

\* The orders are in the order of their creation still: the due limit orders were
\* the oldest ones, as those that are not due were made later.
LEMMA BookLists ==
    ASSUME TypeOK, ListInv, OnceInv, NEW t \in Tickers, NEW at \in updated..MaxTime,
           NEW dm, NEW ex, NEW tr, NEW fr, BookSets(dm, ex, tr, fr, t, at), Rising(orders')
    PROVE  ListInv'
<1>1. updated \in Nat /\ at \in Nat
  BY EventTime
<1>2. Rising(pendingMarket') /\ Rising(pendingLimit') /\ Rising(resting')
  BY DEF BookSets
<1>3. ASSUME NEW o \in Range(resting'), NEW p \in Range(pendingLimit') PROVE o.id < p.id
  <2>1. o \in Range(resting) \/ o \in tr
    BY DEF BookSets
  <2>2. p \in Range(pendingLimit) /\ p \notin ex /\ p \notin tr
    BY DEF BookSets
  <2>3. CASE o \in Range(resting)
    BY <2>2, <2>3 DEF ListInv
  <2>4. CASE o \in tr
    <3>1. o \in Range(pendingLimit) /\ IsDue(o, at)
      BY <2>4 DEF BookSets
    <3>2. ~IsDue(p, at)
      BY <2>2 DEF BookSets
    <3>3. o \in Order /\ p \in Order
      BY <2>2, <3>1, ListTypes DEF Open
    <3>4. /\ o.created \in Nat /\ p.created \in Nat /\ o.id \in Nat /\ p.id \in Nat
          /\ Latency \in Nat
      BY <3>3, OrderIs, Constants
    <3>5. o.created < p.created
      BY <1>1, <3>1, <3>2, <3>4 DEF IsDue
    <3>6. ~(p.id < o.id)
      <4>1. p.id < o.id => p.created <= o.created
        BY <2>2, <3>1 DEF ListInv
      <4> QED BY <3>4, <3>5, <4>1
    <3>7. p.id # o.id
      <4>1. o \in Made /\ p \in Made
        BY <2>2, <3>1 DEF Made, Open
      <4>2. o.id = p.id => o = p
        BY <4>1 DEF OnceInv
      <4> QED BY <2>2, <2>4, <4>2
    <3> QED BY <3>4, <3>6, <3>7
  <2> QED BY <2>1, <2>3, <2>4
<1>4. ASSUME NEW o \in Range(pendingLimit'), NEW p \in Range(pendingLimit'), o.id < p.id
      PROVE  o.created <= p.created
  <2>1. o \in Range(pendingLimit) /\ p \in Range(pendingLimit)
    BY DEF BookSets
  <2> QED BY <1>4, <2>1 DEF ListInv
<1> QED BY <1>2, <1>3, <1>4 DEF ListInv

\* A due limit order crosses the middle, a resting one is reached: so far is the price from
\* the limit.
LEMMA BookPrices ==
    ASSUME TypeOK, OnceInv, FillPriceBounded, NEW t \in Tickers, NEW at,
           NEW dm, NEW ex, NEW tr, NEW fr, BookSets(dm, ex, tr, fr, t, at)
    PROVE  FillPriceBounded'
<1> DEFINE Worse(f) == IF f.order.side = "SELL" THEN f.order.price - f.price
                                                ELSE f.price - f.order.price
<1>1. ASSUME NEW f \in FillsOn(t, at)
      PROVE  /\ f.how = "rested" => Worse(f) <= 0
             /\ f.how = "due" => 2 * Worse(f) <= f.ticker.ask - f.ticker.bid
  <2>1. /\ f.price = IF f.order.side = "SELL" THEN f.ticker.bid ELSE f.ticker.ask
        /\ \/ f.how = "market" /\ f.order \in dm /\ f.ticker = ticker
           \/ f.how = "due" /\ f.order \in ex /\ f.ticker = t
           \/ f.how = "rested" /\ f.order \in fr /\ f.ticker = t
    BY DEF BookSets, Filling
  <2>2. t.bid \in Nat /\ t.ask \in Nat
    BY Constants
  <2>3. f.how = "rested" \/ f.how = "due" => f.order.price \in Nat
    <3>1. f.how = "rested" \/ f.how = "due" => f.order \in Open
      BY <2>1, FilledWereOpen
    <3> QED BY <3>1, ListTypes, OrderIs
  <2>4. CASE f.how = "rested"
    <3>1. IsReached(f.order, t) /\ f.ticker = t
      BY <2>1, <2>4 DEF BookSets
    <3> QED BY <2>1, <2>2, <2>3, <2>4, <3>1 DEF IsReached
  <2>5. CASE f.how = "due"
    <3>1. CrossesMiddle(f.order, t) /\ f.ticker = t
      BY <2>1, <2>5 DEF BookSets
    <3> QED BY <2>1, <2>2, <2>3, <2>5, <3>1 DEF CrossesMiddle
  <2> QED BY <2>4, <2>5
<1>2. ASSUME NEW f \in fills
      PROVE  /\ f.how = "rested" => Worse(f) <= 0
             /\ f.how = "due" => 2 * Worse(f) <= f.ticker.ask - f.ticker.bid
  BY DEF FillPriceBounded
<1>3. fills' = fills \cup FillsOn(t, at)
  BY DEF BookSets
<1> QED BY <1>1, <1>2, <1>3 DEF FillPriceBounded

\* What is reached and stays is behind an order of this ticker's fills.
LEMMA BookMissed ==
    ASSUME TypeOK, TimeInv, NEW t \in Tickers, NEW at,
           NEW dm, NEW ex, NEW tr, NEW fr, BookSets(dm, ex, tr, fr, t, at)
    PROVE  MissedOnlyBehindAFill'
<1>1. ticker' = t /\ past' = Append(past, [ticker |-> t, at |-> at])
      /\ fills' = fills \cup FillsOn(t, at)
  BY DEF BookSets
<1>2. Last(past').at = at
  BY <1>1, PastGrows DEF Last
<1>3. ASSUME NEW o \in Range(resting'), IsReached(o, ticker')
      PROVE  \E f \in fills' : /\ f.how = "rested" /\ f.order.id < o.id
                               /\ f.at = Last(past').at /\ f.ticker = ticker'
  <2>1. PICK p \in fr : p.id < o.id
    BY <1>1, <1>3 DEF BookSets
  <2>2. PICK f \in FillsOn(t, at) : f.order = p /\ f.how = "rested"
    BY DEF BookSets, Filling
  <2>3. f.at = at /\ f.ticker = t
    BY <2>2 DEF BookSets, Filling
  <2> QED BY <1>1, <1>2, <2>1, <2>2, <2>3
<1> QED BY <1>3 DEF MissedOnlyBehindAFill

\* A ticker that comes after an order's arrival does not count for it.
LEMMA KnownStays ==
    ASSUME TypeOK, TimeInv, NEW t, NEW at \in Nat, NEW order \in Order, IsDue(order, at),
           past' = Append(past, [ticker |-> t, at |-> at])
    PROVE  KnownBefore(order)' = KnownBefore(order)
<1>1. /\ Len(past) \in Nat /\ DOMAIN past = 1..Len(past) /\ DOMAIN past' = 1..(Len(past) + 1)
      /\ \A i \in DOMAIN past : past'[i] = past[i]
      /\ past'[Len(past) + 1].at = at
  BY PastGrows
<1>2. ~(at <= order.created + Latency)
  BY OrderIs, Constants DEF IsDue
<1>3. {i \in DOMAIN past' : past'[i].at <= order.created + Latency}
          = {i \in DOMAIN past : past[i].at <= order.created + Latency}
  <2>1. \A i : i \in DOMAIN past' <=> i \in DOMAIN past \/ i = Len(past) + 1
    BY <1>1
  <2> QED BY <1>1, <1>2, <2>1
<1> QED BY <1>3 DEF KnownBefore

\* All tickers there were came before the arrival of an order that was pending.
LEMMA KnownAll ==
    ASSUME TypeOK, TimeInv, NEW order \in Order, \A p \in Range(past) : ~IsDue(order, p.at)
    PROVE  KnownBefore(order) = Len(past)
<1>1. Len(past) \in Nat /\ DOMAIN past = 1..Len(past)
  BY PastIs
<1>2. \A i \in DOMAIN past : past[i].at <= order.created + Latency
  <2> SUFFICES ASSUME NEW i \in DOMAIN past PROVE past[i].at <= order.created + Latency
    OBVIOUS
  <2>1. past[i] \in Range(past) /\ past[i].at \in Nat
    BY PastIs DEF Range
  <2>2. ~(order.created + Latency < past[i].at)
    BY <2>1 DEF IsDue
  <2>3. order.created \in Nat /\ Latency \in Nat
    BY OrderIs, Constants
  <2> QED BY <2>1, <2>2, <2>3
<1>3. {i \in DOMAIN past : past[i].at <= order.created + Latency} = 1..Len(past)
  BY <1>1, <1>2
<1>4. Cardinality(1..Len(past)) = Len(past)
  <2>1. Cardinality(1..Len(past)) = IF 1 > Len(past) THEN 0 ELSE Len(past) - 1 + 1
    BY <1>1, FS_Interval
  <2> QED BY <1>1, <2>1
<1> QED BY <1>3, <1>4 DEF KnownBefore

\* A market order the first ticker found has been due since then.
LEMMA KnownNone ==
    ASSUME TypeOK, TimeInv, NEW order \in Order, Len(past) = 1, NEW p \in Range(past), IsDue(order, p.at)
    PROVE  KnownBefore(order) = 0
<1>1. DOMAIN past = 1..1 /\ p \in {past[i] : i \in DOMAIN past}
  BY PastIs DEF Range
<1>2. \A i \in DOMAIN past : past[i] = p
  BY <1>1
<1>3. ~(p.at <= order.created + Latency)
  BY OrderIs, Constants, PastIs DEF IsDue
<1>4. {i \in DOMAIN past : past[i].at <= order.created + Latency} = {}
  BY <1>2, <1>3
<1> QED BY <1>4, FS_EmptySet DEF KnownBefore

\* A market order is filled at the last ticker before its arrival, or at the first of
\* all, a limit order at one after it.
LEMMA BookLookahead ==
    ASSUME TypeOK, TimeInv, TickerInv, OnceInv, NoLookahead,
           NEW t \in Tickers, NEW at \in updated..MaxTime,
           NEW dm, NEW ex, NEW tr, NEW fr, BookSets(dm, ex, tr, fr, t, at)
    PROVE  NoLookahead'
<1>1. updated \in Nat /\ at \in Nat /\ updated <= at
  BY EventTime
<1>2. past' = Append(past, [ticker |-> t, at |-> at])
  BY DEF BookSets
<1>3. /\ Len(past) \in Nat /\ Len(past') = Len(past) + 1
      /\ DOMAIN past = 1..Len(past) /\ DOMAIN past' = 1..(Len(past) + 1)
      /\ \A i \in DOMAIN past : past'[i] = past[i]
      /\ past'[Len(past) + 1].ticker = t /\ past'[Len(past) + 1].at = at
  BY <1>2, PastGrows
<1>4. \A n, u : IsTicker(n, u) => n \in DOMAIN past' /\ past'[n].ticker = u
  BY <1>3 DEF IsTicker
<1>5. ASSUME NEW f \in fills
      PROVE  /\ IsDue(f.order, f.at)
             /\ f.how = "market" => IsTicker(MarketTicker(f.order), f.ticker)'
             /\ f.how = "due" => IsTicker(KnownBefore(f.order) + 1, f.ticker)'
  <2>1. /\ IsDue(f.order, f.at)
        /\ f.how = "market" => IsTicker(MarketTicker(f.order), f.ticker)
        /\ f.how = "due" => IsTicker(KnownBefore(f.order) + 1, f.ticker)
    BY DEF NoLookahead
  <2>2. f.order \in Order /\ f.at \in Nat /\ f.at <= updated
    <3>1. f.order \in Order /\ f.at \in 0..MaxTime
      BY DEF TypeOK
    <3>2. f.at <= updated
      BY DEF TimeInv
    <3>3. f.at \in Nat
      BY <3>1, Constants
    <3> QED BY <3>1, <3>2, <3>3
  <2>3. f.at <= at
    BY <1>1, <2>2
  <2>4. IsDue(f.order, at)
    BY <1>1, <2>1, <2>2, <2>3, DueLater
  <2>5. KnownBefore(f.order)' = KnownBefore(f.order)
    BY <1>1, <1>2, <2>2, <2>4, KnownStays
  <2> DEFINE n == KnownBefore(f.order)
             k == MarketTicker(f.order)
  <2>6. k' = k
    BY <2>5 DEF MarketTicker
  <2>7. f.how = "market" => k \in DOMAIN past' /\ past'[k].ticker = f.ticker
    BY <1>4, <2>1
  <2>8. f.how = "due" => n + 1 \in DOMAIN past' /\ past'[n + 1].ticker = f.ticker
    BY <1>4, <2>1
  <2> QED BY <2>1, <2>5, <2>7, <2>8, <2>6 DEF IsTicker
<1>6. ASSUME NEW o \in ex
      PROVE  IsDue(o, at) /\ KnownBefore(o)' = Len(past)
  <2>1. o \in Range(pendingLimit) /\ IsDue(o, at)
    BY DEF BookSets
  <2>2. o \in Order
    BY <2>1, ListTypes DEF Open
  <2>3. KnownBefore(o) = Len(past)
    BY <2>1, <2>2, KnownAll DEF NoLookahead
  <2>4. KnownBefore(o)' = KnownBefore(o)
    BY <1>1, <1>2, <2>1, <2>2, KnownStays
  <2> QED BY <2>1, <2>3, <2>4
<1>7. ASSUME NEW o \in dm
       PROVE  IsDue(o, at) /\ ticker # NoTicker /\ MarketTicker(o)' = Len(past)
  <2>1. o \in Range(pendingMarket) /\ IsDue(o, at) /\ ticker # NoTicker
    BY DEF BookSets, IsPriced
  <2>2. o \in Order
    BY <2>1, ListTypes DEF Open
  <2>3. KnownBefore(o)' = KnownBefore(o)
    BY <1>1, <1>2, <2>1, <2>2, KnownStays
  <2>4. MarketTicker(o) = Len(past)
    <3>1. CASE \A p \in Range(past) : ~IsDue(o, p.at)
      <4>1. KnownBefore(o) = Len(past)
        BY <2>2, <3>1, KnownAll
      <4>2. Len(past) # 0
        BY <2>1 DEF TickerInv, TimeInv
      <4> QED BY <4>1, <4>2 DEF MarketTicker
    <3>2. CASE \E p \in Range(past) : IsDue(o, p.at)
      <4>1. Len(past) = 1
        BY <2>1, <3>2 DEF NoLookahead
      <4>2. KnownBefore(o) = 0
        BY <2>2, <3>2, <4>1, KnownNone
      <4> QED BY <4>1, <4>2 DEF MarketTicker
    <3> QED BY <3>1, <3>2
  <2> QED BY <2>1, <2>3, <2>4 DEF MarketTicker
<1>8. ASSUME NEW f \in FillsOn(t, at)
      PROVE  /\ IsDue(f.order, f.at)
             /\ f.how = "market" => IsTicker(MarketTicker(f.order), f.ticker)'
             /\ f.how = "due" => IsTicker(KnownBefore(f.order) + 1, f.ticker)'
  <2>1. /\ f.at = at
        /\ \/ f.how = "market" /\ f.order \in dm /\ f.ticker = ticker
           \/ f.how = "due" /\ f.order \in ex /\ f.ticker = t
           \/ f.how = "rested" /\ f.order \in fr /\ f.ticker = t
    BY DEF BookSets, Filling
  <2>2. CASE f.how = "market"
    <3>1. f.order \in dm /\ f.ticker = ticker
      BY <2>1, <2>2
    <3>2. IsDue(f.order, at) /\ ticker # NoTicker /\ MarketTicker(f.order)' = Len(past)
      BY <1>7, <3>1
    <3>3. past # <<>> /\ ticker = past[Len(past)].ticker
      BY <3>2 DEF TickerInv
    <3>4. Len(past) \in DOMAIN past /\ Len(past) \in DOMAIN past'
      <4>1. Len(past) # 0
        BY <3>3 DEF TimeInv
      <4> QED BY <1>3, <4>1
    <3>5. past'[Len(past)].ticker = ticker
      BY <1>3, <3>3, <3>4
    <3>6. IsTicker(MarketTicker(f.order), f.ticker)'
      BY <3>1, <3>2, <3>4, <3>5 DEF IsTicker
    <3> QED BY <2>1, <2>2, <3>2, <3>6
  <2>3. CASE f.how = "due"
    <3>1. f.order \in ex /\ f.ticker = t
      BY <2>1, <2>3
    <3>2. IsDue(f.order, at) /\ KnownBefore(f.order)' = Len(past)
      BY <1>6, <3>1
    <3>3. Len(past) + 1 \in DOMAIN past'
      BY <1>3
    <3>4. IsTicker(KnownBefore(f.order) + 1, f.ticker)'
      BY <1>3, <3>1, <3>2, <3>3 DEF IsTicker
    <3> QED BY <2>1, <2>3, <3>2, <3>4
  <2>4. CASE f.how = "rested"
    <3>1. f.order \in Range(resting) \/ f.order \in tr
      BY <2>1, <2>4 DEF BookSets
    <3>2. CASE f.order \in tr
      BY <2>1, <2>4, <3>2 DEF BookSets
    <3>3. CASE f.order \in Range(resting)
      <4>1. f.order \in Order /\ IsDue(f.order, updated)
        BY <3>3, ListTypes DEF TimeInv, Open
      <4>2. IsDue(f.order, at)
        BY <1>1, <4>1, DueLater
      <4> QED BY <2>1, <2>4, <4>2
    <3> QED BY <3>1, <3>2, <3>3
  <2> QED BY <2>1, <2>2, <2>3, <2>4
<1>9. ASSUME NEW o \in Range(pendingLimit'), NEW p \in Range(past')
      PROVE  ~IsDue(o, p.at)
  <2>1. o \in Range(pendingLimit) /\ ~IsDue(o, at)
    BY DEF BookSets
  <2>2. PICK i \in DOMAIN past' : p = past'[i]
    BY DEF Range
  <2>3. CASE i \in DOMAIN past
    <3>1. p = past[i] /\ past[i] \in Range(past)
      BY <1>3, <2>2, <2>3 DEF Range
    <3> QED BY <2>1, <3>1 DEF NoLookahead
  <2>4. CASE i = Len(past) + 1
    BY <1>3, <2>1, <2>2, <2>4
  <2> QED BY <1>3, <2>2, <2>3, <2>4
<1>10. ASSUME NEW o \in Range(pendingMarket'), NEW p \in Range(past'), IsDue(o, p.at)
       PROVE  Len(past') = 1
  <2>1. o \in Range(pendingMarket) /\ ~IsPriced(o, at)
    BY DEF BookSets
  <2>2. CASE ticker = NoTicker
    <3>1. past = <<>>
      <4>1. past # <<>> => past[Len(past)].ticker \in Tickers
        <5>1. past # <<>> => Len(past) # 0
          BY DEF TimeInv
        <5>2. Len(past) # 0 => Len(past) \in DOMAIN past
          BY <1>3
        <5> QED BY <5>1, <5>2, PastIs
      <4> QED BY <2>2, <4>1, Constants DEF TickerInv
    <3>2. Len(past) = 0
      BY <3>1
    <3> QED BY <1>3, <3>2
  <2>3. CASE ticker # NoTicker
    <3>1. o \in Order /\ ~IsDue(o, at)
      BY <2>1, <2>3, ListTypes DEF IsPriced, Open
    <3>2. PICK i \in DOMAIN past' : p = past'[i]
      BY DEF Range
    <3>3. p.at \in Nat /\ p.at <= at
      <4>1. CASE i \in DOMAIN past
        <5>1. past[i].at \in Nat /\ past[i].at <= updated
          BY <4>1, PastIs
        <5> QED BY <1>1, <1>3, <3>2, <4>1, <5>1
      <4>2. CASE i = Len(past) + 1
        BY <1>1, <1>3, <3>2, <4>2
      <4> QED BY <1>3, <3>2, <4>1, <4>2
    <3> QED BY <1>1, <1>10, <3>1, <3>3, DueLater
  <2> QED BY <2>2, <2>3
<1>11. \A f \in fills' : f \in fills \/ f \in FillsOn(t, at)
  BY DEF BookSets
<1>12. \A f \in fills' :
          /\ IsDue(f.order, f.at)
          /\ f.how = "market" => IsTicker(MarketTicker(f.order), f.ticker)'
          /\ f.how = "due" => IsTicker(KnownBefore(f.order) + 1, f.ticker)'
  BY <1>5, <1>8, <1>11
<1> QED BY <1>9, <1>10, <1>12 DEF NoLookahead

OfSide(S, side) == {o \in S : o.side = side}

\* A set of orders in three parts, by their side.
LEMMA ThreeParts ==
    ASSUME NEW A, NEW B, NEW C, IsFiniteSet(A), IsFiniteSet(B), IsFiniteSet(C),
           A \cap (B \cup C) = {}, B \cap C = {}, NEW side
    PROVE  /\ Cardinality(OfSide(A \cup B \cup C, side))
                  = Cardinality(OfSide(A, side))
                    + Cardinality(OfSide(B, side))
                    + Cardinality(OfSide(C, side))
           /\ Cardinality(OfSide(A, side)) \in Nat
           /\ Cardinality(OfSide(B, side)) \in Nat
           /\ Cardinality(OfSide(C, side)) \in Nat
<1> DEFINE a == OfSide(A, side)
           b == OfSide(B, side)
           c == OfSide(C, side)
           all == OfSide(A \cup B \cup C, side)
<1>1. /\ a \in SUBSET A /\ b \in SUBSET B /\ c \in SUBSET C
      /\ all = (a \cup b) \cup c
      /\ a \cap b = {} /\ (a \cup b) \cap c = {}
  BY DEF OfSide
<1> HIDE DEF a, b, c, all
<1>2. IsFiniteSet(a) /\ IsFiniteSet(b) /\ IsFiniteSet(c)
  BY <1>1, FS_Subset
<1>3. Cardinality({}) = 0
  BY FS_EmptySet
<1>4. /\ IsFiniteSet(a \cup b)
      /\ Cardinality(a \cup b) = Cardinality(a) + Cardinality(b) - Cardinality(a \cap b)
  BY <1>2, FS_Union
<1>5. Cardinality((a \cup b) \cup c)
          = Cardinality(a \cup b) + Cardinality(c) - Cardinality((a \cup b) \cap c)
  BY <1>2, <1>4, FS_Union
<1>6. Cardinality(a) \in Nat /\ Cardinality(b) \in Nat /\ Cardinality(c) \in Nat
  BY <1>2, FS_CardinalityType
<1>7. Cardinality(a \cup b) = Cardinality(a) + Cardinality(b)
  <2>1. Cardinality(a \cap b) = 0
    BY <1>1, <1>3, Zenon
  <2> QED BY <1>4, <1>6, <2>1
<1>8. Cardinality(all) = Cardinality(a) + Cardinality(b) + Cardinality(c)
  <2>1. Cardinality((a \cup b) \cap c) = 0
    BY <1>1, <1>3, Zenon
  <2>2. Cardinality((a \cup b) \cup c) = Cardinality(a) + Cardinality(b) + Cardinality(c)
    BY <1>5, <1>6, <1>7, <2>1
  <2> QED BY <1>1, <2>2, Zenon
<1> QED BY <1>6, <1>8 DEF a, b, c, all

\* The lists a ticker fills, counted by their side.
FilledCount(t, at, side) ==
    Count(DueMarket(at), side) + Count(ExecutedLimit(t, at), side)
        + Count(FilledResting(t, at), side)

\* The fills of the three lists, counted by side.
LEMMA FilledCounts ==
    ASSUME Inv, NEW t, NEW at, NEW dm, NEW ex, NEW tr, NEW fr,
           BookSets(dm, ex, tr, fr, t, at), NEW side
    PROVE  /\ Cardinality(OfSide(dm \cup ex \cup fr, side)) = FilledCount(t, at, side)
           /\ Count(DueMarket(at), side) \in Nat /\ Count(ExecutedLimit(t, at), side) \in Nat
           /\ Count(FilledResting(t, at), side) \in Nat
<1>1. Moves(t, at)
  BY MovesAre DEF Inv
<1>2. /\ dm = Range(DueMarket(at)) /\ ex = Range(ExecutedLimit(t, at))
      /\ fr = Range(FilledResting(t, at))
  BY DEF BookSets
<1>3. /\ DueMarket(at) \in Seq(Order) /\ Rising(DueMarket(at))
      /\ ExecutedLimit(t, at) \in Seq(Order) /\ Rising(ExecutedLimit(t, at))
      /\ FilledResting(t, at) \in Seq(Order) /\ Rising(FilledResting(t, at))
  BY <1>1 DEF Moves
<1>4. \A o \in Order : o.id \in Nat
  BY OrderIs
<1>5. IsFiniteSet(dm) /\ Count(DueMarket(at), side) = Cardinality(OfSide(dm, side))
  BY <1>2, <1>3, <1>4, ListSize DEF OfSide
<1>6. /\ IsFiniteSet(ex)
      /\ Count(ExecutedLimit(t, at), side) = Cardinality(OfSide(ex, side))
  BY <1>2, <1>3, <1>4, ListSize DEF OfSide
<1>7. /\ IsFiniteSet(fr)
      /\ Count(FilledResting(t, at), side) = Cardinality(OfSide(fr, side))
  BY <1>2, <1>3, <1>4, ListSize DEF OfSide
<1>8. dm \cap (ex \cup fr) = {} /\ ex \cap fr = {}
  BY FilledWereOpen DEF Inv
<1>9. /\ Cardinality(OfSide(dm \cup ex \cup fr, side))
             = Cardinality(OfSide(dm, side)) + Cardinality(OfSide(ex, side))
               + Cardinality(OfSide(fr, side))
      /\ Cardinality(OfSide(dm, side)) \in Nat
      /\ Cardinality(OfSide(ex, side)) \in Nat
      /\ Cardinality(OfSide(fr, side)) \in Nat
  <2>1. IsFiniteSet(dm) /\ IsFiniteSet(ex) /\ IsFiniteSet(fr)
    BY <1>5, <1>6, <1>7
  <2> QED BY <1>8, <2>1, ThreeParts
<1> QED BY <1>5, <1>6, <1>7, <1>9 DEF FilledCount

\* What the fills do to the balance of the base asset.
LEMMA BaseMoves ==
    ASSUME Inv, NEW t, NEW at, NEW dm, NEW ex, NEW tr, NEW fr,
           BookSets(dm, ex, tr, fr, t, at)
    PROVE  /\ BaseDelta(DueMarket(at)) + BaseDelta(ExecutedLimit(t, at))
                  + BaseDelta(FilledResting(t, at))
                  = Qty * (FilledCount(t, at, "BUY") - FilledCount(t, at, "SELL"))
           /\ BaseDelta(DueMarket(at)) \in Int /\ BaseDelta(ExecutedLimit(t, at)) \in Int
           /\ BaseDelta(FilledResting(t, at)) \in Int
<1> DEFINE a(side) == Count(DueMarket(at), side)
           b(side) == Count(ExecutedLimit(t, at), side)
           c(side) == Count(FilledResting(t, at), side)
<1>1. \A side : a(side) \in Nat /\ b(side) \in Nat /\ c(side) \in Nat
  BY FilledCounts
<1>2. Qty \in Int
  BY Constants
<1>3. \A side : FilledCount(t, at, side) = a(side) + b(side) + c(side)
  BY DEF FilledCount
<1>4. /\ BaseDelta(DueMarket(at)) = Qty * (a("BUY") - a("SELL"))
      /\ BaseDelta(ExecutedLimit(t, at)) = Qty * (b("BUY") - b("SELL"))
      /\ BaseDelta(FilledResting(t, at)) = Qty * (c("BUY") - c("SELL"))
  BY DEF BaseDelta
<1> HIDE DEF a, b, c
<1>5. \A q, x, y, z \in Int : q * x + q * y + q * z = q * (x + y + z)
  OBVIOUS
<1>6. \A q, x \in Int : q * x \in Int
  OBVIOUS
<1>7. /\ a("BUY") \in Int /\ b("BUY") \in Int /\ c("BUY") \in Int
      /\ a("SELL") \in Int /\ b("SELL") \in Int /\ c("SELL") \in Int
  BY <1>1
<1> DEFINE x == a("BUY") - a("SELL")
           y == b("BUY") - b("SELL")
           z == c("BUY") - c("SELL")
<1>8. /\ x \in Int /\ y \in Int /\ z \in Int
      /\ x + y + z = FilledCount(t, at, "BUY") - FilledCount(t, at, "SELL")
  BY <1>3, <1>7
<1> HIDE DEF x, y, z
<1>9. Qty * x + Qty * y + Qty * z = Qty * (x + y + z)
  BY <1>2, <1>5, <1>8
<1>10. Qty * x \in Int /\ Qty * y \in Int /\ Qty * z \in Int
  BY <1>2, <1>6, <1>8
<1>11. /\ BaseDelta(DueMarket(at)) = Qty * x /\ BaseDelta(ExecutedLimit(t, at)) = Qty * y
       /\ BaseDelta(FilledResting(t, at)) = Qty * z
  BY <1>4 DEF x, y, z
<1> QED BY <1>8, <1>9, <1>10, <1>11

\* The orders of the risk manager: those filled are taken out.
LEMMA BookOrders ==
    ASSUME Inv, NEW t, NEW at, NEW dm, NEW ex, NEW tr, NEW fr,
           BookSets(dm, ex, tr, fr, t, at), BookTicker(t, at)
    PROVE  /\ orders' \in Seq(Order) /\ Rising(orders')
           /\ program = "market making" =>
                 /\ Range(orders') = Range(orders) \ (dm \cup ex \cup fr)
                 /\ tradingBalance' = tradingBalance + Qty *
                        (FilledCount(t, at, "BUY") - FilledCount(t, at, "SELL"))
           /\ program # "market making" =>
                 bookTicker' = bookTicker /\ tradingBalance' = tradingBalance
<1>1. orders \in Seq(Order) /\ Rising(orders) /\ DOMAIN orders = 1..Len(orders)
  BY ListTypes DEF Inv, ListInv
<1>2. CASE program # "market making"
  BY <1>1, <1>2 DEF BookTicker, riskVars
<1>3. CASE program = "market making"
  <2> DEFINE new == FillsOn(t, at)
             mine == {o \in Range(orders) : \E f \in new : f.order.id = o.id}
             I == {i \in DOMAIN orders : orders[i] \notin mine}
             Of(side) == Cardinality({o \in mine : o.side = side})
  <2>1. /\ orders' = OrdersAt(orders, I)
        /\ tradingBalance' = tradingBalance + Qty * (Of("BUY") - Of("SELL"))
    BY <1>3 DEF BookTicker, OnOrderUpdates
  <2>2. Filling(new, dm, ex, fr, t, at) /\ dm \cup ex \cup fr \subseteq Open
    <3>1. OnceInv
      BY DEF Inv
    <3>2. dm \cup ex \cup tr \cup fr \subseteq Open
      BY <3>1, FilledWereOpen
    <3>3. Filling(new, dm, ex, fr, t, at)
      BY DEF BookSets
    <3> HIDE DEF new
    <3> QED BY <3>2, <3>3
  <2>3. Range(orders) = Open \cup refused
    BY <1>3 DEF Inv, RiskInv
  <2>4. I \in SUBSET (1..Len(orders)) /\ \A i : i \in I <=> i \in DOMAIN orders /\ orders[i] \notin mine
    BY <1>1
  <2> HIDE DEF new, I
  <2>5. mine = dm \cup ex \cup fr
    <3>1. \A f \in new : f.order \in dm \cup ex \cup fr
      BY <2>2 DEF Filling
    <3>2. \A o \in dm \cup ex \cup fr : \E f \in new : f.order = o
      BY <2>2 DEF Filling
    <3>3. \A o, p \in Made : o.id = p.id => o = p
      BY DEF Inv, OnceInv
    <3>4. Range(orders) \subseteq Made /\ Open \subseteq Made
      BY <2>3 DEF Made
    <3>5. ASSUME NEW o \in mine PROVE o \in dm \cup ex \cup fr
      <4>1. PICK f \in new : f.order.id = o.id
        OBVIOUS
      <4>2. f.order \in Made /\ o \in Made
        BY <2>2, <3>1, <3>4
      <4>3. f.order = o
        BY <3>3, <4>1, <4>2
      <4> QED BY <3>1, <4>3
    <3>6. ASSUME NEW o \in dm \cup ex \cup fr PROVE o \in mine
      BY <2>2, <2>3, <3>2
    <3> HIDE DEF mine
    <3> QED BY <3>5, <3>6
  <2> HIDE DEF mine
  <2>6. /\ orders' \in Seq(Order) /\ Rising(orders')
        /\ Range(orders') = {orders[i] : i \in I}
    BY <1>1, <2>1, <2>4, OrdersAtIs
  <2>7. Range(orders') = Range(orders) \ (dm \cup ex \cup fr)
    BY <2>4, <2>5, <2>6 DEF Range
  <2>8. \A side : Of(side) = FilledCount(t, at, side)
    BY <2>5, FilledCounts DEF OfSide
  <2>9. tradingBalance' = tradingBalance + Qty *
            (FilledCount(t, at, "BUY") - FilledCount(t, at, "SELL"))
    <3> HIDE DEF Of
    <3> QED BY <2>1, <2>8
  <2> QED BY <1>3, <2>6, <2>7, <2>9
<1> QED BY <1>2, <1>3

\* The risk manager is told of every fill: its orders and its position follow.
LEMMA BookRisk ==
    ASSUME Inv, NEW t, NEW at, NEW dm, NEW ex, NEW tr, NEW fr,
           BookSets(dm, ex, tr, fr, t, at), BookTicker(t, at)
    PROVE  RiskInv'
<1> DEFINE delta == Qty * (FilledCount(t, at, "BUY") - FilledCount(t, at, "SELL"))
<1>1. program' = program /\ refused' = refused
  BY DEF BookSets
<1>0. SUFFICES ASSUME program = "market making"
               PROVE  Range(orders') = Open' \cup refused' /\ tradingBalance' = base' - InitialBase
  BY <1>1 DEF RiskInv
<1>2. Range(orders) = Open \cup refused /\ tradingBalance = base - InitialBase
  BY <1>0 DEF Inv, RiskInv
<1>3. /\ Range(orders') = Range(orders) \ (dm \cup ex \cup fr)
      /\ tradingBalance' = tradingBalance + delta
  BY <1>0, BookOrders
<1>4. /\ Open' = Open \ (dm \cup ex \cup fr) /\ dm \cup ex \cup fr \subseteq Open
      /\ refused \cap Open = {}
  <2>1. OnceInv
    BY DEF Inv
  <2>2. Open' = Open \ (dm \cup ex \cup fr) /\ dm \cup ex \cup tr \cup fr \subseteq Open
    BY <2>1, FilledWereOpen
  <2>3. refused \cap Open = {}
    BY <2>1 DEF OnceInv
  <2> QED BY <2>2, <2>3
<1>5. Range(orders') = Open' \cup refused'
  BY <1>1, <1>2, <1>3, <1>4
<1>6. /\ BaseDelta(DueMarket(at)) + BaseDelta(ExecutedLimit(t, at))
             + BaseDelta(FilledResting(t, at)) = delta
      /\ BaseDelta(DueMarket(at)) \in Int /\ BaseDelta(ExecutedLimit(t, at)) \in Int
      /\ BaseDelta(FilledResting(t, at)) \in Int
  BY BaseMoves
<1>7. base' = base + BaseDelta(DueMarket(at)) + BaseDelta(ExecutedLimit(t, at))
                   + BaseDelta(FilledResting(t, at))
  BY DEF BookTicker, OnBookTicker
<1>8. base \in Int /\ InitialBase \in Int
  <2>1. TypeOK
    BY DEF Inv
  <2>2. base \in Int
    BY <2>1, ListTypes
  <2> QED BY <2>2, Constants
<1> HIDE DEF delta
<1>9. delta \in Int /\ base' = base + delta
  <2> DEFINE x == BaseDelta(DueMarket(at))
             y == BaseDelta(ExecutedLimit(t, at))
             z == BaseDelta(FilledResting(t, at))
  <2>1. x \in Int /\ y \in Int /\ z \in Int /\ x + y + z = delta
    BY <1>6
  <2>2. base' = base + x + y + z
    BY <1>7
  <2> HIDE DEF x, y, z
  <2> QED BY <1>8, <2>1, <2>2
<1>10. tradingBalance' = base' - InitialBase
  <2>1. tradingBalance' = (base - InitialBase) + delta
    BY <1>2, <1>3
  <2> QED BY <1>8, <1>9, <2>1
<1> QED BY <1>5, <1>10

\* What the fills of a list do to the quote balance is a number of units.
LEMMA QuoteIsInt ==
    ASSUME NEW list, NEW t, NEW slippage \in Nat, t.bid \in Nat, t.ask \in Nat,
           Count(list, "BUY") \in Nat, Count(list, "SELL") \in Nat
    PROVE  QuoteDelta(list, t, slippage) \in Int
<1> DEFINE b == Count(list, "BUY")
           s == Count(list, "SELL")
           x == t.bid - slippage
           y == t.ask + slippage
           p == Unit - Fee
           q == Unit + Fee
<1>1. b \in Int /\ s \in Int /\ x \in Int /\ y \in Int
  OBVIOUS
<1>2. p \in Int /\ q \in Int /\ Qty \in Int
  BY Constants
<1>3. QuoteDelta(list, t, slippage) = Qty * (s * x * p - b * y * q)
  BY DEF QuoteDelta
<1> HIDE DEF b, s, x, y, p, q
<1>4. \A m, n \in Int : m * n \in Int
  OBVIOUS
<1>5. s * x \in Int /\ b * y \in Int
  BY <1>1, <1>4
<1>6. s * x * p \in Int /\ b * y * q \in Int
  BY <1>2, <1>4, <1>5
<1>7. s * x * p - b * y * q \in Int
  BY <1>6
<1> QED BY <1>2, <1>3, <1>4, <1>7

\* What a ticker pays and gets is counted in whole units.
LEMMA QuoteMoves ==
    ASSUME Inv, NEW t \in Tickers, NEW at, NEW dm, NEW ex, NEW tr, NEW fr,
           BookSets(dm, ex, tr, fr, t, at), BookTicker(t, at)
    PROVE  quote' \in Int
<1>1. TypeOK /\ quote \in Int
  BY ListTypes DEF Inv
<1>2. t.bid \in Nat /\ t.ask \in Nat /\ Slippage \in Nat /\ 0 \in Nat
  BY Constants
<1>3. ticker.bid \in Nat /\ ticker.ask \in Nat
  <2>1. ticker \in Tickers \/ ticker = NoTicker
    BY <1>1 DEF TypeOK
  <2>2. NoTicker.bid = 0 /\ NoTicker.ask = 0
    BY DEF NoTicker
  <2> QED BY <2>1, <2>2, Constants
<1>4. \A side : /\ Count(DueMarket(at), side) \in Nat
                /\ Count(ExecutedLimit(t, at), side) \in Nat
                /\ Count(FilledResting(t, at), side) \in Nat
  BY FilledCounts
<1> DEFINE x == QuoteDelta(DueMarket(at), ticker, Slippage)
           y == QuoteDelta(ExecutedLimit(t, at), t, Slippage)
           z == QuoteDelta(FilledResting(t, at), t, 0)
<1>5. x \in Int
  BY <1>2, <1>3, <1>4, QuoteIsInt
<1>6. y \in Int /\ z \in Int
  BY <1>2, <1>4, QuoteIsInt
<1>7. quote' = quote + x + y + z
  BY DEF BookTicker, OnBookTicker
<1> HIDE DEF x, y, z
<1> QED BY <1>1, <1>5, <1>6, <1>7

\* A ticker leaves lists, balances and history well typed.
LEMMA BookType ==
    ASSUME Inv, NEW t \in Tickers, NEW at \in updated..MaxTime,
           NEW dm, NEW ex, NEW tr, NEW fr, BookSets(dm, ex, tr, fr, t, at), BookTicker(t, at)
    PROVE  TypeOK'
<1>1. TypeOK /\ TickerInv /\ OnceInv
  BY DEF Inv
<1>2. updated \in Nat /\ at \in 0..MaxTime
  BY <1>1, EventTime
<1>3. /\ updated' = at /\ ticker' = t /\ lastOrderId' = lastOrderId /\ refused' = refused
      /\ cancelled' = cancelled /\ program' = program
  BY DEF BookSets
<1>4. bookTicker' = t \/ bookTicker' = bookTicker
  <2>1. CASE program = "market making"
    BY <2>1 DEF BookTicker
  <2>2. CASE program # "market making"
    BY <2>2, BookOrders
  <2> QED BY <2>1, <2>2
<1>5. {ticker', bookTicker'} \subseteq Tickers \cup {NoTicker}
  BY <1>1, <1>3, <1>4 DEF TypeOK
<1>6. {pendingMarket', pendingLimit', resting', orders'} \subseteq Seq(Order)
  BY BookOrders DEF BookSets
<1>7. base' \in Int
  <2> DEFINE x == BaseDelta(DueMarket(at))
             y == BaseDelta(ExecutedLimit(t, at))
             z == BaseDelta(FilledResting(t, at))
  <2>1. x \in Int /\ y \in Int /\ z \in Int
    BY BaseMoves
  <2>2. base' = base + x + y + z
    BY DEF BookTicker, OnBookTicker
  <2>3. base \in Int
    BY <1>1, ListTypes
  <2> HIDE DEF x, y, z
  <2> QED BY <2>1, <2>2, <2>3
<1>8. quote' \in Int
  BY QuoteMoves
<1>9. tradingBalance' \in Int
  <2>1. tradingBalance \in Int
    BY <1>1, ListTypes
  <2>2. CASE program = "market making"
    <3> DEFINE delta == Qty * (FilledCount(t, at, "BUY") - FilledCount(t, at, "SELL"))
    <3>1. tradingBalance' = tradingBalance + delta
      BY <2>2, BookOrders
    <3>2. delta \in Int
      <4> DEFINE x == BaseDelta(DueMarket(at))
                 y == BaseDelta(ExecutedLimit(t, at))
                 z == BaseDelta(FilledResting(t, at))
      <4>1. x \in Int /\ y \in Int /\ z \in Int /\ x + y + z = delta
        BY BaseMoves
      <4> HIDE DEF x, y, z, delta
      <4> QED BY <4>1
    <3> HIDE DEF delta
    <3> QED BY <2>1, <3>1, <3>2
  <2>3. CASE program # "market making"
    <3>1. tradingBalance' = tradingBalance
      BY <2>3, BookOrders
    <3> QED BY <2>1, <3>1
  <2> QED BY <2>2, <2>3
<1>10. ASSUME NEW f \in fills'
       PROVE  f.order \in Order /\ f.at \in 0..MaxTime /\ f.ticker \in Tickers
  <2>1. f \in fills \/ f \in FillsOn(t, at)
    BY DEF BookSets
  <2>2. CASE f \in fills
    BY <1>1, <2>2 DEF TypeOK
  <2>3. CASE f \in FillsOn(t, at)
    <3>1. /\ f.at = at /\ f.order \in dm \cup ex \cup fr
          /\ f.ticker = t \/ (f.order \in dm /\ f.ticker = ticker)
      BY <2>3 DEF BookSets, Filling
    <3>2. dm \cup ex \cup tr \cup fr \subseteq Open
      BY <1>1, FilledWereOpen
    <3>3. f.order \in Open
      BY <3>1, <3>2
    <3>4. f.order \in Order
      BY <1>1, <3>3, ListTypes
    <3>5. f.ticker \in Tickers
      <4>1. f.order \in dm => ticker # NoTicker
        BY DEF BookSets, IsPriced
      <4> QED BY <1>1, <3>1, <4>1 DEF TypeOK
    <3> QED BY <1>2, <3>1, <3>4, <3>5
  <2> QED BY <2>1, <2>2, <2>3
<1>11. lastOrderId' \in Nat /\ refused' \cup cancelled' \subseteq Order
       /\ program' \in {"market making", "direct"}
  BY <1>1, <1>3 DEF TypeOK
<1> QED BY <1>2, <1>3, <1>5, <1>6, <1>7, <1>8, <1>9, <1>10, <1>11 DEF TypeOK

\* A ticker of the exchange keeps the invariant.
LEMMA BookInv ==
    ASSUME Inv, NEW t \in Tickers, NEW at \in updated..MaxTime, BookTicker(t, at)
    PROVE  Inv'
<1>1. PICK dm, ex, tr, fr : BookSets(dm, ex, tr, fr, t, at)
  BY BookSetsAre
<1>2. TypeOK /\ ListInv /\ TimeInv /\ TickerInv /\ OnceInv
  BY DEF Inv
<1>3. NoLookahead /\ FillPriceBounded
  BY DEF Inv
<1>4. TypeOK'
  BY <1>1, BookType
<1>5. ListInv'
  <2>1. Rising(orders')
    BY <1>1, BookOrders
  <2> QED BY <1>1, <1>2, <2>1, BookLists
<1>6. TimeInv'
  BY <1>1, <1>2, BookTimes
<1>7. TickerInv'
  BY <1>1, <1>2, BookTickerIs
<1>8. OnceInv'
  BY <1>1, <1>2, BookOnce
<1>9. RiskInv'
  BY <1>1, BookRisk
<1>10. NoLookahead'
  BY <1>1, <1>2, <1>3, BookLookahead
<1>11. FillPriceBounded'
  BY <1>1, <1>2, <1>3, BookPrices
<1>12. MissedOnlyBehindAFill'
  BY <1>1, <1>2, BookMissed
<1> QED BY <1>4, <1>5, <1>6, <1>7, <1>8, <1>9, <1>10, <1>11, <1>12 DEF Inv

-----------------------------------------------------------------------------
(***************************************************************************)
(* The theorems                                                            *)
(***************************************************************************)

\* The invariant is inductive.
LEMMA NextInv == Inv /\ [Next]_vars => Inv'
<1> SUFFICES ASSUME Inv, [Next]_vars PROVE Inv'
  OBVIOUS
<1>1. CASE UNCHANGED vars
  BY <1>1, StutterInv
<1>2. CASE \E t \in Tickers, at \in updated..MaxTime : BookTicker(t, at) \/ OtherTicker(t, at)
  BY <1>2, BookInv, OtherInv
<1>3. CASE OnPricePrediction
  BY <1>3, PredictionInv
<1>4. CASE \E side \in {"BUY", "SELL"} :
              \/ DirectMarketOrder(side)
              \/ \E price \in LimitPrices : DirectLimitOrder(side, price)
  BY <1>4, MarketOrderInv, LimitOrderInv
<1>5. CASE \E order \in Range(resting) : DirectCancel(order)
  BY <1>5, CancelInv
<1> QED BY <1>1, <1>2, <1>3, <1>4, <1>5 DEF Next

\* The invariant holds in every reachable state.
LEMMA SpecInv == Spec => []Inv
BY InitInv, NextInv, PTL DEF Spec

\* Every variable of the exchange, the risk manager and the history keeps its type,
\* whatever the prices, fees and delays: no order is made with a negative price.
THEOREM TypeCorrect == Spec => []TypeOK
<1>1. Inv => TypeOK
  BY DEF Inv
<1> QED BY <1>1, SpecInv, PTL

\* The lists, the fills, the refused and the cancelled orders have as many orders
\* together as orders were made.
LEMMA OnceCounted ==
    ASSUME TypeOK, ListInv, OnceInv
    PROVE  EveryOrderOnce
<1> DEFINE pm == Range(pendingMarket)
           pl == Range(pendingLimit)
           rs == Range(resting)
           lists == pendingMarket \o pendingLimit \o resting
<1>1. /\ pendingMarket \in Seq(Order) /\ pendingLimit \in Seq(Order) /\ resting \in Seq(Order)
      /\ Rising(pendingMarket) /\ Rising(pendingLimit) /\ Rising(resting)
      /\ lastOrderId \in Nat
  BY ListTypes DEF ListInv
<1>2. \A o \in Order : o.id \in Nat
  BY OrderIs
<1>3. /\ IsFiniteSet(pm) /\ Cardinality(pm) = Len(pendingMarket)
      /\ IsFiniteSet(pl) /\ Cardinality(pl) = Len(pendingLimit)
      /\ IsFiniteSet(rs) /\ Cardinality(rs) = Len(resting)
  BY <1>1, <1>2, ListSize
<1>4. Range(lists) = Open /\ Len(lists) = Len(pendingMarket) + Len(pendingLimit) + Len(resting)
  <2> DEFINE two == pendingMarket \o pendingLimit
  <2>1. /\ two \in Seq(Order) /\ Range(two) = pm \cup pl
        /\ Len(two) = Len(pendingMarket) + Len(pendingLimit)
    BY <1>1, ConcatIs
  <2> HIDE DEF two
  <2>2. Range(two \o resting) = Range(two) \cup rs /\ Len(two \o resting) = Len(two) + Len(resting)
    <3>1. two \in Seq(Order) /\ resting \in Seq(Order)
      BY <1>1, <2>1
    <3> HIDE DEF lists, pm, pl
    <3>2. Range(two \o resting) = Range(two) \cup Range(resting)
      BY <3>1, ConcatIs
    <3>3. Len(two \o resting) = Len(two) + Len(resting)
      BY <3>1, ConcatIs
    <3> QED BY <3>2, <3>3
  <2>3. lists = two \o resting
    BY DEF two
  <2> HIDE DEF lists, pm, pl, rs
  <2> QED BY <2>1, <2>2, <2>3 DEF Open, pm, pl, rs
<1>5. IsFiniteSet(Made) /\ Cardinality(Made) = Cardinality(Ids(Made))
  BY <1>1, IdsSize DEF OnceInv
<1>6. Open \in SUBSET Made /\ Filled \in SUBSET Made /\ refused \in SUBSET Made
      /\ cancelled \in SUBSET Made
  BY DEF Made
<1>7. IsFiniteSet(Open) /\ IsFiniteSet(Filled) /\ IsFiniteSet(refused) /\ IsFiniteSet(cancelled)
  BY <1>5, <1>6, FS_Subset
<1>8. Cardinality(fills) = Cardinality(Filled)
  <2> DEFINE g == [f \in fills |-> f.order]
  <2>1. g \in Injection(fills, Filled)
    <3>1. g \in [fills -> Filled]
      BY DEF Filled
    <3>2. \A f, h \in fills : g[f] = g[h] => f = h
      BY DEF OnceInv
    <3> HIDE DEF g
    <3> QED BY <3>1, <3>2 DEF Injection, IsInjective
  <2>2. g \in Surjection(fills, Filled)
    <3>1. \A o \in Filled : \E f \in fills : g[f] = o
      BY DEF Filled
    <3>2. g \in [fills -> Filled]
      BY DEF Filled
    <3> HIDE DEF g
    <3> QED BY <3>1, <3>2 DEF Surjection
  <2> HIDE DEF g
  <2> QED BY <1>7, <2>1, <2>2, FS_Injection
<1>9. /\ pm \cap pl = {} /\ (pm \cup pl) \cap rs = {} /\ Open \cap Filled = {}
      /\ (Open \cup Filled) \cap refused = {} /\ (Open \cup Filled \cup refused) \cap cancelled = {}
  BY DEF OnceInv
<1> HIDE DEF pm, pl, rs, lists
<1>10. Cardinality({}) = 0
  BY FS_EmptySet
<1>11. ASSUME NEW A, NEW B, IsFiniteSet(A), IsFiniteSet(B), A \cap B = {}
       PROVE  /\ IsFiniteSet(A \cup B) /\ Cardinality(A \cup B) = Cardinality(A) + Cardinality(B)
              /\ Cardinality(A) \in Nat /\ Cardinality(B) \in Nat
  <2>1. /\ IsFiniteSet(A \cup B)
        /\ Cardinality(A \cup B) = Cardinality(A) + Cardinality(B) - Cardinality(A \cap B)
    BY <1>11, FS_Union
  <2>2. Cardinality(A) \in Nat /\ Cardinality(B) \in Nat
    BY <1>11, FS_CardinalityType
  <2>3. Cardinality(A \cap B) = 0
    BY <1>10, <1>11, Zenon
  <2> QED BY <2>1, <2>2, <2>3
<1>12. Cardinality(Open) = Len(lists)
  <2>1. Open = pm \cup pl \cup rs
    BY DEF Open, pm, pl, rs
  <2>2. /\ IsFiniteSet(pm \cup pl)
        /\ Cardinality(pm \cup pl) = Cardinality(pm) + Cardinality(pl)
    BY <1>3, <1>9, <1>11
  <2>3. Cardinality(pm \cup pl \cup rs) = Cardinality(pm \cup pl) + Cardinality(rs)
    BY <1>3, <1>9, <1>11, <2>2
  <2> QED BY <1>3, <1>4, <2>1, <2>2, <2>3
<1>13. Cardinality(Made) = Cardinality(Open) + Cardinality(Filled) + Cardinality(refused)
                           + Cardinality(cancelled)
  <2>1. /\ IsFiniteSet(Open \cup Filled)
        /\ Cardinality(Open \cup Filled) = Cardinality(Open) + Cardinality(Filled)
    BY <1>7, <1>9, <1>11
  <2>2. /\ IsFiniteSet(Open \cup Filled \cup refused)
        /\ Cardinality(Open \cup Filled \cup refused)
               = Cardinality(Open \cup Filled) + Cardinality(refused)
    BY <1>7, <1>9, <1>11, <2>1
  <2>3. Cardinality(Open \cup Filled \cup refused \cup cancelled)
            = Cardinality(Open \cup Filled \cup refused) + Cardinality(cancelled)
    BY <1>7, <1>9, <1>11, <2>2
  <2> QED BY <2>1, <2>2, <2>3 DEF Made
<1>14. Len(lists) + Cardinality(fills) + Cardinality(refused) + Cardinality(cancelled)
           = Cardinality(Ids(Made))
  BY <1>5, <1>8, <1>12, <1>13
<1>15. Range(lists) \cup Filled \cup refused \cup cancelled = Made
  BY <1>4 DEF Made
<1> QED BY <1>14, <1>15 DEF EveryOrderOnce, OnceInv, Made, lists

\* No order is lost, left behind twice or filled twice, for any number of orders and
\* tickers: each order made is in one list of BacktestExchangeClient, filled, refused
\* or cancelled, and in only one of these.
THEOREM OrdersCounted == Spec => []EveryOrderOnce
<1>1. Inv => EveryOrderOnce
  BY OnceCounted DEF Inv
<1> QED BY <1>1, SpecInv, PTL

\* m_orders of the risk manager is what the exchange has open, with the orders it
\* refused, and m_trading_balance what the exchange's balance has changed by.
THEOREM RiskManagerCorrect == Spec => []RiskManagerAgrees
<1>1. Inv => RiskManagerAgrees
  <2> SUFFICES ASSUME Inv PROVE RiskManagerAgrees
    OBVIOUS
  <2>1. TypeOK /\ ListInv /\ RiskInv
    BY DEF Inv
  <2>2. orders \in Seq(Order) /\ Rising(orders) /\ \A o \in Order : o.id \in Nat
    BY <2>1, ListTypes, OrderIs DEF ListInv
  <2>3. Cardinality(Range(orders)) = Len(orders)
    BY <2>2, ListSize
  <2> QED BY <2>1, <2>3 DEF RiskInv, RiskManagerAgrees
<1> QED BY <1>1, SpecInv, PTL

\* A market order is filled at the prices in force when it arrived, a limit order at a
\* ticker after that, the first one if it did not rest, and nothing stays pending past
\* it, whatever the latency (the two Handle...Pending... methods); only a market order
\* that came before the first ticker of all waits for the second.
THEOREM LooksNotAhead == Spec => []NoLookahead
<1>1. Inv => NoLookahead
  BY DEF Inv
<1> QED BY <1>1, SpecInv, PTL

\* A limit order that rested is never filled on the wrong side of its price, one that
\* crossed the middle at most half of the prices' difference from it.
THEOREM PriceBounded == Spec => []FillPriceBounded
<1>1. Inv => FillPriceBounded
  BY DEF Inv
<1> QED BY <1>1, SpecInv, PTL

\* An order HandleLimitOrders leaves resting at a reached price was made after one it
\* filled at that ticker.
THEOREM MissedOnlyBehind == Spec => []MissedOnlyBehindAFill
<1>1. Inv => MissedOnlyBehindAFill
  BY DEF Inv
<1> QED BY <1>1, SpecInv, PTL

=============================================================================
