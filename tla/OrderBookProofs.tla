---------------------------- MODULE OrderBookProofs ----------------------------
(***************************************************************************)
(* The sides of an OrderBook, proved for every list of levels and every    *)
(* depth: what one level of an update does to a side, that a whole update  *)
(* leaves both sides in order and within the depth, and that their last    *)
(* levels are the best ones.                                               *)
(*                                                                         *)
(* Bids and asks differ in the direction of their prices, so most lemmas   *)
(* are about a side ordered by a relation R on prices: Rising for bids,    *)
(* Falling for asks.                                                       *)
(***************************************************************************)
EXTENDS OrderBook, SequenceTheorems, WellFoundedInduction, TLAPS

Price == Nat

Rising == {p \in Price \X Price : p[1] < p[2]}
Falling == {p \in Price \X Price : p[1] > p[2]}

\* R orders the prices strictly and totally.
Strict(R) ==
    /\ \A p \in Price : <<p, p>> \notin R
    /\ \A p, q \in Price : p # q => <<p, q>> \in R \/ <<q, p>> \in R
    /\ \A p, q, r \in Price : <<p, q>> \in R /\ <<q, r>> \in R => <<p, r>> \in R

Ordered(list, R) ==
    \A i, j \in 1..Len(list) : i < j => <<list[i].price, list[j].price>> \in R

\* A side of a book of some depth.
IsSide(list, R, depth) == list \in Seq(Level) /\ Ordered(list, R) /\ Len(list) <= depth

\* Prices are ordered strictly and totally, upwards and downwards.
LEMMA BothStrict == Strict(Rising) /\ Strict(Falling)
BY DEF Strict, Rising, Falling, Price

\* What a position of a side holds.
LEMMA PriceType ==
    ASSUME NEW list \in Seq(Level), NEW i \in 1..Len(list)
    PROVE  list[i] \in Level /\ list[i].price \in Price
<1>1. list[i] \in Level
  OBVIOUS
<1> QED BY <1>1 DEF Level, Price

\* The orders of OrderBook are those of the two relations.
LEMMA OrderedIs ==
    ASSUME NEW list \in Seq(Level)
    PROVE  /\ Ascending(list) <=> Ordered(list, Rising)
           /\ Descending(list) <=> Ordered(list, Falling)
BY PriceType DEF Ascending, Descending, Ordered, Rising, Falling

\* A set of natural numbers has a least element: the only induction used here.
LEMMA Least ==
    ASSUME NEW T, T \subseteq Nat, T # {}
    PROVE  \E x \in T : \A y \in T : x <= y
<1> DEFINE R == OpToRel(<, Nat)
<1>1. IsWellFoundedOn(R, Nat)
  BY NatLessThanWellFounded
<1>2. \E x \in T : \A y \in T : ~(<<y, x>> \in R)
  <2> HIDE DEF R
  <2> QED BY <1>1, WFMin
<1>3. PICK x \in T : \A y \in T : ~(<<y, x>> \in R)
  BY <1>2
<1>4. ASSUME NEW y \in T PROVE x <= y
  <2>1. x \in Nat /\ y \in Nat
    OBVIOUS
  <2>2. ~(y < x)
    BY <1>3, <2>1 DEF OpToRel
  <2> QED BY <2>1, <2>2
<1> QED BY <1>4

-----------------------------------------------------------------------------
(***************************************************************************)
(* Where a level goes                                                      *)
(***************************************************************************)

\* The walk from the front stops at position i.
StopsAt(list, R, price, i) ==
    /\ i \in 1..(Len(list) + 1)
    /\ \A j \in 1..(i - 1) : <<list[j].price, price>> \in R
    /\ i <= Len(list) => <<list[i].price, price>> \notin R

\* The walk stops somewhere, at the latest behind the last level.
LEMMA Stops ==
    ASSUME NEW list \in Seq(Level), NEW R, NEW price
    PROVE  \E i \in 1..(Len(list) + 1) : StopsAt(list, R, price, i)
<1> DEFINE n == Len(list)
           T == {i \in 1..(n + 1) : i <= n => <<list[i].price, price>> \notin R}
<1>1. n \in Nat
  OBVIOUS
<1>2. n + 1 \in T
  BY <1>1
<1>3. T \subseteq Nat
  OBVIOUS
<1>4. PICK i \in T : \A j \in T : i <= j
  <2> HIDE DEF T
  <2> QED BY <1>2, <1>3, Least
<1>5. ASSUME NEW j \in 1..(i - 1) PROVE <<list[j].price, price>> \in R
  <2> SUFFICES ASSUME <<list[j].price, price>> \notin R PROVE FALSE
    OBVIOUS
  <2>1. j \in 1..(n + 1) /\ j < i
    BY <1>1
  <2>2. j \in T
    BY <2>1
  <2> QED BY <1>4, <2>1, <2>2
<1> QED BY <1>4, <1>5 DEF StopsAt

\* UpsertBid's walk stops where it should.
LEMMA BidStops ==
    ASSUME NEW bids \in Seq(Level), NEW price \in Price
    PROVE  StopsAt(bids, Rising, price, BidPosition(bids, price))
<1> DEFINE Here(i) == /\ \A j \in 1..(i - 1) : bids[j].price < price
                      /\ i <= Len(bids) => bids[i].price >= price
<1>1. \A j \in 1..Len(bids) : <<bids[j].price, price>> \in Rising <=> bids[j].price < price
  BY PriceType DEF Rising
<1>2. \A j \in 1..Len(bids) : bids[j].price \in Nat /\ price \in Nat
  BY PriceType DEF Price
<1>3. \A i \in 1..(Len(bids) + 1) : Here(i) <=> StopsAt(bids, Rising, price, i)
  <2> TAKE i \in 1..(Len(bids) + 1)
  <2>1. \A j \in 1..(i - 1) : j \in 1..Len(bids)
    OBVIOUS
  <2>2. (\A j \in 1..(i - 1) : bids[j].price < price)
          <=> \A j \in 1..(i - 1) : <<bids[j].price, price>> \in Rising
    BY <1>1, <2>1
  <2>3. ASSUME i <= Len(bids)
        PROVE  bids[i].price >= price <=> <<bids[i].price, price>> \notin Rising
    <3>1. i \in 1..Len(bids)
      BY <2>3
    <3> QED BY <1>1, <1>2, <3>1
  <2> QED BY <2>2, <2>3 DEF StopsAt
<1>4. \E i \in 1..(Len(bids) + 1) : Here(i)
  BY <1>3, Stops
<1>5. /\ BidPosition(bids, price) \in 1..(Len(bids) + 1)
      /\ Here(BidPosition(bids, price))
  BY <1>4 DEF BidPosition
<1> HIDE DEF Here
<1> QED BY <1>3, <1>5

\* UpsertAsk's walk stops where it should.
LEMMA AskStops ==
    ASSUME NEW asks \in Seq(Level), NEW price \in Price
    PROVE  StopsAt(asks, Falling, price, AskPosition(asks, price))
<1> DEFINE Here(i) == /\ \A j \in 1..(i - 1) : asks[j].price > price
                      /\ i <= Len(asks) => asks[i].price <= price
<1>1. \A j \in 1..Len(asks) : <<asks[j].price, price>> \in Falling <=> asks[j].price > price
  BY PriceType DEF Falling
<1>2. \A j \in 1..Len(asks) : asks[j].price \in Nat /\ price \in Nat
  BY PriceType DEF Price
<1>3. \A i \in 1..(Len(asks) + 1) : Here(i) <=> StopsAt(asks, Falling, price, i)
  <2> TAKE i \in 1..(Len(asks) + 1)
  <2>1. \A j \in 1..(i - 1) : j \in 1..Len(asks)
    OBVIOUS
  <2>2. (\A j \in 1..(i - 1) : asks[j].price > price)
          <=> \A j \in 1..(i - 1) : <<asks[j].price, price>> \in Falling
    BY <1>1, <2>1
  <2>3. ASSUME i <= Len(asks)
        PROVE  asks[i].price <= price <=> <<asks[i].price, price>> \notin Falling
    <3>1. i \in 1..Len(asks)
      BY <2>3
    <3> QED BY <1>1, <1>2, <3>1
  <2> QED BY <2>2, <2>3 DEF StopsAt
<1>4. \E i \in 1..(Len(asks) + 1) : Here(i)
  BY <1>3, Stops
<1>5. /\ AskPosition(asks, price) \in 1..(Len(asks) + 1)
      /\ Here(AskPosition(asks, price))
  BY <1>4 DEF AskPosition
<1> HIDE DEF Here
<1> QED BY <1>3, <1>5

-----------------------------------------------------------------------------
(***************************************************************************)
(* A level is put                                                          *)
(***************************************************************************)

\* Inserting a level moves those behind it by one.
LEMMA InsertAtIs ==
    ASSUME NEW list \in Seq(Level), NEW level \in Level, NEW i \in 1..(Len(list) + 1)
    PROVE  /\ InsertAt(list, i, level) \in Seq(Level)
           /\ Len(InsertAt(list, i, level)) = Len(list) + 1
           /\ \A k \in 1..(Len(list) + 1) :
                InsertAt(list, i, level)[k] = IF k < i THEN list[k]
                                              ELSE IF k = i THEN level ELSE list[k - 1]
<1> DEFINE n == Len(list)
           front == SubSeq(list, 1, i - 1)
           back == SubSeq(list, i, n)
<1>1. n \in Nat /\ i \in Int /\ i >= 1 /\ i <= n + 1
  OBVIOUS
<1>2. front \in Seq(Level) /\ Len(front) = i - 1 /\ \A k \in 1..(i - 1) : front[k] = list[k]
  <2>1. \A k \in 1..(i - 1) : list[k] \in Level
    BY <1>1
  <2>2. /\ front \in Seq(Level) /\ Len(front) = IF 1 <= i - 1 THEN (i - 1) - 1 + 1 ELSE 0
        /\ \A k \in 1..((i - 1) - 1 + 1) : front[k] = list[1 + k - 1]
    BY <1>1, <2>1, SubSeqProperties
  <2> HIDE DEF front
  <2>3. \A k \in 1..(i - 1) : k \in 1..((i - 1) - 1 + 1) /\ 1 + k - 1 = k
    BY <1>1
  <2>4. Len(front) = i - 1
    BY <1>1, <2>2
  <2> QED BY <2>2, <2>3, <2>4
<1>3. back \in Seq(Level) /\ Len(back) = n - i + 1 /\ \A k \in 1..(n - i + 1) : back[k] = list[i + k - 1]
  <2>1. \A k \in i..n : list[k] \in Level
    BY <1>1
  <2>2. /\ back \in Seq(Level) /\ Len(back) = IF i <= n THEN n - i + 1 ELSE 0
        /\ \A k \in 1..(n - i + 1) : back[k] = list[i + k - 1]
    BY <1>1, <2>1, SubSeqProperties
  <2> HIDE DEF back
  <2> QED BY <1>1, <2>2
<1>4. InsertAt(list, i, level) = (front \o <<level>>) \o back
  BY DEF InsertAt
<1> HIDE DEF front, back
<1> DEFINE half == front \o <<level>>
<1>5. /\ half \in Seq(Level) /\ Len(half) = i
      /\ \A k \in 1..i : half[k] = IF k < i THEN list[k] ELSE level
  <2>1. <<level>> \in Seq(Level) /\ Len(<<level>>) = 1 /\ <<level>>[1] = level
    OBVIOUS
  <2>2. /\ half \in Seq(Level) /\ Len(half) = (i - 1) + 1
        /\ \A k \in 1..((i - 1) + 1) :
              half[k] = IF k <= i - 1 THEN front[k] ELSE <<level>>[k - (i - 1)]
    BY <1>2, <2>1, ConcatProperties
  <2> HIDE DEF half
  <2>3. ASSUME NEW k \in 1..i PROVE half[k] = IF k < i THEN list[k] ELSE level
    <3>1. k \in 1..((i - 1) + 1) /\ (k < i => k \in 1..(i - 1) /\ k <= i - 1)
            /\ (~(k < i) => k - (i - 1) = 1 /\ ~(k <= i - 1))
      BY <1>1
    <3> QED BY <1>2, <2>1, <2>2, <3>1
  <2> QED BY <1>1, <2>2, <2>3
<1> HIDE DEF half
<1>6. /\ half \o back \in Seq(Level) /\ Len(half \o back) = i + (n - i + 1)
      /\ \A k \in 1..(i + (n - i + 1)) :
            (half \o back)[k] = IF k <= i THEN half[k] ELSE back[k - i]
  <2>1. /\ half \o back \in Seq(Level) /\ Len(half \o back) = Len(half) + Len(back)
        /\ \A k \in 1..(Len(half) + Len(back)) :
              (half \o back)[k] = IF k <= Len(half) THEN half[k] ELSE back[k - Len(half)]
    BY <1>3, <1>5, ConcatProperties
  <2> QED BY <1>3, <1>5, <2>1
<1>7. ASSUME NEW k \in 1..(n + 1)
      PROVE  (half \o back)[k] = IF k < i THEN list[k] ELSE IF k = i THEN level ELSE list[k - 1]
  <2>1. k \in 1..(i + (n - i + 1)) /\ (k <= i => k \in 1..i)
          /\ (~(k <= i) => k - i \in 1..(n - i + 1) /\ i + (k - i) - 1 = k - 1)
    BY <1>1
  <2> QED BY <1>1, <1>3, <1>5, <1>6, <2>1
<1> QED BY <1>1, <1>4, <1>6, <1>7 DEF half

\* The levels of a side at other prices.
Others(list, price) == {l \in ToSet(list) : l.price # price}

\* A level put where the walk stops takes the place of any of its price, and the
\* order stays.
LEMMA PutAtIs ==
    ASSUME NEW R, Strict(R), NEW list \in Seq(Level), Ordered(list, R),
           NEW level \in Level, NEW i, StopsAt(list, R, level.price, i)
    PROVE  /\ PutAt(list, level, i) \in Seq(Level) /\ Ordered(PutAt(list, level, i), R)
           /\ ToSet(PutAt(list, level, i)) = Others(list, level.price) \cup {level}
           /\ Len(PutAt(list, level, i)) \in {Len(list), Len(list) + 1}
<1> DEFINE n == Len(list)
           put == PutAt(list, level, i)
<1>1. n \in Nat /\ i \in 1..(n + 1) /\ level.price \in Price
  BY DEF StopsAt, Level, Price
<1>2. \A j \in 1..n : list[j] \in Level /\ list[j].price \in Price
  BY PriceType
<1>3. CASE i <= n /\ list[i].price = level.price
  <2>1. put = [list EXCEPT ![i] = level] /\ i \in 1..n
    BY <1>1, <1>3 DEF PutAt
  <2>2. /\ put \in Seq(Level) /\ Len(put) = n /\ put[i] = level
        /\ \A j \in 1..n : j # i => put[j] = list[j]
    BY <2>1
  <2> HIDE DEF put
  <2>3. \A j \in 1..n : put[j].price = list[j].price
    BY <1>3, <2>2
  <2>4. Ordered(put, R)
    BY <2>2, <2>3 DEF Ordered
  <2>5. \A j \in 1..n : j # i => list[j].price # level.price
    <3> TAKE j \in 1..n
    <3>1. j # i => <<list[j].price, list[i].price>> \in R \/ <<list[i].price, list[j].price>> \in R
      BY <2>1 DEF Ordered
    <3> QED BY <1>1, <1>3, <3>1 DEF Strict
  <2>6. ToSet(put) = Others(list, level.price) \cup {level}
    <3>1. DOMAIN put = 1..n /\ DOMAIN list = 1..n
      BY <2>2
    <3> QED BY <1>3, <2>1, <2>2, <2>5, <3>1 DEF ToSet, Others
  <2> QED BY <2>2, <2>4, <2>6 DEF put
<1>4. CASE ~(i <= n /\ list[i].price = level.price)
  <2>1. /\ put = InsertAt(list, i, level)
    BY <1>4 DEF PutAt
  <2>2. /\ put \in Seq(Level) /\ Len(put) = n + 1
        /\ \A k \in 1..(n + 1) :
             put[k] = IF k < i THEN list[k] ELSE IF k = i THEN level ELSE list[k - 1]
    BY <1>1, <2>1, InsertAtIs
  <2> HIDE DEF put
  <2>3. \A j \in 1..n : j < i => <<list[j].price, level.price>> \in R
    BY <1>1 DEF StopsAt
  <2>4. \A j \in 1..n : i <= j => <<level.price, list[j].price>> \in R
    <3> SUFFICES ASSUME NEW j \in 1..n, i <= j PROVE <<level.price, list[j].price>> \in R
      OBVIOUS
    <3>1. i \in 1..n /\ list[i].price # level.price /\ <<list[i].price, level.price>> \notin R
      BY <1>1, <1>4 DEF StopsAt
    <3>2. <<level.price, list[i].price>> \in R
      BY <1>1, <1>2, <3>1 DEF Strict
    <3>3. CASE i = j
      BY <3>2, <3>3
    <3>4. CASE i # j
      <4>1. <<list[i].price, list[j].price>> \in R
        BY <1>1, <3>1, <3>4 DEF Ordered
      <4> QED BY <1>1, <1>2, <3>1, <3>2, <4>1 DEF Strict
    <3> QED BY <3>3, <3>4
  <2>5. ASSUME NEW j \in 1..(n + 1), NEW k \in 1..(n + 1), j < k
        PROVE  <<put[j].price, put[k].price>> \in R
    <3>1. CASE k < i
      <4>1. put[j] = list[j] /\ put[k] = list[k] /\ j \in 1..n /\ k \in 1..n
        BY <1>1, <2>2, <2>5, <3>1
      <4> QED BY <2>5, <4>1 DEF Ordered
    <3>2. CASE k = i
      <4>1. put[j] = list[j] /\ put[k] = level /\ j \in 1..n /\ j < i
        BY <1>1, <2>2, <2>5, <3>2
      <4> QED BY <2>3, <4>1
    <3>3. CASE k > i /\ j < i
      <4>1. /\ n \in Nat /\ i \in 1..(n + 1)
            /\ j \in 1..n /\ k - 1 \in 1..n /\ j < k - 1 /\ ~(k < i) /\ k # i
        BY <1>1, <3>3
      <4>2. put[j] = list[j]
        BY <2>2, <3>3
      <4>3. put[k] = list[k - 1]
        BY <2>2, <4>1
      <4> QED BY <4>1, <4>2, <4>3 DEF Ordered
    <3>4. CASE k > i /\ j = i
      <4>1. put[j] = level /\ put[k] = list[k - 1] /\ k - 1 \in 1..n /\ i <= k - 1
        BY <1>1, <2>2, <3>4
      <4> QED BY <2>4, <4>1
    <3>5. CASE k > i /\ j > i
      <4>1. /\ put[j] = list[j - 1] /\ put[k] = list[k - 1] /\ j - 1 \in 1..n /\ k - 1 \in 1..n
            /\ j - 1 < k - 1
        BY <1>1, <2>2, <2>5, <3>5
      <4> QED BY <4>1 DEF Ordered
    <3> QED BY <1>1, <3>1, <3>2, <3>3, <3>4, <3>5
  <2>6. Ordered(put, R)
    BY <2>2, <2>5 DEF Ordered
  <2>7. \A j \in 1..n : list[j].price # level.price
    <3> TAKE j \in 1..n
    <3>1. j < i \/ i <= j
      BY <1>1
    <3> QED BY <1>1, <1>2, <2>3, <2>4, <3>1 DEF Strict
  <2>8. ToSet(put) = Others(list, level.price) \cup {level}
    <3>1. DOMAIN put = 1..(n + 1) /\ DOMAIN list = 1..n
      BY <2>2
    <3>2. put[i] = level
      BY <1>1, <2>2
    <3>3. ASSUME NEW l \in Others(list, level.price) PROVE l \in ToSet(put)
      <4>1. PICK j \in 1..n : l = list[j]
        BY <3>1 DEF Others, ToSet
      <4>2. CASE j < i
        <5>1. j \in 1..(n + 1) /\ put[j] = l
          BY <1>1, <2>2, <4>1, <4>2
        <5> QED BY <3>1, <5>1 DEF ToSet
      <4>3. CASE ~(j < i)
        <5>1. j + 1 \in 1..(n + 1) /\ put[j + 1] = l
          BY <1>1, <2>2, <4>1, <4>3
        <5> QED BY <3>1, <5>1 DEF ToSet
      <4> QED BY <4>2, <4>3
    <3>4. ASSUME NEW k \in 1..(n + 1), k # i PROVE put[k] \in Others(list, level.price)
      <4>1. PICK j \in 1..n : put[k] = list[j]
        <5>1. CASE k < i
          <6>1. k \in 1..n /\ put[k] = list[k]
            BY <1>1, <2>2, <5>1
          <6> QED BY <6>1
        <5>2. CASE k > i
          <6>1. k - 1 \in 1..n /\ put[k] = list[k - 1]
            BY <1>1, <2>2, <5>2
          <6> QED BY <6>1
        <5> QED BY <1>1, <3>4, <5>1, <5>2
      <4> QED BY <2>7, <3>1, <4>1 DEF Others, ToSet
    <3>5. ToSet(put) \subseteq Others(list, level.price) \cup {level}
      BY <3>1, <3>2, <3>4 DEF ToSet
    <3>6. level \in ToSet(put)
      BY <1>1, <3>1, <3>2 DEF ToSet
    <3> QED BY <3>3, <3>5, <3>6
  <2> QED BY <2>2, <2>6, <2>8 DEF put
<1> QED BY <1>3, <1>4

\* Without its first level a side is without its worst.
LEMMA TailIs ==
    ASSUME NEW R, Strict(R), NEW list \in Seq(Level), Ordered(list, R), Len(list) >= 1
    PROVE  /\ Tail(list) \in Seq(Level) /\ Ordered(Tail(list), R)
           /\ Len(Tail(list)) = Len(list) - 1
           /\ ToSet(Tail(list)) = ToSet(list) \ {list[1]}
           /\ \A l \in ToSet(Tail(list)) : <<list[1].price, l.price>> \in R
<1> DEFINE n == Len(list)
           tail == Tail(list)
<1>1. n \in Nat /\ list # <<>> /\ 1 \in 1..n
  OBVIOUS
<1>2. /\ tail \in Seq(Level) /\ Len(tail) = n - 1
      /\ \A k \in 1..Len(tail) : tail[k] = list[k + 1]
  BY <1>1, HeadTailProperties
<1> HIDE DEF tail
<1>3. \A k \in 1..(n - 1) : k + 1 \in 1..n /\ 1 < k + 1 /\ tail[k] = list[k + 1]
  BY <1>1, <1>2
<1>4. Ordered(tail, R)
  <2> SUFFICES ASSUME NEW i \in 1..(n - 1), NEW j \in 1..(n - 1), i < j
               PROVE  <<tail[i].price, tail[j].price>> \in R
    BY <1>2 DEF Ordered
  <2>1. i + 1 < j + 1
    OBVIOUS
  <2> QED BY <1>3, <2>1 DEF Ordered
<1>5. \A k \in 1..(n - 1) : <<list[1].price, tail[k].price>> \in R
  BY <1>1, <1>3 DEF Ordered
<1>6. DOMAIN tail = 1..(n - 1) /\ DOMAIN list = 1..n
  BY <1>2
<1>7. list[1].price \in Price
  BY <1>1, PriceType
<1>8. list[1] \notin ToSet(tail)
  BY <1>5, <1>6, <1>7 DEF ToSet, Strict
<1>9. ToSet(tail) \subseteq ToSet(list)
  BY <1>3, <1>6 DEF ToSet
<1>10. ASSUME NEW l \in ToSet(list), l # list[1] PROVE l \in ToSet(tail)
  <2>1. PICK j \in 1..n : l = list[j]
    BY <1>6 DEF ToSet
  <2>2. j - 1 \in 1..(n - 1) /\ (j - 1) + 1 = j
    BY <1>1, <1>10, <2>1
  <2> QED BY <1>3, <1>6, <2>1, <2>2 DEF ToSet
<1>11. \A l \in ToSet(tail) : <<list[1].price, l.price>> \in R
  BY <1>5, <1>6 DEF ToSet
<1> QED BY <1>2, <1>4, <1>8, <1>9, <1>10, <1>11 DEF tail

-----------------------------------------------------------------------------
(***************************************************************************)
(* One level of an update                                                  *)
(***************************************************************************)

\* A side that shows these levels, or all of them but the worst, which is
\* given up only when the side is full.
Shows(side, levels, R, depth) ==
    \/ ToSet(side) = levels
    \/ \E w \in levels :
          /\ ToSet(side) = levels \ {w}
          /\ Len(side) = depth
          /\ \A l \in ToSet(side) : <<w.price, l.price>> \in R

\* A side that is one level too long gives up its worst.
LEMMA PopIs ==
    ASSUME NEW R, Strict(R), NEW list \in Seq(Level), Ordered(list, R),
           NEW depth \in Nat, Len(list) <= depth + 1
    PROVE  /\ IsSide(PopWorst(list, depth), R, depth)
           /\ Shows(PopWorst(list, depth), ToSet(list), R, depth)
<1>1. CASE Len(list) <= depth
  <2>1. PopWorst(list, depth) = list
    BY <1>1 DEF PopWorst
  <2> QED BY <1>1, <2>1 DEF IsSide, Shows
<1>2. CASE ~(Len(list) <= depth)
  <2>1. PopWorst(list, depth) = Tail(list) /\ Len(list) = depth + 1 /\ Len(list) >= 1
    BY <1>2 DEF PopWorst
  <2>2. /\ Tail(list) \in Seq(Level) /\ Ordered(Tail(list), R)
        /\ Len(Tail(list)) = Len(list) - 1
        /\ ToSet(Tail(list)) = ToSet(list) \ {list[1]}
        /\ \A l \in ToSet(Tail(list)) : <<list[1].price, l.price>> \in R
    BY <2>1, TailIs
  <2>3. list[1] \in ToSet(list)
    BY <2>1 DEF ToSet
  <2>4. Len(Tail(list)) = depth
    BY <2>1, <2>2
  <2> QED BY <2>1, <2>2, <2>3, <2>4 DEF IsSide, Shows
<1> QED BY <1>1, <1>2

\* Putting a level where the walk stops, then the limit.
LEMMA UpsertIs ==
    ASSUME NEW R, Strict(R), NEW depth \in Nat, NEW list, IsSide(list, R, depth),
           NEW level \in Level, NEW i, StopsAt(list, R, level.price, i)
    PROVE  /\ IsSide(PopWorst(PutAt(list, level, i), depth), R, depth)
           /\ Shows(PopWorst(PutAt(list, level, i), depth),
                    Others(list, level.price) \cup {level}, R, depth)
<1> DEFINE put == PutAt(list, level, i)
<1>1. list \in Seq(Level) /\ Ordered(list, R) /\ Len(list) <= depth /\ Len(list) \in Nat
  BY DEF IsSide
<1>2. /\ put \in Seq(Level) /\ Ordered(put, R)
      /\ ToSet(put) = Others(list, level.price) \cup {level}
      /\ Len(put) \in {Len(list), Len(list) + 1}
  BY <1>1, PutAtIs
<1> HIDE DEF put
<1>3. Len(put) <= depth + 1
  BY <1>1, <1>2
<1>4. IsSide(PopWorst(put, depth), R, depth) /\ Shows(PopWorst(put, depth), ToSet(put), R, depth)
  BY <1>2, <1>3, PopIs
<1> QED BY <1>2, <1>4 DEF put

\* UpsertBid and UpsertAsk (model/order_book.h) leave an ordered side of at
\* most depth levels.  It has the new level in the place of any level of that
\* price, and all the others; only a side that would be too long loses one,
\* and that is the one no other level of the side is worse than.
THEOREM UpsertCorrect ==
    ASSUME NEW depth \in Nat, NEW level \in Level, NEW side
    PROVE  /\ IsSide(side, Rising, depth) =>
                /\ IsSide(UpsertBid(side, level, depth), Rising, depth)
                /\ Shows(UpsertBid(side, level, depth),
                         Others(side, level.price) \cup {level}, Rising, depth)
           /\ IsSide(side, Falling, depth) =>
                /\ IsSide(UpsertAsk(side, level, depth), Falling, depth)
                /\ Shows(UpsertAsk(side, level, depth),
                         Others(side, level.price) \cup {level}, Falling, depth)
<1>1. level.price \in Price
  BY DEF Level, Price
<1>2. ASSUME IsSide(side, Rising, depth)
      PROVE  StopsAt(side, Rising, level.price, BidPosition(side, level.price))
  BY <1>1, <1>2, BidStops DEF IsSide
<1>3. ASSUME IsSide(side, Falling, depth)
      PROVE  StopsAt(side, Falling, level.price, AskPosition(side, level.price))
  BY <1>1, <1>3, AskStops DEF IsSide
<1> QED BY <1>2, <1>3, BothStrict, UpsertIs DEF UpsertBid, UpsertAsk

\* Taking out the level at position i.
LEMMA RemoveAtIs ==
    ASSUME NEW list \in Seq(Level), NEW i \in 1..Len(list)
    PROVE  /\ RemoveAt(list, i) \in Seq(Level)
           /\ Len(RemoveAt(list, i)) = Len(list) - 1
           /\ \A k \in 1..(Len(list) - 1) :
                RemoveAt(list, i)[k] = IF k < i THEN list[k] ELSE list[k + 1]
<1> DEFINE n == Len(list)
           front == SubSeq(list, 1, i - 1)
           back == SubSeq(list, i + 1, n)
<1>1. n \in Nat /\ i \in Int /\ i >= 1 /\ i <= n
  OBVIOUS
<1>2. front \in Seq(Level) /\ Len(front) = i - 1 /\ \A k \in 1..(i - 1) : front[k] = list[k]
  <2>1. \A k \in 1..(i - 1) : list[k] \in Level
    BY <1>1
  <2>2. /\ front \in Seq(Level) /\ Len(front) = IF 1 <= i - 1 THEN (i - 1) - 1 + 1 ELSE 0
        /\ \A k \in 1..((i - 1) - 1 + 1) : front[k] = list[1 + k - 1]
    BY <1>1, <2>1, SubSeqProperties
  <2> HIDE DEF front
  <2>3. \A k \in 1..(i - 1) : k \in 1..((i - 1) - 1 + 1) /\ 1 + k - 1 = k
    BY <1>1
  <2>4. Len(front) = i - 1
    BY <1>1, <2>2
  <2> QED BY <2>2, <2>3, <2>4
<1>3. back \in Seq(Level) /\ Len(back) = n - i /\ \A k \in 1..(n - i) : back[k] = list[i + k]
  <2>1. \A k \in (i + 1)..n : list[k] \in Level
    BY <1>1
  <2>2. /\ back \in Seq(Level) /\ Len(back) = IF i + 1 <= n THEN n - (i + 1) + 1 ELSE 0
        /\ \A k \in 1..(n - (i + 1) + 1) : back[k] = list[(i + 1) + k - 1]
    BY <1>1, <2>1, SubSeqProperties
  <2> HIDE DEF back
  <2>3. \A k \in 1..(n - i) : k \in 1..(n - (i + 1) + 1) /\ (i + 1) + k - 1 = i + k
    BY <1>1
  <2>4. Len(back) = n - i
    BY <1>1, <2>2
  <2> QED BY <2>2, <2>3, <2>4
<1>4. RemoveAt(list, i) = front \o back
  BY DEF RemoveAt
<1> HIDE DEF front, back
<1>5. /\ front \o back \in Seq(Level) /\ Len(front \o back) = (i - 1) + (n - i)
      /\ \A k \in 1..((i - 1) + (n - i)) :
            (front \o back)[k] = IF k <= i - 1 THEN front[k] ELSE back[k - (i - 1)]
  <2>1. /\ front \o back \in Seq(Level) /\ Len(front \o back) = Len(front) + Len(back)
        /\ \A k \in 1..(Len(front) + Len(back)) :
              (front \o back)[k] = IF k <= Len(front) THEN front[k] ELSE back[k - Len(front)]
    BY <1>2, <1>3, ConcatProperties
  <2> QED BY <1>2, <1>3, <2>1
<1>6. ASSUME NEW k \in 1..(n - 1)
      PROVE  (front \o back)[k] = IF k < i THEN list[k] ELSE list[k + 1]
  <2>1. k \in 1..((i - 1) + (n - i)) /\ (k < i => k \in 1..(i - 1) /\ k <= i - 1)
          /\ (~(k < i) => /\ ~(k <= i - 1) /\ k - (i - 1) \in 1..(n - i)
                          /\ i + (k - (i - 1)) = k + 1)
    BY <1>1
  <2> QED BY <1>2, <1>3, <1>5, <2>1
<1> QED BY <1>1, <1>4, <1>5, <1>6

\* Delete takes out the level of that price, wherever the side has it, and
\* nothing else.
LEMMA DeleteIs ==
    ASSUME NEW R, Strict(R), NEW depth \in Nat, NEW list, IsSide(list, R, depth), NEW price \in Price
    PROVE  /\ IsSide(Delete(list, price), R, depth)
           /\ ToSet(Delete(list, price)) = Others(list, price)
<1> DEFINE n == Len(list)
           found == {i \in 1..n : list[i].price = price}
           new == Delete(list, price)
<1>1. list \in Seq(Level) /\ Ordered(list, R) /\ n <= depth /\ n \in Nat /\ DOMAIN list = 1..n
  BY DEF IsSide
<1>2. \A j \in 1..n : list[j] \in Level /\ list[j].price \in Price
  BY <1>1, PriceType
<1>3. CASE found = {}
  <2>1. new = list
    BY <1>3 DEF Delete
  <2>2. ToSet(list) = Others(list, price)
    BY <1>1, <1>3 DEF ToSet, Others
  <2> QED BY <2>1, <2>2
<1>4. CASE found # {}
  <2>1. PICK i \in 1..n : list[i].price = price
    BY <1>4
  <2>2. \A j \in 1..n : j # i => list[j].price # price
    <3> TAKE j \in 1..n
    <3>1. j # i => <<list[j].price, list[i].price>> \in R \/ <<list[i].price, list[j].price>> \in R
      BY <1>1, <2>1 DEF Ordered
    <3> QED BY <1>2, <2>1, <3>1 DEF Strict
  <2>3. found = {i} /\ i >= i
    BY <2>1, <2>2
  <2>4. Max(found) = i
    BY <2>3 DEF Max
  <2>5. new = RemoveAt(list, i)
    BY <1>4, <2>4 DEF Delete
  <2>6. /\ new \in Seq(Level) /\ Len(new) = n - 1
        /\ \A k \in 1..(n - 1) : new[k] = IF k < i THEN list[k] ELSE list[k + 1]
    BY <1>1, <2>5, RemoveAtIs
  <2> HIDE DEF new
  <2>7. ASSUME NEW j \in 1..(n - 1), NEW k \in 1..(n - 1), j < k
        PROVE  <<new[j].price, new[k].price>> \in R
    <3>1. CASE k < i
      <4>1. new[j] = list[j] /\ new[k] = list[k] /\ j \in 1..n /\ k \in 1..n
        BY <1>1, <2>6, <2>7, <3>1
      <4> QED BY <1>1, <2>7, <4>1 DEF Ordered
    <3>2. CASE ~(k < i) /\ j < i
      <4>1. new[j] = list[j] /\ new[k] = list[k + 1] /\ j \in 1..n /\ k + 1 \in 1..n /\ j < k + 1
        BY <1>1, <2>6, <2>7, <3>2
      <4> QED BY <1>1, <4>1 DEF Ordered
    <3>3. CASE ~(k < i) /\ ~(j < i)
      <4>1. /\ new[j] = list[j + 1] /\ new[k] = list[k + 1]
            /\ j + 1 \in 1..n /\ k + 1 \in 1..n /\ j + 1 < k + 1
        BY <1>1, <2>6, <2>7, <3>3
      <4> QED BY <1>1, <4>1 DEF Ordered
    <3> QED BY <3>1, <3>2, <3>3
  <2>8. Ordered(new, R)
    BY <2>6, <2>7 DEF Ordered
  <2>9. DOMAIN new = 1..(n - 1)
    BY <2>6
  <2>10. ASSUME NEW k \in 1..(n - 1) PROVE new[k] \in Others(list, price)
    <3>1. PICK j \in 1..n : new[k] = list[j] /\ j # i
      <4>1. CASE k < i
        <5>1. k \in 1..n /\ new[k] = list[k] /\ k # i
          BY <1>1, <2>6, <4>1
        <5> QED BY <5>1
      <4>2. CASE ~(k < i)
        <5>1. k + 1 \in 1..n /\ new[k] = list[k + 1] /\ k + 1 # i
          BY <1>1, <2>6, <4>2
        <5> QED BY <5>1
      <4> QED BY <4>1, <4>2
    <3> QED BY <1>1, <2>2, <3>1 DEF ToSet, Others
  <2>11. ASSUME NEW l \in Others(list, price) PROVE l \in ToSet(new)
    <3>1. PICK j \in 1..n : l = list[j] /\ j # i
      BY <1>1, <2>1, <2>11 DEF ToSet, Others
    <3>2. CASE j < i
      <4>1. j \in 1..(n - 1) /\ new[j] = l
        BY <1>1, <2>6, <3>1, <3>2
      <4> QED BY <2>9, <4>1 DEF ToSet
    <3>3. CASE j > i
      <4>1. j - 1 \in 1..(n - 1) /\ new[j - 1] = list[(j - 1) + 1] /\ (j - 1) + 1 = j
        BY <1>1, <2>6, <3>1, <3>3
      <4> QED BY <2>9, <3>1, <4>1 DEF ToSet
    <3> QED BY <3>1, <3>2, <3>3
  <2>12. ToSet(new) = Others(list, price)
    BY <2>9, <2>10, <2>11 DEF ToSet
  <2>13. Len(new) <= depth
    BY <1>1, <2>6
  <2> QED BY <2>6, <2>8, <2>12, <2>13 DEF IsSide, new
<1> QED BY <1>3, <1>4

\* Delete (model/order_book.h) searches from the best level and stops at the
\* first it finds; the side has no other level of that price, so afterwards
\* none is left, and every other level is, in order.
THEOREM DeleteCorrect ==
    ASSUME NEW depth \in Nat, NEW price \in Price, NEW side,
           IsSide(side, Rising, depth) \/ IsSide(side, Falling, depth)
    PROVE  /\ ToSet(Delete(side, price)) = Others(side, price)
           /\ IsSide(side, Rising, depth) => IsSide(Delete(side, price), Rising, depth)
           /\ IsSide(side, Falling, depth) => IsSide(Delete(side, price), Falling, depth)
BY DeleteIs, BothStrict

\* The last level of an ordered side is the best one.
LEMMA BestIs ==
    ASSUME NEW R, NEW list \in Seq(Level), Ordered(list, R), list # <<>>
    PROVE  /\ BestOf(list) \in ToSet(list)
           /\ \A l \in ToSet(list) : l = BestOf(list) \/ <<l.price, BestOf(list).price>> \in R
<1> DEFINE n == Len(list)
<1>1. n \in Nat /\ n >= 1 /\ DOMAIN list = 1..n
  OBVIOUS
<1>2. BestOf(list) = list[n]
  BY DEF BestOf
<1>3. ASSUME NEW l \in ToSet(list) PROVE l = list[n] \/ <<l.price, list[n].price>> \in R
  <2>1. PICK j \in 1..n : l = list[j]
    BY <1>1 DEF ToSet
  <2>2. CASE j = n
    BY <2>1, <2>2
  <2>3. CASE j # n
    <3>1. j \in Int /\ j <= n /\ n \in 1..n
      BY <1>1
    <3>2. j < n
      <4>1. \A a, b \in Int : a <= b /\ a # b => a < b
        OBVIOUS
      <4>2. n \in Int
        BY <1>1
      <4> HIDE DEF n
      <4> QED BY <2>3, <3>1, <4>1, <4>2
    <3> QED BY <2>1, <3>1, <3>2 DEF Ordered
  <2> QED BY <2>2, <2>3
<1> QED BY <1>1, <1>2, <1>3 DEF ToSet

\* TickerFromOrderBook (exchange/exchange_listener.h) takes the last level of
\* each side: no ask of the book is lower than its ask, no bid higher than its
\* bid, and its volumes are those of these levels.  A side without levels has
\* volume 0, the only sign that its price of 0 is none.
THEOREM TickerCorrect ==
    ASSUME NEW depth \in Nat, NEW book,
           IsSide(book.asks, Falling, depth), IsSide(book.bids, Rising, depth)
    PROVE  LET ticker == TickerFromOrderBook(book)
           IN  /\ \A l \in ToSet(book.asks) : ticker.ask <= l.price
               /\ \A l \in ToSet(book.bids) : ticker.bid >= l.price
               /\ ticker.ask_vol = 0 <=> book.asks = <<>>
               /\ ticker.bid_vol = 0 <=> book.bids = <<>>
<1> DEFINE ticker == TickerFromOrderBook(book)
<1>1. /\ ticker.ask = BestOf(book.asks).price /\ ticker.ask_vol = BestOf(book.asks).volume
      /\ ticker.bid = BestOf(book.bids).price /\ ticker.bid_vol = BestOf(book.bids).volume
  BY DEF TickerFromOrderBook
<1>2. ASSUME NEW list \in Seq(Level)
      PROVE  \A l \in ToSet(list) : l \in Level /\ l.price \in Nat /\ l.volume \in Nat \ {0}
  <2> TAKE l \in ToSet(list)
  <2>1. PICK i \in 1..Len(list) : l = list[i]
    BY DEF ToSet
  <2>2. l \in Level
    BY <2>1, PriceType
  <2> QED BY <2>2 DEF Level
<1>3. BestOf(<<>>).volume = 0 /\ ToSet(<<>>) = {}
  BY DEF BestOf, Null, ToSet
<1>4. /\ book.asks \in Seq(Level) /\ Ordered(book.asks, Falling)
      /\ book.bids \in Seq(Level) /\ Ordered(book.bids, Rising)
  BY DEF IsSide
<1> HIDE DEF ticker
<1>5. (\A l \in ToSet(book.asks) : ticker.ask <= l.price) /\ (ticker.ask_vol = 0 <=> book.asks = <<>>)
  <2>1. CASE book.asks = <<>>
    BY <1>1, <1>3, <2>1
  <2>2. CASE book.asks # <<>>
    <3>1. /\ BestOf(book.asks) \in ToSet(book.asks)
          /\ \A l \in ToSet(book.asks) :
                l = BestOf(book.asks) \/ <<l.price, BestOf(book.asks).price>> \in Falling
      BY <1>4, <2>2, BestIs
    <3>2. \A l \in ToSet(book.asks) : BestOf(book.asks).price <= l.price
      <4> TAKE l \in ToSet(book.asks)
      <4>1. l.price \in Nat /\ BestOf(book.asks).price \in Nat
        BY <1>2, <1>4, <3>1
      <4>2. <<l.price, BestOf(book.asks).price>> \in Falling => BestOf(book.asks).price < l.price
        BY <4>1 DEF Falling
      <4> QED BY <3>1, <4>1, <4>2
    <3>3. BestOf(book.asks).volume # 0
      BY <1>2, <1>4, <3>1
    <3> QED BY <1>1, <2>2, <3>2, <3>3
  <2> QED BY <2>1, <2>2
<1>6. (\A l \in ToSet(book.bids) : ticker.bid >= l.price) /\ (ticker.bid_vol = 0 <=> book.bids = <<>>)
  <2>1. CASE book.bids = <<>>
    BY <1>1, <1>3, <2>1
  <2>2. CASE book.bids # <<>>
    <3>1. /\ BestOf(book.bids) \in ToSet(book.bids)
          /\ \A l \in ToSet(book.bids) :
                l = BestOf(book.bids) \/ <<l.price, BestOf(book.bids).price>> \in Rising
      BY <1>4, <2>2, BestIs
    <3>2. \A l \in ToSet(book.bids) : BestOf(book.bids).price >= l.price
      <4> TAKE l \in ToSet(book.bids)
      <4>1. l.price \in Nat /\ BestOf(book.bids).price \in Nat
        BY <1>2, <1>4, <3>1
      <4>2. <<l.price, BestOf(book.bids).price>> \in Rising => BestOf(book.bids).price > l.price
        BY <4>1 DEF Rising
      <4> QED BY <3>1, <4>1, <4>2
    <3>3. BestOf(book.bids).volume # 0
      BY <1>2, <1>4, <3>1
    <3> QED BY <1>1, <2>2, <3>2, <3>3
  <2> QED BY <2>1, <2>2
<1> QED BY <1>5, <1>6 DEF ticker

-----------------------------------------------------------------------------
(***************************************************************************)
(* A whole update                                                          *)
(*                                                                         *)
(* FoldLeft is a function on the sets of positions, chosen by its own      *)
(* equation.  There is one that satisfies it (WalkExists), and whichever   *)
(* does has a side at every prefix of the message (WalkStays); both by the *)
(* shortest prefix at which it would fail.                                 *)
(***************************************************************************)

\* A level of a message: volume 0 deletes.
Change == [price : Price, volume : Nat]

ChangeSide(side, level, R, depth) ==
    IF R = Rising THEN ChangeBid(side, level, depth) ELSE ChangeAsk(side, level, depth)

\* One level of a message leaves a side.
LEMMA ChangeIs ==
    ASSUME NEW R \in {Rising, Falling}, NEW depth \in Nat, NEW side, IsSide(side, R, depth),
           NEW level \in Change
    PROVE  IsSide(ChangeSide(side, level, R, depth), R, depth)
<1>1. Rising # Falling
  <2>1. <<1, 2>> \in Rising /\ <<1, 2>> \notin Falling
    BY DEF Rising, Falling, Price
  <2> QED BY <2>1
<1>2. level.price \in Price
  BY DEF Change
<1>3. CASE level.volume = 0
  BY <1>1, <1>2, <1>3, DeleteCorrect DEF ChangeSide, ChangeBid, ChangeAsk
<1>4. CASE level.volume # 0
  <2>1. level \in Level
    BY <1>4 DEF Change, Level, Price
  <2> QED BY <1>1, <1>4, <2>1, UpsertCorrect DEF ChangeSide, ChangeBid, ChangeAsk
<1> QED BY <1>3, <1>4

\* g is the fold over the positions T of a message.
Walk(g, T, base, seq, R, depth) ==
    g = [s \in SUBSET T |->
            IF s = {} THEN base ELSE ChangeSide(g[s \ {Max(s)}], seq[Max(s)], R, depth)]

\* The largest of a set of positions.
LEMMA MaxIs ==
    ASSUME NEW k \in Nat, NEW s \in SUBSET (1..k), k \in s
    PROVE  Max(s) = k
<1>1. \A y \in s : k >= y
  OBVIOUS
<1>2. Max(s) \in s /\ \A y \in s : Max(s) >= y
  BY <1>1 DEF Max
<1> HIDE DEF Max
<1>3. Max(s) \in 1..k
  BY <1>2
<1>4. Max(s) >= k
  BY <1>2
<1> QED BY <1>3, <1>4

\* There is a function that satisfies the fold's equation.
LEMMA WalkExists ==
    ASSUME NEW n \in Nat, NEW base, NEW seq, NEW R, NEW depth
    PROVE  \E g : Walk(g, 1..n, base, seq, R, depth)
<1> DEFINE Has(k) == \E g : Walk(g, 1..k, base, seq, R, depth)
           T == {k \in Nat : ~Has(k)}
<1> HIDE DEF Has
<1> SUFFICES ASSUME T # {} PROVE FALSE
  BY DEF Has
<1>1. PICK k \in T : \A j \in T : k <= j
  <2>1. T \subseteq Nat
    OBVIOUS
  <2> HIDE DEF T
  <2> QED BY <2>1, Least
<1>2. k \in Nat /\ ~Has(k)
  OBVIOUS
<1>3. CASE k = 0
  <2> DEFINE g == [s \in SUBSET (1..0) |-> base]
  <2>1. \A s \in SUBSET (1..0) : s = {}
    OBVIOUS
  <2>2. g = [s \in SUBSET (1..0) |->
              IF s = {} THEN base ELSE ChangeSide(g[s \ {Max(s)}], seq[Max(s)], R, depth)]
    BY <2>1
  <2>3. Has(0)
    BY <2>2 DEF Has, Walk
  <2> QED BY <1>2, <1>3, <2>3
<1>4. CASE k # 0
  <2>1. k - 1 \in Nat /\ k - 1 < k
    BY <1>2, <1>4
  <2>2. Has(k - 1)
    BY <1>1, <2>1
  <2>3. PICK g : Walk(g, 1..(k - 1), base, seq, R, depth)
    BY <2>2 DEF Has
  <2> DEFINE h == [s \in SUBSET (1..k) |->
                    IF k \in s THEN ChangeSide(g[s \ {k}], seq[k], R, depth) ELSE g[s]]
             next(s) == IF s = {} THEN base ELSE ChangeSide(h[s \ {Max(s)}], seq[Max(s)], R, depth)
  <2>4. \A s \in SUBSET (1..(k - 1)) :
          g[s] = IF s = {} THEN base ELSE ChangeSide(g[s \ {Max(s)}], seq[Max(s)], R, depth)
    BY <2>3 DEF Walk
  <2>5. \A s \in SUBSET (1..k) : k \notin s => s \in SUBSET (1..(k - 1)) /\ h[s] = g[s]
    BY <2>1
  <2>6. ASSUME NEW s \in SUBSET (1..k) PROVE h[s] = next(s)
    <3>1. CASE k \in s
      <4>1. Max(s) = k /\ s # {}
        BY <1>2, <3>1, MaxIs
      <4>2. h[s \ {k}] = g[s \ {k}]
        BY <2>5
      <4>3. h[s] = ChangeSide(g[s \ {k}], seq[k], R, depth)
        BY <3>1
      <4> QED BY <4>1, <4>2, <4>3
    <3>2. CASE k \notin s
      <4>1. h[s \ {Max(s)}] = g[s \ {Max(s)}]
        BY <2>5, <3>2
      <4>2. h[s] = g[s] /\ s \in SUBSET (1..(k - 1))
        BY <2>5, <3>2
      <4> QED BY <2>4, <4>1, <4>2
    <3> QED BY <3>1, <3>2
  <2>7. h = [s \in SUBSET (1..k) |-> next(s)]
    <3>1. h = [s \in SUBSET (1..k) |-> h[s]]
      OBVIOUS
    <3> HIDE DEF h, next
    <3> QED BY <2>6, <3>1
  <2>8. Has(k)
    <3> HIDE DEF h
    <3> QED BY <2>7 DEF Has, Walk
  <2> QED BY <1>2, <2>8
<1> QED BY <1>3, <1>4

\* Such a function has a side at every prefix of the message.
LEMMA WalkStays ==
    ASSUME NEW n \in Nat, NEW base, NEW seq, NEW R \in {Rising, Falling}, NEW depth \in Nat,
           NEW g, Walk(g, 1..n, base, seq, R, depth),
           IsSide(base, R, depth), \A i \in 1..n : seq[i] \in Change
    PROVE  IsSide(g[1..n], R, depth)
<1> DEFINE T == {k \in 0..n : ~IsSide(g[1..k], R, depth)}
<1> SUFFICES ASSUME T # {} PROVE FALSE
  OBVIOUS
<1>1. PICK k \in T : \A j \in T : k <= j
  <2>1. T \subseteq Nat
    OBVIOUS
  <2> HIDE DEF T
  <2> QED BY <2>1, Least
<1>2. k \in 0..n /\ ~IsSide(g[1..k], R, depth)
  OBVIOUS
<1>3. g[1..k] = IF 1..k = {} THEN base
                ELSE ChangeSide(g[(1..k) \ {Max(1..k)}], seq[Max(1..k)], R, depth)
  <2>1. 1..k \in SUBSET (1..n)
    BY <1>2
  <2> QED BY <2>1 DEF Walk
<1>4. CASE k = 0
  <2>1. 1..k = {}
    BY <1>4
  <2> QED BY <1>2, <1>3, <2>1
<1>5. CASE k # 0
  <2>1. k \in Nat /\ k \in 1..k /\ k - 1 \in 0..n /\ k - 1 < k /\ k \in 1..n
    BY <1>2, <1>5
  <2>2. Max(1..k) = k
    BY <2>1, MaxIs
  <2>3. (1..k) \ {k} = 1..(k - 1) /\ 1..k # {}
    <3>1. k \in Nat /\ k \in 1..k
      BY <2>1
    <3>2. \A x : x \in (1..k) \ {k} <=> x \in 1..(k - 1)
      BY <3>1
    <3> QED BY <3>1, <3>2
  <2>4. IsSide(g[1..(k - 1)], R, depth)
    BY <1>1, <2>1
  <2>5. g[1..k] = ChangeSide(g[1..(k - 1)], seq[k], R, depth)
    BY <1>3, <2>2, <2>3
  <2> QED BY <1>2, <2>1, <2>4, <2>5, ChangeIs
<1> QED BY <1>4, <1>5

\* What the folds of ChangeBook are.
LEMMA FoldIs ==
    ASSUME NEW book, NEW asks \in Seq(Change), NEW bids \in Seq(Change), NEW depth
    PROVE  /\ \E g : /\ Walk(g, 1..Len(asks), book.asks, asks, Falling, depth)
                     /\ ChangeBook(book, asks, bids, depth).asks = g[1..Len(asks)]
           /\ \E g : /\ Walk(g, 1..Len(bids), book.bids, bids, Rising, depth)
                     /\ ChangeBook(book, asks, bids, depth).bids = g[1..Len(bids)]
<1> DEFINE new == ChangeBook(book, asks, bids, depth)
           AskWalk(g) == g = [s \in SUBSET DOMAIN asks |->
              IF s = {} THEN book.asks ELSE ChangeAsk(g[s \ {Max(s)}], asks[Max(s)], depth)]
           BidWalk(g) == g = [s \in SUBSET DOMAIN bids |->
              IF s = {} THEN book.bids ELSE ChangeBid(g[s \ {Max(s)}], bids[Max(s)], depth)]
<1>1. Len(asks) \in Nat /\ DOMAIN asks = 1..Len(asks) /\ Len(bids) \in Nat /\ DOMAIN bids = 1..Len(bids)
  OBVIOUS
<1>2. \E g : Walk(g, 1..Len(asks), book.asks, asks, Falling, depth)
  BY <1>1, WalkExists
<1>3. \E g : Walk(g, 1..Len(bids), book.bids, bids, Rising, depth)
  BY <1>1, WalkExists
<1>4. \A side, level : ChangeSide(side, level, Rising, depth) = ChangeBid(side, level, depth)
  BY DEF ChangeSide
<1>5. \A side, level : ChangeSide(side, level, Falling, depth) = ChangeAsk(side, level, depth)
  <2>1. <<1, 2>> \in Rising /\ <<1, 2>> \notin Falling
    BY DEF Rising, Falling, Price
  <2>2. Rising # Falling
    BY <2>1
  <2> QED BY <2>2 DEF ChangeSide
<1>6. \A g : Walk(g, 1..Len(asks), book.asks, asks, Falling, depth) <=> AskWalk(g)
  BY <1>1, <1>5 DEF Walk
<1>7. \A g : Walk(g, 1..Len(bids), book.bids, bids, Rising, depth) <=> BidWalk(g)
  BY <1>1, <1>4 DEF Walk
<1>8. new.asks = (CHOOSE g : AskWalk(g))[DOMAIN asks]
  BY DEF ChangeBook, FoldLeft, MapThenFoldSet
<1>9. new.bids = (CHOOSE g : BidWalk(g))[DOMAIN bids]
  BY DEF ChangeBook, FoldLeft, MapThenFoldSet
<1> HIDE DEF new, AskWalk, BidWalk
<1>10. AskWalk(CHOOSE g : AskWalk(g))
  BY <1>2, <1>6
<1>11. BidWalk(CHOOSE g : BidWalk(g))
  BY <1>3, <1>7
<1>12. \E g : Walk(g, 1..Len(asks), book.asks, asks, Falling, depth) /\ new.asks = g[1..Len(asks)]
  BY <1>1, <1>6, <1>8, <1>10
<1>13. \E g : Walk(g, 1..Len(bids), book.bids, bids, Rising, depth) /\ new.bids = g[1..Len(bids)]
  BY <1>1, <1>7, <1>9, <1>11
<1> QED BY <1>12, <1>13 DEF new

\* An update of any number of levels, in any order and with any of them
\* repeated, leaves both sides in order, without two levels of one price, and
\* within the depth: what BestOf and the checksum take for granted of the book
\* (OrderBook::Update and the handlers' loops over the levels of a message).
THEOREM ChangeBookCorrect ==
    ASSUME NEW depth \in Nat, NEW book,
           IsSide(book.asks, Falling, depth), IsSide(book.bids, Rising, depth),
           NEW asks \in Seq(Change), NEW bids \in Seq(Change)
    PROVE  /\ IsSide(ChangeBook(book, asks, bids, depth).asks, Falling, depth)
           /\ IsSide(ChangeBook(book, asks, bids, depth).bids, Rising, depth)
           /\ Descending(ChangeBook(book, asks, bids, depth).asks)
           /\ Ascending(ChangeBook(book, asks, bids, depth).bids)
<1> DEFINE new == ChangeBook(book, asks, bids, depth)
<1>1. IsSide(new.asks, Falling, depth)
  <2>1. PICK g : Walk(g, 1..Len(asks), book.asks, asks, Falling, depth) /\ new.asks = g[1..Len(asks)]
    BY FoldIs
  <2>2. Len(asks) \in Nat /\ \A i \in 1..Len(asks) : asks[i] \in Change
    OBVIOUS
  <2> HIDE DEF new
  <2> QED BY <2>1, <2>2, WalkStays
<1>2. IsSide(new.bids, Rising, depth)
  <2>1. PICK g : Walk(g, 1..Len(bids), book.bids, bids, Rising, depth) /\ new.bids = g[1..Len(bids)]
    BY FoldIs
  <2>2. Len(bids) \in Nat /\ \A i \in 1..Len(bids) : bids[i] \in Change
    OBVIOUS
  <2> HIDE DEF new
  <2> QED BY <2>1, <2>2, WalkStays
<1> HIDE DEF new
<1>3. Descending(new.asks) /\ Ascending(new.bids)
  BY <1>1, <1>2, OrderedIs DEF IsSide
<1> QED BY <1>1, <1>2, <1>3 DEF new
=============================================================================
