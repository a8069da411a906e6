------------------------- MODULE KrakenOrderBookProofs -------------------------
(***************************************************************************)
(* The book of KrakenWebsocketClient against the exchange's, for every     *)
(* set of prices and volumes, every depth and any number of changes,       *)
(* losses and connections.                                                 *)
(*                                                                         *)
(* A level that comes into the subscribed depth is told, one that leaves   *)
(* it is not: the book has to drop it by itself.  That it does is Near: a  *)
(* book has levels of the exchange's only, under the prices they are       *)
(* stored as, and misses at most as many of them as it keeps fewer than it *)
(* is sent.  A book that keeps all it is sent then misses none.  Near      *)
(* needs a conversion that keeps prices apart: what is told of a side is   *)
(* then also what is to be told of the side as it is stored.               *)
(***************************************************************************)
EXTENDS KrakenOrderBook, OrderBookProofs, FiniteSetTheorems

Dir(side) == IF side = "asks" THEN Falling ELSE Rising

\* A side of the program's book, and the exchange's levels it was told of.
Near(mine, theirs, R, kept, feed) ==
    /\ IsSide(mine, R, kept)
    /\ IsSide(theirs, R, feed)
    /\ ToSet(mine) \subseteq ToSet(theirs)
    /\ Len(theirs) - Len(mine) <= feed - kept

NearBook(mine, theirs, kept, feed) ==
    \A side \in Sides : Near(mine[side], theirs[side], Dir(side), kept, feed)

Vols == [Sides -> [Prices -> Volumes \cup {0}]]

\* A message is a snapshot of the exchange's book at some time.
IsSnapshot(m, feed) == \E vol \in Vols : m = Snapshot(vol, feed)

\* A message tells of one change of the exchange's book; if no message was lost
\* before it, a change of the book that the message before it told of.
IsUpdate(m, before, feed) ==
    \E old \in Vols, side \in Sides, p \in Prices, v \in Volumes \cup {0} :
        LET new == [old EXCEPT ![side][p] = v]
        IN  /\ old[side][p] # v
            /\ Top(new, feed) # Top(old, feed)
            /\ m.kind = "update"
            /\ m.asks = IF side = "asks" THEN Told(old, new, side, p, feed) ELSE <<>>
            /\ m.bids = IF side = "bids" THEN Told(old, new, side, p, feed) ELSE <<>>
            /\ m.book = Top(new, feed)
            /\ m.gap \/ before = Top(old, feed)

\* The book of the message before the i-th on its way, and of the last one.
Before(i) == IF i = 1 THEN current ELSE net[i - 1].book

LastTold == IF net = <<>> THEN current ELSE net[Len(net)].book

\* The messages on their way, one leading to the next and the last one to the
\* exchange's book of now.
FeedInv ==
    /\ link = "closed" => ~feeding /\ net = <<>>
    /\ \A i \in 1..Len(net) : IsSnapshot(net[i], sub.feed) \/ IsUpdate(net[i], Before(i), sub.feed)
    /\ feeding /\ link = "open" /\ ~gap => LastTold = Top(volumes, sub.feed)

\* A level under the price it is stored as, and a book of such levels.
Kept(l) == [l EXCEPT !.price = sub.stored[@]]

Stored(book) == [side \in Sides |-> ParsePriceLevels(book[side])]

\* The program's book, and what the exchange's would be under the stored prices.
BookInv ==
    /\ \A side \in Sides : /\ IsSide(ob[side], Dir(side), sub.kept)
                           /\ IsSide(current[side], Dir(side), sub.feed)
    /\ intact /\ Apart => NearBook(ob, Stored(current), sub.kept, sub.feed)

Inv == TypeOK /\ FeedInv /\ BookInv

-----------------------------------------------------------------------------
(***************************************************************************)
(* Lists in order                                                          *)
(***************************************************************************)

\* A side is as long as it has levels.
LEMMA SideSize ==
    ASSUME NEW R, Strict(R), NEW list \in Seq(Level), Ordered(list, R)
    PROVE  IsFiniteSet(ToSet(list)) /\ Cardinality(ToSet(list)) = Len(list)
<1> DEFINE n == Len(list)
           f == [i \in 1..n |-> list[i]]
<1>1. n \in Nat /\ DOMAIN list = 1..n
  OBVIOUS
<1>2. f \in Injection(1..n, ToSet(list))
  <2>1. f \in [1..n -> ToSet(list)]
    BY <1>1 DEF ToSet
  <2>2. ASSUME NEW i \in 1..n, NEW j \in 1..n, f[i] = f[j] PROVE i = j
    <3>1. list[i].price \in Price /\ list[i] = list[j]
      BY <2>2, PriceType
    <3>2. <<list[i].price, list[j].price>> \notin R /\ <<list[j].price, list[i].price>> \notin R
      BY <3>1 DEF Strict
    <3>3. ~(i < j) /\ ~(j < i)
      BY <3>2 DEF Ordered
    <3> QED BY <3>3
  <2> HIDE DEF f
  <2> QED BY <2>1, <2>2 DEF Injection, IsInjective
<1>3. f \in Surjection(1..n, ToSet(list))
  BY <1>1 DEF Surjection, ToSet
<1>4. IsFiniteSet(1..n) /\ Cardinality(1..n) = n
  <2>1. Cardinality(1..n) = IF 1 > n THEN 0 ELSE n - 1 + 1
    BY <1>1, FS_Interval
  <2> QED BY <1>1, <2>1, FS_Interval
<1> HIDE DEF f
<1>5. /\ IsFiniteSet(ToSet(list))
      /\ Cardinality(ToSet(list)) = Cardinality(1..n) <=> f \in Injection(1..n, ToSet(list))
  BY <1>3, <1>4, FS_Surjection
<1> QED BY <1>2, <1>4, <1>5

\* Two sides with the same levels are the same.
LEMMA SameSide ==
    ASSUME NEW R, Strict(R), NEW a \in Seq(Level), Ordered(a, R),
           NEW b \in Seq(Level), Ordered(b, R),
           ToSet(a) = ToSet(b)
    PROVE  a = b
<1> DEFINE n == Len(a)
<1>1. n \in Nat /\ Len(b) = n /\ DOMAIN a = 1..n /\ DOMAIN b = 1..n
  BY SideSize
<1>2. \A i \in 1..n : a[i].price \in Price /\ b[i].price \in Price
  BY <1>1, PriceType
<1> DEFINE T == {i \in 1..n : a[i] # b[i]}
<1>3. SUFFICES ASSUME T # {} PROVE FALSE
  <2>1. T = {} => \A i \in 1..n : a[i] = b[i]
    OBVIOUS
  <2>2. a = [i \in 1..n |-> a[i]] /\ b = [i \in 1..n |-> b[i]]
    BY <1>1
  <2> QED BY <1>1, <2>1, <2>2
<1>4. PICK i \in T : \A k \in T : i <= k
  <2>1. T \subseteq Nat
    OBVIOUS
  <2> HIDE DEF T
  <2> QED BY <1>3, <2>1, Least
<1>5. i \in 1..n /\ a[i] # b[i] /\ \A k \in 1..n : k < i => a[k] = b[k]
  BY <1>4
<1>6. PICK j \in 1..n : a[i] = b[j]
  <2>1. a[i] \in ToSet(a)
    BY <1>1, <1>5 DEF ToSet
  <2> QED BY <1>1, <2>1 DEF ToSet
<1>7. PICK k \in 1..n : b[i] = a[k]
  <2>1. b[i] \in ToSet(b)
    BY <1>1, <1>5 DEF ToSet
  <2> QED BY <1>1, <2>1 DEF ToSet
<1>8. i < j
  <2>1. CASE j < i
    <3>1. a[j] = a[i]
      BY <1>5, <1>6, <2>1
    <3>2. <<a[j].price, a[i].price>> \in R
      BY <1>5, <2>1 DEF Ordered
    <3> QED BY <1>2, <1>5, <3>1, <3>2 DEF Strict
  <2> QED BY <1>5, <1>6, <2>1
<1>9. i < k
  <2>1. CASE k < i
    <3>1. b[k] = b[i]
      BY <1>5, <1>7, <2>1
    <3>2. <<b[k].price, b[i].price>> \in R
      BY <1>1, <1>5, <2>1 DEF Ordered
    <3> QED BY <1>2, <1>5, <3>1, <3>2 DEF Strict
  <2> QED BY <1>5, <1>7, <2>1
<1>10. <<b[i].price, a[i].price>> \in R
  BY <1>1, <1>5, <1>6, <1>8 DEF Ordered
<1>11. <<a[i].price, b[i].price>> \in R
  BY <1>5, <1>7, <1>9 DEF Ordered
<1>12. <<a[i].price, a[i].price>> \in R
  BY <1>2, <1>5, <1>10, <1>11 DEF Strict
<1> QED BY <1>2, <1>5, <1>12 DEF Strict
-----------------------------------------------------------------------------
(***************************************************************************)
(* The exchange's best levels                                              *)
(***************************************************************************)

\* How many levels of the exchange are better than the one at price p.
Place(vol, side, p) == Cardinality(Better(vol, side, p))

\* The prices within the depth, and the level at a price.
Within(vol, side, depth) == {p \in Listed(vol, side) : Place(vol, side, p) < depth}

LevelAt(vol, side, p) == [price |-> p, volume |-> vol[side][p]]

\* Prices of the exchange are prices of the book, ordered as in the book.
LEMMA PricesIs ==
    ASSUME NEW side \in Sides
    PROVE  /\ Prices \subseteq Price /\ Strict(Dir(side))
           /\ \A p, q \in Prices : Worse(side, p, q) <=> <<p, q>> \in Dir(side)
<1>1. Prices \subseteq Price
  BY KrakenAssumption DEF Price
<1> QED BY <1>1, BothStrict DEF Worse, Dir, Rising, Falling

\* What is listed.
LEMMA ListedIs ==
    ASSUME NEW vol \in Vols, NEW side \in Sides
    PROVE  /\ Listed(vol, side) \subseteq Prices /\ IsFiniteSet(Listed(vol, side))
           /\ \A p \in Listed(vol, side) :
                 vol[side][p] \in Volumes /\ LevelAt(vol, side, p) \in Level
<1>1. Listed(vol, side) \subseteq Prices
  BY DEF Listed
<1>2. IsFiniteSet(Listed(vol, side))
  BY <1>1, KrakenAssumption, FS_Subset
<1>3. ASSUME NEW p \in Listed(vol, side)
      PROVE  vol[side][p] \in Volumes /\ LevelAt(vol, side, p) \in Level
  <2>1. p \in Prices /\ vol[side][p] # 0
    BY DEF Listed
  <2>2. vol[side][p] \in Volumes
    BY <2>1 DEF Vols
  <2> QED BY <2>1, <2>2, KrakenAssumption DEF LevelAt, Level
<1> QED BY <1>1, <1>2, <1>3

\* A better level has fewer better ones.
LEMMA PlaceFalls ==
    ASSUME NEW vol \in Vols, NEW side \in Sides,
           NEW p \in Listed(vol, side), NEW q \in Listed(vol, side),
           <<p, q>> \in Dir(side)
    PROVE  Place(vol, side, q) < Place(vol, side, p)
<1>1. /\ Listed(vol, side) \subseteq Prices /\ IsFiniteSet(Listed(vol, side))
      /\ Prices \subseteq Price /\ Strict(Dir(side))
      /\ \A a, b \in Prices : Worse(side, a, b) <=> <<a, b>> \in Dir(side)
  BY ListedIs, PricesIs
<1>2. q \notin Better(vol, side, q)
  BY <1>1 DEF Better, Strict
<1>3. Better(vol, side, q) \cup {q} \in SUBSET Better(vol, side, p)
  <2>1. ASSUME NEW r \in Better(vol, side, q) PROVE r \in Better(vol, side, p)
    <3>1. r \in Listed(vol, side) /\ <<q, r>> \in Dir(side)
      BY <1>1 DEF Better
    <3>2. <<p, r>> \in Dir(side)
      BY <1>1, <3>1 DEF Strict
    <3> QED BY <1>1, <3>1, <3>2 DEF Better
  <2>2. q \in Better(vol, side, p)
    BY <1>1 DEF Better
  <2> QED BY <2>1, <2>2
<1>4. IsFiniteSet(Better(vol, side, q)) /\ IsFiniteSet(Better(vol, side, p))
  <2>1. /\ Better(vol, side, q) \in SUBSET Listed(vol, side)
        /\ Better(vol, side, p) \in SUBSET Listed(vol, side)
    BY DEF Better
  <2> QED BY <1>1, <2>1, FS_Subset
<1>5. Cardinality(Better(vol, side, q) \cup {q}) = Cardinality(Better(vol, side, q)) + 1
  BY <1>2, <1>4, FS_AddElement
<1>6. Cardinality(Better(vol, side, q) \cup {q}) <= Cardinality(Better(vol, side, p))
  BY <1>3, <1>4, FS_Subset
<1>7. Cardinality(Better(vol, side, q)) \in Nat /\ Cardinality(Better(vol, side, p)) \in Nat
  BY <1>4, FS_CardinalityType
<1> QED BY <1>5, <1>6, <1>7 DEF Place

\* The places are 0, 1, 2 and so on, each taken once, in the order of the prices.
LEMMA Places ==
    ASSUME NEW vol \in Vols, NEW side \in Sides
    PROVE  LET n == Cardinality(Listed(vol, side))
           IN  /\ n \in Nat
               /\ \A p \in Listed(vol, side) : Place(vol, side, p) \in 0..(n - 1)
               /\ \A p, q \in Listed(vol, side) :
                     <<p, q>> \in Dir(side) <=> Place(vol, side, q) < Place(vol, side, p)
               /\ \A p, q \in Listed(vol, side) :
                     Place(vol, side, q) = Place(vol, side, p) => p = q
               /\ \A k \in 0..(n - 1) : \E p \in Listed(vol, side) : Place(vol, side, p) = k
<1> DEFINE L == Listed(vol, side)
           n == Cardinality(L)
<1>1. /\ L \subseteq Prices /\ IsFiniteSet(L) /\ Prices \subseteq Price /\ Strict(Dir(side))
      /\ \A a, b \in Prices : Worse(side, a, b) <=> <<a, b>> \in Dir(side)
  BY ListedIs, PricesIs
<1>2. n \in Nat
  BY <1>1, FS_CardinalityType
<1>3. ASSUME NEW p \in L PROVE Place(vol, side, p) \in 0..(n - 1)
  <2>1. Better(vol, side, p) \in SUBSET L /\ p \notin Better(vol, side, p)
    BY <1>1 DEF Better, Strict
  <2>2. Better(vol, side, p) \cup {p} \in SUBSET L
    BY <2>1
  <2>3. IsFiniteSet(Better(vol, side, p))
    BY <1>1, <2>1, FS_Subset
  <2>4. Cardinality(Better(vol, side, p) \cup {p}) = Cardinality(Better(vol, side, p)) + 1
    BY <2>1, <2>3, FS_AddElement
  <2>5. Cardinality(Better(vol, side, p) \cup {p}) <= n
    BY <1>1, <2>2, FS_Subset
  <2>6. Cardinality(Better(vol, side, p)) \in Nat
    BY <2>3, FS_CardinalityType
  <2> QED BY <1>2, <2>4, <2>5, <2>6 DEF Place
<1>4. ASSUME NEW p \in L, NEW q \in L
      PROVE  /\ <<p, q>> \in Dir(side) <=> Place(vol, side, q) < Place(vol, side, p)
             /\ Place(vol, side, q) = Place(vol, side, p) => p = q
  <2>1. p # q => <<p, q>> \in Dir(side) \/ <<q, p>> \in Dir(side)
    BY <1>1 DEF Strict
  <2>2. <<p, q>> \in Dir(side) => Place(vol, side, q) < Place(vol, side, p)
    BY PlaceFalls
  <2>3. <<q, p>> \in Dir(side) => Place(vol, side, p) < Place(vol, side, q)
    BY PlaceFalls
  <2>4. Place(vol, side, p) \in Int /\ Place(vol, side, q) \in Int
    BY <1>2, <1>3
  <2> QED BY <2>1, <2>2, <2>3, <2>4
<1>5. ASSUME NEW k \in 0..(n - 1) PROVE \E p \in L : Place(vol, side, p) = k
  <2> DEFINE f == [p \in L |-> Place(vol, side, p)]
  <2>1. f \in Injection(L, 0..(n - 1))
    <3>1. f \in [L -> 0..(n - 1)]
      BY <1>3
    <3>2. \A p, q \in L : f[p] = f[q] => p = q
      BY <1>4
    <3> HIDE DEF f
    <3> QED BY <3>1, <3>2 DEF Injection, IsInjective
  <2>2. IsFiniteSet(0..(n - 1)) /\ Cardinality(0..(n - 1)) = n
    <3> HIDE DEF n
    <3>1. /\ IsFiniteSet(0..(n - 1))
          /\ Cardinality(0..(n - 1)) = IF 0 > n - 1 THEN 0 ELSE (n - 1) - 0 + 1
      BY <1>2, FS_Interval
    <3> QED BY <1>2, <3>1
  <2>3. f \in Surjection(L, 0..(n - 1))
    <3> HIDE DEF f
    <3> QED BY <2>1, <2>2, FS_Injection
  <2> QED BY <2>3 DEF Surjection
<1> QED BY <1>2, <1>3, <1>4, <1>5

\* Best lists the levels within the depth, in the order of the book.
LEMMA TopIs ==
    ASSUME NEW vol \in Vols, NEW side \in Sides, NEW depth \in Nat
    PROVE  /\ IsSide(Best(vol, side, depth), Dir(side), depth)
           /\ ToSet(Best(vol, side, depth)) =
                 {LevelAt(vol, side, p) : p \in Within(vol, side, depth)}
           /\ Len(Best(vol, side, depth)) =
                 IF Cardinality(Listed(vol, side)) < depth
                 THEN Cardinality(Listed(vol, side)) ELSE depth
<1> DEFINE L == Listed(vol, side)
           n == Cardinality(L)
           count == IF n < depth THEN n ELSE depth
           At(i) == CHOOSE p \in L : Place(vol, side, p) = count - i
           best == Best(vol, side, depth)
<1>1. /\ n \in Nat
      /\ \A p \in L : Place(vol, side, p) \in 0..(n - 1)
      /\ \A p, q \in L : <<p, q>> \in Dir(side) <=> Place(vol, side, q) < Place(vol, side, p)
      /\ \A p, q \in L : Place(vol, side, q) = Place(vol, side, p) => p = q
      /\ \A k \in 0..(n - 1) : \E p \in L : Place(vol, side, p) = k
  BY Places
<1>2. best = [i \in 1..count |-> [price |-> At(i), volume |-> vol[side][At(i)]]]
  BY DEF Best, Place
<1>3. count \in Nat /\ count <= n /\ count <= depth
  BY <1>1
<1>4. ASSUME NEW i \in 1..count PROVE At(i) \in L /\ Place(vol, side, At(i)) = count - i
  <2>1. count - i \in 0..(n - 1)
    BY <1>1, <1>3
  <2>2. \E p \in L : Place(vol, side, p) = count - i
    BY <1>1, <2>1
  <2> QED BY <2>2
<1> HIDE DEF best, At
<1>5. /\ DOMAIN best = 1..count
      /\ \A i \in 1..count : best[i] = LevelAt(vol, side, At(i))
  BY <1>2 DEF LevelAt
<1>6. best \in Seq(Level) /\ Len(best) = count
  <2>1. \A i \in 1..count : best[i] \in Level
    BY <1>4, <1>5, ListedIs
  <2>2. best \in [1..count -> Level]
    BY <1>2, <1>5, <2>1
  <2> QED BY <1>3, <2>2
<1>7. Ordered(best, Dir(side))
  <2> SUFFICES ASSUME NEW i \in 1..count, NEW j \in 1..count, i < j
               PROVE  <<best[i].price, best[j].price>> \in Dir(side)
    BY <1>6 DEF Ordered
  <2>1. best[i].price = At(i) /\ best[j].price = At(j)
    <3>1. \A p : LevelAt(vol, side, p).price = p
      BY DEF LevelAt
    <3>2. best[i] = LevelAt(vol, side, At(i)) /\ best[j] = LevelAt(vol, side, At(j))
      BY <1>5
    <3> QED BY <3>1, <3>2
  <2>2. count - j < count - i
    BY <1>3
  <2> QED BY <1>1, <1>4, <2>1, <2>2
<1>8. ASSUME NEW l \in ToSet(best)
      PROVE  l \in {LevelAt(vol, side, p) : p \in Within(vol, side, depth)}
  <2>1. PICK i \in 1..count : l = LevelAt(vol, side, At(i))
    BY <1>5 DEF ToSet
  <2>2. count - i < depth
    BY <1>3
  <2> QED BY <1>4, <2>1, <2>2 DEF Within
<1>9. ASSUME NEW p \in Within(vol, side, depth) PROVE LevelAt(vol, side, p) \in ToSet(best)
  <2>1. p \in L /\ Place(vol, side, p) \in 0..(n - 1) /\ Place(vol, side, p) < depth
    BY <1>1 DEF Within
  <2>2. count - Place(vol, side, p) \in 1..count
    BY <1>1, <1>3, <2>1
  <2> DEFINE i == count - Place(vol, side, p)
  <2>3. Place(vol, side, At(i)) = Place(vol, side, p) /\ At(i) \in L
    BY <1>3, <1>4, <2>1, <2>2
  <2>4. At(i) = p
    BY <1>1, <2>1, <2>3
  <2> QED BY <1>5, <2>2, <2>4 DEF ToSet
<1> QED BY <1>3, <1>6, <1>7, <1>8, <1>9 DEF IsSide, best
-----------------------------------------------------------------------------
(***************************************************************************)
(* One level of a message                                                  *)
(***************************************************************************)

\* A side has at most one level of a price.
LEMMA OthersIs ==
    ASSUME NEW R, Strict(R), NEW list \in Seq(Level), Ordered(list, R), NEW price
    PROVE  \/ \E m \in ToSet(list) : m.price = price /\ Others(list, price) = ToSet(list) \ {m}
           \/ (\A m \in ToSet(list) : m.price # price) /\ Others(list, price) = ToSet(list)
<1> DEFINE n == Len(list)
<1>1. n \in Nat /\ DOMAIN list = 1..n
  OBVIOUS
<1>2. ASSUME NEW i \in 1..n, NEW j \in 1..n, list[i].price = list[j].price PROVE i = j
  <2>1. list[i].price \in Price
    BY PriceType
  <2>2. <<list[i].price, list[j].price>> \notin R /\ <<list[j].price, list[i].price>> \notin R
    BY <1>2, <2>1 DEF Strict
  <2>3. ~(i < j) /\ ~(j < i)
    BY <2>2 DEF Ordered
  <2> QED BY <2>3
<1>3. ASSUME NEW l \in ToSet(list), NEW m \in ToSet(list), l.price = m.price PROVE l = m
  <2>1. PICK i \in 1..n : l = list[i]
    BY <1>1 DEF ToSet
  <2>2. PICK j \in 1..n : m = list[j]
    BY <1>1 DEF ToSet
  <2> QED BY <1>2, <1>3, <2>1, <2>2
<1>4. CASE \E m \in ToSet(list) : m.price = price
  <2>1. PICK m \in ToSet(list) : m.price = price
    BY <1>4
  <2>2. Others(list, price) = ToSet(list) \ {m}
    BY <1>3, <2>1 DEF Others
  <2> QED BY <2>1, <2>2
<1>5. CASE \A m \in ToSet(list) : m.price # price
  BY <1>5 DEF Others
<1> QED BY <1>4, <1>5

\* The members of a side are levels.
LEMMA Members ==
    ASSUME NEW list \in Seq(Level), NEW l \in ToSet(list)
    PROVE  l \in Level /\ l.price \in Price
<1>1. PICK i \in 1..Len(list) : l = list[i]
  BY DEF ToSet
<1> QED BY <1>1, PriceType

\* How the exchange's side changes with a level that is put into it: the level
\* may push the worst one out, if the side is full.
PutInto(theirs, next, l, R, feed) ==
    /\ IsSide(next, R, feed) /\ l \in ToSet(next)
    /\ ToSet(next) \subseteq ToSet(theirs) \cup {l}
    /\ Len(next) <= Len(theirs) + 1
    /\ \A x \in Others(theirs, l.price) \ ToSet(next) :
          /\ Len(theirs) = feed
          /\ \A m \in ToSet(theirs) : m.price # l.price
          /\ \A y \in ToSet(next) : <<x.price, y.price>> \in R
          /\ \A y \in Others(theirs, l.price) \ ToSet(next) : y = x
    /\ (\E m \in ToSet(theirs) : m.price = l.price) => Len(next) <= Len(theirs)

\* A book that puts the same level stays near.
LEMMA PutNear ==
    ASSUME NEW R, Strict(R), NEW kept \in Nat, NEW feed \in Nat, kept <= feed,
           NEW mine, NEW theirs, Near(mine, theirs, R, kept, feed),
           NEW l \in Level, NEW next, PutInto(theirs, next, l, R, feed),
           NEW r, IsSide(r, R, kept), Shows(r, Others(mine, l.price) \cup {l}, R, kept)
    PROVE  Near(r, next, R, kept, feed)
<1> DEFINE S == Others(mine, l.price) \cup {l}
<1>1. /\ mine \in Seq(Level) /\ Ordered(mine, R) /\ Len(mine) <= kept /\ Len(mine) \in Nat
      /\ theirs \in Seq(Level) /\ Ordered(theirs, R) /\ Len(theirs) <= feed /\ Len(theirs) \in Nat
      /\ r \in Seq(Level) /\ Ordered(r, R) /\ Len(r) <= kept /\ Len(r) \in Nat
      /\ ToSet(mine) \subseteq ToSet(theirs) /\ Len(theirs) - Len(mine) <= feed - kept
  BY DEF Near, IsSide
<1>2. /\ next \in Seq(Level) /\ Ordered(next, R) /\ Len(next) <= feed /\ Len(next) \in Nat
      /\ l \in ToSet(next) /\ ToSet(next) \subseteq ToSet(theirs) \cup {l}
  BY DEF PutInto, IsSide
<1>3. /\ IsFiniteSet(ToSet(mine)) /\ Cardinality(ToSet(mine)) = Len(mine)
      /\ IsFiniteSet(ToSet(r)) /\ Cardinality(ToSet(r)) = Len(r)
  BY <1>1, SideSize
\* How many levels it would have without the limit.
<1>4. /\ IsFiniteSet(S)
      /\ (\A m \in ToSet(mine) : m.price # l.price) => Cardinality(S) = Len(mine) + 1
      /\ (\E m \in ToSet(mine) : m.price = l.price) => Cardinality(S) = Len(mine)
  <2>1. CASE \E m \in ToSet(mine) : m.price = l.price /\ Others(mine, l.price) = ToSet(mine) \ {m}
    <3>1. PICK m \in ToSet(mine) : m.price = l.price /\ Others(mine, l.price) = ToSet(mine) \ {m}
      BY <2>1
    <3>2. /\ IsFiniteSet(ToSet(mine) \ {m})
          /\ Cardinality(ToSet(mine) \ {m}) = Len(mine) - 1
      BY <1>3, FS_RemoveElement
    <3>3. l \notin ToSet(mine) \ {m}
      BY <3>1 DEF Others
    <3>4. IsFiniteSet(S) /\ Cardinality(S) = Len(mine) - 1 + 1
      BY <3>1, <3>2, <3>3, FS_AddElement
    <3> QED BY <1>1, <3>1, <3>4
  <2>2. CASE (\A m \in ToSet(mine) : m.price # l.price) /\ Others(mine, l.price) = ToSet(mine)
    <3>1. l \notin ToSet(mine)
      BY <2>2
    <3> QED BY <1>3, <2>2, <3>1, FS_AddElement
  <2> QED BY <1>1, <2>1, <2>2, OthersIs
<1>5. ToSet(r) \subseteq ToSet(next)
  <2> SUFFICES ASSUME NEW x \in ToSet(r), x \notin ToSet(next) PROVE FALSE
    OBVIOUS
  <2>1. ToSet(r) \subseteq S
    BY DEF Shows
  <2>2. x \in Others(theirs, l.price) \ ToSet(next) /\ x \in ToSet(mine)
    BY <1>1, <1>2, <2>1 DEF Others
  <2>3. /\ Len(theirs) = feed
        /\ \A m \in ToSet(theirs) : m.price # l.price
        /\ \A y \in ToSet(next) : <<x.price, y.price>> \in R
        /\ \A y \in Others(theirs, l.price) \ ToSet(next) : y = x
    BY <2>2 DEF PutInto
  <2>4. Cardinality(S) = kept + 1
    BY <1>1, <1>4, <2>3
  <2>5. PICK w \in S : ToSet(r) = S \ {w} /\ \A y \in ToSet(r) : <<w.price, y.price>> \in R
    <3>1. ToSet(r) # S
      <4>1. Cardinality(ToSet(r)) # Cardinality(S)
        BY <1>1, <1>3, <2>4
      <4> HIDE DEF S
      <4> QED BY <4>1
    <3> QED BY <3>1 DEF Shows
  <2>6. <<w.price, x.price>> \in R /\ w.price \in Price /\ x.price \in Price
    <3>1. w \in ToSet(mine) \/ w = l
      BY DEF Others
    <3> QED BY <1>1, <2>2, <2>5, <3>1, Members DEF Level, Price
  <2>7. <<x.price, w.price>> \notin R /\ w # x
    BY <2>6 DEF Strict
  <2>8. w # l
    BY <1>2, <2>3, <2>7
  <2>9. w \in Others(theirs, l.price)
    BY <1>1, <2>8 DEF Others
  <2> QED BY <2>3, <2>7, <2>9
<1>6. Len(next) - Len(r) <= feed - kept
  <2>1. CASE ToSet(r) = S
    <3>1. Len(r) = Cardinality(S)
      BY <1>3, <2>1
    <3>2. CASE \E m \in ToSet(mine) : m.price = l.price
      <4>1. Len(next) <= Len(theirs)
        BY <1>1, <3>2 DEF PutInto
      <4> QED BY <1>1, <1>2, <1>4, <3>1, <3>2, <4>1
    <3>3. CASE \A m \in ToSet(mine) : m.price # l.price
      <4>1. Len(next) <= Len(theirs) + 1
        BY DEF PutInto
      <4> QED BY <1>1, <1>2, <1>4, <3>1, <3>3, <4>1
    <3> QED BY <3>2, <3>3
  <2>2. CASE Len(r) = kept
    BY <1>1, <1>2, <2>2
  <2> QED BY <2>1, <2>2 DEF Shows
<1> QED BY <1>1, <1>2, <1>5, <1>6 DEF Near, IsSide

\* So does one that takes the same level out.
LEMMA TakeNear ==
    ASSUME NEW R, Strict(R), NEW kept \in Nat, NEW feed \in Nat,
           NEW mine, NEW theirs, Near(mine, theirs, R, kept, feed),
           NEW price \in Price, \E m \in ToSet(theirs) : m.price = price,
           NEW next, IsSide(next, R, feed), ToSet(next) = Others(theirs, price)
    PROVE  Near(Delete(mine, price), next, R, kept, feed)
<1> DEFINE r == Delete(mine, price)
<1>1. /\ IsSide(mine, R, kept) /\ mine \in Seq(Level) /\ Ordered(mine, R) /\ Len(mine) \in Nat
      /\ theirs \in Seq(Level) /\ Ordered(theirs, R) /\ Len(theirs) \in Nat
      /\ next \in Seq(Level) /\ Ordered(next, R) /\ Len(next) \in Nat
      /\ ToSet(mine) \subseteq ToSet(theirs) /\ Len(theirs) - Len(mine) <= feed - kept
  BY DEF Near, IsSide
<1>2. IsSide(r, R, kept) /\ ToSet(r) = Others(mine, price)
  BY <1>1, DeleteIs
<1> HIDE DEF r
<1>3. r \in Seq(Level) /\ Ordered(r, R) /\ Len(r) \in Nat
  BY <1>2 DEF IsSide
<1>4. /\ IsFiniteSet(ToSet(mine)) /\ Cardinality(ToSet(mine)) = Len(mine)
      /\ IsFiniteSet(ToSet(theirs)) /\ Cardinality(ToSet(theirs)) = Len(theirs)
      /\ Cardinality(ToSet(r)) = Len(r) /\ Cardinality(ToSet(next)) = Len(next)
  BY <1>1, <1>3, SideSize
<1>5. Len(next) = Len(theirs) - 1
  <2>1. PICK m \in ToSet(theirs) : Others(theirs, price) = ToSet(theirs) \ {m}
    BY <1>1, OthersIs
  <2>2. Cardinality(ToSet(theirs) \ {m}) = Cardinality(ToSet(theirs)) - 1
    BY <1>4, FS_RemoveElement
  <2> QED BY <1>4, <2>1, <2>2
<1>6. Len(r) >= Len(mine) - 1
  <2>1. CASE \E m \in ToSet(mine) : Others(mine, price) = ToSet(mine) \ {m}
    <3>1. PICK m \in ToSet(mine) : Others(mine, price) = ToSet(mine) \ {m}
      BY <2>1
    <3>2. Cardinality(ToSet(mine) \ {m}) = Cardinality(ToSet(mine)) - 1
      BY <1>4, FS_RemoveElement
    <3> QED BY <1>1, <1>2, <1>3, <1>4, <3>1, <3>2
  <2>2. CASE Others(mine, price) = ToSet(mine)
    BY <1>1, <1>2, <1>3, <1>4, <2>2
  <2> QED BY <1>1, <2>1, <2>2, OthersIs
<1>7. ToSet(r) \subseteq ToSet(next)
  BY <1>1, <1>2 DEF Others
<1>8. Len(next) - Len(r) <= feed - kept
  BY <1>1, <1>3, <1>5, <1>6
<1> QED BY <1>2, <1>7, <1>8 DEF Near, r
-----------------------------------------------------------------------------
(***************************************************************************)
(* A change of the exchange's book                                         *)
(***************************************************************************)

\* Two books of the exchange, the second with one level more.
OneMore(a, b, side, p) ==
    /\ p \in Prices /\ p \notin Listed(a, side)
    /\ Listed(b, side) = Listed(a, side) \cup {p}
    /\ \A x \in Listed(a, side) : b[side][x] = a[side][x]

\* It puts the levels that are worse one place down.
LEMMA PlaceWith ==
    ASSUME NEW a \in Vols, NEW b \in Vols, NEW side \in Sides, NEW p, OneMore(a, b, side, p),
           NEW x \in Listed(a, side)
    PROVE  Place(b, side, x) = Place(a, side, x) + IF <<x, p>> \in Dir(side) THEN 1 ELSE 0
<1>1. /\ Listed(a, side) \subseteq Prices /\ IsFiniteSet(Listed(a, side))
      /\ \A q, r \in Prices : Worse(side, q, r) <=> <<q, r>> \in Dir(side)
  BY ListedIs, PricesIs
<1>2. Better(a, side, x) \in SUBSET Listed(a, side) /\ p \notin Better(a, side, x)
  BY DEF Better, OneMore
<1>3. IsFiniteSet(Better(a, side, x)) /\ Cardinality(Better(a, side, x)) \in Nat
  BY <1>1, <1>2, FS_Subset, FS_CardinalityType
<1>4. CASE <<x, p>> \in Dir(side)
  <2>1. Better(b, side, x) = Better(a, side, x) \cup {p}
    BY <1>1, <1>4 DEF Better, OneMore
  <2> QED BY <1>2, <1>3, <1>4, <2>1, FS_AddElement DEF Place
<1>5. CASE <<x, p>> \notin Dir(side)
  <2>1. Better(b, side, x) = Better(a, side, x)
    BY <1>1, <1>5 DEF Better, OneMore
  <2> QED BY <1>3, <1>5, <2>1 DEF Place
<1> QED BY <1>4, <1>5

\* The level one more is not within the depth and nothing changes there, or it is,
\* and at most one level, the worst, gives way to it.
LEMMA WithinWith ==
    ASSUME NEW a \in Vols, NEW b \in Vols, NEW side \in Sides, NEW p, OneMore(a, b, side, p),
           NEW depth \in Nat
    PROVE  LET A == Within(a, side, depth)
               B == Within(b, side, depth)
           IN  /\ p \notin B => A = B
               /\ p \in B => B \ {p} \subseteq A
               /\ p \in B => \A x \in A \ B :
                     /\ \A y \in B : <<x, y>> \in Dir(side)
                     /\ \A y \in A \ B : y = x
                     /\ Len(Best(a, side, depth)) = depth /\ Len(Best(b, side, depth)) = depth
<1> DEFINE A == Within(a, side, depth)
           B == Within(b, side, depth)
           La == Listed(a, side)
           Lb == Listed(b, side)
<1>1. /\ Lb = La \cup {p} /\ p \notin La
      /\ \A x \in La :
            Place(b, side, x) = Place(a, side, x) + IF <<x, p>> \in Dir(side) THEN 1 ELSE 0
  BY PlaceWith DEF OneMore
<1>2. /\ Cardinality(La) \in Nat /\ Cardinality(Lb) \in Nat
      /\ \A x \in La : Place(a, side, x) \in 0..(Cardinality(La) - 1)
      /\ \A x \in Lb : Place(b, side, x) \in 0..(Cardinality(Lb) - 1)
      /\ \A x, y \in Lb : <<x, y>> \in Dir(side) <=> Place(b, side, y) < Place(b, side, x)
      /\ \A x, y \in Lb : Place(b, side, y) = Place(b, side, x) => x = y
  BY Places
<1>3. /\ A = {x \in La : Place(a, side, x) < depth}
      /\ B = {x \in Lb : Place(b, side, x) < depth}
  BY DEF Within
<1> HIDE DEF A, B, La, Lb
<1>4. B \ {p} \subseteq A
  <2> SUFFICES ASSUME NEW x \in B, x # p PROVE x \in A
    OBVIOUS
  <2>1. x \in La /\ x \in Lb /\ Place(b, side, x) < depth
    BY <1>1, <1>3
  <2>2. /\ Place(b, side, x) = Place(a, side, x) \/ Place(b, side, x) = Place(a, side, x) + 1
        /\ Place(a, side, x) \in Nat
    <3>1. Place(a, side, x) \in Nat
      BY <1>2, <2>1
    <3>2. CASE <<x, p>> \in Dir(side)
      BY <1>1, <2>1, <3>1, <3>2
    <3>3. CASE <<x, p>> \notin Dir(side)
      <4>1. Place(b, side, x) = Place(a, side, x) + 0
        BY <1>1, <2>1, <3>3
      <4> QED BY <3>1, <4>1
    <3> QED BY <3>1, <3>2, <3>3
  <2>3. Place(a, side, x) < depth
    BY <2>1, <2>2
  <2> QED BY <1>3, <2>1, <2>3
\* A level that gives way is at the place behind the last.
<1>5. ASSUME NEW x \in A, x \notin B
      PROVE  /\ x \in La /\ x \in Lb /\ <<x, p>> \in Dir(side)
             /\ Place(b, side, x) = depth /\ Place(a, side, x) = depth - 1
  <2>1. /\ x \in La /\ x \in Lb /\ Place(a, side, x) < depth /\ ~(Place(b, side, x) < depth)
        /\ Place(a, side, x) \in Nat /\ Place(b, side, x) \in Nat
    BY <1>1, <1>2, <1>3, <1>5
  <2>2. CASE <<x, p>> \in Dir(side)
    <3>1. Place(b, side, x) = Place(a, side, x) + 1
      BY <1>1, <2>1, <2>2
    <3> QED BY <2>1, <2>2, <3>1
  <2>3. CASE <<x, p>> \notin Dir(side)
    <3>1. Place(b, side, x) = Place(a, side, x)
      BY <1>1, <2>1, <2>3
    <3> QED BY <2>1, <3>1
  <2> QED BY <2>2, <2>3
<1>6. ASSUME p \notin B PROVE A = B
  <2>1. ASSUME NEW x \in A, x \notin B PROVE FALSE
    <3>1. x \in Lb /\ <<x, p>> \in Dir(side) /\ Place(b, side, x) = depth
      BY <1>5, <2>1
    <3>2. p \in Lb /\ Place(b, side, p) < depth
      BY <1>1, <1>2, <3>1
    <3> QED BY <1>3, <1>6, <3>2
  <2> QED BY <1>4, <1>6, <2>1
<1>7. ASSUME NEW x \in A, x \notin B
      PROVE  /\ \A y \in B : <<x, y>> \in Dir(side)
             /\ \A y \in A \ B : y = x
             /\ Cardinality(La) >= depth /\ Cardinality(Lb) >= depth
  <2>1. /\ x \in La /\ x \in Lb /\ Place(b, side, x) = depth /\ Place(a, side, x) = depth - 1
    BY <1>5, <1>7
  <2>2. ASSUME NEW y \in B PROVE <<x, y>> \in Dir(side)
    BY <1>2, <1>3, <2>1
  <2>3. ASSUME NEW y \in A \ B PROVE y = x
    <3>1. y \in Lb /\ Place(b, side, y) = depth
      BY <1>5
    <3> QED BY <1>2, <2>1, <3>1
  <2>4. depth - 1 \in 0..(Cardinality(La) - 1) /\ depth \in 0..(Cardinality(Lb) - 1)
    BY <1>2, <2>1
  <2> QED BY <1>2, <2>2, <2>3, <2>4
<1>8. /\ Cardinality(La) >= depth => Len(Best(a, side, depth)) = depth
      /\ Cardinality(Lb) >= depth => Len(Best(b, side, depth)) = depth
  BY <1>2, TopIs DEF La, Lb
<1> QED BY <1>4, <1>6, <1>7, <1>8 DEF A, B

\* A level of the exchange that is not the one that changes.
LEMMA LevelsWith ==
    ASSUME NEW a \in Vols, NEW b \in Vols, NEW side \in Sides, NEW p, OneMore(a, b, side, p),
           NEW x \in Listed(a, side)
    PROVE  LevelAt(b, side, x) = LevelAt(a, side, x) /\ x # p
BY DEF OneMore, LevelAt
-----------------------------------------------------------------------------
(***************************************************************************)
(* What an update tells                                                    *)
(***************************************************************************)

\* A list of one or no element.
LEMMA ShortLists ==
    /\ SetToSeq({}) = <<>>
    /\ \A x : SetToSeq({x}) = <<x>>
    /\ \A x, y : <<x>> \o <<y>> = <<x, y>>
<1>1. SetToSeq({}) = <<>>
  <2> DEFINE f == CHOOSE f \in [1..0 -> {}] : IsInjective(f)
  <2>1. <<>> \in [1..0 -> {}] /\ IsInjective(<<>>)
    BY DEF IsInjective
  <2>2. \E g \in [1..0 -> {}] : IsInjective(g)
    BY <2>1
  <2>3. f \in [1..0 -> {}]
    BY <2>2
  <2>4. f = <<>>
    BY <2>3
  <2> QED BY <2>4, FS_EmptySet DEF SetToSeq
<1>2. ASSUME NEW x PROVE SetToSeq({x}) = <<x>>
  <2> DEFINE f == CHOOSE f \in [1..1 -> {x}] : IsInjective(f)
  <2>1. [i \in 1..1 |-> x] \in [1..1 -> {x}] /\ IsInjective([i \in 1..1 |-> x])
    BY DEF IsInjective
  <2>2. \E g \in [1..1 -> {x}] : IsInjective(g)
    BY <2>1
  <2>3. f \in [1..1 -> {x}]
    BY <2>2
  <2> HIDE DEF f
  <2>4. f = <<x>>
    <3>1. f[1] = x /\ DOMAIN f = 1..1
      BY <2>3
    <3>2. f = [i \in 1..1 |-> f[i]]
      BY <2>3
    <3> QED BY <3>1, <3>2
  <2>5. Cardinality({x}) = 1
    BY FS_Singleton
  <2> QED BY <2>4, <2>5 DEF SetToSeq, f
<1>3. ASSUME NEW x, NEW y PROVE <<x>> \o <<y>> = <<x, y>>
  <2>1. /\ <<x>> \o <<y>> \in Seq({x, y}) /\ <<x, y>> \in Seq({x, y})
        /\ Len(<<x>> \o <<y>>) = Len(<<x, y>>)
    OBVIOUS
  <2>2. \A i \in 1..Len(<<x>> \o <<y>>) : (<<x>> \o <<y>>)[i] = <<x, y>>[i]
    OBVIOUS
  <2> QED BY <2>1, <2>2, SeqEqual
<1> QED BY <1>1, <1>2, <1>3

\* The three kinds of an update: a level is put, a level is taken out, and a level
\* is taken out and the next one behind the depth comes in.
Put(theirs, next, told, R, feed) ==
    \E l \in Level : told = <<l>> /\ PutInto(theirs, next, l, R, feed)

Taken(theirs, next, told, p) ==
    /\ told = <<[price |-> p, volume |-> 0]>>
    /\ ToSet(next) = Others(theirs, p)

Replaced(theirs, next, told, p, R, feed) ==
    \E l \in Level :
        /\ told = <<[price |-> p, volume |-> 0], l>>
        /\ PutInto(Delete(theirs, p), next, l, R, feed)

\* Changed sides of the exchange, seen through what Best shows of them.
LEMMA SameBest ==
    ASSUME NEW a \in Vols, NEW b \in Vols, NEW side \in Sides, NEW depth \in Nat,
           Within(a, side, depth) = Within(b, side, depth),
           \A x \in Within(a, side, depth) : a[side][x] = b[side][x]
    PROVE  Best(a, side, depth) = Best(b, side, depth)
<1>1. /\ IsSide(Best(a, side, depth), Dir(side), depth)
      /\ IsSide(Best(b, side, depth), Dir(side), depth)
      /\ ToSet(Best(a, side, depth)) = {LevelAt(a, side, x) : x \in Within(a, side, depth)}
      /\ ToSet(Best(b, side, depth)) = {LevelAt(b, side, x) : x \in Within(b, side, depth)}
  BY TopIs
<1>2. \A x \in Within(a, side, depth) : LevelAt(a, side, x) = LevelAt(b, side, x)
  BY DEF LevelAt
<1>3. ToSet(Best(a, side, depth)) = ToSet(Best(b, side, depth))
  BY <1>1, <1>2
<1> QED BY <1>1, <1>3, PricesIs, SameSide DEF IsSide

\* A change of a level's volume.
LEMMA VolumeTold ==
    ASSUME NEW old \in Vols, NEW new \in Vols, NEW side \in Sides, NEW p \in Listed(old, side),
           Listed(new, side) = Listed(old, side), sub.feed \in Nat,
           \A x \in Prices : x # p => new[side][x] = old[side][x],
           Best(new, side, sub.feed) # Best(old, side, sub.feed)
    PROVE  Put(Best(old, side, sub.feed), Best(new, side, sub.feed),
               Told(old, new, side, p, sub.feed),
               Dir(side), sub.feed)
<1> DEFINE d == sub.feed
           theirs == Best(old, side, d)
           next == Best(new, side, d)
           W == Within(old, side, d)
           l == LevelAt(new, side, p)
           entered == {m \in ToSet(next) :
                         m.price # p /\ m.price \notin {k.price : k \in ToSet(theirs)}}
<1>1. /\ IsSide(theirs, Dir(side), d) /\ IsSide(next, Dir(side), d)
      /\ ToSet(theirs) = {LevelAt(old, side, x) : x \in W}
      /\ ToSet(next) = {LevelAt(new, side, x) : x \in Within(new, side, d)}
      /\ Len(theirs) = Len(next)
  BY TopIs
<1>2. Within(new, side, d) = W
  <2>1. \A x : Better(new, side, x) = Better(old, side, x)
    BY DEF Better
  <2> QED BY <2>1 DEF Within, Place
<1>3. \A x \in W : x \in Prices /\ (x # p => LevelAt(new, side, x) = LevelAt(old, side, x))
  BY ListedIs DEF Within, LevelAt
<1>4. p \in W
  <2>1. CASE p \notin W
    <3>1. \A x \in W : old[side][x] = new[side][x]
      BY <1>3, <2>1
    <3> QED BY <1>2, <3>1, SameBest
  <2> QED BY <2>1
<1>5. /\ l \in Level /\ l.price = p
      /\ \A x : LevelAt(new, side, x).price = x /\ LevelAt(old, side, x).price = x
  BY ListedIs DEF LevelAt
<1> HIDE DEF theirs, next, W, l
<1>6. l \in ToSet(next)
  BY <1>1, <1>2, <1>4 DEF l
<1>7. \A x \in W : LevelAt(new, side, x) \in ToSet(next) /\ LevelAt(old, side, x) \in ToSet(theirs)
  BY <1>1, <1>2
<1>8. ToSet(next) \subseteq ToSet(theirs) \cup {l}
  <2> SUFFICES ASSUME NEW m \in ToSet(next) PROVE m \in ToSet(theirs) \cup {l}
    OBVIOUS
  <2>1. PICK x \in W : m = LevelAt(new, side, x)
    BY <1>1, <1>2
  <2> QED BY <1>3, <1>7, <2>1 DEF l
<1>9. Others(theirs, p) \subseteq ToSet(next)
  <2> SUFFICES ASSUME NEW m \in ToSet(theirs), m.price # p PROVE m \in ToSet(next)
    BY DEF Others
  <2>1. PICK x \in W : m = LevelAt(old, side, x)
    BY <1>1
  <2> QED BY <1>3, <1>5, <1>7, <2>1
<1>10. entered = {}
  <2> SUFFICES ASSUME NEW m \in ToSet(next), m.price # p
               PROVE  m.price \in {k.price : k \in ToSet(theirs)}
    OBVIOUS
  <2>1. PICK x \in W : m = LevelAt(new, side, x)
    BY <1>1, <1>2
  <2>2. LevelAt(old, side, x) \in ToSet(theirs) /\ LevelAt(old, side, x).price = m.price
    BY <1>5, <1>7, <2>1
  <2> QED BY <2>2
<1>11. Told(old, new, side, p, sub.feed) = <<l>>
  <2>1. Told(old, new, side, p, sub.feed) = <<l>> \o SetToSeq(entered)
    BY DEF Told, theirs, next, l, LevelAt
  <2> HIDE DEF entered
  <2>2. Told(old, new, side, p, sub.feed) = <<l>> \o <<>>
    BY <1>10, <2>1, ShortLists
  <2> QED BY <2>2
<1>12. PutInto(theirs, next, l, Dir(side), d)
  <2>1. Len(theirs) \in Nat /\ Len(next) \in Nat
    BY <1>1 DEF IsSide
  <2>2. IsSide(next, Dir(side), d) /\ l \in ToSet(next)
    BY <1>1, <1>6
  <2>3. Len(next) <= Len(theirs) + 1 /\ Len(next) <= Len(theirs)
    BY <1>1, <2>1
  <2>4. Others(theirs, l.price) \ ToSet(next) = {}
    BY <1>5, <1>9
  <2> QED BY <1>8, <2>2, <2>3, <2>4 DEF PutInto
<1> QED BY <1>5, <1>11, <1>12 DEF Put, theirs, next

\* A new level.
LEMMA NewTold ==
    ASSUME NEW old \in Vols, NEW new \in Vols, NEW side \in Sides, NEW p,
           OneMore(old, new, side, p), sub.feed \in Nat,
           Best(new, side, sub.feed) # Best(old, side, sub.feed)
    PROVE  Put(Best(old, side, sub.feed), Best(new, side, sub.feed),
               Told(old, new, side, p, sub.feed),
               Dir(side), sub.feed)
<1> DEFINE d == sub.feed
           theirs == Best(old, side, d)
           next == Best(new, side, d)
           A == Within(old, side, d)
           B == Within(new, side, d)
           l == LevelAt(new, side, p)
           entered == {m \in ToSet(next) :
                         m.price # p /\ m.price \notin {k.price : k \in ToSet(theirs)}}
<1>1. /\ IsSide(theirs, Dir(side), d) /\ IsSide(next, Dir(side), d)
      /\ ToSet(theirs) = {LevelAt(old, side, x) : x \in A}
      /\ ToSet(next) = {LevelAt(new, side, x) : x \in B}
  BY TopIs
<1>2. /\ A \subseteq Listed(old, side) /\ B \subseteq Listed(new, side)
      /\ p \notin Listed(old, side) /\ p \in Listed(new, side)
      /\ Listed(new, side) = Listed(old, side) \cup {p}
      /\ \A x \in A : LevelAt(new, side, x) = LevelAt(old, side, x)
  BY LevelsWith DEF Within, OneMore
<1>3. /\ p \notin B => A = B
      /\ p \in B => B \ {p} \subseteq A
      /\ p \in B => \A x \in A \ B :
            /\ \A y \in B : <<x, y>> \in Dir(side)
            /\ \A y \in A \ B : y = x
            /\ Len(theirs) = d /\ Len(next) = d
  BY WithinWith
<1>4. p \in B
  <2>1. CASE p \notin B
    <3>1. A = B /\ \A x \in A : old[side][x] = new[side][x]
      BY <1>2, <1>3, <2>1 DEF OneMore
    <3> QED BY <3>1, SameBest
  <2> QED BY <2>1
<1>5. /\ l \in Level /\ l.price = p
      /\ \A x : LevelAt(new, side, x).price = x /\ LevelAt(old, side, x).price = x
  BY <1>2, ListedIs DEF LevelAt
<1>6. Len(next) <= Len(theirs) + 1
  <2>1. /\ IsFiniteSet(Listed(old, side)) /\ Cardinality(Listed(old, side)) \in Nat
        /\ Cardinality(Listed(new, side)) = Cardinality(Listed(old, side)) + 1
    <3>1. IsFiniteSet(Listed(old, side)) /\ Cardinality(Listed(old, side)) \in Nat
      BY ListedIs, FS_CardinalityType
    <3>2. Cardinality(Listed(old, side) \cup {p}) = Cardinality(Listed(old, side)) + 1
      BY <1>2, <3>1, FS_AddElement
    <3> QED BY <1>2, <3>1, <3>2
  <2>2. /\ Len(theirs) = IF Cardinality(Listed(old, side)) < d
                         THEN Cardinality(Listed(old, side)) ELSE d
        /\ Len(next) = IF Cardinality(Listed(new, side)) < d
                       THEN Cardinality(Listed(new, side)) ELSE d
    BY TopIs
  <2> QED BY <2>1, <2>2
<1> HIDE DEF theirs, next, A, B, l
<1>7. ToSet(next) \subseteq ToSet(theirs) \cup {l} /\ l \in ToSet(next)
  <2>1. ASSUME NEW m \in ToSet(next) PROVE m \in ToSet(theirs) \cup {l}
    <3>1. PICK x \in B : m = LevelAt(new, side, x)
      BY <1>1
    <3> QED BY <1>1, <1>2, <1>3, <1>4, <3>1 DEF l
  <2> QED BY <1>1, <1>4, <2>1 DEF l
<1>8. \A m \in ToSet(theirs) : m.price # p
  BY <1>1, <1>2, <1>5
<1>9. ASSUME NEW m \in Others(theirs, p) \ ToSet(next)
      PROVE  /\ Len(theirs) = d
             /\ \A k \in ToSet(next) : <<m.price, k.price>> \in Dir(side)
             /\ \A k \in Others(theirs, p) \ ToSet(next) : k = m
  <2>1. \A k \in Others(theirs, p) \ ToSet(next) : \E y \in A \ B : k = LevelAt(old, side, y)
    <3> TAKE k \in Others(theirs, p) \ ToSet(next)
    <3>1. PICK y \in A : k = LevelAt(old, side, y)
      BY <1>1 DEF Others
    <3>2. y \in B => LevelAt(new, side, y) \in ToSet(next)
      BY <1>1
    <3> QED BY <1>2, <3>1, <3>2
  <2>2. PICK x \in A \ B : m = LevelAt(old, side, x)
    BY <2>1
  <2>3. /\ \A y \in B : <<x, y>> \in Dir(side)
        /\ \A y \in A \ B : y = x
        /\ Len(theirs) = d
    BY <1>3, <1>4
  <2>4. ASSUME NEW k \in ToSet(next) PROVE <<m.price, k.price>> \in Dir(side)
    <3>1. PICK y \in B : k = LevelAt(new, side, y)
      BY <1>1
    <3> QED BY <1>5, <2>2, <2>3, <3>1
  <2> QED BY <2>1, <2>2, <2>3, <2>4
<1>10. entered = {}
  <2> SUFFICES ASSUME NEW m \in ToSet(next), m.price # p
               PROVE  m.price \in {k.price : k \in ToSet(theirs)}
    OBVIOUS
  <2>1. m \in ToSet(theirs)
    BY <1>5, <1>7
  <2> QED BY <2>1
<1>11. Told(old, new, side, p, sub.feed) = <<l>>
  <2>1. Told(old, new, side, p, sub.feed) = <<l>> \o SetToSeq(entered)
    BY DEF Told, theirs, next, l, LevelAt
  <2> HIDE DEF entered
  <2>2. Told(old, new, side, p, sub.feed) = <<l>> \o <<>>
    BY <1>10, <2>1, ShortLists
  <2> QED BY <2>2
<1>12. PutInto(theirs, next, l, Dir(side), d)
  BY <1>1, <1>5, <1>6, <1>7, <1>8, <1>9 DEF PutInto
<1> QED BY <1>5, <1>11, <1>12 DEF Put, theirs, next

\* A level that goes.
LEMMA GoneTold ==
    ASSUME NEW old \in Vols, NEW new \in Vols, NEW side \in Sides, NEW p,
           OneMore(new, old, side, p), sub.feed \in Nat,
           Best(new, side, sub.feed) # Best(old, side, sub.feed)
    PROVE  LET theirs == Best(old, side, sub.feed)
               next == Best(new, side, sub.feed)
               told == Told(old, new, side, p, sub.feed)
           IN  /\ p \in Price
               /\ \E m \in ToSet(theirs) : m.price = p
               /\ \/ Taken(theirs, next, told, p)
                  \/ Replaced(theirs, next, told, p, Dir(side), sub.feed)
<1> DEFINE d == sub.feed
           theirs == Best(old, side, d)
           next == Best(new, side, d)
           mid == Delete(theirs, p)
           A == Within(new, side, d)
           B == Within(old, side, d)
           gone == [price |-> p, volume |-> 0]
           entered == {m \in ToSet(next) :
                         m.price # p /\ m.price \notin {k.price : k \in ToSet(theirs)}}
<1>1. /\ IsSide(theirs, Dir(side), d) /\ IsSide(next, Dir(side), d)
      /\ ToSet(theirs) = {LevelAt(old, side, x) : x \in B}
      /\ ToSet(next) = {LevelAt(new, side, x) : x \in A}
  BY TopIs
<1>2. /\ A \subseteq Listed(new, side) /\ B \subseteq Listed(old, side) /\ p \in Prices
      /\ p \notin Listed(new, side) /\ p \in Listed(old, side)
      /\ Listed(old, side) = Listed(new, side) \cup {p}
      /\ \A x \in Listed(new, side) : LevelAt(old, side, x) = LevelAt(new, side, x)
  BY LevelsWith DEF Within, OneMore
<1>3. /\ p \notin B => A = B
      /\ p \in B => B \ {p} \subseteq A
      /\ p \in B => \A x \in A \ B :
            /\ \A y \in B : <<x, y>> \in Dir(side)
            /\ \A y \in A \ B : y = x
            /\ Len(next) = d /\ Len(theirs) = d
  BY WithinWith
<1>4. p \in B
  <2>1. CASE p \notin B
    <3>1. A = B /\ \A x \in A : old[side][x] = new[side][x]
      BY <1>2, <1>3, <2>1 DEF OneMore
    <3> QED BY <3>1, SameBest
  <2> QED BY <2>1
<1>5. p \in Price /\ Strict(Dir(side))
  BY <1>2, PricesIs
<1>6. \A x : LevelAt(new, side, x).price = x /\ LevelAt(old, side, x).price = x
  BY DEF LevelAt
<1>7. new[side][p] = 0
  BY <1>2 DEF Listed
<1>8. Told(old, new, side, p, sub.feed) = <<gone>> \o SetToSeq(entered)
  BY <1>7 DEF Told
<1> HIDE DEF theirs, next, A, B
<1>9. ASSUME NEW x \in B PROVE LevelAt(old, side, x) \in ToSet(theirs)
  BY <1>1
<1>10. ASSUME NEW x \in A PROVE LevelAt(new, side, x) \in ToSet(next)
  BY <1>1
<1>11. \E m \in ToSet(theirs) : m.price = p
  BY <1>4, <1>6, <1>9
\* The levels of both books.
<1>12. Others(theirs, p) \subseteq ToSet(next)
  <2> SUFFICES ASSUME NEW m \in ToSet(theirs), m.price # p PROVE m \in ToSet(next)
    BY DEF Others
  <2>1. PICK x \in B : m = LevelAt(old, side, x)
    BY <1>1
  <2>2. x \in A /\ LevelAt(old, side, x) = LevelAt(new, side, x)
    BY <1>2, <1>3, <1>4, <1>6, <2>1
  <2> QED BY <1>10, <2>1, <2>2
<1>13. ASSUME NEW m \in ToSet(next)
       PROVE  m \in Others(theirs, p) \/ \E x \in A \ B : m = LevelAt(new, side, x)
  <2>1. PICK x \in A : m = LevelAt(new, side, x) /\ x # p
    BY <1>1, <1>2
  <2>2. CASE x \in B
    <3>1. m \in ToSet(theirs) /\ m.price # p
      BY <1>2, <1>6, <1>9, <2>1, <2>2
    <3> QED BY <3>1 DEF Others
  <2>3. CASE x \notin B
    BY <2>1, <2>3
  <2> QED BY <2>2, <2>3
<1>14. CASE A \ B = {}
  <2>1. ToSet(next) = Others(theirs, p)
    BY <1>12, <1>13, <1>14
  <2>2. entered = {}
    BY <2>1 DEF Others
  <2> HIDE DEF entered
  <2>3. Told(old, new, side, p, sub.feed) = <<gone>> \o <<>>
    BY <1>8, <2>2, ShortLists
  <2>4. Told(old, new, side, p, sub.feed) = <<gone>>
    BY <2>3
  <2> QED BY <1>5, <1>11, <2>1, <2>4 DEF Taken, theirs, next
<1>15. CASE A \ B # {}
  <2>1. PICK x \in A \ B : TRUE
    BY <1>15
  <2> DEFINE l == LevelAt(new, side, x)
  <2>2. /\ \A y \in B : <<x, y>> \in Dir(side)
        /\ \A y \in A \ B : y = x
        /\ Len(next) = d /\ Len(theirs) = d
    BY <1>3, <1>4, <2>1
  <2>3. l \in Level /\ l.price = x /\ x # p
    BY <1>2, <1>6, ListedIs
  <2>4. l \in ToSet(next)
    BY <1>10
  <2> HIDE DEF l
  <2>5. \A m \in ToSet(next) : m \in Others(theirs, p) \/ m = l
    BY <1>13, <2>2 DEF l
  <2>6. x \notin {k.price : k \in ToSet(theirs)}
    BY <1>1, <1>6
  <2>7. entered = {l}
    <3>1. \A m \in Others(theirs, p) : m.price \in {k.price : k \in ToSet(theirs)}
      BY DEF Others
    <3> QED BY <2>3, <2>4, <2>5, <2>6, <3>1
  <2>8. Told(old, new, side, p, sub.feed) = <<gone, l>>
    <3> HIDE DEF entered, gone
    <3>1. Told(old, new, side, p, sub.feed) = <<gone>> \o <<l>>
      BY <1>8, <2>7, ShortLists
    <3> QED BY <3>1, ShortLists
  <2>9. ToSet(mid) = Others(theirs, p) /\ IsSide(mid, Dir(side), d)
    BY <1>1, <1>5, DeleteIs
  <2> HIDE DEF mid
  <2>10. Len(next) <= Len(mid) + 1
    <3>1. /\ theirs \in Seq(Level) /\ Ordered(theirs, Dir(side)) /\ Len(theirs) \in Nat
          /\ mid \in Seq(Level) /\ Ordered(mid, Dir(side)) /\ Len(mid) \in Nat
      BY <1>1, <2>9 DEF IsSide
    <3>2. /\ IsFiniteSet(ToSet(theirs)) /\ Cardinality(ToSet(theirs)) = Len(theirs)
          /\ Cardinality(ToSet(mid)) = Len(mid)
      BY <1>5, <3>1, SideSize
    <3>3. PICK m \in ToSet(theirs) : Others(theirs, p) = ToSet(theirs) \ {m}
      BY <1>5, <1>11, <3>1, OthersIs
    <3>4. Cardinality(ToSet(theirs) \ {m}) = Len(theirs) - 1
      <4> DEFINE S == ToSet(theirs)
      <4>1. IsFiniteSet(S) /\ m \in S /\ Cardinality(S) = Len(theirs)
        BY <3>2
      <4> HIDE DEF S
      <4>2. Cardinality(S \ {m}) = Cardinality(S) - 1
        BY <4>1, FS_RemoveElement
      <4> QED BY <4>1, <4>2 DEF S
    <3>5. Cardinality(ToSet(mid)) = Cardinality(ToSet(theirs) \ {m})
      BY <2>9, <3>3
    <3>6. Len(mid) = Len(theirs) - 1
      BY <3>2, <3>4, <3>5
    <3> QED BY <2>2, <3>1, <3>6
  <2>11. \A m \in ToSet(mid) : m.price # l.price
    BY <2>3, <2>6, <2>9 DEF Others
  <2>12. PutInto(mid, next, l, Dir(side), d)
    <3>1. Others(mid, l.price) \ ToSet(next) = {}
      BY <1>12, <2>9 DEF Others
    <3>2. ToSet(next) \subseteq ToSet(mid) \cup {l}
      BY <2>5, <2>9
    <3> QED BY <1>1, <2>4, <2>10, <2>11, <3>1, <3>2 DEF PutInto
  <2> QED BY <1>5, <1>11, <2>3, <2>8, <2>12 DEF Replaced, theirs, next, mid
<1> QED BY <1>14, <1>15
\* What an update tells of the side that changed.
LEMMA ChangeTold ==
    ASSUME NEW old \in Vols, NEW side \in Sides, NEW p \in Prices, NEW v \in Volumes \cup {0},
           NEW new \in Vols, old[side][p] # v, new[side][p] = v,
           \A x \in Prices : x # p => new[side][x] = old[side][x],
           \A s \in Sides : s # side => new[s] = old[s],
           sub.feed \in Nat,
           Top(new, sub.feed) # Top(old, sub.feed)
    PROVE  LET theirs == Best(old, side, sub.feed)
               next == Best(new, side, sub.feed)
               told == Told(old, new, side, p, sub.feed)
           IN  /\ \A s \in Sides : s # side => Best(new, s, sub.feed) = Best(old, s, sub.feed)
               /\ \/ Put(theirs, next, told, Dir(side), sub.feed)
                  \/ /\ p \in Price
                     /\ \E m \in ToSet(theirs) : m.price = p
                     /\ \/ Taken(theirs, next, told, p)
                        \/ Replaced(theirs, next, told, p, Dir(side), sub.feed)
<1>1. /\ new \in Vols /\ new[side][p] = v
      /\ \A x \in Prices : x # p => new[side][x] = old[side][x]
      /\ \A s \in Sides : s # side => new[s] = old[s]
  OBVIOUS
<1>2. ASSUME NEW s \in Sides, s # side PROVE Best(new, s, sub.feed) = Best(old, s, sub.feed)
  <2>1. new[s] = old[s]
    BY <1>1, <1>2
  <2>2. \A x : Better(new, s, x) = Better(old, s, x)
    BY <2>1 DEF Better, Listed
  <2>3. Within(new, s, sub.feed) = Within(old, s, sub.feed)
    BY <2>1, <2>2 DEF Within, Place, Listed
  <2> QED BY <1>1, <2>1, <2>3, SameBest
<1>3. Best(new, side, sub.feed) # Best(old, side, sub.feed)
  <2>1. CASE Best(new, side, sub.feed) = Best(old, side, sub.feed)
    <3>1. \A s \in Sides : Best(new, s, sub.feed) = Best(old, s, sub.feed)
      BY <1>2, <2>1
    <3>2. Top(new, sub.feed) = Top(old, sub.feed)
      BY <3>1 DEF Top
    <3> QED BY <3>2
  <2> QED BY <2>1
<1>4. CASE v # 0 /\ p \in Listed(old, side)
  <2>1. Listed(new, side) = Listed(old, side)
    BY <1>1, <1>4 DEF Listed
  <2> QED BY <1>1, <1>2, <1>3, <1>4, <2>1, VolumeTold
<1>5. CASE v # 0 /\ p \notin Listed(old, side)
  <2>1. OneMore(old, new, side, p)
    BY <1>1, <1>5 DEF OneMore, Listed
  <2> QED BY <1>1, <1>2, <1>3, <2>1, NewTold
<1>6. CASE v = 0
  <2>1. OneMore(new, old, side, p)
    BY <1>1, <1>6 DEF OneMore, Listed
  <2> DEFINE theirs == Best(old, side, sub.feed)
             next == Best(new, side, sub.feed)
             told == Told(old, new, side, p, sub.feed)
  <2>2. /\ p \in Price
        /\ \E m \in ToSet(theirs) : m.price = p
        /\ Taken(theirs, next, told, p) \/ Replaced(theirs, next, told, p, Dir(side), sub.feed)
    BY <1>1, <1>3, <2>1, GoneTold
  <2> HIDE DEF theirs, next, told
  <2> QED BY <1>1, <1>2, <2>2 DEF theirs, next, told
<1> QED BY <1>4, <1>5, <1>6

-----------------------------------------------------------------------------
(***************************************************************************)
(* Messages are handled                                                    *)
(***************************************************************************)

\* The levels of a message for a side.
ToldOf(asks, bids, side) == IF side = "asks" THEN asks ELSE bids

\* ChangeBook changes each side by itself, level after level.
LEMMA FoldSide ==
    ASSUME NEW book, NEW asks \in Seq(Change), NEW bids \in Seq(Change), NEW depth,
           NEW side \in Sides
    PROVE  \E g : /\ Walk(g, 1..Len(ToldOf(asks, bids, side)), book[side],
                          ToldOf(asks, bids, side), Dir(side), depth)
                  /\ ChangeBook(book, asks, bids, depth)[side] = g[1..Len(ToldOf(asks, bids, side))]
<1>1. CASE side = "asks"
  <2>1. ToldOf(asks, bids, side) = asks /\ Dir(side) = Falling
    BY <1>1 DEF ToldOf, Dir
  <2> QED BY <1>1, <2>1, FoldIs
<1>2. CASE side = "bids"
  <2>1. ToldOf(asks, bids, side) = bids /\ Dir(side) = Rising
    BY <1>2 DEF ToldOf, Dir
  <2> QED BY <1>2, <2>1, FoldIs
<1> QED BY <1>1, <1>2 DEF Sides

\* One level after the other.
LEMMA WalkSteps ==
    ASSUME NEW n \in Nat, NEW base, NEW seq, NEW R, NEW depth,
           NEW g, Walk(g, 1..n, base, seq, R, depth)
    PROVE  /\ g[1..0] = base
           /\ \A k \in 1..n : g[1..k] = ChangeSide(g[1..(k - 1)], seq[k], R, depth)
<1>1. \A s \in SUBSET (1..n) :
         g[s] = IF s = {} THEN base ELSE ChangeSide(g[s \ {Max(s)}], seq[Max(s)], R, depth)
  BY DEF Walk
<1>2. 1..0 = {} /\ 1..0 \in SUBSET (1..n)
  OBVIOUS
<1>3. ASSUME NEW k \in 1..n
      PROVE  g[1..k] = ChangeSide(g[1..(k - 1)], seq[k], R, depth)
  <2>1. k \in Nat /\ k \in 1..k /\ 1..k \in SUBSET (1..n) /\ 1..k # {}
    OBVIOUS
  <2>2. Max(1..k) = k
    BY <2>1, MaxIs
  <2>3. (1..k) \ {k} = 1..(k - 1)
    <3>1. \A x : x \in (1..k) \ {k} <=> x \in 1..(k - 1)
      BY <2>1
    <3> QED BY <3>1
  <2>4. g[1..k] = ChangeSide(g[(1..k) \ {Max(1..k)}], seq[Max(1..k)], R, depth)
    BY <1>1, <2>1
  <2> QED BY <2>2, <2>3, <2>4
<1> QED BY <1>1, <1>2, <1>3

\* A message of one level, and one of two.
LEMMA WalkOne ==
    ASSUME NEW base, NEW l, NEW R, NEW depth, NEW g, Walk(g, 1..1, base, <<l>>, R, depth)
    PROVE  g[1..1] = ChangeSide(base, l, R, depth)
<1> DEFINE seq == <<l>>
           n == 1
<1>1. n \in Nat /\ n \in 1..n /\ seq[n] = l /\ 1..(n - 1) = 1..0
  OBVIOUS
<1>2. Walk(g, 1..n, base, seq, R, depth)
  OBVIOUS
<1> HIDE DEF seq, n
<1>3. g[1..0] = base /\ \A k \in 1..n : g[1..k] = ChangeSide(g[1..(k - 1)], seq[k], R, depth)
  BY <1>1, <1>2, WalkSteps
<1>4. g[1..n] = ChangeSide(base, l, R, depth)
  BY <1>1, <1>3
<1> QED BY <1>4 DEF n

LEMMA WalkTwo ==
    ASSUME NEW base, NEW k, NEW l, NEW R, NEW depth, NEW g, Walk(g, 1..2, base, <<k, l>>, R, depth)
    PROVE  g[1..2] = ChangeSide(ChangeSide(base, k, R, depth), l, R, depth)
<1> DEFINE seq == <<k, l>>
           n == 2
           m == 1
<1>1. /\ n \in Nat /\ n \in 1..n /\ seq[n] = l /\ n - 1 = m
      /\ m \in 1..n /\ seq[m] = k /\ 1..(m - 1) = 1..0
  OBVIOUS
<1>2. Walk(g, 1..n, base, seq, R, depth)
  OBVIOUS
<1> HIDE DEF seq, n, m
<1>3. g[1..0] = base /\ \A i \in 1..n : g[1..i] = ChangeSide(g[1..(i - 1)], seq[i], R, depth)
  BY <1>1, <1>2, WalkSteps
<1>4. g[1..m] = ChangeSide(base, k, R, depth)
  BY <1>1, <1>3
<1>5. g[1..n] = ChangeSide(g[1..m], l, R, depth)
  BY <1>1, <1>3
<1> QED BY <1>4, <1>5 DEF n

\* What one level does to a side.
LEMMA ChangeTakes ==
    ASSUME NEW R, NEW depth, NEW side, NEW p
    PROVE  ChangeSide(side, [price |-> p, volume |-> 0], R, depth) = Delete(side, p)
BY DEF ChangeSide, ChangeBid, ChangeAsk

LEMMA ChangePuts ==
    ASSUME NEW R \in {Rising, Falling}, NEW depth \in Nat, NEW side, IsSide(side, R, depth),
           NEW level \in Level
    PROVE  /\ IsSide(ChangeSide(side, level, R, depth), R, depth)
           /\ Shows(ChangeSide(side, level, R, depth), Others(side, level.price) \cup {level},
                    R, depth)
<1>1. Rising # Falling
  <2>1. <<1, 2>> \in Rising /\ <<1, 2>> \notin Falling
    BY DEF Rising, Falling, Price
  <2> QED BY <2>1
<1>2. level.volume # 0
  BY DEF Level
<1> QED BY <1>1, <1>2, UpsertCorrect DEF ChangeSide, ChangeBid, ChangeAsk

\* A book that is told of a change stays near.
LEMMA ToldNear ==
    ASSUME NEW R \in {Rising, Falling}, NEW kept \in Nat, NEW feed \in Nat, kept <= feed,
           NEW mine, NEW theirs, Near(mine, theirs, R, kept, feed),
           NEW next, IsSide(next, R, feed), NEW told, NEW p,
           \/ Put(theirs, next, told, R, feed)
           \/ /\ p \in Price
              /\ \E m \in ToSet(theirs) : m.price = p
              /\ Taken(theirs, next, told, p) \/ Replaced(theirs, next, told, p, R, feed),
           NEW g, Walk(g, 1..Len(told), mine, told, R, kept)
    PROVE  Near(g[1..Len(told)], next, R, kept, feed)
<1>1. Strict(R) /\ IsSide(mine, R, kept) /\ IsSide(theirs, R, feed)
  BY BothStrict DEF Near
<1>2. ASSUME NEW l \in Level, NEW other, PutInto(other, next, l, R, feed),
             NEW d, Near(d, other, R, kept, feed)
      PROVE  Near(ChangeSide(d, l, R, kept), next, R, kept, feed)
  <2>1. IsSide(d, R, kept)
    BY <1>2 DEF Near
  <2>2. /\ IsSide(ChangeSide(d, l, R, kept), R, kept)
        /\ Shows(ChangeSide(d, l, R, kept), Others(d, l.price) \cup {l}, R, kept)
    BY <2>1, ChangePuts
  <2> QED BY <1>1, <1>2, <2>2, PutNear
<1>3. CASE Put(theirs, next, told, R, feed)
  <2>1. PICK l \in Level : told = <<l>> /\ PutInto(theirs, next, l, R, feed)
    BY <1>3 DEF Put
  <2>2. Len(told) = 1
    BY <2>1
  <2>3. g[1..1] = ChangeSide(mine, l, R, kept)
    <3>1. Walk(g, 1..1, mine, <<l>>, R, kept)
      BY <2>1, <2>2
    <3> QED BY <3>1, WalkOne
  <2> QED BY <1>2, <2>1, <2>2, <2>3
<1> DEFINE gone == [price |-> p, volume |-> 0]
<1>4. CASE /\ p \in Price /\ \E m \in ToSet(theirs) : m.price = p
           /\ Taken(theirs, next, told, p)
  <2>1. told = <<gone>> /\ ToSet(next) = Others(theirs, p) /\ Len(told) = 1
    BY <1>4 DEF Taken
  <2>2. g[1..1] = ChangeSide(mine, gone, R, kept)
    <3>1. Walk(g, 1..1, mine, <<gone>>, R, kept)
      BY <2>1
    <3> HIDE DEF gone
    <3> QED BY <3>1, WalkOne
  <2>3. g[1..1] = Delete(mine, p)
    BY <2>2, ChangeTakes
  <2> QED BY <1>1, <1>4, <2>1, <2>3, TakeNear
<1>5. CASE /\ p \in Price /\ \E m \in ToSet(theirs) : m.price = p
           /\ Replaced(theirs, next, told, p, R, feed)
  <2> DEFINE mid == Delete(theirs, p)
  <2>1. PICK l \in Level : told = <<gone, l>> /\ PutInto(mid, next, l, R, feed)
    BY <1>5 DEF Replaced
  <2>2. Len(told) = 2
    BY <2>1
  <2>3. g[1..2] = ChangeSide(ChangeSide(mine, gone, R, kept), l, R, kept)
    <3>1. Walk(g, 1..2, mine, <<gone, l>>, R, kept)
      BY <2>1, <2>2
    <3> HIDE DEF gone
    <3> QED BY <3>1, WalkTwo
  <2>4. g[1..2] = ChangeSide(Delete(mine, p), l, R, kept)
    BY <2>3, ChangeTakes
  <2>5. IsSide(mid, R, feed) /\ ToSet(mid) = Others(theirs, p)
    BY <1>1, <1>5, DeleteIs
  <2> HIDE DEF mid
  <2>6. Near(Delete(mine, p), mid, R, kept, feed)
    BY <1>1, <1>5, <2>5, TakeNear
  <2>7. Near(g[1..2], next, R, kept, feed)
    BY <1>2, <2>1, <2>4, <2>6
  <2> QED BY <2>2, <2>7
<1> QED BY <1>3, <1>4, <1>5
-----------------------------------------------------------------------------
(***************************************************************************)
(* A snapshot                                                              *)
(***************************************************************************)

\* The best k levels of a side.
BestLevels(list, k) == {list[i] : i \in (Len(list) - k + 1)..Len(list)}

\* A tip is a side of the best levels.
LEMMA TipIs ==
    ASSUME NEW R, NEW list \in Seq(Level), Ordered(list, R), NEW depth \in Nat
    PROVE  LET n == IF Len(list) > depth THEN depth ELSE Len(list)
           IN  /\ n \in 0..Len(list)
               /\ IsSide(Tip(list, depth), R, depth) /\ Len(Tip(list, depth)) = n
               /\ \A i \in 1..n : Tip(list, depth)[i] = list[Len(list) - n + i]
               /\ ToSet(Tip(list, depth)) = BestLevels(list, n)
<1> DEFINE len == Len(list)
           n == IF len > depth THEN depth ELSE len
           m == IF len > depth THEN len - depth + 1 ELSE 1
           tip == Tip(list, depth)
<1>1. len \in Nat /\ n \in 0..len /\ n <= depth /\ m = len - n + 1 /\ m \in Int
  OBVIOUS
<1>2. \A i \in m..len : list[i] \in Level
  <2>1. \A i \in 1..len : list[i] \in Level
    OBVIOUS
  <2> HIDE DEF len
  <2> QED BY <1>1, <2>1
<1>3. tip = SubSeq(list, m, len)
  BY DEF Tip
<1>4. /\ tip \in Seq(Level)
      /\ Len(tip) = IF m <= len THEN len - m + 1 ELSE 0
      /\ \A i \in 1..(len - m + 1) : tip[i] = list[m + i - 1]
  <2> HIDE DEF len, m, tip
  <2> QED BY <1>1, <1>2, <1>3, SubSeqProperties
<1>5. Len(tip) = n /\ \A i \in 1..n : tip[i] = list[len - n + i]
  <2>1. ASSUME NEW i \in 1..n PROVE tip[i] = list[len - n + i]
    <3> HIDE DEF len, n, m, tip
    <3>1. i \in 1..(len - m + 1) /\ m + i - 1 = len - n + i
      BY <1>1
    <3> QED BY <1>4, <3>1
  <2>2. Len(tip) = n
    <3> HIDE DEF len, n, m, tip
    <3> QED BY <1>1, <1>4
  <2> QED BY <2>1, <2>2
<1>6. Ordered(tip, R)
  <2> SUFFICES ASSUME NEW i \in 1..n, NEW j \in 1..n, i < j
               PROVE  <<tip[i].price, tip[j].price>> \in R
    BY <1>5 DEF Ordered
  <2>1. len - n + i \in 1..len /\ len - n + j \in 1..len /\ len - n + i < len - n + j
    <3> HIDE DEF len, n
    <3> QED BY <1>1
  <2>2. <<list[len - n + i].price, list[len - n + j].price>> \in R
    BY <2>1 DEF Ordered
  <2> QED BY <1>5, <2>2
<1>7. ToSet(tip) = BestLevels(list, n)
  <2> HIDE DEF len, n, m, tip
  <2>1. ASSUME NEW i \in (len - n + 1)..len
        PROVE  i - (len - n) \in 1..n /\ tip[i - (len - n)] = list[i]
    <3>1. i - (len - n) \in 1..n /\ len - n + (i - (len - n)) = i
      BY <1>1
    <3> QED BY <1>5, <3>1
  <2>2. ASSUME NEW i \in 1..n PROVE len - n + i \in (len - n + 1)..len
    BY <1>1
  <2>3. ToSet(tip) = {tip[i] : i \in 1..n}
    BY <1>4, <1>5 DEF ToSet
  <2>4. BestLevels(list, n) = {list[i] : i \in (len - n + 1)..len}
    BY DEF BestLevels, len
  <2> QED BY <1>5, <2>1, <2>2, <2>3, <2>4
<1>8. IsSide(tip, R, depth)
  BY <1>1, <1>4, <1>5, <1>6 DEF IsSide
<1> QED BY <1>1, <1>5, <1>7, <1>8

\* The best levels are as many as are asked for, and better than the next one.
LEMMA BestAre ==
    ASSUME NEW R, Strict(R), NEW list \in Seq(Level), Ordered(list, R), NEW k \in 0..Len(list)
    PROVE  /\ IsFiniteSet(BestLevels(list, k)) /\ Cardinality(BestLevels(list, k)) = k
           /\ BestLevels(list, k) \subseteq ToSet(list)
           /\ k < Len(list) =>
                LET l == list[Len(list) - k]
                IN  /\ \A m \in BestLevels(list, k) : <<l.price, m.price>> \in R
                    /\ l \in ToSet(list)
                    /\ BestLevels(list, k + 1) = BestLevels(list, k) \cup {l}
<1> DEFINE len == Len(list)
<1>1. len \in Nat /\ k \in Nat /\ k <= len /\ DOMAIN list = 1..len
  OBVIOUS
<1>2. IsFiniteSet(BestLevels(list, k)) /\ Cardinality(BestLevels(list, k)) = k
  <2>1. /\ Tip(list, k) \in Seq(Level) /\ Ordered(Tip(list, k), R) /\ Len(Tip(list, k)) = k
        /\ ToSet(Tip(list, k)) = BestLevels(list, k)
    <3>1. (IF len > k THEN k ELSE len) = k
      <4> HIDE DEF len
      <4> QED BY <1>1
    <3> QED BY <1>1, <3>1, TipIs DEF IsSide
  <2> QED BY <2>1, SideSize
<1>3. ToSet(list) = {list[i] : i \in 1..len}
  BY DEF ToSet
<1>4. BestLevels(list, k) = {list[i] : i \in (len - k + 1)..len}
  BY DEF BestLevels
<1>5. BestLevels(list, k + 1) = {list[i] : i \in (len - (k + 1) + 1)..len}
  BY DEF BestLevels
<1>6. BestLevels(list, k) \subseteq ToSet(list)
  <2> HIDE DEF len
  <2>1. (len - k + 1)..len \subseteq 1..len
    BY <1>1
  <2> QED BY <1>3, <1>4, <2>1
<1>7. ASSUME k < len
      PROVE  /\ \A m \in BestLevels(list, k) : <<list[len - k].price, m.price>> \in R
             /\ list[len - k] \in ToSet(list)
             /\ BestLevels(list, k + 1) = BestLevels(list, k) \cup {list[len - k]}
  <2>1. len - k \in 1..len
    BY <1>1, <1>7
  <2>2. ASSUME NEW m \in BestLevels(list, k) PROVE <<list[len - k].price, m.price>> \in R
    <3>1. PICK i \in (len - k + 1)..len : m = list[i]
      BY <1>4
    <3>2. i \in 1..len /\ len - k < i
      BY <1>1, <2>1, <3>1
    <3> QED BY <2>1, <3>1, <3>2 DEF Ordered
  <2>3. BestLevels(list, k + 1) = BestLevels(list, k) \cup {list[len - k]}
    <3> HIDE DEF len
    <3>1. \A i : i \in (len - (k + 1) + 1)..len <=> i \in (len - k + 1)..len \/ i = len - k
      BY <1>1, <1>7
    <3> QED BY <1>4, <1>5, <3>1
  <2>4. list[len - k] \in ToSet(list)
    BY <1>3, <2>1
  <2> QED BY <2>2, <2>3, <2>4
<1> QED BY <1>2, <1>6, <1>7

\* One more level of a snapshot, the best one first.
LEMMA OneMoreLevel ==
    ASSUME NEW R \in {Rising, Falling}, NEW top \in Seq(Level), Ordered(top, R), NEW kept \in Nat,
           NEW k \in 1..Len(top), NEW side, IsSide(side, R, kept),
           ToSet(side) = BestLevels(top, IF k - 1 < kept THEN k - 1 ELSE kept)
    PROVE  LET next == ChangeSide(side, top[Len(top) - (k - 1)], R, kept)
           IN  /\ IsSide(next, R, kept)
               /\ ToSet(next) = BestLevels(top, IF k < kept THEN k ELSE kept)
<1> DEFINE n == Len(top)
           had == IF k - 1 < kept THEN k - 1 ELSE kept
           l == top[n - (k - 1)]
           next == ChangeSide(side, l, R, kept)
           B(i) == BestLevels(top, i)
<1>1. /\ n \in Nat /\ k \in Nat /\ k - 1 \in 0..n /\ k - 1 < n /\ had \in 0..n
      /\ n - (k - 1) \in 1..n /\ Strict(R)
  BY BothStrict
<1>2. l \in Level /\ l.price \in Price
  BY <1>1, PriceType
<1>3. /\ IsFiniteSet(B(k - 1)) /\ Cardinality(B(k - 1)) = k - 1
      /\ \A m \in B(k - 1) : <<l.price, m.price>> \in R
      /\ B(k) = B(k - 1) \cup {l}
  <2>1. k - 1 + 1 = k
    BY <1>1
  <2> QED BY <1>1, <2>1, BestAre
<1>4. B(had) \subseteq B(k - 1)
  <2>1. (n - had + 1)..n \subseteq (n - (k - 1) + 1)..n
    BY <1>1
  <2> QED BY <2>1 DEF BestLevels
<1>5. IsFiniteSet(B(had)) /\ Cardinality(B(had)) = had /\ l \notin B(had)
  <2>1. l \notin B(k - 1)
    BY <1>1, <1>2, <1>3 DEF Strict
  <2>2. IsFiniteSet(B(had)) /\ Cardinality(B(had)) = had
    <3> HIDE DEF had
    <3> QED BY <1>1, BestAre
  <2> QED BY <1>4, <2>1, <2>2
<1>6. Others(side, l.price) = B(had)
  <2>1. \A m \in B(had) : m.price # l.price
    BY <1>1, <1>2, <1>3, <1>4 DEF Strict
  <2> QED BY <2>1 DEF Others
<1>7. /\ IsSide(next, R, kept)
      /\ Shows(next, B(had) \cup {l}, R, kept)
  <2> HIDE DEF l, had
  <2> QED BY <1>2, <1>6, ChangePuts
<1>8. /\ Cardinality(ToSet(next)) = Len(next) /\ Len(next) \in Nat /\ Len(next) <= kept
  BY <1>1, <1>7, SideSize DEF IsSide
<1>9. Cardinality(B(had) \cup {l}) = had + 1 /\ IsFiniteSet(B(had) \cup {l})
  BY <1>5, FS_AddElement
<1> HIDE DEF n, had, l, next, B
<1>10. CASE k - 1 < kept
  <2>1. had = k - 1 /\ (IF k < kept THEN k ELSE kept) = k
    BY <1>1, <1>10 DEF had
  <2>2. ToSet(next) = B(k)
    <3>1. ASSUME NEW w \in B(had) \cup {l}, ToSet(next) = (B(had) \cup {l}) \ {w},
                 Len(next) = kept
          PROVE  FALSE
      <4> DEFINE all == B(had) \cup {l}
      <4>1. Cardinality(all) = had + 1 /\ IsFiniteSet(all) /\ w \in all /\ ToSet(next) = all \ {w}
        BY <1>9, <3>1
      <4> HIDE DEF all
      <4>2. Cardinality(all \ {w}) = Cardinality(all) - 1
        BY <4>1, FS_RemoveElement
      <4>3. Cardinality(ToSet(next)) = Cardinality(all \ {w})
        BY <4>1, Zenon
      <4> QED BY <1>1, <1>8, <1>10, <2>1, <3>1, <4>1, <4>2, <4>3
    <3>2. B(had) \cup {l} = B(k)
      BY <1>3, <2>1
    <3> QED BY <1>7, <3>1, <3>2 DEF Shows
  <2> QED BY <1>7, <2>1, <2>2 DEF B, n, l, next
<1>11. CASE ~(k - 1 < kept)
  <2>1. had = kept /\ (IF k < kept THEN k ELSE kept) = kept
    BY <1>1, <1>11 DEF had
  <2>2. ToSet(next) # B(had) \cup {l}
    <3> SUFFICES ASSUME ToSet(next) = B(had) \cup {l} PROVE FALSE
      OBVIOUS
    <3>1. Len(next) = had + 1
      BY <1>8, <1>9
    <3> QED BY <1>1, <1>8, <2>1, <3>1
  <2>3. PICK w \in B(had) \cup {l} : /\ ToSet(next) = (B(had) \cup {l}) \ {w}
                                     /\ \A m \in ToSet(next) : <<w.price, m.price>> \in R
    BY <1>7, <2>2 DEF Shows
  <2>4. w = l
    <3>1. SUFFICES ASSUME w # l PROVE FALSE
      OBVIOUS
    <3>2. w \in B(k - 1) /\ l \in ToSet(next)
      BY <1>4, <2>3, <3>1
    <3>3. <<w.price, l.price>> \in R /\ <<l.price, w.price>> \in R
      BY <1>3, <2>3, <3>2
    <3>4. w.price \in Price
      <4>1. w \in ToSet(top)
        <5>1. B(k - 1) \subseteq ToSet(top)
          BY <1>1, BestAre DEF B, n
        <5> QED BY <3>2, <5>1
      <4> QED BY <4>1, Members
    <3> QED BY <1>1, <1>2, <3>3, <3>4 DEF Strict
  <2>5. ToSet(next) = B(kept)
    BY <1>5, <2>1, <2>3, <2>4
  <2> QED BY <1>7, <2>1, <2>5 DEF B, n, l, next
<1> QED BY <1>10, <1>11

\* A snapshot leaves the best of its levels, as many as the book keeps.
LEMMA SnapshotTold ==
    ASSUME NEW R \in {Rising, Falling}, NEW top \in Seq(Level), Ordered(top, R), NEW kept \in Nat,
           NEW g, Walk(g, 1..Len(top), <<>>, Reverse(top), R, kept)
    PROVE  g[1..Len(top)] = Tip(top, kept)
<1> DEFINE n == Len(top)
           G(k) == g[1..k]
           min(k) == IF k < kept THEN k ELSE kept
           Good(k) == IsSide(G(k), R, kept) /\ ToSet(G(k)) = BestLevels(top, min(k))
           T == {k \in 0..n : ~Good(k)}
<1>1. n \in Nat /\ Strict(R)
  BY BothStrict
<1>2. /\ G(0) = <<>>
      /\ \A k \in 1..n : G(k) = ChangeSide(G(k - 1), Reverse(top)[k], R, kept)
  BY <1>1, WalkSteps
<1>3. \A k \in 1..n : Reverse(top)[k] = top[n - (k - 1)]
  <2>1. \A k \in 1..n : Reverse(top)[k] = top[n - k + 1] /\ n - k + 1 = n - (k - 1)
    BY <1>1 DEF Reverse
  <2> QED BY <2>1
<1>4. Good(0)
  <2>1. min(0) = 0 /\ (n - 0 + 1)..n = {}
    BY <1>1
  <2>2. BestLevels(top, 0) = {}
    BY <2>1 DEF BestLevels
  <2>3. IsSide(<<>>, R, kept) /\ ToSet(<<>>) = {}
    BY DEF IsSide, Ordered, ToSet
  <2> HIDE DEF G, min
  <2> QED BY <1>2, <2>1, <2>2, <2>3
<1>5. ASSUME NEW k \in 1..n, Good(k - 1) PROVE Good(k)
  <2>1. G(k) = ChangeSide(G(k - 1), top[n - (k - 1)], R, kept)
    BY <1>2, <1>3
  <2> HIDE DEF G
  <2> QED BY <1>5, <2>1, OneMoreLevel
<1>6. T = {}
  <2> SUFFICES ASSUME T # {} PROVE FALSE
    OBVIOUS
  <2>1. T \subseteq Nat
    BY <1>1
  <2>2. PICK k \in T : \A j \in T : k <= j
    <3> HIDE DEF T
    <3> QED BY <2>1, Least
  <2>3. k \in 0..n /\ ~Good(k)
    BY <2>2
  <2> HIDE DEF Good
  <2>4. k \in 1..n /\ k - 1 \in 0..n /\ ~(k <= k - 1)
    BY <1>1, <1>4, <2>3
  <2>5. Good(k - 1)
    BY <2>2, <2>4
  <2> QED BY <1>5, <2>3, <2>4, <2>5
<1>7. IsSide(G(n), R, kept) /\ ToSet(G(n)) = BestLevels(top, min(n))
  <2>1. n \in 0..n
    BY <1>1
  <2>2. Good(n)
    <3> HIDE DEF Good
    <3> QED BY <1>6, <2>1
  <2> QED BY <2>2
<1>8. /\ IsSide(Tip(top, kept), R, kept)
      /\ ToSet(Tip(top, kept)) = BestLevels(top, min(n))
  <2>1. (IF n > kept THEN kept ELSE n) = min(n)
    BY <1>1
  <2> QED BY <2>1, TipIs
<1>9. G(n) = Tip(top, kept)
  <2> HIDE DEF G, min
  <2> QED BY <1>1, <1>7, <1>8, SameSide DEF IsSide
<1> QED BY <1>9
\* The tip of a tip.
LEMMA TipTip ==
    ASSUME NEW R, NEW list \in Seq(Level), Ordered(list, R), NEW a \in Nat, NEW b \in Nat, a <= b
    PROVE  Tip(Tip(list, b), a) = Tip(list, a)
<1> DEFINE n == Len(list)
           tip == Tip(list, b)
           nb == IF n > b THEN b ELSE n
           na == IF n > a THEN a ELSE n
           nab == IF nb > a THEN a ELSE nb
<1>1. n \in Nat /\ nb \in 0..n /\ na \in 0..n /\ nab = na /\ na <= nb
  OBVIOUS
<1>2. /\ tip \in Seq(Level) /\ Ordered(tip, R) /\ Len(tip) = nb
      /\ \A i \in 1..nb : tip[i] = list[n - nb + i]
  BY TipIs DEF IsSide
<1>3. /\ Tip(list, a) \in Seq(Level) /\ Len(Tip(list, a)) = na
      /\ \A i \in 1..na : Tip(list, a)[i] = list[n - na + i]
  BY TipIs DEF IsSide
<1>4. /\ Tip(tip, a) \in Seq(Level) /\ Len(Tip(tip, a)) = nab
      /\ \A i \in 1..nab : Tip(tip, a)[i] = tip[nb - nab + i]
  <2> HIDE DEF tip, n
  <2>1. LET k == IF Len(tip) > a THEN a ELSE Len(tip)
        IN  /\ IsSide(Tip(tip, a), R, a) /\ Len(Tip(tip, a)) = k
            /\ \A i \in 1..k : Tip(tip, a)[i] = tip[Len(tip) - k + i]
    BY <1>2, TipIs
  <2> HIDE DEF nb
  <2> QED BY <1>2, <2>1 DEF IsSide
<1> HIDE DEF n, tip, nb, na, nab
<1>5. ASSUME NEW i \in 1..na PROVE Tip(tip, a)[i] = Tip(list, a)[i]
  <2>1. nb - nab + i \in 1..nb /\ n - nb + (nb - nab + i) = n - na + i
    BY <1>1
  <2> QED BY <1>1, <1>2, <1>3, <1>4, <2>1
<1>6. Tip(tip, a) = Tip(list, a)
  BY <1>1, <1>3, <1>4, <1>5, SeqEqual
<1> QED BY <1>6 DEF tip

-----------------------------------------------------------------------------
(***************************************************************************)
(* Prices as they are stored                                               *)
(***************************************************************************)

\* The exchange's levels can be told, and what is told can be parsed.
LEMMA OffersAreLevels ==
    Offer \subseteq Level /\ Offer \subseteq LevelChange /\ LevelChange \subseteq Change
<1>1. /\ Prices \subseteq Nat /\ Volumes \subseteq Nat \ {0}
      /\ Volumes \subseteq Volumes \cup {0} /\ Volumes \cup {0} \subseteq Nat
  BY KrakenAssumption
<1>2. ASSUME NEW P, NEW Q, NEW V, NEW W, P \subseteq Q, V \subseteq W
      PROVE  [price : P, volume : V] \subseteq [price : Q, volume : W]
  <2> SUFFICES ASSUME NEW l \in [price : P, volume : V]
               PROVE  l \in [price : Q, volume : W]
    OBVIOUS
  <2>1. l = [price |-> l.price, volume |-> l.volume] /\ l.price \in Q /\ l.volume \in W
    BY <1>2
  <2> QED BY <2>1
<1>3. Offer \subseteq Level
  BY <1>1, <1>2 DEF Offer, Level
<1>4. Offer \subseteq LevelChange
  BY <1>1, <1>2 DEF Offer, LevelChange
<1>5. LevelChange \subseteq Change
  BY <1>1, <1>2 DEF LevelChange, Change, Price
<1> QED BY <1>3, <1>4, <1>5

LEMMA KeptIs ==
    ASSUME sub \in Subscriptions, NEW l \in LevelChange
    PROVE  /\ Kept(l) \in Change
           /\ Kept(l).price = sub.stored[l.price] /\ Kept(l).volume = l.volume
           /\ l \in Offer => Kept(l) \in Level
           /\ Kept(l) \in Level => l.volume # 0
<1>1. sub.stored \in [Prices -> Nat]
  BY KrakenAssumption
<1>2. l.price \in Prices /\ l.volume \in Nat /\ l = [price |-> l.price, volume |-> l.volume]
  <2>1. Volumes \cup {0} \subseteq Nat
    BY KrakenAssumption
  <2>2. l.price \in Prices /\ l.volume \in Volumes \cup {0}
    BY DEF LevelChange
  <2>3. l = [price |-> l.price, volume |-> l.volume]
    BY DEF LevelChange
  <2> QED BY <2>1, <2>2, <2>3
<1>3. Kept(l) = [price |-> sub.stored[l.price], volume |-> l.volume]
  BY <1>2 DEF Kept
<1>4. l \in Offer => l.volume \in Nat \ {0}
  BY KrakenAssumption DEF Offer
<1> QED BY <1>1, <1>2, <1>3, <1>4 DEF Change, Level, Price

\* A conversion that keeps prices apart keeps their order and loses no level.
LEMMA KeptApart ==
    ASSUME sub \in Subscriptions, Apart, NEW k \in LevelChange, NEW l \in LevelChange
    PROVE  /\ Kept(k).price = Kept(l).price => k.price = l.price
           /\ Kept(k) = Kept(l) => k = l
           /\ \A R \in {Rising, Falling} :
                <<k.price, l.price>> \in R => <<Kept(k).price, Kept(l).price>> \in R
<1>1. sub.stored \in [Prices -> Nat] /\ Prices \subseteq Nat
  BY KrakenAssumption
<1>2. /\ k.price \in Prices /\ l.price \in Prices
      /\ k = [price |-> k.price, volume |-> k.volume]
      /\ l = [price |-> l.price, volume |-> l.volume]
  BY DEF LevelChange
<1>3. /\ Kept(k).price = sub.stored[k.price] /\ Kept(k).volume = k.volume
      /\ Kept(l).price = sub.stored[l.price] /\ Kept(l).volume = l.volume
  BY KeptIs
<1>4. /\ sub.stored[k.price] \in Nat /\ sub.stored[l.price] \in Nat
      /\ k.price \in Nat /\ l.price \in Nat
  BY <1>1, <1>2
<1>5. /\ k.price < l.price => sub.stored[k.price] < sub.stored[l.price]
      /\ l.price < k.price => sub.stored[l.price] < sub.stored[k.price]
  BY <1>2 DEF Apart
<1>6. Kept(k).price = Kept(l).price => k.price = l.price
  BY <1>3, <1>4, <1>5
<1>7. ASSUME NEW R \in {Rising, Falling}, <<k.price, l.price>> \in R
      PROVE  <<Kept(k).price, Kept(l).price>> \in R
  BY <1>3, <1>4, <1>5, <1>7 DEF Rising, Falling, Price
<1> QED BY <1>2, <1>3, <1>6, <1>7

\* What ParsePriceLevels makes of a list.
LEMMA ParseIs ==
    ASSUME sub \in Subscriptions, NEW list \in Seq(LevelChange)
    PROVE  /\ ParsePriceLevels(list) \in Seq(Change) /\ Len(ParsePriceLevels(list)) = Len(list)
           /\ \A i \in 1..Len(list) : ParsePriceLevels(list)[i] = Kept(list[i])
           /\ ToSet(ParsePriceLevels(list)) = {Kept(l) : l \in ToSet(list)}
           /\ list \in Seq(Offer) => ParsePriceLevels(list) \in Seq(Level)
<1> DEFINE n == Len(list)
           parsed == ParsePriceLevels(list)
<1>1. n \in Nat /\ DOMAIN list = 1..n /\ parsed = [i \in 1..n |-> Kept(list[i])]
  BY DEF ParsePriceLevels, Kept
<1>2. \A i \in 1..n : list[i] \in LevelChange
  OBVIOUS
<1>3. \A i \in 1..n : Kept(list[i]) \in Change
  BY <1>2, KeptIs
<1>4. ASSUME list \in Seq(Offer) PROVE parsed \in Seq(Level)
  <2>1. \A i \in 1..n : list[i] \in Offer
    BY <1>4
  <2>2. \A i \in 1..n : Kept(list[i]) \in Level
    BY <1>2, <2>1, KeptIs
  <2>3. parsed \in [1..n -> Level]
    BY <1>1, <2>2
  <2> HIDE DEF parsed, n
  <2> QED BY <1>1, <2>3
<1> HIDE DEF parsed, n
<1>5. parsed \in Seq(Change) /\ Len(parsed) = n /\ DOMAIN parsed = 1..n
  <2>1. parsed \in [1..n -> Change]
    BY <1>1, <1>3
  <2> QED BY <1>1, <2>1
<1>6. \A i \in 1..n : parsed[i] = Kept(list[i])
  BY <1>1
<1>7. ToSet(parsed) = {Kept(l) : l \in ToSet(list)}
  BY <1>1, <1>5, <1>6 DEF ToSet
<1> QED BY <1>4, <1>5, <1>6, <1>7 DEF parsed, n

\* A side stays a side.
LEMMA ParseSide ==
    ASSUME sub \in Subscriptions, Apart, NEW R \in {Rising, Falling}, NEW list \in Seq(Offer),
           NEW depth \in Nat, IsSide(list, R, depth)
    PROVE  /\ IsSide(ParsePriceLevels(list), R, depth)
           /\ Len(ParsePriceLevels(list)) = Len(list)
<1> DEFINE parsed == ParsePriceLevels(list)
<1>1. list \in Seq(LevelChange)
  BY OffersAreLevels
<1>2. /\ parsed \in Seq(Level) /\ Len(parsed) = Len(list)
      /\ \A i \in 1..Len(list) : parsed[i] = Kept(list[i])
  BY <1>1, ParseIs
<1>3. ASSUME NEW i \in 1..Len(list), NEW j \in 1..Len(list), i < j
      PROVE  <<parsed[i].price, parsed[j].price>> \in R
  <2>1. <<list[i].price, list[j].price>> \in R
    BY <1>3 DEF IsSide, Ordered
  <2>2. list[i] \in LevelChange /\ list[j] \in LevelChange
    BY <1>1
  <2>3. <<Kept(list[i]).price, Kept(list[j]).price>> \in R
    BY <2>1, <2>2, KeptApart
  <2> QED BY <1>2, <2>3
<1> HIDE DEF parsed
<1>4. Ordered(parsed, R)
  BY <1>2, <1>3 DEF Ordered
<1> QED BY <1>2, <1>4 DEF IsSide, parsed

\* The levels at other prices stay the levels at other prices.
LEMMA ParseOthers ==
    ASSUME sub \in Subscriptions, Apart, NEW list \in Seq(Offer), NEW k \in LevelChange
    PROVE  Others(ParsePriceLevels(list), Kept(k).price) = {Kept(l) : l \in Others(list, k.price)}
<1>1. list \in Seq(LevelChange) /\ \A l \in ToSet(list) : l \in LevelChange
  <2>1. list \in Seq(LevelChange)
    BY OffersAreLevels
  <2> QED BY <2>1 DEF ToSet
<1>2. ToSet(ParsePriceLevels(list)) = {Kept(l) : l \in ToSet(list)}
  BY <1>1, ParseIs
<1>3. \A l \in ToSet(list) : Kept(l).price = Kept(k).price <=> l.price = k.price
  <2> TAKE l \in ToSet(list)
  <2>1. l \in LevelChange
    BY <1>1
  <2>2. Kept(l).price = sub.stored[l.price] /\ Kept(k).price = sub.stored[k.price]
    BY <2>1, KeptIs
  <2> QED BY <2>1, <2>2, KeptApart
<1> QED BY <1>2, <1>3 DEF Others

\* A list with levels of the exchange only.
LEMMA OffersOf ==
    ASSUME NEW list \in Seq(Offer), NEW other \in Seq(Level), ToSet(other) \subseteq ToSet(list)
    PROVE  other \in Seq(Offer)
<1>1. \A l \in ToSet(list) : l \in Offer
  BY DEF ToSet
<1>2. Len(other) \in Nat /\ DOMAIN other = 1..Len(other)
  OBVIOUS
<1>3. \A i \in 1..Len(other) : other[i] \in Offer
  <2> TAKE i \in 1..Len(other)
  <2>1. other[i] \in ToSet(other)
    BY <1>2 DEF ToSet
  <2> QED BY <1>1, <2>1
<1>4. other \in [1..Len(other) -> Offer]
  BY <1>2, <1>3
<1> QED BY <1>2, <1>4

\* A level that is put into the exchange's side is put into what is stored of it.
LEMMA ParsePutInto ==
    ASSUME sub \in Subscriptions, Apart, NEW R \in {Rising, Falling}, NEW feed \in Nat,
           NEW theirs \in Seq(Offer), NEW next \in Seq(Offer), NEW l \in Level,
           PutInto(theirs, next, l, R, feed)
    PROVE  /\ l \in Offer /\ Kept(l) \in Level
           /\ PutInto(ParsePriceLevels(theirs), ParsePriceLevels(next), Kept(l), R, feed)
<1> DEFINE T == ParsePriceLevels(theirs)
           N == ParsePriceLevels(next)
<1>1. /\ IsSide(next, R, feed) /\ l \in ToSet(next)
      /\ ToSet(next) \subseteq ToSet(theirs) \cup {l}
      /\ Len(next) <= Len(theirs) + 1
      /\ (\E m \in ToSet(theirs) : m.price = l.price) => Len(next) <= Len(theirs)
  BY DEF PutInto
<1>2. /\ theirs \in Seq(LevelChange) /\ next \in Seq(LevelChange)
      /\ \A x \in ToSet(theirs) : x \in LevelChange
      /\ \A x \in ToSet(next) : x \in LevelChange /\ x \in Offer
  <2>1. theirs \in Seq(LevelChange) /\ next \in Seq(LevelChange)
    BY OffersAreLevels
  <2> QED BY <2>1 DEF ToSet
<1>3. /\ ToSet(T) = {Kept(x) : x \in ToSet(theirs)} /\ Len(T) = Len(theirs)
      /\ ToSet(N) = {Kept(x) : x \in ToSet(next)} /\ Len(N) = Len(next)
  BY <1>2, ParseIs
<1>4. l \in Offer /\ l \in LevelChange /\ Kept(l) \in Level
  BY <1>1, <1>2, KeptIs
<1>5. IsSide(N, R, feed)
  BY <1>1, ParseSide
<1>6. Others(T, Kept(l).price) = {Kept(x) : x \in Others(theirs, l.price)}
  BY <1>4, ParseOthers
<1> HIDE DEF T, N
<1>7. ASSUME NEW x \in Others(T, Kept(l).price) \ ToSet(N)
      PROVE  /\ Len(T) = feed
             /\ \A m \in ToSet(T) : m.price # Kept(l).price
             /\ \A y \in ToSet(N) : <<x.price, y.price>> \in R
             /\ \A y \in Others(T, Kept(l).price) \ ToSet(N) : y = x
  <2>1. PICK k \in Others(theirs, l.price) : x = Kept(k)
    BY <1>6
  <2>2. k \in Others(theirs, l.price) \ ToSet(next) /\ k \in LevelChange
    BY <1>2, <1>3, <1>7, <2>1 DEF Others
  <2>3. /\ Len(theirs) = feed
        /\ \A m \in ToSet(theirs) : m.price # l.price
        /\ \A y \in ToSet(next) : <<k.price, y.price>> \in R
        /\ \A y \in Others(theirs, l.price) \ ToSet(next) : y = k
    BY <2>2 DEF PutInto
  <2>4. ASSUME NEW m \in ToSet(T) PROVE m.price # Kept(l).price
    <3>1. PICK j \in ToSet(theirs) : m = Kept(j)
      BY <1>3
    <3> QED BY <1>2, <1>4, <2>3, <3>1, KeptApart
  <2>5. ASSUME NEW y \in ToSet(N) PROVE <<x.price, y.price>> \in R
    <3>1. PICK j \in ToSet(next) : y = Kept(j)
      BY <1>3
    <3>2. <<k.price, j.price>> \in R /\ j \in LevelChange
      BY <1>2, <2>3
    <3> QED BY <2>1, <2>2, <3>1, <3>2, KeptApart
  <2>6. ASSUME NEW y \in Others(T, Kept(l).price) \ ToSet(N) PROVE y = x
    <3>1. PICK j \in Others(theirs, l.price) : y = Kept(j)
      BY <1>6
    <3>2. j \notin ToSet(next)
      BY <1>3, <2>6, <3>1
    <3> QED BY <2>1, <2>3, <3>1, <3>2
  <2> QED BY <1>3, <2>3, <2>4, <2>5, <2>6
<1>8. ASSUME NEW m \in ToSet(T), m.price = Kept(l).price PROVE Len(N) <= Len(T)
  <2>1. PICK j \in ToSet(theirs) : m = Kept(j)
    BY <1>3
  <2>2. j.price = l.price
    BY <1>2, <1>4, <1>8, <2>1, KeptApart
  <2> QED BY <1>1, <1>3, <2>1, <2>2
<1>9. Kept(l) \in ToSet(N) /\ ToSet(N) \subseteq ToSet(T) \cup {Kept(l)} /\ Len(N) <= Len(T) + 1
  BY <1>1, <1>3
<1>10. PutInto(T, N, Kept(l), R, feed)
  BY <1>5, <1>7, <1>8, <1>9 DEF PutInto
<1> QED BY <1>4, <1>10 DEF T, N

\* A level taken out of the exchange's side is taken out of what is stored of it.
LEMMA ParseDelete ==
    ASSUME sub \in Subscriptions, Apart, NEW R \in {Rising, Falling}, NEW depth \in Nat,
           NEW list \in Seq(Offer), IsSide(list, R, depth), NEW p \in Prices
    PROVE  /\ Delete(list, p) \in Seq(Offer)
           /\ ParsePriceLevels(Delete(list, p)) = Delete(ParsePriceLevels(list), sub.stored[p])
<1> DEFINE gone == [price |-> p, volume |-> 0]
           q == sub.stored[p]
           rest == Delete(list, p)
           parsed == ParsePriceLevels(list)
<1>1. /\ gone \in LevelChange /\ gone.price = p /\ Kept(gone).price = q
      /\ p \in Price /\ q \in Price /\ Strict(R)
  <2>1. gone \in LevelChange /\ gone.price = p
    BY DEF LevelChange
  <2>2. Kept(gone).price = q
    BY <2>1, KeptIs
  <2>3. p \in Price /\ q \in Price
    BY KrakenAssumption DEF Price
  <2> QED BY <2>1, <2>2, <2>3, BothStrict
<1>2. /\ rest \in Seq(Level) /\ IsSide(rest, R, depth) /\ ToSet(rest) = Others(list, p)
  BY <1>1, DeleteIs DEF IsSide
<1>3. rest \in Seq(Offer)
  BY <1>2, OffersOf DEF Others
<1>4. IsSide(parsed, R, depth)
  BY ParseSide
<1>5. IsSide(Delete(parsed, q), R, depth) /\ ToSet(Delete(parsed, q)) = Others(parsed, q)
  BY <1>1, <1>4, DeleteIs
<1>6. Others(parsed, q) = {Kept(l) : l \in Others(list, p)}
  BY <1>1, ParseOthers
<1>7. IsSide(ParsePriceLevels(rest), R, depth)
  BY <1>2, <1>3, ParseSide
<1>8. ToSet(ParsePriceLevels(rest)) = {Kept(l) : l \in Others(list, p)}
  <2>1. rest \in Seq(LevelChange)
    BY <1>3, OffersAreLevels
  <2> QED BY <1>2, <2>1, ParseIs
<1>9. ParsePriceLevels(rest) = Delete(parsed, q)
  <2> HIDE DEF rest, parsed, q
  <2> QED BY <1>1, <1>5, <1>6, <1>7, <1>8, SameSide DEF IsSide
<1> QED BY <1>3, <1>9

\* What is told of a side, as it is parsed, is what is to be told of the stored side.
LEMMA ParseTold ==
    ASSUME sub \in Subscriptions, Apart, NEW R \in {Rising, Falling}, NEW feed \in Nat,
           NEW theirs \in Seq(Offer), IsSide(theirs, R, feed),
           NEW next \in Seq(Offer), NEW told, NEW p \in Prices,
           \/ Put(theirs, next, told, R, feed)
           \/ /\ \E m \in ToSet(theirs) : m.price = p
              /\ Taken(theirs, next, told, p) \/ Replaced(theirs, next, told, p, R, feed)
    PROVE  LET T == ParsePriceLevels(theirs)
               N == ParsePriceLevels(next)
               t == ParsePriceLevels(told)
               q == sub.stored[p]
           IN  \/ Put(T, N, t, R, feed)
               \/ /\ q \in Price
                  /\ \E m \in ToSet(T) : m.price = q
                  /\ Taken(T, N, t, q) \/ Replaced(T, N, t, q, R, feed)
<1> DEFINE T == ParsePriceLevels(theirs)
           N == ParsePriceLevels(next)
           t == ParsePriceLevels(told)
           q == sub.stored[p]
           gone == [price |-> p, volume |-> 0]
<1>1. /\ gone \in LevelChange /\ gone.price = p /\ q \in Price
      /\ Kept(gone) = [price |-> q, volume |-> 0]
  BY KrakenAssumption DEF LevelChange, Price, Kept
<1>2. theirs \in Seq(LevelChange) /\ next \in Seq(LevelChange)
  BY OffersAreLevels
<1>3. ToSet(T) = {Kept(x) : x \in ToSet(theirs)} /\ ToSet(N) = {Kept(x) : x \in ToSet(next)}
  BY <1>2, ParseIs
<1>4. \A k : told = <<k>> => t = <<Kept(k)>>
  BY DEF ParsePriceLevels, Kept
<1>5. \A k, l : told = <<k, l>> => t = <<Kept(k), Kept(l)>>
  BY DEF ParsePriceLevels, Kept
<1>6. ASSUME \E m \in ToSet(theirs) : m.price = p PROVE \E m \in ToSet(T) : m.price = q
  <2>1. PICK m \in ToSet(theirs) : m.price = p
    BY <1>6
  <2>2. m \in LevelChange
    BY <1>2, <2>1 DEF ToSet
  <2>3. Kept(m).price = q /\ Kept(m) \in ToSet(T)
    BY <1>3, <2>1, <2>2, KeptIs
  <2> QED BY <2>3
<1>7. CASE Put(theirs, next, told, R, feed)
  <2>1. PICK l \in Level : told = <<l>> /\ PutInto(theirs, next, l, R, feed)
    BY <1>7 DEF Put
  <2>2. Kept(l) \in Level /\ PutInto(T, N, Kept(l), R, feed)
    BY <2>1, ParsePutInto
  <2>3. t = <<Kept(l)>>
    BY <1>4, <2>1
  <2> HIDE DEF T, N, t, q
  <2>4. Put(T, N, t, R, feed)
    BY <2>2, <2>3 DEF Put
  <2> QED BY <2>4 DEF T, N, t, q
<1>8. CASE (\E m \in ToSet(theirs) : m.price = p) /\ Taken(theirs, next, told, p)
  <2>1. told = <<gone>> /\ ToSet(next) = Others(theirs, p)
    BY <1>8 DEF Taken
  <2>2. t = <<[price |-> q, volume |-> 0]>>
    BY <1>1, <1>4, <2>1
  <2>3. Others(T, q) = {Kept(x) : x \in Others(theirs, p)}
    <3>1. Others(T, Kept(gone).price) = {Kept(x) : x \in Others(theirs, gone.price)}
      BY <1>1, ParseOthers
    <3>2. Kept(gone).price = q
      BY <1>1
    <3> QED BY <1>1, <3>1, <3>2
  <2>4. ToSet(N) = Others(T, q)
    BY <1>3, <2>1, <2>3
  <2> HIDE DEF T, N, t, q
  <2>5. Taken(T, N, t, q)
    BY <2>2, <2>4 DEF Taken
  <2> QED BY <1>1, <1>6, <1>8, <2>5 DEF T, N, t, q
<1>9. CASE (\E m \in ToSet(theirs) : m.price = p) /\ Replaced(theirs, next, told, p, R, feed)
  <2>1. PICK l \in Level : told = <<gone, l>> /\ PutInto(Delete(theirs, p), next, l, R, feed)
    BY <1>9 DEF Replaced
  <2>2. /\ Delete(theirs, p) \in Seq(Offer)
        /\ ParsePriceLevels(Delete(theirs, p)) = Delete(T, q)
    BY ParseDelete
  <2>3. Kept(l) \in Level /\ PutInto(Delete(T, q), N, Kept(l), R, feed)
    BY <2>1, <2>2, ParsePutInto
  <2>4. t = <<[price |-> q, volume |-> 0], Kept(l)>>
    BY <1>1, <1>5, <2>1
  <2> HIDE DEF T, N, t, q
  <2>5. Replaced(T, N, t, q, R, feed)
    BY <2>3, <2>4 DEF Replaced
  <2> QED BY <1>1, <1>6, <1>9, <2>5 DEF T, N, t, q
<1> QED BY <1>7, <1>8, <1>9

\* The levels of a snapshot, and the tip of a side, as they are stored.
LEMMA ParseReverse ==
    ASSUME NEW list \in Seq(Offer)
    PROVE  ParsePriceLevels(Reverse(list)) = Reverse(ParsePriceLevels(list))
<1> DEFINE n == Len(list)
           back == Reverse(list)
           parsed == ParsePriceLevels(list)
<1>1. n \in Nat /\ back = [i \in 1..n |-> list[(n - i) + 1]] /\ Len(back) = n
  BY DEF Reverse
<1>2. parsed = [i \in 1..n |-> Kept(list[i])] /\ Len(parsed) = n
  BY DEF ParsePriceLevels, Kept
<1>3. ParsePriceLevels(back) = [i \in 1..n |-> Kept(back[i])]
  BY <1>1 DEF ParsePriceLevels, Kept
<1>4. Reverse(parsed) = [i \in 1..n |-> parsed[(n - i) + 1]]
  BY <1>2 DEF Reverse
<1>5. ASSUME NEW i \in 1..n PROVE Kept(back[i]) = parsed[(n - i) + 1]
  <2>1. (n - i) + 1 \in 1..n
    BY <1>1
  <2> HIDE DEF back, parsed, n
  <2> QED BY <1>1, <1>2, <2>1
<1> HIDE DEF back, parsed, n
<1>6. ParsePriceLevels(back) = Reverse(parsed)
  BY <1>3, <1>4, <1>5
<1> QED BY <1>6 DEF back, parsed

LEMMA ParseTip ==
    ASSUME sub \in Subscriptions, Apart, NEW R \in {Rising, Falling}, NEW depth \in Nat,
           NEW feed \in Nat, NEW list \in Seq(Offer), IsSide(list, R, feed)
    PROVE  ParsePriceLevels(Tip(list, depth)) = Tip(ParsePriceLevels(list), depth)
<1> DEFINE len == Len(list)
           n == IF len > depth THEN depth ELSE len
           tip == Tip(list, depth)
           parsed == ParsePriceLevels(list)
<1>1. list \in Seq(Level) /\ Ordered(list, R) /\ list \in Seq(LevelChange) /\ len \in Nat
  BY OffersAreLevels DEF IsSide
<1>2. /\ n \in 0..len /\ tip \in Seq(Level) /\ Len(tip) = n
      /\ \A i \in 1..n : tip[i] = list[len - n + i]
  BY <1>1, TipIs DEF IsSide
<1>3. tip \in Seq(Offer) /\ tip \in Seq(LevelChange)
  <2>1. \A i \in 1..n : len - n + i \in 1..len
    BY <1>1, <1>2
  <2>2. \A i \in 1..n : tip[i] \in Offer
    <3> HIDE DEF tip, n, len
    <3>1. \A i \in 1..n : list[len - n + i] \in Offer
      BY <2>1 DEF len
    <3> QED BY <1>2, <3>1
  <2> HIDE DEF tip, n
  <2>3. tip \in [1..n -> Offer]
    BY <1>2, <2>2
  <2>4. tip \in Seq(Offer)
    BY <1>2, <2>3
  <2> QED BY <2>4, OffersAreLevels
<1>4. /\ parsed \in Seq(Level) /\ Len(parsed) = len /\ Ordered(parsed, R)
      /\ \A i \in 1..len : parsed[i] = Kept(list[i])
  BY <1>1, ParseIs, ParseSide DEF IsSide
<1>5. /\ Tip(parsed, depth) \in Seq(Level) /\ Len(Tip(parsed, depth)) = n
      /\ \A i \in 1..n : Tip(parsed, depth)[i] = parsed[len - n + i]
  <2> HIDE DEF parsed, len
  <2>1. LET k == IF Len(parsed) > depth THEN depth ELSE Len(parsed)
        IN  /\ IsSide(Tip(parsed, depth), R, depth) /\ Len(Tip(parsed, depth)) = k
            /\ \A i \in 1..k : Tip(parsed, depth)[i] = parsed[Len(parsed) - k + i]
    BY <1>4, TipIs
  <2> QED BY <1>4, <2>1 DEF IsSide
<1>6. /\ ParsePriceLevels(tip) \in Seq(Level) /\ Len(ParsePriceLevels(tip)) = n
      /\ \A i \in 1..n : ParsePriceLevels(tip)[i] = Kept(tip[i])
  BY <1>2, <1>3, ParseIs
<1> HIDE DEF len, n, tip, parsed
<1>7. ASSUME NEW i \in 1..n PROVE ParsePriceLevels(tip)[i] = Tip(parsed, depth)[i]
  <2>1. len - n + i \in 1..len
    BY <1>1, <1>2
  <2> QED BY <1>2, <1>4, <1>5, <1>6, <2>1
<1>8. ParsePriceLevels(tip) = Tip(parsed, depth)
  <2>1. n \in Nat
    BY <1>1, <1>2
  <2> QED BY <1>5, <1>6, <1>7, <2>1, SeqEqual
<1> QED BY <1>8 DEF tip, parsed

-----------------------------------------------------------------------------
(***************************************************************************)
(* The handler                                                             *)
(***************************************************************************)

\* A subscription asks for at least as many levels as it keeps.
LEMMA SubscriptionIs ==
    ASSUME sub \in Subscriptions
    PROVE  /\ sub.feed \in Nat /\ sub.kept \in Nat /\ sub.kept <= sub.feed
           /\ sub.validate \in BOOLEAN /\ sub.stored \in [Prices -> Nat]
<1>1. /\ sub \in [feed : Legal, kept : Nat, validate : BOOLEAN, stored : [Prices -> Nat]]
      /\ sub.kept \in {sub.feed, 1}
  BY KrakenAssumption
<1>2. sub.feed \in Nat \ {0, 1}
  BY <1>1, KrakenAssumption
<1> QED BY <1>1, <1>2

\* The exchange's levels are a book.
LEMMA TopIsBook ==
    ASSUME NEW vol \in Vols, NEW depth \in Nat
    PROVE  /\ Top(vol, depth) \in ExchangeBook
           /\ \A side \in Sides : /\ Top(vol, depth)[side] = Best(vol, side, depth)
                                  /\ Top(vol, depth)[side] \in Seq(Offer)
                                  /\ IsSide(Top(vol, depth)[side], Dir(side), depth)
<1>1. ASSUME NEW side \in Sides PROVE Best(vol, side, depth) \in Seq(Offer)
  <2> DEFINE best == Best(vol, side, depth)
  <2>1. /\ best \in Seq(Level)
        /\ ToSet(best) = {LevelAt(vol, side, p) : p \in Within(vol, side, depth)}
    BY TopIs DEF IsSide
  <2>2. \A p \in Within(vol, side, depth) : LevelAt(vol, side, p) \in Offer
    <3> TAKE p \in Within(vol, side, depth)
    <3>1. p \in Listed(vol, side)
      BY DEF Within
    <3>2. p \in Prices /\ vol[side][p] \in Volumes
      BY <3>1, ListedIs
    <3> QED BY <3>2 DEF LevelAt, Offer
  <2>3. Len(best) \in Nat /\ DOMAIN best = 1..Len(best)
    BY <2>1
  <2> HIDE DEF best
  <2>4. \A i \in 1..Len(best) : best[i] \in Offer
    <3> TAKE i \in 1..Len(best)
    <3>1. best[i] \in ToSet(best)
      BY <2>3 DEF ToSet
    <3> QED BY <2>1, <2>2, <3>1
  <2>5. best \in [1..Len(best) -> Offer]
    BY <2>1, <2>3, <2>4
  <2>6. best \in Seq(Offer)
    BY <2>3, <2>5
  <2> QED BY <2>6 DEF best
<1> QED BY <1>1, TopIs DEF Top, ExchangeBook

\* The levels of a list from its other end.
LEMMA ReverseIs ==
    ASSUME NEW list \in Seq(Offer)
    PROVE  Reverse(list) \in Seq(Offer) /\ Len(Reverse(list)) = Len(list)
<1> DEFINE n == Len(list)
<1>1. n \in Nat /\ Reverse(list) = [i \in 1..n |-> list[(n - i) + 1]]
  BY DEF Reverse
<1>2. \A i \in 1..n : list[(n - i) + 1] \in Offer
  <2> TAKE i \in 1..n
  <2>1. (n - i) + 1 \in 1..n
    BY <1>1
  <2> QED BY <2>1
<1>3. Reverse(list) \in [1..n -> Offer]
  BY <1>1, <1>2
<1> HIDE DEF n
<1> QED BY <1>1, <1>3 DEF n

\* A snapshot is handled to a book of sides: the best of its levels as they are
\* stored, as many as are kept, if their prices are kept apart.
LEMMA SnapshotIs ==
    ASSUME sub \in Subscriptions, NEW vol \in Vols
    PROVE  LET m == Snapshot(vol, sub.feed)
           IN  /\ m \in BookMessage /\ m.book = Top(vol, sub.feed) /\ m.kind = "snapshot"
               /\ \A side \in Sides : IsSide(Handled(m)[side], Dir(side), sub.kept)
               /\ Apart => /\ \A side \in Sides :
                                 Handled(m)[side] = Tip(ParsePriceLevels(m.book[side]), sub.kept)
                           /\ NearBook(Handled(m), Stored(m.book), sub.kept, sub.feed)
<1> DEFINE m == Snapshot(vol, sub.feed)
           top == Top(vol, sub.feed)
           asks == ParsePriceLevels(m.asks)
           bids == ParsePriceLevels(m.bids)
<1>1. sub.feed \in Nat /\ sub.kept \in Nat /\ sub.kept <= sub.feed
  BY SubscriptionIs
<1>2. /\ top \in ExchangeBook
      /\ \A side \in Sides : top[side] \in Seq(Offer) /\ IsSide(top[side], Dir(side), sub.feed)
  BY <1>1, TopIsBook
<1> HIDE DEF top
<1>3. /\ m.kind = "snapshot" /\ m.asks = Reverse(top.asks) /\ m.bids = Reverse(top.bids)
      /\ m.book = top /\ m.gap = FALSE
      /\ m = [kind |-> "snapshot", asks |-> Reverse(top.asks), bids |-> Reverse(top.bids),
              book |-> top, gap |-> FALSE]
  BY DEF Snapshot, top
<1>4. top.asks \in Seq(Offer) /\ top.bids \in Seq(Offer)
  BY <1>2 DEF Sides
<1>5. m.asks \in Seq(LevelChange) /\ m.bids \in Seq(LevelChange)
  <2>1. m.asks \in Seq(Offer) /\ m.bids \in Seq(Offer)
    BY <1>3, <1>4, ReverseIs
  <2> HIDE DEF m
  <2> QED BY <2>1, OffersAreLevels
<1>6. m \in BookMessage
  BY <1>2, <1>3, <1>5 DEF BookMessage
<1> HIDE DEF m
<1>7. asks \in Seq(Change) /\ bids \in Seq(Change)
  BY <1>5, ParseIs
<1>8. Handled(m) = ChangeBook(EmptyBook, asks, bids, sub.kept)
  BY <1>3 DEF Handled
<1> HIDE DEF asks, bids
<1>9. \A side \in Sides : IsSide(Handled(m)[side], Dir(side), sub.kept)
  <2>1. EmptyBook.asks = <<>> /\ EmptyBook.bids = <<>>
    BY DEF EmptyBook
  <2>2. \A R : IsSide(<<>>, R, sub.kept)
    BY <1>1 DEF IsSide, Ordered
  <2>3. IsSide(EmptyBook.asks, Falling, sub.kept) /\ IsSide(EmptyBook.bids, Rising, sub.kept)
    BY <2>1, <2>2
  <2>4. IsSide(Handled(m).asks, Falling, sub.kept) /\ IsSide(Handled(m).bids, Rising, sub.kept)
    BY <1>1, <1>7, <1>8, <2>3, ChangeBookCorrect
  <2> QED BY <2>4 DEF Sides, Dir
<1>10. ASSUME Apart, NEW side \in Sides
       PROVE  /\ Handled(m)[side] = Tip(ParsePriceLevels(top[side]), sub.kept)
              /\ Near(Handled(m)[side], Stored(top)[side], Dir(side), sub.kept, sub.feed)
  <2> DEFINE told == ToldOf(asks, bids, side)
             list == ParsePriceLevels(top[side])
  <2>1. Dir(side) \in {Rising, Falling}
    BY DEF Dir
  <2>2. IsSide(list, Dir(side), sub.feed)
    BY <1>1, <1>2, <1>10, <2>1, ParseSide
  <2>3. /\ list \in Seq(Level) /\ Ordered(list, Dir(side))
        /\ Len(list) <= sub.feed /\ Len(list) \in Nat
    BY <2>2 DEF IsSide
  <2>4. told = Reverse(list) /\ Len(told) = Len(list) /\ EmptyBook[side] = <<>>
    <3>1. told = ParsePriceLevels(Reverse(top[side]))
      BY <1>3 DEF ToldOf, Sides, asks, bids
    <3>2. told = Reverse(list)
      BY <1>2, <3>1, ParseReverse
    <3>3. Len(Reverse(list)) = Len(list)
      BY <2>3 DEF Reverse
    <3> QED BY <3>2, <3>3 DEF EmptyBook, Sides
  <2> HIDE DEF told
  <2>5. PICK g : /\ Walk(g, 1..Len(told), EmptyBook[side], told, Dir(side), sub.kept)
                 /\ ChangeBook(EmptyBook, asks, bids, sub.kept)[side] = g[1..Len(told)]
    BY <1>7, FoldSide DEF told
  <2> HIDE DEF list
  <2>6. g[1..Len(list)] = Tip(list, sub.kept)
    <3>1. Walk(g, 1..Len(list), <<>>, Reverse(list), Dir(side), sub.kept)
      BY <2>4, <2>5
    <3> QED BY <1>1, <2>1, <2>3, <3>1, SnapshotTold
  <2>7. Handled(m)[side] = Tip(list, sub.kept)
    BY <1>8, <2>4, <2>5, <2>6
  <2> DEFINE n == IF Len(list) > sub.kept THEN sub.kept ELSE Len(list)
  <2>8. /\ IsSide(Tip(list, sub.kept), Dir(side), sub.kept)
        /\ Len(Tip(list, sub.kept)) = n
        /\ ToSet(Tip(list, sub.kept)) = BestLevels(list, n) /\ n \in 0..Len(list)
    BY <1>1, <2>3, TipIs
  <2>9. Len(list) - n <= sub.feed - sub.kept
    BY <1>1, <2>3
  <2> HIDE DEF n
  <2>10. BestLevels(list, n) \subseteq ToSet(list)
    <3>1. Strict(Dir(side))
      BY PricesIs
    <3> QED BY <2>3, <2>8, <3>1, BestAre
  <2>11. Stored(top)[side] = list
    BY DEF Stored, list
  <2> QED BY <2>2, <2>7, <2>8, <2>9, <2>10, <2>11 DEF Near, list
<1> QED BY <1>3, <1>6, <1>9, <1>10 DEF NearBook, m, top

\* What is told are levels of the exchange, or one that is gone.
LEMMA ToldType ==
    ASSUME NEW theirs, NEW next \in Seq(Offer), NEW told, NEW p \in Prices, NEW R, NEW feed,
           \/ Put(theirs, next, told, R, feed)
           \/ Taken(theirs, next, told, p) \/ Replaced(theirs, next, told, p, R, feed)
    PROVE  told \in Seq(LevelChange)
<1>1. \A l \in ToSet(next) : l \in LevelChange
  <2>1. next \in Seq(LevelChange)
    BY OffersAreLevels
  <2> QED BY <2>1 DEF ToSet
<1>2. [price |-> p, volume |-> 0] \in LevelChange
  BY DEF LevelChange
<1>3. \A k, l : k \in LevelChange /\ l \in LevelChange =>
          <<k>> \in Seq(LevelChange) /\ <<k, l>> \in Seq(LevelChange)
  OBVIOUS
<1>4. \A other, l : PutInto(other, next, l, R, feed) => l \in LevelChange
  BY <1>1 DEF PutInto
<1>5. CASE Put(theirs, next, told, R, feed)
  BY <1>3, <1>4, <1>5 DEF Put
<1>6. CASE Taken(theirs, next, told, p)
  BY <1>2, <1>3, <1>6 DEF Taken
<1>7. CASE Replaced(theirs, next, told, p, R, feed)
  BY <1>2, <1>3, <1>4, <1>7 DEF Replaced
<1> QED BY <1>5, <1>6, <1>7

\* A side nothing is told of stays.
LEMMA SideStays ==
    ASSUME NEW book, NEW asks \in Seq(Change), NEW bids \in Seq(Change), NEW depth,
           NEW side \in Sides,
           ToldOf(asks, bids, side) = <<>>
    PROVE  ChangeBook(book, asks, bids, depth)[side] = book[side]
<1> DEFINE told == ToldOf(asks, bids, side)
           n == Len(told)
<1>1. n \in Nat /\ n = 0
  OBVIOUS
<1>2. PICK g : /\ Walk(g, 1..n, book[side], told, Dir(side), depth)
               /\ ChangeBook(book, asks, bids, depth)[side] = g[1..n]
  BY FoldSide
<1> HIDE DEF told, n
<1>3. g[1..0] = book[side]
  BY <1>1, <1>2, WalkSteps
<1> QED BY <1>1, <1>2, <1>3

\* An update leaves a book of sides, whatever was lost before it, and one that is
\* near if none was.
LEMMA UpdateIs ==
    ASSUME sub \in Subscriptions, NEW m, NEW before,
           IsUpdate(m, before, sub.feed), m.gap \in BOOLEAN,
           \A side \in Sides : IsSide(ob[side], Dir(side), sub.kept)
    PROVE  /\ m.kind = "update" /\ m.asks \in Seq(LevelChange) /\ m.bids \in Seq(LevelChange)
           /\ \E vol \in Vols : m.book = Top(vol, sub.feed)
           /\ \A side \in Sides : IsSide(Handled(m)[side], Dir(side), sub.kept)
           /\ ~m.gap /\ Apart /\ NearBook(ob, Stored(before), sub.kept, sub.feed) =>
                NearBook(Handled(m), Stored(m.book), sub.kept, sub.feed)
<1>1. sub.feed \in Nat /\ sub.kept \in Nat /\ sub.kept <= sub.feed
  BY SubscriptionIs
<1>2. PICK old \in Vols, side \in Sides, p \in Prices, v \in Volumes \cup {0} :
         LET new == [old EXCEPT ![side][p] = v]
         IN  /\ old[side][p] # v
             /\ Top(new, sub.feed) # Top(old, sub.feed)
             /\ m.kind = "update"
             /\ m.asks = IF side = "asks" THEN Told(old, new, side, p, sub.feed) ELSE <<>>
             /\ m.bids = IF side = "bids" THEN Told(old, new, side, p, sub.feed) ELSE <<>>
             /\ m.book = Top(new, sub.feed)
             /\ m.gap \/ before = Top(old, sub.feed)
  BY DEF IsUpdate
<1> DEFINE new == [old EXCEPT ![side][p] = v]
           told == Told(old, new, side, p, sub.feed)
           theirs == Best(old, side, sub.feed)
           next == Best(new, side, sub.feed)
<1>3. /\ new \in Vols
      /\ \A s \in Sides : s # side => Best(new, s, sub.feed) = Best(old, s, sub.feed)
      /\ \/ Put(theirs, next, told, Dir(side), sub.feed)
         \/ /\ p \in Price
            /\ \E l \in ToSet(theirs) : l.price = p
            /\ \/ Taken(theirs, next, told, p)
               \/ Replaced(theirs, next, told, p, Dir(side), sub.feed)
  <2>1. /\ new \in Vols /\ new[side][p] = v
        /\ \A x \in Prices : x # p => new[side][x] = old[side][x]
        /\ \A s \in Sides : s # side => new[s] = old[s]
    BY DEF Vols
  <2>2. old[side][p] # v /\ Top(new, sub.feed) # Top(old, sub.feed)
    BY <1>2
  <2> HIDE DEF new
  <2> QED BY <1>1, <2>1, <2>2, ChangeTold
<1>4. /\ m.asks = IF side = "asks" THEN told ELSE <<>>
      /\ m.bids = IF side = "bids" THEN told ELSE <<>>
      /\ m.book = Top(new, sub.feed) /\ m.kind = "update"
      /\ m.gap \/ before = Top(old, sub.feed)
  BY <1>2
<1> HIDE DEF new, told, theirs, next
<1>5. theirs \in Seq(Offer) /\ next \in Seq(Offer)
  BY <1>1, <1>3, TopIsBook DEF theirs, next
<1>6. told \in Seq(LevelChange)
  BY <1>3, <1>5, ToldType
<1>7. m.asks \in Seq(LevelChange) /\ m.bids \in Seq(LevelChange)
  BY <1>4, <1>6
<1> DEFINE asks == ParsePriceLevels(m.asks)
           bids == ParsePriceLevels(m.bids)
<1>8. asks \in Seq(Change) /\ bids \in Seq(Change)
  BY <1>7, ParseIs
<1>9. Handled(m) = ChangeBook(ob, asks, bids, sub.kept)
  BY <1>4 DEF Handled
<1>10. /\ side = "asks" => asks = ParsePriceLevels(told) /\ bids = <<>>
       /\ side = "bids" => bids = ParsePriceLevels(told) /\ asks = <<>>
  <2>1. ParsePriceLevels(<<>>) = <<>>
    BY DEF ParsePriceLevels
  <2> QED BY <1>4, <2>1
<1> HIDE DEF asks, bids
<1>11. \A s \in Sides : IsSide(Handled(m)[s], Dir(s), sub.kept)
  <2>1. IsSide(ob.asks, Falling, sub.kept) /\ IsSide(ob.bids, Rising, sub.kept)
    BY DEF Sides, Dir
  <2>2. /\ IsSide(Handled(m).asks, Falling, sub.kept)
        /\ IsSide(Handled(m).bids, Rising, sub.kept)
    BY <1>1, <1>8, <1>9, <2>1, ChangeBookCorrect
  <2> QED BY <2>2 DEF Sides, Dir
<1>12. ASSUME ~m.gap, Apart, NearBook(ob, Stored(before), sub.kept, sub.feed), NEW s \in Sides
       PROVE  Near(Handled(m)[s], Stored(m.book)[s], Dir(s), sub.kept, sub.feed)
  <2>1. before = Top(old, sub.feed)
    BY <1>4, <1>12
  <2>2. before[s] = Best(old, s, sub.feed) /\ m.book[s] = Best(new, s, sub.feed)
    BY <1>1, <1>3, <1>4, <2>1, TopIsBook
  <2>3. /\ Stored(before)[s] = ParsePriceLevels(Best(old, s, sub.feed))
        /\ Stored(m.book)[s] = ParsePriceLevels(Best(new, s, sub.feed))
    BY <2>2 DEF Stored
  <2>4. Near(ob[s], ParsePriceLevels(Best(old, s, sub.feed)), Dir(s), sub.kept, sub.feed)
    BY <1>12, <2>3 DEF NearBook
  <2>5. CASE s # side
    <3>1. ToldOf(asks, bids, s) = <<>>
      BY <1>10, <2>5 DEF ToldOf, Sides
    <3>2. Handled(m)[s] = ob[s]
      BY <1>8, <1>9, <3>1, SideStays
    <3> QED BY <1>3, <2>3, <2>4, <2>5, <3>2
  <2>6. CASE s = side
    <3> DEFINE T == ParsePriceLevels(theirs)
               N == ParsePriceLevels(next)
               t == ParsePriceLevels(told)
               q == sub.stored[p]
    <3>1. ToldOf(asks, bids, side) = t
      BY <1>10 DEF ToldOf, Sides
    <3>2. Near(ob[side], T, Dir(side), sub.kept, sub.feed)
      BY <2>4, <2>6 DEF theirs
    <3>3. /\ IsSide(theirs, Dir(side), sub.feed) /\ IsSide(next, Dir(side), sub.feed)
          /\ Dir(side) \in {Rising, Falling}
      BY <1>1, <1>3, TopIs DEF theirs, next, Dir
    <3>4. IsSide(N, Dir(side), sub.feed)
      BY <1>1, <1>5, <1>12, <3>3, ParseSide
    <3>5. \/ Put(T, N, t, Dir(side), sub.feed)
          \/ /\ q \in Price
             /\ \E l \in ToSet(T) : l.price = q
             /\ Taken(T, N, t, q) \/ Replaced(T, N, t, q, Dir(side), sub.feed)
      <4>1. \/ Put(theirs, next, told, Dir(side), sub.feed)
            \/ /\ \E l \in ToSet(theirs) : l.price = p
               /\ \/ Taken(theirs, next, told, p)
                  \/ Replaced(theirs, next, told, p, Dir(side), sub.feed)
        BY <1>3
      <4> QED BY <1>1, <1>5, <1>12, <3>3, <4>1, ParseTold
    <3> HIDE DEF T, N, t, q
    <3>6. PICK g : /\ Walk(g, 1..Len(t), ob[side], t, Dir(side), sub.kept)
                   /\ Handled(m)[side] = g[1..Len(t)]
      BY <1>8, <1>9, <3>1, FoldSide
    <3>7. Near(g[1..Len(t)], N, Dir(side), sub.kept, sub.feed)
      BY <1>1, <3>2, <3>3, <3>4, <3>5, <3>6, ToldNear
    <3> QED BY <2>3, <2>6, <3>6, <3>7 DEF next, N
  <2> QED BY <2>5, <2>6
<1> QED BY <1>3, <1>4, <1>7, <1>11, <1>12 DEF NearBook

-----------------------------------------------------------------------------
(***************************************************************************)
(* The state                                                               *)
(***************************************************************************)

LEMMA InitInv == Init => Inv
<1> SUFFICES ASSUME Init PROVE Inv
  OBVIOUS
<1>1. sub \in Subscriptions /\ volumes \in Vols
  BY KrakenAssumption DEF Init, Vols
<1>2. /\ EmptyBook \in Book /\ EmptyBook \in ExchangeBook
      /\ \A side \in Sides : EmptyBook[side] = <<>>
  <2>1. EmptyBook.asks = <<>> /\ EmptyBook.bids = <<>>
    BY DEF EmptyBook
  <2>2. \A side \in Sides : EmptyBook[side] = <<>>
    BY <2>1 DEF Sides
  <2>3. EmptyBook = [side \in Sides |-> EmptyBook[side]]
    BY DEF EmptyBook, Sides
  <2>4. <<>> \in Seq(Level) /\ <<>> \in Seq(Offer)
    OBVIOUS
  <2>5. EmptyBook \in Book
    BY <2>2, <2>3, <2>4 DEF Book
  <2>6. EmptyBook \in ExchangeBook
    BY <2>2, <2>3, <2>4 DEF ExchangeBook
  <2> QED BY <2>2, <2>5, <2>6
<1>3. TypeOK
  <2>1. net \in Seq(BookMessage)
    BY DEF Init
  <2>2. /\ ob \in Book /\ current \in ExchangeBook
        /\ shown \in [kind : {"snapshot", "update"}, book : Book, exchange : ExchangeBook]
    BY <1>2 DEF Init
  <2>3. {changes, losses, connects} \subseteq Nat /\ asked \in Nat
    BY DEF Init
  <2> QED BY <1>1, <2>1, <2>2, <2>3 DEF Init, TypeOK, Vols
<1>4. FeedInv
  BY DEF Init, FeedInv
<1>5. BookInv
  <2>1. \A side \in Sides : IsSide(ob[side], Dir(side), sub.kept)
                            /\ IsSide(current[side], Dir(side), sub.feed)
    <3>1. ob = EmptyBook /\ current = EmptyBook /\ sub.kept \in Nat /\ sub.feed \in Nat
      BY <1>1, SubscriptionIs DEF Init
    <3>2. \A R : IsSide(<<>>, R, sub.kept) /\ IsSide(<<>>, R, sub.feed)
      BY <3>1 DEF IsSide, Ordered
    <3>3. \A side \in Sides : ob[side] = <<>> /\ current[side] = <<>>
      BY <1>2, <3>1
    <3> QED BY <3>2, <3>3, Zenon
  <2> QED BY <2>1 DEF Init, BookInv
<1> QED BY <1>3, <1>4, <1>5 DEF Inv

\* A change of the exchange's book is told, or it is lost and the next message
\* says so, or it is outside the depth.
LEMMA ChangeInv ==
    ASSUME Inv, NEW side \in Sides, NEW p \in Prices, NEW v \in Volumes \cup {0},
           ExchangeChange(side, p, v)
    PROVE  Inv'
<1> DEFINE new == [volumes EXCEPT ![side][p] = v]
           msg == Message(volumes, new, side, p)
           visible == Top(new, sub.feed) # Top(volumes, sub.feed)
           sent == feeding /\ link = "open" /\ visible
<1>1. /\ TypeOK /\ FeedInv /\ BookInv
      /\ sub \in Subscriptions /\ volumes \in Vols /\ net \in Seq(BookMessage)
  BY DEF Inv, TypeOK, Vols
<1>2. sub.feed \in Nat /\ sub.kept \in Nat
  BY <1>1, SubscriptionIs
<1>3. /\ new \in Vols /\ volumes[side][p] # v
      /\ volumes' = new /\ new = [volumes EXCEPT ![side][p] = v]
  <2>1. volumes[side][p] # v /\ volumes' = new
    BY DEF ExchangeChange
  <2> QED BY <1>1, <2>1 DEF Vols
<1>4. /\ UNCHANGED <<sub, feeding, asked, link, subscribed, ob, shown, current, intact, age,
                     connects>>
      /\ changes' = changes + 1
      /\ \/ ~sent /\ UNCHANGED <<net, gap, losses>>
         \/ sent /\ net' = Append(net, msg) /\ gap' = FALSE /\ UNCHANGED losses
         \/ sent /\ losses' = losses + 1 /\ gap' = TRUE /\ UNCHANGED net
  BY DEF ExchangeChange, clientVars
<1>5. /\ msg.kind = "update" /\ msg.gap = gap /\ msg.book = Top(new, sub.feed)
      /\ msg.asks = (IF side = "asks" THEN Told(volumes, new, side, p, sub.feed) ELSE <<>>)
      /\ msg.bids = (IF side = "bids" THEN Told(volumes, new, side, p, sub.feed) ELSE <<>>)
      /\ msg = [kind |-> "update", asks |-> msg.asks, bids |-> msg.bids, book |-> msg.book,
                gap |-> msg.gap]
  BY DEF Message
<1> HIDE DEF new, msg
<1>6. ASSUME sent PROVE IsUpdate(msg, LastTold, sub.feed) /\ msg \in BookMessage
  <2>1. gap \in BOOLEAN
    BY <1>1 DEF TypeOK
  <2>2. msg.gap \/ LastTold = Top(volumes, sub.feed)
    BY <1>1, <1>5, <1>6, <2>1 DEF FeedInv
  <2>3. IsUpdate(msg, LastTold, sub.feed)
    BY <1>1, <1>3, <1>5, <1>6, <2>2 DEF IsUpdate
  <2>4. msg.asks \in Seq(LevelChange) /\ msg.bids \in Seq(LevelChange)
    BY <1>1, <1>5, <2>1, <2>3, UpdateIs DEF BookInv
  <2>5. msg.book \in ExchangeBook
    BY <1>2, <1>3, <1>5, TopIsBook
  <2> QED BY <1>5, <2>1, <2>3, <2>4, <2>5 DEF BookMessage
<1>7. TypeOK'
  <2>1. net' \in Seq(BookMessage)
    BY <1>1, <1>4, <1>6
  <2>2. volumes' \in [Sides -> [Prices -> Volumes \cup {0}]]
    BY <1>3 DEF Vols
  <2>3. {feeding, gap, subscribed, intact}' \subseteq BOOLEAN
    BY <1>1, <1>4 DEF TypeOK
  <2>4. {changes, losses, connects}' \subseteq Nat
    BY <1>1, <1>4 DEF TypeOK
  <2>5. /\ (sub \in Subscriptions)' /\ (asked \in Nat)' /\ (link \in {"closed", "open", "silent"})'
        /\ (ob \in Book)' /\ (current \in ExchangeBook)'
        /\ (shown \in [kind : {"snapshot", "update"}, book : Book, exchange : ExchangeBook])'
        /\ (age \in {"none", "fresh", "old"})'
    BY <1>1, <1>4 DEF TypeOK
  <2> QED BY <2>1, <2>2, <2>3, <2>4, <2>5 DEF TypeOK
<1>8. FeedInv'
  <2>1. CASE ~sent /\ UNCHANGED <<net, gap, losses>>
    <3>1. (feeding /\ link = "open" /\ ~gap)' => LastTold' = Top(volumes', sub.feed')
      BY <1>1, <1>3, <1>4, <2>1 DEF FeedInv, LastTold
    <3>2. \A i \in 1..Len(net') :
             (IsSnapshot(net[i], sub.feed) \/ IsUpdate(net[i], Before(i), sub.feed))'
      BY <1>1, <1>4, <2>1 DEF FeedInv, Before
    <3>3. (link = "closed" => ~feeding /\ net = <<>>)'
      BY <1>1, <1>4, <2>1 DEF FeedInv
    <3> QED BY <3>1, <3>2, <3>3 DEF FeedInv
  <2>2. CASE sent /\ losses' = losses + 1 /\ gap' = TRUE /\ UNCHANGED net
    <3>2. \A i \in 1..Len(net') :
             (IsSnapshot(net[i], sub.feed) \/ IsUpdate(net[i], Before(i), sub.feed))'
      BY <1>1, <1>4, <2>2 DEF FeedInv, Before
    <3>3. (link = "closed" => ~feeding /\ net = <<>>)'
      BY <1>1, <1>4, <2>2 DEF FeedInv
    <3> QED BY <2>2, <3>2, <3>3 DEF FeedInv
  <2>3. CASE sent /\ net' = Append(net, msg) /\ gap' = FALSE /\ UNCHANGED losses
    <3>1. /\ Len(net') = Len(net) + 1 /\ Len(net) \in Nat /\ net'[Len(net) + 1] = msg
          /\ \A i \in 1..Len(net) : net'[i] = net[i]
      BY <1>1, <1>6, <2>3
    <3>2. LastTold' = Top(volumes', sub.feed')
      <4>1. net' # <<>> /\ net'[Len(net')] = msg
        BY <3>1, <2>3
      <4> QED BY <1>3, <1>4, <1>5, <4>1 DEF LastTold
    <3>3. ASSUME NEW i \in 1..Len(net')
          PROVE  (IsSnapshot(net[i], sub.feed) \/ IsUpdate(net[i], Before(i), sub.feed))'
      <4>1. CASE i \in 1..Len(net)
        <5>1. net'[i] = net[i] /\ (i # 1 => net'[i - 1] = net[i - 1])
          BY <3>1, <4>1
        <5>2. Before(i)' = Before(i)
          BY <1>4, <5>1 DEF Before
        <5>3. IsSnapshot(net[i], sub.feed) \/ IsUpdate(net[i], Before(i), sub.feed)
          BY <1>1, <4>1 DEF FeedInv
        <5> QED BY <1>4, <5>1, <5>2, <5>3
      <4>2. CASE i = Len(net) + 1
        <5>1. Before(i)' = LastTold
          <6>1. CASE net = <<>>
            BY <1>4, <4>2, <6>1 DEF Before, LastTold
          <6>2. CASE net # <<>>
            <7>1. Len(net) \in 1..Len(net) /\ i # 1 /\ i - 1 = Len(net)
              BY <1>1, <4>2, <6>2
            <7> QED BY <3>1, <6>2, <7>1 DEF Before, LastTold
          <6> QED BY <6>1, <6>2
        <5>2. IsUpdate(msg, LastTold, sub.feed)
          BY <1>6, <2>3
        <5>3. net'[i] = msg
          BY <3>1, <4>2
        <5> QED BY <1>4, <5>1, <5>2, <5>3
      <4> QED BY <3>1, <4>1, <4>2
    <3>4. (link = "closed" => ~feeding /\ net = <<>>)'
      BY <1>1, <1>4, <2>3 DEF FeedInv
    <3> QED BY <3>2, <3>3, <3>4 DEF FeedInv
  <2> QED BY <1>4, <2>1, <2>2, <2>3
<1>9. BookInv'
  BY <1>1, <1>4 DEF BookInv, NearBook, Apart, Stored, ParsePriceLevels
<1> QED BY <1>7, <1>8, <1>9 DEF Inv
\* A subscription is answered by the exchange's book of now.
LEMMA AnswerInv ==
    ASSUME Inv, ExchangeAnswer
    PROVE  Inv'
<1> DEFINE msg == Snapshot(volumes, sub.feed)
<1>1. /\ TypeOK /\ FeedInv /\ BookInv
      /\ sub \in Subscriptions /\ volumes \in Vols /\ net \in Seq(BookMessage)
  BY DEF Inv, TypeOK, Vols
<1>2. /\ UNCHANGED <<sub, volumes, changes, losses, link, subscribed, ob, shown, current, intact,
                     age, connects>>
      /\ link = "open" /\ asked' = 0
      /\ \/ net' = Append(net, msg) /\ feeding' = TRUE /\ gap' = FALSE
         \/ UNCHANGED <<net, feeding, gap>>
  BY DEF ExchangeAnswer, clientVars
<1>3. msg \in BookMessage /\ msg.book = Top(volumes, sub.feed) /\ IsSnapshot(msg, sub.feed)
  BY <1>1, SnapshotIs DEF IsSnapshot
<1> HIDE DEF msg
<1>4. BookInv'
  BY <1>1, <1>2 DEF BookInv, NearBook, Apart, Stored, ParsePriceLevels
<1>5. CASE UNCHANGED <<net, feeding, gap>>
  <2>1. TypeOK'
    BY <1>1, <1>2, <1>5 DEF TypeOK
  <2>2. FeedInv'
    <3>1. (feeding /\ link = "open" /\ ~gap)' => LastTold' = Top(volumes', sub.feed')
      BY <1>1, <1>2, <1>5 DEF FeedInv, LastTold
    <3>2. \A i \in 1..Len(net') :
             (IsSnapshot(net[i], sub.feed) \/ IsUpdate(net[i], Before(i), sub.feed))'
      BY <1>1, <1>2, <1>5 DEF FeedInv, Before
    <3> QED BY <1>2, <3>1, <3>2 DEF FeedInv
  <2> QED BY <1>4, <2>1, <2>2 DEF Inv
<1>6. CASE net' = Append(net, msg) /\ feeding' = TRUE /\ gap' = FALSE
  <2>1. /\ Len(net') = Len(net) + 1 /\ Len(net) \in Nat /\ net'[Len(net) + 1] = msg
        /\ \A i \in 1..Len(net) : net'[i] = net[i]
    BY <1>1, <1>3, <1>6
  <2>2. TypeOK'
    <3>1. net' \in Seq(BookMessage)
      BY <1>1, <1>3, <1>6
    <3>2. {feeding, gap, subscribed, intact}' \subseteq BOOLEAN
      BY <1>1, <1>2, <1>6 DEF TypeOK
    <3>3. {changes, losses, connects}' \subseteq Nat
      BY <1>1, <1>2 DEF TypeOK
    <3>4. /\ (sub \in Subscriptions)' /\ (asked \in Nat)'
          /\ (link \in {"closed", "open", "silent"})'
          /\ (ob \in Book)' /\ (current \in ExchangeBook)'
          /\ (shown \in [kind : {"snapshot", "update"}, book : Book, exchange : ExchangeBook])'
          /\ (age \in {"none", "fresh", "old"})'
          /\ (volumes \in [Sides -> [Prices -> Volumes \cup {0}]])'
      BY <1>1, <1>2 DEF TypeOK
    <3> QED BY <3>1, <3>2, <3>3, <3>4 DEF TypeOK
  <2>3. LastTold' = Top(volumes', sub.feed')
    <3>1. net' # <<>> /\ net'[Len(net')] = msg
      BY <1>6, <2>1
    <3> QED BY <1>2, <1>3, <3>1 DEF LastTold
  <2>4. ASSUME NEW i \in 1..Len(net')
        PROVE  (IsSnapshot(net[i], sub.feed) \/ IsUpdate(net[i], Before(i), sub.feed))'
    <3>1. CASE i \in 1..Len(net)
      <4>1. net'[i] = net[i] /\ (i # 1 => net'[i - 1] = net[i - 1])
        BY <2>1, <3>1
      <4>2. Before(i)' = Before(i)
        BY <1>2, <4>1 DEF Before
      <4>3. IsSnapshot(net[i], sub.feed) \/ IsUpdate(net[i], Before(i), sub.feed)
        BY <1>1, <3>1 DEF FeedInv
      <4> QED BY <1>2, <4>1, <4>2, <4>3
    <3>2. CASE i = Len(net) + 1
      <4>1. net'[i] = msg
        BY <2>1, <3>2
      <4> QED BY <1>2, <1>3, <4>1
    <3> QED BY <2>1, <3>1, <3>2
  <2>5. FeedInv'
    BY <1>2, <2>3, <2>4 DEF FeedInv
  <2> QED BY <1>4, <2>2, <2>5 DEF Inv
<1> QED BY <1>2, <1>5, <1>6

\* The first message on its way is the exchange's next word on the book.
LEMMA HeadIs ==
    ASSUME Inv, net # <<>>
    PROVE  LET m == Head(net)
           IN  /\ m = net[1] /\ m \in BookMessage /\ 1 \in 1..Len(net)
               /\ IsSnapshot(m, sub.feed) \/ IsUpdate(m, current, sub.feed)
               /\ \A side \in Sides : /\ IsSide(Handled(m)[side], Dir(side), sub.kept)
                                      /\ m.book[side] \in Seq(Offer)
                                      /\ IsSide(m.book[side], Dir(side), sub.feed)
               /\ Handled(m) \in Book
               /\ Apart /\ (m.kind = "snapshot" \/ (intact /\ ~m.gap)) =>
                    NearBook(Handled(m), Stored(m.book), sub.kept, sub.feed)
<1> DEFINE m == Head(net)
<1>1. FeedInv /\ BookInv /\ sub \in Subscriptions /\ net \in Seq(BookMessage)
  BY DEF Inv, TypeOK
<1>2. m = net[1] /\ m \in BookMessage /\ 1 \in 1..Len(net)
  BY <1>1
<1>3. IsSnapshot(m, sub.feed) \/ IsUpdate(m, current, sub.feed)
  <2>1. IsSnapshot(net[1], sub.feed) \/ IsUpdate(net[1], Before(1), sub.feed)
    BY <1>1, <1>2 DEF FeedInv
  <2> QED BY <1>2, <2>1 DEF Before
<1> HIDE DEF m
<1>4. m.gap \in BOOLEAN
  BY <1>2 DEF BookMessage
<1>5. /\ \E vol \in Vols : m.book = Top(vol, sub.feed)
      /\ \A side \in Sides : IsSide(Handled(m)[side], Dir(side), sub.kept)
      /\ Apart /\ (m.kind = "snapshot" \/ (intact /\ ~m.gap)) =>
           NearBook(Handled(m), Stored(m.book), sub.kept, sub.feed)
  <2>1. CASE IsSnapshot(m, sub.feed)
    <3>1. PICK vol \in Vols : m = Snapshot(vol, sub.feed)
      BY <2>1 DEF IsSnapshot
    <3> QED BY <1>1, <3>1, SnapshotIs
  <2>2. CASE IsUpdate(m, current, sub.feed)
    <3>1. /\ m.kind = "update"
          /\ \E vol \in Vols : m.book = Top(vol, sub.feed)
          /\ \A side \in Sides : IsSide(Handled(m)[side], Dir(side), sub.kept)
          /\ ~m.gap /\ Apart /\ NearBook(ob, Stored(current), sub.kept, sub.feed) =>
               NearBook(Handled(m), Stored(m.book), sub.kept, sub.feed)
      BY <1>1, <1>4, <2>2, UpdateIs DEF BookInv
    <3> QED BY <1>1, <3>1 DEF BookInv
  <2> QED BY <1>3, <2>1, <2>2
<1>6. \A side \in Sides : m.book[side] \in Seq(Offer) /\ IsSide(m.book[side], Dir(side), sub.feed)
  <2>1. PICK vol \in Vols : m.book = Top(vol, sub.feed)
    BY <1>5
  <2>2. sub.feed \in Nat
    BY <1>1, SubscriptionIs
  <2> QED BY <2>1, <2>2, TopIsBook
<1>7. Handled(m) \in Book
  <2>1. \A side \in Sides : Handled(m)[side] \in Seq(Level)
    BY <1>5 DEF IsSide
  <2>2. Handled(m) = [side \in Sides |-> Handled(m)[side]]
    <3>1. \A x, y, book : book = [asks |-> x, bids |-> y] =>
              book = [side \in Sides |-> book[side]]
      BY DEF Sides
    <3>2. \A old, a, b, d : \E x, y : ChangeBook(old, a, b, d) = [asks |-> x, bids |-> y]
      BY Zenon DEF ChangeBook
    <3>3. \E old, a, b, d : Handled(m) = ChangeBook(old, a, b, d)
      BY Zenon DEF Handled
    <3> QED BY <3>1, <3>2, <3>3
  <2> QED BY <2>1, <2>2 DEF Book
<1> QED BY <1>2, <1>3, <1>5, <1>6, <1>7 DEF m

LEMMA MessageInv ==
    ASSUME Inv, OnMessage
    PROVE  Inv'
<1> DEFINE m == Head(net)
<1>1. /\ TypeOK /\ FeedInv /\ BookInv
      /\ sub \in Subscriptions /\ net \in Seq(BookMessage) /\ net # <<>>
  BY DEF Inv, TypeOK, OnMessage
<1>2. /\ m = net[1] /\ m \in BookMessage /\ 1 \in 1..Len(net)
      /\ \A side \in Sides : /\ IsSide(Handled(m)[side], Dir(side), sub.kept)
                             /\ IsSide(m.book[side], Dir(side), sub.feed)
      /\ Handled(m) \in Book
      /\ Apart /\ (m.kind = "snapshot" \/ (intact /\ ~m.gap)) =>
           NearBook(Handled(m), Stored(m.book), sub.kept, sub.feed)
  BY <1>1, HeadIs
<1>3. /\ ob' = Handled(m) /\ current' = m.book
      /\ intact' = (m.kind = "snapshot" \/ (intact /\ ~m.gap))
      /\ \/ /\ age' = "fresh" /\ UNCHANGED asked
            /\ shown' = [kind |-> m.kind, book |-> ob', exchange |-> m.book]
         \/ asked' = sub.kept /\ UNCHANGED <<age, shown>>
      /\ net' = Tail(net)
      /\ UNCHANGED <<sub, volumes, feeding, gap, changes, losses, link, subscribed, connects>>
  BY DEF OnMessage, exchangeVars
<1> HIDE DEF m
<1>4. m.book \in ExchangeBook /\ m.gap \in BOOLEAN /\ m.kind \in {"snapshot", "update"}
  BY <1>2 DEF BookMessage
<1>5. TypeOK'
  <2>1. net' \in Seq(BookMessage)
    BY <1>1, <1>3
  <2>2. {feeding, gap, subscribed, intact}' \subseteq BOOLEAN
    BY <1>1, <1>3, <1>4 DEF TypeOK
  <2>3. asked' \in Nat
    BY <1>1, <1>3, SubscriptionIs DEF TypeOK
  <2>4. /\ (shown \in [kind : {"snapshot", "update"}, book : Book, exchange : ExchangeBook])'
        /\ (age \in {"none", "fresh", "old"})'
    BY <1>1, <1>2, <1>3, <1>4 DEF TypeOK
  <2>5. (ob \in Book)' /\ (current \in ExchangeBook)'
    BY <1>2, <1>3, <1>4
  <2>6. /\ (sub \in Subscriptions)' /\ (link \in {"closed", "open", "silent"})'
        /\ (volumes \in [Sides -> [Prices -> Volumes \cup {0}]])'
        /\ {changes, losses, connects}' \subseteq Nat
    BY <1>1, <1>3 DEF TypeOK
  <2> QED BY <2>1, <2>2, <2>3, <2>4, <2>5, <2>6 DEF TypeOK
<1>6. /\ Len(net') = Len(net) - 1 /\ Len(net) \in Nat \ {0}
      /\ \A i \in 1..Len(net') : net'[i] = net[i + 1] /\ i + 1 \in 1..Len(net)
  BY <1>1, <1>3
<1>7. FeedInv'
  <2>1. (link = "closed" => ~feeding /\ net = <<>>)'
    BY <1>1, <1>3 DEF FeedInv
  <2>2. ASSUME NEW i \in 1..Len(net')
        PROVE  (IsSnapshot(net[i], sub.feed) \/ IsUpdate(net[i], Before(i), sub.feed))'
    <3>1. IsSnapshot(net[i + 1], sub.feed) \/ IsUpdate(net[i + 1], Before(i + 1), sub.feed)
      BY <1>1, <1>6 DEF FeedInv
    <3>2. Before(i)' = Before(i + 1)
      <4>1. CASE i = 1
        BY <1>2, <1>3, <4>1 DEF Before
      <4>2. CASE i # 1
        <5>1. i - 1 \in 1..Len(net') /\ i - 1 + 1 = i /\ i + 1 # 1 /\ i + 1 - 1 = i
          BY <1>6, <4>2
        <5>2. net'[i - 1] = net[i]
          BY <1>6, <5>1
        <5> QED BY <4>2, <5>1, <5>2 DEF Before
      <4> QED BY <4>1, <4>2
    <3> QED BY <1>3, <1>6, <3>1, <3>2
  <2>3. LastTold' = LastTold
    <3>1. CASE net' = <<>>
      <4>1. Len(net) = 1
        BY <1>6, <3>1
      <4> QED BY <1>1, <1>2, <1>3, <3>1, <4>1 DEF LastTold
    <3>2. CASE net' # <<>>
      <4>1. Len(net') \in 1..Len(net') /\ Len(net') + 1 = Len(net)
        <5>1. net' \in Seq(BookMessage)
          BY <1>1, <1>3
        <5>2. Len(net') # 0
          BY <3>2, <5>1
        <5> QED BY <1>6, <5>2
      <4> QED BY <1>1, <1>6, <3>2, <4>1 DEF LastTold
    <3> QED BY <3>1, <3>2
  <2> QED BY <1>1, <1>3, <2>1, <2>2, <2>3 DEF FeedInv
<1>8. BookInv'
  <2>1. \A side \in Sides : /\ IsSide(ob'[side], Dir(side), sub'.kept)
                            /\ IsSide(current'[side], Dir(side), sub'.feed)
    BY <1>2, <1>3
  <2>2. (Apart' <=> Apart) /\ Stored(current)' = Stored(m.book)
    BY <1>3 DEF Apart, Stored, ParsePriceLevels
  <2>3. (intact /\ Apart)' => NearBook(ob', Stored(m.book), sub'.kept, sub'.feed)
    BY <1>2, <1>3, <2>2
  <2>4. (intact /\ Apart)' => NearBook(ob', Stored(current)', sub'.kept, sub'.feed)
    BY <2>2, <2>3
  <2> QED BY <2>1, <2>4 DEF BookInv, NearBook
<1> QED BY <1>5, <1>7, <1>8 DEF Inv

\* A connection that goes silent or is closed takes its messages with it.
LEMMA LinkInv ==
    ASSUME Inv, ExchangeSilent \/ OnClose
    PROVE  Inv'
<1>1. TypeOK /\ FeedInv /\ BookInv
  BY DEF Inv
<1>2. /\ net' = <<>> /\ link' \in {"silent", "closed"}
      /\ asked' = asked \/ asked' = 0
      /\ \/ link' = "silent" /\ feeding' = feeding
         \/ link' = "closed" /\ feeding' = FALSE
      /\ UNCHANGED <<sub, volumes, gap, changes, losses, subscribed, ob, shown, current, intact,
                     age, connects>>
  BY DEF ExchangeSilent, OnClose, exchangeVars, clientVars
<1>3. TypeOK'
  <2>1. net' \in Seq(BookMessage)
    BY <1>2
  <2>2. {feeding, gap, subscribed, intact}' \subseteq BOOLEAN
    BY <1>1, <1>2 DEF TypeOK
  <2>3. asked' \in Nat /\ link' \in {"closed", "open", "silent"}
    BY <1>1, <1>2 DEF TypeOK
  <2>4. /\ (sub \in Subscriptions)' /\ (volumes \in [Sides -> [Prices -> Volumes \cup {0}]])'
        /\ (ob \in Book)' /\ (current \in ExchangeBook)'
        /\ (shown \in [kind : {"snapshot", "update"}, book : Book, exchange : ExchangeBook])'
        /\ (age \in {"none", "fresh", "old"})' /\ {changes, losses, connects}' \subseteq Nat
    BY <1>1, <1>2 DEF TypeOK
  <2> QED BY <2>1, <2>2, <2>3, <2>4 DEF TypeOK
<1>4. FeedInv'
  BY <1>1, <1>2 DEF FeedInv
<1>5. BookInv'
  BY <1>1, <1>2 DEF BookInv, NearBook, Apart, Stored, ParsePriceLevels
<1> QED BY <1>3, <1>4, <1>5 DEF Inv

\* What touches neither the book nor the messages.
LEMMA OtherInv ==
    ASSUME Inv, Subscribe \/ OnOpen \/ Elapse \/ UNCHANGED vars
    PROVE  Inv'
<1>1. TypeOK /\ FeedInv /\ BookInv
  BY DEF Inv
<1>2. /\ UNCHANGED <<sub, volumes, feeding, gap, changes, losses, net, ob, shown, current, intact>>
      /\ link' = link \/ (link = "closed" /\ link' = "open")
      /\ asked' \in {asked, sub.feed, 0}
      /\ age' \in {age, "old"} /\ connects' \in {connects, connects + 1}
      /\ subscribed' \in {subscribed, TRUE}
  <2>1. CASE Subscribe
    BY <2>1 DEF Subscribe, exchangeVars
  <2>2. CASE OnOpen
    BY <2>2 DEF OnOpen, exchangeVars, clientVars
  <2>3. CASE Elapse
    BY <2>3 DEF Elapse, exchangeVars, clientVars
  <2>4. CASE UNCHANGED vars
    BY <2>4 DEF vars, exchangeVars, clientVars
  <2> QED BY <2>1, <2>2, <2>3, <2>4
<1>3. TypeOK'
  <2>1. asked' \in Nat
    BY <1>1, <1>2, SubscriptionIs DEF TypeOK
  <2>2. {feeding, gap, subscribed, intact}' \subseteq BOOLEAN
    BY <1>1, <1>2 DEF TypeOK
  <2>3. link' \in {"closed", "open", "silent"} /\ age' \in {"none", "fresh", "old"}
    BY <1>1, <1>2 DEF TypeOK
  <2>4. {changes, losses, connects}' \subseteq Nat
    BY <1>1, <1>2 DEF TypeOK
  <2>5. /\ (sub \in Subscriptions)' /\ (volumes \in [Sides -> [Prices -> Volumes \cup {0}]])'
        /\ (ob \in Book)' /\ (current \in ExchangeBook)'
        /\ (shown \in [kind : {"snapshot", "update"}, book : Book, exchange : ExchangeBook])'
        /\ (net \in Seq(BookMessage))'
    BY <1>1, <1>2 DEF TypeOK
  <2> QED BY <2>1, <2>2, <2>3, <2>4, <2>5 DEF TypeOK
<1>4. FeedInv'
  <2>1. \A i \in 1..Len(net') :
           (IsSnapshot(net[i], sub.feed) \/ IsUpdate(net[i], Before(i), sub.feed))'
    BY <1>1, <1>2 DEF FeedInv, Before
  <2>2. (feeding /\ link = "open" /\ ~gap)' => LastTold' = Top(volumes', sub.feed')
    BY <1>1, <1>2 DEF FeedInv, LastTold
  <2>3. (link = "closed" => ~feeding /\ net = <<>>)'
    BY <1>1, <1>2 DEF FeedInv
  <2> QED BY <2>1, <2>2, <2>3 DEF FeedInv
<1>5. BookInv'
  BY <1>1, <1>2 DEF BookInv, NearBook, Apart, Stored, ParsePriceLevels
<1> QED BY <1>3, <1>4, <1>5 DEF Inv

LEMMA NextInv == Inv /\ [Next]_vars => Inv'
<1> SUFFICES ASSUME Inv, [Next]_vars PROVE Inv'
  OBVIOUS
<1>1. CASE \E side \in Sides, p \in Prices, v \in Volumes \cup {0} : ExchangeChange(side, p, v)
  BY <1>1, ChangeInv
<1>2. CASE ExchangeAnswer
  BY <1>2, AnswerInv
<1>3. CASE ExchangeSilent \/ ExchangeCloses \/ WatchImpl
  BY <1>3, LinkInv DEF ExchangeCloses, WatchImpl
<1>4. CASE Subscribe \/ OnOpen \/ Elapse \/ UNCHANGED vars
  BY <1>4, OtherInv
<1>5. CASE OnMessage
  BY <1>5, MessageInv
<1> QED BY <1>1, <1>2, <1>3, <1>4, <1>5 DEF Next

LEMMA SpecInv == Spec => []Inv
BY InitInv, NextInv, PTL DEF Spec
\* The book and the exchange's, the exchange's volumes and the bounds are of their
\* types, whatever is lost and however often the connection ends.
THEOREM TypeCorrect == Spec => []TypeOK
<1>1. Inv => TypeOK
  BY DEF Inv
<1> QED BY <1>1, SpecInv, PTL

-----------------------------------------------------------------------------
(***************************************************************************)
(* What the listener is shown                                              *)
(***************************************************************************)

\* A side that passes the check has the exchange's prices, and its volumes but for
\* the unit that a cut takes from them.
LEMMA ChecksumDecides ==
    ASSUME NEW book \in Book, NEW top, ChecksumInput(book) = ExchangeChecksum(top),
           NEW side \in Sides
    PROVE  PassesFor(book[side], Tip(top[side], ChecksumDepth))
<1> DEFINE mine == book[side]
           theirs == Tip(top[side], ChecksumDepth)
<1>1. theirs = [i \in 1..Len(mine) |->
                   LET l == mine[i]
                   IN  [l EXCEPT !.volume = IF @ \in Truncated THEN @ - 1 ELSE @]]
  BY DEF ChecksumInput, ExchangeChecksum, TipOf
<1>2. mine \in Seq(Level) /\ Len(mine) \in Nat
  BY DEF Book
<1> HIDE DEF mine, theirs
<1>3. Len(theirs) = Len(mine)
  BY <1>1, <1>2
<1>4. ASSUME NEW i \in 1..Len(mine)
      PROVE  /\ mine[i].price = theirs[i].price
             /\ mine[i].volume \in {theirs[i].volume, theirs[i].volume + 1}
  <2> DEFINE l == mine[i]
  <2>1. l \in Level
    BY <1>2
  <2>2. theirs[i] = [l EXCEPT !.volume = IF l.volume \in Truncated THEN l.volume - 1 ELSE l.volume]
    BY <1>1
  <2> HIDE DEF l
  <2> QED BY <2>1, <2>2 DEF Level, l
<1>5. PassesFor(mine, theirs)
  BY <1>3, <1>4 DEF PassesFor
<1> QED BY <1>5 DEF mine, theirs

\* The best levels of a side that passes pass.
LEMMA PassesTip ==
    ASSUME NEW R, NEW mine \in Seq(Level), Ordered(mine, R),
           NEW theirs \in Seq(Level), Ordered(theirs, R),
           PassesFor(mine, theirs), NEW depth \in Nat
    PROVE  PassesFor(Tip(mine, depth), Tip(theirs, depth))
<1> DEFINE len == Len(mine)
           n == IF len > depth THEN depth ELSE len
<1>1. /\ len \in Nat /\ Len(theirs) = len
      /\ \A i \in 1..len : /\ mine[i].price = theirs[i].price
                           /\ mine[i].volume \in {theirs[i].volume, theirs[i].volume + 1}
  BY DEF PassesFor
<1>2. /\ n \in 0..len /\ Len(Tip(mine, depth)) = n
      /\ \A i \in 1..n : Tip(mine, depth)[i] = mine[len - n + i]
  BY TipIs
<1> HIDE DEF len
<1>3. /\ Len(Tip(theirs, depth)) = n
      /\ \A i \in 1..n : Tip(theirs, depth)[i] = theirs[len - n + i]
  <2>1. LET k == IF Len(theirs) > depth THEN depth ELSE Len(theirs)
        IN  /\ Len(Tip(theirs, depth)) = k
            /\ \A i \in 1..k : Tip(theirs, depth)[i] = theirs[Len(theirs) - k + i]
    BY TipIs
  <2> QED BY <1>1, <2>1
<1> HIDE DEF n
<1>4. \A i \in 1..n : len - n + i \in 1..len
  BY <1>1, <1>2
<1> QED BY <1>1, <1>2, <1>3, <1>4 DEF PassesFor

\* Every updated book that is shown with the checksum on has passed, and every
\* snapshot has the exchange's best levels, as deep as both book and checksum go.
LEMMA ShownStep ==
    ASSUME Inv, ShownBookIsExchanges, [Next]_vars
    PROVE  ShownBookIsExchanges'
<1>1. sub \in Subscriptions /\ FeedInv
  BY DEF Inv, TypeOK
<1>2. sub' = sub
  BY DEF Next, ExchangeChange, ExchangeAnswer, ExchangeSilent, ExchangeCloses, OnClose, Subscribe,
         OnOpen, Elapse, WatchImpl, OnMessage, vars
<1>3. CASE UNCHANGED shown
  BY <1>2, <1>3 DEF ShownBookIsExchanges, TipOf, Apart, ParsePriceLevels
<1>4. CASE OnMessage /\ shown' # shown
  <2> DEFINE m == Head(net)
             checked == IF sub.kept < ChecksumDepth THEN sub.kept ELSE ChecksumDepth
  <2>1. /\ net # <<>> /\ ob' = Handled(m)
        /\ shown' = [kind |-> m.kind, book |-> ob', exchange |-> m.book]
        /\ IsValid(m, ob')
    BY <1>4 DEF OnMessage
  <2>2. /\ m \in BookMessage /\ Handled(m) \in Book
        /\ IsSnapshot(m, sub.feed) \/ IsUpdate(m, current, sub.feed)
        /\ \A side \in Sides : /\ IsSide(Handled(m)[side], Dir(side), sub.kept)
                               /\ m.book[side] \in Seq(Offer)
                               /\ IsSide(m.book[side], Dir(side), sub.feed)
    BY <2>1, HeadIs
  <2>3. /\ sub.feed \in Nat /\ sub.kept \in Nat /\ ChecksumDepth \in Nat /\ checked \in Nat
        /\ checked <= sub.kept /\ checked <= ChecksumDepth
    BY <1>1, SubscriptionIs, KrakenAssumption
  <2> HIDE DEF m, checked
  <2>4. ASSUME sub.validate, m.kind = "update", NEW side \in Sides
        PROVE  PassesFor(Tip(Handled(m)[side], checked), Tip(m.book[side], checked))
    <3> DEFINE mine == Handled(m)[side]
               theirs == m.book[side]
               under == Tip(theirs, ChecksumDepth)
    <3>1. ChecksumInput(Handled(m)) = ExchangeChecksum(m.book)
      BY <2>1, <2>4 DEF IsValid
    <3>2. PassesFor(mine, under)
      BY <2>2, <3>1, ChecksumDecides
    <3> HIDE DEF mine, theirs
    <3>3. /\ mine \in Seq(Level) /\ Ordered(mine, Dir(side))
          /\ theirs \in Seq(Level) /\ Ordered(theirs, Dir(side))
      BY <2>2 DEF IsSide, mine, theirs
    <3>4. under \in Seq(Level) /\ Ordered(under, Dir(side))
      BY <2>3, <3>3, TipIs DEF IsSide
    <3>5. Tip(under, checked) = Tip(theirs, checked)
      BY <2>3, <3>3, TipTip
    <3> HIDE DEF under
    <3>6. PassesFor(Tip(mine, checked), Tip(under, checked))
      BY <2>3, <3>2, <3>3, <3>4, PassesTip
    <3> QED BY <3>5, <3>6 DEF mine, theirs
  <2>5. ASSUME m.kind = "snapshot", Apart, NEW side \in Sides
        PROVE  Tip(Handled(m)[side], checked) = ParsePriceLevels(Tip(m.book[side], checked))
    <3> DEFINE list == ParsePriceLevels(m.book[side])
    <3>1. PICK vol \in Vols : m = Snapshot(vol, sub.feed)
      BY <2>2, <2>5 DEF IsSnapshot, IsUpdate
    <3>2. Handled(m)[side] = Tip(list, sub.kept)
      BY <1>1, <2>5, <3>1, SnapshotIs
    <3>3. Dir(side) \in {Rising, Falling}
      BY DEF Dir
    <3>4. list \in Seq(Level) /\ Ordered(list, Dir(side))
      BY <1>1, <2>2, <2>3, <2>5, <3>3, ParseSide DEF IsSide
    <3>5. ParsePriceLevels(Tip(m.book[side], checked)) = Tip(list, checked)
      BY <1>1, <2>2, <2>3, <2>5, <3>3, ParseTip
    <3> HIDE DEF list
    <3> QED BY <2>3, <3>2, <3>4, <3>5, TipTip
  <2>6. shown'.kind = m.kind /\ shown'.book = Handled(m) /\ shown'.exchange = m.book
    BY <2>1
  <2>7. (Apart' <=> Apart) /\ sub'.validate = sub.validate /\ sub'.stored = sub.stored
        /\ checked' = checked
    BY <1>2 DEF Apart, checked
  <2>8. \A side \in Sides : /\ TipOf(shown'.book, checked)[side] = Tip(Handled(m)[side], checked)
                            /\ TipOf(shown'.exchange, checked)[side] = Tip(m.book[side], checked)
    BY <2>6 DEF TipOf
  <2>9. ASSUME sub.validate, NEW side \in Sides
        PROVE  /\ shown'.kind = "update" =>
                     PassesFor(TipOf(shown'.book, checked)[side], TipOf(shown'.exchange, checked)[side])
               /\ shown'.kind = "snapshot" /\ Apart =>
                     TipOf(shown'.book, checked)[side] =
                        ParsePriceLevels(TipOf(shown'.exchange, checked)[side])
    BY <2>4, <2>5, <2>6, <2>8, <2>9
  <2>10. ASSUME NEW list
         PROVE  ParsePriceLevels(list) =
                   [i \in 1..Len(list) |-> [list[i] EXCEPT !.price = sub'.stored[@]]]
    BY <2>7 DEF ParsePriceLevels
  <2>11. ASSUME sub'.validate, NEW side \in Sides
         PROVE  LET mine == TipOf(shown'.book, checked')[side]
                    theirs == TipOf(shown'.exchange, checked')[side]
                IN  /\ shown'.kind = "update" => PassesFor(mine, theirs)
                    /\ shown'.kind = "snapshot" /\ Apart' =>
                          mine = [i \in 1..Len(theirs) |->
                                     [theirs[i] EXCEPT !.price = sub'.stored[@]]]
    BY <2>7, <2>9, <2>10, <2>11
  <2> QED BY <2>11 DEF ShownBookIsExchanges, ParsePriceLevels, checked
<1>5. UNCHANGED shown \/ (OnMessage /\ shown' # shown)
  BY DEF Next, ExchangeChange, ExchangeAnswer, ExchangeSilent, ExchangeCloses, OnClose, Subscribe,
         OnOpen, Elapse, WatchImpl, vars, clientVars
<1> QED BY <1>3, <1>4, <1>5

\* With the checksum on, whatever was lost before and whatever the conversion does to
\* prices, an updated book that the listener is shown has the exchange's prices, and
\* volumes that are off by one unit at most: for every book, every number of losses,
\* every conversion and every depth.
THEOREM ShownIsExchanges == Spec => []ShownBookIsExchanges
<1>1. ASSUME Init PROVE ShownBookIsExchanges
  <2> DEFINE checked == IF sub.kept < ChecksumDepth THEN sub.kept ELSE ChecksumDepth
  <2>1. /\ shown.kind = "snapshot" /\ shown.book = EmptyBook /\ shown.exchange = EmptyBook
        /\ checked \in Nat
    BY <1>1, SubscriptionIs, KrakenAssumption DEF Init
  <2> HIDE DEF checked
  <2>2. \A side \in Sides : EmptyBook[side] = <<>>
    BY DEF EmptyBook, Sides
  <2>3. Tip(<<>>, checked) = <<>> /\ ParsePriceLevels(<<>>) = <<>>
    BY <2>1 DEF Tip, ParsePriceLevels
  <2>4. \A side \in Sides :
          /\ TipOf(shown.book, checked)[side] = <<>>
          /\ ParsePriceLevels(TipOf(shown.exchange, checked)[side]) = <<>>
    BY <2>1, <2>2, <2>3 DEF TipOf
  <2> QED BY <2>1, <2>4 DEF ShownBookIsExchanges, checked
<1>2. Inv /\ ShownBookIsExchanges /\ [Next]_vars => ShownBookIsExchanges'
  BY ShownStep
<1> QED BY <1>1, <1>2, SpecInv, PTL DEF Spec

-----------------------------------------------------------------------------
(***************************************************************************)
(* The book without losses                                                 *)
(***************************************************************************)

\* A book that keeps all it is sent misses nothing.
LEMMA NearIsSame ==
    ASSUME NEW R, Strict(R), NEW depth \in Nat,
           NEW mine, NEW theirs, Near(mine, theirs, R, depth, depth)
    PROVE  mine = theirs
<1>1. /\ mine \in Seq(Level) /\ Ordered(mine, R) /\ Len(mine) \in Nat
      /\ theirs \in Seq(Level) /\ Ordered(theirs, R) /\ Len(theirs) \in Nat
      /\ ToSet(mine) \subseteq ToSet(theirs) /\ Len(theirs) - Len(mine) <= 0
  BY DEF Near, IsSide
<1>2. /\ Cardinality(ToSet(mine)) = Len(mine)
      /\ IsFiniteSet(ToSet(theirs)) /\ Cardinality(ToSet(theirs)) = Len(theirs)
  BY <1>1, SideSize
<1>3. ToSet(mine) \in SUBSET ToSet(theirs)
  BY <1>1
<1>4. ToSet(mine) = ToSet(theirs)
  BY <1>1, <1>2, <1>3, FS_Subset
<1> QED BY <1>1, <1>4, SameSide

\* As long as no update is lost, a book as deep as its subscription has the exchange's
\* levels under the prices they are stored as, levels that come and go at its end
\* included: for every conversion that keeps prices apart.
THEOREM FollowsFeed == Spec => []BookFollowsFeed
<1>1. ASSUME Inv PROVE BookFollowsFeed
  <2> SUFFICES ASSUME intact, sub.kept = sub.feed, Apart, NEW side \in Sides
               PROVE  ob[side] = ParsePriceLevels(current[side])
    BY DEF BookFollowsFeed
  <2>1. sub.feed \in Nat
    BY <1>1, SubscriptionIs DEF Inv, TypeOK
  <2>2. NearBook(ob, Stored(current), sub.feed, sub.feed)
    BY <1>1 DEF Inv, BookInv
  <2>3. Near(ob[side], ParsePriceLevels(current[side]), Dir(side), sub.feed, sub.feed)
    BY <2>2 DEF NearBook, Stored
  <2> QED BY <2>1, <2>3, NearIsSame, PricesIs
<1> QED BY <1>1, SpecInv, PTL

\* As long as no update is lost, the best prices of a book that keeps fewer levels
\* than it is sent are never better than the exchange's, but for the unit that a cut
\* takes from an ask.
THEOREM NeverBetter == Spec => []NeverBetterThanExchange
<1>1. ASSUME Inv PROVE NeverBetterThanExchange
  <2> SUFFICES ASSUME intact, Apart, CutToUnit
               PROVE  LET mine == TickerFromOrderBook(ob)
                          theirs == TickerFromOrderBook(current)
                      IN  /\ mine.ask_vol # 0 => mine.ask >= theirs.ask - 1 /\ theirs.ask_vol # 0
                          /\ mine.bid <= theirs.bid
    BY DEF NeverBetterThanExchange
  <2> DEFINE mine == TickerFromOrderBook(ob)
             theirs == TickerFromOrderBook(current)
  <2>1. /\ sub \in Subscriptions /\ sub.feed \in Nat /\ sub.kept \in Nat
        /\ current \in ExchangeBook
    BY <1>1, SubscriptionIs DEF Inv, TypeOK
  <2>2. /\ Near(ob.asks, ParsePriceLevels(current.asks), Falling, sub.kept, sub.feed)
        /\ Near(ob.bids, ParsePriceLevels(current.bids), Rising, sub.kept, sub.feed)
    <3>1. NearBook(ob, Stored(current), sub.kept, sub.feed)
      BY <1>1 DEF Inv, BookInv
    <3>2. /\ Near(ob["asks"], Stored(current)["asks"], Dir("asks"), sub.kept, sub.feed)
          /\ Near(ob["bids"], Stored(current)["bids"], Dir("bids"), sub.kept, sub.feed)
      BY <3>1 DEF NearBook, Sides
    <3>3. /\ Stored(current)["asks"] = ParsePriceLevels(current["asks"])
          /\ Stored(current)["bids"] = ParsePriceLevels(current["bids"])
      BY DEF Stored, Sides
    <3> QED BY <3>2, <3>3 DEF Dir
  <2>3. /\ IsSide(ob.asks, Falling, sub.kept) /\ IsSide(ob.bids, Rising, sub.kept)
        /\ ToSet(ob.asks) \subseteq ToSet(ParsePriceLevels(current.asks))
        /\ ToSet(ob.bids) \subseteq ToSet(ParsePriceLevels(current.bids))
    BY <2>2 DEF Near
  <2>4. IsSide(current.asks, Falling, sub.feed) /\ IsSide(current.bids, Rising, sub.feed)
    BY <1>1 DEF Inv, BookInv, Sides, Dir
  <2>5. current.asks \in Seq(LevelChange) /\ current.bids \in Seq(LevelChange)
    <3>1. current.asks \in Seq(Offer) /\ current.bids \in Seq(Offer)
      BY <2>1 DEF ExchangeBook, Sides
    <3> QED BY <3>1, OffersAreLevels
  \* A stored level is a level of the exchange, one unit lower at most.
  <2>6. ASSUME NEW list \in Seq(LevelChange), NEW k \in ToSet(ParsePriceLevels(list))
        PROVE  \E l \in ToSet(list) : /\ l.price \in Nat /\ k.price \in Nat
                                      /\ k.price >= l.price - 1 /\ k.price <= l.price
    <3>1. PICK l \in ToSet(list) : k = Kept(l)
      BY <2>1, <2>6, ParseIs
    <3>2. l \in LevelChange
      BY <3>1 DEF ToSet
    <3>3. l.price \in Prices /\ l.price \in Nat
      <4>1. l.price \in Prices
        BY <3>2 DEF LevelChange
      <4> QED BY <4>1, KrakenAssumption
    <3>4. k.price = sub.stored[l.price] /\ sub.stored[l.price] \in Nat
      <4>1. k.price = sub.stored[l.price]
        BY <2>1, <3>1, <3>2, KeptIs
      <4>2. sub.stored \in [Prices -> Nat]
        BY <2>1, SubscriptionIs
      <4> QED BY <3>3, <4>1, <4>2
    <3>5. sub.stored[l.price] \in {l.price - 1, l.price}
      BY <3>3 DEF CutToUnit
    <3> QED BY <3>3, <3>4, <3>5
  <2>7. /\ \A l \in ToSet(current.asks) : theirs.ask <= l.price
        /\ \A l \in ToSet(current.bids) : theirs.bid >= l.price
        /\ theirs.ask_vol = 0 <=> current.asks = <<>>
    BY <2>1, <2>4, TickerCorrect
  <2>8. mine.ask_vol = 0 <=> ob.asks = <<>>
    BY <2>1, <2>3, TickerCorrect
  <2>9. /\ mine.ask = BestOf(ob.asks).price /\ mine.bid = BestOf(ob.bids).price
        /\ theirs.ask = BestOf(current.asks).price /\ theirs.bid = BestOf(current.bids).price
    BY DEF TickerFromOrderBook
  <2> HIDE DEF mine, theirs
  <2>10. theirs.ask \in Nat /\ theirs.bid \in Nat
    <3>1. ASSUME NEW R, NEW list, IsSide(list, R, sub.feed) PROVE BestOf(list).price \in Nat
      <4>1. CASE list = <<>>
        BY <4>1 DEF BestOf, Null
      <4>2. CASE list # <<>>
        <5>1. list \in Seq(Level) /\ BestOf(list) \in ToSet(list)
          BY <3>1, <4>2, BestIs DEF IsSide
        <5> QED BY <5>1, Members DEF Price
      <4> QED BY <4>1, <4>2
    <3> QED BY <2>4, <2>9, <3>1
  <2>11. ASSUME mine.ask_vol # 0 PROVE mine.ask >= theirs.ask - 1 /\ theirs.ask_vol # 0
    <3>1. BestOf(ob.asks) \in ToSet(ob.asks)
      BY <2>3, <2>8, <2>11, BestIs DEF IsSide
    <3>2. BestOf(ob.asks) \in ToSet(ParsePriceLevels(current.asks))
      BY <2>3, <3>1
    <3>3. PICK l \in ToSet(current.asks) :
             /\ l.price \in Nat /\ mine.ask \in Nat /\ mine.ask >= l.price - 1
      BY <2>5, <2>6, <2>9, <3>2
    <3>4. current.asks # <<>>
      BY <3>3 DEF ToSet
    <3>5. theirs.ask <= l.price
      BY <2>7, <3>3
    <3>6. mine.ask >= theirs.ask - 1
      BY <2>10, <3>3, <3>5
    <3> QED BY <2>7, <3>4, <3>6
  <2>12. mine.bid <= theirs.bid
    <3>1. CASE ob.bids = <<>>
      <4>1. mine.bid = 0
        BY <2>9, <3>1 DEF BestOf, Null
      <4> QED BY <2>10, <4>1
    <3>2. CASE ob.bids # <<>>
      <4>1. BestOf(ob.bids) \in ToSet(ob.bids)
        BY <2>3, <3>2, BestIs DEF IsSide
      <4>2. BestOf(ob.bids) \in ToSet(ParsePriceLevels(current.bids))
        BY <2>3, <4>1
      <4>3. PICK l \in ToSet(current.bids) :
               /\ l.price \in Nat /\ mine.bid \in Nat /\ mine.bid <= l.price
        BY <2>5, <2>6, <2>9, <4>2
      <4>4. theirs.bid >= l.price
        BY <2>7, <4>3
      <4> QED BY <2>10, <4>3, <4>4
    <3> QED BY <3>1, <3>2
  <2> QED BY <2>11, <2>12 DEF mine, theirs
<1> QED BY <1>1, SpecInv, PTL

=============================================================================
