------------------------- MODULE PipelineBookProofs -------------------------
(***************************************************************************)
(* The book of Pipeline, for all orders and prices: whatever order the ring *)
(* hands over rests or trades, and nothing is lost between the two.         *)
(* Pipeline is the instance Pipe, since the names of the ring's module and  *)
(* of the book's are the same; its book, Pipe!Book, is this module's.       *)
(***************************************************************************)
EXTENDS OrderBookProofs

CONSTANTS Producers, Consumers, Capacity, NoOrder, StaleLoads, MaxClaims
VARIABLES sequence, data, enqueue_pos, dequeue_pos, pc, pos, item, holding, claimed, matched

Pipe == INSTANCE Pipeline
-----------------------------------------------------------------------------
(* The book of the pipeline *)

LEMMA SameCardinality == \A s : Pipe!Book!Cardinality(s) = Cardinality(s)
  BY DEF Pipe!Book!Cardinality, Cardinality

LEMMA SameQuantity == \A s : Pipe!Book!Quantity(s) = Quantity(s)
  BY DEF Pipe!Book!Quantity, Pipe!Book!FoldLeft, Pipe!Book!MapThenFoldSet, Pipe!Book!Max,
         Quantity, FoldLeft, MapThenFoldSet, Max

LEMMA SameSum == \A s : Pipe!Sum(s) = Quantity(s)
  BY DEF Pipe!Sum, Pipe!FoldLeft, Pipe!MapThenFoldSet, Pipe!Max,
         Quantity, FoldLeft, MapThenFoldSet, Max

LEMMA SamePrices ==
    /\ \A s : Pipe!Book!Opposite(s) = Opposite(s)
    /\ \A s, p, q : Pipe!Book!Better(s, p, q) = Better(s, p, q)
    /\ \A s : Pipe!Book!Levels(s) = Levels(s)
  BY DEF Pipe!Book!Opposite, Opposite, Pipe!Book!Better, Better, Pipe!Book!Levels, Levels

LEMMA SameMakers ==
    /\ \A t, m, l : Pipe!Book!MatchMakers(t, m, l) = MatchMakers(t, m, l)
    /\ \A b, s : Pipe!Book!Makers(b, s) = Makers(b, s)
<1>1. \A t, m, l : Pipe!Book!MatchMakers(t, m, l) = MatchMakers(t, m, l)
  BY DEF Pipe!Book!MatchMakers, Pipe!Book!MatchMaker, Pipe!Book!Trade, Pipe!Book!Pass,
         Pipe!Book!Min, Pipe!Book!FoldLeft, Pipe!Book!MapThenFoldSet, Pipe!Book!Max,
         MatchMakers, MatchMaker, Trade, Pass, Min, FoldLeft, MapThenFoldSet, Max
<1>2. \A b, s : Pipe!Book!Makers(b, s) = Makers(b, s)
  BY DEF Pipe!Book!Makers, Pipe!Book!FoldLeft, Pipe!Book!MapThenFoldSet, Pipe!Book!Max,
         Makers, FoldLeft, MapThenFoldSet, Max
<1> QED  BY <1>1, <1>2

LEMMA SameCleanUp ==
    \A m, l, d, s : Pipe!Book!CleanUp(m, l, d, s) = CleanUp(m, l, d, s)
<1>1. \A s : Pipe!Book!RetiredByCleanup(s) = RetiredByCleanup(s)
  BY SameMakers DEF Pipe!Book!RetiredByCleanup, RetiredByCleanup
<1> QED  BY <1>1 DEF Pipe!Book!CleanUp, CleanUp

LEMMA SameLevel == \A t, m, l : Pipe!Book!MatchLevel(t, m, l) = MatchLevel(t, m, l)
<1>1. \A t, m, l : Pipe!Book!Untouched(t, m, l) <=> Untouched(t, m, l)
  BY DEF Pipe!Book!Untouched, Pipe!Book!Better, Pipe!Book!Opposite, Untouched, Better, Opposite
<1> SUFFICES ASSUME NEW t, NEW m, NEW l PROVE Pipe!Book!MatchLevel(t, m, l) = MatchLevel(t, m, l)
  OBVIOUS
<1>2. CASE Untouched(t, m, l)  BY <1>1, <1>2 DEF Pipe!Book!MatchLevel, MatchLevel
<1>3. CASE ~ Untouched(t, m, l)
  <2> DEFINE done == MatchMakers(t, m, l)
             orders == IF done.overflow THEN done.orders ELSE Makers(FALSE, done.orders)
             cleaned == CleanUp(m, l, done, orders)
             there == IF done.overflow THEN done.orders ELSE Pipe!Book!Makers(FALSE, done.orders)
             level == IF orders = <<>> THEN [cleaned EXCEPT !.levels = m.levels] ELSE cleaned
  <2>1. there = orders  BY SameMakers
  <2>2. Pipe!Book!CleanUp(m, l, done, orders) = cleaned  BY SameCleanUp
  <2>3. Pipe!Book!MatchMakers(t, m, l) = done  BY SameMakers
  <2>4. MatchLevel(t, m, l) = level  BY <1>3 DEF MatchLevel
  <2> HIDE DEF done
  <2>5. Pipe!Book!MatchLevel(t, m, l) =
           LET other == Pipe!Book!CleanUp(m, l, done, there)
           IN  IF there = <<>> THEN [other EXCEPT !.levels = m.levels] ELSE other
    BY <1>1, <1>3, <2>3 DEF Pipe!Book!MatchLevel
  <2> HIDE DEF orders, there, cleaned
  <2> QED  BY <2>1, <2>2, <2>4, <2>5
<1> QED  BY <1>2, <1>3

LEMMA SameMatch == \A t, s : Pipe!Book!MatchOrder(t, s) = MatchOrder(t, s)
  BY SameLevel DEF Pipe!Book!MatchOrder, Pipe!Book!FoldLeft, Pipe!Book!MapThenFoldSet, Pipe!Book!Max,
         MatchOrder, FoldLeft, MapThenFoldSet, Max

LEMMA SameRest == \A s, o : Pipe!Book!Rest(s, o) = Rest(s, o)
<1>1. /\ \A d, s, p : Pipe!Book!LowerBound(d, s, p) = LowerBound(d, s, p)
      /\ \A d, s, p : Pipe!Book!Find(d, s, p) = Find(d, s, p)
  <2>1. \A d, s, p : Pipe!Book!LowerBound(d, s, p) = LowerBound(d, s, p)
    BY SameCardinality DEF Pipe!Book!LowerBound, Pipe!Book!Better, LowerBound, Better
  <2>2. \A d, s, p : Pipe!Book!Find(d, s, p) = Find(d, s, p)
    BY <2>1 DEF Pipe!Book!Find, Find
  <2> QED  BY <2>1, <2>2
<1>2. /\ \A l, o : Pipe!Book!With(l, o) = With(l, o)
      /\ \A s, i, e : Pipe!Book!InsertAt(s, i, e) = InsertAt(s, i, e)
      /\ \A s : Pipe!Book!Last(s) = Last(s) /\ Pipe!Book!Front(s) = Front(s)
  BY DEF Pipe!Book!With, With, Pipe!Book!InsertAt, InsertAt, Pipe!Book!Last, Last,
         Pipe!Book!Front, Front
<1>3. \A s, o : Pipe!Book!Join(s, o) = Join(s, o)
  BY <1>1, <1>2 DEF Pipe!Book!Join, Join
<1> QED  BY <1>2, <1>3 DEF Pipe!Book!Rest, Rest

LEMMA SameAdd == \A o : Pipe!Book!TryAddOrder(o) <=> TryAddOrder(o)
<1>1. /\ \A s : Pipe!Book!ToSet(s) = ToSet(s)
      /\ \A s : Pipe!Book!RetireAll(s) = RetireAll(s)
  <2>1. \A s : Pipe!Book!ToSet(s) = ToSet(s)  BY DEF Pipe!Book!ToSet, ToSet
  <2>2. \A s : Pipe!Book!RetireAll(s) = RetireAll(s)
    BY <2>1, SameCardinality DEF Pipe!Book!RetireAll, RetireAll
  <2> QED  BY <2>1, <2>2
<1>2. /\ \A e, o, t, r : Pipe!Book!Reply(e, o, t, r) <=> Reply(e, o, t, r)
      /\ \A d, s, t : Pipe!Book!SetSides(d, s, t) <=> SetSides(d, s, t)
      /\ \A o : Pipe!Book!Valid(o) <=> Valid(o)
  BY DEF Pipe!Book!Reply, Reply, Pipe!Book!SetSides, SetSides, Pipe!Book!Valid, Valid
<1>3. \A o : Pipe!Book!RejectOrder(o) <=> RejectOrder(o)
  BY <1>2 DEF Pipe!Book!RejectOrder, RejectOrder
<1>4. \A o : Pipe!Book!AddValidOrder(o) <=> AddValidOrder(o)
  BY <1>1, <1>2, SamePrices, SameMatch, SameRest DEF Pipe!Book!AddValidOrder, AddValidOrder
<1> QED  BY <1>3, <1>4 DEF Pipe!Book!TryAddOrder, TryAddOrder

LEMMA SameInit == Pipe!Book!Init <=> Init
  BY DEF Pipe!Book!Init, Init
-----------------------------------------------------------------------------
(* Sums over sequences: what stands in two parts, and price by price *)

LEMMA AppendedPart ==
    ASSUME NEW X, NEW s \in Seq(X), NEW k \in 0..(Len(s) - 1)
    PROVE  /\ SubSeq(s, 1, k) \in Seq(X) /\ s[k + 1] \in X
           /\ SubSeq(s, 1, k + 1) = Append(SubSeq(s, 1, k), s[k + 1])
<1> DEFINE t == SubSeq(s, 1, k)
           u == SubSeq(s, 1, k + 1)
<1>1. /\ k \in Nat /\ Len(s) \in Nat /\ k + 1 \in 1..Len(s)  OBVIOUS
<1>2. /\ t \in Seq(X) /\ Len(t) = k /\ \A i \in 1..k : t[i] = s[i]
      /\ u \in Seq(X) /\ Len(u) = k + 1 /\ \A i \in 1..(k + 1) : u[i] = s[i]
      /\ s[k + 1] \in X
  BY <1>1
<1> HIDE DEF t, u
<1> DEFINE v == Append(t, s[k + 1])
<1>3. /\ v \in Seq(X) /\ Len(v) = k + 1 /\ \A i \in 1..k : v[i] = t[i]
      /\ v[k + 1] = s[k + 1]
  BY <1>1, <1>2
<1> HIDE DEF v
<1>4. \A i \in 1..(k + 1) : u[i] = v[i]
  <2>1. \A i \in 1..(k + 1) : i \in 1..k \/ i = k + 1  BY <1>1
  <2> QED  BY <1>2, <1>3, <2>1
<1>5. u = v  BY <1>2, <1>3, <1>4, SeqEqual
<1> QED  BY <1>2, <1>5 DEF t, u, v

LEMMA QuantityConcat ==
    ASSUME NEW X, NEW s \in Seq(X), Countable(s), NEW t \in Seq(X), Countable(t)
    PROVE  /\ Countable(s \o t) /\ s \o t \in Seq(X)
           /\ Quantity(s \o t) = Quantity(s) + Quantity(t)
<1> DEFINE u == s \o t
           m == Len(s)
           n == Len(t)
<1>1. /\ m \in Nat /\ n \in Nat /\ u \in Seq(X) /\ Len(u) = m + n
      /\ \A i \in 1..m : u[i] = s[i]
      /\ \A i \in 1..n : u[m + i] = t[i]
  OBVIOUS
<1> HIDE DEF u
<1>2. Countable(u)
  <2>1. ASSUME NEW i \in 1..(m + n) PROVE u[i].quantity \in Nat
    <3>1. CASE i \in 1..m  BY <1>1, <3>1 DEF Countable
    <3>2. CASE i \notin 1..m
      <4>1. i - m \in 1..n /\ m + (i - m) = i  BY <1>1, <3>2
      <4> QED  BY <1>1, <4>1 DEF Countable
    <3> QED  BY <3>1, <3>2
  <2> QED  BY <1>1, <2>1 DEF Countable
<1>3. PICK F : Running(F, s) /\ Quantity(s) = F[m]  BY QuantityRuns
<1>4. PICK G : Running(G, t) /\ Quantity(t) = G[n]  BY QuantityRuns
<1>5. PICK H : Running(H, u) /\ Quantity(u) = H[m + n]  BY <1>1, <1>2, QuantityRuns
<1>6. H[m] = F[m]
  <2>1. \A k \in 0..m : F[k] = H[k]
    <3>1. m <= Len(u) /\ \A i \in 1..m : s[i].quantity = u[i].quantity  BY <1>1
    <3>2. m \in Nat /\ m <= Len(s)  BY <1>1
    <3> QED  BY <1>3, <1>5, <3>1, <3>2, RunningAgree
  <2> QED  BY <1>1, <2>1
<1> DEFINE T == {k \in 0..n : H[m + k] = F[m] + G[k]}
<1>7. F[m] \in Nat /\ G[0] = 0 /\ \A k \in 0..n : G[k] \in Nat
  <2>1. m \in 0..m  BY <1>1
  <2> QED  BY <1>3, <1>4, <2>1 DEF Running
<1>8. 0 \in T  BY <1>1, <1>6, <1>7
<1>9. ASSUME NEW k \in T \cap (0..(n - 1)) PROVE k + 1 \in T
  <2> DEFINE j == k + 1
  <2>1. /\ j \in 1..n /\ j - 1 = k /\ j \in 0..n /\ k \in 0..n
        /\ m + j \in 1..(m + n) /\ (m + j) - 1 = m + k
    BY <1>1
  <2>2. H[m + k] = F[m] + G[k]  OBVIOUS
  <2> HIDE DEF j, T
  <2>3. G[j] = G[j - 1] + t[j].quantity  BY <1>4, <2>1 DEF Running
  <2>4. H[m + j] = H[(m + j) - 1] + u[m + j].quantity  BY <1>1, <1>5, <2>1 DEF Running
  <2>5. u[m + j] = t[j] /\ t[j].quantity \in Nat  BY <1>1, <2>1 DEF Countable
  <2>6. H[m + j] = F[m] + G[j]
    BY <1>7, <2>1, <2>2, <2>3, <2>4, <2>5
  <2> QED  BY <2>1, <2>6 DEF T, j
<1>10. 0..n \subseteq T
  <2> HIDE DEF T, n
  <2> QED  BY <1>1, <1>8, <1>9, UpTo
<1>11. n \in 0..n  BY <1>1
<1> QED  BY <1>1, <1>2, <1>3, <1>4, <1>5, <1>10, <1>11 DEF u

\* What rests in some levels, as a sequence of quantities.
Held(levels) == [i \in DOMAIN levels |-> [quantity |-> Quantity(levels[i].orders)]]
Total(levels) == Quantity(Held(levels))

LEMMA HeldSequence ==
    ASSUME NEW s \in Seq(PriceLevel)
    PROVE  /\ Held(s) \in Seq(Taken) /\ Countable(Held(s)) /\ Len(Held(s)) = Len(s)
           /\ \A i \in 1..Len(s) : Held(s)[i] = [quantity |-> Quantity(s[i].orders)]
<1>1. /\ Len(s) \in Nat /\ DOMAIN s = 1..Len(s) /\ \A i \in 1..Len(s) : s[i] \in PriceLevel
  BY LenProperties
<1>2. \A i \in 1..Len(s) : Quantity(s[i].orders) \in Nat
  BY <1>1, AmountType
<1>3. Held(s) = [i \in 1..Len(s) |-> [quantity |-> Quantity(s[i].orders)]]  BY <1>1 DEF Held
<1> HIDE DEF Held
<1>4. \A i \in 1..Len(s) : /\ Held(s)[i] = [quantity |-> Quantity(s[i].orders)]
                           /\ Held(s)[i] \in Taken
  BY <1>2, <1>3 DEF Taken
<1>5. Held(s) \in Seq(Taken) /\ Len(Held(s)) = Len(s)
  <2>1. Held(s) \in [1..Len(s) -> Taken]  BY <1>3, <1>4
  <2> QED  BY <1>1, <2>1
<1>6. Countable(Held(s))
  <2>1. ASSUME NEW i \in 1..Len(s) PROVE Held(s)[i].quantity \in Nat  BY <1>4 DEF Taken
  <2> QED  BY <1>5, <2>1 DEF Countable
<1> QED  BY <1>4, <1>5, <1>6

LEMMA TotalEmpty == Total(<<>>) = 0
<1>1. <<>> \in Seq(PriceLevel) /\ Len(<<>>) = 0  OBVIOUS
<1>2. Held(<<>>) \in Seq(Taken) /\ Len(Held(<<>>)) = 0  BY <1>1, HeldSequence
<1>3. Held(<<>>) = <<>>  BY <1>2, EmptySeq
<1> QED  BY <1>3, QuantityEmpty DEF Total

LEMMA TotalConcat ==
    ASSUME NEW s \in Seq(PriceLevel), NEW t \in Seq(PriceLevel)
    PROVE  /\ Total(s) \in Nat /\ Total(t) \in Nat
           /\ Total(s \o t) = Total(s) + Total(t)
<1> DEFINE u == s \o t
           m == Len(s)
           n == Len(t)
           f == Held(s)
           g == Held(t)
           h == Held(u)
<1>1. /\ m \in Nat /\ n \in Nat /\ u \in Seq(PriceLevel) /\ Len(u) = m + n
      /\ \A i \in 1..m : u[i] = s[i]
      /\ \A i \in 1..n : u[m + i] = t[i]
  OBVIOUS
<1> HIDE DEF u
<1>2. /\ f \in Seq(Taken) /\ Countable(f) /\ Len(f) = m
      /\ \A i \in 1..m : f[i] = [quantity |-> Quantity(s[i].orders)]
  BY HeldSequence
<1>3. /\ g \in Seq(Taken) /\ Countable(g) /\ Len(g) = n
      /\ \A i \in 1..n : g[i] = [quantity |-> Quantity(t[i].orders)]
  BY HeldSequence
<1>4. /\ h \in Seq(Taken) /\ Len(h) = m + n
      /\ \A i \in 1..(m + n) : h[i] = [quantity |-> Quantity(u[i].orders)]
  BY <1>1, HeldSequence
<1> HIDE DEF f, g, h, m, n
<1> DEFINE k == f \o g
<1>5. /\ k \in Seq(Taken) /\ Len(k) = m + n
      /\ \A i \in 1..m : k[i] = f[i]
      /\ \A i \in 1..n : k[m + i] = g[i]
  <2>1. /\ k \in Seq(Taken) /\ Len(k) = m + n
        /\ \A i \in 1..(m + n) : k[i] = IF i <= m THEN f[i] ELSE g[i - m]
    BY <1>2, <1>3, ConcatProperties
  <2> HIDE DEF k
  <2>2. ASSUME NEW i \in 1..m PROVE k[i] = f[i]
    <3>1. i \in 1..(m + n) /\ i <= m  BY <1>1
    <3> QED  BY <2>1, <3>1
  <2>3. ASSUME NEW i \in 1..n PROVE k[m + i] = g[i]
    <3>1. m + i \in 1..(m + n) /\ ~ (m + i <= m) /\ (m + i) - m = i  BY <1>1
    <3> QED  BY <2>1, <3>1
  <2> QED  BY <2>1, <2>2, <2>3
<1> HIDE DEF k
<1>6. \A i \in 1..(m + n) : h[i] = k[i]
  <2> TAKE i \in 1..(m + n)
  <2>1. CASE i \in 1..m
    <3>1. h[i] = [quantity |-> Quantity(u[i].orders)] /\ u[i] = s[i]  BY <1>1, <1>4, <2>1
    <3> QED  BY <1>2, <1>5, <2>1, <3>1
  <2>2. CASE i \notin 1..m
    <3>1. i - m \in 1..n /\ m + (i - m) = i  BY <1>1, <2>2
    <3>2. h[i] = [quantity |-> Quantity(u[i].orders)] /\ u[i] = t[i - m]  BY <1>1, <1>4, <3>1
    <3> QED  BY <1>3, <1>5, <3>1, <3>2
  <2> QED  BY <2>1, <2>2
<1>7. h = k  BY <1>4, <1>5, <1>6, SeqEqual
<1>8. Quantity(f \o g) = Quantity(f) + Quantity(g)  BY <1>2, <1>3, QuantityConcat
<1>9. Quantity(f) \in Nat /\ Quantity(g) \in Nat  BY <1>2, <1>3, QuantityType
<1> QED  BY <1>7, <1>8, <1>9 DEF Total, f, g, h, k, u

LEMMA TotalAppend ==
    ASSUME NEW s \in Seq(PriceLevel), NEW level \in PriceLevel
    PROVE  Total(Append(s, level)) = Total(s) + Quantity(level.orders)
<1> DEFINE one == <<level>>
           h == Held(one)
           x == [quantity |-> Quantity(level.orders)]
<1>1. one \in Seq(PriceLevel) /\ Len(one) = 1 /\ one[1] = level /\ Append(s, level) = s \o one
  OBVIOUS
<1>2. Quantity(level.orders) \in Nat /\ x \in Taken  BY AmountType DEF Taken
<1>3. h \in Seq(Taken) /\ Len(h) = 1 /\ h[1] = x
  <2> HIDE DEF one
  <2>1. 1 \in 1..1  OBVIOUS
  <2> QED  BY <1>1, <2>1, HeldSequence
<1> HIDE DEF h, one
<1>4. h = Append(<<>>, x)  BY <1>2, <1>3
<1>5. <<>> \in Seq(Taken) /\ Countable(<<>>)  BY DEF Countable
<1>6. Quantity(h) = Quantity(<<>>) + x.quantity  BY <1>2, <1>4, <1>5, QuantityAppend
<1>7. Total(one) = Quantity(level.orders)  BY <1>2, <1>6, QuantityEmpty DEF Total, h
<1> QED  BY <1>1, <1>7, TotalConcat

\* A side holds what it holds at each price, and a batch traded what it traded at each.
ByPrice(levels) == [p \in Prices |-> RestingAt(levels, p)]
TradedByPrice(trades) == [p \in Prices |-> TradedAt(trades, p)]

LEMMA TotalByPrice ==
    ASSUME IsFiniteSet(Prices), NEW levels \in Seq(PriceLevel)
    PROVE  ByPrice(levels) \in [Prices -> Nat] /\ Total(levels) = SumFunction(ByPrice(levels))
<1> DEFINE n == Len(levels)
           s(k) == SubSeq(levels, 1, k)
           T == {k \in 0..n : Total(s(k)) = SumFunction(ByPrice(s(k)))}
<1>1. n \in Nat /\ \A k \in 0..n : s(k) \in Seq(PriceLevel)
  <2>1. n \in Nat  BY LenProperties
  <2>2. ASSUME NEW k \in 0..n PROVE s(k) \in Seq(PriceLevel)
    BY <2>1
  <2> QED  BY <2>1, <2>2
<1>2. ASSUME NEW t \in Seq(PriceLevel) PROVE ByPrice(t) \in [Prices -> Nat]
  <2>1. \A p : RestingAt(t, p) \in Nat
    <3> TAKE p
    <3>1. PICK F : AmountsTo(F, t, p) /\ RestingAt(t, p) = F[Len(t)]  BY RestingRuns
    <3>2. Len(t) \in 0..Len(t)  BY LenProperties
    <3> QED  BY <3>1, <3>2 DEF AmountsTo
  <2> QED  BY <2>1 DEF ByPrice
<1>3. s(0) = <<>> /\ s(n) = levels
  <2>1. s(0) = <<>>  OBVIOUS
  <2>2. s(n) = levels
    <3>1. /\ s(n) \in Seq(PriceLevel) /\ Len(s(n)) = n
          /\ \A i \in 1..n : s(n)[i] = levels[i]
      BY <1>1
    <3> HIDE DEF s
    <3> QED  BY <3>1, SeqEqual
  <2> QED  BY <2>1, <2>2
<1>4. 0 \in T
  <2>1. <<>> \in Seq(PriceLevel)  OBVIOUS
  <2>2. ByPrice(<<>>) \in [Prices -> Nat]  BY <1>2, <2>1
  <2>3. \A p \in Prices : ByPrice(<<>>)[p] = 0
    <3> TAKE p \in Prices
    <3>1. PICK F : AmountsTo(F, <<>>, p) /\ RestingAt(<<>>, p) = F[Len(<<>>)]
      BY <2>1, RestingRuns
    <3>2. Len(<<>>) = 0  OBVIOUS
    <3> QED  BY <3>1, <3>2 DEF AmountsTo, ByPrice
  <2>4. SumFunction(ByPrice(<<>>)) = 0  BY <2>2, <2>3, SumOfZeros
  <2> HIDE DEF s
  <2> QED  BY <1>1, <1>3, <2>4, TotalEmpty
<1>5. ASSUME NEW k \in T \cap (0..(n - 1)) PROVE k + 1 \in T
  <2> DEFINE before == s(k)
             level == levels[k + 1]
             p == level.price
             one == <<level>>
  <2>1. k \in 0..n /\ k + 1 \in 0..n  BY <1>1
  <2>2. Total(before) = SumFunction(ByPrice(before))  OBVIOUS
  <2>3. /\ before \in Seq(PriceLevel) /\ level \in PriceLevel
        /\ s(k + 1) = Append(before, level)
    BY AppendedPart
  <2> HIDE DEF T, s, before, level
  <2> DEFINE f == ByPrice(before)
             g == ByPrice(Append(before, level))
  <2>4. Append(before, level) \in Seq(PriceLevel)  BY <2>3
  <2>5. f \in [Prices -> Nat] /\ g \in [Prices -> Nat] /\ p \in Prices
    BY <1>2, <2>3, <2>4 DEF PriceLevel
  <2>6. Quantity(level.orders) \in Nat  BY <2>3, AmountType
  <2> DEFINE x == Quantity(level.orders)
  <2>7. g[p] = f[p] + x /\ \A q \in Prices : q # p => g[q] = f[q]
    <3>1. \A q \in Prices : g[q] = f[q] + Amount(level, q) /\ f[q] \in Nat
      BY <2>3, <2>5, RestingAppend DEF ByPrice
    <3> HIDE DEF f, g
    <3> QED  BY <2>5, <3>1 DEF Amount
  <2>8. x \in Nat  BY <2>6
  <2> HIDE DEF f, g, p, x
  <2>11. SumFunction(g) = SumFunction(f) + x  BY <2>5, <2>7, <2>8, SumGrows
  <2>12. Total(Append(before, level)) = Total(before) + Quantity(level.orders)
    BY <2>3, TotalAppend
  <2>13. Total(s(k + 1)) = SumFunction(ByPrice(s(k + 1)))
    BY <2>2, <2>3, <2>11, <2>12 DEF f, g, x
  <2> QED  BY <2>1, <2>13 DEF T
<1>6. 0..n \subseteq T
  <2> HIDE DEF T, n
  <2> QED  BY <1>1, <1>4, <1>5, UpTo
<1>7. Total(s(n)) = SumFunction(ByPrice(s(n)))
  <2> HIDE DEF s
  <2>1. n \in 0..n  BY <1>1
  <2> QED  BY <1>6, <2>1
<1> QED  BY <1>2, <1>3, <1>7

LEMMA TradedInTotal ==
    ASSUME IsFiniteSet(Prices), NEW trades \in Seq(TradeReport)
    PROVE  /\ TradedByPrice(trades) \in [Prices -> Nat]
           /\ Quantity(trades) = SumFunction(TradedByPrice(trades))
<1> DEFINE n == Len(trades)
           s(k) == SubSeq(trades, 1, k)
           T == {k \in 0..n : Quantity(s(k)) = SumFunction(TradedByPrice(s(k)))}
<1>1. n \in Nat  BY LenProperties
<1>2. ASSUME NEW t \in Seq(TradeReport) PROVE TradedByPrice(t) \in [Prices -> Nat]
  BY TradedType DEF TradedByPrice
<1>3. s(0) = <<>> /\ s(n) = trades
  <2>1. s(0) = <<>>  OBVIOUS
  <2>2. s(n) = trades
    <3>1. /\ s(n) \in Seq(TradeReport) /\ Len(s(n)) = n
          /\ \A i \in 1..n : s(n)[i] = trades[i]
      BY <1>1
    <3> HIDE DEF s
    <3> QED  BY <3>1, SeqEqual
  <2> QED  BY <2>1, <2>2
<1>4. 0 \in T
  <2>1. <<>> \in Seq(TradeReport)  OBVIOUS
  <2>2. TradedByPrice(<<>>) \in [Prices -> Nat]  BY <1>2, <2>1
  <2>3. \A p \in Prices : TradedByPrice(<<>>)[p] = 0  BY TradedEmpty DEF TradedByPrice
  <2>4. SumFunction(TradedByPrice(<<>>)) = 0  BY <2>2, <2>3, SumOfZeros
  <2> HIDE DEF s
  <2> QED  BY <1>1, <1>3, <2>4, QuantityEmpty
<1>5. ASSUME NEW k \in T \cap (0..(n - 1)) PROVE k + 1 \in T
  <2> DEFINE before == s(k)
             report == trades[k + 1]
             p == report.price
  <2>1. k \in 0..n /\ k + 1 \in 0..n  BY <1>1
  <2>2. Quantity(before) = SumFunction(TradedByPrice(before))  OBVIOUS
  <2>3. /\ before \in Seq(TradeReport) /\ report \in TradeReport
        /\ s(k + 1) = Append(before, report)
    BY AppendedPart
  <2> HIDE DEF T, s, before, report
  <2> DEFINE f == TradedByPrice(before)
             g == TradedByPrice(Append(before, report))
  <2>4. Append(before, report) \in Seq(TradeReport)  BY <2>3
  <2>5. f \in [Prices -> Nat] /\ g \in [Prices -> Nat] /\ p \in Prices
    BY <1>2, <2>3, <2>4 DEF TradeReport
  <2>6. report.quantity \in Nat  BY <2>3 DEF TradeReport
  <2> DEFINE x == report.quantity
  <2>7. g[p] = f[p] + x /\ \A q \in Prices : q # p => g[q] = f[q]
    <3>1. \A q \in Prices : g[q] = f[q] + TookAt(report, q) /\ f[q] \in Nat
      BY <2>3, <2>5, TradedAppend DEF TradedByPrice
    <3> HIDE DEF f, g
    <3> QED  BY <2>5, <3>1 DEF TookAt
  <2>8. x \in Nat  BY <2>6
  <2> HIDE DEF f, g, p, x
  <2>11. SumFunction(g) = SumFunction(f) + x  BY <2>5, <2>7, <2>8, SumGrows
  <2>12. Quantity(Append(before, report)) = Quantity(before) + report.quantity
    <3>1. Countable(before)  BY <2>3, TradesCountable
    <3> QED  BY <2>3, <2>6, <3>1, QuantityAppend
  <2>13. Quantity(s(k + 1)) = SumFunction(TradedByPrice(s(k + 1)))
    BY <2>2, <2>3, <2>11, <2>12 DEF f, g, x
  <2> QED  BY <2>1, <2>13 DEF T
<1>6. 0..n \subseteq T
  <2> HIDE DEF T, n
  <2> QED  BY <1>1, <1>4, <1>5, UpTo
<1>7. Quantity(s(n)) = SumFunction(TradedByPrice(s(n)))
  <2> HIDE DEF s
  <2>1. n \in 0..n  BY <1>1
  <2> QED  BY <1>6, <2>1
<1> QED  BY <1>2, <1>3, <1>7
-----------------------------------------------------------------------------
(* An order that is added *)

\* There is room for a level of every price.
PricesFit == IsFiniteSet(Prices) /\ Cardinality(Prices) <= MaxDepthLevels

LEMMA NothingCut ==
    ASSUME PricesFit, NEW side \in Sides, NEW prices \in SUBSET Prices
    PROVE  KeptOf(side, prices) = prices
<1> SUFFICES ASSUME NEW p \in prices
             PROVE  Cardinality({q \in prices : Better(side, q, p)}) < MaxDepthLevels
  BY DEF KeptOf
<1> DEFINE ahead == {q \in prices : Better(side, q, p)}
<1>1. p \in Prices /\ \A q \in Prices : q \in Nat  BY PricesAssumption
<1>2. ahead \subseteq Prices \ {p}
  <2>1. ~ Better(side, p, p)  BY <1>1 DEF Better
  <2> QED  BY <2>1
<1> HIDE DEF ahead
<1>3. IsFiniteSet(Prices) /\ Cardinality(Prices) <= MaxDepthLevels  BY DEF PricesFit
<1>4. /\ IsFiniteSet(Prices \ {p}) /\ Cardinality(Prices \ {p}) = Cardinality(Prices) - 1
  BY <1>1, <1>3, FS_RemoveElement
<1>5. Cardinality(ahead) <= Cardinality(Prices \ {p}) /\ IsFiniteSet(ahead)
  BY <1>2, <1>4, FS_Subset
<1>6. Cardinality(ahead) \in Nat /\ Cardinality(Prices) \in Nat
  BY <1>3, <1>5, FS_CardinalityType
<1> QED  BY <1>3, <1>4, <1>5, <1>6, LimitsAssumption DEF ahead

\* What the order does not trade its side has more.
LEMMA AddRests ==
    ASSUME PricesFit, BookInv, BookInv', NEW order \in Orders, AddValidOrder(order),
           reply'.error = "none"
    PROVE  /\ order.quantity - Quantity(reply'.trades) \in Nat
           /\ Total(IF order.side = "buy" THEN bids' ELSE asks') =
                 Total(Levels(order.side)) + (order.quantity - Quantity(reply'.trades))
<1> DEFINE side == order.side
           own == Levels(side)
           left == order.quantity - Quantity(reply'.trades)
           prices == PricesOf(own) \cup (IF left > 0 THEN {order.price} ELSE {})
           new == IF side = "buy" THEN bids' ELSE asks'
           f == ByPrice(own)
           g == ByPrice(new)
<1>1. side \in Sides /\ order.price \in Prices  BY OrdersAssumption DEF Sides
<1>2. SideOK(side, own)  BY <1>1 DEF BookInv
<1>3. own \in Seq(PriceLevel) /\ new \in Seq(PriceLevel)
  <2>1. own \in Seq(PriceLevel)  BY <1>2 DEF SideOK
  <2>2. bids' \in Seq(PriceLevel) /\ asks' \in Seq(PriceLevel)
    BY DEF BookInv, SideOK, Sides, Levels
  <2> QED  BY <2>1, <2>2
<1>4. ASSUME NEW p
      PROVE  /\ reply'.order = order
             /\ RestingAt(new, p) = IF p \notin KeptOf(side, prices) THEN 0
                                    ELSE RestingAt(own, p) + (IF p = order.price THEN left ELSE 0)
  <2>1. /\ own = Levels(order.side) /\ left = order.quantity - Quantity(reply'.trades)
        /\ prices = PricesOf(own) \cup (IF left > 0 THEN {order.price} ELSE {})
    OBVIOUS
  <2> HIDE DEF own, left, prices
  <2> QED  BY <2>1, AddCuts
<1>5. left \in Nat  BY AddLeaves
<1>6. prices \subseteq Prices
  <2>1. \A i \in DOMAIN own : own[i] \in PriceLevel  BY <1>3, LenProperties
  <2> QED  BY <1>1, <2>1 DEF PricesOf, PriceLevel
<1>7. KeptOf(side, prices) = prices  BY <1>1, <1>6, NothingCut
<1>8. ASSUME NEW p \in Prices
      PROVE  RestingAt(own, p) \in Nat /\
             RestingAt(new, p) = RestingAt(own, p) + (IF p = order.price THEN left ELSE 0)
  <2>1. RestingAt(own, p) \in Nat  BY <1>2, RestingIs
  <2>2. CASE p \in prices  BY <1>4, <1>7, <2>1, <2>2
  <2>3. CASE p \notin prices
    <3>1. RestingAt(own, p) = 0
      <4>1. p \notin PricesOf(own)  BY <2>3
      <4>2. \A i \in 1..Len(own) : own[i].price # p  BY <1>3, <4>1, PriceOf
      <4> QED  BY <1>2, <4>2, RestingIs
    <3>2. p = order.price => left = 0  BY <1>5, <2>3
    <3>3. RestingAt(new, p) = 0  BY <1>4, <1>7, <2>3
    <3> QED  BY <3>1, <3>2, <3>3
  <2> QED  BY <2>1, <2>2, <2>3
<1>9. IsFiniteSet(Prices)  BY DEF PricesFit
<1> HIDE DEF own, new, left, prices
<1>10. /\ f \in [Prices -> Nat] /\ Total(own) = SumFunction(f)
       /\ g \in [Prices -> Nat] /\ Total(new) = SumFunction(g)
  BY <1>3, <1>9, TotalByPrice
<1>11. /\ g[order.price] = f[order.price] + left
       /\ \A p \in Prices : p # order.price => g[p] = f[p]
  BY <1>1, <1>8 DEF ByPrice
<1> HIDE DEF f, g
<1>12. SumFunction(g) = SumFunction(f) + left
  <2> DEFINE w == order.price
  <2>1. w \in Prices /\ g[w] = f[w] + left /\ \A p \in Prices : p # w => g[p] = f[p]
    BY <1>1, <1>11
  <2> HIDE DEF w
  <2> QED  BY <1>5, <1>9, <1>10, <2>1, SumGrows
<1> QED  BY <1>5, <1>10, <1>12 DEF own, new, left

\* What it trades the other side has less.
LEMMA AddTrades ==
    ASSUME PricesFit, BookInv, BookInv', NEW order \in Orders, AddValidOrder(order),
           reply'.error = "none"
    PROVE  /\ Quantity(reply'.trades) \in Nat
           /\ Total(IF order.side = "buy" THEN asks' ELSE bids') + Quantity(reply'.trades) =
                 Total(Levels(Opposite(order.side)))
<1> DEFINE opposite == Levels(Opposite(order.side))
           trades == reply'.trades
           new == IF order.side = "buy" THEN asks' ELSE bids'
           f == ByPrice(new)
           g == TradedByPrice(trades)
           h == ByPrice(opposite)
<1>1. opposite \in Seq(PriceLevel) /\ new \in Seq(PriceLevel) /\ trades \in Seq(TradeReport)
  <2>1. bids \in Seq(PriceLevel) /\ asks \in Seq(PriceLevel)
    BY DEF BookInv, SideOK, Sides, Levels
  <2>2. bids' \in Seq(PriceLevel) /\ asks' \in Seq(PriceLevel)
    BY DEF BookInv, SideOK, Sides, Levels
  <2>3. trades \in Seq(TradeReport)  BY DEF BookInv
  <2> QED  BY <2>1, <2>2, <2>3 DEF Levels
<1>2. ASSUME NEW p PROVE RestingAt(new, p) = RestingAt(opposite, p) - TradedAt(trades, p)
  BY AddTakes
<1>3. IsFiniteSet(Prices)  BY DEF PricesFit
<1> HIDE DEF opposite, trades, new
<1>4. /\ f \in [Prices -> Nat] /\ Total(new) = SumFunction(f)
      /\ h \in [Prices -> Nat] /\ Total(opposite) = SumFunction(h)
  BY <1>1, <1>3, TotalByPrice
<1>5. g \in [Prices -> Nat] /\ Quantity(trades) = SumFunction(g)
  BY <1>1, <1>3, TradedInTotal
<1>6. \A p \in Prices : f[p] = h[p] - g[p]  BY <1>2 DEF ByPrice, TradedByPrice
<1> HIDE DEF f, g, h
<1>7. \A p \in Prices : h[p] = f[p] + g[p]
  <2> TAKE p \in Prices
  <2>1. f[p] \in Nat /\ g[p] \in Nat /\ h[p] \in Nat /\ f[p] = h[p] - g[p]
    BY <1>4, <1>5, <1>6
  <2> QED  BY <2>1
<1>8. /\ SumFunction(f) \in Nat /\ SumFunction(g) \in Nat
      /\ SumFunction(h) = SumFunction(f) + SumFunction(g)
  BY <1>3, <1>4, <1>5, <1>7, SumAdds
<1> QED  BY <1>4, <1>5, <1>8 DEF opposite, trades, new

LEMMA AddConserves ==
    ASSUME PricesFit, BookInv, BookInv', NEW order \in Orders, AddValidOrder(order),
           reply'.error = "none"
    PROVE  /\ Quantity(reply'.trades) \in Nat /\ order.quantity \in Nat
           /\ Total(bids \o asks) \in Nat /\ Total(bids' \o asks') \in Nat
           /\ Total(bids' \o asks') + 2 * Quantity(reply'.trades) =
                 Total(bids \o asks) + order.quantity
<1> DEFINE traded == Quantity(reply'.trades)
           left == order.quantity - traded
           b == Total(bids)
           a == Total(asks)
           b2 == Total(bids')
           a2 == Total(asks')
<1>1. order.quantity \in Nat /\ order.side \in Sides
  BY OrdersAssumption, QuantitiesAssumption DEF Sides
<1>2. bids \in Seq(PriceLevel) /\ asks \in Seq(PriceLevel)
  BY DEF BookInv, SideOK, Sides, Levels
<1>3. bids' \in Seq(PriceLevel) /\ asks' \in Seq(PriceLevel)
  BY DEF BookInv, SideOK, Sides, Levels
<1>4. a \in Nat /\ b \in Nat /\ Total(bids \o asks) = b + a  BY <1>2, TotalConcat
<1>5. a2 \in Nat /\ b2 \in Nat /\ Total(bids' \o asks') = b2 + a2  BY <1>3, TotalConcat
<1>6. traded \in Nat /\ left \in Nat  BY AddRests, AddTrades
<1>7. CASE order.side = "buy"
  <2>1. b2 = b + left  BY <1>7, AddRests DEF Levels
  <2>2. a2 + traded = a  BY <1>7, AddTrades DEF Levels, Opposite
  <2> HIDE DEF traded, a, b, a2, b2
  <2>3. b2 + a2 + 2 * traded = b + a + order.quantity
    BY <1>1, <1>4, <1>5, <1>6, <2>1, <2>2
  <2> QED  BY <1>1, <1>4, <1>5, <1>6, <2>3 DEF traded, a, b, a2, b2
<1>8. CASE order.side # "buy"
  <2>0. order.side = "sell"  BY <1>1, <1>8 DEF Sides
  <2>1. a2 = a + left  BY <2>0, AddRests DEF Levels
  <2>2. b2 + traded = b  BY <2>0, AddTrades DEF Levels, Opposite
  <2> HIDE DEF traded, a, b, a2, b2
  <2>3. b2 + a2 + 2 * traded = b + a + order.quantity
    BY <1>1, <1>4, <1>5, <1>6, <2>1, <2>2
  <2> QED  BY <1>1, <1>4, <1>5, <1>6, <2>3 DEF traded, a, b, a2, b2
<1> QED  BY <1>7, <1>8
-----------------------------------------------------------------------------
(* The ring hands over orders that clients pushed *)

RolesApart == Producers \cap Consumers = {}

Supplied ==
    /\ pc = [t \in Pipe!Threads |-> pc[t]] /\ item = [t \in Pipe!Threads |-> item[t]]
    /\ \A t \in Producers : pc[t] # "idle" => item[t] \in Orders
    /\ claimed \in Seq(Orders)

LEMMA SuppliedInit == Pipe!PipelineInit => Supplied
<1> SUFFICES ASSUME Pipe!PipelineInit PROVE Supplied  OBVIOUS
<1>1. /\ pc = [t \in Pipe!Threads |-> "idle"] /\ item = [t \in Pipe!Threads |-> NoOrder]
      /\ claimed = <<>>
  BY DEF Pipe!PipelineInit, Pipe!Init
<1> QED  BY <1>1 DEF Supplied, Pipe!Threads

LEMMA SuppliedStep ==
    RolesApart /\ Supplied /\ [Pipe!PipelineNext]_(Pipe!pipeline) => Supplied'
<1> SUFFICES ASSUME RolesApart, Supplied, [Pipe!PipelineNext]_(Pipe!pipeline) PROVE Supplied'
  OBVIOUS
<1>0. \A t \in Producers : t \in Pipe!Threads /\ t \notin Consumers
  BY DEF RolesApart, Pipe!Threads
<1>1. CASE UNCHANGED <<pc, item, claimed>>  BY <1>1 DEF Supplied
<1>2. ASSUME NEW t \in Producers, Pipe!Offer(t) PROVE Supplied'
  <2>1. PICK o \in Orders : Pipe!PushStart(t, o)  BY <1>2 DEF Pipe!Offer
  <2>2. /\ pc' = [pc EXCEPT ![t] = "push_seq"] /\ item' = [item EXCEPT ![t] = o]
        /\ claimed' = claimed
    BY <1>2, <2>1 DEF Pipe!Offer, Pipe!PushStart, Pipe!Goto
  <2> QED  BY <1>0, <2>2 DEF Supplied
<1>3. ASSUME NEW t \in Producers, Pipe!Push(t) PROVE Supplied'
  <2>1. /\ pc[t] # "idle" /\ \E to : pc' = [pc EXCEPT ![t] = to]
        /\ item' = item /\ (claimed' = claimed \/ claimed' = Append(claimed, item[t]))
    BY <1>3 DEF Pipe!Push, Pipe!Claims, Pipe!PushStep, Pipe!PushReady, Pipe!PushFull,
                Pipe!PushBehind, Pipe!PushReload, Pipe!PushClaim, Pipe!PushClaimFails,
                Pipe!PushWrite, Pipe!PushPublish, Pipe!Goto
  <2>2. item[t] \in Orders /\ claimed \in Seq(Orders)  BY <2>1 DEF Supplied
  <2>3. claimed' \in Seq(Orders)  BY <2>1, <2>2
  <2>4. PICK to : pc' = [pc EXCEPT ![t] = to]  BY <2>1
  <2>5. \A p \in Producers : pc'[p] # "idle" => pc[p] # "idle"
    BY <1>0, <2>1, <2>4 DEF Supplied
  <2>6. pc' = [p \in Pipe!Threads |-> pc'[p]]  BY <2>4 DEF Supplied
  <2> QED  BY <2>1, <2>3, <2>5, <2>6 DEF Supplied, Pipe!Threads
<1>4. ASSUME NEW c \in Consumers, Pipe!Pop(c) PROVE Supplied'
  <2>1. /\ \E to : pc' = [pc EXCEPT ![c] = to]
        /\ item' = item \/ \E o : item' = [item EXCEPT ![c] = o]
        /\ claimed' = claimed
    BY <1>4 DEF Pipe!Pop, Pipe!Ask, Pipe!PopStart, Pipe!PopStep, Pipe!PopReady, Pipe!PopEmpty,
                Pipe!PopBehind, Pipe!PopReload, Pipe!PopClaim, Pipe!PopClaimFails,
                Pipe!PopRead, Pipe!PopRelease, Pipe!Goto
  <2>2. PICK to : pc' = [pc EXCEPT ![c] = to]  BY <2>1
  <2>3. \A p \in Producers : pc'[p] = pc[p] /\ item'[p] = item[p]
    BY <1>0, <2>1, <2>2 DEF Supplied
  <2>4. /\ pc' = [p \in Pipe!Threads |-> pc'[p]]
        /\ item' = [p \in Pipe!Threads |-> item'[p]]
    BY <2>1, <2>2 DEF Supplied
  <2> QED  BY <2>1, <2>3, <2>4 DEF Supplied, Pipe!Threads
<1>5. ASSUME NEW c \in Consumers, Pipe!Match(c) PROVE UNCHANGED <<pc, item, claimed>>
  BY <1>5 DEF Pipe!Match, Pipe!vars
<1> QED
  BY <1>1, <1>2, <1>3, <1>4, <1>5 DEF Pipe!PipelineNext, Pipe!pipeline, Pipe!vars
-----------------------------------------------------------------------------
(* What the book got from the ring rests in it or was traded *)

LEMMA SameResting ==
    ASSUME bids \o asks \in Seq(PriceLevel) PROVE Pipe!Resting = Total(bids \o asks)
<1> DEFINE s == bids \o asks
           n == Len(s)
           G(iter) == [t \in SUBSET (DOMAIN s) |->
                          IF t = {} THEN 0
                          ELSE iter[t \ {Max(t)}] + Quantity(s[Max(t)].orders)]
           H(iter) == [t \in SUBSET (DOMAIN Held(s)) |->
                          IF t = {} THEN 0
                          ELSE iter[t \ {Max(t)}] + Held(s)[Max(t)].quantity]
<1>1. Pipe!Resting = (CHOOSE iter : iter = G(iter))[DOMAIN s]
  BY SameQuantity DEF Pipe!Resting, Pipe!FoldLeft, Pipe!MapThenFoldSet, Pipe!Max, Max
<1>2. Total(s) = (CHOOSE iter : iter = H(iter))[DOMAIN Held(s)]
  BY DEF Total, Quantity, FoldLeft, MapThenFoldSet
<1>3. s \in Seq(PriceLevel)  OBVIOUS
<1> HIDE DEF s
<1>4. /\ n \in Nat /\ DOMAIN s = 1..n /\ DOMAIN Held(s) = 1..n
      /\ \A i \in 1..n : Held(s)[i] = [quantity |-> Quantity(s[i].orders)]
  BY <1>3, LenProperties, HeldSequence
<1>5. \A iter : G(iter) = H(iter)
  <2> TAKE iter
  <2>1. ASSUME NEW t \in SUBSET (1..n), t # {}
        PROVE  Held(s)[Max(t)].quantity = Quantity(s[Max(t)].orders)
    <3>1. Max(t) \in 1..n  BY <1>4, <2>1, GreatestNumber
    <3> QED  BY <1>4, <3>1
  <2> QED  BY <1>4, <2>1
<1>6. (CHOOSE iter : iter = G(iter)) = (CHOOSE iter : iter = H(iter))
  <2> HIDE DEF G, H
  <2> QED  BY <1>5
<1> QED  BY <1>1, <1>2, <1>4, <1>6 DEF s

Filled ==
    /\ matched.orders \in Seq(Orders) /\ matched.traded \in Nat
    /\ Quantity(matched.orders) = Total(bids \o asks) + 2 * matched.traded

LEMMA OrdersCountable == ASSUME NEW s \in Seq(Orders) PROVE Countable(s)
<1>1. \A i \in 1..Len(s) : s[i] \in Orders  BY LenProperties
<1>2. \A o \in Orders : o.quantity \in Nat  BY OrdersAssumption, QuantitiesAssumption
<1> QED  BY <1>1, <1>2 DEF Countable

LEMMA FilledInit == Pipe!PipelineInit => BookInv /\ Filled
<1> SUFFICES ASSUME Pipe!PipelineInit PROVE BookInv /\ Filled  OBVIOUS
<1>1. Init /\ matched = [orders |-> <<>>, traded |-> 0]
  BY SameInit DEF Pipe!PipelineInit
<1>2. bids \o asks = <<>>  BY <1>1 DEF Init
<1>3. matched.orders = <<>> /\ matched.traded = 0  BY <1>1
<1>4. Filled  BY <1>2, <1>3, TotalEmpty, QuantityEmpty DEF Filled
<1> QED  BY <1>1, <1>4, BookInitial

LEMMA FilledStep ==
    PricesFit /\ Supplied /\ BookInv /\ Filled /\ (reply.error = "none")'
        /\ (Pipe!MatchedInOrder)' /\ [Pipe!PipelineNext]_(Pipe!pipeline)
    => BookInv' /\ Filled'
<1> SUFFICES ASSUME PricesFit, Supplied, BookInv, Filled, (reply.error = "none")',
                    (Pipe!MatchedInOrder)', [Pipe!PipelineNext]_(Pipe!pipeline)
             PROVE  BookInv' /\ Filled'
  OBVIOUS
<1>1. CASE UNCHANGED <<bids, asks, clock, smr, reply, matched>>
  <2>1. UNCHANGED vars  BY <1>1 DEF vars
  <2> QED  BY <1>1, <2>1, BookPreserved DEF Filled
<1>2. ASSUME NEW c \in Consumers, Pipe!Match(c) PROVE BookInv' /\ Filled'
  <2> DEFINE done == matched.orders
             order == item[c]
             traded == Quantity(reply'.trades)
  <2>1. /\ TryAddOrder(order) /\ claimed' = claimed
        /\ matched' = [orders |-> Append(done, order), traded |-> matched.traded + traded]
    BY <1>2, SameAdd, SameQuantity DEF Pipe!Match
  <2>2. done \in Seq(Orders) /\ claimed \in Seq(Orders)  BY DEF Filled, Supplied
  <2>3. order \in Orders
    <3> DEFINE k == Len(done) + 1
               s == Append(done, order)
    <3>1. k \in Nat \ {0} /\ k = Len(s) /\ s[k] = order  BY <2>2
    <3>2. /\ Len(s) <= Len(claimed)
          /\ SubSeq(s, 1, Len(s)) = SubSeq(claimed, 1, Len(s))
      BY <2>1 DEF Pipe!MatchedInOrder, Pipe!IsPrefix
    <3>3. SubSeq(claimed, 1, k)[k] = claimed[k] /\ claimed[k] \in Orders
      BY <2>2, <3>1, <3>2
    <3>4. SubSeq(s, 1, k)[k] = s[k]  BY <3>1
    <3> HIDE DEF s, k
    <3> QED  BY <3>1, <3>2, <3>3, <3>4
  <2>4. AddValidOrder(order)  BY <2>1 DEF TryAddOrder, RejectOrder, Reply
  <2>5. BookInv'  BY <2>1, <2>3, BookPreserved DEF Next
  <2>6. /\ traded \in Nat /\ order.quantity \in Nat
        /\ Total(bids \o asks) \in Nat /\ Total(bids' \o asks') \in Nat
        /\ Total(bids' \o asks') + 2 * traded = Total(bids \o asks) + order.quantity
    BY <2>3, <2>4, <2>5, AddConserves
  <2>7. Quantity(Append(done, order)) = Quantity(done) + order.quantity
    BY <2>2, <2>3, <2>6, OrdersCountable, QuantityAppend
  <2>8. /\ matched'.orders = Append(done, order) /\ matched'.traded = matched.traded + traded
    BY <2>1
  <2>9. Append(done, order) \in Seq(Orders)  BY <2>2, <2>3
  <2>10. matched.traded \in Nat /\ Quantity(done) = Total(bids \o asks) + 2 * matched.traded
    BY DEF Filled
  <2>11. Filled'
    <3> DEFINE x == matched.traded
               y == Total(bids \o asks)
               z == Total(bids' \o asks')
               q == order.quantity
    <3>1. y + 2 * x + q = z + 2 * (x + traded)
      <4> HIDE DEF traded, x, y, z, q
      <4>1. /\ x \in Nat /\ y \in Nat /\ z \in Nat /\ q \in Nat /\ traded \in Nat
            /\ z + 2 * traded = y + q
        BY <2>6, <2>10 DEF traded, x, y, z, q
      <4> QED  BY <4>1
    <3>2. Quantity(matched'.orders) = z + 2 * matched'.traded
      BY <2>7, <2>8, <2>10, <3>1
    <3> QED  BY <2>6, <2>8, <2>9, <2>10, <3>2 DEF Filled
  <2> QED  BY <2>5, <2>11
<1>3. ASSUME NEW t \in Producers, Pipe!Offer(t) \/ Pipe!Push(t)
      PROVE  UNCHANGED <<bids, asks, clock, smr, reply, matched>>
  BY <1>3 DEF Pipe!Offer, Pipe!Push, Pipe!bookVars
<1>4. ASSUME NEW c \in Consumers, Pipe!Pop(c)
      PROVE  UNCHANGED <<bids, asks, clock, smr, reply, matched>>
  BY <1>4 DEF Pipe!Pop, Pipe!bookVars
<1> QED
  BY <1>1, <1>2, <1>3, <1>4 DEF Pipe!PipelineNext, Pipe!pipeline, Pipe!bookVars

LEMMA RestOfSequence ==
    ASSUME NEW S, NEW s \in Seq(S), NEW n \in Nat, n <= Len(s)
    PROVE  LET t == SubSeq(s, n + 1, Len(s))
           IN  /\ t \in Seq(S) /\ Len(t) = Len(s) - n
               /\ \A i \in 1..(Len(s) - n) : t[i] = s[n + i]
<1> DEFINE t == SubSeq(s, n + 1, Len(s))
<1>1. n + 1 \in 1..(Len(s) + 1) /\ Len(s) \in 0..Len(s) /\ Len(s) \in Nat  BY LenProperties
<1>2. /\ t \in Seq(S)
      /\ Len(t) = Len(s) - (n + 1) + 1
      /\ \A i \in 1..(Len(s) - (n + 1) + 1) : t[i] = s[n + 1 + i - 1]
  BY <1>1, SubSeqProperties
<1>3. Len(s) - (n + 1) + 1 = Len(s) - n /\ \A i \in 1..(Len(s) - n) : n + 1 + i - 1 = n + i
  BY <1>1
<1> HIDE DEF t
<1>4. QED  BY <1>2, <1>3 DEF t

LEMMA FilledConserves ==
    Supplied /\ BookInv /\ Filled /\ Pipe!MatchedInOrder => Pipe!QuantityConserved
<1> SUFFICES ASSUME Supplied, BookInv, Filled, Pipe!MatchedInOrder
             PROVE  Pipe!QuantityConserved
  OBVIOUS
<1> DEFINE n == Len(matched.orders)
           m == Len(claimed)
           front == SubSeq(claimed, 1, n)
           tail == SubSeq(claimed, n + 1, m)
<1>1. /\ claimed \in Seq(Orders) /\ matched.orders \in Seq(Orders)
      /\ n \in Nat /\ m \in Nat /\ n <= m /\ front = SubSeq(matched.orders, 1, n)
  BY DEF Supplied, Filled, Pipe!MatchedInOrder, Pipe!IsPrefix
<1>2. front = matched.orders
  <2> DEFINE s == matched.orders
             t == SubSeq(s, 1, n)
  <2>1. /\ s \in Seq(Orders) /\ t \in Seq(Orders) /\ Len(t) = Len(s)
        /\ \A i \in 1..Len(s) : t[i] = s[i]
    BY <1>1
  <2>2. t = s
    <3> HIDE DEF s, t
    <3> QED  BY <2>1, SeqEqual
  <2> QED  BY <1>1, <2>2
<1>3. front \in Seq(Orders) /\ tail \in Seq(Orders) /\ claimed = front \o tail
  <2>1. /\ front \in Seq(Orders) /\ Len(front) = n /\ \A i \in 1..n : front[i] = claimed[i]
    BY <1>1
  <2>2. /\ tail \in Seq(Orders) /\ Len(tail) = m - n
        /\ \A i \in 1..(m - n) : tail[i] = claimed[n + i]
    BY <1>1, RestOfSequence
  <2> HIDE DEF front, tail, n
  <2> DEFINE s == front \o tail
  <2>3. /\ s \in Seq(Orders) /\ Len(s) = n + (m - n)
        /\ \A i \in 1..(n + (m - n)) : s[i] = IF i <= n THEN front[i] ELSE tail[i - n]
    BY <2>1, <2>2, ConcatProperties
  <2> HIDE DEF s
  <2>4. \A i \in 1..m : s[i] = claimed[i]
    <3> TAKE i \in 1..m
    <3>0. i \in 1..(n + (m - n))  BY <1>1
    <3>1. CASE i <= n
      <4>1. i \in 1..n  BY <1>1, <3>1
      <4> QED  BY <2>1, <2>3, <3>0, <3>1, <4>1
    <3>2. CASE ~ (i <= n)
      <4>1. i - n \in 1..(m - n) /\ n + (i - n) = i  BY <1>1, <3>2
      <4> QED  BY <2>2, <2>3, <3>0, <3>2, <4>1
    <3> QED  BY <3>1, <3>2
  <2>5. Len(s) = m  BY <1>1, <2>3
  <2>6. s = claimed  BY <1>1, <2>3, <2>4, <2>5, SeqEqual
  <2> QED  BY <2>1, <2>2, <2>6 DEF s
<1> HIDE DEF front, tail
<1>4. Quantity(claimed) = Quantity(front) + Quantity(tail)
  BY <1>3, OrdersCountable, QuantityConcat
<1>5. Quantity(front) = Total(bids \o asks) + 2 * matched.traded  BY <1>2 DEF Filled
<1>6. bids \in Seq(PriceLevel) /\ asks \in Seq(PriceLevel)
  BY DEF BookInv, SideOK, Sides, Levels
<1>7. Pipe!Resting = Total(bids \o asks) /\ Total(bids \o asks) \in Nat
  <2>1. bids \o asks \in Seq(PriceLevel)  BY <1>6
  <2> QED  BY <1>6, <2>1, SameResting, TotalConcat
<1>8. Quantity(tail) \in Nat  BY <1>3, OrdersCountable, QuantityType
<1>9. matched.traded \in Nat  BY DEF Filled
<1>10. Quantity(claimed) = Quantity(tail) + Pipe!Resting + 2 * matched.traded
  <2> DEFINE x == Pipe!Resting
             y == matched.traded
             z == Quantity(tail)
  <2>1. /\ x \in Nat /\ y \in Nat /\ z \in Nat /\ Quantity(claimed) = (x + 2 * y) + z
    BY <1>4, <1>5, <1>7, <1>8, <1>9
  <2> HIDE DEF x, y, z
  <2>2. Quantity(claimed) = z + x + 2 * y  BY <2>1
  <2> QED  BY <2>2 DEF x, y, z
<1> QED  BY <1>10, SameSum DEF Pipe!QuantityConserved, tail, n, m
-----------------------------------------------------------------------------
\* No quantity is lost or made between the threads that push orders and the book: as long
\* as no call of add_order failed, and where a side has room for a level of every price, what
\* the orders pushed ask for is on its way, or rests, or was traded, by a taker and by a maker
\* (concurrent_order_book_benches.cpp:15-57).  That the book gets the orders in the order of
\* their positions is the theorem BookFollowsTheRing of PipelineProofs.
THEOREM PipelineConservesQuantity ==
    RolesApart /\ PricesFit =>
       (Pipe!PipelineSpec /\ []Pipe!MatchedInOrder /\ [](reply.error = "none")
           => []Pipe!QuantityConserved)
<1> SUFFICES ASSUME RolesApart, PricesFit
             PROVE  Pipe!PipelineSpec /\ []Pipe!MatchedInOrder /\ [](reply.error = "none")
                       => []Pipe!QuantityConserved
  OBVIOUS
<1>1. Supplied /\ [Pipe!PipelineNext]_(Pipe!pipeline) => Supplied'  BY SuppliedStep
<1>2. Supplied /\ BookInv /\ Filled /\ (reply.error = "none")' /\ (Pipe!MatchedInOrder)'
         /\ [Pipe!PipelineNext]_(Pipe!pipeline) => BookInv' /\ Filled'
  BY FilledStep
<1> QED
  BY <1>1, <1>2, SuppliedInit, FilledInit, FilledConserves, PTL DEF Pipe!PipelineSpec
=============================================================================
