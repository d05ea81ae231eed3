------------------------- MODULE EngineParityProofs -------------------------
(***************************************************************************)
(* What TLAPS proves of EngineParity, for all lines, orders, prices and     *)
(* limits: the two engines keep the same book as long as both acknowledge   *)
(* what they are sent.                                                      *)
(***************************************************************************)
EXTENDS EngineParity, OrderBookProofs

-----------------------------------------------------------------------------
(* Cents *)

\* No two of these prices fall on the same cent.
Distinct(prices) == \A p, q \in prices : Rust!Cents(p) = Rust!Cents(q) => p = q

\* What the cents are: the quotient, or one less for a half cent that does not go up.
Quotient(p) == (2 * p + Grain) \div (2 * Grain)

LEMMA QuotientType ==
    ASSUME NEW p \in Nat
    PROVE  /\ Quotient(p) \in Nat
           /\ Rust!HalfCent(p) => Quotient(p) >= 1 /\ 2 * p + Grain = 2 * Grain * Quotient(p)
           /\ Rust!Cents(p) = IF Rust!HalfCent(p) /\ p \notin RoundsUp
                              THEN Quotient(p) - 1 ELSE Quotient(p)
           /\ Printed(p) = IF Rust!HalfCent(p) /\ p \notin PrintsUp
                           THEN Quotient(p) - 1 ELSE Quotient(p)
<1>1. Grain \in Nat /\ Grain > 0 /\ 2 * p + Grain \in Int /\ 2 * Grain \in Nat \ {0}
  BY GrainAssumption
<1> DEFINE a == 2 * p + Grain
           d == 2 * Grain
<1>2. a > 0 /\ a \in Int /\ d \in Nat \ {0}  BY <1>1
<1>3. (Rust!HalfCent(p) <=> a % d = 0) /\ Quotient(p) = a \div d
  BY DEF Rust!HalfCent, Quotient
<1> HIDE DEF a, d
<1>4. a % d \in 0..(d - 1) /\ a \div d \in Int /\ a = d * (a \div d) + (a % d)
  BY <1>2, Remainder
<1> DEFINE x == a \div d
           r == a % d
<1> HIDE DEF x, r
<1>5. x \in Int /\ r \in 0..(d - 1) /\ a = d * x + r  BY <1>4 DEF x, r
<1>6. x >= 0
  <2>1. SUFFICES ASSUME x <= -1 PROVE FALSE  BY <1>5
  <2>2. d * x <= -d  BY <1>2, <1>5, <2>1
  <2> QED  BY <1>2, <1>5, <2>2
<1>7. r = 0 => x >= 1 /\ a = d * x
  <2>1. x = 0 => d * x = 0  BY <1>2
  <2> QED  BY <1>2, <1>5, <1>6, <2>1
<1>8. Quotient(p) \in Nat  BY <1>3, <1>5, <1>6 DEF x
<1>9. Rust!HalfCent(p) => Quotient(p) >= 1 /\ a = d * Quotient(p)
  BY <1>3, <1>7 DEF x, r
<1> QED  BY <1>8, <1>9 DEF a, d, Rust!Cents, Printed, Rust!Nearest, Quotient

LEMMA CentsType == ASSUME NEW p \in Nat PROVE Rust!Cents(p) \in Nat
BY QuotientType

LEMMA CentsGrow ==
    ASSUME NEW p \in Nat, NEW q \in Nat, p <= q
    PROVE  Rust!Cents(p) <= Rust!Cents(q)
<1> DEFINE a == 2 * p + Grain
           b == 2 * q + Grain
           d == 2 * Grain
<1>1. a \in Int /\ b \in Int /\ (p < q => a < b) /\ d \in Nat \ {0}  BY GrainAssumption
<1>2. Quotient(p) = a \div d /\ Quotient(q) = b \div d  BY DEF Quotient
<1>3. Rust!HalfCent(q) => b = d * Quotient(q)  BY QuotientType
<1> HIDE DEF a, b, d
<1> DEFINE x == Quotient(p)
           y == Quotient(q)
           r == a % d
           s == b % d
<1>4. r \in 0..(d - 1) /\ x \in Int /\ a = d * x + r  BY <1>1, <1>2, Remainder
<1>5. s \in 0..(d - 1) /\ y \in Int /\ b = d * y + s  BY <1>1, <1>2, Remainder
<1> HIDE DEF r, s
<1>6. ASSUME p < q PROVE x <= y
  <2> HIDE DEF x, y
  <2>1. SUFFICES ASSUME x >= y + 1 PROVE FALSE  BY <1>4, <1>5
  <2>2. d * x >= d * y + d  BY <1>1, <1>4, <1>5, <2>1
  <2> QED  BY <1>1, <1>4, <1>5, <1>6, <2>2
<1>7. ASSUME p < q, Rust!HalfCent(q) PROVE x <= y - 1
  <2>1. b = d * y  BY <1>3, <1>7
  <2> HIDE DEF x, y
  <2>2. SUFFICES ASSUME x >= y PROVE FALSE  BY <1>4, <1>5
  <2>3. d * x >= d * y  BY <1>1, <1>4, <1>5, <2>2
  <2> QED  BY <1>1, <1>4, <1>7, <2>1, <2>3
<1>8. CASE p = q  BY <1>8, CentsType
<1>9. CASE p < q
  <2>1. /\ x \in Nat /\ y \in Nat /\ Rust!Cents(p) \in {x, x - 1}
        /\ Rust!Cents(q) = y \/ (Rust!HalfCent(q) /\ Rust!Cents(q) = y - 1)
    BY QuotientType
  <2> HIDE DEF x, y
  <2>2. Rust!Cents(p) <= x /\ Rust!Cents(p) \in Int  BY <2>1
  <2> QED  BY <1>6, <1>7, <1>9, <2>1, <2>2
<1> QED  BY <1>8, <1>9

\* The C++ engine prints the cent of the Rust engine, or half a cent a cent lower.
LEMMA PrintedNear ==
    ASSUME NEW p \in Nat
    PROVE  \/ Printed(p) = Rust!Cents(p)
           \/ Rust!HalfCent(p) /\ Printed(p) = Rust!Cents(p) - 1
BY QuotientType, HalvesAssumption

\* Prices that fall on different cents are in the order of their cents.
LEMMA CentsOrdered ==
    ASSUME NEW prices, prices \subseteq Nat, Distinct(prices),
           NEW p \in prices, NEW q \in prices, NEW side
    PROVE  Better(side, p, q) <=> Rust!Better(side, Rust!Cents(p), Rust!Cents(q))
<1>1. p \in Nat /\ q \in Nat /\ Rust!Cents(p) \in Nat /\ Rust!Cents(q) \in Nat  BY CentsType
<1>2. p <= q => Rust!Cents(p) <= Rust!Cents(q)  BY <1>1, CentsGrow
<1>3. q <= p => Rust!Cents(q) <= Rust!Cents(p)  BY <1>1, CentsGrow
<1>4. Rust!Cents(p) = Rust!Cents(q) => p = q  BY DEF Distinct
<1> DEFINE a == Rust!Cents(p)
           b == Rust!Cents(q)
<1>5. /\ Better(side, p, q) <=> IF side = "buy" THEN p > q ELSE p < q
      /\ Rust!Better(side, a, b) <=> IF side = "buy" THEN a > b ELSE a < b
  BY DEF Better, Rust!Better
<1> HIDE DEF a, b
<1>6. a \in Nat /\ b \in Nat /\ (p <= q => a <= b) /\ (q <= p => b <= a) /\ (a = b => p = q)
  BY <1>1, <1>2, <1>3, <1>4 DEF a, b
<1>7. (p > q <=> a > b) /\ (p < q <=> a < b)  BY <1>1, <1>6
<1>8. Better(side, p, q) <=> Rust!Better(side, a, b)
  <2>1. CASE side = "buy"
    <3>1. (Better(side, p, q) <=> p > q) /\ (Rust!Better(side, a, b) <=> a > b)
      BY <1>5, <2>1
    <3> QED  BY <1>7, <3>1
  <2>2. CASE side # "buy"
    <3>1. (Better(side, p, q) <=> p < q) /\ (Rust!Better(side, a, b) <=> a < b)
      BY <1>5, <2>2
    <3> QED  BY <1>7, <3>1
  <2> QED  BY <2>1, <2>2
<1> QED  BY <1>8 DEF a, b

LEMMA SameOpposite == \A side : Rust!Opposite(side) = Opposite(side)
  BY DEF Rust!Opposite, Opposite

LEMMA SameCardinality == \A s : Rust!Cardinality(s) = Cardinality(s)
  BY DEF Rust!Cardinality, Cardinality

LEMMA SameMin == \A s : Rust!Min(s) = Min(s)
  BY DEF Rust!Min, Min

\* The prices of a map in their order: there is one such sequence.
InOrder(side, s) == \A i, j \in DOMAIN s : i < j => Rust!Better(side, s[i], s[j])

LEMMA OneOrder ==
    ASSUME NEW side, NEW n \in Nat, NEW prices, prices \subseteq Nat,
           NEW s \in [1..n -> prices], InOrder(side, s), \A p \in prices : \E i \in 1..n : s[i] = p,
           NEW t \in [1..n -> prices], InOrder(side, t)
    PROVE  s = t
<1>1. \A i \in 1..n : \E j \in 1..n : s[j] = t[i]  OBVIOUS
<1> DEFINE place == [i \in 1..n |-> CHOOSE j \in 1..n : s[j] = t[i]]
<1>2. ASSUME NEW i \in 1..n PROVE place[i] \in 1..n /\ s[place[i]] = t[i]
  BY <1>1
<1> HIDE DEF place
<1>3. ASSUME NEW i \in 1..n, NEW j \in 1..n, i < j PROVE place[i] < place[j]
  <2>1. /\ s[place[i]] \in Nat /\ s[place[j]] \in Nat
        /\ place[i] \in 1..n /\ place[j] \in 1..n
    BY <1>2
  <2>2. Rust!Better(side, s[place[i]], s[place[j]])  BY <1>2, <1>3 DEF InOrder
  <2>3. SUFFICES ASSUME place[j] <= place[i] PROVE FALSE  BY <2>1
  <2>4. CASE place[i] = place[j]  BY <2>1, <2>2, <2>4 DEF Rust!Better
  <2>5. CASE place[j] < place[i]
    <3>1. Rust!Better(side, s[place[j]], s[place[i]])  BY <2>1, <2>5 DEF InOrder
    <3> QED  BY <3>1, <2>1, <2>2 DEF Rust!Better
  <2> QED  BY <2>1, <2>3, <2>4, <2>5
<1> DEFINE Up == {k \in 0..n : k > 0 => place[k] >= k}
           Down == {k \in 0..n : k < n => place[n - k] <= n - k}
<1>4. 0..n \subseteq Up
  <2>1. 0 \in Up  OBVIOUS
  <2>2. ASSUME NEW k \in Up \cap (0..(n - 1)) PROVE k + 1 \in Up
    <3>1. k + 1 \in 1..n  OBVIOUS
    <3>2. place[k + 1] \in 1..n  BY <3>1, <1>2
    <3>3. CASE k = 0  BY <3>1, <3>2, <3>3
    <3>4. CASE k > 0
      <4>1. k \in 1..n /\ place[k] \in 1..n /\ place[k] >= k  BY <3>4, <1>2
      <4>2. place[k] < place[k + 1]  BY <4>1, <3>1, <1>3
      <4> QED  BY <4>1, <4>2, <3>1, <3>2
    <3> QED  BY <3>3, <3>4
  <2> HIDE DEF Up
  <2> QED  BY <2>1, <2>2, UpTo
<1>5. 0..n \subseteq Down
  <2>1. 0 \in Down
    <3>1. n > 0 => n \in 1..n  OBVIOUS
    <3> QED  BY <3>1, <1>2
  <2>2. ASSUME NEW k \in Down \cap (0..(n - 1)) PROVE k + 1 \in Down
    <3>1. SUFFICES ASSUME k + 1 < n PROVE place[n - (k + 1)] <= n - (k + 1)  OBVIOUS
    <3>2. n - k \in 1..n /\ n - (k + 1) \in 1..n /\ n - (k + 1) < n - k  BY <3>1
    <3>3. place[n - k] <= n - k  OBVIOUS
    <3>4. place[n - (k + 1)] < place[n - k]  BY <3>2, <1>3
    <3>5. place[n - k] \in 1..n /\ place[n - (k + 1)] \in 1..n  BY <3>2, <1>2
    <3> QED  BY <3>2, <3>3, <3>4, <3>5
  <2> HIDE DEF Down
  <2> QED  BY <2>1, <2>2, UpTo
<1>6. ASSUME NEW i \in 1..n PROVE s[i] = t[i]
  <2>1. i \in Up /\ n - i \in Down  BY <1>4, <1>5
  <2>2. n - i < n /\ n - (n - i) = i  OBVIOUS
  <2>3. place[i] >= i /\ place[i] <= i  BY <2>1, <2>2
  <2>4. place[i] \in 1..n  BY <1>2
  <2>5. place[i] = i  BY <2>3, <2>4
  <2> QED  BY <2>5, <1>2
<1> QED  BY <1>6

Walks(side, n, prices, s) ==
    /\ n \in Nat /\ prices \subseteq Nat /\ s \in [1..n -> prices] /\ InOrder(side, s)
    /\ \A p \in prices : \E i \in 1..n : s[i] = p

LEMMA InPriorityIs ==
    ASSUME NEW side, NEW n, NEW prices, NEW s, Walks(side, n, prices, s)
    PROVE  Rust!InPriority(side, prices) = s
<1>0. /\ n \in Nat /\ prices \subseteq Nat /\ s \in [1..n -> prices] /\ InOrder(side, s)
      /\ \A p \in prices : \E i \in 1..n : s[i] = p
  BY DEF Walks
<1>1. ASSUME NEW i \in 1..n, NEW j \in 1..n, s[i] = s[j] PROVE i = j
  <2>1. s[i] \in Nat  BY <1>0
  <2>2. ~ Rust!Better(side, s[i], s[j]) /\ ~ Rust!Better(side, s[j], s[i])
    BY <2>1, <1>1 DEF Rust!Better
  <2>3. ~ (i < j) /\ ~ (j < i)  BY <1>0, <2>2 DEF InOrder
  <2> QED  BY <1>0, <2>3
<1>2. s \in Bijection(1..n, prices)
  BY <1>0, <1>1 DEF Bijection, Injection, Surjection, IsInjective
<1>3. Cardinality(prices) = n
  <2>1. 1 \in Int /\ n \in Int  BY <1>0
  <2>2. IsFiniteSet(1..n) /\ Cardinality(1..n) = n  BY <1>0, <2>1, FS_Interval
  <2> QED  BY <1>2, <2>2, FS_Bijection DEF ExistsBijection
<1>4. Rust!InPriority(side, prices) =
        CHOOSE t \in [1..n -> prices] : \A i, j \in DOMAIN t : i < j => Rust!Better(side, t[i], t[j])
  BY <1>3, SameCardinality DEF Rust!InPriority
<1>5. Rust!InPriority(side, prices) = CHOOSE t \in [1..n -> prices] : InOrder(side, t)
  BY <1>4 DEF InOrder
<1>6. \A t \in [1..n -> prices] : InOrder(side, t) => t = s  BY <1>0, OneOrder
<1> QED  BY <1>0, <1>5, <1>6
-----------------------------------------------------------------------------
(* Nodes, levels and trades of the C++ book as the Rust book has them *)

AsNode(node) == [order_id |-> node.order_id, quantity |-> node.quantity]
AsNodes(orders) == [j \in 1..Len(orders) |-> AsNode(orders[j])]
AsLevel(level) == [total_quantity |-> level.total_quantity, orders |-> AsNodes(level.orders)]
InCents(trade) == [trade EXCEPT !.price = Rust!Cents(@)]
Cented(trades) == [k \in 1..Len(trades) |-> InCents(trades[k])]

RustNode == [order_id : OrderIds, quantity : Remaining]
RustTrade == [maker : OrderIds, quantity : Nat, price : Nat]

LEMMA NodesMirrored ==
    /\ AsNodes(<<>>) = <<>> /\ Cented(<<>>) = <<>>
    /\ \A x \in OrderNode : AsNode(x) \in RustNode
    /\ \A x \in TradeReport : InCents(x) \in RustTrade
<1>1. ASSUME NEW x \in OrderNode PROVE AsNode(x) \in RustNode
  BY DEF AsNode, RustNode, OrderNode, Remaining
<1>2. ASSUME NEW x \in TradeReport PROVE InCents(x) \in RustTrade
  <2>1. x.price \in Nat  BY PricesAssumption DEF TradeReport
  <2>2. Rust!Cents(x.price) \in Nat  BY <2>1, CentsType
  <2> QED  BY <2>2 DEF InCents, RustTrade, TradeReport
<1> QED  BY <1>1, <1>2 DEF AsNodes, Cented

LEMMA AsNodesType ==
    ASSUME NEW s \in Seq(OrderNode)
    PROVE  AsNodes(s) \in Seq(RustNode) /\ Len(AsNodes(s)) = Len(s)
<1>1. Len(s) \in Nat /\ \A j \in 1..Len(s) : s[j] \in OrderNode  OBVIOUS
<1>2. \A j \in 1..Len(s) : AsNode(s[j]) \in RustNode  BY <1>1, NodesMirrored
<1>3. AsNodes(s) \in [1..Len(s) -> RustNode]  BY <1>2 DEF AsNodes
<1> QED  BY <1>1, <1>3

LEMMA CentedType ==
    ASSUME NEW s \in Seq(TradeReport)
    PROVE  Cented(s) \in Seq(RustTrade) /\ Len(Cented(s)) = Len(s)
<1>1. Len(s) \in Nat /\ \A j \in 1..Len(s) : s[j] \in TradeReport  OBVIOUS
<1>2. \A j \in 1..Len(s) : InCents(s[j]) \in RustTrade  BY <1>1, NodesMirrored
<1>3. Cented(s) \in [1..Len(s) -> RustTrade]  BY <1>2 DEF Cented
<1> QED  BY <1>1, <1>3

LEMMA AsNodesAppend ==
    ASSUME NEW s \in Seq(OrderNode), NEW x \in OrderNode
    PROVE  AsNodes(Append(s, x)) = Append(AsNodes(s), AsNode(x))
<1> DEFINE n == Len(s)
           a == AsNodes(Append(s, x))
           b == Append(AsNodes(s), AsNode(x))
<1>1. n \in Nat /\ Append(s, x) \in Seq(OrderNode) /\ Len(Append(s, x)) = n + 1
  OBVIOUS
<1>2. a \in Seq(RustNode) /\ Len(a) = n + 1  BY <1>1, AsNodesType
<1>3. AsNodes(s) \in Seq(RustNode) /\ Len(AsNodes(s)) = n /\ AsNode(x) \in RustNode
  BY AsNodesType, NodesMirrored
<1>4. b \in Seq(RustNode) /\ Len(b) = n + 1  BY <1>3
<1>5. ASSUME NEW j \in 1..(n + 1) PROVE a[j] = b[j]
  <2>1. a[j] = AsNode(Append(s, x)[j])  BY <1>1 DEF AsNodes
  <2>2. CASE j = n + 1  BY <1>1, <1>3, <2>1, <2>2
  <2>3. CASE j \in 1..n
    <3>1. Append(s, x)[j] = s[j]  BY <2>3
    <3>2. b[j] = AsNodes(s)[j]  BY <1>3, <2>3
    <3> QED  BY <2>1, <2>3, <3>1, <3>2 DEF AsNodes
  <2>4. j = n + 1 \/ j \in 1..n  BY <1>1
  <2> QED  BY <2>2, <2>3, <2>4
<1> HIDE DEF a, b
<1>6. a = b  BY <1>1, <1>2, <1>4, <1>5
<1> QED  BY <1>6 DEF a, b

LEMMA CentedConcat ==
    ASSUME NEW s \in Seq(TradeReport), NEW t \in Seq(TradeReport)
    PROVE  Cented(s \o t) = Cented(s) \o Cented(t)
<1> DEFINE a == Cented(s \o t)
           b == Cented(s) \o Cented(t)
           m == Len(s)
           n == Len(t)
<1>1. m \in Nat /\ n \in Nat /\ s \o t \in Seq(TradeReport) /\ Len(s \o t) = m + n  OBVIOUS
<1>2. a \in Seq(RustTrade) /\ Len(a) = m + n  BY <1>1, CentedType
<1>3. /\ Cented(s) \in Seq(RustTrade) /\ Len(Cented(s)) = m
      /\ Cented(t) \in Seq(RustTrade) /\ Len(Cented(t)) = n
  BY CentedType
<1>4. b \in Seq(RustTrade) /\ Len(b) = m + n
  <2> DEFINE x == Cented(s)
             y == Cented(t)
  <2>1. x \in Seq(RustTrade) /\ Len(x) = m /\ y \in Seq(RustTrade) /\ Len(y) = n  BY <1>3
  <2> HIDE DEF x, y
  <2>2. x \o y \in Seq(RustTrade) /\ Len(x \o y) = Len(x) + Len(y)
    BY <2>1, ConcatProperties
  <2> QED  BY <2>1, <2>2 DEF x, y
<1>5. ASSUME NEW j \in 1..(m + n) PROVE a[j] = b[j]
  <2>1. a[j] = InCents((s \o t)[j])  BY <1>1 DEF Cented
  <2>2. CASE j \in 1..m
    <3>1. (s \o t)[j] = s[j] /\ b[j] = Cented(s)[j]  BY <1>1, <1>3, <2>2
    <3> QED  BY <2>1, <2>2, <3>1 DEF Cented
  <2>3. CASE j \in (m + 1)..(m + n)
    <3>1. (s \o t)[j] = t[j - m] /\ b[j] = Cented(t)[j - m] /\ j - m \in 1..n
      BY <1>1, <1>3, <2>3
    <3>2. Cented(t)[j - m] = InCents(t[j - m])  BY <3>1 DEF Cented
    <3> QED  BY <2>1, <3>1, <3>2
  <2>4. j \in 1..m \/ j \in (m + 1)..(m + n)  BY <1>1
  <2> QED  BY <2>2, <2>3, <2>4
<1> HIDE DEF a, b
<1>6. a = b  BY <1>1, <1>2, <1>4, <1>5
<1> QED  BY <1>6 DEF a, b

LEMMA CentedAppend ==
    ASSUME NEW s \in Seq(TradeReport), NEW x \in TradeReport
    PROVE  Cented(Append(s, x)) = Append(Cented(s), InCents(x))
<1>1. <<x>> \in Seq(TradeReport) /\ Append(s, x) = s \o <<x>>  OBVIOUS
<1>2. Cented(<<x>>) = <<InCents(x)>>
  <2>1. Len(<<x>>) = 1 /\ <<x>>[1] = x  OBVIOUS
  <2>2. 1..1 = {1}  OBVIOUS
  <2> QED  BY <2>1, <2>2 DEF Cented
<1>3. Cented(s) \in Seq(RustTrade) /\ InCents(x) \in RustTrade  BY CentedType, NodesMirrored
<1>4. Append(Cented(s), InCents(x)) = Cented(s) \o <<InCents(x)>>  BY <1>3
<1> QED  BY <1>1, <1>2, <1>4, CentedConcat

\* The survivors of a level, one maker at a time.
LEMMA MakersRun ==
    ASSUME NEW s \in Seq(OrderNode)
    PROVE  \E run \in [0..Len(s) -> Seq(OrderNode)] :
              /\ run[0] = <<>>
              /\ run[Len(s)] = Makers(FALSE, s)
              /\ \A k \in 1..Len(s) :
                    run[k] = IF s[k].quantity = 0 THEN run[k - 1] ELSE Append(run[k - 1], s[k])
<1>1. PICK filled \in BOOLEAN : filled = FALSE  OBVIOUS
<1>2. PICK run \in [0..Len(s) -> Seq(OrderNode)] :
         /\ run[0] = <<>>
         /\ run[Len(s)] = Makers(filled, s)
         /\ \A k \in 1..Len(s) :
               run[k] = IF (s[k].quantity = 0) = filled THEN Append(run[k - 1], s[k])
                        ELSE run[k - 1]
  BY MakersRuns
<1>3. ASSUME NEW k \in 1..Len(s)
      PROVE  run[k] = IF s[k].quantity = 0 THEN run[k - 1] ELSE Append(run[k - 1], s[k])
  BY <1>1, <1>2
<1> QED  BY <1>1, <1>2, <1>3

LEMMA MakersEmpty == Makers(FALSE, <<>>) = <<>>
<1> DEFINE s == <<>>
<1>1. s \in Seq(OrderNode) /\ Len(s) = 0  OBVIOUS
<1> HIDE DEF s
<1>2. PICK run \in [0..Len(s) -> Seq(OrderNode)] :
         run[0] = <<>> /\ run[Len(s)] = Makers(FALSE, s)
  BY <1>1, MakersRun
<1>3. Makers(FALSE, s) = <<>>  BY <1>1, <1>2
<1> QED  BY <1>3 DEF s

LEMMA MakersAppend ==
    ASSUME NEW s \in Seq(OrderNode), NEW x \in OrderNode
    PROVE  /\ Makers(FALSE, s) \in Seq(OrderNode)
           /\ Makers(FALSE, Append(s, x)) = IF x.quantity = 0 THEN Makers(FALSE, s)
                                            ELSE Append(Makers(FALSE, s), x)
<1> DEFINE t == Append(s, x)
           n == Len(s)
<1>1. n \in Nat /\ t \in Seq(OrderNode) /\ Len(t) = n + 1 /\ t[n + 1] = x
      /\ \A k \in 1..n : t[k] = s[k]
  OBVIOUS
<1>2. PICK f \in [0..n -> Seq(OrderNode)] :
         /\ f[0] = <<>> /\ f[n] = Makers(FALSE, s)
         /\ \A k \in 1..n : f[k] = IF s[k].quantity = 0 THEN f[k - 1] ELSE Append(f[k - 1], s[k])
  BY MakersRun
<1> HIDE DEF t
<1>3. PICK g \in [0..Len(t) -> Seq(OrderNode)] :
         /\ g[0] = <<>> /\ g[Len(t)] = Makers(FALSE, t)
         /\ \A k \in 1..Len(t) : g[k] = IF t[k].quantity = 0 THEN g[k - 1]
                                        ELSE Append(g[k - 1], t[k])
  BY <1>1, MakersRun
<1> DEFINE T == {k \in 0..n : f[k] = g[k]}
<1>4. 0..n \subseteq T
  <2>1. 0 \in T  BY <1>1, <1>2, <1>3
  <2>2. ASSUME NEW k \in T \cap (0..(n - 1)) PROVE k + 1 \in T
    <3>1. k + 1 \in 1..n /\ k + 1 \in 1..Len(t) /\ (k + 1) - 1 = k  BY <1>1
    <3>2. f[k] = g[k] /\ t[k + 1] = s[k + 1]  BY <1>1, <3>1
    <3>3. f[k + 1] = IF s[k + 1].quantity = 0 THEN f[k] ELSE Append(f[k], s[k + 1])
      BY <1>2, <3>1
    <3>4. g[k + 1] = IF t[k + 1].quantity = 0 THEN g[k] ELSE Append(g[k], t[k + 1])
      BY <1>3, <3>1
    <3>5. f[k + 1] = g[k + 1]  BY <3>2, <3>3, <3>4
    <3> QED  BY <3>1, <3>5, <1>1
  <2> HIDE DEF T
  <2> QED  BY <1>1, <2>1, <2>2, UpTo
<1>5. f[n] = g[n]  BY <1>1, <1>4
<1>6. n + 1 \in 1..Len(t) /\ (n + 1) - 1 = n /\ n \in 0..n  BY <1>1
<1>7. g[n + 1] = IF x.quantity = 0 THEN g[n] ELSE Append(g[n], x)
  BY <1>1, <1>3, <1>6
<1>8. g[n + 1] = Makers(FALSE, t) /\ f[n] = Makers(FALSE, s) /\ f[n] \in Seq(OrderNode)
  BY <1>1, <1>2, <1>3, <1>6
<1>9. Makers(FALSE, t) = IF x.quantity = 0 THEN Makers(FALSE, s)
                         ELSE Append(Makers(FALSE, s), x)
  BY <1>5, <1>7, <1>8
<1> QED  BY <1>8, <1>9 DEF t
-----------------------------------------------------------------------------
(* One level *)

\* The fold over the makers of a level in the Rust book.
RustMakersState == [left : Remaining, trades : Seq(RustTrade), total : Remaining,
                    orders : Seq(RustNode)]
RustMakers(price, base, orders) ==
    Rust!FoldLeft(LAMBDA a, maker : Rust!MatchMaker(price, a, maker), base, orders)

LEMMA RustMakerType ==
    ASSUME NEW price \in Nat, NEW a \in RustMakersState, NEW maker \in RustNode
    PROVE  Rust!MatchMaker(price, a, maker) \in RustMakersState
<1> DEFINE q == Min({a.left, maker.quantity})
           after == [maker EXCEPT !.quantity = @ - q]
           trade == [maker |-> maker.order_id, quantity |-> q, price |-> price]
           r == Rust!MatchMaker(price, a, maker)
<1>0. QuantityModulus \in Nat /\ QuantityModulus > 0  BY QuantitiesAssumption
<1>1. /\ a.left \in Nat /\ a.left < QuantityModulus /\ a.total \in Int
      /\ maker.quantity \in Nat /\ maker.quantity < QuantityModulus
      /\ a.trades \in Seq(RustTrade) /\ a.orders \in Seq(RustNode)
  BY <1>0 DEF RustMakersState, Remaining, RustNode
<1>2. q \in Nat /\ q = IF a.left <= maker.quantity THEN a.left ELSE maker.quantity
  BY <1>1, MinOfTwo
<1>3. Rust!Min({a.left, maker.quantity}) = q  BY SameMin
<1> HIDE DEF q
<1>4. a.left - q \in Remaining /\ maker.quantity - q \in Remaining
  BY <1>0, <1>1, <1>2 DEF Remaining
<1>5. after \in RustNode  BY <1>4 DEF RustNode
<1>6. trade \in RustTrade  BY <1>2 DEF RustTrade, RustNode
<1>7. (a.total - q) % QuantityModulus \in Remaining
  <2>1. a.total - q \in Int  BY <1>1, <1>2
  <2> QED  BY <2>1, QuantitiesAssumption, Remainder DEF Remaining
<1>8. r = IF a.left = 0 THEN [a EXCEPT !.orders = Append(@, maker)]
          ELSE [a EXCEPT !.left = @ - q, !.total = (@ - q) % QuantityModulus,
                         !.orders = IF after.quantity > 0 THEN Append(@, after) ELSE @,
                         !.trades = Append(@, trade)]
  BY <1>3 DEF Rust!MatchMaker
<1> HIDE DEF after, trade, r
<1>9. /\ Append(a.orders, maker) \in Seq(RustNode) /\ Append(a.orders, after) \in Seq(RustNode)
      /\ Append(a.trades, trade) \in Seq(RustTrade)
  BY <1>1, <1>5, <1>6
<1>10. r \in RustMakersState
  <2>1. CASE a.left = 0  BY <2>1, <1>8, <1>9 DEF RustMakersState
  <2>2. CASE a.left # 0  BY <2>2, <1>4, <1>7, <1>8, <1>9 DEF RustMakersState
  <2> QED  BY <2>1, <2>2
<1> QED  BY <1>10 DEF r

LEMMA RustMakersRun ==
    ASSUME NEW price \in Nat, NEW base \in RustMakersState, NEW s \in Seq(RustNode)
    PROVE  \E run \in [0..Len(s) -> RustMakersState] :
              /\ run[0] = base
              /\ run[Len(s)] = RustMakers(price, base, s)
              /\ \A k \in 1..Len(s) : run[k] = Rust!MatchMaker(price, run[k - 1], s[k])
<1> DEFINE S == RustMakersState
           n == Len(s)
           next(a, k) == Rust!MatchMaker(price, a, s[k])
           step == [k \in 1..n |-> [a \in S |-> next(a, k)]]
           G(iter) == [t \in SUBSET (DOMAIN s) |->
                          IF t = {} THEN base ELSE next(iter[t \ {Max(t)}], Max(t))]
<1>1. n \in Nat /\ DOMAIN s = 1..n /\ base \in S  OBVIOUS
<1>2. RustMakers(price, base, s) = (CHOOSE iter : iter = G(iter))[DOMAIN s]
  BY DEF RustMakers, Rust!FoldLeft, Rust!MapThenFoldSet, Rust!Max, Max
<1>3. ASSUME NEW k \in 1..n, NEW a \in S
      PROVE  next(a, k) \in S /\ step[k][a] = next(a, k)
  <2>1. s[k] \in RustNode  BY <1>1
  <2>2. next(a, k) \in S  BY <2>1, RustMakerType
  <2> HIDE DEF next
  <2> QED  BY <2>2
<1>4. step \in [1..n -> [S -> S]]
  <2> HIDE DEF next
  <2> QED  BY <1>3
<1> HIDE DEF step, next, S
<1>5. \E iter : iter = G(iter)
  <2>1. PICK iter \in [SUBSET (1..n) -> S] : iter = FoldEquation(n, base, step, iter)
    <3>1. PICK iter : Folds(n, S, base, step, iter)  BY <1>1, <1>4, FoldExists
    <3> QED  BY <3>1 DEF Folds
  <2> DEFINE E == FoldEquation(n, base, step, iter)
  <2>2. ASSUME NEW t \in SUBSET (1..n) PROVE E[t] = G(iter)[t]
    <3>1. CASE t = {}  BY <1>1, <3>1 DEF FoldEquation
    <3>2. CASE t # {}
      <4>1. Max(t) \in 1..n  BY <3>2, <1>1, GreatestNumber
      <4>2. iter[t \ {Max(t)}] \in S  OBVIOUS
      <4>3. E[t] = step[Max(t)][iter[t \ {Max(t)}]]  BY <3>2 DEF FoldEquation
      <4>4. step[Max(t)][iter[t \ {Max(t)}]] = next(iter[t \ {Max(t)}], Max(t))
        BY <4>1, <4>2, <1>3
      <4> QED  BY <4>3, <4>4, <3>2, <1>1
    <3> QED  BY <3>1, <3>2
  <2>3. E = G(iter)
    <3>1. E = [t \in SUBSET (1..n) |-> E[t]]  BY DEF FoldEquation
    <3>2. G(iter) = [t \in SUBSET (1..n) |-> G(iter)[t]]  BY <1>1
    <3> HIDE DEF E, G
    <3> QED  BY <2>2, <3>1, <3>2
  <2> QED  BY <2>1, <2>3
<1> DEFINE J == CHOOSE iter : iter = G(iter)
<1>6. J = G(J)  BY <1>5
<1>7. Unfolds(n, S, base, step, J)
  <2>1. G(J)[{}] = base  OBVIOUS
  <2>2. ASSUME NEW t \in SUBSET (1..n), t # {}, J[t \ {Max(t)}] \in S
        PROVE  G(J)[t] = step[Max(t)][J[t \ {Max(t)}]]
    <3>1. Max(t) \in 1..n  BY <2>2, <1>1, GreatestNumber
    <3>2. G(J)[t] = next(J[t \ {Max(t)}], Max(t))  BY <1>1, <2>2
    <3> HIDE DEF J
    <3> QED  BY <2>2, <3>1, <3>2, <1>3
  <2> HIDE DEF J, G
  <2> QED  BY <2>1, <2>2, <1>6 DEF Unfolds
<1>8. PICK run : Runs(n, S, base, step, J[1..n], run)
  <2> HIDE DEF J, n
  <2> QED  BY <1>1, <1>4, <1>7, FoldRuns
<1>9. ASSUME NEW k \in 1..n PROVE run[k] = next(run[k - 1], k)
  <2>1. k - 1 \in 0..n  BY <1>1
  <2>2. run[k - 1] \in S  BY <2>1, <1>8 DEF Runs
  <2> QED  BY <2>2, <1>3, <1>8 DEF Runs
<1>10. run \in [0..n -> S] /\ run[0] = base /\ run[n] = RustMakers(price, base, s)
  BY <1>1, <1>2, <1>8 DEF Runs, J
<1> QED  BY <1>9, <1>10 DEF next, S

\* Among the makers of a level, the Rust book is where the C++ book is.
Alike(a, b) ==
    /\ b.left = a.left /\ b.total = a.total
    /\ b.trades = Cented(a.trades)
    /\ b.orders = AsNodes(Makers(FALSE, a.orders))

LEMMA MakerAlike ==
    ASSUME NEW taker, NEW price \in Prices, NEW a \in Within,
           NEW maker \in OrderNode, maker.quantity > 0,
           NEW b \in RustMakersState, Alike(a, b),
           NEW r, r = MatchMaker(taker, price, a, maker), ~ r.overflow,
           NEW x, x = Rust!MatchMaker(Rust!Cents(price), b, AsNode(maker))
    PROVE  ~ a.overflow /\ Alike(r, x)
<1> DEFINE q == Min({a.left, maker.quantity})
           after == [maker EXCEPT !.quantity = @ - q]
           trade == [maker |-> maker.order_id, quantity |-> q, price |-> price]
           c == Rust!Cents(price)
           rustTrade == [maker |-> maker.order_id, quantity |-> q, price |-> c]
           rustMaker == AsNode(maker)
           rustAfter == [rustMaker EXCEPT !.quantity = @ - q]
           kept == Makers(FALSE, a.orders)
<1>0. QuantityModulus \in Nat /\ QuantityModulus > 0  BY QuantitiesAssumption
<1>1. /\ a.left \in Nat /\ a.left < QuantityModulus /\ a.overflow \in BOOLEAN
      /\ maker.quantity \in Nat /\ maker.quantity < QuantityModulus
      /\ a.trades \in Seq(TradeReport) /\ a.orders \in Seq(OrderNode)
      /\ maker.order_id \in OrderIds /\ a \in MakersState
  BY <1>0 DEF Within, MakersState, Remaining, OrderNode
<1>2. q \in Nat /\ q = IF a.left <= maker.quantity THEN a.left ELSE maker.quantity
  BY <1>1, MinOfTwo
<1>3. /\ rustMaker.order_id = maker.order_id /\ rustMaker.quantity = maker.quantity
      /\ b.left = a.left
  BY DEF AsNode, Alike
<1>4. Rust!Min({b.left, rustMaker.quantity}) = q  BY <1>3, SameMin
<1> HIDE DEF q
<1>5. after \in OrderNode /\ after.quantity = maker.quantity - q
  <2>1. maker.quantity - q \in 0..(QuantityModulus - 1)  BY <1>0, <1>1, <1>2
  <2> QED  BY <2>1 DEF OrderNode
<1>6. rustAfter = AsNode(after) /\ rustAfter.quantity = maker.quantity - q
  BY DEF AsNode, OrderNode
<1>7. trade \in TradeReport /\ InCents(trade) = rustTrade
  BY <1>1, <1>2 DEF TradeReport, InCents
<1>8. x = IF b.left = 0 THEN [b EXCEPT !.orders = Append(@, rustMaker)]
          ELSE [b EXCEPT !.left = @ - q, !.total = (@ - q) % QuantityModulus,
                         !.orders = IF rustAfter.quantity > 0 THEN Append(@, rustAfter) ELSE @,
                         !.trades = Append(@, rustTrade)]
  BY <1>3, <1>4 DEF Rust!MatchMaker
<1>9. /\ kept \in Seq(OrderNode)
      /\ Makers(FALSE, Append(a.orders, maker)) = Append(kept, maker)
      /\ Makers(FALSE, Append(a.orders, after))
            = IF after.quantity = 0 THEN kept ELSE Append(kept, after)
  <2> DEFINE orders == a.orders
  <2>1. orders \in Seq(OrderNode) /\ maker.quantity # 0  BY <1>1
  <2> HIDE DEF orders, after
  <2> QED  BY <1>5, <2>1, MakersAppend DEF orders
<1> HIDE DEF kept, after, rustMaker, rustAfter, trade, rustTrade, c
<1>10. ~ a.overflow
  <2>1. SUFFICES ASSUME a.overflow PROVE FALSE  OBVIOUS
  <2>2. r = [a EXCEPT !.orders = Append(@, maker)]  BY <2>1 DEF MatchMaker, Pass
  <2> QED  BY <2>1, <2>2, <1>1 DEF MakersState
<1>11. CASE a.left = 0
  <2>1. r = [a EXCEPT !.orders = Append(@, maker)]  BY <1>11 DEF MatchMaker, Pass
  <2>2. x = [b EXCEPT !.orders = Append(@, rustMaker)]  BY <1>3, <1>8, <1>11
  <2>3. /\ r.left = a.left /\ r.total = a.total /\ r.trades = a.trades
        /\ r.orders = Append(a.orders, maker)
    BY <2>1, <1>1 DEF MakersState
  <2>4. /\ x.left = b.left /\ x.total = b.total /\ x.trades = b.trades
        /\ x.orders = Append(b.orders, rustMaker)
    BY <2>2 DEF RustMakersState
  <2>5. AsNodes(Append(kept, maker)) = Append(AsNodes(kept), rustMaker)
    BY <1>9, AsNodesAppend DEF rustMaker
  <2> QED  BY <1>9, <1>10, <2>3, <2>4, <2>5 DEF Alike, kept
<1>12. CASE a.left # 0
  <2>1. Len(a.trades) # MaxTradesPerOrder
    <3>1. SUFFICES ASSUME Len(a.trades) = MaxTradesPerOrder PROVE FALSE  OBVIOUS
    <3>2. r = [[a EXCEPT !.orders = Append(@, maker)] EXCEPT !.overflow = TRUE]
      BY <1>1, <1>10, <1>12, <3>1 DEF MatchMaker, Pass
    <3> QED  BY <3>2, <1>1 DEF MakersState
  <2>2. r = [[a EXCEPT !.orders = Append(@, after)] EXCEPT
               !.left = @ - q, !.total = (@ - q) % QuantityModulus, !.trades = Append(@, trade)]
    BY <1>1, <1>10, <1>12, <2>1 DEF MatchMaker, Trade, Pass, q, after, trade
  <2>3. /\ r.left = a.left - q /\ r.total = (a.total - q) % QuantityModulus
        /\ r.trades = Append(a.trades, trade) /\ r.orders = Append(a.orders, after)
    BY <2>2, <1>1 DEF MakersState
  <2>4. /\ x.left = b.left - q /\ x.total = (b.total - q) % QuantityModulus
        /\ x.trades = Append(b.trades, rustTrade)
        /\ x.orders = IF rustAfter.quantity > 0 THEN Append(b.orders, rustAfter) ELSE b.orders
    BY <1>3, <1>8, <1>12 DEF RustMakersState
  <2>5. Cented(Append(a.trades, trade)) = Append(Cented(a.trades), rustTrade)
    BY <1>1, <1>7, CentedAppend
  <2>6. AsNodes(Append(kept, after)) = Append(AsNodes(kept), rustAfter)
    BY <1>5, <1>6, <1>9, AsNodesAppend
  <2>7. maker.quantity - q = 0 \/ maker.quantity - q > 0  BY <1>1, <1>2
  <2>8. x.orders = AsNodes(Makers(FALSE, r.orders))
    <3>1. b.orders = AsNodes(kept)  BY DEF Alike, kept
    <3>2. CASE maker.quantity - q = 0
      <4>1. ~ (rustAfter.quantity > 0) /\ after.quantity = 0  BY <3>2, <1>5, <1>6
      <4> QED  BY <4>1, <3>1, <1>9, <2>3, <2>4
    <3>3. CASE maker.quantity - q > 0
      <4>1. rustAfter.quantity > 0 /\ after.quantity # 0  BY <3>3, <1>5, <1>6
      <4> QED  BY <4>1, <3>1, <1>9, <2>3, <2>4, <2>6
    <3> QED  BY <2>7, <3>2, <3>3
  <2>9. x.left = r.left /\ x.total = r.total /\ x.trades = Cented(r.trades)
    BY <2>3, <2>4, <2>5 DEF Alike
  <2> QED  BY <1>10, <2>8, <2>9 DEF Alike
<1> QED  BY <1>11, <1>12

\* The makers of a level have quantities to give.
Full(level) == \A j \in 1..Len(level.orders) : level.orders[j].quantity > 0

\* The two folds over the makers of a level, step by step.
LEMMA MakersStay ==
    ASSUME NEW taker, NEW price \in Prices, NEW s \in Seq(OrderNode),
           \A j \in 1..Len(s) : s[j].quantity > 0,
           NEW f \in [0..Len(s) -> Within], NEW g \in [0..Len(s) -> RustMakersState],
           \A k \in 1..Len(s) : f[k] = MatchMaker(taker, price, f[k - 1], s[k]),
           \A k \in 1..Len(s) : g[k] = Rust!MatchMaker(Rust!Cents(price), g[k - 1], AsNode(s[k])),
           Alike(f[0], g[0]), ~ f[Len(s)].overflow
    PROVE  Alike(f[Len(s)], g[Len(s)])
<1> DEFINE n == Len(s)
           T == {k \in 0..n : f[k].overflow \/ Alike(f[k], g[k])}
<1>1. n \in Nat  OBVIOUS
<1>2. 0 \in T  BY <1>1
<1>3. ASSUME NEW k \in T \cap (0..(n - 1)) PROVE k + 1 \in T
  <2>1. k \in 0..n /\ k + 1 \in 1..n /\ k + 1 \in 0..n /\ (k + 1) - 1 = k  BY <1>1
  <2>2. f[k] \in Within /\ g[k] \in RustMakersState  BY <2>1
  <2>3. f[k + 1] = MatchMaker(taker, price, f[k], s[k + 1])  BY <2>1
  <2>4. g[k + 1] = Rust!MatchMaker(Rust!Cents(price), g[k], AsNode(s[k + 1]))  BY <2>1
  <2>5. s[k + 1] \in OrderNode /\ s[k + 1].quantity > 0  BY <2>1
  <2>6. SUFFICES ASSUME ~ f[k + 1].overflow PROVE Alike(f[k + 1], g[k + 1])  BY <2>1
  <2>7. CASE f[k].overflow
    <3>1. f[k + 1] = [f[k] EXCEPT !.orders = Append(@, s[k + 1])]
      BY <2>3, <2>7 DEF MatchMaker, Pass
    <3>2. f[k + 1].overflow = f[k].overflow  BY <3>1, <2>2 DEF Within, MakersState
    <3> QED  BY <3>2, <2>6, <2>7
  <2>8. CASE Alike(f[k], g[k])
    BY <2>2, <2>3, <2>4, <2>5, <2>6, <2>8, MakerAlike
  <2> QED  BY <2>7, <2>8
<1> HIDE DEF T, n
<1>4. 0..n \subseteq T  BY <1>1, <1>2, <1>3, UpTo
<1>5. n \in T  BY <1>1, <1>4
<1> QED  BY <1>5 DEF T, n

LEMMA MakersAlike ==
    ASSUME NEW taker, NEW m, NEW level \in PriceLevel, Full(level), Start(m, level) \in Within,
           NEW done, done = MatchMakers(taker, m, level), ~ done.overflow,
           NEW base \in RustMakersState, base.left = m.left, base.trades = Cented(m.trades),
           base.total = level.total_quantity, base.orders = <<>>
    PROVE  Alike(done, RustMakers(Rust!Cents(level.price), base, AsNodes(level.orders)))
<1>1. /\ level.orders \in Seq(OrderNode) /\ level.price \in Prices /\ level.price \in Nat
  BY PricesAssumption DEF PriceLevel
<1>2. PICK s \in Seq(OrderNode) : s = level.orders  BY <1>1
<1>3. PICK price \in Prices : price = level.price /\ Rust!Cents(price) \in Nat
  BY <1>1, CentsType
<1>4. PICK c \in Nat : c = Rust!Cents(price)  BY <1>3
<1>5. PICK t \in Seq(RustNode) : t = AsNodes(s)  BY AsNodesType
<1>6. Len(t) = Len(s) /\ \A k \in 1..Len(s) : t[k] = AsNode(s[k])
  BY <1>5, AsNodesType DEF AsNodes
<1>7. PICK f \in [0..Len(s) -> Within] :
         /\ f[0] = Start(m, level) /\ f[Len(s)] = done
         /\ \A k \in 1..Len(s) : f[k] = MatchMaker(taker, price, f[k - 1], s[k])
  BY <1>2, <1>3, MatchMakersRuns
<1>8. PICK g \in [0..Len(t) -> RustMakersState] :
         /\ g[0] = base /\ g[Len(t)] = RustMakers(c, base, t)
         /\ \A k \in 1..Len(t) : g[k] = Rust!MatchMaker(c, g[k - 1], t[k])
  BY RustMakersRun
<1>9. Alike(f[0], g[0])
  <2>1. /\ f[0].left = m.left /\ f[0].trades = m.trades
        /\ f[0].total = level.total_quantity /\ f[0].orders = <<>>
    BY <1>7 DEF Start
  <2>2. AsNodes(Makers(FALSE, <<>>)) = <<>>  BY MakersEmpty, NodesMirrored
  <2>3. /\ g[0].left = m.left /\ g[0].trades = Cented(m.trades)
        /\ g[0].total = level.total_quantity /\ g[0].orders = <<>>
    BY <1>8
  <2> QED  BY <2>1, <2>2, <2>3 DEF Alike
<1>10. /\ g \in [0..Len(s) -> RustMakersState] /\ g[Len(s)] = RustMakers(c, base, t)
       /\ \A k \in 1..Len(s) : g[k] = Rust!MatchMaker(Rust!Cents(price), g[k - 1], AsNode(s[k]))
  BY <1>4, <1>6, <1>8
<1>11. \A j \in 1..Len(s) : s[j].quantity > 0  BY <1>2 DEF Full
<1>12. Alike(f[Len(s)], g[Len(s)])
  BY <1>7, <1>9, <1>10, <1>11, MakersStay
<1> QED  BY <1>2, <1>3, <1>4, <1>5, <1>7, <1>10, <1>12
-----------------------------------------------------------------------------
(* The sweep over the levels *)

RustLevel == [total_quantity : Remaining, orders : Seq(RustNode)]
RustSweeping(D) == [left : Remaining, trades : Seq(RustTrade), levels : [D -> RustLevel]]
RustSweep(base, prices) == Rust!FoldLeft(Rust!MatchLevel, base, prices)

\* The makers' fold of match_order's walk at a level.
RustStart(m, price) == [left |-> m.left, trades |-> m.trades,
                        total |-> m.levels[price].total_quantity, orders |-> <<>>]

LEMMA RustLevelIs ==
    ASSUME NEW m, NEW price
    PROVE  LET done == RustMakers(price, RustStart(m, price), m.levels[price].orders)
           IN  Rust!MatchLevel(m, price)
                 = IF m.left = 0 THEN m
                   ELSE [left |-> done.left, trades |-> done.trades,
                         levels |-> [m.levels EXCEPT ![price] =
                                        [total_quantity |-> done.total, orders |-> done.orders]]]
BY DEF Rust!MatchLevel, RustMakers, RustStart

LEMMA RustLevelType ==
    ASSUME NEW D, D \subseteq Nat, NEW m \in RustSweeping(D), NEW price \in D
    PROVE  /\ Rust!MatchLevel(m, price) \in RustSweeping(D)
           /\ RustStart(m, price) \in RustMakersState
<1> DEFINE base == RustStart(m, price)
           orders == m.levels[price].orders
           done == RustMakers(price, base, orders)
           new == [total_quantity |-> done.total, orders |-> done.orders]
<1>1. /\ m.left \in Remaining /\ m.trades \in Seq(RustTrade) /\ m.levels \in [D -> RustLevel]
      /\ m.levels[price] \in RustLevel
  BY DEF RustSweeping
<1>2. orders \in Seq(RustNode) /\ m.levels[price].total_quantity \in Remaining
  BY <1>1 DEF RustLevel
<1>3. base \in RustMakersState  BY <1>1, <1>2 DEF RustStart, RustMakersState
<1> HIDE DEF base, orders
<1>4. PICK run \in [0..Len(orders) -> RustMakersState] :
         run[Len(orders)] = RustMakers(price, base, orders)
  <2>1. price \in Nat  OBVIOUS
  <2> QED  BY <1>2, <1>3, <2>1, RustMakersRun
<1>5. done \in RustMakersState  BY <1>2, <1>4
<1>6. Rust!MatchLevel(m, price) = IF m.left = 0 THEN m
        ELSE [left |-> done.left, trades |-> done.trades, levels |-> [m.levels EXCEPT ![price] = new]]
  BY RustLevelIs DEF base, orders
<1> HIDE DEF done
<1>7. new \in RustLevel  BY <1>5 DEF RustMakersState, RustLevel
<1> HIDE DEF new
<1>8. [m.levels EXCEPT ![price] = new] \in [D -> RustLevel]  BY <1>1, <1>7
<1>9. Rust!MatchLevel(m, price) \in RustSweeping(D)
  BY <1>5, <1>6, <1>8 DEF RustMakersState, RustSweeping
<1> QED  BY <1>3, <1>9 DEF base

RustSweepRun(D, base, n, s, run) ==
    /\ run \in [0..n -> RustSweeping(D)]
    /\ run[0] = base
    /\ run[n] = RustSweep(base, s)
    /\ \A k \in 1..n : run[k] = Rust!MatchLevel(run[k - 1], s[k])

LEMMA RustSweepRuns ==
    ASSUME NEW D, D \subseteq Nat, NEW base \in RustSweeping(D), NEW n \in Nat,
           NEW s \in [1..n -> D]
    PROVE  \E run : RustSweepRun(D, base, n, s, run)
<1> DEFINE S == RustSweeping(D)
           next(a, k) == Rust!MatchLevel(a, s[k])
           step == [k \in 1..n |-> [a \in S |-> next(a, k)]]
           G(iter) == [t \in SUBSET (DOMAIN s) |->
                          IF t = {} THEN base ELSE next(iter[t \ {Max(t)}], Max(t))]
<1>1. DOMAIN s = 1..n /\ base \in S  OBVIOUS
<1>2. RustSweep(base, s) = (CHOOSE iter : iter = G(iter))[DOMAIN s]
  BY DEF RustSweep, Rust!FoldLeft, Rust!MapThenFoldSet, Rust!Max, Max
<1>3. ASSUME NEW k \in 1..n, NEW a \in S
      PROVE  next(a, k) \in S /\ step[k][a] = next(a, k)
  <2>1. s[k] \in D  OBVIOUS
  <2>2. next(a, k) \in S  BY <2>1, RustLevelType
  <2> HIDE DEF next
  <2> QED  BY <2>2
<1>4. step \in [1..n -> [S -> S]]
  <2> HIDE DEF next
  <2> QED  BY <1>3
<1> HIDE DEF step, next, S
<1>5. \E iter : iter = G(iter)
  <2>1. PICK iter \in [SUBSET (1..n) -> S] : iter = FoldEquation(n, base, step, iter)
    <3>1. PICK iter : Folds(n, S, base, step, iter)  BY <1>1, <1>4, FoldExists
    <3> QED  BY <3>1 DEF Folds
  <2> DEFINE E == FoldEquation(n, base, step, iter)
  <2>2. ASSUME NEW t \in SUBSET (1..n) PROVE E[t] = G(iter)[t]
    <3>1. CASE t = {}  BY <1>1, <3>1 DEF FoldEquation
    <3>2. CASE t # {}
      <4>1. Max(t) \in 1..n  BY <3>2, <1>1, GreatestNumber
      <4>2. iter[t \ {Max(t)}] \in S  OBVIOUS
      <4>3. E[t] = step[Max(t)][iter[t \ {Max(t)}]]  BY <3>2 DEF FoldEquation
      <4>4. step[Max(t)][iter[t \ {Max(t)}]] = next(iter[t \ {Max(t)}], Max(t))
        BY <4>1, <4>2, <1>3
      <4> QED  BY <4>3, <4>4, <3>2, <1>1
    <3> QED  BY <3>1, <3>2
  <2>3. E = G(iter)
    <3>1. E = [t \in SUBSET (1..n) |-> E[t]]  BY DEF FoldEquation
    <3>2. G(iter) = [t \in SUBSET (1..n) |-> G(iter)[t]]  BY <1>1
    <3> HIDE DEF E, G
    <3> QED  BY <2>2, <3>1, <3>2
  <2> QED  BY <2>1, <2>3
<1> DEFINE J == CHOOSE iter : iter = G(iter)
<1>6. J = G(J)  BY <1>5
<1>7. Unfolds(n, S, base, step, J)
  <2>1. G(J)[{}] = base  OBVIOUS
  <2>2. ASSUME NEW t \in SUBSET (1..n), t # {}, J[t \ {Max(t)}] \in S
        PROVE  G(J)[t] = step[Max(t)][J[t \ {Max(t)}]]
    <3>1. Max(t) \in 1..n  BY <2>2, <1>1, GreatestNumber
    <3>2. G(J)[t] = next(J[t \ {Max(t)}], Max(t))  BY <1>1, <2>2
    <3> HIDE DEF J
    <3> QED  BY <2>2, <3>1, <3>2, <1>3
  <2> HIDE DEF J, G
  <2> QED  BY <2>1, <2>2, <1>6 DEF Unfolds
<1>8. PICK run : Runs(n, S, base, step, J[1..n], run)
  <2> HIDE DEF J
  <2> QED  BY <1>1, <1>4, <1>7, FoldRuns
<1>9. ASSUME NEW k \in 1..n PROVE run[k] = next(run[k - 1], k)
  <2>1. k - 1 \in 0..n  BY <1>1
  <2>2. run[k - 1] \in S  BY <2>1, <1>8 DEF Runs
  <2> QED  BY <2>2, <1>3, <1>8 DEF Runs
<1>10. run \in [0..n -> S] /\ run[0] = base /\ run[n] = RustSweep(base, s)
  BY <1>1, <1>2, <1>8 DEF Runs, J
<1> QED  BY <1>9, <1>10 DEF next, S, RustSweepRun

\* The levels of the C++ side, at their cents.
CentsOf(levels) == {Rust!Cents(levels[i].price) : i \in 1..Len(levels)}
Mirrors(levels, map) ==
    /\ map \in [CentsOf(levels) -> RustLevel]
    /\ \A i \in 1..Len(levels) : map[Rust!Cents(levels[i].price)] = AsLevel(levels[i])

\* What a level that the taker reached becomes in the two books.
OneLevel(level, m, r, c, y) ==
    \/ r.levels = m.levels /\ y.levels[c].orders = <<>>
    \/ \E kept \in PriceLevel :
          /\ kept.price = level.price /\ Full(kept) /\ kept.orders # <<>>
          /\ r.levels = Append(m.levels, kept)
          /\ y.levels[c] = AsLevel(kept)

LEMMA AsLevelType ==
    ASSUME NEW level \in PriceLevel
    PROVE  /\ AsLevel(level) \in RustLevel
           /\ AsLevel(level).orders = <<>> <=> level.orders = <<>>
<1>1. level.orders \in Seq(OrderNode) /\ level.total_quantity \in Remaining
  BY DEF PriceLevel, Remaining
<1>2. AsNodes(level.orders) \in Seq(RustNode) /\ Len(AsNodes(level.orders)) = Len(level.orders)
  BY <1>1, AsNodesType
<1>3. AsLevel(level) \in RustLevel  BY <1>1, <1>2 DEF AsLevel, RustLevel
<1>4. AsLevel(level).orders = AsNodes(level.orders)  BY DEF AsLevel
<1>5. AsNodes(level.orders) = <<>> <=> level.orders = <<>>  BY <1>1, <1>2
<1> QED  BY <1>3, <1>4, <1>5

LEMMA KeptFull ==
    ASSUME NEW s \in Seq(OrderNode)
    PROVE  /\ Makers(FALSE, s) \in Seq(OrderNode)
           /\ \A j \in 1..Len(Makers(FALSE, s)) : Makers(FALSE, s)[j].quantity > 0
<1>1. Countable(s) /\ Stamped(s)  BY NodesCountable
<1>2. PICK t : t = Makers(FALSE, s)  OBVIOUS
<1>3. t \in Seq(OrderNode) /\ Picked(t, s, FALSE, Len(s))  BY <1>1, <1>2, MakersPicked
<1>4. ASSUME NEW j \in 1..Len(t) PROVE t[j].quantity > 0
  <2>1. PICK i \in 1..Len(s) : t[j] = s[i] /\ (s[i].quantity = 0) = FALSE
    BY <1>3 DEF Picked
  <2>2. s[i].quantity \in Nat  BY <1>1 DEF Countable
  <2> QED  BY <2>1, <2>2
<1> QED  BY <1>2, <1>3, <1>4

LEMMA LevelAlike ==
    ASSUME NEW taker, NEW D, D \subseteq Nat, NEW m \in Sweeping, NEW level \in PriceLevel,
           Full(level), NEW c \in D, c = Rust!Cents(level.price),
           NEW x \in RustSweeping(D), x.left = m.left, x.trades = Cented(m.trades),
           x.levels[c] = AsLevel(level),
           ~ Untouched(taker, m, level),
           NEW r, r = MatchLevel(taker, m, level), ~ r.overflow,
           NEW y, y = Rust!MatchLevel(x, c)
    PROVE  /\ y \in RustSweeping(D)
           /\ y.left = r.left /\ y.trades = Cented(r.trades)
           /\ \A d \in D : d # c => y.levels[d] = x.levels[d]
           /\ OneLevel(level, m, r, c, y)
<1>1. PICK done : done = MatchMakers(taker, m, level)  OBVIOUS
<1>2. /\ m.left \in Remaining /\ m.trades \in Seq(TradeReport) /\ m.left # 0
      /\ Len(m.trades) <= MaxTradesPerOrder /\ level.total_quantity \in Remaining
      /\ level.price \in Prices
  BY DEF Sweeping, LevelsState, PriceLevel, Remaining, Untouched
<1>3. Start(m, level) \in Within
  BY <1>2 DEF Start, Within, MakersState
<1>4. r.left = done.left /\ r.trades = done.trades /\ r.overflow = done.overflow
  BY <1>1, MatchLevelResult
<1>5. PICK base : base = RustStart(x, c)  OBVIOUS
<1>6. /\ base \in RustMakersState /\ base.left = m.left /\ base.trades = Cented(m.trades)
      /\ base.total = level.total_quantity /\ base.orders = <<>>
  <2>1. base \in RustMakersState  BY <1>5, RustLevelType
  <2> QED  BY <1>5, <2>1 DEF RustStart, AsLevel
<1>7. PICK rdone : rdone = RustMakers(c, base, AsNodes(level.orders))  OBVIOUS
<1>8. Alike(done, rdone)
  BY <1>1, <1>3, <1>4, <1>6, <1>7, MakersAlike
<1>9. x.levels[c].orders = AsNodes(level.orders)  BY DEF AsLevel
<1>10. y = [left |-> rdone.left, trades |-> rdone.trades,
            levels |-> [x.levels EXCEPT ![c] =
                          [total_quantity |-> rdone.total, orders |-> rdone.orders]]]
  BY <1>2, <1>5, <1>7, <1>9, RustLevelIs
<1>11. y \in RustSweeping(D)  BY RustLevelType
<1>12. /\ y.left = r.left /\ y.trades = Cented(r.trades)
       /\ y.levels = [x.levels EXCEPT ![c] =
                          [total_quantity |-> rdone.total, orders |-> rdone.orders]]
  BY <1>4, <1>8, <1>10 DEF Alike
<1>13. x.levels \in [D -> RustLevel]  BY DEF RustSweeping
<1>14. \A d \in D : d # c => y.levels[d] = x.levels[d]  BY <1>12, <1>13
<1>15. PICK kept : kept = KeptLevel(level, done, Makers(FALSE, done.orders))  OBVIOUS
<1>16. done \in Within
  <2>1. PICK run \in [0..Len(level.orders) -> Within] : run[Len(level.orders)] = done
    BY <1>1, <1>3, MatchMakersRuns
  <2>2. Len(level.orders) \in Nat  BY DEF PriceLevel
  <2> QED  BY <2>1, <2>2
<1>17. /\ done.orders \in Seq(OrderNode) /\ done.total \in Remaining
  BY <1>16 DEF Within, MakersState
<1>18. /\ kept.price = level.price /\ kept.total_quantity = done.total
       /\ kept.orders = Makers(FALSE, done.orders)
  BY <1>15 DEF KeptLevel
<1>19. kept \in PriceLevel /\ Full(kept)
  <2>1. /\ Makers(FALSE, done.orders) \in Seq(OrderNode)
        /\ \A j \in 1..Len(Makers(FALSE, done.orders)) : Makers(FALSE, done.orders)[j].quantity > 0
    BY <1>17, KeptFull
  <2>2. kept \in PriceLevel  BY <1>2, <1>15, <1>17, <2>1 DEF KeptLevel, PriceLevel, Remaining
  <2> QED  BY <1>18, <2>1, <2>2 DEF Full
<1>20. y.levels[c] = AsLevel(kept)
  BY <1>8, <1>12, <1>13, <1>18 DEF Alike, AsLevel
<1>21. r.levels = IF kept.orders = <<>> THEN m.levels ELSE Append(m.levels, kept)
  <2>1. ~ done.overflow  BY <1>4
  <2>2. PICK orders : orders = Makers(FALSE, done.orders)  OBVIOUS
  <2>3. PICK cleaned : cleaned = CleanUp(m, level, done, orders)  OBVIOUS
  <2>4. r = IF orders = <<>> THEN [cleaned EXCEPT !.levels = m.levels] ELSE cleaned
    BY <1>1, <2>1, <2>2, <2>3 DEF MatchLevel
  <2>5. /\ cleaned.levels = Append(m.levels, KeptLevel(level, done, orders))
        /\ [cleaned EXCEPT !.levels = m.levels].levels = m.levels
    BY <2>3 DEF CleanUp, KeptLevel
  <2> QED  BY <1>15, <1>18, <2>2, <2>4, <2>5
<1>22. OneLevel(level, m, r, c, y)
  <2>1. CASE kept.orders = <<>>
    <3>1. AsLevel(kept).orders = <<>>  BY <1>19, <2>1, AsLevelType
    <3> QED  BY <1>20, <1>21, <2>1, <3>1 DEF OneLevel
  <2>2. CASE kept.orders # <<>>
    BY <1>18, <1>19, <1>20, <1>21, <2>2 DEF OneLevel
  <2> QED  BY <2>1, <2>2
<1> QED  BY <1>11, <1>12, <1>14, <1>22

\* The levels of a side are not empty, nor are their orders, and no two are at one cent.
Even(levels) ==
    /\ levels \in Seq(PriceLevel)
    /\ \A i \in 1..Len(levels) : Full(levels[i]) /\ levels[i].orders # <<>>
    /\ \A i, j \in 1..Len(levels) :
          Rust!Cents(levels[i].price) = Rust!Cents(levels[j].price) => i = j

\* Behind the first k levels, both sweeps are at the same point.
SweptAlike(levels, k, m, x) ==
    /\ x.left = m.left /\ x.trades = Cented(m.trades)
    /\ \A i \in 1..Len(levels) :
          i > k => x.levels[Rust!Cents(levels[i].price)] = AsLevel(levels[i])
    /\ \A l \in 1..Len(m.levels) :
          /\ Full(m.levels[l])
          /\ \E i \in 1..k : m.levels[l].price = levels[i].price
          /\ m.levels[l].orders # <<>>
          /\ x.levels[Rust!Cents(m.levels[l].price)] = AsLevel(m.levels[l])
    /\ \A i \in 1..k :
          \/ x.levels[Rust!Cents(levels[i].price)].orders = <<>>
          \/ \E l \in 1..Len(m.levels) : m.levels[l].price = levels[i].price

LEMMA SweptAlikeAdds ==
    ASSUME NEW levels, Even(levels), NEW k \in 1..Len(levels), NEW c, c = Rust!Cents(levels[k].price),
           NEW m \in Sweeping, NEW x, SweptAlike(levels, k - 1, m, x),
           NEW r, NEW y, y.left = r.left, y.trades = Cented(r.trades),
           \A d \in CentsOf(levels) : d # c => y.levels[d] = x.levels[d],
           OneLevel(levels[k], m, r, c, y)
    PROVE  SweptAlike(levels, k, r, y)
<1>1. /\ levels \in Seq(PriceLevel) /\ Len(levels) \in Nat /\ k \in Nat /\ k - 1 \in Nat
      /\ m.levels \in Seq(PriceLevel) /\ Len(m.levels) \in Nat
  BY DEF Even, Sweeping, LevelsState
<1>2. ASSUME NEW i \in 1..Len(levels), i # k
      PROVE  y.levels[Rust!Cents(levels[i].price)] = x.levels[Rust!Cents(levels[i].price)]
  <2>1. Rust!Cents(levels[i].price) # c  BY <1>2 DEF Even
  <2>2. Rust!Cents(levels[i].price) \in CentsOf(levels)  BY DEF CentsOf
  <2> QED  BY <2>1, <2>2
<1>3. ASSUME NEW i \in 1..Len(levels), i > k
      PROVE  y.levels[Rust!Cents(levels[i].price)] = AsLevel(levels[i])
  <2>1. i # k /\ i > k - 1  BY <1>1, <1>3
  <2>2. x.levels[Rust!Cents(levels[i].price)] = AsLevel(levels[i])
    BY <2>1 DEF SweptAlike
  <2> QED  BY <1>2, <2>1, <2>2
<1>4. ASSUME NEW l \in 1..Len(m.levels)
      PROVE  /\ Full(m.levels[l])
             /\ \E i \in 1..k : m.levels[l].price = levels[i].price
             /\ m.levels[l].orders # <<>>
             /\ y.levels[Rust!Cents(m.levels[l].price)] = AsLevel(m.levels[l])
  <2>1. PICK i \in 1..(k - 1) : m.levels[l].price = levels[i].price
    BY DEF SweptAlike
  <2>2. i \in 1..Len(levels) /\ i \in 1..k /\ i # k  BY <1>1
  <2>3. /\ Full(m.levels[l]) /\ m.levels[l].orders # <<>>
        /\ x.levels[Rust!Cents(m.levels[l].price)] = AsLevel(m.levels[l])
    BY DEF SweptAlike
  <2>4. y.levels[Rust!Cents(m.levels[l].price)] = x.levels[Rust!Cents(m.levels[l].price)]
    BY <1>2, <2>1, <2>2
  <2> QED  BY <2>1, <2>2, <2>3, <2>4
<1>5. ASSUME NEW i \in 1..(k - 1)
      PROVE  \/ y.levels[Rust!Cents(levels[i].price)].orders = <<>>
             \/ \E l \in 1..Len(m.levels) : m.levels[l].price = levels[i].price
  <2>1. i \in 1..Len(levels) /\ i # k  BY <1>1
  <2>2. \/ x.levels[Rust!Cents(levels[i].price)].orders = <<>>
        \/ \E l \in 1..Len(m.levels) : m.levels[l].price = levels[i].price
    BY DEF SweptAlike
  <2> QED  BY <1>2, <2>1, <2>2
<1>6. \A i \in 1..k : i = k \/ i \in 1..(k - 1)  BY <1>1
<1>7. CASE r.levels = m.levels /\ y.levels[c].orders = <<>>
  BY <1>3, <1>4, <1>5, <1>6, <1>7 DEF SweptAlike
<1>8. ASSUME NEW kept \in PriceLevel,
             kept.price = levels[k].price, Full(kept), kept.orders # <<>>,
             r.levels = Append(m.levels, kept), y.levels[c] = AsLevel(kept)
      PROVE  SweptAlike(levels, k, r, y)
  <2>1. /\ Len(r.levels) = Len(m.levels) + 1
        /\ \A l \in 1..Len(m.levels) : r.levels[l] = m.levels[l]
        /\ r.levels[Len(m.levels) + 1] = kept
    BY <1>1, <1>8
  <2>2. ASSUME NEW l \in 1..Len(r.levels)
        PROVE  /\ Full(r.levels[l])
               /\ \E i \in 1..k : r.levels[l].price = levels[i].price
               /\ r.levels[l].orders # <<>>
               /\ y.levels[Rust!Cents(r.levels[l].price)] = AsLevel(r.levels[l])
    <3>1. CASE l \in 1..Len(m.levels)  BY <1>4, <2>1, <3>1
    <3>2. CASE l = Len(m.levels) + 1  BY <1>8, <2>1, <3>2
    <3>3. l \in 1..Len(m.levels) \/ l = Len(m.levels) + 1  BY <1>1, <2>1
    <3> QED  BY <3>1, <3>2, <3>3
  <2>3. ASSUME NEW i \in 1..k
        PROVE  \/ y.levels[Rust!Cents(levels[i].price)].orders = <<>>
               \/ \E l \in 1..Len(r.levels) : r.levels[l].price = levels[i].price
    <3>1. CASE i = k
      <4>1. Len(m.levels) + 1 \in 1..Len(r.levels)  BY <1>1, <2>1
      <4> QED  BY <1>8, <2>1, <3>1, <4>1
    <3>2. CASE i \in 1..(k - 1)
      <4>1. CASE y.levels[Rust!Cents(levels[i].price)].orders = <<>>  BY <4>1
      <4>2. CASE \E l \in 1..Len(m.levels) : m.levels[l].price = levels[i].price
        <5>1. PICK l \in 1..Len(m.levels) : m.levels[l].price = levels[i].price  BY <4>2
        <5>2. l \in 1..Len(r.levels)  BY <1>1, <2>1
        <5> QED  BY <2>1, <5>1, <5>2
      <4> QED  BY <1>5, <3>2, <4>1, <4>2
    <3> QED  BY <1>6, <3>1, <3>2
  <2> QED  BY <1>3, <2>2, <2>3 DEF SweptAlike
<1> QED  BY <1>7, <1>8 DEF OneLevel

LEMMA SweptAlikeNext ==
    ASSUME NEW taker, NEW levels, Even(levels), NEW k \in 1..Len(levels),
           NEW m \in Sweeping, NEW x \in RustSweeping(CentsOf(levels)),
           SweptAlike(levels, k - 1, m, x),
           NEW r, r = MatchLevel(taker, m, levels[k]), ~ r.overflow,
           NEW c, c = Rust!Cents(levels[k].price),
           NEW y, y = IF Crossing(taker, levels[k].price) THEN Rust!MatchLevel(x, c) ELSE x
    PROVE  SweptAlike(levels, k, r, y)
<1>1. /\ levels \in Seq(PriceLevel) /\ levels[k] \in PriceLevel /\ Full(levels[k])
      /\ levels[k].orders # <<>> /\ k - 1 \in Nat /\ k > k - 1
  BY DEF Even
<1>2. CentsOf(levels) \subseteq Nat
  <2>1. ASSUME NEW i \in 1..Len(levels) PROVE Rust!Cents(levels[i].price) \in Nat
    <3>1. levels[i] \in PriceLevel  BY <1>1
    <3>2. levels[i].price \in Nat  BY <3>1, PricesAssumption DEF PriceLevel
    <3> QED  BY <3>2, CentsType
  <2> QED  BY <2>1 DEF CentsOf
<1>3. c \in CentsOf(levels)  BY DEF CentsOf
<1>4. x.left = m.left /\ x.trades = Cented(m.trades) /\ x.levels[c] = AsLevel(levels[k])
  BY <1>1 DEF SweptAlike
<1>5. CASE Untouched(taker, m, levels[k])
  <2>1. r = [m EXCEPT !.levels = Append(@, levels[k])]  BY <1>5 DEF MatchLevel
  <2>2. /\ r.left = m.left /\ r.trades = m.trades /\ r.overflow = m.overflow
        /\ r.levels = Append(m.levels, levels[k])
    BY <2>1 DEF Sweeping, LevelsState
  <2>3. y = x
    <3>1. CASE Crossing(taker, levels[k].price)
      <4>1. m.left = 0  BY <1>5, <2>2, <3>1 DEF Untouched, Crossing
      <4> QED  BY <1>4, <3>1, <4>1, RustLevelIs
    <3> QED  BY <3>1
  <2>4. OneLevel(levels[k], m, r, c, y)
    BY <1>1, <1>4, <2>2, <2>3 DEF OneLevel
  <2> QED  BY <1>4, <2>2, <2>3, <2>4, SweptAlikeAdds
<1>6. CASE ~ Untouched(taker, m, levels[k])
  <2>1. Crossing(taker, levels[k].price)  BY <1>6 DEF Untouched, Crossing
  <2>2. y = Rust!MatchLevel(x, c)  BY <2>1
  <2>3. /\ y.left = r.left /\ y.trades = Cented(r.trades)
        /\ \A d \in CentsOf(levels) : d # c => y.levels[d] = x.levels[d]
        /\ OneLevel(levels[k], m, r, c, y)
    <3> HIDE DEF CentsOf
    <3>1. PICK level \in PriceLevel : level = levels[k]  BY <1>1
    <3>2. PICK D : D = CentsOf(levels)  OBVIOUS
    <3> QED  BY <1>1, <1>2, <1>3, <1>4, <1>6, <2>2, <3>1, <3>2, LevelAlike
  <2> QED  BY <2>3, SweptAlikeAdds
<1> QED  BY <1>5, <1>6

\* A set of first places ends somewhere.
LEMMA FirstPlaces ==
    ASSUME NEW n \in Nat, NEW A \in SUBSET (1..n), \A i, j \in 1..n : i < j /\ j \in A => i \in A
    PROVE  \E k \in 0..n : A = 1..k
<1>1. CASE A = {}
  <2>1. 0 \in 0..n /\ 1..0 = {}  OBVIOUS
  <2> QED  BY <1>1, <2>1
<1>2. CASE A # {}
  <2> DEFINE B == {n - i : i \in A}
  <2>1. B \in SUBSET Nat /\ B # {}
    <3>1. \A i \in A : n - i \in Nat  OBVIOUS
    <3>2. \A i \in A : n - i \in B  OBVIOUS
    <3> QED  BY <1>2, <3>1, <3>2
  <2>2. PICK b \in B : \A y \in B : b <= y  BY <2>1, LeastNumber
  <2>3. PICK k \in A : b = n - k  OBVIOUS
  <2>4. \A i \in A : i <= k
    <3>1. ASSUME NEW i \in A PROVE i <= k
      <4>1. b <= n - i  BY <2>2
      <4>2. i \in 1..n /\ k \in 1..n  OBVIOUS
      <4> QED  BY <2>3, <4>1, <4>2
    <3> QED  BY <3>1
  <2>5. \A i \in 1..k : i \in A
    <3>1. ASSUME NEW i \in 1..k PROVE i \in A
      <4>1. i = k \/ i < k  OBVIOUS
      <4>2. i \in 1..n /\ k \in 1..n  OBVIOUS
      <4> QED  BY <4>1, <4>2
    <3> QED  BY <3>1
  <2>6. A = 1..k
    <3>1. ASSUME NEW i \in A PROVE i \in 1..k
      <4>1. i \in 1..n /\ i <= k  BY <2>4
      <4> QED  BY <4>1
    <3> QED  BY <2>5, <3>1
  <2>7. k \in 0..n  OBVIOUS
  <2> QED  BY <2>6, <2>7
<1> QED  BY <1>1, <1>2

\* The levels of a side, at cents of their own, are even.
LEMMA EvenSide ==
    ASSUME NEW side, NEW levels, SideOK(side, levels), \A i \in 1..Len(levels) : Full(levels[i]),
           NEW P, P \subseteq Nat, Distinct(P), PricesOf(levels) \subseteq P
    PROVE  /\ Even(levels) /\ Len(levels) \in Nat /\ CentsOf(levels) \subseteq Nat
           /\ \A i \in 1..Len(levels) : /\ levels[i] \in PriceLevel /\ levels[i].price \in P
                                        /\ Rust!Cents(levels[i].price) \in CentsOf(levels)
<1>1. /\ levels \in Seq(PriceLevel) /\ Len(levels) \in Nat
      /\ \A i \in 1..Len(levels) : levels[i] \in PriceLevel
      /\ \A i, j \in 1..Len(levels) : levels[i].price = levels[j].price => i = j
  BY PricesDiffer
<1>2. ASSUME NEW i \in 1..Len(levels)
      PROVE  levels[i].price \in P /\ levels[i].orders # <<>>
             /\ Rust!Cents(levels[i].price) \in CentsOf(levels) /\ Rust!Cents(levels[i].price) \in Nat
  <2>1. levels[i].price \in P  BY <1>1 DEF PricesOf
  <2>2. levels[i].orders # <<>>  BY DEF SideOK, Good
  <2>3. Rust!Cents(levels[i].price) \in CentsOf(levels)  BY DEF CentsOf
  <2>4. levels[i].price \in Nat  BY <2>1
  <2> QED  BY <2>1, <2>2, <2>3, <2>4, CentsType
<1>3. Even(levels)
  <2>1. ASSUME NEW i \in 1..Len(levels), NEW j \in 1..Len(levels),
               Rust!Cents(levels[i].price) = Rust!Cents(levels[j].price)
        PROVE  i = j
    <3>1. levels[i].price \in P /\ levels[j].price \in P  BY <1>2
    <3>2. levels[i].price = levels[j].price  BY <2>1, <3>1 DEF Distinct
    <3> QED  BY <1>1, <3>2
  <2> QED  BY <1>1, <1>2, <2>1 DEF Even
<1>4. CentsOf(levels) \subseteq Nat  BY <1>2 DEF CentsOf
<1> QED  BY <1>1, <1>2, <1>3, <1>4

\* The first k levels, in the order in which the Rust book walks its map.
FirstCents(levels, k) == {Rust!Cents(levels[i].price) : i \in 1..k}
Walk(levels, k) == [i \in 1..k |-> Rust!Cents(levels[i].price)]

LEMMA WalkIs ==
    ASSUME NEW side, NEW levels, SideOK(side, levels), \A i \in 1..Len(levels) : Full(levels[i]),
           NEW P, P \subseteq Nat, Distinct(P), PricesOf(levels) \subseteq P,
           NEW k \in 0..Len(levels)
    PROVE  Rust!InPriority(side, FirstCents(levels, k)) = Walk(levels, k)
<1> DEFINE prices == {Rust!Cents(levels[i].price) : i \in 1..k}
           walk == [i \in 1..k |-> Rust!Cents(levels[i].price)]
<1>1. /\ CentsOf(levels) \subseteq Nat /\ Len(levels) \in Nat
      /\ \A i \in 1..Len(levels) : levels[i].price \in P
      /\ \A i \in 1..Len(levels) : Rust!Cents(levels[i].price) \in CentsOf(levels)
  BY EvenSide
<1>2. \A i \in 1..k : i \in 1..Len(levels)  BY <1>1
<1>3. prices \subseteq Nat  BY <1>1, <1>2
<1>4. walk \in [1..k -> prices]  OBVIOUS
<1>5. InOrder(side, walk)
  <2>1. ASSUME NEW i \in 1..k, NEW j \in 1..k, i < j PROVE Rust!Better(side, walk[i], walk[j])
    <3>1. i \in 1..Len(levels) /\ j \in 1..Len(levels)  BY <1>2
    <3>2. levels[i].price \in P /\ levels[j].price \in P  BY <1>1, <3>1
    <3>3. Better(side, levels[i].price, levels[j].price)  BY <2>1, <3>1, PricesDiffer
    <3>4. Rust!Better(side, Rust!Cents(levels[i].price), Rust!Cents(levels[j].price))
      BY <3>2, <3>3, CentsOrdered
    <3> QED  BY <3>4
  <2> QED  BY <2>1 DEF InOrder
<1>6. \A p \in prices : \E i \in 1..k : walk[i] = p  OBVIOUS
<1>7. k \in Nat  BY <1>1
<1>8. Walks(side, k, prices, walk)  BY <1>3, <1>4, <1>5, <1>6, <1>7 DEF Walks
<1> HIDE DEF prices, walk
<1>9. Rust!InPriority(side, prices) = walk  BY <1>8, InPriorityIs
<1> QED  BY <1>9 DEF prices, walk, FirstCents, Walk

\* The levels that cross are the first ones, in both books.
LEMMA CrossingLevels ==
    ASSUME NEW order, NEW levels, SideOK(Opposite(order.side), levels),
           \A i \in 1..Len(levels) : Full(levels[i]),
           NEW P, P \subseteq Nat, Distinct(P), PricesOf(levels) \subseteq P, order.price \in P
    PROVE  \E k \in 0..Len(levels) :
              /\ \A i \in 1..Len(levels) : Crossing(order, levels[i].price) <=> i <= k
              /\ {p \in CentsOf(levels) :
                     ~ Rust!Better(Opposite(order.side), Rust!Cents(order.price), p)} =
                    FirstCents(levels, k)
<1> DEFINE side == Opposite(order.side)
           A == {i \in 1..Len(levels) : Crossing(order, levels[i].price)}
<1>1. /\ Len(levels) \in Nat
      /\ \A i \in 1..Len(levels) : levels[i].price \in P /\ levels[i].price \in Nat
      /\ \A i \in 1..Len(levels) : Rust!Cents(levels[i].price) \in CentsOf(levels)
  BY EvenSide
<1>2. A \in SUBSET (1..Len(levels))  OBVIOUS
<1>3. ASSUME NEW i \in 1..Len(levels), NEW j \in 1..Len(levels), i < j, j \in A PROVE i \in A
  <2>1. Better(side, levels[i].price, levels[j].price)  BY <1>3, PricesDiffer
  <2>2. ~ Better(side, order.price, levels[j].price)  BY <1>3 DEF Crossing
  <2>3. levels[i].price \in Nat /\ levels[j].price \in Nat /\ order.price \in Nat  BY <1>1
  <2>4. ~ Better(side, order.price, levels[i].price)
    <3> HIDE DEF side
    <3> QED  BY <2>1, <2>2, <2>3 DEF Better
  <2> QED  BY <2>4 DEF Crossing
<1>4. PICK k \in 0..Len(levels) : A = 1..k
  <2> HIDE DEF A
  <2> QED  BY <1>1, <1>2, <1>3, FirstPlaces
<1>5. \A i \in 1..Len(levels) : Crossing(order, levels[i].price) <=> i <= k
  <2>1. ASSUME NEW i \in 1..Len(levels) PROVE Crossing(order, levels[i].price) <=> i <= k
    <3>1. i \in A <=> i \in 1..k  BY <1>4
    <3>2. i \in 1..k <=> i <= k  BY <1>1
    <3> QED  BY <3>1, <3>2
  <2> QED  BY <2>1
<1>6. ASSUME NEW i \in 1..Len(levels)
      PROVE  ~ Rust!Better(side, Rust!Cents(order.price), Rust!Cents(levels[i].price)) <=> i <= k
  <2>1. Better(side, order.price, levels[i].price)
           <=> Rust!Better(side, Rust!Cents(order.price), Rust!Cents(levels[i].price))
    <3>1. levels[i].price \in P  BY <1>1
    <3> QED  BY <3>1, CentsOrdered
  <2> QED  BY <1>5, <2>1 DEF Crossing
<1>7. ASSUME NEW p
      PROVE  p \in {q \in CentsOf(levels) : ~ Rust!Better(side, Rust!Cents(order.price), q)}
                <=> p \in FirstCents(levels, k)
  <2>1. ASSUME NEW i \in 1..k, p = Rust!Cents(levels[i].price)
        PROVE  p \in {q \in CentsOf(levels) : ~ Rust!Better(side, Rust!Cents(order.price), q)}
    <3>1. i \in 1..Len(levels) /\ i <= k  BY <1>1
    <3> QED  BY <1>1, <1>6, <2>1, <3>1
  <2>2. ASSUME p \in CentsOf(levels), ~ Rust!Better(side, Rust!Cents(order.price), p)
        PROVE  p \in FirstCents(levels, k)
    <3>1. PICK i \in 1..Len(levels) : p = Rust!Cents(levels[i].price)  BY <2>2 DEF CentsOf
    <3>2. i \in 1..k  BY <1>1, <1>6, <2>2, <3>1
    <3> QED  BY <3>1, <3>2 DEF FirstCents
  <2> QED  BY <2>1, <2>2 DEF FirstCents
<1> QED  BY <1>5, <1>7

LEMMA RustMatchOrderIs ==
    ASSUME NEW taker, NEW map
    PROVE  LET crossing == {p \in DOMAIN map : ~ Rust!Better(Opposite(taker.side), taker.price, p)}
               m == RustSweep([left |-> taker.quantity, trades |-> <<>>, levels |-> map],
                              Rust!InPriority(Opposite(taker.side), crossing))
           IN  Rust!MatchOrder(taker, map) =
                  [m EXCEPT !.levels = Rust!Keep(@, {p \in DOMAIN @ : @[p].orders # <<>>})]
BY SameOpposite DEF Rust!MatchOrder, RustSweep

\* What an order leaves of the other side, and its trades.
LEMMA SweepAlike ==
    ASSUME NEW order, order.quantity \in Remaining, NEW levels,
           SideOK(Opposite(order.side), levels), \A i \in 1..Len(levels) : Full(levels[i]),
           NEW P, P \subseteq Nat, Distinct(P), PricesOf(levels) \subseteq P, order.price \in P,
           NEW map, Mirrors(levels, map),
           NEW m, m = MatchOrder(order, levels), ~ m.overflow
    PROVE  \E k \in 0..Len(levels), x \in RustSweeping(CentsOf(levels)) :
              /\ SweptAlike(levels, Len(levels), m, x) /\ m \in Sweeping
              /\ x = RustSweep([left |-> order.quantity, trades |-> <<>>, levels |-> map],
                               Walk(levels, k))
              /\ {p \in CentsOf(levels) :
                     ~ Rust!Better(Opposite(order.side), Rust!Cents(order.price), p)} =
                    FirstCents(levels, k)
<1> DEFINE D == CentsOf(levels)
           n == Len(levels)
           base == [left |-> order.quantity, trades |-> <<>>, levels |-> map]
<1>1. /\ Even(levels) /\ n \in Nat /\ D \subseteq Nat
      /\ \A i \in 1..n : Rust!Cents(levels[i].price) \in D
  BY EvenSide
<1>2. PICK k \in 0..n :
         /\ \A i \in 1..n : Crossing(order, levels[i].price) <=> i <= k
         /\ {p \in D : ~ Rust!Better(Opposite(order.side), Rust!Cents(order.price), p)} =
               FirstCents(levels, k)
  BY CrossingLevels
<1>3. SweepStart(order) \in Sweeping
  BY LimitsAssumption DEF SweepStart, Sweeping, LevelsState
<1>4. PICK f \in [0..n -> Sweeping] :
         /\ f[0] = SweepStart(order) /\ f[n] = m
         /\ \A i \in 1..n : f[i] = MatchLevel(order, f[i - 1], levels[i])
         /\ \A i \in 1..n : f[i - 1].overflow => f[i].overflow
  <2>1. PICK f \in [0..n -> Sweeping] :
           /\ f[0] = SweepStart(order) /\ f[n] = MatchOrder(order, levels)
           /\ \A i \in 1..n : /\ f[i] = MatchLevel(order, f[i - 1], levels[i])
                              /\ Swept(order, f[i - 1], levels[i], f[i])
    BY <1>3, MatchOrderRuns
  <2>2. \A i \in 1..n : f[i - 1].overflow => f[i].overflow  BY <2>1 DEF Swept
  <2> QED  BY <2>1, <2>2
<1>5. base \in RustSweeping(D)
  BY DEF RustSweeping, Mirrors
<1> DEFINE walk == [i \in 1..k |-> Rust!Cents(levels[i].price)]
<1>6. walk \in [1..k -> D] /\ k \in Nat /\ \A i \in 1..k : i \in 1..n
  <2>1. \A i \in 1..k : i \in 1..n  BY <1>1
  <2> QED  BY <1>1, <2>1
<1> HIDE DEF base, D, walk
<1>7. PICK g \in [0..k -> RustSweeping(D)] :
         /\ g[0] = base /\ g[k] = RustSweep(base, walk)
         /\ \A i \in 1..k : g[i] = Rust!MatchLevel(g[i - 1], walk[i])
  <2>1. \E run : RustSweepRun(D, base, k, walk, run)  BY <1>1, <1>5, <1>6, RustSweepRuns
  <2> QED  BY <2>1 DEF RustSweepRun
<1> DEFINE h == [i \in 0..n |-> g[IF i <= k THEN i ELSE k]]
<1>8. /\ h \in [0..n -> RustSweeping(D)] /\ h[0] = base /\ h[n] = RustSweep(base, walk)
      /\ \A i \in 1..n : h[i] = IF i <= k THEN Rust!MatchLevel(h[i - 1], walk[i]) ELSE h[i - 1]
  <2>1. \A i \in 0..n : (IF i <= k THEN i ELSE k) \in 0..k  BY <1>1, <1>6
  <2>2. h \in [0..n -> RustSweeping(D)]  BY <2>1, <1>7
  <2>3. h[0] = base  BY <1>1, <1>6, <1>7
  <2>4. h[n] = RustSweep(base, walk)
    <3>1. h[n] = g[k]  BY <1>1, <1>6
    <3> QED  BY <1>7, <3>1
  <2>5. ASSUME NEW i \in 1..n
        PROVE  h[i] = IF i <= k THEN Rust!MatchLevel(h[i - 1], walk[i]) ELSE h[i - 1]
    <3>1. i - 1 \in 0..n /\ i \in 0..n  BY <1>1
    <3>2. CASE i <= k
      <4>1. i \in 1..k /\ i - 1 <= k  BY <1>1, <1>6, <3>2
      <4>2. h[i] = g[i] /\ h[i - 1] = g[i - 1]  BY <3>1, <3>2, <4>1
      <4> QED  BY <1>7, <3>2, <4>1, <4>2
    <3>3. CASE ~ (i <= k)
      <4>1. h[i] = g[k]  BY <3>1, <3>3
      <4>2. h[i - 1] = g[k]
        <5>1. i - 1 <= k => i - 1 = k  BY <1>6, <3>1, <3>3
        <5> QED  BY <3>1, <5>1
      <4> QED  BY <3>3, <4>1, <4>2
    <3> QED  BY <3>2, <3>3
  <2> QED  BY <2>2, <2>3, <2>4, <2>5
<1> HIDE DEF h
<1> DEFINE T == {i \in 0..n : f[i].overflow \/ SweptAlike(levels, i, f[i], h[i])}
<1>9. 0 \in T
  <2>1. /\ f[0].left = order.quantity /\ f[0].trades = <<>> /\ f[0].levels = <<>>
    BY <1>4 DEF SweepStart
  <2>2. h[0].left = order.quantity /\ h[0].trades = <<>> /\ h[0].levels = map
    BY <1>8 DEF base
  <2>3. Cented(<<>>) = <<>>  BY NodesMirrored
  <2>4. Len(<<>>) = 0 /\ 1..0 = {}  OBVIOUS
  <2>5. SweptAlike(levels, 0, f[0], h[0])
    BY <2>1, <2>2, <2>3, <2>4 DEF SweptAlike, Mirrors
  <2> QED  BY <1>1, <2>5
<1>10. ASSUME NEW i \in T \cap (0..(n - 1)) PROVE i + 1 \in T
  <2>1. i \in 0..n /\ i + 1 \in 1..n /\ i + 1 \in 0..n /\ (i + 1) - 1 = i  BY <1>1
  <2>2. SUFFICES ASSUME ~ f[i + 1].overflow PROVE SweptAlike(levels, i + 1, f[i + 1], h[i + 1])
    BY <2>1
  <2>3. ~ f[i].overflow  BY <1>4, <2>1, <2>2
  <2>4. SweptAlike(levels, i, f[i], h[i])  BY <2>3
  <2>5. f[i] \in Sweeping /\ h[i] \in RustSweeping(D)  BY <1>4, <1>8, <2>1
  <2>6. f[i + 1] = MatchLevel(order, f[i], levels[i + 1])  BY <1>4, <2>1
  <2>7. h[i + 1] = IF Crossing(order, levels[i + 1].price)
                   THEN Rust!MatchLevel(h[i], Rust!Cents(levels[i + 1].price)) ELSE h[i]
    <3>1. h[i + 1] = IF i + 1 <= k THEN Rust!MatchLevel(h[i], walk[i + 1]) ELSE h[i]
      BY <1>8, <2>1
    <3>2. i + 1 <= k => walk[i + 1] = Rust!Cents(levels[i + 1].price)
      BY <1>6, <2>1 DEF walk
    <3>3. Crossing(order, levels[i + 1].price) <=> i + 1 <= k  BY <1>2, <2>1
    <3> QED  BY <3>1, <3>2, <3>3
  <2>8. PICK j \in 1..n : j = i + 1 /\ j - 1 = i  BY <2>1
  <2> HIDE DEF T
  <2> QED  BY <1>1, <2>2, <2>4, <2>5, <2>6, <2>7, <2>8, SweptAlikeNext DEF D
<1>11. n \in T
  <2> HIDE DEF T
  <2>1. 0..n \subseteq T  BY <1>1, <1>9, <1>10, UpTo
  <2> QED  BY <1>1, <2>1
<1>12. SweptAlike(levels, n, m, h[n]) /\ m \in Sweeping /\ h[n] \in RustSweeping(D)
  <2>1. n \in 0..n  BY <1>1
  <2> QED  BY <1>4, <1>8, <1>11, <2>1
<1>13. k \in 0..n  OBVIOUS
<1> QED  BY <1>2, <1>8, <1>12, <1>13 DEF base, D, walk, Walk

\* The order as the Rust engine reads it.
AsOrder(order) == [order_id |-> order.order_id, side |-> order.side,
                   price |-> Rust!Cents(order.price), quantity |-> order.quantity]

FullSide(levels) == \A i \in 1..Len(levels) : Full(levels[i])

\* A side of the C++ book whose prices, with others, are of cents of their own, and the
\* side of the Rust book.
SideAlike(side, levels, map, P) ==
    /\ SideOK(side, levels) /\ FullSide(levels)
    /\ PricesOf(levels) \subseteq P
    /\ Mirrors(levels, map)

\* What the order has left, and its trades, are the same.
SameOutcome(m, y) == y.left = m.left /\ y.trades = Cented(m.trades)

LEMMA MatchOrderAlike ==
    ASSUME NEW order, order.quantity \in Remaining, NEW levels, NEW map,
           NEW P, P \subseteq Nat, Distinct(P), order.price \in P,
           SideAlike(Opposite(order.side), levels, map, P),
           NEW m, m = MatchOrder(order, levels), ~ m.overflow,
           NEW y, y = Rust!MatchOrder(AsOrder(order), map)
    PROVE  /\ SameOutcome(m, y)
           /\ Mirrors(m.levels, y.levels) /\ FullSide(m.levels)
           /\ PricesOf(m.levels) \subseteq P
<1> DEFINE D == CentsOf(levels)
           n == Len(levels)
           base == [left |-> order.quantity, trades |-> <<>>, levels |-> map]
           side == Opposite(order.side)
<1>0. /\ SideOK(side, levels) /\ \A i \in 1..Len(levels) : Full(levels[i])
      /\ PricesOf(levels) \subseteq P /\ Mirrors(levels, map)
  BY DEF SideAlike, FullSide
<1>1. /\ n \in Nat /\ levels \in Seq(PriceLevel)
      /\ \A i \in 1..n : /\ Rust!Cents(levels[i].price) \in D /\ levels[i] \in PriceLevel
                         /\ levels[i].price \in P
  BY <1>0, EvenSide DEF Even
<1>2. PICK k \in 0..n, x \in RustSweeping(D) :
         /\ SweptAlike(levels, n, m, x) /\ m \in Sweeping
         /\ x = RustSweep(base, Walk(levels, k))
         /\ {p \in D : ~ Rust!Better(side, Rust!Cents(order.price), p)} =
               FirstCents(levels, k)
  BY <1>0, SweepAlike
<1>3. y = [x EXCEPT !.levels = Rust!Keep(@, {p \in DOMAIN @ : @[p].orders # <<>>})]
  <2> DEFINE taker == AsOrder(order)
             crossing == {p \in DOMAIN map : ~ Rust!Better(Opposite(taker.side), taker.price, p)}
             walk == Walk(levels, k)
             r == RustSweep([left |-> taker.quantity, trades |-> <<>>, levels |-> map],
                            Rust!InPriority(Opposite(taker.side), crossing))
  <2>1. y = [r EXCEPT !.levels = Rust!Keep(@, {p \in DOMAIN @ : @[p].orders # <<>>})]
    BY RustMatchOrderIs
  <2>2. taker.side = order.side /\ taker.price = Rust!Cents(order.price)
        /\ taker.quantity = order.quantity
    BY DEF AsOrder
  <2>3. DOMAIN map = D  BY <1>0 DEF Mirrors
  <2>4. crossing = FirstCents(levels, k)
    BY <1>2, <2>2, <2>3
  <2>5. Rust!InPriority(side, FirstCents(levels, k)) = walk
    BY <1>0, WalkIs
  <2>6. r = RustSweep(base, walk)  BY <2>2, <2>4, <2>5
  <2> QED  BY <1>2, <2>1, <2>6
<1> DEFINE live == {p \in D : x.levels[p].orders # <<>>}
<1>4. x.levels \in [D -> RustLevel]  BY DEF RustSweeping
<1>5. /\ y.left = x.left /\ y.trades = x.trades
      /\ y.levels = [p \in live |-> x.levels[p]]
  <2>1. DOMAIN x.levels = D  BY <1>4
  <2>2. y = [x EXCEPT !.levels = Rust!Keep(x.levels, live)]  BY <1>3, <2>1
  <2>3. Rust!Keep(x.levels, live) = [p \in live |-> x.levels[p]]  BY DEF Rust!Keep
  <2> HIDE DEF live
  <2> QED  BY <2>2, <2>3 DEF RustSweeping
<1>6. y.left = m.left /\ y.trades = Cented(m.trades)
  BY <1>2, <1>5 DEF SweptAlike
<1>7. m.levels \in Seq(PriceLevel) /\ Len(m.levels) \in Nat
  BY <1>2 DEF Sweeping, LevelsState
<1>8. ASSUME NEW l \in 1..Len(m.levels)
      PROVE  /\ Full(m.levels[l]) /\ m.levels[l].price \in P
             /\ Rust!Cents(m.levels[l].price) \in live
             /\ x.levels[Rust!Cents(m.levels[l].price)] = AsLevel(m.levels[l])
  <2>1. PICK i \in 1..n : m.levels[l].price = levels[i].price  BY <1>2 DEF SweptAlike
  <2>2. /\ Full(m.levels[l]) /\ m.levels[l].orders # <<>>
        /\ x.levels[Rust!Cents(m.levels[l].price)] = AsLevel(m.levels[l])
    BY <1>2 DEF SweptAlike
  <2>3. m.levels[l] \in PriceLevel  BY <1>7
  <2>4. AsLevel(m.levels[l]).orders # <<>>  BY <2>2, <2>3, AsLevelType
  <2> QED  BY <1>1, <2>1, <2>2, <2>4
<1>9. live = CentsOf(m.levels)
  <2>1. ASSUME NEW p \in live PROVE p \in CentsOf(m.levels)
    <3>1. PICK i \in 1..n : p = Rust!Cents(levels[i].price)  BY DEF CentsOf
    <3>2. PICK l \in 1..Len(m.levels) : m.levels[l].price = levels[i].price
      BY <1>2, <3>1 DEF SweptAlike
    <3> QED  BY <3>1, <3>2 DEF CentsOf
  <2>2. ASSUME NEW p \in CentsOf(m.levels) PROVE p \in live
    <3>1. PICK l \in 1..Len(m.levels) : p = Rust!Cents(m.levels[l].price)  BY DEF CentsOf
    <3> HIDE DEF live
    <3> QED  BY <1>8, <3>1
  <2> HIDE DEF live
  <2> QED  BY <2>1, <2>2
<1>10. Mirrors(m.levels, y.levels)
  <2>1. y.levels \in [live -> RustLevel]  BY <1>4, <1>5
  <2>2. \A l \in 1..Len(m.levels) : y.levels[Rust!Cents(m.levels[l].price)] = AsLevel(m.levels[l])
    <3> HIDE DEF live
    <3> QED  BY <1>5, <1>8
  <2> HIDE DEF live
  <2> QED  BY <1>9, <2>1, <2>2 DEF Mirrors
<1>11. FullSide(m.levels)  BY <1>8 DEF FullSide
<1>12. PricesOf(m.levels) \subseteq P  BY <1>7, <1>8 DEF PricesOf
<1> QED  BY <1>6, <1>10, <1>11, <1>12 DEF SameOutcome

LEMMA SameToSet == \A s : Rust!ToSet(s) = ToSet(s)
  BY DEF Rust!ToSet, ToSet

\* The best levels of a side are those that the Rust book does not prune.
LEMMA PruneAlike ==
    ASSUME NEW side, NEW all, NEW map, NEW P, P \subseteq Nat, Distinct(P),
           SideAlike(side, all, map, P), NEW new, SideOK(side, new), Top(all, new)
    PROVE  SideAlike(side, new, Rust!PruneDepth(side, map), P)
<1> DEFINE n == Len(all)
           k == Len(new)
           walk == Walk(all, n)
           kept == SubSeq(walk, 1, Min({Len(walk), MaxDepthLevels}))
           D == CentsOf(all)
<1>0. /\ SideOK(side, all) /\ \A i \in 1..n : Full(all[i])
      /\ PricesOf(all) \subseteq P /\ Mirrors(all, map)
  BY DEF SideAlike, FullSide
<1>1. /\ n \in Nat /\ k \in Nat /\ k <= n /\ all \in Seq(PriceLevel) /\ new \in Seq(PriceLevel)
      /\ \A i \in 1..k : i \in 1..n /\ new[i] = all[i]
  BY <1>0, PricesDiffer DEF Top
<1>2. \A i \in 1..n : Rust!Cents(all[i].price) \in D /\ all[i].price \in P
  BY <1>0, EvenSide
<1>3. D = FirstCents(all, n)  BY DEF CentsOf, FirstCents
<1>4. n \in 0..n  BY <1>1
<1>5. Rust!InPriority(side, D) = walk  BY <1>0, <1>3, <1>4, WalkIs
<1>6. /\ walk \in Seq(D) /\ Len(walk) = n /\ \A i \in 1..n : walk[i] = Rust!Cents(all[i].price)
  <2>1. walk \in [1..n -> D]  BY <1>2 DEF Walk
  <2> QED  BY <1>1, <2>1 DEF Walk
<1> HIDE DEF walk
<1>7. Min({Len(walk), MaxDepthLevels}) = k
  <2>1. MaxDepthLevels \in Nat  BY LimitsAssumption
  <2>2. Min({n, MaxDepthLevels}) = IF n <= MaxDepthLevels THEN n ELSE MaxDepthLevels
    BY <1>1, <2>1, MinOfTwo
  <2>3. k <= MaxDepthLevels /\ (k < n => k = MaxDepthLevels)  BY DEF Top
  <2> QED  BY <1>1, <1>6, <2>1, <2>2, <2>3
<1>8. ToSet(kept) = CentsOf(new)
  <2>1. kept = SubSeq(walk, 1, k)  BY <1>7
  <2>2. /\ Len(SubSeq(walk, 1, k)) = k /\ SubSeq(walk, 1, k) \in Seq(D)
        /\ \A i \in 1..k : SubSeq(walk, 1, k)[i] = walk[i]
    BY <1>1, <1>6
  <2>3. \A i \in 1..k : kept[i] = Rust!Cents(new[i].price)
    BY <1>1, <1>6, <2>1, <2>2
  <2>4. DOMAIN kept = 1..k  BY <2>1, <2>2
  <2> HIDE DEF kept
  <2> QED  BY <2>3, <2>4 DEF ToSet, CentsOf
<1>9. Rust!PruneDepth(side, map) = [p \in CentsOf(new) |-> map[p]]
  <2>1. DOMAIN map = D  BY <1>0 DEF Mirrors
  <2>2. Rust!PruneDepth(side, map) = Rust!Keep(map, Rust!ToSet(SubSeq(walk, 1,
                                                     Rust!Min({Len(walk), MaxDepthLevels}))))
    BY <1>5, <2>1 DEF Rust!PruneDepth
  <2>3. Rust!PruneDepth(side, map) = Rust!Keep(map, ToSet(kept))
    BY <2>2, SameToSet, SameMin
  <2> HIDE DEF kept
  <2> QED  BY <1>8, <2>3 DEF Rust!Keep
<1>10. \A i \in 1..k : /\ map[Rust!Cents(new[i].price)] = AsLevel(new[i])
                       /\ Full(new[i]) /\ new[i].price \in P
  BY <1>0, <1>1, <1>2 DEF Mirrors
<1>11. Mirrors(new, Rust!PruneDepth(side, map))
  <2>1. \A p \in CentsOf(new) : map[p] \in RustLevel
    <3>1. ASSUME NEW p \in CentsOf(new) PROVE map[p] \in RustLevel
      <4>1. PICK i \in 1..k : p = Rust!Cents(new[i].price)  BY DEF CentsOf
      <4>2. p \in D  BY <1>1, <1>2, <4>1
      <4> QED  BY <1>0, <4>2 DEF Mirrors
    <3> QED  BY <3>1
  <2>2. \A i \in 1..k : Rust!Cents(new[i].price) \in CentsOf(new)  BY DEF CentsOf
  <2> QED  BY <1>9, <1>10, <2>1, <2>2 DEF Mirrors
<1>12. PricesOf(new) \subseteq P  BY <1>1, <1>10 DEF PricesOf
<1>13. FullSide(new)  BY <1>10 DEF FullSide
<1> QED  BY <1>11, <1>12, <1>13 DEF SideAlike

\* The level that the Rust book has at a price, or makes.
EntryOf(map, c) == IF c \in DOMAIN map THEN map[c] ELSE [total_quantity |-> 0, orders |-> <<>>]
Grew(level, order) ==
    [total_quantity |-> (level.total_quantity + order.quantity) % QuantityModulus,
     orders |-> Append(level.orders, [order_id |-> order.order_id, quantity |-> order.quantity])]

LEMMA WithAlike ==
    ASSUME NEW level \in PriceLevel, Full(level), NEW order, order.quantity \in Remaining,
           order.quantity > 0, order.order_id \in OrderIds, order.timestamp \in Nat
    PROVE  /\ AsLevel(With(level, order)) = Grew(AsLevel(level), order)
           /\ Full(With(level, order)) /\ With(level, order).price = level.price
<1> DEFINE node == [order_id |-> order.order_id, quantity |-> order.quantity,
                    timestamp |-> order.timestamp]
           s == level.orders
           new == With(level, order)
<1>1. s \in Seq(OrderNode)  BY DEF PriceLevel
<1>2. node \in OrderNode  BY DEF OrderNode, Remaining
<1>3. /\ new.price = level.price /\ new.orders = Append(s, node)
      /\ new.total_quantity = (level.total_quantity + order.quantity) % QuantityModulus
  BY DEF With
<1>4. AsNode(node) = [order_id |-> order.order_id, quantity |-> order.quantity]
      /\ node.quantity = order.quantity
  BY DEF AsNode
<1> HIDE DEF node, new
<1>5. AsNodes(Append(s, node)) = Append(AsNodes(s), AsNode(node))
  <2> HIDE DEF s
  <2> QED  BY <1>1, <1>2, AsNodesAppend
<1>6. AsLevel(new) = Grew(AsLevel(level), order)
  BY <1>3, <1>4, <1>5 DEF AsLevel, Grew
<1>7. Full(new)
  <2>1. \A j \in 1..Len(s) : s[j].quantity > 0  BY DEF Full
  <2>2. /\ Len(Append(s, node)) = Len(s) + 1 /\ Len(s) \in Nat
        /\ \A j \in 1..Len(s) : Append(s, node)[j] = s[j]
        /\ Append(s, node)[Len(s) + 1] = node
    BY <1>1, <1>2
  <2> HIDE DEF s
  <2>3. \A j \in 1..(Len(s) + 1) : j \in 1..Len(s) \/ j = Len(s) + 1  BY <2>2
  <2>4. \A j \in 1..(Len(s) + 1) : Append(s, node)[j].quantity > 0
    BY <1>4, <2>1, <2>2, <2>3
  <2> QED  BY <1>3, <2>2, <2>4 DEF Full
<1> QED  BY <1>3, <1>6, <1>7 DEF new

\* An order is to rest on a side that is the same in both books.
Arrives(order, side, levels, map, P) ==
    /\ P \subseteq Nat /\ Distinct(P) /\ SideAlike(side, levels, map, P)
    /\ RestOK(order, levels) /\ order.price \in P /\ order.quantity > 0

\* The level at which it rests.
LEMMA BehindAlike ==
    ASSUME NEW side, NEW levels, NEW map, NEW P, NEW order,
           Arrives(order, side, levels, map, P), NEW level, Behind(levels, order, level),
           NEW new, new = Grew(EntryOf(map, Rust!Cents(order.price)), order)
    PROVE  AsLevel(level) = new /\ Full(level)
<1> DEFINE c == Rust!Cents(order.price)
           empty == [price |-> order.price, total_quantity |-> 0, orders |-> <<>>]
<1>0. /\ SideOK(side, levels) /\ \A i \in 1..Len(levels) : Full(levels[i])
      /\ PricesOf(levels) \subseteq P /\ Mirrors(levels, map)
      /\ P \subseteq Nat /\ Distinct(P)
      /\ RestOK(order, levels) /\ order.price \in P /\ order.quantity > 0
  BY DEF Arrives, SideAlike, FullSide
<1>1. \A i \in 1..Len(levels) : /\ levels[i] \in PriceLevel /\ levels[i].price \in P
                                /\ Rust!Cents(levels[i].price) \in CentsOf(levels)
  BY <1>0, EvenSide
<1>2. /\ order.quantity \in Remaining /\ order.order_id \in OrderIds /\ order.timestamp \in Nat
      /\ order.price \in Prices
  BY <1>0 DEF RestOK
<1>3. DOMAIN map = CentsOf(levels)  BY <1>0 DEF Mirrors
<1>4. CASE \E i \in 1..Len(levels) : levels[i].price = order.price /\ level = With(levels[i], order)
  <2>1. PICK i \in 1..Len(levels) : levels[i].price = order.price /\ level = With(levels[i], order)
    BY <1>4
  <2>2. c \in DOMAIN map /\ map[c] = AsLevel(levels[i])  BY <1>0, <1>1, <1>3, <2>1 DEF Mirrors
  <2>3. EntryOf(map, c) = AsLevel(levels[i])  BY <2>2 DEF EntryOf
  <2>4. PICK old \in PriceLevel : old = levels[i] /\ Full(old)  BY <1>0, <1>1
  <2>5. AsLevel(With(old, order)) = Grew(AsLevel(old), order) /\ Full(With(old, order))
    BY <1>0, <1>2, <2>4, WithAlike
  <2> QED  BY <2>1, <2>3, <2>4, <2>5
<1>5. CASE /\ \A i \in 1..Len(levels) : levels[i].price # order.price
           /\ level = With(empty, order)
  <2>1. c \notin DOMAIN map
    <3>1. SUFFICES ASSUME c \in CentsOf(levels) PROVE FALSE  BY <1>3
    <3>2. PICK i \in 1..Len(levels) : c = Rust!Cents(levels[i].price)  BY <3>1 DEF CentsOf
    <3>3. levels[i].price \in P  BY <1>1
    <3>4. levels[i].price = order.price  BY <1>0, <3>2, <3>3 DEF Distinct
    <3> QED  BY <1>5, <3>4
  <2>2. empty \in PriceLevel /\ empty.orders = <<>> /\ empty.total_quantity = 0
    <3>1. 0 \in 0..(QuantityModulus - 1)  BY QuantitiesAssumption
    <3>2. <<>> \in Seq(OrderNode)  OBVIOUS
    <3> QED  BY <1>2, <3>1, <3>2 DEF PriceLevel
  <2> HIDE DEF empty
  <2>3. Full(empty)
    <3>1. 1..Len(<<>>) = {}  OBVIOUS
    <3> QED  BY <2>2, <3>1 DEF Full
  <2>4. AsLevel(empty) = [total_quantity |-> 0, orders |-> <<>>]
    BY <2>2, NodesMirrored DEF AsLevel
  <2>5. EntryOf(map, c) = AsLevel(empty)  BY <2>1, <2>4 DEF EntryOf
  <2>6. AsLevel(With(empty, order)) = Grew(AsLevel(empty), order) /\ Full(With(empty, order))
    BY <1>0, <1>2, <2>2, <2>3, WithAlike
  <2> QED  BY <1>5, <2>5, <2>6
<1> QED  BY <1>4, <1>5 DEF Behind

\* The map in which an order has joined its level.
Entered(map, c, level) == [p \in DOMAIN map \cup {c} |-> IF p = c THEN level ELSE map[p]]

LEMMA EnteredAlike ==
    ASSUME NEW side \in Sides, NEW levels, NEW map, NEW P, P \subseteq Nat, Distinct(P),
           SideAlike(side, levels, map, P), NEW order, RestOK(order, levels),
           order.price \in P, order.quantity > 0,
           NEW joined, SideOK(side, joined), Grown(levels, order, joined),
           NEW c, c = Rust!Cents(order.price), NEW new, new = Grew(EntryOf(map, c), order)
    PROVE  SideAlike(side, joined, Entered(map, c, new), P)
<1> DEFINE D == CentsOf(levels)
           n == Len(joined)
           r == Entered(map, c, new)
<1>0. /\ SideOK(side, levels) /\ \A i \in 1..Len(levels) : Full(levels[i])
      /\ PricesOf(levels) \subseteq P /\ Mirrors(levels, map)
  BY DEF SideAlike, FullSide
<1>1. \A i \in 1..Len(levels) : /\ levels[i] \in PriceLevel /\ levels[i].price \in P
                                /\ Rust!Cents(levels[i].price) \in CentsOf(levels)
  BY <1>0, EvenSide
<1>2. /\ n \in Nat /\ joined \in Seq(PriceLevel)
      /\ \A k \in 1..n : joined[k] \in PriceLevel
      /\ \A k, l \in 1..n : joined[k].price = joined[l].price => k = l
  BY PricesDiffer
<1>3. PICK place \in 1..n : joined[place].price = order.price /\ Behind(levels, order, joined[place])
  BY DEF Grown
<1>4. AsLevel(joined[place]) = new /\ Full(joined[place])
  <2>1. PICK level : level = joined[place] /\ Behind(levels, order, level)  BY <1>3
  <2>2. Arrives(order, side, levels, map, P)  BY DEF Arrives
  <2>3. AsLevel(level) = new /\ Full(level)  BY <2>1, <2>2, BehindAlike
  <2> QED  BY <2>1, <2>3
<1>5. new \in RustLevel  BY <1>2, <1>3, <1>4, AsLevelType
<1>6. PricesOf(joined) \subseteq P
  <2>1. PricesOf(joined) = PricesOf(levels) \cup {order.price}  BY <1>0, JoinedPrices
  <2> QED  BY <1>0, <2>1
<1>7. DOMAIN map = D /\ map \in [D -> RustLevel]  BY <1>0 DEF Mirrors
<1>8. r \in [D \cup {c} -> RustLevel]  BY <1>5, <1>7 DEF Entered
<1>9. ASSUME NEW k \in 1..n
      PROVE  /\ Rust!Cents(joined[k].price) \in D \cup {c}
             /\ r[Rust!Cents(joined[k].price)] = AsLevel(joined[k])
             /\ Full(joined[k])
  <2>1. CASE joined[k].price = order.price
    <3>1. k = place  BY <1>2, <1>3, <2>1
    <3>2. r[c] = new  BY DEF Entered
    <3> QED  BY <1>4, <2>1, <3>1, <3>2
  <2>2. CASE joined[k].price # order.price
    <3>1. PICK j \in 1..Len(levels) : joined[k] = levels[j]  BY <2>2 DEF Grown
    <3>2. Rust!Cents(levels[j].price) # c  BY <1>1, <2>2, <3>1 DEF Distinct
    <3>3. Rust!Cents(levels[j].price) \in D /\ map[Rust!Cents(levels[j].price)] = AsLevel(levels[j])
      BY <1>0, <1>1 DEF Mirrors
    <3>4. r[Rust!Cents(levels[j].price)] = map[Rust!Cents(levels[j].price)]
      BY <1>7, <3>2, <3>3 DEF Entered
    <3> QED  BY <1>0, <3>1, <3>3, <3>4
  <2> QED  BY <2>1, <2>2
<1>10. CentsOf(joined) = D \cup {c}
  <2>1. ASSUME NEW p \in D PROVE p \in CentsOf(joined)
    <3>1. PICK j \in 1..Len(levels) : p = Rust!Cents(levels[j].price)  BY DEF CentsOf
    <3>2. \E k \in 1..n : joined[k].price = levels[j].price
      <4>1. CASE levels[j].price = order.price  BY <1>3, <4>1
      <4>2. CASE levels[j].price # order.price
        <5>1. PICK k \in 1..n : joined[k] = levels[j]  BY <4>2 DEF Grown
        <5> QED  BY <5>1
      <4> QED  BY <4>1, <4>2
    <3> QED  BY <3>1, <3>2 DEF CentsOf
  <2>2. c \in CentsOf(joined)  BY <1>3 DEF CentsOf
  <2>3. ASSUME NEW p \in CentsOf(joined) PROVE p \in D \cup {c}
    <3>1. PICK k \in 1..n : p = Rust!Cents(joined[k].price)  BY DEF CentsOf
    <3> QED  BY <1>9, <3>1
  <2> QED  BY <2>1, <2>2, <2>3
<1>11. Mirrors(joined, r)  BY <1>8, <1>9, <1>10 DEF Mirrors
<1>12. FullSide(joined)  BY <1>9 DEF FullSide
<1> QED  BY <1>6, <1>11, <1>12 DEF SideAlike

LEMMA RustRestIs ==
    ASSUME NEW map, NEW taker, NEW left
    PROVE  Rust!Rest(map, taker, left) =
              Rust!PruneDepth(taker.side,
                 Entered(map, taker.price,
                         Grew(EntryOf(map, taker.price),
                              [order_id |-> taker.order_id, quantity |-> left])))
BY DEF Rust!Rest, Entered, Grew, EntryOf

LEMMA RestAlike ==
    ASSUME NEW side \in Sides, NEW levels, NEW map, NEW P, P \subseteq Nat, Distinct(P),
           SideAlike(side, levels, map, P), Len(levels) <= MaxDepthLevels,
           NEW order, order.side = side, RestOK(order, levels),
           order.price \in P, order.quantity > 0,
           NEW taker, taker.side = side, taker.order_id = order.order_id,
           taker.price = Rust!Cents(order.price)
    PROVE  SideAlike(side, Rest(levels, order), Rust!Rest(map, taker, order.quantity), P)
<1> DEFINE c == Rust!Cents(order.price)
           new == Grew(EntryOf(map, c), order)
           all == Entered(map, c, new)
<1>1. SideOK(side, levels)  BY DEF SideAlike
<1>2. PICK joined : /\ SideOK(side, joined) /\ Grown(levels, order, joined)
                    /\ Top(joined, Rest(levels, order))
  BY <1>1, RestIsTop
<1>3. SideOK(side, Rest(levels, order))  BY <1>1, RestJoins
<1>4. SideAlike(side, joined, all, P)  BY <1>2, EnteredAlike
<1>5. SideAlike(side, Rest(levels, order), Rust!PruneDepth(side, all), P)
  <2> HIDE DEF all
  <2> QED  BY <1>2, <1>3, <1>4, PruneAlike
<1>6. Grew(EntryOf(map, c), [order_id |-> taker.order_id, quantity |-> order.quantity]) = new
  BY DEF Grew
<1>7. Rust!Rest(map, taker, order.quantity) = Rust!PruneDepth(side, all)
  BY <1>6, RustRestIs
<1> QED  BY <1>5, <1>7

LEMMA SameRemoveAt == \A s, i : Rust!RemoveAt(s, i) = RemoveAt(s, i)
  BY DEF Rust!RemoveAt, RemoveAt

\* find: the level of a price, wherever it is.
LEMMA FindIs ==
    ASSUME NEW side, NEW levels, SideOK(side, levels), NEW price \in Nat
    PROVE  Find(side, levels, price) = {i \in 1..Len(levels) : levels[i].price = price}
<1>1. /\ levels \in Seq(PriceLevel) /\ Len(levels) \in Nat /\ DOMAIN levels = 1..Len(levels)
      /\ \A i \in 1..Len(levels) : levels[i].price \in Nat
  <2>1. /\ levels \in Seq(PriceLevel) /\ Len(levels) \in Nat
        /\ \A i \in 1..Len(levels) : levels[i].price \in Nat
    BY PricesDiffer
  <2> QED  BY <2>1, LenProperties
<1>2. PICK c : Splits(side, levels, price, c)  BY LowerBoundSplits
<1>3. ASSUME NEW i \in 1..Len(levels), levels[i].price = price
      PROVE  i = LowerBound(side, levels, price)
  <2>1. c \in 0..Len(levels) /\ LowerBound(side, levels, price) = c + 1  BY <1>2 DEF Splits
  <2>2. ~ Better(side, levels[i].price, price) /\ ~ Better(side, price, levels[i].price)
    BY <1>3 DEF Better
  <2>3. i \notin 1..c  BY <1>2, <2>2 DEF Splits
  <2>4. i \in (c + 1)..Len(levels)  BY <1>1, <2>1, <2>3
  <2>5. i = c + 1  BY <1>2, <2>2, <2>4 DEF Splits
  <2> QED  BY <2>1, <2>5
<1> QED  BY <1>1, <1>3 DEF Find

\* The place of an order in a level, for both books.
First(orders, id) == {j \in 1..Len(orders) : /\ orders[j].order_id = id
                                             /\ \A k \in 1..(j - 1) : orders[k].order_id # id}

LEMMA FirstAlike ==
    ASSUME NEW s \in Seq(OrderNode), NEW id
    PROVE  /\ First(AsNodes(s), id) = First(s, id)
           /\ \A i, j \in First(s, id) : i = j
<1>1. Len(s) \in Nat /\ Len(AsNodes(s)) = Len(s)  BY AsNodesType, LenProperties
<1>2. \A j \in 1..Len(s) : AsNodes(s)[j].order_id = s[j].order_id  BY DEF AsNodes, AsNode
<1>3. \A j \in 1..Len(s) : \A k \in 1..(j - 1) : k \in 1..Len(s)  BY <1>1
<1>4. First(AsNodes(s), id) = First(s, id)  BY <1>1, <1>2, <1>3 DEF First
<1>5. ASSUME NEW i \in First(s, id), NEW j \in First(s, id), i < j PROVE FALSE
  <2>1. i \in 1..Len(s) /\ j \in 1..Len(s) /\ s[i].order_id = id  BY DEF First
  <2>2. i \in 1..(j - 1)  BY <1>1, <1>5, <2>1
  <2>3. \A k \in 1..(j - 1) : s[k].order_id # id  BY DEF First
  <2> QED  BY <2>1, <2>2, <2>3
<1>6. \A i \in First(s, id) : i \in Nat  BY <1>1 DEF First
<1>7. \A i, j \in First(s, id) : i = j  BY <1>5, <1>6
<1> QED  BY <1>4, <1>7

\* Where an order is found in the C++ book, and in the Rust book.
FoundAt(levels, id, price, i, j) ==
    i \in 1..Len(levels) /\ levels[i].price = price /\ j \in First(levels[i].orders, id)

LEMMA FoundIs ==
    ASSUME NEW side, NEW id, NEW price \in Nat, SideOK(side, Levels(side))
    PROVE  \A i, j : FoundAt(Levels(side), id, price, i, j) <=> <<i, j>> \in Found(side, id, price)
<1> DEFINE levels == Levels(side)
           hit(i, j) == levels[i].orders[j].order_id = id
           first(i) == {j \in DOMAIN levels[i].orders :
                           hit(i, j) /\ \A k \in 1..(j - 1) : ~ hit(i, k)}
<1>1. Found(side, id, price) = UNION {{i} \X first(i) : i \in Find(side, levels, price)}
  BY DEF Found
<1>2. Find(side, levels, price) = {i \in 1..Len(levels) : levels[i].price = price}  BY FindIs
<1>3. ASSUME NEW i \in 1..Len(levels) PROVE first(i) = First(levels[i].orders, id)
  <2>1. levels[i] \in PriceLevel  BY PricesDiffer
  <2>2. levels[i].orders \in Seq(OrderNode)  BY <2>1 DEF PriceLevel
  <2>3. DOMAIN levels[i].orders = 1..Len(levels[i].orders)  BY <2>2, LenProperties
  <2> HIDE DEF levels
  <2> QED  BY <2>3 DEF First
<1> HIDE DEF levels, first
<1>4. ASSUME NEW i, NEW j
      PROVE  FoundAt(levels, id, price, i, j) <=> <<i, j>> \in Found(side, id, price)
  <2>1. <<i, j>> \in Found(side, id, price) <=>
           \E k \in Find(side, levels, price) : <<i, j>> \in {k} \X first(k)
    BY <1>1
  <2>2. \A k : <<i, j>> \in {k} \X first(k) <=> i = k /\ j \in first(k)  OBVIOUS
  <2>3. <<i, j>> \in Found(side, id, price) <=>
           i \in Find(side, levels, price) /\ j \in first(i)
    BY <2>1, <2>2
  <2> QED  BY <1>2, <1>3, <2>3 DEF FoundAt
<1> QED  BY <1>4 DEF levels

LEMMA FoundAlike ==
    ASSUME NEW side, NEW levels, NEW map, NEW P, P \subseteq Nat, Distinct(P),
           SideAlike(side, levels, map, P), NEW price \in P, NEW id,
           NEW c, c = Rust!Cents(price)
    PROVE  \A j : j \in Rust!Found(map, id, c) <=> \E i : FoundAt(levels, id, price, i, j)
<1>1. /\ SideOK(side, levels) /\ \A i \in 1..Len(levels) : Full(levels[i])
      /\ PricesOf(levels) \subseteq P /\ Mirrors(levels, map)
  BY DEF SideAlike, FullSide
<1>2. \A i \in 1..Len(levels) : /\ levels[i] \in PriceLevel /\ levels[i].price \in P
                                /\ Rust!Cents(levels[i].price) \in CentsOf(levels)
  BY <1>1, EvenSide
<1>3. DOMAIN map = CentsOf(levels)  BY <1>1 DEF Mirrors
<1>4. ASSUME NEW i \in 1..Len(levels), levels[i].price = price
      PROVE  c \in DOMAIN map /\ Rust!Found(map, id, c) = First(levels[i].orders, id)
  <2>1. c \in DOMAIN map /\ map[c] = AsLevel(levels[i])  BY <1>1, <1>2, <1>3, <1>4 DEF Mirrors
  <2>2. map[c].orders = AsNodes(levels[i].orders)  BY <2>1 DEF AsLevel
  <2>3. levels[i].orders \in Seq(OrderNode)  BY <1>2 DEF PriceLevel
  <2>4. /\ AsNodes(levels[i].orders) \in Seq(RustNode)
        /\ First(AsNodes(levels[i].orders), id) = First(levels[i].orders, id)
    BY <2>3, AsNodesType, FirstAlike
  <2>5. DOMAIN map[c].orders = 1..Len(map[c].orders)  BY <2>2, <2>4, LenProperties
  <2>6. Rust!Found(map, id, c) = First(map[c].orders, id)  BY <2>1, <2>5 DEF Rust!Found, First
  <2> QED  BY <2>1, <2>2, <2>4, <2>6
<1>5. ASSUME c \in DOMAIN map PROVE \E i \in 1..Len(levels) : levels[i].price = price
  <2>1. PICK i \in 1..Len(levels) : c = Rust!Cents(levels[i].price)  BY <1>3, <1>5 DEF CentsOf
  <2>2. levels[i].price = price  BY <1>2, <2>1 DEF Distinct
  <2> QED  BY <2>2
<1>6. c \notin DOMAIN map => Rust!Found(map, id, c) = {}  BY DEF Rust!Found
<1>7. ASSUME NEW j PROVE j \in Rust!Found(map, id, c) <=> \E i : FoundAt(levels, id, price, i, j)
  <2>1. ASSUME j \in Rust!Found(map, id, c) PROVE \E i : FoundAt(levels, id, price, i, j)
    <3>1. c \in DOMAIN map  BY <1>6, <2>1
    <3>2. PICK i \in 1..Len(levels) : levels[i].price = price  BY <1>5, <3>1
    <3> QED  BY <1>4, <2>1, <3>2 DEF FoundAt
  <2>2. ASSUME NEW i, FoundAt(levels, id, price, i, j) PROVE j \in Rust!Found(map, id, c)
    BY <1>4, <2>2 DEF FoundAt
  <2> QED  BY <2>1, <2>2
<1> QED  BY <1>7

\* A level of one price replaced, or removed, in both books.
Replaced(map, c, level) == [map EXCEPT ![c] = level]
Dropped(map, c) == Rust!Keep(map, DOMAIN map \ {c})

LEMMA PutAlike ==
    ASSUME NEW side, NEW levels, NEW map, NEW P, P \subseteq Nat, Distinct(P),
           SideAlike(side, levels, map, P), NEW i \in 1..Len(levels),
           NEW kept, Good(kept), Full(kept), kept.price = levels[i].price,
           NEW c, c = Rust!Cents(levels[i].price),
           NEW new, new = Put(levels, i, kept), NEW r, r = Replaced(map, c, AsLevel(kept))
    PROVE  SideAlike(side, new, r, P)
<1> DEFINE n == Len(levels)
           D == CentsOf(levels)
<1>1. /\ SideOK(side, levels) /\ \A k \in 1..n : Full(levels[k])
      /\ PricesOf(levels) \subseteq P /\ Mirrors(levels, map)
  BY DEF SideAlike, FullSide
<1>2. \A k \in 1..n : levels[k].price \in P /\ Rust!Cents(levels[k].price) \in D
  BY <1>1, EvenSide
<1>3. /\ SideOK(side, new) /\ Len(new) = n
      /\ \A k \in 1..n : new[k] = IF k = i THEN kept ELSE levels[k]
  BY <1>1, ReplaceLevel
<1>4. \A k, l \in 1..n : levels[k].price = levels[l].price => k = l  BY <1>1, PricesDiffer
<1>5. map \in [D -> RustLevel] /\ c \in D  BY <1>1, <1>2 DEF Mirrors
<1>6. AsLevel(kept) \in RustLevel
  <2>1. kept \in PriceLevel  BY DEF Good
  <2> QED  BY <2>1, AsLevelType
<1> HIDE DEF D, n
<1>7. \A k \in 1..n : new[k].price = levels[k].price  BY <1>3
<1>8. CentsOf(new) = D  BY <1>3, <1>7 DEF CentsOf, D, n
<1>9. r = [map EXCEPT ![c] = AsLevel(kept)] /\ r \in [D -> RustLevel]
  BY <1>5, <1>6 DEF Replaced
<1>10. ASSUME NEW k \in 1..n
       PROVE  Full(new[k]) /\ r[Rust!Cents(new[k].price)] = AsLevel(new[k])
  <2>1. CASE k = i  BY <1>3, <1>5, <1>9, <2>1
  <2>2. CASE k # i
    <3>1. levels[k].price # levels[i].price  BY <1>4, <2>2 DEF n
    <3>2. Rust!Cents(levels[k].price) # c  BY <1>2, <3>1 DEF Distinct, n
    <3>3. new[k] = levels[k] /\ Full(levels[k])  BY <1>1, <1>3, <2>2
    <3>4. map[Rust!Cents(levels[k].price)] = AsLevel(levels[k])  BY <1>1 DEF Mirrors, n
    <3>5. Rust!Cents(levels[k].price) \in D  BY <1>2
    <3> QED  BY <1>5, <1>9, <3>2, <3>3, <3>4, <3>5
  <2> QED  BY <2>1, <2>2
<1>11. Mirrors(new, r)  BY <1>3, <1>8, <1>9, <1>10 DEF Mirrors
<1>12. PricesOf(new) \subseteq P
  <2>1. new \in Seq(PriceLevel)  BY <1>3 DEF SideOK
  <2>2. DOMAIN new = 1..n  BY <1>3, <2>1, LenProperties
  <2> QED  BY <1>2, <1>7, <2>2 DEF PricesOf
<1>13. FullSide(new)  BY <1>3, <1>10 DEF FullSide
<1> QED  BY <1>3, <1>11, <1>12, <1>13 DEF SideAlike

LEMMA RemoveAlike ==
    ASSUME NEW side, NEW levels, NEW map, NEW P, P \subseteq Nat, Distinct(P),
           SideAlike(side, levels, map, P), NEW i \in 1..Len(levels),
           NEW c, c = Rust!Cents(levels[i].price),
           NEW new, new = RemoveAt(levels, i), NEW r, r = Dropped(map, c)
    PROVE  SideAlike(side, new, r, P)
<1> DEFINE n == Len(levels)
           D == CentsOf(levels)
<1>1. /\ SideOK(side, levels) /\ \A k \in 1..n : Full(levels[k])
      /\ PricesOf(levels) \subseteq P /\ Mirrors(levels, map)
  BY DEF SideAlike, FullSide
<1>2. n \in Nat /\ \A k \in 1..n : levels[k].price \in P /\ Rust!Cents(levels[k].price) \in D
  BY <1>1, EvenSide
<1>3. SideOK(side, new)  BY <1>1, RemoveLevel
<1>4. /\ new \in Seq(PriceLevel) /\ Len(new) = n - 1
      /\ \A k \in 1..(n - 1) : new[k] = IF k < i THEN levels[k] ELSE levels[k + 1]
  <2>1. levels \in Seq(PriceLevel)  BY <1>1 DEF SideOK
  <2> QED  BY <2>1, RemoveAtFacts, ZenonT(40)
<1>5. \A k, l \in 1..n : levels[k].price = levels[l].price => k = l  BY <1>1, PricesDiffer
<1>6. \A k, l \in 1..n : k # l => Rust!Cents(levels[k].price) # Rust!Cents(levels[l].price)
  BY <1>2, <1>5 DEF Distinct
<1>7. map \in [D -> RustLevel]  BY <1>1 DEF Mirrors
<1>8. r \in [D \ {c} -> RustLevel] /\ \A p \in D \ {c} : r[p] = map[p]  BY <1>7 DEF Dropped, Rust!Keep
<1>9. \A k \in 1..n : map[Rust!Cents(levels[k].price)] = AsLevel(levels[k])  BY <1>1 DEF Mirrors
<1> HIDE DEF n
<1>10. ASSUME NEW k \in 1..(n - 1)
       PROVE  \E l \in 1..n : l # i /\ new[k] = levels[l]
  <2>1. CASE k < i
    <3>1. k \in 1..n /\ k # i /\ new[k] = levels[k]  BY <1>2, <1>4, <2>1
    <3> QED  BY <3>1
  <2>2. CASE ~ (k < i)
    <3>1. k + 1 \in 1..n /\ k + 1 # i /\ new[k] = levels[k + 1]  BY <1>2, <1>4, <2>2
    <3> QED  BY <3>1
  <2> QED  BY <2>1, <2>2
<1>11. ASSUME NEW l \in 1..n, l # i PROVE \E k \in 1..(n - 1) : new[k] = levels[l]
  <2>1. CASE l < i
    <3>1. l \in 1..(n - 1)  BY <1>2, <2>1 DEF n
    <3> QED  BY <1>4, <2>1, <3>1
  <2>2. CASE ~ (l < i)
    <3>1. l - 1 \in 1..(n - 1) /\ ~ (l - 1 < i) /\ (l - 1) + 1 = l  BY <1>2, <1>11, <2>2 DEF n
    <3>2. new[l - 1] = levels[(l - 1) + 1]  BY <1>4, <3>1
    <3> QED  BY <3>1, <3>2
  <2> QED  BY <2>1, <2>2
<1>12. ASSUME NEW k \in 1..(n - 1)
       PROVE  /\ Rust!Cents(new[k].price) \in D \ {c} /\ new[k].price \in P /\ Full(new[k])
              /\ r[Rust!Cents(new[k].price)] = AsLevel(new[k])
  <2>1. PICK l \in 1..n : l # i /\ new[k] = levels[l]  BY <1>10
  <2>2. Rust!Cents(levels[l].price) # c  BY <1>6, <2>1 DEF n
  <2>3. Rust!Cents(levels[l].price) \in D \ {c}  BY <1>2, <2>2
  <2>4. r[Rust!Cents(levels[l].price)] = AsLevel(levels[l])  BY <1>8, <1>9, <2>3
  <2> QED  BY <1>1, <1>2, <2>1, <2>3, <2>4
<1>13. CentsOf(new) = D \ {c}
  <2>1. ASSUME NEW p \in D \ {c} PROVE p \in CentsOf(new)
    <3>1. PICK l \in 1..n : p = Rust!Cents(levels[l].price)  BY DEF CentsOf, n
    <3>2. l # i  BY <2>1, <3>1
    <3>3. PICK k \in 1..(n - 1) : new[k] = levels[l]  BY <1>11, <3>2
    <3> QED  BY <1>4, <3>1, <3>3 DEF CentsOf
  <2>2. ASSUME NEW p \in CentsOf(new) PROVE p \in D \ {c}
    <3>1. PICK k \in 1..(n - 1) : p = Rust!Cents(new[k].price)  BY <1>4 DEF CentsOf
    <3> QED  BY <1>12, <3>1
  <2> QED  BY <2>1, <2>2
<1>14. Mirrors(new, r)
  <2> HIDE DEF D
  <2> QED  BY <1>4, <1>8, <1>12, <1>13 DEF Mirrors
<1>15. PricesOf(new) \subseteq P
  <2>1. DOMAIN new = 1..(n - 1)  BY <1>4, LenProperties
  <2> QED  BY <1>12, <2>1 DEF PricesOf
<1>16. FullSide(new)  BY <1>4, <1>12 DEF FullSide
<1> QED  BY <1>3, <1>14, <1>15, <1>16 DEF SideAlike

\* A level of the Rust book without its j-th order, or with a new quantity of it.
RustWithout(level, j) ==
    [total_quantity |-> (level.total_quantity - level.orders[j].quantity) % QuantityModulus,
     orders |-> Rust!RemoveAt(level.orders, j)]
RustRequantified(level, j, q) ==
    [level EXCEPT
        !.orders[j].quantity = q,
        !.total_quantity =
            (level.total_quantity - level.orders[j].quantity + q) % QuantityModulus]

LEMMA WithoutAlike ==
    ASSUME NEW level \in PriceLevel, Full(level), NEW j \in 1..Len(level.orders),
           NEW rest, rest = Without(level, j)
    PROVE  /\ AsLevel(rest) = RustWithout(AsLevel(level), j)
           /\ Full(rest) /\ rest.price = level.price
           /\ rest.orders \in Seq(OrderNode)
<1> DEFINE s == level.orders
           n == Len(s)
           t == RemoveAt(s, j)
           a == AsNodes(s)
           b == RemoveAt(a, j)
           total == (level.total_quantity - s[j].quantity) % QuantityModulus
<1>1. s \in Seq(OrderNode) /\ n \in Nat /\ j \in 1..n  BY LenProperties DEF PriceLevel
<1>2. rest.orders = t /\ rest.total_quantity = total /\ rest.price = level.price
  BY DEF Without, PriceLevel
<1>3. \A k \in 1..n : s[k].quantity > 0  BY DEF Full
<1>4. a \in Seq(RustNode) /\ Len(a) = n /\ a[j] = AsNode(s[j])
      /\ \A k \in 1..n : a[k] = AsNode(s[k])
  BY <1>1, AsNodesType DEF AsNodes
<1>5. AsLevel(level).orders = a /\ AsLevel(level).total_quantity = level.total_quantity
  BY DEF AsLevel
<1> HIDE DEF s, n, a, t
<1>6. /\ t \in Seq(OrderNode) /\ Len(t) = n - 1
      /\ \A k \in 1..(n - 1) : t[k] = IF k < j THEN s[k] ELSE s[k + 1]
  BY <1>1, RemoveAtFacts, ZenonT(40) DEF n, t
<1>7. /\ b \in Seq(RustNode) /\ Len(b) = n - 1
      /\ \A k \in 1..(n - 1) : b[k] = IF k < j THEN a[k] ELSE a[k + 1]
  <2>1. j \in 1..Len(a)  BY <1>1, <1>4
  <2>2. /\ b \in Seq(RustNode) /\ Len(b) = Len(a) - 1
        /\ \A k \in 1..(Len(a) - 1) : b[k] = IF k < j THEN a[k] ELSE a[k + 1]
    BY <1>4, <2>1, RemoveAtFacts, ZenonT(40)
  <2> QED  BY <1>4, <2>2
<1> HIDE DEF b
<1>8. \A k \in 1..(n - 1) : b[k] = AsNode(t[k]) /\ t[k].quantity > 0
  <2>1. SUFFICES ASSUME NEW k \in 1..(n - 1) PROVE b[k] = AsNode(t[k]) /\ t[k].quantity > 0
    OBVIOUS
  <2>2. k \in 1..n /\ k + 1 \in 1..n  BY <1>1
  <2>3. CASE k < j
    <3>1. t[k] = s[k] /\ b[k] = a[k]  BY <1>6, <1>7, <2>3
    <3> QED  BY <1>3, <1>4, <2>2, <3>1 DEF n, s
  <2>4. CASE ~ (k < j)
    <3>1. t[k] = s[k + 1] /\ b[k] = a[k + 1]  BY <1>6, <1>7, <2>4
    <3> QED  BY <1>3, <1>4, <2>2, <3>1 DEF n, s
  <2> QED  BY <2>3, <2>4
<1>9. AsNodes(t) = b
  <2>1. /\ AsNodes(t) \in Seq(RustNode) /\ Len(AsNodes(t)) = n - 1
        /\ \A k \in 1..(n - 1) : AsNodes(t)[k] = AsNode(t[k])
    BY <1>6, AsNodesType DEF AsNodes
  <2> DEFINE u == AsNodes(t)
  <2>2. u \in Seq(RustNode) /\ Len(u) = Len(b) /\ \A k \in 1..Len(u) : u[k] = b[k]
    BY <1>7, <1>8, <2>1
  <2> HIDE DEF u
  <2>3. u = b  BY <1>7, <2>2, SeqEqual
  <2> QED  BY <2>3 DEF u
<1>10. RustWithout(AsLevel(level), j) = [total_quantity |-> total, orders |-> b]
  <2>1. AsNode(s[j]).quantity = s[j].quantity  BY DEF AsNode
  <2>2. Rust!RemoveAt(a, j) = b  BY SameRemoveAt DEF b
  <2> QED  BY <1>4, <1>5, <2>1, <2>2 DEF RustWithout
<1>11. AsLevel(rest) = [total_quantity |-> total, orders |-> b]  BY <1>2, <1>9 DEF AsLevel
<1>12. Full(rest)  BY <1>2, <1>6, <1>8 DEF Full
<1> QED  BY <1>2, <1>6, <1>10, <1>11, <1>12

LEMMA RequantifiedAlike ==
    ASSUME NEW level \in PriceLevel, Full(level), NEW j \in 1..Len(level.orders),
           NEW q \in Remaining, q > 0, NEW kept, kept = Requantified(level, j, q)
    PROVE  AsLevel(kept) = RustRequantified(AsLevel(level), j, q) /\ Full(kept)
<1> DEFINE s == level.orders
           n == Len(s)
           node == [s[j] EXCEPT !.quantity = q]
           t == [s EXCEPT ![j] = node]
           a == AsNodes(s)
           total == (level.total_quantity - s[j].quantity + q) % QuantityModulus
           b == [a EXCEPT ![j] = AsNode(node)]
<1>1. /\ s \in Seq(OrderNode) /\ n \in Nat /\ j \in 1..n
      /\ \A k \in 1..n : s[k] \in OrderNode
  BY LenProperties DEF PriceLevel
<1>2. kept.orders = t /\ kept.total_quantity = total /\ kept.price = level.price
  BY DEF Requantified, PriceLevel
<1>3. node \in OrderNode /\ node.quantity = q /\ AsNode(node) = [AsNode(s[j]) EXCEPT !.quantity = q]
  <2>1. s[j] \in OrderNode  BY <1>1
  <2> QED  BY <2>1 DEF OrderNode, Remaining, AsNode
<1>4. \A k \in 1..n : s[k].quantity > 0  BY DEF Full
<1>5. a \in Seq(RustNode) /\ Len(a) = n /\ \A k \in 1..n : a[k] = AsNode(s[k])
  BY <1>1, AsNodesType DEF AsNodes
<1>6. AsLevel(level) = [total_quantity |-> level.total_quantity, orders |-> a]
  BY DEF AsLevel
<1>7. AsNode(s[j]).quantity = s[j].quantity  BY DEF AsNode
<1> HIDE DEF s, n, a, node
<1>8. /\ t \in Seq(OrderNode) /\ Len(t) = n
      /\ \A k \in 1..n : t[k] = IF k = j THEN node ELSE s[k]
  BY <1>1, <1>3, ExceptSeq DEF n
<1> HIDE DEF t
<1>9. AsNode(node) \in RustNode  BY <1>3, NodesMirrored
<1>10. /\ b \in Seq(RustNode) /\ Len(b) = n
       /\ \A k \in 1..n : b[k] = IF k = j THEN AsNode(node) ELSE a[k]
  <2>1. j \in 1..Len(a)  BY <1>1, <1>5
  <2>2. /\ b \in Seq(RustNode) /\ Len(b) = Len(a)
        /\ \A k \in 1..Len(a) : b[k] = IF k = j THEN AsNode(node) ELSE a[k]
    BY <1>5, <1>9, <2>1, ExceptSeq
  <2> QED  BY <1>5, <2>2
<1>11. RustRequantified(AsLevel(level), j, q) = [total_quantity |-> total, orders |-> b]
  <2>1. DOMAIN a = 1..n /\ j \in 1..n /\ a[j] = AsNode(s[j])  BY <1>1, <1>5, LenProperties
  <2>2. [a EXCEPT ![j].quantity = q] = b  BY <1>3, <2>1
  <2> HIDE DEF b
  <2>3. PICK x \in [total_quantity : Remaining, orders : Seq(RustNode)] : x = AsLevel(level)
    BY AsLevelType DEF RustLevel
  <2>4. x.orders = a /\ x.total_quantity = level.total_quantity  BY <1>6, <2>3
  <2>5. x.total_quantity - x.orders[j].quantity + q = level.total_quantity - s[j].quantity + q
    BY <1>7, <2>1, <2>4
  <2>6. RustRequantified(x, j, q) =
           [total_quantity |-> (x.total_quantity - x.orders[j].quantity + q) % QuantityModulus,
            orders |-> [x.orders EXCEPT ![j].quantity = q]]
    <3> DEFINE u == [x.orders EXCEPT ![j].quantity = q]
               t2 == (x.total_quantity - x.orders[j].quantity + q) % QuantityModulus
    <3>1. RustRequantified(x, j, q) = [x EXCEPT !.orders = u, !.total_quantity = t2]
      BY DEF RustRequantified
    <3> HIDE DEF u, t2
    <3> DEFINE S == Remaining \cup {t2}
               T == Seq(RustNode) \cup {u}
               y == [x EXCEPT !.orders = u, !.total_quantity = t2]
               z == [total_quantity |-> t2, orders |-> u]
    <3>2. x \in [total_quantity : S, orders : T] /\ t2 \in S /\ u \in T  BY <2>3
    <3> HIDE DEF S, T
    <3>3. y \in [total_quantity : S, orders : T] /\ y.orders = u /\ y.total_quantity = t2
      BY <3>2
    <3>4. z \in [total_quantity : S, orders : T] /\ z.orders = u /\ z.total_quantity = t2
      BY <3>2
    <3> HIDE DEF y, z
    <3>5. y = z  BY <3>3, <3>4
    <3> QED  BY <3>1, <3>5 DEF u, t2, y, z
  <2> QED  BY <2>2, <2>3, <2>4, <2>5, <2>6
<1> HIDE DEF b
<1>12. AsNodes(t) = b
  <2>1. /\ AsNodes(t) \in Seq(RustNode) /\ Len(AsNodes(t)) = n
        /\ \A k \in 1..n : AsNodes(t)[k] = AsNode(t[k])
    BY <1>8, AsNodesType DEF AsNodes
  <2> DEFINE u == AsNodes(t)
  <2>2. u \in Seq(RustNode) /\ Len(u) = Len(b) /\ \A k \in 1..Len(u) : u[k] = b[k]
    BY <1>5, <1>8, <1>10, <2>1
  <2> HIDE DEF u
  <2>3. u = b  BY <1>10, <2>2, SeqEqual
  <2> QED  BY <2>3 DEF u
<1>13. Full(kept)  BY <1>2, <1>3, <1>4, <1>8 DEF Full
<1> QED  BY <1>2, <1>11, <1>12, <1>13 DEF AsLevel
-----------------------------------------------------------------------------
(* One side after a cancel or a modification *)

LEMMA CancelAlike ==
    ASSUME NEW side, NEW levels, NEW map, NEW P, P \subseteq Nat, Distinct(P),
           SideAlike(side, levels, map, P), NEW i \in 1..Len(levels),
           NEW j \in 1..Len(levels[i].orders), NEW c, c = Rust!Cents(levels[i].price),
           NEW rest, rest = Without(levels[i], j),
           NEW twin, twin = RustWithout(map[c], j),
           NEW new, new = IF rest.orders = <<>> THEN RemoveAt(levels, i) ELSE Put(levels, i, rest),
           NEW r, r = IF twin.orders = <<>> THEN Dropped(map, c)
                      ELSE Replaced(map, c, twin)
    PROVE  SideAlike(side, new, r, P)
<1>1. SideOK(side, levels) /\ Full(levels[i]) /\ map[c] = AsLevel(levels[i])
  BY DEF SideAlike, FullSide, Mirrors
<1>2. PICK level \in PriceLevel : level = levels[i] /\ Full(level) /\ Good(level)
  BY <1>1, PricesDiffer DEF SideOK
<1>3. rest = Without(level, j) /\ j \in 1..Len(level.orders)  BY <1>2
<1>4. /\ AsLevel(rest) = RustWithout(AsLevel(level), j)
      /\ Full(rest) /\ rest.price = level.price /\ rest.orders \in Seq(OrderNode)
  BY <1>2, <1>3, WithoutAlike
<1>5. twin = AsLevel(rest)  BY <1>1, <1>2, <1>4
<1>6. twin.orders = <<>> <=> rest.orders = <<>>
  <2>1. twin.orders = AsNodes(rest.orders)  BY <1>5 DEF AsLevel
  <2>2. AsNodes(rest.orders) \in Seq(RustNode) /\ Len(AsNodes(rest.orders)) = Len(rest.orders)
    BY <1>4, AsNodesType
  <2> DEFINE u == AsNodes(rest.orders)
             s == rest.orders
  <2>3. u \in Seq(RustNode) /\ s \in Seq(OrderNode) /\ Len(u) = Len(s)  BY <1>4, <2>2
  <2> HIDE DEF u, s
  <2>4. u = <<>> <=> s = <<>>  BY <2>3, EmptySeq
  <2> QED  BY <2>1, <2>4 DEF u, s
<1>7. CASE rest.orders = <<>>
  <2>1. new = RemoveAt(levels, i) /\ r = Dropped(map, c)  BY <1>6, <1>7
  <2> QED  BY <2>1, RemoveAlike
<1>8. CASE rest.orders # <<>>
  <2>1. new = Put(levels, i, rest) /\ r = Replaced(map, c, AsLevel(rest))  BY <1>5, <1>6, <1>8
  <2>2. Good(rest)  BY <1>2, <1>3, <1>8, WithoutOrder
  <2>3. rest.price = levels[i].price  BY <1>2, <1>4
  <2> QED  BY <1>4, <2>1, <2>2, <2>3, PutAlike
<1> QED  BY <1>7, <1>8

LEMMA ModifyAlike ==
    ASSUME NEW side, NEW levels, NEW map, NEW P, P \subseteq Nat, Distinct(P),
           SideAlike(side, levels, map, P), NEW i \in 1..Len(levels),
           NEW j \in 1..Len(levels[i].orders), NEW c, c = Rust!Cents(levels[i].price),
           NEW q \in Remaining, q > 0,
           NEW new, new = Put(levels, i, Requantified(levels[i], j, q)),
           NEW r, r = Replaced(map, c, RustRequantified(map[c], j, q))
    PROVE  SideAlike(side, new, r, P)
<1>1. SideOK(side, levels) /\ Full(levels[i]) /\ map[c] = AsLevel(levels[i])
  BY DEF SideAlike, FullSide, Mirrors
<1>2. PICK level \in PriceLevel : level = levels[i] /\ Full(level) /\ Good(level)
  BY <1>1, PricesDiffer DEF SideOK
<1>3. PICK kept : kept = Requantified(level, j, q) /\ j \in 1..Len(level.orders)  BY <1>2
<1>4. AsLevel(kept) = RustRequantified(AsLevel(level), j, q) /\ Full(kept)
  BY <1>2, <1>3, RequantifiedAlike
<1>5. Good(kept) /\ kept.price = level.price  BY <1>2, <1>3, WithQuantity
<1>6. new = Put(levels, i, kept) /\ r = Replaced(map, c, AsLevel(kept))
  BY <1>1, <1>2, <1>3, <1>4
<1>7. kept.price = levels[i].price  BY <1>2, <1>5
<1> QED  BY <1>4, <1>5, <1>6, <1>7, PutAlike

\* Both sides of the C++ book as those of a Rust book b.
SideOf(b, side) == IF side = "buy" THEN b.bids ELSE b.asks
Twins(buys, sells, b, P) == SideAlike("buy", buys, b.bids, P) /\ SideAlike("sell", sells, b.asks, P)

\* What the Rust engine has when it starts on an order, or is done with it.
RustNow == [bids |-> rust_bids, asks |-> rust_asks, log |-> rust_log, found |-> rust_reply.found]

\* add_order: what an order leaves of the other side, what becomes of its own, and the book.
RustSwept(b, order) == Rust!MatchOrder(order, SideOf(b, Opposite(order.side)))
RustOwn(b, order) ==
    IF RustSwept(b, order).left > 0
    THEN Rust!Rest(SideOf(b, order.side), order, RustSwept(b, order).left)
    ELSE SideOf(b, order.side)
RustAdded(b, order) ==
    [bids |-> IF order.side = "buy" THEN RustOwn(b, order) ELSE RustSwept(b, order).levels,
     asks |-> IF order.side = "buy" THEN RustSwept(b, order).levels ELSE RustOwn(b, order),
     log |-> b.log \o RustSwept(b, order).trades, found |-> TRUE]

LEMMA RustAddedIs ==
    ASSUME NEW b, NEW order, NEW y, y = RustAdded(b, order)
    PROVE  /\ y.bids = IF order.side = "buy" THEN RustOwn(b, order) ELSE RustSwept(b, order).levels
           /\ y.asks = IF order.side = "buy" THEN RustSwept(b, order).levels ELSE RustOwn(b, order)
           /\ y.log = b.log \o RustSwept(b, order).trades /\ y.found = TRUE
BY DEF RustAdded

LEMMA RustSubmits ==
    ASSUME NEW order, Rust!AddOrder(order), rust_log' = rust_log \o rust_reply'.trades
    PROVE  RustNow' = RustAdded(RustNow, order)
<1> DEFINE b == RustNow
           m == Rust!MatchOrder(order, Rust!Levels(Opposite(order.side)))
           own == IF m.left > 0 THEN Rust!Rest(Rust!Levels(order.side), order, m.left)
                  ELSE Rust!Levels(order.side)
<1>1. \A side : SideOf(b, side) = Rust!Levels(side)  BY DEF SideOf, RustNow, Rust!Levels
<1>2. /\ IF order.side = "buy" THEN rust_bids' = own /\ rust_asks' = m.levels
                               ELSE rust_asks' = own /\ rust_bids' = m.levels
      /\ rust_reply' = [found |-> TRUE, trades |-> m.trades]
  BY SameOpposite DEF Rust!AddOrder, Rust!Reply
<1>3. b.log = rust_log  BY DEF RustNow
<1> HIDE DEF b
<1>4. m = RustSwept(b, order)  BY <1>1 DEF RustSwept
<1>5. own = RustOwn(b, order)  BY <1>1, <1>4 DEF RustOwn
<1> HIDE DEF m, own
<1>6. /\ rust_bids' = IF order.side = "buy" THEN own ELSE m.levels
      /\ rust_asks' = IF order.side = "buy" THEN m.levels ELSE own
      /\ rust_log' = b.log \o m.trades /\ rust_reply'.found = TRUE
  BY <1>2, <1>3
<1>7. RustNow' = [bids |-> rust_bids', asks |-> rust_asks', log |-> rust_log',
                  found |-> rust_reply'.found]
  BY DEF RustNow
<1>8. RustNow' = RustAdded(b, order)  BY <1>4, <1>5, <1>6, <1>7 DEF RustAdded
<1> QED  BY <1>8 DEF b

\* An accepted order does the same to both books.
LEMMA AddAlike ==
    ASSUME BookInv, NEW order \in Orders, AddValidOrder(order), reply'.error = "none",
           NEW P, P \subseteq Nat, Distinct(P), order.price \in P,
           NEW b, Twins(bids, asks, b, P), NEW y, y = RustAdded(b, AsOrder(order))
    PROVE  /\ Twins(bids', asks', y, P)
           /\ y.log = b.log \o Cented(reply'.trades) /\ y.found = TRUE
<1> DEFINE side == order.side
           own == Levels(side)
           opposite == Levels(Opposite(side))
           m == MatchOrder(order, opposite)
           rest == [side |-> order.side, price |-> order.price, quantity |-> m.left,
                    order_id |-> order.order_id, timestamp |-> clock]
           new == IF m.left = 0 THEN own ELSE Rest(own, rest)
           taker == AsOrder(order)
           map == SideOf(b, side)
           other == SideOf(b, Opposite(side))
           x == RustSwept(b, taker)
           twin == RustOwn(b, taker)
<1>1. /\ side \in Sides /\ Opposite(side) \in Sides /\ order.quantity \in Remaining
      /\ order.price \in Prices /\ order.order_id \in OrderIds
  BY OrdersAssumption, QuantitiesAssumption DEF Sides, Opposite, Remaining
<1>2. /\ Faces(side, own, opposite)
      /\ Around(side, Marks(own), Marks(opposite), smr, clock)
  BY <1>1, BookFaces
<1>3. /\ SideOK(side, own) /\ Len(own) <= MaxDepthLevels
      /\ SideOK(Opposite(side), opposite)
  BY <1>2 DEF Faces
<1>4. SideAlike(side, own, map, P) /\ SideAlike(Opposite(side), opposite, other, P)
  BY <1>1 DEF Twins, Sides, SideOf, Levels, Opposite
<1>5. /\ SetSides(side, IF m.overflow \/ m.left = 0 THEN own ELSE Rest(own, rest), m.levels)
      /\ IF m.overflow
         THEN Reply("trade_batch_overflow", order, <<>>, ToSet(m.retired))
         ELSE Reply("none", order, m.trades, ToSet(m.retired))
  BY DEF AddValidOrder
<1>6. /\ taker.side = side /\ taker.order_id = order.order_id
      /\ taker.price = Rust!Cents(order.price)
  BY DEF AsOrder
<1>7. /\ x = Rust!MatchOrder(taker, other)
      /\ twin = IF x.left > 0 THEN Rust!Rest(map, taker, x.left) ELSE map
  <2> HIDE DEF taker
  <2> QED  BY <1>6 DEF RustSwept, RustOwn
<1>19. /\ y.bids = IF side = "buy" THEN twin ELSE x.levels
       /\ y.asks = IF side = "buy" THEN x.levels ELSE twin
       /\ y.log = b.log \o x.trades /\ y.found = TRUE
  <2>1. y = RustAdded(b, taker)  OBVIOUS
  <2> HIDE DEF taker
  <2> QED  BY <1>6, <2>1, RustAddedIs
<1>8. Apart(opposite)
  <2>1. Unique(Marks(opposite))  BY <1>1, <1>2, AroundFacts
  <2> QED  BY <1>1, <1>3, <2>1, UniqueApart
<1> HIDE DEF own, opposite, map, other
<1>9. Matched(order, Opposite(side), opposite, m)  BY <1>1, <1>3, <1>8, MatchOrderMatched
<1>10. ~ m.overflow
  <2> HIDE DEF m
  <2>1. SUFFICES ASSUME m.overflow PROVE FALSE  OBVIOUS
  <2>2. reply'.error = "trade_batch_overflow"  BY <1>5, <2>1 DEF Reply
  <2> QED  BY <2>2
<1>11. /\ x.left = m.left /\ x.trades = Cented(m.trades)
       /\ Mirrors(m.levels, x.levels) /\ FullSide(m.levels) /\ PricesOf(m.levels) \subseteq P
  <2>1. m = MatchOrder(order, opposite) /\ ~ m.overflow  BY <1>10
  <2>2. x = Rust!MatchOrder(AsOrder(order), other)  BY <1>7
  <2> HIDE DEF m, x
  <2>3. /\ SameOutcome(m, x) /\ Mirrors(m.levels, x.levels) /\ FullSide(m.levels)
        /\ PricesOf(m.levels) \subseteq P
    BY <1>1, <1>4, <2>1, <2>2, MatchOrderAlike
  <2> QED  BY <2>3 DEF SameOutcome
<1>12. /\ rest.side = side /\ rest.price = order.price /\ rest.quantity = m.left
       /\ rest.order_id = order.order_id /\ rest.timestamp = clock
  OBVIOUS
<1> HIDE DEF m, rest, x, twin
<1>13. m.left \in Remaining /\ SideOK(Opposite(side), m.levels)  BY <1>9 DEF Matched
<1>14. SideAlike(Opposite(side), m.levels, x.levels, P)  BY <1>11, <1>13 DEF SideAlike
<1>15. SideAlike(side, new, twin, P)
  <2>1. m.left \in Nat  BY <1>13, QuantitiesAssumption DEF Remaining
  <2>2. CASE m.left = 0
    <3>1. new = own /\ twin = map  BY <1>7, <1>11, <2>2
    <3> QED  BY <1>4, <3>1
  <2>3. CASE m.left # 0
    <3>1. new = Rest(own, rest) /\ twin = Rust!Rest(map, taker, rest.quantity) /\ rest.quantity > 0
      BY <1>7, <1>11, <1>12, <2>1, <2>3
    <3>2. RestOK(rest, own)
      <4>1. clock \in Nat  BY LimitsAssumption DEF BookInv
      <4>2. \A z \in Marks(own) : z[2] \in 0..(clock - 1)  BY <1>1, <1>2, AroundFacts
      <4>3. \A z \in Marks(own) : z[2] < clock  BY <4>1, <4>2
      <4> QED  BY <1>1, <1>12, <1>13, <4>1, <4>3 DEF RestOK
    <3> HIDE DEF taker, new
    <3>3. SideAlike(side, Rest(own, rest), Rust!Rest(map, taker, rest.quantity), P)
      BY <1>1, <1>3, <1>4, <1>6, <1>12, <3>1, <3>2, RestAlike
    <3> QED  BY <3>1, <3>3
  <2> QED  BY <2>2, <2>3
<1>16. SetSides(side, new, m.levels) /\ reply'.trades = m.trades  BY <1>5, <1>10 DEF Reply
<1> HIDE DEF new
<1>17. Twins(bids', asks', y, P)
  <2>1. CASE side = "buy"
    <3>1. bids' = new /\ asks' = m.levels  BY <1>16, <2>1 DEF SetSides
    <3>2. y.bids = twin /\ y.asks = x.levels  BY <1>19, <2>1
    <3>3. Opposite(side) = "sell"  BY <2>1 DEF Opposite
    <3> QED  BY <1>14, <1>15, <2>1, <3>1, <3>2, <3>3 DEF Twins
  <2>2. CASE side = "sell"
    <3>1. asks' = new /\ bids' = m.levels  BY <1>16, <2>2 DEF SetSides
    <3>2. y.asks = twin /\ y.bids = x.levels  BY <1>19, <2>2
    <3>3. Opposite(side) = "buy"  BY <2>2 DEF Opposite
    <3> QED  BY <1>14, <1>15, <2>2, <3>1, <3>2, <3>3 DEF Twins
  <2> QED  BY <1>1, <2>1, <2>2 DEF Sides
<1> QED  BY <1>11, <1>16, <1>17, <1>19

LEMMA SidesTwin ==
    ASSUME NEW side \in Sides, NEW P, Twins(bids, asks, RustNow, P)
    PROVE  SideAlike(side, Levels(side), Rust!Levels(side), P)
<1>1. RustNow.bids = rust_bids /\ RustNow.asks = rust_asks  BY DEF RustNow
<1> HIDE DEF RustNow
<1> QED  BY <1>1 DEF Twins, Levels, Rust!Levels, Sides

LEMMA TwinsSet ==
    ASSUME NEW side \in Sides, NEW P, Twins(bids, asks, RustNow, P),
           NEW new, NEW r, SideAlike(side, new, r, P), SetSide(side, new), Rust!SetLevel(side, r)
    PROVE  Twins(bids', asks', RustNow', P)
<1>1. RustNow.bids = rust_bids /\ RustNow.asks = rust_asks  BY DEF RustNow
<1>2. RustNow'.bids = rust_bids' /\ RustNow'.asks = rust_asks'  BY DEF RustNow
<1>3. CASE side = "buy"
  <2>1. bids' = new /\ asks' = asks /\ rust_bids' = r /\ rust_asks' = rust_asks
    BY <1>3 DEF SetSide, Rust!SetLevel
  <2> QED  BY <1>1, <1>2, <1>3, <2>1 DEF Twins
<1>4. CASE side = "sell"
  <2>1. asks' = new /\ bids' = bids /\ rust_asks' = r /\ rust_bids' = rust_bids
    BY <1>4 DEF SetSide, Rust!SetLevel
  <2> QED  BY <1>1, <1>2, <1>4, <2>1 DEF Twins
<1> QED  BY <1>3, <1>4 DEF Sides

LEMMA TwinsStay ==
    ASSUME NEW P, Twins(bids, asks, RustNow, P), UNCHANGED <<bids, asks, rust_bids, rust_asks>>
    PROVE  Twins(bids', asks', RustNow', P)
<1>1. RustNow.bids = rust_bids /\ RustNow.asks = rust_asks  BY DEF RustNow
<1>2. RustNow'.bids = rust_bids' /\ RustNow'.asks = rust_asks'  BY DEF RustNow
<1> QED  BY <1>1, <1>2 DEF Twins

\* Both books find an order, at the same place of its level, or neither does.
SamePlaces(levels, price, places, rust_places) ==
    /\ places = {} <=> rust_places = {}
    /\ \A f \in places, k \in rust_places :
          /\ f[1] \in 1..Len(levels) /\ levels[f[1]].price = price
          /\ f[2] \in 1..Len(levels[f[1]].orders) /\ k = f[2]

LEMMA FoundTwice ==
    ASSUME NEW side \in Sides, NEW id, NEW P, P \subseteq Nat, Distinct(P), NEW price \in P,
           NEW map, SideAlike(side, Levels(side), map, P), NEW c, c = Rust!Cents(price)
    PROVE  SamePlaces(Levels(side), price, Found(side, id, price), Rust!Found(map, id, c))
<1> DEFINE levels == Levels(side)
           F == Found(side, id, price)
<1>1. SideOK(side, levels)  BY DEF SideAlike
<1>2. \A i, j : FoundAt(levels, id, price, i, j) <=> <<i, j>> \in F  BY <1>1, FoundIs
<1>3. \A f \in F : f = <<f[1], f[2]>>  BY DEF Found
<1> HIDE DEF F
<1>4. \A j : j \in Rust!Found(map, id, c) <=> \E i : FoundAt(levels, id, price, i, j)
  BY FoundAlike
<1>5. ASSUME NEW f \in F PROVE f[2] \in Rust!Found(map, id, c)
  BY <1>2, <1>3, <1>4
<1>6. ASSUME NEW k \in Rust!Found(map, id, c) PROVE F # {}
  BY <1>2, <1>4
<1>7. ASSUME NEW f \in F, NEW k \in Rust!Found(map, id, c)
      PROVE  /\ f[1] \in 1..Len(levels) /\ levels[f[1]].price = price
             /\ f[2] \in 1..Len(levels[f[1]].orders) /\ k = f[2]
  <2>1. PICK i, j : i = f[1] /\ j = f[2] /\ FoundAt(levels, id, price, i, j)  BY <1>2, <1>3
  <2>2. PICK l : FoundAt(levels, id, price, l, k)  BY <1>4
  <2>3. i = l
    <3>1. i \in 1..Len(levels) /\ l \in 1..Len(levels) /\ levels[i].price = levels[l].price
      BY <2>1, <2>2 DEF FoundAt
    <3> QED  BY <1>1, <3>1, PricesDiffer
  <2>4. i \in 1..Len(levels) /\ j \in First(levels[i].orders, id) /\ k \in First(levels[i].orders, id)
        /\ levels[i].price = price
    BY <2>1, <2>2, <2>3 DEF FoundAt
  <2>5. levels[i].orders \in Seq(OrderNode)  BY <1>1, <2>4, PricesDiffer DEF PriceLevel
  <2>6. j = k /\ j \in 1..Len(levels[i].orders)
    <3> DEFINE s == levels[i].orders
    <3>1. s \in Seq(OrderNode) /\ j \in First(s, id) /\ k \in First(s, id)  BY <2>4, <2>5
    <3> HIDE DEF s
    <3>2. \A m, n \in First(s, id) : m = n  BY <3>1, FirstAlike
    <3>3. j \in 1..Len(s)  BY <3>1 DEF First
    <3> QED  BY <3>1, <3>2, <3>3 DEF s
  <2> QED  BY <2>1, <2>4, <2>6
<1>8. SamePlaces(levels, price, F, Rust!Found(map, id, c))  BY <1>5, <1>6, <1>7 DEF SamePlaces
<1> QED  BY <1>8 DEF F

\* cancel_order and modify_order of the Rust book, on a side that has the order.
RustCancelled(map, c, j) ==
    IF RustWithout(map[c], j).orders = <<>> THEN Dropped(map, c)
    ELSE Replaced(map, c, RustWithout(map[c], j))

LEMMA RustCancels ==
    ASSUME NEW side, NEW id, NEW c, Rust!CancelOrder(id, side, c), NEW map, map = Rust!Levels(side)
    PROVE  \/ Rust!NotFound(id, side, c)
           \/ \E j \in Rust!Found(map, id, c) :
                 /\ Rust!SetLevel(side, RustCancelled(map, c, j))
                 /\ rust_reply'.found = TRUE
<1>1. CASE Rust!NotFound(id, side, c)  BY <1>1
<1>2. CASE ~ Rust!NotFound(id, side, c)
  <2>1. PICK j \in Rust!Found(Rust!Levels(side), id, c) :
          LET levels == Rust!Levels(side)
              level  == levels[c]
              rest   == [total_quantity |->
                            (level.total_quantity - level.orders[j].quantity) % QuantityModulus,
                         orders |-> Rust!RemoveAt(level.orders, j)]
          IN  /\ Rust!SetLevel(side, IF rest.orders = <<>>
                                     THEN Rust!Keep(levels, DOMAIN levels \ {c})
                                     ELSE [levels EXCEPT ![c] = rest])
              /\ Rust!Reply(TRUE, <<>>)
    BY <1>2 DEF Rust!CancelOrder
  <2>2. Rust!SetLevel(side, RustCancelled(map, c, j))
    BY <2>1 DEF RustCancelled, RustWithout, Dropped, Replaced
  <2>3. rust_reply'.found = TRUE  BY <2>1 DEF Rust!Reply
  <2> QED  BY <2>2, <2>3
<1> QED  BY <1>1, <1>2

LEMMA RustModifies ==
    ASSUME NEW side, NEW id, NEW c, NEW q, Rust!ModifyOrder(id, side, c, q),
           NEW map, map = Rust!Levels(side)
    PROVE  \/ Rust!NotFound(id, side, c)
           \/ \E j \in Rust!Found(map, id, c) :
                 /\ Rust!SetLevel(side, Replaced(map, c, RustRequantified(map[c], j, q)))
                 /\ rust_reply'.found = TRUE
<1>1. CASE Rust!NotFound(id, side, c)  BY <1>1
<1>2. CASE ~ Rust!NotFound(id, side, c)
  <2>1. PICK j \in Rust!Found(Rust!Levels(side), id, c) :
          LET level == Rust!Levels(side)[c]
              total == level.total_quantity - level.orders[j].quantity + q
          IN  /\ Rust!SetLevel(side, [Rust!Levels(side) EXCEPT ![c] =
                    [level EXCEPT !.orders[j].quantity = q,
                                  !.total_quantity = total % QuantityModulus]])
              /\ Rust!Reply(TRUE, <<>>)
    BY <1>2 DEF Rust!ModifyOrder
  <2>2. Rust!SetLevel(side, Replaced(map, c, RustRequantified(map[c], j, q)))
    BY <2>1 DEF RustRequantified, Replaced
  <2>3. rust_reply'.found = TRUE  BY <2>1 DEF Rust!Reply
  <2> QED  BY <2>2, <2>3
<1> QED  BY <1>1, <1>2

\* An order that neither book has.
LEMMA NeitherFinds ==
    ASSUME NEW side \in Sides, NEW id, NEW P, NEW price, Twins(bids, asks, RustNow, P),
           NotFound(id, side, price), Rust!NotFound(id, side, Rust!Cents(price))
    PROVE  /\ Twins(bids', asks', RustNow', P)
           /\ reply'.error = "not_found" /\ rust_reply'.found = FALSE
<1>1. UNCHANGED <<bids, asks>> /\ reply'.error = "not_found"  BY DEF NotFound, Reply
<1>2. UNCHANGED <<rust_bids, rust_asks>> /\ rust_reply'.found = FALSE
  BY DEF Rust!NotFound, Rust!Reply
<1>3. UNCHANGED <<bids, asks, rust_bids, rust_asks>>  BY <1>1, <1>2
<1> QED  BY <1>1, <1>2, <1>3, TwinsStay

\* Cancelling an order in both books.
LEMMA CancelTwins ==
    ASSUME NEW side \in Sides, NEW id, NEW P, P \subseteq Nat, Distinct(P), NEW price \in P,
           Twins(bids, asks, RustNow, P),
           CancelOrder(id, side, price) \/ NotFound(id, side, price),
           Rust!CancelOrder(id, side, Rust!Cents(price))
    PROVE  /\ Twins(bids', asks', RustNow', P)
           /\ reply'.error \in {"none", "not_found"}
           /\ (reply'.error = "none") = rust_reply'.found
<1> DEFINE levels == Levels(side)
           map == Rust!Levels(side)
           c == Rust!Cents(price)
<1>1. SideAlike(side, levels, map, P)  BY SidesTwin
<1>2. /\ Found(side, id, price) = {} <=> Rust!Found(map, id, c) = {}
      /\ \A f \in Found(side, id, price), k \in Rust!Found(map, id, c) :
            /\ f[1] \in 1..Len(levels) /\ levels[f[1]].price = price
            /\ f[2] \in 1..Len(levels[f[1]].orders) /\ k = f[2]
  <2>1. SamePlaces(levels, price, Found(side, id, price), Rust!Found(map, id, c))
    <3>1. c = Rust!Cents(price)  OBVIOUS
    <3> HIDE DEF map, c
    <3> QED  BY <1>1, <3>1, FoundTwice
  <2> QED  BY <2>1 DEF SamePlaces
<1>3. \/ Rust!NotFound(id, side, c)
      \/ \E j \in Rust!Found(map, id, c) :
            Rust!SetLevel(side, RustCancelled(map, c, j)) /\ rust_reply'.found = TRUE
  BY RustCancels
<1>4. NotFound(id, side, price) => Found(side, id, price) = {}  BY DEF NotFound
<1>5. Rust!NotFound(id, side, c) => Rust!Found(map, id, c) = {}  BY DEF Rust!NotFound
<1>6. CASE NotFound(id, side, price)
  <2>1. Rust!NotFound(id, side, c)  BY <1>2, <1>3, <1>4, <1>6
  <2> QED  BY <1>6, <2>1, NeitherFinds
<1>7. CASE CancelOrder(id, side, price)
  <2>1. PICK f \in Found(side, id, price) :
          LET i      == f[1]
              level  == levels[i]
              node   == level.orders[f[2]]
              rest   == [level EXCEPT !.orders = RemoveAt(@, f[2]),
                                      !.total_quantity = (@ - node.quantity) % QuantityModulus]
          IN  /\ SetSide(side, IF rest.orders = <<>> THEN RemoveAt(levels, i)
                               ELSE [levels EXCEPT ![i] = rest])
              /\ smr' = IF Cardinality(smr) + 1 >= RetireThreshold THEN {node.timestamp}
                        ELSE smr \cup {node.timestamp}
              /\ Reply("none", "none", <<>>, {node.timestamp})
              /\ UNCHANGED clock
    BY <1>7 DEF CancelOrder
  <2> DEFINE i == f[1]
             j == f[2]
             rest == Without(levels[i], j)
             new == IF rest.orders = <<>> THEN RemoveAt(levels, i) ELSE Put(levels, i, rest)
             twin == RustWithout(map[c], j)
             r == RustCancelled(map, c, j)
  <2>2. SetSide(side, new) /\ reply'.error = "none"  BY <2>1 DEF Put, Without, Reply
  <2>3. Rust!Found(map, id, c) # {}  BY <1>2
  <2>4. PICK k \in Rust!Found(map, id, c) :
           Rust!SetLevel(side, RustCancelled(map, c, k)) /\ rust_reply'.found = TRUE
    BY <1>3, <1>5, <2>3
  <2>5. i \in 1..Len(levels) /\ levels[i].price = price /\ j \in 1..Len(levels[i].orders) /\ k = j
    BY <1>2
  <2>6. Rust!SetLevel(side, r) /\ rust_reply'.found = TRUE  BY <2>4, <2>5
  <2>7. r = IF twin.orders = <<>> THEN Dropped(map, c) ELSE Replaced(map, c, twin)
    BY DEF RustCancelled
  <2>8. c = Rust!Cents(levels[i].price)  BY <2>5
  <2> HIDE DEF levels, map, c, i, j
  <2>9. SideAlike(side, new, r, P)
    <3>1. rest = Without(levels[i], j) /\ twin = RustWithout(map[c], j)  OBVIOUS
    <3>2. new = IF rest.orders = <<>> THEN RemoveAt(levels, i) ELSE Put(levels, i, rest)
      OBVIOUS
    <3> HIDE DEF rest, twin, new, r
    <3> QED  BY <1>1, <2>5, <2>7, <2>8, <3>1, <3>2, CancelAlike
  <2> HIDE DEF new, r
  <2>10. Twins(bids', asks', RustNow', P)  BY <2>2, <2>6, <2>9, TwinsSet
  <2> QED  BY <2>2, <2>6, <2>10
<1> QED  BY <1>6, <1>7

\* Modifying an order in both books, not to a quantity of zero.
LEMMA ModifyTwins ==
    ASSUME NEW side \in Sides, NEW id, NEW P, P \subseteq Nat, Distinct(P), NEW price \in P,
           NEW q \in Remaining, q > 0, Twins(bids, asks, RustNow, P),
           ModifyOrder(id, side, price, q) \/ NotFound(id, side, price),
           Rust!ModifyOrder(id, side, Rust!Cents(price), q)
    PROVE  /\ Twins(bids', asks', RustNow', P)
           /\ reply'.error \in {"none", "not_found"}
           /\ (reply'.error = "none") = rust_reply'.found
<1> DEFINE levels == Levels(side)
           map == Rust!Levels(side)
           c == Rust!Cents(price)
<1>1. SideAlike(side, levels, map, P)  BY SidesTwin
<1>2. /\ Found(side, id, price) = {} <=> Rust!Found(map, id, c) = {}
      /\ \A f \in Found(side, id, price), k \in Rust!Found(map, id, c) :
            /\ f[1] \in 1..Len(levels) /\ levels[f[1]].price = price
            /\ f[2] \in 1..Len(levels[f[1]].orders) /\ k = f[2]
  <2>1. SamePlaces(levels, price, Found(side, id, price), Rust!Found(map, id, c))
    <3>1. c = Rust!Cents(price)  OBVIOUS
    <3> HIDE DEF map, c
    <3> QED  BY <1>1, <3>1, FoundTwice
  <2> QED  BY <2>1 DEF SamePlaces
<1>3. \/ Rust!NotFound(id, side, c)
      \/ \E j \in Rust!Found(map, id, c) :
            /\ Rust!SetLevel(side, Replaced(map, c, RustRequantified(map[c], j, q)))
            /\ rust_reply'.found = TRUE
  BY RustModifies
<1>4. NotFound(id, side, price) => Found(side, id, price) = {}  BY DEF NotFound
<1>5. Rust!NotFound(id, side, c) => Rust!Found(map, id, c) = {}  BY DEF Rust!NotFound
<1>6. CASE NotFound(id, side, price)
  <2>1. Rust!NotFound(id, side, c)  BY <1>2, <1>3, <1>4, <1>6
  <2> QED  BY <1>6, <2>1, NeitherFinds
<1>7. CASE ModifyOrder(id, side, price, q)
  <2>1. PICK f \in Found(side, id, price) :
          LET i      == f[1]
              j      == f[2]
              level  == levels[i]
              total  == level.total_quantity - level.orders[j].quantity + q
          IN  /\ SetSide(side, [levels EXCEPT ![i] =
                    [level EXCEPT !.orders[j].quantity = q,
                                  !.total_quantity = total % QuantityModulus]])
              /\ Reply("none", "none", <<>>, {})
              /\ UNCHANGED <<clock, smr>>
    BY <1>7 DEF ModifyOrder
  <2> DEFINE i == f[1]
             j == f[2]
             new == Put(levels, i, Requantified(levels[i], j, q))
             r == Replaced(map, c, RustRequantified(map[c], j, q))
  <2>2. SetSide(side, new) /\ reply'.error = "none"  BY <2>1 DEF Put, Requantified, Reply
  <2>3. Rust!Found(map, id, c) # {}  BY <1>2
  <2>4. PICK k \in Rust!Found(map, id, c) :
           /\ Rust!SetLevel(side, Replaced(map, c, RustRequantified(map[c], k, q)))
           /\ rust_reply'.found = TRUE
    BY <1>3, <1>5, <2>3
  <2>5. i \in 1..Len(levels) /\ levels[i].price = price /\ j \in 1..Len(levels[i].orders) /\ k = j
    BY <1>2
  <2>6. Rust!SetLevel(side, r) /\ rust_reply'.found = TRUE  BY <2>4, <2>5
  <2>7. c = Rust!Cents(levels[i].price)  BY <2>5
  <2>8. /\ new = Put(levels, i, Requantified(levels[i], j, q))
        /\ r = Replaced(map, c, RustRequantified(map[c], j, q))
    OBVIOUS
  <2> HIDE DEF levels, map, c, i, j, new, r
  <2>9. SideAlike(side, new, r, P)  BY <1>1, <2>5, <2>7, <2>8, ModifyAlike
  <2>10. Twins(bids', asks', RustNow', P)  BY <2>2, <2>6, <2>9, TwinsSet
  <2> QED  BY <2>2, <2>6, <2>10
<1> QED  BY <1>6, <1>7
-----------------------------------------------------------------------------
(* What a snapshot shows *)

\* The levels of a side, in cents.
InCentsSide(side) ==
    LET levels == SnapshotSide(side)
    IN  [i \in DOMAIN levels |-> [levels[i] EXCEPT !.price = Rust!Cents(@)]]

LEMMA SnapshotsAlike ==
    ASSUME NEW P, P \subseteq Nat, Distinct(P), Twins(bids, asks, RustNow, P),
           NEW side \in Sides
    PROVE  /\ InCentsSide(side) = Rust!Snapshot(side)
           /\ \E k \in Nat : DOMAIN SnapshotSide(side) = 1..k
           /\ \A i \in DOMAIN SnapshotSide(side) :
                 /\ SnapshotSide(side)[i].price \in Prices
                 /\ SnapshotSide(side)[i] = [price |-> SnapshotSide(side)[i].price,
                                             quantity |-> SnapshotSide(side)[i].quantity,
                                             order_count |-> SnapshotSide(side)[i].order_count]
<1> DEFINE levels == Levels(side)
           map == Rust!Levels(side)
           n == Len(levels)
           k == Min({n, MaxDepthLevels})
           walk == Walk(levels, n)
<1>1. SideAlike(side, levels, map, P)  BY SidesTwin
<1>2. /\ SideOK(side, levels) /\ \A i \in 1..n : Full(levels[i])
      /\ PricesOf(levels) \subseteq P /\ Mirrors(levels, map)
  BY <1>1 DEF SideAlike, FullSide
<1>3. n \in Nat /\ \A i \in 1..n : levels[i] \in PriceLevel  BY <1>2, EvenSide
<1>4. DOMAIN map = FirstCents(levels, n)  BY <1>2 DEF Mirrors, CentsOf, FirstCents
<1>5. Rust!InPriority(side, DOMAIN map) = walk
  <2>1. n \in 0..n  BY <1>3
  <2>2. Rust!InPriority(side, FirstCents(levels, n)) = walk  BY <1>2, <2>1, WalkIs
  <2> QED  BY <1>4, <2>2
<1>6. Len(walk) = n /\ \A i \in 1..n : walk[i] = Rust!Cents(levels[i].price)
  BY <1>3 DEF Walk
<1>7. \A i \in 1..n : map[walk[i]] = AsLevel(levels[i])  BY <1>2, <1>6 DEF Mirrors
<1>8. \A i \in 1..n : Len(AsLevel(levels[i]).orders) = Len(levels[i].orders)
  <2>1. SUFFICES ASSUME NEW i \in 1..n
                 PROVE  Len(AsLevel(levels[i]).orders) = Len(levels[i].orders)
    OBVIOUS
  <2>2. levels[i].orders \in Seq(OrderNode)  BY <1>3 DEF PriceLevel
  <2>3. AsLevel(levels[i]).orders = AsNodes(levels[i].orders)  BY DEF AsLevel
  <2> QED  BY <2>2, <2>3, AsNodesType
<1>9. Rust!Min({Len(walk), MaxDepthLevels}) = k  BY <1>6, SameMin
<1>10. k \in Nat /\ 1..k \subseteq 1..n
  <2>1. k = IF n <= MaxDepthLevels THEN n ELSE MaxDepthLevels
    <3> HIDE DEF n
    <3> QED  BY <1>3, LimitsAssumption, MinOfTwo
  <2> HIDE DEF k, n
  <2>2. k \in Nat /\ k <= n  BY <1>3, <2>1, LimitsAssumption
  <2> QED  BY <1>3, <2>2
<1> HIDE DEF k, walk
<1>11. Rust!Snapshot(side) =
          [i \in 1..k |-> [price |-> walk[i], quantity |-> map[walk[i]].total_quantity,
                           order_count |-> Len(map[walk[i]].orders)]]
  BY <1>5, <1>9 DEF Rust!Snapshot
<1>12. SnapshotSide(side) =
          [i \in 1..k |-> [price |-> levels[i].price, quantity |-> levels[i].total_quantity,
                           order_count |-> Len(levels[i].orders)]]
  BY DEF SnapshotSide, k
<1>13. InCentsSide(side) =
          [i \in 1..k |-> [price |-> Rust!Cents(levels[i].price),
                           quantity |-> levels[i].total_quantity,
                           order_count |-> Len(levels[i].orders)]]
  <2> HIDE DEF levels
  <2> QED  BY <1>12 DEF InCentsSide
<1>14. ASSUME NEW i \in 1..k
       PROVE  /\ walk[i] = Rust!Cents(levels[i].price)
              /\ map[walk[i]].total_quantity = levels[i].total_quantity
              /\ Len(map[walk[i]].orders) = Len(levels[i].orders)
  <2>1. i \in 1..n  BY <1>10
  <2>2. AsLevel(levels[i]).total_quantity = levels[i].total_quantity  BY DEF AsLevel
  <2> QED  BY <1>6, <1>7, <1>8, <2>1, <2>2
<1>15. \A i \in 1..k : levels[i].price \in Prices  BY <1>3, <1>10 DEF PriceLevel
<1> HIDE DEF levels, map
<1>16. InCentsSide(side) = Rust!Snapshot(side)  BY <1>11, <1>13, <1>14
<1>17. DOMAIN SnapshotSide(side) = 1..k  BY <1>12
<1>18. ASSUME NEW i \in 1..k
       PROVE  /\ SnapshotSide(side)[i].price \in Prices
              /\ SnapshotSide(side)[i] = [price |-> SnapshotSide(side)[i].price,
                                          quantity |-> SnapshotSide(side)[i].quantity,
                                          order_count |-> SnapshotSide(side)[i].order_count]
  <2>1. SnapshotSide(side)[i] = [price |-> levels[i].price,
                                 quantity |-> levels[i].total_quantity,
                                 order_count |-> Len(levels[i].orders)]
    BY <1>12, <1>18
  <2> QED  BY <1>15, <1>18, <2>1
<1> QED  BY <1>10, <1>16, <1>17, <1>18

\* What the C++ engine prints of a level is what the Rust engine shows, but for half cents.
LEMMA SnapshotsShow ==
    ASSUME NEW P, P \subseteq Nat, Distinct(P), Twins(bids, asks, RustNow, P)
    PROVE  /\ SnapshotsAgree
           /\ (\A p \in Prices : ~ Rust!HalfCent(p)) => SnapshotsIdentical
<1>1. ASSUME NEW side \in Sides
      PROVE  /\ Len(CppSnapshot(side)) = Len(Rust!Snapshot(side))
             /\ \A i \in DOMAIN CppSnapshot(side) :
                   \/ CppSnapshot(side)[i] = Rust!Snapshot(side)[i]
                   \/ /\ Rust!HalfCent(SnapshotSide(side)[i].price)
                      /\ CppSnapshot(side)[i] = [Rust!Snapshot(side)[i] EXCEPT !.price = @ - 1]
             /\ (\A p \in Prices : ~ Rust!HalfCent(p)) => CppSnapshot(side) = Rust!Snapshot(side)
  <2> DEFINE levels == SnapshotSide(side)
             shown == CppSnapshot(side)
             peer == Rust!Snapshot(side)
  <2>1. PICK k \in Nat : DOMAIN levels = 1..k  BY SnapshotsAlike
  <2>2. /\ shown = [i \in 1..k |-> [levels[i] EXCEPT !.price = Printed(@)]]
        /\ peer = [i \in 1..k |-> [levels[i] EXCEPT !.price = Rust!Cents(@)]]
    <3>1. InCentsSide(side) = peer  BY SnapshotsAlike
    <3> QED  BY <2>1, <3>1 DEF CppSnapshot, InCentsSide
  <2>3. \A i \in 1..k : /\ levels[i].price \in Prices
                        /\ levels[i] = [price |-> levels[i].price,
                                        quantity |-> levels[i].quantity,
                                        order_count |-> levels[i].order_count]
    BY <2>1, SnapshotsAlike
  <2> HIDE DEF levels, shown, peer
  <2>4. ASSUME NEW i \in 1..k
        PROVE  /\ shown[i] = peer[i] \/ (/\ Rust!HalfCent(levels[i].price)
                                         /\ shown[i] = [peer[i] EXCEPT !.price = @ - 1])
               /\ ~ Rust!HalfCent(levels[i].price) => shown[i] = peer[i]
    <3>1. PICK p, q, c : p \in Prices /\ levels[i] = [price |-> p, quantity |-> q,
                                                      order_count |-> c]
      BY <2>3, <2>4
    <3>2. p \in Nat /\ levels[i].price = p  BY <3>1, PricesAssumption
    <3>3. shown[i] = [price |-> Printed(p), quantity |-> q, order_count |-> c]
      BY <2>2, <2>4, <3>1
    <3>4. peer[i] = [price |-> Rust!Cents(p), quantity |-> q, order_count |-> c]
      BY <2>2, <2>4, <3>1
    <3>5. \/ Printed(p) = Rust!Cents(p)
          \/ Rust!HalfCent(p) /\ Printed(p) = Rust!Cents(p) - 1
      BY <3>2, PrintedNear
    <3>6. [peer[i] EXCEPT !.price = @ - 1] =
             [price |-> Rust!Cents(p) - 1, quantity |-> q, order_count |-> c]
      BY <3>4
    <3> QED  BY <3>2, <3>3, <3>4, <3>5, <3>6
  <2>5. DOMAIN shown = 1..k /\ DOMAIN peer = 1..k /\ Len(shown) = k /\ Len(peer) = k
    BY <2>1, <2>2
  <2>6. (\A p \in Prices : ~ Rust!HalfCent(p)) => shown = peer
    <3>1. SUFFICES ASSUME \A p \in Prices : ~ Rust!HalfCent(p) PROVE shown = peer
      OBVIOUS
    <3>2. \A i \in 1..k : shown[i] = peer[i]  BY <2>3, <2>4, <3>1
    <3> QED  BY <2>2, <3>2
  <2>7. /\ Len(shown) = Len(peer)
        /\ \A i \in DOMAIN shown : \/ shown[i] = peer[i]
                                   \/ /\ Rust!HalfCent(levels[i].price)
                                      /\ shown[i] = [peer[i] EXCEPT !.price = @ - 1]
    BY <2>4, <2>5
  <2> QED  BY <2>6, <2>7 DEF levels, shown, peer
<1> QED  BY <1>1 DEF SnapshotsAgree, SnapshotsIdentical
-----------------------------------------------------------------------------
(* The invariant of the two engines *)

Accepted(o) == Parses(o) /\ Valid(o)

\* What is known of a line that was sent.
LineKnown ==
    /\ Len(Items(line)) \in Nat /\ DOMAIN Items(line) = 1..Len(Items(line))
    /\ \A i \in 1..Len(Items(line)) : Accepted(Items(line)[i]) => Items(line)[i] \in Orders
    /\ line.action = "empty" => line.end = "whole"

\* The answers either engine gives to a line, as far as the C++ engine accepts it.
CppAnswered ==
    \/ answer = Pending /\ rust_answer = Rust!Pending /\ rust_at = 1
    \/ answer = Silent /\ line.action = "empty" /\ at = 1
    \/ answer = SnapshotSent /\ line.action = "snapshot" /\ at = 1
    \/ answer = BatchResult(at - 1) /\ Batch /\ line.end # "cut" /\ at = Len(Items(line)) + 1

RustAnswered ==
    \/ rust_answer = Rust!Pending
    \/ rust_answer = Rust!Silent /\ line.action \in {"empty", "blank", "missing", "unknown"}
    \/ rust_answer = Rust!Error /\ line.end # "whole"
    \/ rust_answer = Rust!SnapshotSent /\ line.action = "snapshot" /\ line.end = "whole"
    \/ /\ rust_answer = Rust!BatchResult(rust_at - 1)
       /\ line.action = "batch" /\ line.end = "whole" /\ rust_at = Len(Items(line)) + 1

\* The Rust book goes through run[rust_at], ..., run[at] on the orders the C++ engine has
\* taken and it has not, and with the last of them it is the C++ book of now.
Leads(P, run) ==
    /\ P \subseteq Nat /\ Distinct(P)
    /\ \A i \in at..Len(Items(line)) : Accepted(Items(line)[i]) => Items(line)[i].price \in P
    /\ run[rust_at] = RustNow
    /\ \A i \in rust_at..(at - 1) : run[i + 1] = RustAdded(run[i], AsOrder(Items(line)[i]))
    /\ Twins(bids, asks, run[at], P)
    /\ run[at].log = Cented(log)
    /\ run[at].found = (reply.error = "none")

Follows ==
    /\ at \in 1..(Len(Items(line)) + 1) /\ rust_at \in 1..at
    /\ CppAnswered /\ RustAnswered
    /\ \A i \in 1..(at - 1) : Accepted(Items(line)[i])
    /\ log \in Seq(TradeReport)
    /\ \E P, run : Leads(P, run)

EngineInv ==
    /\ BookInv
    /\ LineKnown
    /\ IF answer = Error THEN ~ Proper(line) \/ reply.error = "trade_batch_overflow"
       ELSE Follows

\* The two engines use the same answers, and these are different.
LEMMA Answers ==
    /\ Rust!Pending = Pending /\ Rust!Silent = Silent /\ Rust!Error = Error
    /\ Rust!SnapshotSent = SnapshotSent /\ \A n : Rust!BatchResult(n) = BatchResult(n)
    /\ Pending.type = "pending" /\ Silent.type = "silent" /\ Error.type = "error"
    /\ SnapshotSent.type = "snapshot"
    /\ \A n : BatchResult(n).type = "batch_result" /\ BatchResult(n).processed = n
    /\ Silent.processed = 0 /\ SnapshotSent.processed = 0
BY DEF Pending, Silent, Error, SnapshotSent, BatchResult, Rust!Pending, Rust!Silent, Rust!Error,
       Rust!SnapshotSent, Rust!BatchResult

LEMMA ItemsOfBatch ==
    /\ Batch => Items(line) = line.orders /\ line.action = "batch" /\ line.orders # Absent
    /\ ~ Batch => Items(line) = <<>>
    /\ line.action = "batch" => Rust!Received = Items(line)
BY DEF Batch, Items, Rust!Received

\* A whole order is read alike.
LEMMA OrdersReadAlike ==
    ASSUME NEW o \in Orders, Accepted(o)
    PROVE  Rust!OrderOf(o) = AsOrder(o)
<1>1. /\ o.order_id # Absent /\ o.price # Absent /\ o.quantity # Absent
      /\ o.side \in Sides /\ o.side # Absent
  BY AbsentAssumption DEF Accepted, Parses, Reads
<1>2. /\ Rust!Default(o.order_id, 0) = o.order_id /\ Rust!Default(o.price, 0) = o.price
      /\ Rust!Default(o.quantity, 0) = o.quantity /\ Rust!Default(o.side, "buy") = o.side
  BY <1>1 DEF Rust!Default
<1>3. (IF o.side = "buy" THEN "buy" ELSE "sell") = o.side  BY <1>1 DEF Sides
<1> QED  BY <1>2, <1>3 DEF Rust!OrderOf, AsOrder

\* Two engines that acknowledged the line are done with it, and have the same book.
Together(P) ==
    /\ P \subseteq Nat /\ Distinct(P) /\ Twins(bids, asks, RustNow, P)
    /\ rust_log = Cented(log) /\ rust_reply.found = (reply.error = "none")

LEMMA AcknowledgedTogether ==
    ASSUME EngineInv, Acknowledged
    PROVE  /\ rust_at = at /\ at = Len(Items(line)) + 1
           /\ answer = rust_answer /\ answer # Error /\ answer # Pending
           /\ answer.processed = Len(Items(line)) /\ Proper(line)
           /\ \E P : Together(P)
<1>1. answer = rust_answer /\ answer # Error /\ answer # Pending
  BY Answers DEF Acknowledged, BothAnswered
<1>2. Follows  BY <1>1 DEF EngineInv
<1>3. LineKnown  BY DEF EngineInv
<1>4. Len(Items(line)) \in Nat /\ at \in 1..(Len(Items(line)) + 1) /\ rust_at \in 1..at
  BY <1>2, <1>3 DEF Follows, LineKnown
<1>5. /\ RustAnswered /\ \A i \in 1..(at - 1) : Accepted(Items(line)[i])
      /\ \E P, run : Leads(P, run)
  BY <1>2 DEF Follows
<1>6. /\ rust_at = at /\ at = Len(Items(line)) + 1 /\ answer.processed = Len(Items(line))
      /\ line.action \in {"empty", "snapshot", "batch"} /\ line.end = "whole"
      /\ line.action = "batch" => line.orders # Absent
  <2>1. CASE answer = Silent /\ line.action = "empty" /\ at = 1
    <3>1. Len(Items(line)) = 0  BY <2>1 DEF Items
    <3>2. line.end = "whole"  BY <1>3, <2>1 DEF LineKnown
    <3>3. rust_at = 1  BY <1>4, <2>1
    <3> QED  BY <2>1, <3>1, <3>2, <3>3, Answers
  <2>2. CASE answer = SnapshotSent /\ line.action = "snapshot" /\ at = 1
    <3>1. Len(Items(line)) = 0  BY <2>2 DEF Items
    <3>2. rust_answer.type = "snapshot"  BY <1>1, <2>2, Answers
    <3>3. line.end = "whole"  BY <1>5, <3>2, Answers DEF RustAnswered
    <3>4. rust_at = 1  BY <1>4, <2>2
    <3> QED  BY <2>2, <3>1, <3>3, <3>4, Answers
  <2>3. CASE answer = BatchResult(at - 1) /\ Batch /\ line.end # "cut" /\ at = Len(Items(line)) + 1
    <3>1. rust_answer.type = "batch_result"  BY <1>1, <2>3, Answers
    <3>2. line.end = "whole" /\ rust_at = Len(Items(line)) + 1
      BY <1>5, <3>1, Answers DEF RustAnswered
    <3>3. answer.processed = at - 1  BY <2>3, Answers
    <3> QED  BY <1>4, <2>3, <3>2, <3>3 DEF Batch
  <2> QED  BY <1>1, <1>2, <2>1, <2>2, <2>3 DEF Follows, CppAnswered
<1>7. Proper(line)
  <2>1. DOMAIN Items(line) = 1..Len(Items(line))  BY <1>3 DEF LineKnown
  <2>2. 1..(at - 1) = 1..Len(Items(line))  BY <1>4, <1>6
  <2> QED  BY <1>5, <1>6, <2>1, <2>2 DEF Proper, Accepted
<1>8. \E P : Together(P)
  <2>1. PICK P, run : Leads(P, run)  BY <1>5
  <2>2. run[at] = RustNow  BY <1>6, <2>1 DEF Leads
  <2>3. RustNow.log = rust_log /\ RustNow.found = rust_reply.found  BY DEF RustNow
  <2> HIDE DEF RustNow
  <2>4. Together(P)  BY <2>1, <2>2, <2>3 DEF Leads, Together
  <2> QED  BY <2>4
<1> QED  BY <1>1, <1>6, <1>7, <1>8

\* Twins need no more prices than those that rest.
LEMMA TwinsNarrow ==
    ASSUME NEW buys, NEW sells, NEW b, NEW P, Twins(buys, sells, b, P),
           NEW Q, PricesOf(buys) \cup PricesOf(sells) \subseteq Q
    PROVE  Twins(buys, sells, b, Q)
BY DEF Twins, SideAlike

\* Lines to come, and the prices that rest together with theirs.
Sendable(l) ==
    /\ Len(Items(l)) \in Nat /\ DOMAIN Items(l) = 1..Len(Items(l))
    /\ \A i \in 1..Len(Items(l)) : Accepted(Items(l)[i]) => Items(l)[i] \in Orders
    /\ l.action = "empty" => l.end = "whole"

LEMMA BatchSendable ==
    ASSUME NEW n \in Nat, NEW orders \in [1..n -> Orders]
    PROVE  Sendable(BatchLine(orders))
<1>1. /\ BatchLine(orders).action = "batch" /\ BatchLine(orders).orders = orders
  BY DEF BatchLine
<1>2. Items(BatchLine(orders)) \in Seq(Orders)  BY <1>1 DEF Items
<1> HIDE DEF BatchLine
<1> DEFINE s == Items(BatchLine(orders))
<1>3. Len(s) \in Nat /\ DOMAIN s = 1..Len(s) /\ \A i \in 1..Len(s) : s[i] \in Orders
  <2>1. s \in Seq(Orders)  BY <1>2
  <2> HIDE DEF s
  <2> QED  BY <2>1, LenProperties
<1> QED  BY <1>1, <1>3 DEF Sendable

LEMMA OddSendable ==
    ASSUME NEW l \in OddLines
    PROVE  Sendable(l)
<1> DEFINE s == Items(l)
<1>1. /\ l.action = "empty" => l.end = "whole"
      /\ s \in Seq(ToSet(s)) /\ \A o \in ToSet(s) : Parses(o) /\ Valid(o) => o \in Orders
  BY OddLinesAssumption
<1>2. /\ Len(s) \in Nat /\ DOMAIN s = 1..Len(s) /\ \A i \in 1..Len(s) : s[i] \in ToSet(s)
  <2> DEFINE X == ToSet(s)
  <2>1. s \in Seq(X)  BY <1>1
  <2> HIDE DEF s, X
  <2>2. /\ Len(s) \in Nat /\ DOMAIN s = 1..Len(s) /\ \A i \in 1..Len(s) : s[i] \in X
    BY <2>1, LenProperties
  <2> QED  BY <2>2 DEF X
<1> QED  BY <1>1, <1>2 DEF Sendable, Accepted

LEMMA AcceptedPrice ==
    ASSUME NEW o \in Orders, Accepted(o)
    PROVE  o.price \in Prices /\ o.price \in Nat /\ o.price # Absent
BY OrdersAssumption, PricesAssumption, AbsentAssumption DEF Accepted, Parses, Reads

\* No two prices of a set fall on one cent, if those of the line and those that rest do not.
LEMMA CentsApartDistinct ==
    ASSUME NEW more, CentsApart(more), NEW P, P \subseteq Nat,
           P \subseteq PricesOf(bids) \cup PricesOf(asks) \cup more,
           NEW b, NEW Q, Twins(bids, asks, b, Q)
    PROVE  Distinct(P)
<1>1. bids \in Seq(PriceLevel) /\ asks \in Seq(PriceLevel)
  BY DEF Twins, SideAlike, SideOK
<1>2. DOMAIN bids = 1..Len(bids) /\ DOMAIN asks = 1..Len(asks)  BY <1>1
<1>3. {bids[i].price : i \in DOMAIN bids} = PricesOf(bids)
      /\ {asks[i].price : i \in DOMAIN asks} = PricesOf(asks)
  BY <1>2 DEF PricesOf
<1>4. \A p \in P : p # Absent  BY AbsentAssumption
<1> QED  BY <1>3, <1>4 DEF CentsApart, Distinct

LEMMA EngineInitial ==
    ASSUME ParityInit
    PROVE  EngineInv
<1>1. /\ Init /\ at = 1 /\ answer = Silent /\ log = <<>>
      /\ line.action = "empty" /\ line.end = "whole"
  BY DEF ParityInit, EngineInit
<1>2. /\ rust_bids = [p \in {} |-> 0] /\ rust_asks = [p \in {} |-> 0]
      /\ rust_reply.found = TRUE /\ rust_at = 1 /\ rust_answer = Silent /\ rust_log = <<>>
  BY Answers DEF ParityInit, Rust!EngineInit, Rust!Init
<1>3. BookInv  BY <1>1, BookInitial
<1>4. Items(line) = <<>>  BY <1>1 DEF Items
<1>5. LineKnown  BY <1>1, <1>4 DEF LineKnown
<1>6. bids = <<>> /\ asks = <<>> /\ reply.error = "none"  BY <1>1 DEF Init
<1>7. ASSUME NEW side, NEW map, map = [p \in {} |-> 0]
      PROVE  SideAlike(side, <<>>, map, {})
  <2>1. SideOK(side, <<>>)  BY DEF SideOK, Sorted
  <2>2. CentsOf(<<>>) = {} /\ PricesOf(<<>>) = {}  BY DEF CentsOf, PricesOf
  <2>3. map \in [{} -> RustLevel]  BY <1>7
  <2> QED  BY <2>1, <2>2, <2>3 DEF SideAlike, Mirrors, FullSide
<1>8. Twins(bids, asks, RustNow, {})
  <2>1. RustNow.bids = rust_bids /\ RustNow.asks = rust_asks  BY DEF RustNow
  <2> HIDE DEF RustNow
  <2> QED  BY <1>2, <1>6, <1>7, <2>1 DEF Twins
<1>9. Cented(<<>>) = <<>>  BY DEF Cented
<1> DEFINE run == [i \in {1} |-> RustNow]
<1>10. Leads({}, run)
  <2>1. run[1] = RustNow /\ RustNow.log = <<>> /\ RustNow.found = TRUE  BY <1>2 DEF RustNow
  <2> HIDE DEF run, RustNow
  <2>2. Distinct({})  BY DEF Distinct
  <2>3. at..Len(Items(line)) = {} /\ rust_at..(at - 1) = {}  BY <1>1, <1>2, <1>4
  <2>4. run[rust_at] = RustNow /\ run[at] = RustNow  BY <1>1, <1>2, <2>1
  <2>5. run[at].log = Cented(log)  BY <1>1, <1>9, <2>1, <2>4
  <2>6. run[at].found = (reply.error = "none")  BY <1>6, <2>1, <2>4
  <2>7. Twins(bids, asks, run[at], {})  BY <1>8, <2>4
  <2> QED  BY <2>2, <2>3, <2>4, <2>5, <2>6, <2>7 DEF Leads
<1> HIDE DEF run
<1>11. Follows
  <2>1. log \in Seq(TradeReport)  BY <1>1
  <2>2. CppAnswered /\ RustAnswered  BY <1>1, <1>2, Answers DEF CppAnswered, RustAnswered
  <2>3. Len(Items(line)) = 0  BY <1>4
  <2> QED  BY <1>1, <1>2, <1>10, <2>1, <2>2, <2>3 DEF Follows
<1>12. answer # Error  BY <1>1, Answers
<1> QED  BY <1>3, <1>5, <1>11, <1>12 DEF EngineInv
-----------------------------------------------------------------------------
(* Every step keeps it *)

LEMMA BookStays ==
    ASSUME BookInv, UNCHANGED book
    PROVE  BookInv'
BY BookPreserved DEF book, vars

\* The next line.
LEMMA SendKeeps ==
    ASSUME EngineInv, NEW l, Sendable(l), Send(l)
    PROVE  EngineInv'
<1>1. /\ Acknowledged /\ CentsApart({Items(l)[i].price : i \in DOMAIN Items(l)})
      /\ line' = l /\ at' = 1 /\ answer' = Pending /\ log' = <<>> /\ UNCHANGED book
      /\ rust_at' = 1 /\ rust_answer' = Pending /\ rust_log' = <<>>
      /\ UNCHANGED <<rust_bids, rust_asks, rust_reply>>
  BY Answers DEF Send, Begin, Rust!Begin, Rust!book
<1>2. BookInv'  BY <1>1, BookStays DEF EngineInv
<1>3. LineKnown'  BY <1>1 DEF Sendable, LineKnown
<1>4. UNCHANGED <<bids, asks, reply>>  BY <1>1 DEF book
<1>5. PICK Q : Together(Q)  BY <1>1, AcknowledgedTogether
<1>6. Twins(bids, asks, RustNow, Q)  BY <1>5 DEF Together
<1> DEFINE given == {Items(l)[i].price : i \in DOMAIN Items(l)}
<1>7. PICK P : P = (PricesOf(bids) \cup PricesOf(asks) \cup given) \cap Nat  OBVIOUS
<1>8. PICK run : run = [i \in {1} |-> RustNow']  OBVIOUS
<1>9. Distinct(P)
  <2>1. CentsApart(given)  BY <1>1
  <2>2. P \subseteq Nat /\ P \subseteq PricesOf(bids) \cup PricesOf(asks) \cup given
    BY <1>7
  <2> HIDE DEF given
  <2> QED  BY <1>6, <2>1, <2>2, CentsApartDistinct
<1>10. PricesOf(bids) \cup PricesOf(asks) \subseteq P
  <2>1. Q \subseteq Nat /\ PricesOf(bids) \subseteq Q /\ PricesOf(asks) \subseteq Q
    BY <1>5, <1>6 DEF Together, Twins, SideAlike
  <2> QED  BY <1>7, <2>1
<1>11. \A i \in 1..Len(Items(l)) : Accepted(Items(l)[i]) => Items(l)[i].price \in P
  <2> SUFFICES ASSUME NEW i \in 1..Len(Items(l)), Accepted(Items(l)[i])
               PROVE  Items(l)[i].price \in P
    OBVIOUS
  <2>1. Items(l)[i] \in Orders /\ i \in DOMAIN Items(l)  BY DEF Sendable
  <2>2. Items(l)[i].price \in Nat  BY <2>1, AcceptedPrice
  <2> QED  BY <1>7, <2>1, <2>2
<1>12. P \subseteq Nat  BY <1>7
<1>13. Twins(bids, asks, RustNow, P)  BY <1>6, <1>10, TwinsNarrow
<1>14. /\ RustNow.bids = rust_bids /\ RustNow.asks = rust_asks /\ RustNow'.bids = rust_bids
       /\ RustNow'.asks = rust_asks /\ RustNow'.log = <<>> /\ RustNow'.found = rust_reply.found
  BY <1>1 DEF RustNow
<1>15. Twins(bids', asks', RustNow', P)  BY <1>4, <1>13, <1>14 DEF Twins
<1>16. run[1] = RustNow'  BY <1>8
<1>17. Leads(P, run)'
  <2>1. Cented(<<>>) = <<>>  BY DEF Cented
  <2>2. rust_reply.found = (reply.error = "none")  BY <1>5 DEF Together
  <2>3. rust_at'..(at' - 1) = {}  BY <1>1
  <2>4. run[at'] = RustNow' /\ run[rust_at'] = RustNow'  BY <1>1, <1>16
  <2>5. run[at'].log = Cented(log')  BY <1>1, <1>14, <2>1, <2>4
  <2>6. run[at'].found = (reply'.error = "none")  BY <1>4, <1>14, <2>2, <2>4
  <2>7. Twins(bids', asks', run[at'], P)  BY <1>15, <2>4
  <2>8. \A i \in at'..Len(Items(line')) : Accepted(Items(line')[i]) => Items(line')[i].price \in P
    BY <1>1, <1>11
  <2> HIDE DEF RustNow
  <2> QED  BY <1>9, <1>12, <2>3, <2>4, <2>5, <2>6, <2>7, <2>8 DEF Leads
<1>18. Follows'
  <2>1. CppAnswered' /\ RustAnswered'  BY <1>1, Answers DEF CppAnswered, RustAnswered
  <2>2. log' \in Seq(TradeReport) /\ 1..(at' - 1) = {}  BY <1>1
  <2>3. at' \in 1..(Len(Items(line')) + 1) /\ rust_at' \in 1..at'
    BY <1>1 DEF Sendable
  <2> QED  BY <1>17, <2>1, <2>2, <2>3 DEF Follows
<1>19. answer' # Error  BY <1>1, Answers
<1> QED  BY <1>2, <1>3, <1>18, <1>19 DEF EngineInv

\* What of the invariant an engine at work leaves alone.
LEMMA LineStays ==
    ASSUME LineKnown, line' = line
    PROVE  LineKnown' /\ Items(line') = Items(line) /\ (Proper(line') <=> Proper(line))
BY DEF LineKnown

\* The C++ engine answers without touching its book.
LEMMA CppAnswerKeeps ==
    ASSUME EngineInv, UNCHANGED <<book, at, log, rust, line>>, answer = Pending,
           answer' # Error => CppAnswered',
           answer' = Error => ~ Proper(line)
    PROVE  EngineInv'
<1>1. BookInv' /\ LineKnown'  BY BookStays, LineStays DEF EngineInv
<1>2. CASE answer' = Error  BY <1>1, <1>2 DEF EngineInv
<1>3. CASE answer' # Error
  <2>1. Follows  BY Answers DEF EngineInv
  <2>2. UNCHANGED <<bids, asks, reply, rust_bids, rust_asks, rust_reply, rust_at, rust_answer,
                    rust_log>>
    BY DEF book, rust
  <2>3. RustNow' = RustNow  BY <2>2 DEF RustNow
  <2>4. PICK P, run : Leads(P, run)  BY <2>1 DEF Follows
  <2>5. Leads(P, run)'  BY <2>2, <2>3, <2>4 DEF Leads
  <2>6. RustAnswered'  BY <2>1, <2>2 DEF Follows, RustAnswered
  <2>7. Follows'  BY <1>3, <2>1, <2>2, <2>5, <2>6 DEF Follows
  <2> QED  BY <1>1, <1>3, <2>7 DEF EngineInv
<1> QED  BY <1>2, <1>3

\* What holds while the C++ engine is at a line.
LEMMA AtWork ==
    ASSUME EngineInv, answer = Pending
    PROVE  /\ Follows /\ rust_answer = Pending /\ rust_at = 1
           /\ at \in 1..(Len(Items(line)) + 1) /\ Len(Items(line)) \in Nat
           /\ line.action # "batch" => at = 1
<1>1. Follows /\ LineKnown  BY Answers DEF EngineInv
<1>2. CppAnswered /\ at \in 1..(Len(Items(line)) + 1) /\ Len(Items(line)) \in Nat
  BY <1>1 DEF Follows, LineKnown
<1>3. rust_answer = Pending /\ rust_at = 1  BY <1>2, Answers DEF CppAnswered
<1>4. line.action # "batch" => Len(Items(line)) = 0  BY DEF Items
<1>5. line.action # "batch" => at = 1  BY <1>2, <1>4
<1> QED  BY <1>1, <1>2, <1>3, <1>5

LEMMA IgnoreKeeps ==
    ASSUME EngineInv, Ignore, UNCHANGED <<rust, line>>
    PROVE  EngineInv'
<1>1. /\ line.action = "empty" /\ answer = Pending /\ answer' = Silent
      /\ UNCHANGED <<book, at, log, rust, line>>
  BY DEF Ignore, Answer
<1>2. at = 1  BY <1>1, AtWork
<1>3. CppAnswered'  BY <1>1, <1>2 DEF CppAnswered
<1>4. answer' # Error  BY <1>1, Answers
<1> QED  BY <1>1, <1>3, <1>4, CppAnswerKeeps

LEMMA RefuseKeeps ==
    ASSUME EngineInv, Refuse, UNCHANGED <<rust, line>>
    PROVE  EngineInv'
<1>1. /\ answer = Pending /\ answer' = Error /\ UNCHANGED <<book, at, log, rust, line>>
  BY DEF Refuse, Answer
<1>2. ~ Proper(line)  BY DEF Refuse, Proper
<1> QED  BY <1>1, <1>2, CppAnswerKeeps

LEMMA UnreadableKeeps ==
    ASSUME EngineInv, Unreadable, UNCHANGED <<rust, line>>
    PROVE  EngineInv'
<1>1. /\ answer = Pending /\ answer' = Error /\ UNCHANGED <<book, at, log, rust, line>>
      /\ Batch /\ at <= Len(line.orders) /\ ~ Parses(line.orders[at])
  BY DEF Unreadable, Answer
<1>2. Items(line) = line.orders  BY <1>1, ItemsOfBatch
<1>3. at \in 1..Len(Items(line))  BY <1>1, <1>2, AtWork
<1>4. DOMAIN Items(line) = 1..Len(Items(line))  BY DEF EngineInv, LineKnown
<1>5. ~ Proper(line)  BY <1>1, <1>2, <1>3, <1>4 DEF Proper
<1> QED  BY <1>1, <1>5, CppAnswerKeeps

LEMMA AnswerBatchKeeps ==
    ASSUME EngineInv, AnswerBatch, UNCHANGED <<rust, line>>
    PROVE  EngineInv'
<1>1. Batch /\ at > Len(line.orders) /\ UNCHANGED <<book, rust, line>>
  BY DEF AnswerBatch
<1>2. /\ answer = Pending /\ UNCHANGED <<at, log>>
      /\ IF line.end = "cut" THEN answer' = Error ELSE answer' = BatchResult(at - 1)
  BY DEF AnswerBatch, Answer
<1>3. UNCHANGED <<book, at, log, rust, line>>  BY <1>1, <1>2
<1>4. CASE line.end = "cut"
  <2>1. ~ Proper(line)  BY <1>4 DEF Proper
  <2> QED  BY <1>2, <1>3, <1>4, <2>1, CppAnswerKeeps
<1>5. CASE line.end # "cut"
  <2>1. Items(line) = line.orders  BY <1>1, ItemsOfBatch
  <2>2. at = Len(Items(line)) + 1  BY <1>1, <1>2, <2>1, AtWork
  <2>3. answer' = BatchResult(at - 1) /\ answer' # Error  BY <1>2, <1>5, Answers
  <2>4. CppAnswered'  BY <1>1, <1>3, <1>5, <2>2, <2>3 DEF CppAnswered, Batch
  <2> QED  BY <1>2, <1>3, <2>3, <2>4, CppAnswerKeeps
<1> QED  BY <1>4, <1>5

LEMMA AnswerSnapshotKeeps ==
    ASSUME EngineInv, AnswerSnapshot, UNCHANGED <<rust, line>>
    PROVE  EngineInv'
<1>1. /\ line.action = "snapshot" /\ answer = Pending /\ answer' = SnapshotSent
      /\ UNCHANGED <<book, at, log, rust, line>>
  BY DEF AnswerSnapshot, Answer
<1>2. at = 1  BY <1>1, AtWork
<1>3. CppAnswered'  BY <1>1, <1>2 DEF CppAnswered
<1>4. answer' # Error  BY <1>1, Answers
<1> QED  BY <1>1, <1>3, <1>4, CppAnswerKeeps

\* An order the C++ book accepts: the Rust book has one more order to catch up with.
LEMMA AcceptedKeeps ==
    ASSUME EngineInv, answer = Pending, Batch, at <= Len(line.orders),
           Parses(line.orders[at]), AddValidOrder(line.orders[at]), reply'.error = "none",
           at' = at + 1, log' = log \o reply'.trades, UNCHANGED <<answer, rust, line>>
    PROVE  EngineInv'
<1> DEFINE o == Items(line)[at]
<1>1. Items(line) = line.orders  BY ItemsOfBatch
<1>2. at \in 1..Len(Items(line)) /\ at \in Nat /\ Len(Items(line)) \in Nat
  BY <1>1, AtWork
<1>3. Follows /\ rust_answer = Pending /\ rust_at = 1  BY AtWork
<1>4. BookInv /\ LineKnown  BY DEF EngineInv
<1>5. Accepted(o) /\ AddValidOrder(o)  BY <1>1 DEF AddValidOrder, Accepted
<1>6. o \in Orders  BY <1>2, <1>4, <1>5 DEF LineKnown
<1> HIDE DEF o
<1>7. BookInv'  BY <1>4, <1>5, <1>6, AddKeeps
<1>8. PICK P, lead : Leads(P, lead)  BY <1>3 DEF Follows
<1>9. PICK y : y = RustAdded(lead[at], AsOrder(o))  OBVIOUS
<1>10. P \subseteq Nat /\ Distinct(P) /\ Twins(bids, asks, lead[at], P) /\ o.price \in P
  <2>1. at \in at..Len(Items(line))  BY <1>2
  <2> QED  BY <1>5, <1>8, <2>1 DEF Leads, o
<1>11. /\ Twins(bids', asks', y, P)
       /\ y.log = lead[at].log \o Cented(reply'.trades) /\ y.found = TRUE
  <2> DEFINE b == lead[at]
  <2>1. Twins(bids, asks, b, P) /\ y = RustAdded(b, AsOrder(o))  BY <1>9, <1>10
  <2> HIDE DEF b
  <2>2. /\ Twins(bids', asks', y, P)
        /\ y.log = b.log \o Cented(reply'.trades) /\ y.found = TRUE
    BY <1>4, <1>5, <1>6, <1>10, <2>1, AddAlike
  <2> QED  BY <2>2 DEF b
<1>12. log \in Seq(TradeReport) /\ reply'.trades \in Seq(TradeReport)
  BY <1>3, <1>7 DEF Follows, BookInv
<1>13. log' \in Seq(TradeReport) /\ Cented(log') = Cented(log) \o Cented(reply'.trades)
  BY <1>12, CentedConcat
<1>14. y.log = Cented(log')  BY <1>8, <1>11, <1>13 DEF Leads
<1>15. PICK run : run = [i \in 1..(at + 1) |-> IF i = at + 1 THEN y ELSE lead[i]]  OBVIOUS
<1>16. run[at + 1] = y /\ \A i \in 1..at : run[i] = lead[i]  BY <1>2, <1>15
<1>17. RustNow' = RustNow  BY DEF RustNow, rust
<1>18. Leads(P, run)'
  <2>1. /\ run[rust_at'] = RustNow'
    <3>1. run[1] = lead[1] /\ lead[rust_at] = RustNow  BY <1>2, <1>8, <1>16 DEF Leads
    <3> QED  BY <1>3, <1>17, <3>1 DEF rust
  <2>2. \A i \in rust_at'..(at' - 1) : run[i + 1] = RustAdded(run[i], AsOrder(Items(line')[i]))
    <3> SUFFICES ASSUME NEW i \in 1..at PROVE run[i + 1] = RustAdded(run[i], AsOrder(Items(line)[i]))
      BY <1>2, <1>3 DEF rust
    <3>1. CASE i = at  BY <1>2, <1>9, <1>16, <3>1 DEF o
    <3>2. CASE i # at
      <4>1. i \in rust_at..(at - 1) /\ i + 1 \in 1..at  BY <1>2, <1>3, <3>2
      <4>2. lead[i + 1] = RustAdded(lead[i], AsOrder(Items(line)[i]))  BY <1>8, <4>1 DEF Leads
      <4> QED  BY <1>16, <4>1, <4>2
    <3> QED  BY <3>1, <3>2
  <2>3. \A i \in at'..Len(Items(line')) : Accepted(Items(line')[i]) => Items(line')[i].price \in P
    <3>1. \A i \in (at + 1)..Len(Items(line)) : i \in at..Len(Items(line))  BY <1>2
    <3> QED  BY <1>8, <3>1 DEF Leads
  <2>4. run[at'] = y  BY <1>16
  <2>5. run[at'].found = (reply'.error = "none")  BY <1>11, <2>4
  <2>6. Twins(bids', asks', run[at'], P) /\ run[at'].log = Cented(log')  BY <1>11, <1>14, <2>4
  <2> HIDE DEF RustNow
  <2> QED  BY <1>10, <2>1, <2>2, <2>3, <2>5, <2>6 DEF Leads
<1>19. Follows'
  <2>1. /\ at' \in 1..(Len(Items(line')) + 1) /\ rust_at' \in 1..at'
        /\ rust_at' = 1 /\ rust_answer' = Pending /\ answer' = Pending
    BY <1>2, <1>3 DEF rust
  <2>2. CppAnswered' /\ RustAnswered'  BY <2>1, Answers DEF CppAnswered, RustAnswered
  <2>3. \A i \in 1..(at' - 1) : Accepted(Items(line')[i])
    <3>1. \A i \in 1..at : i = at \/ i \in 1..(at - 1)  BY <1>2
    <3>2. \A i \in 1..(at - 1) : Accepted(Items(line)[i])  BY <1>3 DEF Follows
    <3>3. 1..(at' - 1) = 1..at  BY <1>2
    <3> QED  BY <1>5, <3>1, <3>2, <3>3 DEF o
  <2> QED  BY <1>13, <1>18, <2>1, <2>2, <2>3 DEF Follows
<1>20. LineKnown'  BY <1>4, LineStays
<1>21. answer' # Error  BY Answers
<1> QED  BY <1>7, <1>19, <1>20, <1>21 DEF EngineInv

LEMMA SubmitKeeps ==
    ASSUME EngineInv, Submit, UNCHANGED <<rust, line>>
    PROVE  EngineInv'
<1>1. /\ answer = Pending /\ Batch /\ at <= Len(line.orders) /\ Parses(line.orders[at])
      /\ RejectOrder(line.orders[at]) \/ AddValidOrder(line.orders[at])
      /\ IF reply'.error = "none"
         THEN at' = at + 1 /\ log' = log \o reply'.trades /\ UNCHANGED answer
         ELSE answer' = Error /\ UNCHANGED <<at, log>>
  BY DEF Submit, TryAddOrder
<1>2. Items(line) = line.orders  BY <1>1, ItemsOfBatch
<1>3. at \in 1..Len(Items(line))  BY <1>1, <1>2, AtWork
<1>4. BookInv /\ LineKnown /\ DOMAIN Items(line) = 1..Len(Items(line))
  BY DEF EngineInv, LineKnown
<1>5. LineKnown' /\ (Proper(line') <=> Proper(line))  BY <1>4, LineStays
<1>6. CASE RejectOrder(line.orders[at])
  <2>1. ~ Valid(line.orders[at]) /\ reply'.error = "invalid_order"  BY <1>6 DEF RejectOrder, Reply
  <2>2. BookInv'  BY <1>4, <1>6, OnlyReplyKeeps DEF RejectOrder
  <2>3. ~ Proper(line)  BY <1>2, <1>3, <1>4, <2>1 DEF Proper
  <2> QED  BY <1>1, <1>5, <2>1, <2>2, <2>3 DEF EngineInv
<1>7. CASE AddValidOrder(line.orders[at])
  <2>1. CASE reply'.error = "none"  BY <1>1, <1>7, <2>1, AcceptedKeeps
  <2>2. CASE reply'.error # "none"
    <3>1. reply'.error = "trade_batch_overflow"  BY <1>7, <2>2 DEF AddValidOrder, Reply
    <3>2. line.orders[at] \in Orders
      BY <1>1, <1>2, <1>3, <1>4, <1>7 DEF LineKnown, Accepted, AddValidOrder
    <3>3. BookInv'  BY <1>4, <1>7, <3>2, AddKeeps
    <3> QED  BY <1>1, <1>5, <2>2, <3>1, <3>3 DEF EngineInv
  <2> QED  BY <2>1, <2>2
<1> QED  BY <1>1, <1>6, <1>7

\* The Rust engine answers without touching its book.
LEMMA RustAnswerKeeps ==
    ASSUME EngineInv, answer # Pending, UNCHANGED <<cpp, line>>,
           UNCHANGED <<rust_bids, rust_asks, rust_reply, rust_at, rust_log>>,
           answer # Error => RustAnswered'
    PROVE  EngineInv'
<1>1. UNCHANGED <<bids, asks, reply, book, at, answer, log>>  BY DEF cpp, book
<1>2. BookInv' /\ LineKnown' /\ (Proper(line') <=> Proper(line))
  BY <1>1, BookStays, LineStays DEF EngineInv
<1>3. CASE answer = Error
  <2>1. answer' = Error /\ reply' = reply  BY <1>1, <1>3
  <2> QED  BY <1>2, <1>3, <2>1, Answers DEF EngineInv
<1>4. CASE answer # Error
  <2>1. Follows  BY <1>4 DEF EngineInv
  <2>2. RustNow' = RustNow  BY DEF RustNow
  <2>3. PICK P, run : Leads(P, run)  BY <2>1 DEF Follows
  <2>4. Leads(P, run)'  BY <1>1, <2>2, <2>3 DEF Leads
  <2>5. CppAnswered'  BY <1>1, <2>1 DEF Follows, CppAnswered, Batch
  <2>6. RustAnswered'  BY <1>4
  <2>7. Follows'  BY <1>1, <2>1, <2>4, <2>5, <2>6 DEF Follows
  <2>8. answer' # Error  BY <1>1, <1>4, Answers
  <2> QED  BY <1>2, <2>7, <2>8 DEF EngineInv
<1> QED  BY <1>3, <1>4

\* The lines the C++ engine has answered, but not with an error.
LEMMA CppDone ==
    ASSUME EngineInv, answer # Pending, answer # Error
    PROVE  /\ Follows /\ LineKnown /\ at = Len(Items(line)) + 1
           /\ line.action \in {"empty", "snapshot", "batch"}
           /\ line.action # "batch" => at = 1 /\ rust_at = 1
<1>1. Follows /\ LineKnown  BY DEF EngineInv
<1>2. /\ Len(Items(line)) \in Nat /\ at \in 1..(Len(Items(line)) + 1) /\ rust_at \in 1..at
      /\ CppAnswered
  BY <1>1 DEF Follows, LineKnown
<1>3. line.action # "batch" => Len(Items(line)) = 0  BY DEF Items
<1> QED  BY <1>1, <1>2, <1>3 DEF CppAnswered, Batch

LEMMA RustSkipKeeps ==
    ASSUME EngineInv, answer # Pending, Rust!Skip \/ Rust!Ignore, UNCHANGED <<cpp, line>>
    PROVE  EngineInv'
<1>1. /\ line.action \in {"empty", "blank", "missing", "unknown"} /\ rust_answer' = Rust!Silent
      /\ UNCHANGED <<rust_bids, rust_asks, rust_reply, rust_at, rust_log>>
  BY DEF Rust!Skip, Rust!Ignore, Rust!Answer, Rust!book
<1>2. RustAnswered'  BY <1>1 DEF RustAnswered
<1> QED  BY <1>1, <1>2, RustAnswerKeeps

LEMMA RustRefuseKeeps ==
    ASSUME EngineInv, answer # Pending, Rust!Refuse, UNCHANGED <<cpp, line>>
    PROVE  EngineInv'
<1>1. /\ line.end # "whole" /\ rust_answer' = Rust!Error
      /\ UNCHANGED <<rust_bids, rust_asks, rust_reply, rust_at, rust_log>>
  BY DEF Rust!Refuse, Rust!Answer, Rust!book
<1>2. RustAnswered'  BY <1>1 DEF RustAnswered
<1> QED  BY <1>1, <1>2, RustAnswerKeeps

LEMMA RustSnapshotKeeps ==
    ASSUME EngineInv, answer # Pending, Rust!AnswerSnapshot, UNCHANGED <<cpp, line>>
    PROVE  EngineInv'
<1>1. /\ line.action = "snapshot" /\ line.end = "whole" /\ rust_answer' = Rust!SnapshotSent
      /\ UNCHANGED <<rust_bids, rust_asks, rust_reply, rust_at, rust_log>>
  BY DEF Rust!AnswerSnapshot, Rust!Readable, Rust!Answer, Rust!book
<1>2. RustAnswered'  BY <1>1 DEF RustAnswered
<1> QED  BY <1>1, <1>2, RustAnswerKeeps

LEMMA RustAnswerBatchKeeps ==
    ASSUME EngineInv, answer # Pending, Rust!AnswerBatch, UNCHANGED <<cpp, line>>
    PROVE  EngineInv'
<1>1. /\ line.action = "batch" /\ line.end = "whole" /\ rust_at > Len(Rust!Received)
      /\ rust_answer' = Rust!BatchResult(rust_at - 1)
      /\ UNCHANGED <<rust_bids, rust_asks, rust_reply, rust_at, rust_log>>
  BY DEF Rust!AnswerBatch, Rust!Batch, Rust!Readable, Rust!Answer, Rust!book
<1>2. rust_at > Len(Items(line))  BY <1>1, ItemsOfBatch
<1>3. ASSUME answer # Error PROVE RustAnswered'
  <2>1. /\ Len(Items(line)) \in Nat /\ at = Len(Items(line)) + 1 /\ rust_at \in 1..at
    BY <1>3, CppDone DEF Follows, LineKnown
  <2>2. rust_at = Len(Items(line)) + 1  BY <1>2, <2>1
  <2> QED  BY <1>1, <2>2 DEF RustAnswered
<1> QED  BY <1>1, <1>3, RustAnswerKeeps

\* The Rust engine does what the C++ engine did before.
LEMMA RustSubmitKeeps ==
    ASSUME EngineInv, answer # Pending, Rust!Submit, UNCHANGED <<cpp, line>>
    PROVE  EngineInv'
<1>1. /\ line.action = "batch" /\ rust_answer = Rust!Pending /\ rust_answer' = rust_answer
      /\ rust_at <= Len(Rust!Received) /\ rust_at' = rust_at + 1
      /\ Rust!AddOrder(Rust!OrderOf(Rust!Received[rust_at]))
      /\ rust_log' = rust_log \o rust_reply'.trades
  BY DEF Rust!Submit, Rust!Batch
<1>2. UNCHANGED <<bids, asks, reply, book, at, answer, log>>  BY DEF cpp, book
<1>3. BookInv' /\ LineKnown' /\ (Proper(line') <=> Proper(line))
  BY <1>2, BookStays, LineStays DEF EngineInv
<1>4. Rust!Received = Items(line)  BY <1>1, ItemsOfBatch
<1>5. CASE answer = Error
  <2>1. answer' = Error /\ reply' = reply  BY <1>2, <1>5
  <2> QED  BY <1>3, <1>5, <2>1, Answers DEF EngineInv
<1>6. CASE answer # Error
  <2>1. Follows /\ LineKnown /\ at = Len(Items(line)) + 1  BY <1>6, CppDone
  <2>2. Len(Items(line)) \in Nat /\ rust_at \in 1..at  BY <2>1 DEF Follows, LineKnown
  <2>3. rust_at \in 1..(at - 1) /\ rust_at \in 1..Len(Items(line)) /\ rust_at \in Nat /\ at \in Nat
    BY <1>1, <1>4, <2>1, <2>2
  <2> DEFINE o == Items(line)[rust_at]
  <2>4. Accepted(o) /\ o \in Orders  BY <2>1, <2>3 DEF Follows, LineKnown
  <2> HIDE DEF o
  <2>5. Rust!OrderOf(o) = AsOrder(o)  BY <2>4, OrdersReadAlike
  <2>6. Rust!AddOrder(AsOrder(o))  BY <1>1, <1>4, <2>5 DEF o
  <2>7. RustNow' = RustAdded(RustNow, AsOrder(o))  BY <1>1, <2>6, RustSubmits
  <2>8. PICK P, run : Leads(P, run)  BY <2>1 DEF Follows
  <2>9. run[rust_at] = RustNow /\ rust_at \in rust_at..(at - 1)  BY <2>3, <2>8 DEF Leads
  <2>10. run[rust_at + 1] = RustAdded(run[rust_at], AsOrder(o))  BY <2>8, <2>9 DEF Leads, o
  <2>11. run[rust_at'] = RustNow'  BY <1>1, <2>7, <2>9, <2>10
  <2>12. \A i \in rust_at'..(at - 1) : i \in rust_at..(at - 1)  BY <1>1, <2>3
  <2> HIDE DEF RustNow
  <2>13. Leads(P, run)'  BY <1>2, <2>8, <2>11, <2>12 DEF Leads
  <2>14. RustAnswered' /\ CppAnswered'
    BY <1>1, <1>2, <2>1 DEF Follows, CppAnswered, RustAnswered, Batch
  <2>15. at' \in 1..(Len(Items(line')) + 1) /\ rust_at' \in 1..at'
    BY <1>1, <1>2, <2>1, <2>2, <2>3
  <2>16. Follows'  BY <1>2, <2>1, <2>13, <2>14, <2>15 DEF Follows
  <2>17. answer' # Error  BY <1>2, <1>6, Answers
  <2> QED  BY <1>3, <2>16, <2>17 DEF EngineInv
<1> QED  BY <1>5, <1>6

\* A cancel or a modify in both books, between lines.
LEMMA ReplayKeeps ==
    ASSUME EngineInv, Acknowledged, [Next]_vars, NEW P, P \subseteq Nat, Distinct(P),
           Twins(bids', asks', RustNow', P),
           (reply'.error = "none") = rust_reply'.found,
           UNCHANGED <<line, at, rust_at, answer, rust_answer, log, rust_log>>
    PROVE  EngineInv'
<1>1. /\ rust_at = at /\ at = Len(Items(line)) + 1 /\ answer # Error /\ answer # Pending
      /\ \E Q : Together(Q)
  BY AcknowledgedTogether
<1>2. Follows /\ LineKnown /\ BookInv  BY <1>1 DEF EngineInv
<1>3. BookInv' /\ LineKnown'  BY <1>2, BookPreserved, LineStays
<1>4. PICK run : run = [i \in {at} |-> RustNow']  OBVIOUS
<1>5. run[at] = RustNow'  BY <1>4
<1>6. RustNow'.log = rust_log' /\ RustNow'.found = rust_reply'.found  BY DEF RustNow
<1>7. rust_log = Cented(log)  BY <1>1 DEF Together
<1>8. Len(Items(line)) \in Nat /\ at \in Nat  BY <1>1, <1>2 DEF LineKnown
<1> HIDE DEF RustNow
<1>9. Leads(P, run)'
  <2>1. at'..Len(Items(line')) = {} /\ rust_at'..(at' - 1) = {}  BY <1>1, <1>8
  <2>2. run[rust_at'] = RustNow' /\ run[at'] = RustNow'  BY <1>1, <1>5
  <2>3. run[at'].log = Cented(log')  BY <1>5, <1>6, <1>7
  <2>4. run[at'].found = (reply'.error = "none")  BY <1>5, <1>6
  <2>5. Twins(bids', asks', run[at'], P)  BY <2>2
  <2> QED  BY <2>1, <2>2, <2>3, <2>4, <2>5 DEF Leads
<1>10. CppAnswered' /\ RustAnswered'
  BY <1>1, <1>2 DEF Follows, CppAnswered, RustAnswered, Batch
<1>11. Follows'  BY <1>2, <1>9, <1>10 DEF Follows
<1>12. answer' # Error  BY <1>1, Answers
<1> QED  BY <1>3, <1>11, <1>12 DEF EngineInv

LEMMA ReplayPrices ==
    ASSUME EngineInv, Acknowledged, NEW price \in Nat, CentsApart({price})
    PROVE  \E P : P \subseteq Nat /\ Distinct(P) /\ price \in P /\ Twins(bids, asks, RustNow, P)
<1>1. PICK Q : Together(Q)  BY AcknowledgedTogether
<1>2. PICK P : P = (PricesOf(bids) \cup PricesOf(asks) \cup {price}) \cap Nat  OBVIOUS
<1>3. Q \subseteq Nat /\ Twins(bids, asks, RustNow, Q)  BY <1>1 DEF Together
<1>4. PricesOf(bids) \subseteq Q /\ PricesOf(asks) \subseteq Q  BY <1>3 DEF Twins, SideAlike
<1>5. PricesOf(bids) \cup PricesOf(asks) \subseteq P  BY <1>2, <1>3, <1>4
<1> HIDE DEF RustNow
<1>6. Twins(bids, asks, RustNow, P)  BY <1>3, <1>5, TwinsNarrow
<1>7. P \subseteq Nat /\ P \subseteq PricesOf(bids) \cup PricesOf(asks) \cup {price} /\ price \in P
  BY <1>2
<1>8. Distinct(P)  BY <1>3, <1>7, CentsApartDistinct
<1> QED  BY <1>6, <1>7, <1>8

LEMMA CancelBothKeeps ==
    ASSUME EngineInv, NEW id \in OrderIds, NEW side \in Sides, NEW price \in Prices,
           Cancel(id, side, price)
    PROVE  EngineInv'
<1>1. /\ Acknowledged /\ CentsApart({price})
      /\ CancelOrder(id, side, price) \/ NotFound(id, side, price)
      /\ Rust!CancelOrder(id, side, Rust!Cents(price))
      /\ UNCHANGED <<line, at, rust_at, answer, rust_answer, log, rust_log>>
  BY DEF Cancel
<1>2. price \in Nat  BY PricesAssumption
<1>3. PICK P : P \subseteq Nat /\ Distinct(P) /\ price \in P /\ Twins(bids, asks, RustNow, P)
  BY <1>1, <1>2, ReplayPrices
<1>4. Twins(bids', asks', RustNow', P) /\ (reply'.error = "none") = rust_reply'.found
  BY <1>1, <1>3, CancelTwins
<1>5. [Next]_vars  BY <1>1 DEF Next
<1> QED  BY <1>1, <1>3, <1>4, <1>5, ReplayKeeps

LEMMA ModifyBothKeeps ==
    ASSUME 0 \notin NewQuantities, EngineInv,
           NEW id \in OrderIds, NEW side \in Sides, NEW price \in Prices,
           NEW quantity \in NewQuantities, Modify(id, side, price, quantity)
    PROVE  EngineInv'
<1>1. /\ Acknowledged /\ CentsApart({price})
      /\ ModifyOrder(id, side, price, quantity) \/ NotFound(id, side, price)
      /\ Rust!ModifyOrder(id, side, Rust!Cents(price), quantity)
      /\ UNCHANGED <<line, at, rust_at, answer, rust_answer, log, rust_log>>
  BY DEF Modify
<1>2. price \in Nat  BY PricesAssumption
<1>3. PICK P : P \subseteq Nat /\ Distinct(P) /\ price \in P /\ Twins(bids, asks, RustNow, P)
  BY <1>1, <1>2, ReplayPrices
<1>4. quantity \in Remaining /\ quantity > 0  BY QuantitiesAssumption DEF Remaining
<1>5. Twins(bids', asks', RustNow', P) /\ (reply'.error = "none") = rust_reply'.found
  BY <1>1, <1>3, <1>4, ModifyTwins
<1>6. [Next]_vars  BY <1>1 DEF Next
<1> QED  BY <1>1, <1>3, <1>5, <1>6, ReplayKeeps

LEMMA CppStepKeeps ==
    ASSUME EngineInv, CppStep
    PROVE  EngineInv'
BY IgnoreKeeps, RefuseKeeps, UnreadableKeeps, SubmitKeeps, AnswerBatchKeeps, AnswerSnapshotKeeps
   DEF CppStep, Step

LEMMA RustStepKeeps ==
    ASSUME EngineInv, RustStep
    PROVE  EngineInv'
BY RustSkipKeeps, RustRefuseKeeps, RustSubmitKeeps, RustAnswerBatchKeeps, RustSnapshotKeeps
   DEF RustStep, Rust!Step

\* Nothing happens.
LEMMA NothingKeeps ==
    ASSUME EngineInv, UNCHANGED parity
    PROVE  EngineInv'
<1>1. UNCHANGED <<bids, asks, reply, book, at, answer, log, line, rust_at, rust_answer>>
  BY DEF parity, cpp, rust, book
<1>2. BookInv' /\ LineKnown' /\ (Proper(line') <=> Proper(line))
  BY <1>1, BookStays, LineStays DEF EngineInv
<1>3. CASE answer = Error
  <2>1. answer' = Error /\ reply' = reply  BY <1>1, <1>3, Answers
  <2> QED  BY <1>2, <1>3, <2>1 DEF EngineInv
<1>4. CASE answer # Error
  <2>1. Follows /\ answer' # Error  BY <1>1, <1>4, Answers DEF EngineInv
  <2>2. RustNow' = RustNow  BY DEF RustNow, parity, rust
  <2>3. PICK P, run : Leads(P, run)  BY <2>1 DEF Follows
  <2>4. Leads(P, run)'  BY <1>1, <2>2, <2>3 DEF Leads
  <2>5. CppAnswered' /\ RustAnswered'  BY <1>1, <2>1 DEF Follows, CppAnswered, RustAnswered, Batch
  <2>6. Follows'  BY <1>1, <2>1, <2>4, <2>5 DEF Follows
  <2> QED  BY <1>2, <2>1, <2>6 DEF EngineInv
<1> QED  BY <1>3, <1>4

LEMMA EngineAlways ==
    ASSUME 0 \notin NewQuantities
    PROVE  ParitySpec => []EngineInv
<1>1. ParityInit => EngineInv  BY EngineInitial
<1>2. ASSUME EngineInv, [ParityNext]_parity PROVE EngineInv'
  <2>1. CASE UNCHANGED parity  BY <1>2, <2>1, NothingKeeps
  <2>2. ASSUME NEW n \in 0..MaxBatch, NEW orders \in [1..n -> Orders], Send(BatchLine(orders))
        PROVE  EngineInv'
    <3>1. n \in Nat  OBVIOUS
    <3>2. Sendable(BatchLine(orders))  BY <3>1, BatchSendable
    <3> QED  BY <1>2, <2>2, <3>2, SendKeeps
  <2>3. ASSUME NEW l \in OddLines, Send(l) PROVE EngineInv'
    BY <1>2, <2>3, OddSendable, SendKeeps
  <2>4. CASE CppStep  BY <1>2, <2>4, CppStepKeeps
  <2>5. CASE RustStep  BY <1>2, <2>5, RustStepKeeps
  <2>6. ASSUME NEW id \in OrderIds, NEW side \in Sides, NEW price \in Prices,
               \/ Cancel(id, side, price)
               \/ \E q \in NewQuantities : Modify(id, side, price, q)
        PROVE  EngineInv'
    BY <1>2, <2>6, CancelBothKeeps, ModifyBothKeeps
  <2> QED  BY <1>2, <2>1, <2>2, <2>3, <2>4, <2>5, <2>6 DEF ParityNext
<1> QED  BY <1>1, <1>2, PTL DEF ParitySpec
-----------------------------------------------------------------------------
(* The theorems *)

LEMMA EngineShowsSame ==
    ASSUME EngineInv
    PROVE  /\ SameSnapshots /\ SameTrades
           /\ Acknowledged /\ (\A p \in Prices : ~ Rust!HalfCent(p)) => SnapshotsIdentical
<1> SUFFICES ASSUME Acknowledged
             PROVE  /\ SnapshotsAgree
                    /\ (\A p \in Prices : ~ Rust!HalfCent(p)) => SnapshotsIdentical
                    /\ Len(log) = Len(rust_log)
                    /\ \A i \in DOMAIN log : [log[i] EXCEPT !.price = Rust!Cents(@)] = rust_log[i]
  BY DEF SameSnapshots, SameTrades
<1>1. PICK P : Together(P)  BY AcknowledgedTogether
<1>2. SnapshotsAgree /\ ((\A p \in Prices : ~ Rust!HalfCent(p)) => SnapshotsIdentical)
  <2>1. P \subseteq Nat /\ Distinct(P) /\ Twins(bids, asks, RustNow, P)  BY <1>1 DEF Together
  <2> QED  BY <2>1, SnapshotsShow
<1>3. rust_log = Cented(log)  BY <1>1 DEF Together
<1>4. answer # Error  BY AcknowledgedTogether
<1>5. log \in Seq(TradeReport)  BY <1>4 DEF EngineInv, Follows
<1>6. Len(rust_log) = Len(log)  BY <1>3, <1>5, CentedType
<1>7. \A i \in DOMAIN log : InCents(log[i]) = rust_log[i]  BY <1>3, <1>5 DEF Cented
<1> QED  BY <1>2, <1>6, <1>7 DEF InCents

LEMMA EngineAnswersSame ==
    ASSUME EngineInv, reply.error # "trade_batch_overflow"
    PROVE  SameAnswers
<1> SUFFICES ASSUME BothAnswered
             PROVE  /\ Proper(line) <=> Acknowledged
                    /\ Acknowledged => /\ answer.processed = Len(Items(line))
                                       /\ (reply.error = "none") = rust_reply.found
  BY DEF SameAnswers
<1>1. Acknowledged => Proper(line) /\ answer.processed = Len(Items(line))
  BY AcknowledgedTogether
<1>2. Acknowledged => (reply.error = "none") = rust_reply.found
  BY AcknowledgedTogether DEF Together
<1>3. ASSUME Proper(line) PROVE Acknowledged
  <2>1. answer # Pending /\ rust_answer # Pending  BY Answers DEF BothAnswered
  <2>2. answer # Error  BY <1>3 DEF EngineInv
  <2>3. Follows /\ LineKnown /\ at = Len(Items(line)) + 1 /\ Len(Items(line)) \in Nat
    BY <2>1, <2>2, CppDone DEF LineKnown
  <2>4. /\ line.end = "whole"
        /\ CppAnswered /\ RustAnswered /\ rust_at \in 1..at
    BY <1>3, <2>3 DEF Proper, Follows
  <2>5. answer = rust_answer
    <3>1. CASE answer = Silent /\ line.action = "empty" /\ at = 1
      BY <2>1, <2>4, <3>1, Answers DEF RustAnswered
    <3>2. CASE answer = SnapshotSent /\ line.action = "snapshot" /\ at = 1
      BY <2>1, <2>4, <3>2, Answers DEF RustAnswered
    <3>3. CASE answer = BatchResult(at - 1) /\ Batch
      BY <2>1, <2>3, <2>4, <3>3, Answers DEF RustAnswered, Batch
    <3> QED  BY <2>1, <2>4, <3>1, <3>2, <3>3 DEF CppAnswered
  <2> QED  BY <2>2, <2>5 DEF Acknowledged
<1> QED  BY <1>1, <1>2, <1>3

\* Two engines that acknowledged every line alike show the same levels, with the same totals
\* and orders, for all batches, cancels and modifies but those to a quantity of zero.  Their
\* prices differ in one way: of a level at half a cent the C++ engine may print the cent below
\* the one the Rust engine has (main.cpp:24-28, main.rs:42; server.js:401 compares the two).
THEOREM SnapshotsStaySame ==
    ASSUME 0 \notin NewQuantities
    PROVE  ParitySpec => []SameSnapshots
BY EngineAlways, EngineShowsSame, PTL

\* Without prices at half a cent the snapshots are identical, as the golden test of
\* .github/copilot-instructions.md:28 asks; the gateway sends whole cents (server.js:336).
THEOREM SnapshotsStayIdentical ==
    ASSUME 0 \notin NewQuantities, \A p \in Prices : ~ Rust!HalfCent(p)
    PROVE  ParitySpec => [](Acknowledged => SnapshotsIdentical)
<1>1. ASSUME EngineInv PROVE Acknowledged => SnapshotsIdentical  BY <1>1, EngineShowsSame
<1> QED  BY <1>1, EngineAlways, PTL

\* ... and their trades are the same, in the same order (order_book.cpp:21-125,
\* order_book.rs:46-132).
THEOREM TradesStaySame ==
    ASSUME 0 \notin NewQuantities
    PROVE  ParitySpec => []SameTrades
BY EngineAlways, EngineShowsSame, PTL

\* A line both can read and the C++ book accepts is acknowledged by both, with the same
\* count; the capacity of a TradeBatch (order_book.cpp:53-55), which the Rust engine does
\* not have, is the one other thing that parts them (main.cpp:160-180, main.rs:23-75).
THEOREM AnswersStaySame ==
    ASSUME 0 \notin NewQuantities
    PROVE  ParitySpec => [](reply.error # "trade_batch_overflow" => SameAnswers)
BY EngineAlways, EngineAnswersSame, PTL
-----------------------------------------------------------------------------
(* The watermarks *)

\* The marks stand at two of the measured times, around all others.
Bound(some, lo, hi) == lo \in some /\ hi \in some /\ \A t \in some : lo <= t /\ t <= hi

MarksInv ==
    /\ measured \subseteq Latencies
    /\ measured = {} => marks = Absent
    /\ measured # {} => \E lo, hi : Bound(measured, lo, hi) /\ marks = [min |-> lo, max |-> hi]

LEMMA RecordKeeps ==
    ASSUME MarksInv, NEW ns \in Latencies, Record(ns), measured' = measured \cup {ns}
    PROVE  MarksInv'
<1>1. ns \in Nat /\ measured \subseteq Nat /\ measured' \subseteq Latencies /\ measured' # {}
  BY LatenciesAssumption DEF MarksInv
<1>2. CASE measured = {}
  <2>1. marks' = [min |-> ns, max |-> ns]  BY <1>2 DEF MarksInv, Record
  <2>2. Bound(measured', ns, ns)  BY <1>1, <1>2 DEF Bound
  <2> QED  BY <1>1, <2>1, <2>2 DEF MarksInv
<1>3. CASE measured # {}
  <2>1. PICK lo, hi : Bound(measured, lo, hi) /\ marks = [min |-> lo, max |-> hi]
    BY <1>3 DEF MarksInv
  <2>2. lo \in Latencies /\ hi \in Latencies /\ lo \in Nat /\ hi \in Nat
    BY <1>1, <2>1 DEF Bound, MarksInv
  <2>3. marks # Absent  BY <2>1, <2>2, AbsentAssumption
  <2> DEFINE l == IF lo <= ns THEN lo ELSE ns
             h == IF hi >= ns THEN hi ELSE ns
  <2>4. Min({lo, ns}) = l /\ Max({hi, ns}) = h  BY <1>1, <2>2, GreatestOfTwo
  <2>5. marks' = [min |-> l, max |-> h]  BY <2>1, <2>3, <2>4 DEF Record
  <2>6. Bound(measured', l, h)  BY <1>1, <2>1, <2>2 DEF Bound
  <2> HIDE DEF l, h
  <2> QED  BY <1>1, <2>5, <2>6 DEF MarksInv
<1> QED  BY <1>2, <1>3

LEMMA MarksAlways == ParitySpec => []MarksInv
<1>1. ParityInit => MarksInv  BY DEF ParityInit, EngineInit, MarksInv
<1>2. ASSUME MarksInv, UNCHANGED times PROVE MarksInv'  BY <1>2 DEF times, MarksInv
<1>3. ASSUME MarksInv, [ParityNext]_parity PROVE MarksInv'
  <2>1. CASE UNCHANGED parity  BY <1>2, <1>3, <2>1 DEF parity, cpp
  <2>2. ASSUME NEW l, Send(l) PROVE MarksInv'  BY <1>2, <1>3, <2>2 DEF Send, Begin
  <2>3. CASE CppStep
    <3>1. CASE AnswerBatch
      <4>1. CASE line.end = "cut"  BY <1>2, <1>3, <3>1, <4>1 DEF AnswerBatch
      <4>2. CASE line.end # "cut"
        <5>1. PICK ns \in Latencies : Record(ns) /\ measured' = measured \cup {ns}
          BY <3>1, <4>2 DEF AnswerBatch
        <5> QED  BY <1>3, <5>1, RecordKeeps
      <4> QED  BY <4>1, <4>2
    <3>2. CASE Ignore \/ Refuse \/ Unreadable \/ Submit \/ AnswerSnapshot
      BY <1>2, <1>3, <3>2 DEF Ignore, Refuse, Unreadable, Submit, AnswerSnapshot
    <3> QED  BY <2>3, <3>1, <3>2 DEF CppStep, Step
  <2>4. CASE RustStep  BY <1>2, <1>3, <2>4 DEF RustStep, cpp
  <2>5. ASSUME NEW id, NEW side, NEW price,
               Cancel(id, side, price) \/ \E q \in NewQuantities : Modify(id, side, price, q)
        PROVE  MarksInv'
    <3>1. UNCHANGED <<marks, measured>>  BY <2>5 DEF Cancel, Modify
    <3> QED  BY <1>2, <1>3, <3>1 DEF times
  <2> QED  BY <1>3, <2>1, <2>2, <2>3, <2>4, <2>5 DEF ParityNext
<1> QED  BY <1>1, <1>3, PTL DEF ParitySpec

\* The watermarks are the extremes of the times of the batches answered with a result:
\* neither a batch that failed nor the first value of a mark leaves a trace (main.cpp:170-177,
\* low_latency.h:266-297).
THEOREM WatermarksStayExact == ParitySpec => []WatermarksExact
<1>1. ASSUME MarksInv PROVE WatermarksExact
  <2>1. CASE measured = {}  BY <1>1, <2>1 DEF MarksInv, WatermarksExact
  <2>2. CASE measured # {}
    <3>1. PICK lo, hi : Bound(measured, lo, hi) /\ marks = [min |-> lo, max |-> hi]
      BY <1>1, <2>2 DEF MarksInv
    <3>2. measured \subseteq Nat  BY <1>1, LatenciesAssumption DEF MarksInv
    <3>3. Min(measured) = lo
      <4>1. lo \in measured /\ \A y \in measured : lo <= y  BY <3>1 DEF Bound
      <4>2. \A x \in measured : (\A y \in measured : x <= y) => x = lo  BY <3>2, <4>1
      <4> QED  BY <4>1, <4>2 DEF Min
    <3>4. Max(measured) = hi
      <4>1. hi \in measured /\ \A y \in measured : hi >= y  BY <3>1, <3>2 DEF Bound
      <4>2. \A x \in measured : (\A y \in measured : x >= y) => x = hi  BY <3>2, <4>1
      <4> QED  BY <4>1, <4>2 DEF Max
    <3> QED  BY <2>2, <3>1, <3>3, <3>4 DEF WatermarksExact
  <2> QED  BY <2>1, <2>2
<1> QED  BY <1>1, MarksAlways, PTL
=============================================================================
