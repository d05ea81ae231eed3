------------------------------ MODULE OrderBook ------------------------------
(***************************************************************************)
(* cpp/src/order_book.{h,cpp}: the C++ matching engine.  One thread owns    *)
(* the book and every operation runs to its end, so each operation is one   *)
(* step.  A price level is a record of its price, its total quantity        *)
(* (a uint64_t, kept modulo QuantityModulus) and its orders, oldest first;  *)
(* a side of the book is the sequence of its levels, best first, as in      *)
(* FlatPriceLevels.  A node is identified by the timestamp of its order.    *)
(***************************************************************************)
EXTENDS Integers, Sequences, FiniteSets, SequencesExt, FiniteSetsExt

CONSTANTS Orders,             \* the orders clients send; their ids need not differ
          OrderIds,           \* ids clients name in cancels and modifies
          Prices,             \* prices clients send, in ticks; 0 stands for <= 0.0
          Quantities,         \* quantities clients send
          NewQuantities,      \* quantities clients modify orders to
          QuantityModulus,    \* 2^64 in the code
          MaxDepthLevels,     \* levels kept per side (20 in the code)
          MaxTradesPerOrder,  \* capacity of a TradeBatch (512 in the code)
          RetireThreshold,    \* of the hazard pointer domain (64 in the code)
          MaxOrders           \* BOUND for TLC: valid orders added

ASSUME QuantitiesAssumption ==
    /\ QuantityModulus \in Nat \ {0}
    /\ Quantities \cup NewQuantities \subseteq 0..(QuantityModulus - 1)
ASSUME PricesAssumption == Prices \subseteq Nat
ASSUME OrdersAssumption == Orders \subseteq
    [order_id : OrderIds, side : {"buy", "sell"}, price : Prices, quantity : Quantities]
ASSUME LimitsAssumption ==
    /\ MaxDepthLevels \in Nat \ {0} /\ MaxTradesPerOrder \in Nat
    /\ RetireThreshold \in Nat /\ RetireThreshold >= 2 /\ MaxOrders \in Nat

Sides == {"buy", "sell"}
Opposite(side) == IF side = "buy" THEN "sell" ELSE "buy"

VARIABLES bids,   \* bids_
          asks,   \* asks_
          clock,  \* the steady clock, read once per valid order
          smr,    \* nodes in order_smr_: retired and not yet deleted
          reply   \* of the last operation: the order it added, the error or the trades
                  \*   it returned, the nodes it retired

vars == <<bids, asks, clock, smr, reply>>

\* The compare_ of each side: the better price comes first.
Better(side, p, q) == IF side = "buy" THEN p > q ELSE p < q
Levels(side) == IF side = "buy" THEN bids ELSE asks

OrderNode == [order_id : OrderIds, quantity : 0..(QuantityModulus - 1), timestamp : Nat]
PriceLevel == [price : Prices, total_quantity : 0..(QuantityModulus - 1),
               orders : Seq(OrderNode)]

Init ==
    /\ bids = <<>>
    /\ asks = <<>>
    /\ clock = 0
    /\ smr = {}
    /\ reply = [error |-> "none", order |-> "none", trades |-> <<>>, retired |-> {}]
-----------------------------------------------------------------------------
(* match_order *)

\* The fold over the makers of a level carries m: what the taker has left, the level so
\* far, the trades, and whether the fixed-capacity batch was full when it was needed.
Pass(m, maker) == [m EXCEPT !.orders = Append(@, maker)]

Trade(price, m, maker) ==
    LET traded == Min({m.left, maker.quantity})
    IN  [Pass(m, [maker EXCEPT !.quantity = @ - traded]) EXCEPT
            !.left = @ - traded,
            !.total = (@ - traded) % QuantityModulus,
            !.trades = Append(@, [maker |-> maker.order_id,
                                  quantity |-> traded, price |-> price])]

\* Mutations: no check of the batch's capacity; a maker modified to zero is not skipped.
MatchMakerUnbounded(taker, price, m, maker) ==
    IF m.left = 0 \/ maker.quantity = 0 THEN Pass(m, maker) ELSE Trade(price, m, maker)

MatchMakerEvenEmpty(taker, price, m, maker) ==
    IF m.left = 0 THEN Pass(m, maker) ELSE Trade(price, m, maker)

MatchMaker(taker, price, m, maker) ==
    IF m.left = 0 \/ maker.quantity = 0 \/ m.overflow
    THEN Pass(m, maker)
    ELSE IF Len(m.trades) = MaxTradesPerOrder
    THEN [Pass(m, maker) EXCEPT !.overflow = TRUE]
    ELSE Trade(price, m, maker)

\* The makers of a level that are filled, or those that are not, in their order.
Makers(filled, orders) ==
    FoldLeft(LAMBDA some, maker :
                IF (maker.quantity = 0) = filled THEN Append(some, maker) ELSE some,
             <<>>, orders)

\* Mutation: every node behind the survivors is retired, filled or not.
RetiredByCleanupAll(orders) ==
    LET kept == Len(Makers(FALSE, orders))
        tail == SubSeq(orders, kept + 1, Len(orders))
    IN  [i \in DOMAIN tail |-> tail[i].timestamp]

\* std::remove_if moves the survivors to the front and thereby destroys the nodes it
\* overwrites; only the filled nodes that stay behind the survivors are retired.
RetiredByCleanup(orders) ==
    LET kept == Len(Makers(FALSE, orders))
        tail == Makers(TRUE, SubSeq(orders, kept + 1, Len(orders)))
    IN  [i \in DOMAIN tail |-> tail[i].timestamp]

\* One level: match its makers, then remove the filled ones, and the level if it is
\* empty.  A full batch returns at once and leaves the level as it is.
Untouched(taker, m, level) ==
    Better(Opposite(taker.side), taker.price, level.price) \/ m.left = 0 \/ m.overflow

MatchMakers(taker, m, level) ==
    FoldLeft(LAMBDA a, maker : MatchMaker(taker, level.price, a, maker),
             [left |-> m.left, trades |-> m.trades, overflow |-> FALSE,
              total |-> level.total_quantity, orders |-> <<>>],
             level.orders)

CleanUp(m, level, done, orders) ==
    [left |-> done.left, trades |-> done.trades, overflow |-> done.overflow,
     levels |-> Append(m.levels, [price |-> level.price, total_quantity |-> done.total,
                                  orders |-> orders]),
     retired |-> m.retired \o IF done.overflow THEN <<>> ELSE RetiredByCleanup(done.orders)]

\* Mutation: an emptied level stays.
MatchLevelKeepsEmpty(taker, m, level) ==
    LET done == MatchMakers(taker, m, level)
    IN  IF Untouched(taker, m, level) THEN [m EXCEPT !.levels = Append(@, level)]
        ELSE CleanUp(m, level, done, Makers(FALSE, done.orders))

MatchLevel(taker, m, level) ==
    IF Untouched(taker, m, level)
    THEN [m EXCEPT !.levels = Append(@, level)]
    ELSE LET done    == MatchMakers(taker, m, level)
             orders  == IF done.overflow THEN done.orders
                        ELSE Makers(FALSE, done.orders)
             cleaned == CleanUp(m, level, done, orders)
         IN  IF orders = <<>> THEN [cleaned EXCEPT !.levels = m.levels] ELSE cleaned

MatchOrder(taker, levels) ==
    FoldLeft(LAMBDA m, level : MatchLevel(taker, m, level),
             [left |-> taker.quantity, levels |-> <<>>, trades |-> <<>>,
              overflow |-> FALSE, retired |-> <<>>],
             levels)
-----------------------------------------------------------------------------
(* FlatPriceLevels: a side is a sequence sorted by its compare_. *)

\* lower_bound: the first level that is not better than price, or the end.
LowerBound(side, levels, price) ==
    1 + Cardinality({i \in DOMAIN levels : Better(side, levels[i].price, price)})

\* find: the level of exactly this price, if there is one.
Find(side, levels, price) ==
    {i \in DOMAIN levels : i = LowerBound(side, levels, price) /\ levels[i].price = price}

\* upsert and push_back: the order joins its level, or a new one in its place.
With(level, order) ==
    [price |-> level.price,
     total_quantity |-> (level.total_quantity + order.quantity) % QuantityModulus,
     orders |-> Append(level.orders, [order_id |-> order.order_id,
                                      quantity |-> order.quantity,
                                      timestamp |-> order.timestamp])]

Join(levels, order) ==
    LET at  == LowerBound(order.side, levels, order.price)
        new == [price |-> order.price, total_quantity |-> 0, orders |-> <<>>]
    IN  IF Find(order.side, levels, order.price) # {}
        THEN [levels EXCEPT ![at] = With(@, order)]
        ELSE InsertAt(levels, at, With(new, order))

\* Mutations: a new node goes in front; a full side takes no new level.
RestInFront(levels, order) ==
    LET joined == Join(levels, order)
    IN  [i \in DOMAIN joined |->
            IF joined[i].price # order.price THEN joined[i]
            ELSE [joined[i] EXCEPT !.orders = <<Last(@)>> \o Front(@)]]

RestOnlyIfRoom(levels, order) ==
    IF Len(Join(levels, order)) > MaxDepthLevels THEN levels ELSE Join(levels, order)

\* A full side drops an order worse than its last level (upsert returns nullptr), and
\* otherwise its last level (pop_back).
Rest(levels, order) ==
    LET joined == Join(levels, order)
    IN  IF Len(joined) <= MaxDepthLevels THEN joined
        ELSE IF Last(joined).price = order.price THEN levels
        ELSE Front(joined)

SetSide(side, levels) ==
    IF side = "buy" THEN bids' = levels /\ UNCHANGED asks
                    ELSE asks' = levels /\ UNCHANGED bids

SetSides(side, own, opposite) ==
    IF side = "buy" THEN bids' = own /\ asks' = opposite
                    ELSE asks' = own /\ bids' = opposite

Valid(order) == order.price > 0 /\ order.quantity > 0

\* Retiring these nodes, one after the other: whenever RetireThreshold nodes have
\* gathered, a scan deletes them all, since no guard is alive.
RetireAll(nodes) ==
    LET total == Cardinality(smr) + Len(nodes)
        left  == total % RetireThreshold
    IN  IF total < RetireThreshold THEN smr \cup ToSet(nodes)
        ELSE ToSet(SubSeq(nodes, Len(nodes) - left + 1, Len(nodes)))

Reply(error, order, trades, retired) ==
    reply' = [error |-> error, order |-> order, trades |-> trades, retired |-> retired]

RejectOrder(order) ==
    /\ ~ Valid(order)
    /\ Reply("invalid_order", "none", <<>>, {})
    /\ UNCHANGED <<bids, asks, clock, smr>>

AddValidOrder(order) ==
    /\ Valid(order)
    /\ clock < MaxOrders
    /\ LET m == MatchOrder(order, Levels(Opposite(order.side)))
           rest == [side |-> order.side, price |-> order.price, quantity |-> m.left,
                    order_id |-> order.order_id, timestamp |-> clock]
           own == Levels(order.side)
       IN  /\ SetSides(order.side,
                       IF m.overflow \/ m.left = 0 THEN own ELSE Rest(own, rest),
                       m.levels)
           /\ smr' = RetireAll(m.retired)
           /\ IF m.overflow
              THEN Reply("trade_batch_overflow", order, <<>>, ToSet(m.retired))
              ELSE Reply("none", order, m.trades, ToSet(m.retired))
    /\ clock' = clock + 1

TryAddOrder(order) == RejectOrder(order) \/ AddValidOrder(order)
-----------------------------------------------------------------------------
\* The positions of an order in a side: level i, node j; the first in its level.
Found(side, order_id, price) ==
    LET levels == Levels(side)
        hit(i, j) == levels[i].orders[j].order_id = order_id
        first(i) == {j \in DOMAIN levels[i].orders :
                        hit(i, j) /\ \A k \in 1..(j - 1) : ~ hit(i, k)}
    IN  UNION {{i} \X first(i) : i \in Find(side, levels, price)}

NotFound(order_id, side, price) ==
    /\ Found(side, order_id, price) = {}
    /\ Reply("not_found", "none", <<>>, {})
    /\ UNCHANGED <<bids, asks, clock, smr>>

\* The guard of the loop still protects the node while it is retired, so a scan
\* deletes the others and keeps it.
CancelOrder(order_id, side, price) ==
    \E found \in Found(side, order_id, price) :
        LET levels == Levels(side)
            i      == found[1]
            level  == levels[i]
            node   == level.orders[found[2]]
            rest   == [level EXCEPT !.orders = RemoveAt(@, found[2]),
                                    !.total_quantity = (@ - node.quantity) % QuantityModulus]
        IN  /\ SetSide(side, IF rest.orders = <<>> THEN RemoveAt(levels, i)
                             ELSE [levels EXCEPT ![i] = rest])
            /\ smr' = IF Cardinality(smr) + 1 >= RetireThreshold THEN {node.timestamp}
                      ELSE smr \cup {node.timestamp}
            /\ Reply("none", "none", <<>>, {node.timestamp})
            /\ UNCHANGED clock

\* Mutation: the total of the level is not brought up to date.
ModifyOrderAlone(order_id, side, price, new_quantity) ==
    \E found \in Found(side, order_id, price) :
        /\ SetSide(side, [Levels(side) EXCEPT
                            ![found[1]].orders[found[2]].quantity = new_quantity])
        /\ Reply("none", "none", <<>>, {})
        /\ UNCHANGED <<clock, smr>>

\* The order keeps its place, whatever its new quantity.
ModifyOrder(order_id, side, price, new_quantity) ==
    \E found \in Found(side, order_id, price) :
        LET levels == Levels(side)
            i      == found[1]
            j      == found[2]
            level  == levels[i]
            total  == level.total_quantity - level.orders[j].quantity + new_quantity
        IN  /\ SetSide(side, [levels EXCEPT ![i] =
                  [level EXCEPT !.orders[j].quantity = new_quantity,
                                !.total_quantity = total % QuantityModulus]])
            /\ Reply("none", "none", <<>>, {})
            /\ UNCHANGED <<clock, smr>>
-----------------------------------------------------------------------------
\* get_best_bid, get_best_ask: the first level, or nothing.
Best(side) == {Levels(side)[i].price : i \in {1} \cap DOMAIN Levels(side)}

\* snapshot_bids, snapshot_asks: as many levels as a DepthSnapshot holds.
SnapshotSide(side) ==
    LET levels == Levels(side)
    IN  [i \in 1..Min({Len(levels), MaxDepthLevels}) |->
            [price |-> levels[i].price, quantity |-> levels[i].total_quantity,
             order_count |-> Len(levels[i].orders)]]
-----------------------------------------------------------------------------
Next ==
    \/ \E order \in Orders : TryAddOrder(order)
    \/ \E id \in OrderIds, side \in Sides, price \in Prices :
          \/ CancelOrder(id, side, price)
          \/ NotFound(id, side, price)
          \/ \E q \in NewQuantities : ModifyOrder(id, side, price, q)

Spec == Init /\ [][Next]_vars
-----------------------------------------------------------------------------
\* The arrivals of the orders at a level, and of all orders that rest.
Stamps(level) == {level.orders[j].timestamp : j \in DOMAIN level.orders}
Resting == (UNION {Stamps(bids[i]) : i \in DOMAIN bids})
           \cup (UNION {Stamps(asks[i]) : i \in DOMAIN asks})

Quantity(orders) == FoldLeft(LAMBDA sum, n : sum + n.quantity, 0, orders)

TypeOK ==
    /\ bids \in Seq(PriceLevel) /\ asks \in Seq(PriceLevel)
    /\ clock \in 0..MaxOrders
    /\ smr \cup Resting \subseteq 0..(clock - 1)
    /\ reply.trades \in Seq([maker : OrderIds, quantity : Nat, price : Prices])
    /\ Len(reply.trades) <= MaxTradesPerOrder

\* Best price first, one level per price.
Sorted(side, levels) ==
    \A i, j \in DOMAIN levels : i < j => Better(side, levels[i].price, levels[j].price)

\* Each side is sorted, no level is empty and there are at most MaxDepthLevels of them;
\* every bid stays below every ask (order_book.h:115-148, order_book.cpp:31-75: what a
\* snapshot and the gateway rely on).
WellFormed ==
    /\ \A side \in Sides :
          /\ Len(Levels(side)) <= MaxDepthLevels
          /\ \A i \in DOMAIN Levels(side) : Levels(side)[i].orders # <<>>
          /\ Sorted(side, Levels(side))
    /\ \A i \in DOMAIN bids, j \in DOMAIN asks : bids[i].price < asks[j].price

\* The total a level carries along is the sum of its orders, in uint64_t arithmetic,
\* whatever sequence of fills, cancels and modifies led to it (order_book.cpp:59,
\* :140, :174, :205-207).
Exact(level) == level.total_quantity = Quantity(level.orders) % QuantityModulus

TotalsExact == \A side \in Sides : \A i \in DOMAIN Levels(side) : Exact(Levels(side)[i])

\* Orders of one price stand in the order of their arrival, also after partial fills,
\* cancels and modifies (.github/copilot-instructions.md:12: "Preserve FIFO at each
\* price level").
InArrivalOrder(orders) ==
    \A j, k \in DOMAIN orders : j < k => orders[j].timestamp < orders[k].timestamp

TimePriority ==
    \A side \in Sides : \A i \in DOMAIN Levels(side) : InArrivalOrder(Levels(side)[i].orders)

\* A node handed to the hazard pointer domain is no longer reachable from the book, no
\* node is at two levels or on both sides (nor, by TimePriority, twice at one level), and
\* less than a threshold of nodes waits to be deleted, since no guard outlives an
\* operation (order_book.cpp:62-68, :175-177, low_latency.h:397-400).
RetiredUnreachable ==
    /\ smr \cap Resting = {}
    /\ \A s, t \in Sides : \A i \in DOMAIN Levels(s), k \in DOMAIN Levels(t) :
          Stamps(Levels(s)[i]) \cap Stamps(Levels(t)[k]) # {} => s = t /\ i = k
    /\ IsFiniteSet(smr) /\ Cardinality(smr) < RetireThreshold

\* The makers that cross an order.
Crossing(order, price) == ~ Better(Opposite(order.side), order.price, price)

Offer(levels, i, j) == [price |-> levels[i].price, node |-> levels[i].orders[j]]

Offers(order, levels) ==
    UNION {{Offer(levels, i, j) : j \in DOMAIN levels[i].orders} :
              i \in {k \in DOMAIN levels : Crossing(order, levels[k].price)}}

\* Price-time priority: the better price first, and the older of one price.
Ahead(side, a, b) ==
    \/ Better(side, a.price, b.price)
    \/ a.price = b.price /\ a.node.timestamp < b.node.timestamp

\* Each maker gives what the makers ahead of it leave of the order.
Supply(offers, some) ==
    SumFunction([a \in offers |-> IF a \in some THEN a.node.quantity ELSE 0])

Share(order, offers, b) ==
    LET before == {a \in offers : Ahead(Opposite(order.side), a, b)}
    IN  Max({0, Min({b.node.quantity, order.quantity - Supply(offers, before)})})

Givers(order, offers) == {b \in offers : Share(order, offers, b) > 0}

\* How many makers give before b does.
Rank(order, offers, b) ==
    Cardinality({a \in Givers(order, offers) : Ahead(Opposite(order.side), a, b)})

TradeWith(order, offers, b) ==
    [maker |-> b.node.order_id, quantity |-> Share(order, offers, b), price |-> b.price]

\* The trades an order must cause, from the definition of price-time priority alone, and
\* not from the places of the makers in the book.
PriorityTrades(order, levels) ==
    LET offers == Offers(order, levels)
        giver(k) == CHOOSE b \in Givers(order, offers) : Rank(order, offers, b) = k - 1
    IN  [k \in 1..Cardinality(Givers(order, offers)) |-> TradeWith(order, offers, giver(k))]

\* An accepted order trades exactly as price-time priority says, with no trade of
\* quantity zero even when orders modified to zero rest in the book (order_book.cpp:21-125).
FillsFollowPriority ==
    [][clock' # clock /\ reply'.error = "none" =>
          LET order == reply'.order
          IN  reply'.trades = PriorityTrades(order, Levels(Opposite(order.side)))]_vars

\* What rests at price p of a side.
RestingAt(levels, p) ==
    FoldLeft(LAMBDA sum, l : sum + (IF l.price = p THEN Quantity(l.orders) ELSE 0), 0, levels)

\* What the trades at price p took.
TradedAt(trades, p) ==
    Quantity([k \in DOMAIN trades |->
                 [quantity |-> IF trades[k].price = p THEN trades[k].quantity ELSE 0]])

\* No quantity appears or vanishes at any price: what an accepted order trades is what the
\* makers of that price no longer have; what it does not trade rests at its price; and only
\* what lies beyond the best MaxDepthLevels prices is cut off (order_book.cpp:50-59,
\* :137-143, order_book.h:133-146).
QuantityBalances ==
    [][clock' # clock /\ reply'.error = "none" =>
          LET order    == reply'.order
              own      == Levels(order.side)
              opposite == Levels(Opposite(order.side))
              left     == order.quantity - Quantity(reply'.trades)
              prices   == {own[i].price : i \in DOMAIN own} \cup
                          (IF left > 0 THEN {order.price} ELSE {})
              kept     == {p \in prices : Cardinality(
                              {q \in prices : Better(order.side, q, p)}) < MaxDepthLevels}
          IN  \A p \in Prices :
                 /\ RestingAt(IF order.side = "buy" THEN asks' ELSE bids', p) =
                       RestingAt(opposite, p) - TradedAt(reply'.trades, p)
                 /\ RestingAt(IF order.side = "buy" THEN bids' ELSE asks', p) =
                       IF p \notin kept THEN 0
                       ELSE RestingAt(own, p) + (IF p = order.price THEN left ELSE 0)]_vars
=============================================================================
