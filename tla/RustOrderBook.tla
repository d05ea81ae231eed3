----------------------------- MODULE RustOrderBook -----------------------------
(***************************************************************************)
(* rust/src/order_book.rs: the Rust matching engine, which the gateway runs *)
(* beside the C++ one.  One thread owns the book, so each operation is one  *)
(* step.  A side of the book is a BTreeMap, here a function from the prices *)
(* in use to their levels.  A quantity is a u64, kept modulo                *)
(* QuantityModulus as in a release build.                                   *)
(***************************************************************************)
EXTENDS Integers, Sequences, FiniteSets, SequencesExt, FiniteSetsExt

CONSTANTS QuantityModulus,  \* 2^64 in the code
          MaxDepthLevels    \* MAX_DEPTH_LEVELS

VARIABLES bids, asks,  \* price -> [total_quantity, orders]
          reply        \* of the last operation: what it found, and its trades

vars == <<bids, asks, reply>>

Better(side, p, q) == IF side = "buy" THEN p > q ELSE p < q
Opposite(side) == IF side = "buy" THEN "sell" ELSE "buy"
Levels(side) == IF side = "buy" THEN bids ELSE asks

\* The prices of a map, best first: iter_mut for asks, iter_mut().rev() for bids.
InPriority(side, prices) ==
    CHOOSE s \in [1..Cardinality(prices) -> prices] :
        \A i, j \in DOMAIN s : i < j => Better(side, s[i], s[j])

Keep(levels, prices) == [p \in prices |-> levels[p]]

Init ==
    /\ bids = [p \in {} |-> 0]
    /\ asks = [p \in {} |-> 0]
    /\ reply = [found |-> TRUE, trades |-> <<>>]

Reply(found, trades) == reply' = [found |-> found, trades |-> trades]
-----------------------------------------------------------------------------
(* match_order *)

\* pop_front, trade, and push_front of what is left.  A maker of quantity zero takes part:
\* its trade has quantity zero.
MatchMaker(price, m, maker) ==
    LET traded == Min({m.left, maker.quantity})
        after  == [maker EXCEPT !.quantity = @ - traded]
    IN  IF m.left = 0
        THEN [m EXCEPT !.orders = Append(@, maker)]
        ELSE [m EXCEPT !.left = @ - traded,
                       !.total = (@ - traded) % QuantityModulus,
                       !.orders = IF after.quantity > 0 THEN Append(@, after) ELSE @,
                       !.trades = Append(@, [maker |-> maker.order_id,
                                             quantity |-> traded, price |-> price])]

MatchLevel(m, price) ==
    LET level == m.levels[price]
        done  == FoldLeft(LAMBDA a, maker : MatchMaker(price, a, maker),
                          [left |-> m.left, trades |-> m.trades,
                           total |-> level.total_quantity, orders |-> <<>>],
                          level.orders)
    IN  IF m.left = 0 THEN m
        ELSE [left |-> done.left, trades |-> done.trades,
              levels |-> [m.levels EXCEPT ![price] = [total_quantity |-> done.total,
                                                      orders |-> done.orders]]]

\* Mutation: the bids are walked from the lowest price up.
MatchOrderUpwards(taker, levels) ==
    LET crossing == {p \in DOMAIN levels : ~ Better(Opposite(taker.side), taker.price, p)}
        m == FoldLeft(MatchLevel,
                      [left |-> taker.quantity, trades |-> <<>>, levels |-> levels],
                      InPriority("sell", crossing))
    IN  [m EXCEPT !.levels = Keep(@, {p \in DOMAIN @ : @[p].orders # <<>>})]

\* Emptied levels (prices_to_remove) go after the loop.
MatchOrder(taker, levels) ==
    LET crossing == {p \in DOMAIN levels : ~ Better(Opposite(taker.side), taker.price, p)}
        m == FoldLeft(MatchLevel,
                      [left |-> taker.quantity, trades |-> <<>>, levels |-> levels],
                      InPriority(Opposite(taker.side), crossing))
    IN  [m EXCEPT !.levels = Keep(@, {p \in DOMAIN @ : @[p].orders # <<>>})]
-----------------------------------------------------------------------------
\* Mutation: the prune of the bids removes their best price.
PruneDepthOfBest(side, levels) ==
    LET prices == InPriority("sell", DOMAIN levels)
        kept   == SubSeq(prices, 1, Min({Len(prices), MaxDepthLevels}))
    IN  Keep(levels, ToSet(kept))

\* prune_depth: the worst levels go until MaxDepthLevels are left.
PruneDepth(side, levels) ==
    LET prices == InPriority(side, DOMAIN levels)
        kept   == SubSeq(prices, 1, Min({Len(prices), MaxDepthLevels}))
    IN  Keep(levels, ToSet(kept))

\* entry(price).or_insert_with(PriceLevel::new), and push_back.
Rest(levels, order, left) ==
    LET level == IF order.price \in DOMAIN levels THEN levels[order.price]
                 ELSE [total_quantity |-> 0, orders |-> <<>>]
        joined == [total_quantity |-> (level.total_quantity + left) % QuantityModulus,
                   orders |-> Append(level.orders, [order_id |-> order.order_id,
                                                    quantity |-> left])]
    IN  PruneDepth(order.side, [p \in DOMAIN levels \cup {order.price} |->
                                   IF p = order.price THEN joined ELSE levels[p]])

\* add_order checks nothing: an order of quantity zero neither trades nor rests.
AddOrder(order) ==
    LET m   == MatchOrder(order, Levels(Opposite(order.side)))
        own == IF m.left > 0 THEN Rest(Levels(order.side), order, m.left)
               ELSE Levels(order.side)
    IN  /\ IF order.side = "buy" THEN bids' = own /\ asks' = m.levels
                                 ELSE asks' = own /\ bids' = m.levels
        /\ Reply(TRUE, m.trades)

SetLevel(side, levels) ==
    IF side = "buy" THEN bids' = levels /\ UNCHANGED asks
                    ELSE asks' = levels /\ UNCHANGED bids

\* The position of the first order of a level with this id.
Found(levels, order_id, price) ==
    {j \in (IF price \in DOMAIN levels THEN DOMAIN levels[price].orders ELSE {}) :
        /\ levels[price].orders[j].order_id = order_id
        /\ \A k \in 1..(j - 1) : levels[price].orders[k].order_id # order_id}

NotFound(order_id, side, price) ==
    /\ Found(Levels(side), order_id, price) = {}
    /\ Reply(FALSE, <<>>)
    /\ UNCHANGED <<bids, asks>>

CancelOrder(order_id, side, price) ==
    \/ NotFound(order_id, side, price)
    \/ \E j \in Found(Levels(side), order_id, price) :
          LET levels == Levels(side)
              level  == levels[price]
              rest   == [total_quantity |->
                            (level.total_quantity - level.orders[j].quantity) % QuantityModulus,
                         orders |-> RemoveAt(level.orders, j)]
          IN  /\ SetLevel(side, IF rest.orders = <<>> THEN Keep(levels, DOMAIN levels \ {price})
                                ELSE [levels EXCEPT ![price] = rest])
              /\ Reply(TRUE, <<>>)

ModifyOrder(order_id, side, price, new_quantity) ==
    \/ NotFound(order_id, side, price)
    \/ \E j \in Found(Levels(side), order_id, price) :
          LET level == Levels(side)[price]
              total == level.total_quantity - level.orders[j].quantity + new_quantity
          IN  /\ SetLevel(side, [Levels(side) EXCEPT ![price] =
                    [level EXCEPT !.orders[j].quantity = new_quantity,
                                  !.total_quantity = total % QuantityModulus]])
              /\ Reply(TRUE, <<>>)

\* get_snapshot, one side.
Snapshot(side) ==
    LET levels == Levels(side)
        prices == InPriority(side, DOMAIN levels)
    IN  [i \in 1..Min({Len(prices), MaxDepthLevels}) |->
            [price |-> prices[i], quantity |-> levels[prices[i]].total_quantity,
             order_count |-> Len(levels[prices[i]].orders)]]
=============================================================================
