---------------------------- MODULE MCOrderBook ----------------------------
(* Definitions that only the TLC configuration of OrderBook needs. *)
EXTENDS OrderBook

\* Clients that use the quantity of an order as its id: ids repeat, and an id may stand
\* anywhere in a level.  Large buys are not at the lowest price, nor large sells at the
\* highest.  One order is invalid.
Order(side, price, quantity) ==
    [order_id |-> quantity, side |-> side, price |-> price, quantity |-> quantity]

MCOrders ==
    {Order(s, p, 1) : s \in Sides, p \in Prices}
    \cup {Order("buy", p, q) : p \in Prices \cap {2, 3}, q \in Quantities \ {0, 1}}
    \cup {Order("sell", p, q) : p \in Prices \cap {1, 2}, q \in Quantities \ {0, 1}}
    \cup {[Order("buy", 1, 0) EXCEPT !.order_id = 1]}
=============================================================================
