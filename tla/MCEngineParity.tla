---------------------------- MODULE MCEngineParity ----------------------------
(* Definitions that only the TLC configurations of EngineParity need. *)
EXTENDS EngineParity

\* Clients that use the quantity of an order as its id, so that ids repeat.
Order(side, price, quantity) ==
    [order_id |-> IF quantity = 0 THEN 1 ELSE quantity, side |-> side, price |-> price,
     quantity |-> quantity]

\* With four units to a cent, 1 is no cent, 4 and 5 are one, and 6 and 10 lie at half a
\* cent.  Quantities above 1 go to the orders that sweep the other side, which are the only
\* ones at its end.
MCOrders ==
    {Order(s, p, q) : s \in Sides, p \in Prices \cap {4}, q \in Quantities \cap {0, 1}}
    \cup {Order("buy", p, q) : p \in Prices \cap {1}, q \in Quantities \cap {0, 1}}
    \cup {Order("sell", p, q) : p \in Prices \cap {5, 6, 10}, q \in Quantities \cap {0, 1}}
    \cup {Order(s, IF s = "buy" THEN 10 ELSE 1, q) : s \in Sides, q \in Quantities \ {0, 1}}

\* Lines that end after an order, after the array, and within an action; actions neither
\* engine knows, or reads; and orders that lack a field, have an odd one, or are invalid.
MCOddLines ==
    LET good == Order("buy", 4, 1)
        Line(action, orders, end) == [action |-> action, orders |-> orders, end |-> end]
        odd == {[good EXCEPT !.order_id = Absent], [good EXCEPT !.side = Absent],
                [good EXCEPT !.side = "short"], [good EXCEPT !.price = Absent],
                [good EXCEPT !.price = 0], [good EXCEPT !.quantity = Absent]}
    IN  {Line("batch", <<good, o>>, "whole") : o \in odd}
        \cup {Line("batch", <<good>>, end) : end \in {"array", "cut"}}
        \cup {Line("batch", Absent, end) : end \in {"whole", "cut"}}
        \cup {Line("snapshot", Absent, end) : end \in {"whole", "cut"}}
        \cup {Line(a, Absent, "whole") : a \in {"unknown", "missing", "blank", "empty"}}
=============================================================================
