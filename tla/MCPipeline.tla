------------------------------ MODULE MCPipeline ------------------------------
(* Definitions that only the TLC configuration of Pipeline needs. *)
EXTENDS Pipeline

\* A seller of two and a buyer of one, who meet at the one price.
MCOrders ==
    {[order_id |-> 1, side |-> "sell", price |-> 1, quantity |-> 2],
     [order_id |-> 2, side |-> "buy", price |-> 1, quantity |-> 1]}

\* Order().
MCNoOrder == [order_id |-> 0, side |-> "buy", price |-> 0, quantity |-> 0]
=============================================================================
