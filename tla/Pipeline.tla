------------------------------- MODULE Pipeline -------------------------------
(***************************************************************************)
(* The ring and the book together, as cpp/benches/                          *)
(* concurrent_order_book_benches.cpp:15-57 runs them: any number of threads *)
(* push orders into a ConcurrentQueue, and the one thread that owns an      *)
(* OrderBook pops them and adds them to its book.                           *)
(***************************************************************************)
EXTENDS ConcurrentQueue, FiniteSets, SequencesExt

CONSTANTS OrderIds, Prices, Quantities, NewQuantities, QuantityModulus, MaxDepthLevels,
          MaxTradesPerOrder, RetireThreshold, MaxOrders

\* The book has no lock: only one thread may match.
ASSUME MatcherAssumption == IsFiniteSet(Consumers) /\ Cardinality(Consumers) = 1

VARIABLES bids, asks, clock, smr, reply,  \* the book
          holding,  \* consumer -> it popped an order and has not added it yet
          claimed,  \* HISTORY: the orders pushed, in the order of their positions
          matched   \* HISTORY: the orders added, and the quantity they traded

Book == INSTANCE OrderBook

bookVars == <<bids, asks, clock, smr, reply>>
pipeline == <<vars, bookVars, holding, claimed, matched>>

PipelineInit ==
    /\ Init
    /\ Book!Init
    /\ holding = [c \in Consumers |-> FALSE]
    /\ claimed = <<>>
    /\ matched = [orders |-> <<>>, traded |-> 0]

\* The exchange that moves the cursor gives the order its place.
Claims(t) == claimed' = IF enqueue_pos' = enqueue_pos THEN claimed ELSE Append(claimed, item[t])

Offer(t) ==
    /\ \E o \in Orders : PushStart(t, o)
    /\ UNCHANGED <<bookVars, holding, claimed, matched>>

Push(t) == PushStep(t) /\ Claims(t) /\ UNCHANGED <<bookVars, holding, matched>>

\* try_pop, called again and again; it returns an order after its release store.
Ask(c) == ~ holding[c] /\ (PopStart(c) \/ PopStep(c))

Pop(c) ==
    /\ Ask(c)
    /\ holding' = [holding EXCEPT ![c] = pc[c] = "pop_release"]
    /\ UNCHANGED <<bookVars, claimed, matched>>

\* Mutation: an order that traded nothing is added again.
MatchAgain(c) ==
    /\ holding[c]
    /\ Book!TryAddOrder(item[c])
    /\ holding' = [holding EXCEPT ![c] = reply'.trades = <<>>]
    /\ matched' = [orders |-> Append(matched.orders, item[c]),
                   traded |-> matched.traded + Book!Quantity(reply'.trades)]
    /\ UNCHANGED <<vars, claimed>>

\* add_order: an error is dropped with the order.
PutDown(c) == holding[c] /\ holding' = [holding EXCEPT ![c] = FALSE]

Match(c) ==
    /\ PutDown(c)
    /\ Book!TryAddOrder(item[c])
    /\ matched' = [orders |-> Append(matched.orders, item[c]),
                   traded |-> matched.traded + Book!Quantity(reply'.trades)]
    /\ UNCHANGED <<vars, claimed>>

PipelineNext ==
    \/ \E t \in Producers : Offer(t) \/ Push(t)
    \/ \E c \in Consumers : Pop(c) \/ Match(c)

\* Nobody is suspended for ever inside a call, or with an order in hand; the consumer calls
\* try_pop again and again, and its exchange does not fail for no reason for ever.  Only
\* Match puts an order down.
PipelineFairness ==
    /\ \A t \in Producers : PushFair(t)
    /\ \A c \in Consumers : WF_vars(Ask(c)) /\ SF_vars(PopClaim(c)) /\ WF_holding(PutDown(c))

PipelineSpec == PipelineInit /\ [][PipelineNext]_pipeline /\ PipelineFairness
-----------------------------------------------------------------------------
\* The orders reach the book one after the other in the order of their positions, each
\* once: whatever the threads do, the book sees one of the sequences a single thread could
\* have sent it (concurrent_order_book_benches.cpp:38-47).
MatchedInOrder == IsPrefix(matched.orders, claimed)

\* Between a producer's exchange and add_order an order is in one place: with its producer
\* or in its cell, where its position finds it, or with the consumer, inside try_pop or
\* behind it (concurrent_queue.h:39-46, :66-73, concurrent_order_book_benches.cpp:38-47).
OrdersInTransit ==
    /\ Len(claimed) = enqueue_pos
    /\ \A p \in dequeue_pos..(enqueue_pos - 1) : OrderAt(p) = claimed[p + 1]
    /\ \A c \in Consumers :
          /\ holding[c] => pc[c] = "idle" /\ item[c] = claimed[dequeue_pos]
          /\ Draining(c) => Carried(c) = claimed[dequeue_pos]
          /\ Len(matched.orders) = IF Draining(c) \/ holding[c] THEN dequeue_pos - 1
                                   ELSE dequeue_pos

Sum(orders) == FoldLeft(LAMBDA sum, o : sum + o.quantity, 0, orders)
Resting == FoldLeft(LAMBDA sum, l : sum + Book!Quantity(l.orders), 0, bids \o asks)

\* Nothing is lost or made between a producer and the book: what the orders pushed ask for
\* is on its way, or rests, or was traded, by a taker and by a maker.
QuantityConserved ==
    Sum(claimed) = Sum(SubSeq(claimed, Len(matched.orders) + 1, Len(claimed)))
                   + Resting + 2 * matched.traded

\* Every order that got a position is matched in the end, as long as no thread is suspended
\* inside a call (concurrent_queue.h:34-46, :54-69): a producer that stays between its
\* exchange and its release store holds up the book.
EveryOrderMatched ==
    \A n \in 0..(MaxClaims - 1) : enqueue_pos > n ~> Len(matched.orders) > n
=============================================================================
