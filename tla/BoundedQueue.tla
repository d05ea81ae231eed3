---------------------------- MODULE BoundedQueue ----------------------------
(***************************************************************************)
(* What cpp/src/concurrent_queue.h promises to its callers: a bounded FIFO  *)
(* queue of orders.  A try_push takes effect in one step (Enqueue) between  *)
(* its call and its return, and so does a try_pop (Dequeue).                *)
(*                                                                          *)
(* The two failing results are weaker than those of a sequential queue, and *)
(* that weakness is part of the promise: a push may be refused while a      *)
(* consumer that already took an order has not returned, and a pop may find *)
(* nothing while a producer that already has its place has not returned.    *)
(***************************************************************************)
EXTENDS Naturals, Sequences

CONSTANTS Producers,  \* threads that call try_push
          Consumers,  \* threads that call try_pop
          Capacity,   \* the number of cells
          Orders,     \* the values carried
          NoOrder,    \* the value of a thread that carries no order
          Precise     \* FALSE: a call may also fail for no visible reason

Threads == Producers \cup Consumers

VARIABLES queue,  \* the orders enqueued and not dequeued, oldest first
          phase,  \* per thread: "idle", "calling" (no effect yet) or "leaving"
          order   \* per thread: the order offered, or taken and not returned

vars == <<queue, phase, order>>

Init ==
    /\ queue = <<>>
    /\ phase = [t \in Threads |-> "idle"]
    /\ order = [t \in Threads |-> NoOrder]

Move(t, from, to) ==
    /\ phase[t] = from
    /\ phase' = [phase EXCEPT ![t] = to]

Offer(p, o) ==
    /\ Move(p, "idle", "calling")
    /\ order' = [order EXCEPT ![p] = o]
    /\ UNCHANGED queue

Enqueue(p) ==
    /\ Move(p, "calling", "leaving")
    /\ Len(queue) < Capacity
    /\ queue' = Append(queue, order[p])
    /\ order' = [order EXCEPT ![p] = NoOrder]

\* try_push returns false.
Refuse(p) ==
    /\ Move(p, "calling", "idle")
    /\ Precise => \/ Len(queue) = Capacity
                  \/ \E c \in Consumers : phase[c] = "leaving"
    /\ order' = [order EXCEPT ![p] = NoOrder]
    /\ UNCHANGED queue

Ask(c) ==
    /\ Move(c, "idle", "calling")
    /\ UNCHANGED <<queue, order>>

Dequeue(c) ==
    /\ Move(c, "calling", "leaving")
    /\ queue # <<>>
    /\ order' = [order EXCEPT ![c] = Head(queue)]
    /\ queue' = Tail(queue)

\* try_pop returns std::nullopt.
FindNothing(c) ==
    /\ Move(c, "calling", "idle")
    /\ Precise => \/ queue = <<>>
                  \/ \E p \in Producers : phase[p] = "leaving"
    /\ UNCHANGED <<queue, order>>

\* A call that took effect returns: true from try_push, the order from try_pop.
Return(t) ==
    /\ Move(t, "leaving", "idle")
    /\ order' = [order EXCEPT ![t] = NoOrder]
    /\ UNCHANGED queue

Next ==
    \/ \E p \in Producers :
          \/ \E o \in Orders : Offer(p, o)
          \/ Enqueue(p)
          \/ Refuse(p)
          \/ Return(p)
    \/ \E c \in Consumers :
          \/ Ask(c)
          \/ Dequeue(c)
          \/ FindNothing(c)
          \/ Return(c)

Spec == Init /\ [][Next]_vars
=============================================================================
