--------------------------- MODULE ConcurrentQueue ---------------------------
(***************************************************************************)
(* cpp/src/concurrent_queue.h: the bounded multi-producer multi-consumer    *)
(* ring.  Two cursors hand out positions; each cell carries a sequence that *)
(* says whose turn it is.  Every access to shared memory is a step of its   *)
(* own, so the steps of any number of threads interleave.                   *)
(*                                                                          *)
(* Memory order.  The compare-exchanges act on the latest value of a        *)
(* cursor.  A plain load may return any value its variable has held when    *)
(* StaleLoads is TRUE (the cursors are loaded memory_order_relaxed, and     *)
(* nothing orders a sequence load with another thread's later store), and   *)
(* the latest one when it is FALSE.  The first contains every execution of  *)
(* the C++ memory model whose cell data is free of races, which NoCellRace  *)
(* states.  Cursors are naturals: 2^64 pushes are out of reach.             *)
(***************************************************************************)
EXTENDS Integers, Sequences

CONSTANTS Producers,   \* threads that call try_push
          Consumers,   \* threads that call try_pop
          Capacity,    \* number of cells (a power of two in the code)
          Orders,      \* the values carried
          NoOrder,     \* a default-constructed T
          StaleLoads,  \* TRUE: a load may return an overwritten value
          MaxClaims    \* BOUND for TLC: no push starts once this many succeeded

Threads == Producers \cup Consumers

\* The constructor terminates unless capacity >= 2 (and a power of two, which
\* makes "pos & mask_" the same as "pos % Capacity").
ASSUME CapacityAssumption == Capacity \in Nat /\ Capacity >= 2
ASSUME RolesAssumption == Producers \cap Consumers = {}
ASSUME OrdersAssumption == NoOrder \notin Orders
ASSUME StaleLoadsAssumption == StaleLoads \in BOOLEAN
ASSUME MaxClaimsAssumption == MaxClaims \in Nat

VARIABLES sequence,     \* cell -> buffer_[i].sequence
          data,         \* cell -> buffer_[i].data
          enqueue_pos,  \* enqueue_pos_.value
          dequeue_pos,  \* dequeue_pos_.value
          pc,           \* thread -> the next access of the call in progress
          pos,          \* thread -> the local "pos"
          item          \* thread -> the argument of try_push, the result of try_pop

shared == <<sequence, data, enqueue_pos, dequeue_pos>>
vars == <<sequence, data, enqueue_pos, dequeue_pos, pc, pos, item>>

Cells == 0..(Capacity - 1)
Index(p) == p % Capacity

Init ==
    /\ sequence = [i \in Cells |-> i]
    /\ data = [i \in Cells |-> NoOrder]
    /\ enqueue_pos = 0
    /\ dequeue_pos = 0
    /\ pc = [t \in Threads |-> "idle"]
    /\ pos = [t \in Threads |-> 0]
    /\ item = [t \in Threads |-> NoOrder]

-----------------------------------------------------------------------------
\* What a load of a cursor, or of the sequence of cell i, may return.
LoadCursor(cursor) == IF StaleLoads THEN 0..cursor ELSE {cursor}

\* Cell i has held i, and then p + 1 and p + Capacity for its positions p.
LoadSequence(i) ==
    IF StaleLoads
    THEN {s \in i..sequence[i] : Index(s) = i \/ Index(s - 1) = i}
    ELSE {sequence[i]}

Goto(t, from, to) ==
    /\ pc[t] = from
    /\ pc' = [pc EXCEPT ![t] = to]

\* Thread t (re)loads a cursor into its local pos.
Load(t, cursor) == \E p \in LoadCursor(cursor) : pos' = [pos EXCEPT ![t] = p]
-----------------------------------------------------------------------------
\* try_push(o): load enqueue_pos_.
PushStart(t, o) ==
    /\ enqueue_pos < MaxClaims
    /\ Goto(t, "idle", "push_seq")
    /\ item' = [item EXCEPT ![t] = o]
    /\ Load(t, enqueue_pos)
    /\ UNCHANGED shared

\* Load the sequence of the cell: diff == 0, diff < 0 or diff > 0.
\* Mutation: any sequence up to pos is good enough.
PushReadyEarly(t) ==
    /\ Goto(t, "push_seq", "push_cas")
    /\ \E s \in LoadSequence(Index(pos[t])) : s <= pos[t]
    /\ UNCHANGED <<shared, pos, item>>

PushReady(t) ==
    /\ Goto(t, "push_seq", "push_cas")
    /\ pos[t] \in LoadSequence(Index(pos[t]))
    /\ UNCHANGED <<shared, pos, item>>

\* Mutation: a producer that is behind the others takes the queue for full.
PushFullWhenBehind(t) ==
    /\ Goto(t, "push_seq", "idle")
    /\ \E s \in LoadSequence(Index(pos[t])) : s # pos[t]
    /\ UNCHANGED <<shared, pos, item>>

PushFull(t) ==
    /\ Goto(t, "push_seq", "idle")
    /\ \E s \in LoadSequence(Index(pos[t])) : s < pos[t]
    /\ UNCHANGED <<shared, pos, item>>

PushBehind(t) ==
    /\ Goto(t, "push_seq", "push_reload")
    /\ \E s \in LoadSequence(Index(pos[t])) : s > pos[t]
    /\ UNCHANGED <<shared, pos, item>>

PushReload(t) ==
    /\ Goto(t, "push_reload", "push_seq")
    /\ Load(t, enqueue_pos)
    /\ UNCHANGED <<shared, item>>

\* compare_exchange_weak on enqueue_pos_ succeeds, or fails and reloads pos.
\* A weak exchange may also fail when the values are equal.
\* Mutation: a plain store of pos + 1 instead of the exchange.
PushClaimBlindly(t) ==
    /\ Goto(t, "push_cas", "push_write")
    /\ enqueue_pos' = pos[t] + 1
    /\ UNCHANGED <<sequence, data, dequeue_pos, pos, item>>

PushClaim(t) ==
    /\ Goto(t, "push_cas", "push_write")
    /\ enqueue_pos = pos[t]
    /\ enqueue_pos' = pos[t] + 1
    /\ UNCHANGED <<sequence, data, dequeue_pos, pos, item>>

PushClaimFails(t) ==
    /\ Goto(t, "push_cas", "push_seq")
    /\ Load(t, enqueue_pos)
    /\ UNCHANGED <<shared, item>>

PushWrite(t) ==
    /\ Goto(t, "push_write", "push_publish")
    /\ data' = [data EXCEPT ![Index(pos[t])] = item[t]]
    /\ UNCHANGED <<sequence, enqueue_pos, dequeue_pos, pos, item>>

\* Mutation: the cell is published with pos instead of pos + 1.
PushPublishNothing(t) ==
    /\ Goto(t, "push_publish", "idle")
    /\ sequence' = [sequence EXCEPT ![Index(pos[t])] = pos[t]]
    /\ UNCHANGED <<data, enqueue_pos, dequeue_pos, pos, item>>

PushPublish(t) ==
    /\ Goto(t, "push_publish", "idle")
    /\ sequence' = [sequence EXCEPT ![Index(pos[t])] = pos[t] + 1]
    /\ UNCHANGED <<data, enqueue_pos, dequeue_pos, pos, item>>
-----------------------------------------------------------------------------
\* try_pop(): load dequeue_pos_.
PopStart(t) ==
    /\ Goto(t, "idle", "pop_seq")
    /\ Load(t, dequeue_pos)
    /\ UNCHANGED <<shared, item>>

\* Mutation: a cell whose order is still on its way is good enough.
PopReadyEarly(t) ==
    /\ Goto(t, "pop_seq", "pop_cas")
    /\ \E s \in LoadSequence(Index(pos[t])) : s >= pos[t] /\ enqueue_pos > pos[t]
    /\ UNCHANGED <<shared, pos, item>>

PopReady(t) ==
    /\ Goto(t, "pop_seq", "pop_cas")
    /\ pos[t] + 1 \in LoadSequence(Index(pos[t]))
    /\ UNCHANGED <<shared, pos, item>>

PopEmpty(t) ==
    /\ Goto(t, "pop_seq", "idle")
    /\ \E s \in LoadSequence(Index(pos[t])) : s < pos[t] + 1
    /\ UNCHANGED <<shared, pos, item>>

PopBehind(t) ==
    /\ Goto(t, "pop_seq", "pop_reload")
    /\ \E s \in LoadSequence(Index(pos[t])) : s > pos[t] + 1
    /\ UNCHANGED <<shared, pos, item>>

PopReload(t) ==
    /\ Goto(t, "pop_reload", "pop_seq")
    /\ Load(t, dequeue_pos)
    /\ UNCHANGED <<shared, item>>

PopClaim(t) ==
    /\ Goto(t, "pop_cas", "pop_read")
    /\ dequeue_pos = pos[t]
    /\ dequeue_pos' = pos[t] + 1
    /\ UNCHANGED <<sequence, data, enqueue_pos, pos, item>>

PopClaimFails(t) ==
    /\ Goto(t, "pop_cas", "pop_seq")
    /\ Load(t, dequeue_pos)
    /\ UNCHANGED <<shared, item>>

PopRead(t) ==
    /\ Goto(t, "pop_read", "pop_release")
    /\ item' = [item EXCEPT ![t] = data[Index(pos[t])]]
    /\ UNCHANGED <<shared, pos>>

\* Mutations: the sequence goes back by a lap; it is pos + mask_.
PopReleaseBackwards(t) ==
    /\ Goto(t, "pop_release", "idle")
    /\ sequence' = [sequence EXCEPT ![Index(pos[t])] = pos[t] - Capacity]
    /\ UNCHANGED <<data, enqueue_pos, dequeue_pos, pos, item>>

PopReleaseMask(t) ==
    /\ Goto(t, "pop_release", "idle")
    /\ sequence' = [sequence EXCEPT ![Index(pos[t])] = pos[t] + Capacity - 1]
    /\ UNCHANGED <<data, enqueue_pos, dequeue_pos, pos, item>>

PopRelease(t) ==
    /\ Goto(t, "pop_release", "idle")
    /\ sequence' = [sequence EXCEPT ![Index(pos[t])] = pos[t] + Capacity]
    /\ UNCHANGED <<data, enqueue_pos, dequeue_pos, pos, item>>
-----------------------------------------------------------------------------
\* The steps of a call of try_push after its first load.
PushStep(t) ==
    \/ PushReady(t) \/ PushFull(t) \/ PushBehind(t) \/ PushReload(t)
    \/ PushClaim(t) \/ PushClaimFails(t) \/ PushWrite(t) \/ PushPublish(t)

PopStep(t) ==
    \/ PopReady(t) \/ PopEmpty(t) \/ PopBehind(t) \/ PopReload(t)
    \/ PopClaim(t) \/ PopClaimFails(t) \/ PopRead(t) \/ PopRelease(t)

Next ==
    \/ \E t \in Producers : (\E o \in Orders : PushStart(t, o)) \/ PushStep(t)
    \/ \E t \in Consumers : PopStart(t) \/ PopStep(t)

Spec == Init /\ [][Next]_vars

\* Fairness of a thread inside try_push: it keeps running, and an exchange that is retried
\* for ever finally succeeds.  Nobody has to call try_push.
PushFair(t) == WF_vars(PushStep(t))
-----------------------------------------------------------------------------
\* Thread t is between the exchange that gave it its position and the release
\* store that passes the cell on.
Filling(t) == pc[t] \in {"push_write", "push_publish"}
Draining(t) == pc[t] \in {"pop_read", "pop_release"}

BeingFilled(p) == \E t \in Producers : Filling(t) /\ pos[t] = p
BeingDrained(p) == \E t \in Consumers : Draining(t) /\ pos[t] = p

TypeOK ==
    /\ sequence \in [Cells -> Nat]
    /\ data \in [Cells -> Orders \cup {NoOrder}]
    /\ enqueue_pos \in Nat
    /\ dequeue_pos \in Nat
    /\ pc \in [Threads -> {"idle",
                 "push_seq", "push_cas", "push_reload", "push_write", "push_publish",
                 "pop_seq", "pop_cas", "pop_reload", "pop_read", "pop_release"}]
    /\ \A t \in Producers : pc[t] \in {"idle", "push_seq", "push_cas",
                                  "push_reload", "push_write", "push_publish"}
    /\ \A t \in Consumers : pc[t] \in {"idle", "pop_seq", "pop_cas",
                                  "pop_reload", "pop_read", "pop_release"}
    /\ pos \in [Threads -> Nat]
    /\ item \in [Threads -> Orders \cup {NoOrder}]

\* No two threads are ever inside the same cell: the plain accesses to
\* cell->data (concurrent_queue.h:45 and :71) are free of data races.
NoCellRace ==
    \A t, u \in Threads :
        /\ t # u
        /\ Filling(t) \/ Draining(t)
        /\ Filling(u) \/ Draining(u)
        => Index(pos[t]) # Index(pos[u])

\* No cell is ever lost or handed out twice: when no call is in progress, each
\* cell announces exactly what the cursors say of it, an order to take or a
\* place to fill.  A queue that leaked a cell would refuse pushes for ever.
ExactAtRest ==
    (\A t \in Threads : ~ (Filling(t) \/ Draining(t))) =>
        \A p \in dequeue_pos..(dequeue_pos + Capacity - 1) :
            sequence[Index(p)] = IF p < enqueue_pos THEN p + 1 ELSE p
-----------------------------------------------------------------------------
(***************************************************************************)
(* The inductive invariant.  A cell passes through p (free for position p), *)
(* p + 1 (holds p's order) and p + Capacity (free for its next position);   *)
(* it lags behind the cursors exactly while the thread that moved the       *)
(* cursor is inside it.                                                     *)
(***************************************************************************)
Window == dequeue_pos <= enqueue_pos /\ enqueue_pos <= dequeue_pos + Capacity

FillersInWindow ==
    \A t \in Producers : Filling(t) => dequeue_pos <= pos[t] /\ pos[t] < enqueue_pos

DrainersInWindow ==
    \A t \in Consumers : Draining(t) => enqueue_pos <= pos[t] + Capacity
                                        /\ pos[t] < dequeue_pos

FillersApart ==
    \A t, u \in Producers : t # u /\ Filling(t) /\ Filling(u) => pos[t] # pos[u]

DrainersApart ==
    \A t, u \in Consumers : t # u /\ Draining(t) /\ Draining(u) => pos[t] # pos[u]

UsedCells ==
    \A p \in dequeue_pos..(enqueue_pos - 1) :
        sequence[Index(p)] = IF BeingFilled(p) THEN p ELSE p + 1

FreeCells ==
    \A p \in enqueue_pos..(dequeue_pos + Capacity - 1) :
        sequence[Index(p)] = IF BeingDrained(p - Capacity)
                             THEN (p - Capacity) + 1 ELSE p

\* What was once true of a cell remains a lower bound.
PassedCells ==
    /\ \A p \in 0..(enqueue_pos - 1) : sequence[Index(p)] >= p
    /\ \A p \in 0..(dequeue_pos - 1) : sequence[Index(p)] >= p + 1

\* The load that led a thread to its exchange may be old, but not wrong.
LoadsAreFloors ==
    /\ \A t \in Producers : pc[t] = "push_cas" => sequence[Index(pos[t])] >= pos[t]
    /\ \A t \in Consumers : pc[t] = "pop_cas" => sequence[Index(pos[t])] >= pos[t] + 1
    /\ \A t \in Producers : pos[t] <= enqueue_pos
    /\ \A t \in Consumers : pos[t] <= dequeue_pos

\* The invariant that carries the proofs: it names, for the cells of the window
\* and the threads inside them, who may touch what (concurrent_queue.h:28-46, :54-72).
CursorInv ==
    /\ Window
    /\ FillersInWindow /\ DrainersInWindow
    /\ FillersApart /\ DrainersApart
    /\ UsedCells /\ FreeCells
    /\ PassedCells /\ LoadsAreFloors
-----------------------------------------------------------------------------
(***************************************************************************)
(* The ring implements the bounded FIFO.  A call takes effect at its        *)
(* exchange.  The order of position p is the argument of the producer still *)
(* on its way to write it, and otherwise what the cell holds.               *)
(***************************************************************************)
OrderAt(p) ==
    IF \E t \in Producers : pc[t] = "push_write" /\ pos[t] = p
    THEN item[CHOOSE t \in Producers : pc[t] = "push_write" /\ pos[t] = p]
    ELSE data[Index(p)]

Phase(t) == CASE pc[t] = "idle" -> "idle"
              [] Filling(t) \/ Draining(t) -> "leaving"
              [] OTHER -> "calling"

Carried(t) ==
    CASE pc[t] \in {"push_seq", "push_cas", "push_reload"} -> item[t]
      [] pc[t] = "pop_read" -> data[Index(pos[t])]
      [] pc[t] = "pop_release" -> item[t]
      [] OTHER -> NoOrder

Contents == [i \in 1..(enqueue_pos - dequeue_pos) |-> OrderAt(dequeue_pos + i - 1)]
Phases == [t \in Threads |-> Phase(t)]
CarriedOrders == [t \in Threads |-> Carried(t)]

Promise == INSTANCE BoundedQueue WITH
    queue <- Contents, phase <- Phases, order <- CarriedOrders, Precise <- ~StaleLoads

\* Orders leave in the order in which producers got their positions, each once
\* and unchanged; a push is refused, or a pop finds nothing, only when the
\* queue is full, or empty, or a call that took effect has not yet returned
\* (concurrent_queue.h:38 and :64).
FifoPromise == Promise!Spec
=============================================================================
