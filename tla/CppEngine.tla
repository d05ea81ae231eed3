------------------------------ MODULE CppEngine ------------------------------
(***************************************************************************)
(* cpp/src/main.cpp with cpp/src/stdin_parser.h: one thread reads a line,   *)
(* feeds the orders it finds in it to the book one by one, and writes one   *)
(* line back.                                                               *)
(*                                                                          *)
(* A line is what the two engines make of it: its action, its orders, and   *)
(* where it ends.  The parser searches the text for the keys it needs and   *)
(* never looks at a line as a whole.                                        *)
(*   action  "batch", "snapshot", "unknown" (another text), "missing" (none *)
(*           that can be read), "blank" (white space), "empty"              *)
(*   orders  the orders found, or Absent without an array                   *)
(*   end     "whole", "array" (a batch cut after its array), or "cut"       *)
(* A field of an order is Absent when it is missing or not of its type.     *)
(***************************************************************************)
EXTENDS OrderBook

CONSTANTS Absent,   \* what is not in a line
          Latencies \* BOUND: the times a batch can take, in ns; UINT64_MAX is not one

ASSUME LatenciesAssumption == Latencies \subseteq Nat
ASSUME AbsentAssumption ==
    /\ Absent \notin Nat /\ Absent \notin Sides
    /\ \A a, b \in Latencies : Absent # [min |-> a, max |-> b]

VARIABLES line,    \* the line read last
          at,      \* the order of the line it is at
          answer,  \* its answer to the line, or Pending
          log,     \* HISTORY: the trades of the line
          marks,   \* watermarks: [min, max], or Absent before the first record
          measured \* HISTORY: the times of the batches answered with a result

book == <<bids, asks, clock, smr, reply>>
times == <<marks, measured>>

Pending == [type |-> "pending", processed |-> 0]
Silent == [type |-> "silent", processed |-> 0]
Error == [type |-> "error", processed |-> 0]
SnapshotSent == [type |-> "snapshot", processed |-> 0]
BatchResult(n) == [type |-> "batch_result", processed |-> n]

EngineInit ==
    /\ Init
    /\ at = 1 /\ answer = Silent /\ log = <<>>
    /\ marks = Absent /\ measured = {}

\* The next line arrives.
Begin ==
    /\ at' = 1 /\ answer' = Pending /\ log' = <<>>
    /\ UNCHANGED <<book, times>>

Answer(a) ==
    /\ answer = Pending
    /\ answer' = a
    /\ UNCHANGED <<at, log>>

Batch == line.action = "batch" /\ line.orders # Absent

Ignore ==
    /\ line.action = "empty"
    /\ Answer(Silent) /\ UNCHANGED <<book, times>>

\* parse_action fails, or the action is none of the two, or parse_batch_orders finds no array.
Refuse ==
    /\ line.action \in {"blank", "missing", "unknown"}
       \/ (line.action = "batch" /\ line.orders = Absent)
    /\ Answer(Error) /\ UNCHANGED <<book, times>>

\* parse_uint_field, parse_double_field: the key is there, and a number of the type up to
\* the next delimiter.
Reads(order, field) == order[field] # Absent

\* parse_order: every field must be readable, and the side one of the two.
Parses(order) ==
    /\ \A field \in {"order_id", "price", "quantity"} : Reads(order, field)
    /\ order.side \in Sides

Unreadable ==
    /\ Batch /\ at <= Len(line.orders) /\ ~ Parses(line.orders[at])
    /\ Answer(Error) /\ UNCHANGED <<book, times>>

\* The first order the book refuses ends the batch; the orders before it stay applied.
Submit ==
    /\ answer = Pending /\ Batch /\ at <= Len(line.orders) /\ Parses(line.orders[at])
    /\ TryAddOrder(line.orders[at])
    /\ IF reply'.error = "none"
       THEN /\ at' = at + 1
            /\ log' = log \o reply'.trades
            /\ UNCHANGED answer
       ELSE answer' = Error /\ UNCHANGED <<at, log>>
    /\ UNCHANGED times

\* record: atomic_fetch_min and atomic_fetch_max, by the one thread that uses them.
Record(ns) ==
    marks' = IF marks = Absent THEN [min |-> ns, max |-> ns]
             ELSE [min |-> Min({marks.min, ns}), max |-> Max({marks.max, ns})]

\* Mutations: the count of processed orders starts at one; a batch that failed is recorded.
AnswerBatchOneMore ==
    /\ Batch /\ at > Len(line.orders)
    /\ IF line.end = "cut" THEN Answer(Error) /\ UNCHANGED times
       ELSE /\ Answer(BatchResult(at))
            /\ \E ns \in Latencies : Record(ns) /\ measured' = measured \cup {ns}
    /\ UNCHANGED book

AnswerBatchRecordsFirst ==
    /\ Batch /\ at > Len(line.orders)
    /\ \E ns \in Latencies :
          /\ Record(ns)
          /\ IF line.end = "cut" THEN Answer(Error) /\ UNCHANGED measured
             ELSE Answer(BatchResult(at - 1)) /\ measured' = measured \cup {ns}
    /\ UNCHANGED book

\* The array must be closed; its orders were applied all the same.
AnswerBatch ==
    /\ Batch /\ at > Len(line.orders)
    /\ IF line.end = "cut" THEN Answer(Error) /\ UNCHANGED times
       ELSE /\ Answer(BatchResult(at - 1))
            /\ \E ns \in Latencies : Record(ns) /\ measured' = measured \cup {ns}
    /\ UNCHANGED book

AnswerSnapshot ==
    /\ line.action = "snapshot"
    /\ Answer(SnapshotSent) /\ UNCHANGED <<book, times>>

Step == Ignore \/ Refuse \/ Unreadable \/ Submit \/ AnswerBatch \/ AnswerSnapshot
-----------------------------------------------------------------------------
\* The extremes a batch_result reports are those of the batches answered with a result: a
\* batch that failed, after however many orders, leaves no mark (main.cpp:170-177).
WatermarksExact ==
    marks = IF measured = {} THEN Absent ELSE [min |-> Min(measured), max |-> Max(measured)]
=============================================================================
