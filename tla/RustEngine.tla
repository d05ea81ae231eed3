------------------------------ MODULE RustEngine ------------------------------
(***************************************************************************)
(* rust/src/main.rs: one thread parses a line as JSON, feeds the orders it  *)
(* finds to its own book and writes one line back, or none.  Lines are      *)
(* those of CppEngine.                                                      *)
(***************************************************************************)
EXTENDS RustOrderBook

CONSTANTS Absent,   \* what is not in a line
          Grain,    \* prices are sent in units of 1/Grain cent
          RoundsUp  \* half cents that round takes up

VARIABLES line,    \* the line read last
          at,      \* the order of the line it is at
          answer,  \* its answer to the line, or Pending
          log      \* HISTORY: the trades of the line

engine == <<bids, asks, reply, at, answer, log>>
book == <<bids, asks, reply>>

Pending == [type |-> "pending", processed |-> 0]
Silent == [type |-> "silent", processed |-> 0]
Error == [type |-> "error", processed |-> 0]
SnapshotSent == [type |-> "snapshot", processed |-> 0]
BatchResult(n) == [type |-> "batch_result", processed |-> n]

EngineInit == Init /\ at = 1 /\ answer = Silent /\ log = <<>>

\* The next line arrives.
Begin ==
    /\ at' = 1 /\ answer' = Pending /\ log' = <<>>
    /\ UNCHANGED book

Answer(a) ==
    /\ answer = Pending
    /\ answer' = a
    /\ UNCHANGED <<book, at, log>>

\* The text is JSON, and not white space.
Readable == line.action \notin {"empty", "blank"} /\ line.end = "whole"
Batch == Readable /\ line.action = "batch"
Received == IF line.orders = Absent THEN <<>> ELSE line.orders

HalfCent(price) == (2 * price + Grain) % (2 * Grain) = 0

\* To the nearest cent; of the prices at half a cent, those in up go up.
Nearest(price, up) ==
    LET cents == (2 * price + Grain) \div (2 * Grain)
    IN  IF HalfCent(price) /\ price \notin up THEN cents - 1 ELSE cents

\* (price_f64 * 100.0).round() as u64: halves go up, and to 0 from below.  But half a cent
\* is seldom a double: the price may lie below, and its product with 100 is rounded too.
Cents(price) == Nearest(price, RoundsUp)

Default(value, default) == IF value = Absent THEN default ELSE value

\* Every field has a default, and every side but "buy" is a sell.
OrderOf(o) ==
    [order_id |-> Default(o.order_id, 0),
     side     |-> IF Default(o.side, "buy") = "buy" THEN "buy" ELSE "sell",
     price    |-> Cents(Default(o.price, 0)),
     quantity |-> Default(o.quantity, 0)]

Skip == line.action \in {"empty", "blank"} /\ Answer(Silent)

Refuse == line.action \notin {"empty", "blank"} /\ line.end # "whole" /\ Answer(Error)

\* An action that is none of the two gets no answer at all.
Ignore == Readable /\ line.action \in {"missing", "unknown"} /\ Answer(Silent)

Submit ==
    /\ answer = Pending /\ Batch /\ at <= Len(Received)
    /\ AddOrder(OrderOf(Received[at]))
    /\ at' = at + 1
    /\ log' = log \o reply'.trades
    /\ UNCHANGED answer

AnswerBatch == Batch /\ at > Len(Received) /\ Answer(BatchResult(at - 1))

AnswerSnapshot == Readable /\ line.action = "snapshot" /\ Answer(SnapshotSent)

Step == Skip \/ Refuse \/ Ignore \/ Submit \/ AnswerBatch \/ AnswerSnapshot
=============================================================================
