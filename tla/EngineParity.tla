------------------------------ MODULE EngineParity ------------------------------
(***************************************************************************)
(* The two engine processes side by side, as the gateway runs them: both    *)
(* are sent the same lines.  Between lines a replay may also cancel and     *)
(* modify orders, which the books offer and the JSON protocol does not.     *)
(*                                                                          *)
(* The two share nothing but the lines they are sent, so their steps        *)
(* commute; of the interleavings, which differ in nothing, the model has    *)
(* the one in which the Rust engine works once the C++ engine has answered. *)
(*                                                                          *)
(* What is asked of them: as long as each acknowledged every line, and      *)
(* alike, nobody has to look at the books to know that they are the same.   *)
(***************************************************************************)
EXTENDS CppEngine

CONSTANTS Grain,     \* prices are sent in units of 1/Grain cent
          RoundsUp,  \* half cents the Rust engine takes up
          PrintsUp,  \* half cents the C++ engine prints a cent up
          OddLines,  \* lines other than whole batches of Orders
          MaxBatch   \* BOUND: orders in a batch

ASSUME GrainAssumption == Grain \in Nat \ {0}

\* A half cent that is printed up lies above the half as a double, or on it next to an odd
\* cent: times 100 it is no less than the half, and round takes that up.
ASSUME HalvesAssumption == PrintsUp \subseteq RoundsUp

VARIABLES rust_bids, rust_asks, rust_reply,  \* the Rust book
          rust_at,                           \* the order the Rust engine is at
          rust_answer,                       \* its answer, or Pending
          rust_log                           \* HISTORY: the trades of the line

cpp  == <<book, at, answer, log, times>>
rust == <<rust_bids, rust_asks, rust_reply, rust_at, rust_answer, rust_log>>
parity == <<cpp, rust, line>>

Rust == INSTANCE RustEngine WITH bids <- rust_bids, asks <- rust_asks, reply <- rust_reply,
            at <- rust_at, answer <- rust_answer, log <- rust_log

BothAnswered == answer # Pending /\ rust_answer # Rust!Pending

\* Both engines did what they were asked, as far as their answers tell.
Acknowledged == BothAnswered /\ answer = rust_answer /\ answer # Error

ParityInit ==
    /\ EngineInit
    /\ Rust!EngineInit
    /\ line = [action |-> "empty", orders |-> Absent, end |-> "whole"]

BatchLine(orders) == [action |-> "batch", orders |-> orders, end |-> "whole"]

\* The orders of a batch; a line of another action may contain an array that nobody reads.
Items(l) == IF l.action # "batch" \/ l.orders = Absent THEN <<>> ELSE l.orders

\* Nothing is left of an empty line that could be cut.
ASSUME OddLinesAssumption == \A l \in OddLines :
    /\ l.action \in {"batch", "snapshot", "unknown", "missing", "blank", "empty"}
    /\ l.end \in {"whole", "array", "cut"}
    /\ l.action = "empty" => l.end = "whole"
    /\ Items(l) \in Seq(ToSet(Items(l)))
    /\ \A o \in ToSet(Items(l)) : Parses(o) /\ Valid(o) => o \in Orders

\* No two prices fall on the same cent, of those given and those resting: the gateway
\* sends whole cents (web-dashboard/server.js:336), for which this is always so.
CentsApart(prices) ==
    LET resting == {bids[i].price : i \in DOMAIN bids}
                   \cup {asks[i].price : i \in DOMAIN asks}
    IN  \A p, q \in (resting \cup prices) \ {Absent} :
            Rust!Cents(p) = Rust!Cents(q) => p = q

\* The gateway sends the next line once both engines have answered the last one.  What
\* follows a line they did not both acknowledge is not looked at: the books may differ.
Send(l) ==
    /\ Acknowledged
    /\ clock + Len(Items(l)) <= MaxOrders
    /\ CentsApart({Items(l)[i].price : i \in DOMAIN Items(l)})
    /\ line' = l
    /\ Begin
    /\ Rust!Begin

CppStep == Step /\ UNCHANGED <<rust, line>>

RustStep == answer # Pending /\ Rust!Step /\ UNCHANGED <<cpp, line>>

\* A replay cancels or modifies the same order in both books.
Cancel(id, side, price) ==
    /\ Acknowledged /\ CentsApart({price})
    /\ CancelOrder(id, side, price) \/ NotFound(id, side, price)
    /\ Rust!CancelOrder(id, side, Rust!Cents(price))
    /\ UNCHANGED <<line, at, rust_at, answer, rust_answer, log, rust_log,
                   marks, measured>>

Modify(id, side, price, quantity) ==
    /\ Acknowledged /\ CentsApart({price})
    /\ ModifyOrder(id, side, price, quantity) \/ NotFound(id, side, price)
    /\ Rust!ModifyOrder(id, side, Rust!Cents(price), quantity)
    /\ UNCHANGED <<line, at, rust_at, answer, rust_answer, log, rust_log,
                   marks, measured>>

ParityNext ==
    \/ \E n \in 0..MaxBatch : \E orders \in [1..n -> Orders] : Send(BatchLine(orders))
    \/ \E l \in OddLines : Send(l)
    \/ CppStep \/ RustStep
    \/ \E id \in OrderIds, side \in Sides, price \in Prices :
          \/ Cancel(id, side, price)
          \/ \E q \in NewQuantities : Modify(id, side, price, q)

ParitySpec == ParityInit /\ [][ParityNext]_parity
-----------------------------------------------------------------------------
\* append_double: "%.2f" of the double that holds the price, to even from half a cent.
Printed(price) == Rust!Nearest(price, PrintsUp)

\* snapshot_bids and snapshot_asks, as append_depth_levels prints them.
CppSnapshot(side) ==
    LET levels == SnapshotSide(side)
    IN  [i \in DOMAIN levels |-> [levels[i] EXCEPT !.price = Printed(@)]]

SnapshotsIdentical == \A side \in Sides : CppSnapshot(side) = Rust!Snapshot(side)

\* The same but for levels at half a cent, which the C++ engine may show a cent lower.
SnapshotsAgree ==
    \A side \in Sides :
        LET shown == CppSnapshot(side)
            peer  == Rust!Snapshot(side)
        IN  /\ Len(shown) = Len(peer)
            /\ \A i \in DOMAIN shown :
                  \/ shown[i] = peer[i]
                  \/ /\ Rust!HalfCent(SnapshotSide(side)[i].price)
                     /\ shown[i] = [peer[i] EXCEPT !.price = @ - 1]

\* As long as both engines acknowledged every line, their snapshots agree level by level,
\* in total, number of orders and price, but for the print of half a cent: the books never
\* part without an answer that says so, which is what the gateway counts as a mismatch when
\* it compares two snapshots (server.js:65-82, :401).
SameSnapshots == Acknowledged => SnapshotsAgree

\* ... and the trades of the line are the same, in the same order.
SameTrades ==
    Acknowledged =>
        /\ Len(log) = Len(rust_log)
        /\ \A i \in DOMAIN log :
              [log[i] EXCEPT !.price = Rust!Cents(@)] = rust_log[i]

\* A line both engines can read and the C++ book accepts is acknowledged by both, with the
\* same count, and both find, or do not find, the order a replay cancels or modifies
\* (main.cpp:160-180 and main.rs:23-75 go separate ways for every other line).
Proper(l) ==
    /\ l.action \in {"empty", "snapshot", "batch"} /\ l.end = "whole"
    /\ l.action = "batch" => l.orders # Absent
    /\ \A i \in DOMAIN Items(l) : Parses(Items(l)[i]) /\ Valid(Items(l)[i])

SameAnswers ==
    BothAnswered =>
        /\ Proper(line) <=> Acknowledged
        /\ Acknowledged => /\ answer.processed = Len(Items(line))
                           /\ (reply.error = "none") = rust_reply.found

\* What .github/copilot-instructions.md:28 asks for whatever is sent: an "identical final
\* book snapshot".
GoldenSnapshots == BothAnswered => SnapshotsIdentical
=============================================================================
