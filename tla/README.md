# Verification of the lock-free order book

TLA+ models of the order book's components, the TLC configurations that check them on
small instances, and theorems checked by TLAPS for every instance. Line numbers refer to
the repository's sources.

- `tlc -workers 2 -config X.cfg M` checks one run; `PROJECT.json` lists the runs with the
  module `M` of each. Runs that are expected to find a violation are the findings below.
- `tlapm M.tla` checks the proofs of `M`, for each module `...Proofs`.

## 1. The system

Two native matching engines, one in C++ and one in Rust, run as child processes of a
Node.js gateway. The gateway invents batches of orders, sends each batch to both engines
as a line of JSON on stdin, waits for both answers, asks both for a snapshot of their
depth, compares the two, and sends the result to browsers over Socket.IO. Inside each
engine one thread owns the book. The lock-free queue and the hazard pointer domain are
libraries: tests and benchmarks run the first with many threads, in one benchmark in front
of a thread that owns a C++ book, and the C++ book runs the second from one.

| Component | State it keeps | Operations | Interacts with | What is hard |
|---|---|---|---|---|
| `ConcurrentQueue` (cpp/src/concurrent_queue.h) | two cursors, a ring of cells with a sequence each | `try_push`, `try_pop` | any number of producers and consumers | interleaving of single accesses, relaxed loads, laps of the ring, a producer that stops half-way |
| `HazardPointerDomain` (cpp/src/low_latency.h) | hazard slots, active flags, retired list, retired count | `make_guard`, `protect`, `~Guard`, `retire`, `scan`, the destructor | readers and writers of one published pointer; the C++ book | probing slots that move, overlapping scans, address reuse, store buffering, a count that wraps |
| C++ `OrderBook` (cpp/src/order_book.*) | two flat sides of at most 20 levels, nodes, an SMR domain | `try_add_order`, `cancel_order`, `modify_order`, snapshots | engine loop, SMR domain | sweeps over levels, cleaning up behind them, depth cut, full trade batch, quantity zero, `uint64_t` totals |
| Rust `OrderBook` (rust/src/order_book.rs) | two `BTreeMap`s of levels | `add_order`, `cancel_order`, `modify_order`, `get_snapshot` | engine loop | must agree with the C++ book |
| Engine loops (cpp/src/main.cpp, stdin_parser.h; rust/src/main.rs) | book, the C++ engine also latency watermarks | `batch`, `snapshot` | gateway, over pipes | a batch that fails half-way; lines that are cut, odd or unknown, which the two read differently; prices rounded to cents by one of them |
| Gateway (web-dashboard/server.js) | per engine the batch and snapshot resolvers; the snapshot chain | `getOrderBookSnapshot`, `sendBatch`, `requestSnapshot`, timeouts, stream loop, client handlers | engines, browsers | late answers, back-pressure, an engine that ends, rejections |
| Dashboard (web-dashboard/public/dashboard.js) | last snapshot, trade tape, keys of shown trades | `ingestSnapshot`, `ingestTrades` | gateway | duplicates and order of trades |
| Rust queue, market simulator | – | wrapper of crossbeam; random orders | – | – |

What makes each correct:

- **Queue.** No two threads are in one cell; orders leave in the order of their
  positions, once; a refusal or an empty answer has a reason; no cell is lost; orders
  are taken in the end.
- **Hazard pointers.** No reader uses a deleted node; no node is lost or deleted twice;
  guards never share a slot; garbage is bounded.
- **Books.** Levels sorted, never empty, never crossed, at most the depth limit; totals
  equal the sum of the orders; price-time priority in every trade; nothing vanishes but
  what the depth limit cuts. And the two books agree.
- **Engine loops.** As long as both engines acknowledged every line, their snapshots,
  trades and counts are the same; the reported latency extremes are those of the batches
  that were answered with a result.
- **Queue and book together.** Every order is matched once, in the order of the queue, and
  no quantity is lost or made on the way.
- **Gateway.** An answer reaches the call it answers; one round at a time; the compared
  snapshots contain the same batches; every call ends.

## 2. The modules

| Module | Models | Composes |
|---|---|---|
| `BoundedQueue` | the abstract bounded FIFO, what `try_push` and `try_pop` promise | |
| `ConcurrentQueue` | `try_push`, `try_pop` | refines `BoundedQueue` |
| `ConcurrentQueueProofs` | type, inductive invariant, races, leaks, the refinement: theorems | extends `ConcurrentQueue` |
| `HazardPointerDomain` | guards, `retire`, `scan`, the destructor, with the readers and writers of cpp/tests/low_latency_stress.cpp | |
| `HazardPointerProofs` | type, where every node is, the count, slots, the search for one, protection, how much garbage there is: theorems | extends `HazardPointerDomain`, `FoldLemmas` |
| `OrderBook` | the C++ book and what it does with its SMR domain | |
| `FoldLemmas` | what a fold over a sequence computes, sums over finite sets and unions, least counterexamples, remainders: lemmas | |
| `OrderBookProofs` | type, levels, totals, priority, reclamation, every trade, conservation and the depth cut: theorems | extends `OrderBook`, `FoldLemmas` |
| `RustOrderBook` | the Rust book | |
| `Pipeline` | producers, the ring and the one thread that matches | extends `ConcurrentQueue`, instantiates `OrderBook` |
| `PipelineProofs` | the way of an order to the book: theorems | extends `Pipeline`, `ConcurrentQueueProofs` |
| `PipelineBookProofs` | what the book makes of the orders of the ring: theorem | extends `OrderBookProofs`, instantiates `Pipeline` |
| `CppEngine` | the C++ parser and main loop, latency watermarks | extends `OrderBook` |
| `RustEngine` | the Rust main loop | extends `RustOrderBook` |
| `EngineParity` | the two engines, sent the same lines | extends `CppEngine`, instantiates `RustEngine` |
| `EngineParityProofs` | the two engines keep the same book; the watermarks: theorems | extends `EngineParity`, `OrderBookProofs` |
| `Gateway` | the snapshot chain, pipes, resolvers, timeouts, exits | |
| `GatewayProofs` | chain, pipes, resolvers, books compared: theorems | extends `Gateway` |
| `MC...` | symmetry sets and order sets for TLC | extends its module |

**ConcurrentQueue.** Each access to shared memory is an action: `PushStart` (load of the
cursor), `PushReady`/`PushFull`/`PushBehind` (load of the sequence, one action per sign of
`diff`), `PushReload`, `PushClaim`/`PushClaimFails` (the exchange; a weak one may fail for
no reason), `PushWrite`, `PushPublish`, and the same for pops. `pc`, `pos` and `item` are
the locals of the call. With `StaleLoads` a plain load may return any value its variable
has ever held; that contains every execution the memory model allows as long as the cell
data is free of races, which is itself a checked property. Cursors are unbounded naturals:
2^64 pushes are out of reach of any run of the program.

**HazardPointerDomain.** Each probe of a slot, each exchange and each store is an action,
so a scan interleaves with readers slot by slot. `allocated` is the set of live nodes and
an address may be handed out again. A writer that is done retires the last node while
readers may still run (`Finish`), and when all threads have joined the domain is destroyed
(`Destroy`), which deletes what is left. With `StoreBuffering` a reader's release stores wait
in a buffer, as on x86, and a read-modify-write waits until the buffer is empty.

**OrderBook, RustOrderBook.** One thread owns a book, so an operation is one action; the
matching loops are folds over levels and orders. In the C++ book a node is named by the
timestamp of its order, `smr` is the set of retired and undeleted nodes, and cleaning up
behind a sweep tells the nodes `std::remove_if` overwrites from those that are retired.
Quantities are counted modulo `QuantityModulus` (2^64 in the code), so totals wrap.
`const` snapshots are operators.

**Pipeline.** The steps of `ConcurrentQueue` with the matching thread of
cpp/benches/concurrent_order_book_benches.cpp:15-57: `Offer` and `Push` are a producer's
call, `Pop` the consumer's, and `Match` adds the order it brought to the book. `claimed`
records the orders in the order of their exchanges, `matched` those the book has seen.

**CppEngine, RustEngine.** A line is what the two make of it: its action, its orders, and
where it ends (`whole`, `array` for a batch cut after its array, `cut`). A field of an
order is `Absent` when it is missing or not a number of its type. `Begin` is the arrival
of a line, and each disjunct of `Step` is one way through the loop: an order applied
(`Submit`), or an answer (`Answer`: an error, a batch result, a snapshot, or nothing). The
C++ parser searches a line for the keys it needs (`Reads`, `Parses`) and stops at the first
order it cannot read or the book refuses; the Rust engine parses the whole line first and
gives every missing field a default (`OrderOf`). Prices are the decimals of the line, in units
of 1/`Grain` cent, so that the Rust engine's rounding (`Cents`) has something to round. The
double that stands for a price lies so close to it that it rounds to the same cent, unless the
price is half a cent (`HalfCent`): then it depends on the digits of the price whether its double
lies below, above or on the half, and whether its product with 100 does. `RoundsUp` holds the
half cents that the Rust engine takes up, and is any set. `Record` keeps the
watermarks, with every time from `Latencies` a batch may take.

**EngineParity.** `Send` gives both the same line; between lines a replay may cancel or
modify the same order in both books. The two share nothing but the line, so of all
interleavings of their steps, which differ in nothing, the model has the one in which the
Rust engine works once the C++ engine has answered. `Acknowledged` says that both answered,
alike, and not with an error; nothing is sent after a line that was not acknowledged, since
then the answers already tell that the books may differ. `CentsApart` is an assumption on
the senders: no two prices in play fall on the same cent. The gateway sends whole cents
(server.js:336), for which that always holds. The C++ book keeps doubles and rounds when it
prints (`Printed`, main.cpp:24-28), by the exact value and to even from the half; `PrintsUp`
holds the half cents printed up. `HalvesAssumption`, that these are some of `RoundsUp`, is all
that is assumed of the two roundings: a double above the half, or on it, has a product with 100
that is not below the half, since floating-point multiplication is monotonic and the half itself
is a double, and `round` takes halves up. `SnapshotsAgree` lets a level at half a cent be
printed a cent lower, and nothing else; `SnapshotsIdentical` is the strict comparison.

**Gateway.** What runs between two awaits is one action. `stdin` holds what was written
and not read: the first `PipeLimit` commands are in the pipe, the rest in Node's buffer.
`write()` returns false from `HighWater` buffered commands on, or on a destroyed stream.
A call is `queued`, waits in stage `batch` or `snapshot`, and is `resolved` or `rejected`;
a rejected call of a client ends the gateway, since Node ends a process on an unhandled
rejection. An engine that ended is first `ended` (a write then fails with EPIPE, an error
event nobody handles) and `gone` when Node has seen it and destroyed the stream. What
Node does with streams and rejections is taken from its documented behaviour, not from
the repository.

## 3. The runs

| Run | Question | Instance |
|---|---|---|
| `cq_races` | do threads meet in a cell, is a cell lost, does the proof's invariant hold | 2 producers, 2 consumers, 2 cells, 4 pushes, stale loads |
| `pipeline` | does the ring implement the bounded FIFO, with exact reasons for refusals; where is an order on its way; is every order matched once, in order, and in the end; is quantity conserved | 2 producers, 1 matching thread, 2 cells, 4 pushes, a seller of two and a buyer of one |
| `hp_one_writer` | is a node in use ever deleted, up to the end of the domain; does `ProtectionInv` hold | 2 readers, 1 writer, 4 addresses, 2 slots, threshold 2 |
| `hp_two_writers` | overlapping scans: nodes lost or deleted twice, count, garbage | 1 reader, 2 writers, 6 addresses |
| `hp_slots` | are slots exclusive, does `acquire_slot` always find one; do `SlotInv` and `SearchInv` hold | 4 readers, 4 slots, buffered stores |
| `hp_store_buffers` | finding 1 | 1 reader, 1 writer, buffered stores |
| `ob_book` | priority, totals, reclamation, order and depth cut | 3 prices, depth 2, 2 trades per order, 4 orders, an invalid order, modifies to zero |
| `parity_valid` | do engines that acknowledged every line agree in snapshots, trades and answers; are the C++ watermarks exact | prices on and off the cent grid and at half a cent, lines that are cut, odd, unknown or blank, orders that lack a field, depth 2, 3 orders, batches of 2 |
| `parity_zero_order` | finding 2 | 2 prices |
| `gw_rounds` | answers, one round at a time, comparable snapshots, the three invariants behind them; does every call end while the engines run | stream and a client, 3 calls, engines may end |
| `gw_exit`, `gw_slow` | findings 3, 4 | 2 calls |

**Why the bounds are enough.** Four pushes through two cells are two laps, so that
positions, sequences and stale loads of an earlier lap meet later ones; that result does
not depend on the bound at all, since it is proved (section 5). The hazard pointer runs
have a slot per reader, a threshold of two and one address more than can be alive at a
time plus those that wait, so that addresses are reused while old pointers to them are
around. Four orders fill two levels with two makers at one of them and sweep across both;
depth 2 and three prices make the cut drop a new level as well as an old one; a batch of
two trades overflows with three makers; quantities 1 and 3 modulo 4 make totals wrap.
`MCOrders` gives orders of one quantity the same id, so that ids repeat. Large
buys at the lowest price and large sells at the highest are left out: they sweep nothing. In `parity_valid`
four units make a cent (`Grain`): price 1 is no cent, 4 is one, 5 rounds to the cent of 4, and 6
and 10 are one and a half and two and a half cents, of which the C++ engine prints the second up
and the first down, and the Rust engine takes both up: what the two do with 0.015 and 0.025. In
behaviours without 4 a rounded level meets orders at exact prices, and in those with 4 and 6
the C++ engine prints two levels with one price. Orders that sweep the other side have the larger quantity, and `MCOddLines`
has one line for each branch of the two parsers. In `pipeline` four orders are two laps of
the ring, and a seller of two and a buyer of one leave remainders on either side. Three calls of
the gateway are one in flight, one queued behind it, and one whose answers came too late;
`PipeLimit` 1 and `HighWater` 1 make `write()` return false in the second call.
`Quantities`, `NewQuantities`, `Prices`, `Latencies`, `OddLines`, `MaxOrders`, `MaxClaims`,
`MaxCalls`, `MaxBatch`, `Nodes` and `BufferLimit` are the bounds; each module marks them.
Runs with `CHECK_DEADLOCK FALSE` are those of the gateway, which stops when `MaxCalls` calls
are settled or it has crashed; of the hazard pointer domain with writers, which ends with
its destruction; and of parity, where nothing follows a line that was not acknowledged.

**Fairness.** `Pipeline!PipelineFairness`: producers inside a call keep running; the matching
thread calls `try_pop` for ever and adds what it popped, as in the benchmark; a consumer
that retries its exchange again and again finally succeeds (strong fairness of `PopClaim`), since a
weak exchange does not fail for no reason for ever. Nobody has to push. Fairness of the
producers is needed: one that the operating system suspends between its exchange and its
release store hides every later order. `Gateway!GatewayFair`: the event loop runs what is
ready, timers fire, exits are noticed; `FairSpec` adds that engines serve what they read.
No call ever has to be made. `gw_rounds` assumes `FairSpec`, and its liveness property
only speaks of behaviours in which no engine ends; `gw_exit` assumes `GatewayFair` alone.

## 4. Findings

1. **Hazard pointers** (`hp_store_buffers`). `protect` is a release store
   (low_latency.h:359) which the reader's validating load may overtake; the writer then
   deletes the node in use, against README.md:67. The book calls the domain from one
   thread and is not affected; the stress test is.
2. **Parity** (`parity_zero_order`). An order of quantity zero ends the batch in the C++
   engine and not in the Rust engine; the books part for good, against
   copilot-instructions.md:28 (`GoldenSnapshots`). The answers do tell: one is an error.
3. **Gateway** (`gw_exit`). The timeout of a command starts after its write has drained
   (server.js:241). A write to an engine that ended never drains: that call and the whole
   chain wait for ever, against "bounded command timeouts" (web-dashboard/README.md:15).
4. **Gateway** (`gw_slow`). A timeout in a round a client asked for is an unhandled
   rejection, which ends the gateway, against web-dashboard/README.md:17.

Noted while modelling, without a run of their own:

- The queue is lock-free for callers that only compare cursors, but a producer suspended
  between lines 34 and 46 makes `try_pop` answer "empty" although later pushes succeeded.
- `std::remove_if` (order_book.cpp:62) deletes filled nodes that stand before survivors
  without the hazard pointer domain README.md:67 speaks of; `upsert` does the same with a
  level it cuts off (order_book.h:144). `RetiredByCleanup` models the first.
- After a modify to quantity zero the Rust book records a trade of quantity zero where the
  C++ book records none. `NewQuantities` leaves zero out of `parity_valid` for that reason.
- A batch line that is cut after an order is an error to both engines, but the C++ engine
  has applied the orders before the cut and the Rust engine none. A line with an unknown or
  missing action gets an error from the C++ engine and no answer from the Rust engine, whose
  caller would wait for its timeout. An order without a side is a buy to the Rust engine, any
  side but "buy" is a sell, and a missing number is zero; the C++ engine refuses such orders.
  In all these cases the answers differ or are errors, which is what `SameAnswers` checks.
- Two prices that round to the same cent are one level of the Rust book and two of the C++
  book, with both engines acknowledging every line; `CentsApart` excludes it.
- A level at half a cent can be shown with two prices: 0.015 is 0.01 in a C++ snapshot and 0.02 in
  a Rust one, 100.125 is 100.12 and 100.13, with both engines acknowledging every line and
  nothing else different. The snapshots are then not identical, against
  copilot-instructions.md:28, and server.js:401 would count a mismatch. With
  `SnapshotsIdentical` in the place of `SnapshotsAgree`, `parity_valid` fails at the first
  order at price 6.
- An order with more makers than a trade batch holds (512) applies its fills in the C++
  book, reports none of them and does not rest; the Rust book has no limit.
  `MaxTradesPerOrder` is large enough in `parity_valid`.

The orders the gateway generates are valid, have a quantity of at least 50 and are never
modified, so these differences between the engines concern other users of them.

## 5. What is proved

Each theorem holds for every value of the constants its module's assumptions admit. Those
assumptions are the only ones, except where the table says more. The invariants named here
are also properties of a run, so that a reader can see TLC break them when the code is
changed.

| Theorem | Says |
|---|---|
| **Queue**: any producers and consumers, capacity from 2 on, pushes, with or without stale loads | |
| `TypeCorrect` | `[]TypeOK` |
| `CursorsAgree` | `[]CursorInv`, the inductive invariant |
| `NoRaces` | `[]NoCellRace` |
| `NothingLeaks` | `[]ExactAtRest` |
| `ImplementsFifo` | `Spec => FifoPromise`: the ring implements `BoundedQueue` |
| **Hazard pointers**: any readers, writers, addresses, slots, threshold, width of the count | |
| `TypeCorrect` | `[]TypeOK` |
| `NodesAccountedFor` | `[]EveryNodeAccountedFor` |
| `CountStaysBalanced` | `[]CountBalances` |
| `GarbageStaysBounded` | `[]GarbageBounded`, if `~StoreBuffering` and the count cannot wrap all the way round (`CountFits`) |
| `SlotsHaveOneOwner` | `[]SlotInv` |
| `SlotsAreExclusive` | `[]SlotsExclusive`, with and without store buffers |
| `SearchersCrowdBehind` | `[]SearchInv` |
| `SearchesSucceed` | `[]NeverTerminates` |
| `GuardsProtect` | `[]ProtectionInv`, if `~StoreBuffering` |
| `NoReaderUsesFreedNode` | `[]NoUseAfterFree`, if `~StoreBuffering` |
| **C++ book**: any orders, ids, prices, quantities, modulus, depth limit, batch size, number of orders, retire threshold from 2 on | |
| `TypeCorrect` | `[]TypeOK` |
| `BookIsNeverCrossed` | `[]WellFormed` |
| `LevelTotalsAreExact` | `[]TotalsExact` |
| `PriorityIsTime` | `[]TimePriority` |
| `RetiredNodesAreUnreachable` | `[]RetiredUnreachable` |
| `FillsInPriorityOrder` | `FillsFollowPriority`: every list of trades is the one price-time priority prescribes |
| `QuantityIsConserved` | `QuantityBalances`: at each price the makers lose what is traded there; what does not trade rests, unless its price is beyond the depth limit |
| **Pipeline**: the queue's constants, one matching thread (`MatcherAssumption`), any book | |
| `PipelineIsFifo` | `FifoPromise` of the ring with the book behind it |
| `NoOrderIsLost` | `[]OrdersInTransit` |
| `BookFollowsTheRing` | `[]MatchedInOrder` |
| `PipelineConservesQuantity` | `[]QuantityConserved` follows from `[]MatchedInOrder`, as long as `add_order` returns no error, if producers and consumers differ (`RolesApart`) and a side has room for a level of every price (`PricesFit`) |
| **Parity**: any orders, odd lines, prices and grain, half cents, depth limit, batch size, latencies; no modify to zero (`0 \notin NewQuantities`) but for the last | |
| `SnapshotsStaySame` | `[]SameSnapshots` |
| `SnapshotsStayIdentical` | `[](Acknowledged => SnapshotsIdentical)`, if no price lies at half a cent |
| `TradesStaySame` | `[]SameTrades` |
| `AnswersStaySame` | `[](reply.error # "trade_batch_overflow" => SameAnswers)` |
| `WatermarksStayExact` | `[]WatermarksExact` |
| **Gateway**: any clients, number of calls, pipe limit, high-water mark | |
| `TypeCorrect` | `[]TypeOK` |
| `OneCallInFlight` | `[]OneInFlight` |
| `PipesKeepOrder` | `[]PipesInOrder` |
| `ResolversKeepOrder` | `[]ResolversMatch` |
| `AnswersReachTheirCalls` | `[]AnswersMatch` |
| `BooksKeepAge` | `[]BooksAgree` |
| `ComparedSnapshotsAgree` | `[]SnapshotsComparable` |

**Queue.** `NoCellRace` is not inductive: that the next producer cannot enter a cell
follows from the cell's sequence, and what the sequence may be follows from who is inside
and how far the cursors are apart. `CursorInv` says it all at once:

- `Window`: the cursors are at most `Capacity` apart;
- `FillersInWindow`, `DrainersInWindow`, `FillersApart`, `DrainersApart`: the threads
  between their exchange and their release store have different positions, and these lie
  within a lap of the cursors;
- `UsedCells`, `FreeCells`: the sequence of each cell of the window is what its position
  says, except that it lags by one step exactly while a thread is inside;
- `PassedCells`, `LoadsAreFloors`: an old load is a lower bound of the sequence. It is what
  makes stale loads harmless: a thread that goes for its exchange with an old sequence
  either finds the cursor moved on, or the cell is still as it saw it.

The proof has one lemma per action that moves a cursor or a sequence (`CursorPushClaim`,
`CursorPushPublish`, `CursorPopClaim`, `CursorPopRelease`) and one for all others
(`CursorQuiet`). The arithmetic of the ring is in `IndexPeriod`, `IndexApart`,
`WindowApart`. `ImplementsFifo` maps an exchange to `Enqueue` or `Dequeue`, the steps that
leave a call to `Refuse`, `FindNothing` or `Return`, and everything else to a stutter; the
order of a position is taken from the producer still on its way with it and otherwise
from the cell (`OrderAt`). With stale loads the abstract queue may refuse a call for no
visible reason (`Precise <- ~StaleLoads`); with fresh ones the reasons are exact.

**Hazard pointers.** Six invariants, each proved from the ones before it.

- *Nodes.* `EveryNodeAccountedFor` is inductive next to two facts on the locals of a
  writer: it has a node in its hands exactly between taking and retiring or judging it
  (`HandsFull`), and a list of its own only while it scans (`ListsTaken`).
- *The count.* `retired_count_` is added to and subtracted from by writers that are not in
  step with the list, so it differs from the length of the list by what each writer still
  owes it or has taken and not yet returned. The proof moves one writer's share at a time:
  both sides of `CountBalances` change alike, modulo the width of the counter, and a sum over
  a finite set does not depend on the order of its members (`FoldLemmas`).
- *Slots.* A slot that is given back stays active until the store arrives, and that store
  is the last in the buffer (`FreeingStoreLast`); so `Owns` covers the buffered case, and
  `active[s]` says exactly that somebody owns `s` (`SlotInv`).
- *Searching.* `acquire_slot` reads each flag once, at different times, so no single state
  shows a free slot ahead. What is inductive is a count: behind a reader that searches at
  slot `i` stand at least `i` others, by `Position` (`SearchInv`). A reader that
  frees its slot moves back, which only helps the others; one that finds slot `i` taken and
  moves on leaves behind it whoever it had there, and the owner of slot `i`, so that `i + 1`
  are behind it and behind anybody who was at slot `i + 1` before it. At the last slot that
  would make as many others as there are slots, which is more than there are.
- *Protection.* Without store buffers a hazard is in its slot when its reader finds the
  pointer still published (`ProtectionInv`, first part). The second part is about scans: a
  node is retired after it was published last, so a scan that looks at it began later, and
  it has not passed the reader's slot, or it would have kept the node.

- *Garbage.* A scan keeps a node only because a reader shows it, in a slot or in a pointer
  it loaded before, and readers load published nodes, which are in no list. So what a scan
  may still keep (`Pinned`) only shrinks, and with what it left in the list it is at most two
  nodes for each reader. A scan takes the whole list, so only the last scan of each writer
  has survivors there; what no scan has left is below the threshold (`Few`) unless somebody
  is about to count or to scan, because the count is exact when nobody has yet to count.

**C++ book.** None of `WellFormed`, `TimePriority` and `RetiredUnreachable` is inductive on
its own: that an order joins the one level of its price needs that levels are sorted, that it
joins it last in time needs that no arrival lies in the future, and that a retired node is
gone from the book needs that no node is at two places. `BookInv` says it all at once, and the
five invariants of the run `ob_book` follow:

- `SideOK`: the levels of a side are sorted, not empty, exact and in arrival order, and
  there are at most `MaxDepthLevels` of them;
- `NodesApart`: all nodes in terms of `Marks`, the pairs of a price and an arrival at each
  side: every bid below every ask, no arrival twice on a side, on both sides or in `smr`, and
  none from the future;
- fewer than `RetireThreshold` nodes in `smr`, and no more trades than a batch holds.

A step then takes a side to one with fewer marks (`AroundShrunk`: sweeps, cancels), one with
the same marks (modifies), or one with a mark of the present arrival (`AroundGrown`: a new
order), and each lemma about an operator says which marks are left. An order that rests does
not cross because its sweep was not finished: what `MatchOrder` leaves of the other side
while the order has quantity left does not cross it (`MatchOrderSwept`).

Matching is two nested folds, and what a fold computes is shown by induction on the
sequence, which the provers cannot take from the library. `FoldLemmas` cuts a fold into the
finite list of its intermediate results, its run (`FoldRuns`): each is the step applied to
the one before, and the last is the value of the fold. An invariant of a run holds at every
place, because the set of the places where it fails would have a least member
(`LeastNumber`, `UpTo`), which is neither the first place nor behind a place where it holds. So
`QuantityRuns`, `MakersRuns`, `MatchMakersRuns` and `MatchOrderRuns` introduce the runs, and
`GivenNext` and `SweepNext` are the steps of the two invariants that matter: within a level,
what the makers have given so far is what the taker and the level's total have lost; across
levels, those passed are sound, their marks are among the marks of before, and what is
retired is no longer among them. Remainders (`RemainderAdd`, `RemainderBelow`) carry the sums
across `uint64_t` totals that wrap.

**Trades.** `FillsFollowPriority` compares a fold with a definition of another shape.
`PriorityTrades` says what a taker should get without any loop: the crossing orders of the
other side are its `Offers`; `Ahead` ranks them by price and then arrival; an offer gives
what the offers ahead of it have left of the taker's quantity, at most its own (`Share`); and
the trades are those shares, listed by `Rank`. The proof walks the runs of the two folds and
keeps that the makers passed are the foremost offers, that what was traded with each is its
share, and that what is left of the order is its quantity less their supply. Since ranks are
unique, the list that has an offer of rank `i` at place `i` is that of the definition, cut
or dropped where a batch of trades is full.

**Conservation.** `QuantityBalances` says where an order's quantity goes: what it traded at a
price is what the makers of that price no longer have, and the rest rests at its own price or
was cut with the worst price of a side that is full. `Conserved` follows the remaining
quantity through both folds: what is traded and what is left make up the order. For the
makers, what was traded at a price and what the makers passed have left is what they had
(`MakersTaken`, within a level), and across levels what the kept levels, those still to come
and the trades have at a price is what was there before (`SweepBalances`).
What is left joins the one level of its price, which grows by it, or forms a level, which
`upsert` cuts off if there are more than `MaxDepthLevels`; with levels sorted, the price at
place `i` is the one that has `i - 1` better ones, so the levels kept are the best of the
joined side (`TopRests`).

**Pipeline.** `Pipeline` extends the queue, so its steps are steps of the ring or leave
the ring alone (`PipelineRunsTheRing`), and all that was proved of the ring carries over.
`OrdersInTransit` then says where each order is between its exchange and the book: in the
cell or with its producer as long as its position is in the window, with the consumer
after that. It needs that there is one consumer (`OneMatcher`), as in the benchmark.

`PipelineConservesQuantity` is about the book at the end of the ring. A full side cuts its
worst level, and an order that `add_order` refuses, or whose trades do not fit in a batch, is
dropped with its error, so quantity is conserved only where neither happens: the theorem says
so in its hypotheses, and the run's instance meets them. Its module extends that of the book's
proofs, with the pipeline as an instance; the lemmas `Same...` say that the instance's book is
that book. The other hypothesis, `[]MatchedInOrder`, is the theorem `BookFollowsTheRing`, which
the provers cannot cite through an instance. The argument: per price, an order adds what it
does not trade to its side (`AddRests`) and takes what it trades from the other (`AddTrades`);
summed over the finitely many prices, what rests grows by the order's quantity less twice what
it trades (`AddConserves`); so what was handed over is what rests and twice what was traded
(`Filled`), and by `MatchedInOrder` what was handed over is the first part of what was pushed.

**Parity.** The two books keep their levels in different ways: one in a sorted sequence that
is walked and rebuilt, the other in a map from cents to levels whose keys are walked in order,
with emptied levels removed at the end, makers taken from the front and put back, and the depth
cut after an order has joined and not before. `Twins` relates them: each C++ side is sound
(`SideOK`), no order in it has quantity zero (`FullSide`), and the map has the same levels, in
cents and without timestamps (`Mirrors`). The prices in play are on different cents
(`Distinct`), which `CentsApart` gives of the senders; rounding then keeps their order
(`CentsOrdered`, whichever halves go up), and there is one way to walk a finite set in order (`OneOrder`), so both
engines walk the same levels (`WalkIs`). Each fold of one book is followed by that of the other:

- `MakerAlike`, `MakersAlike`: one maker and one level, where the Rust book drops a filled maker
  at once and the C++ book at the end of the level;
- `LevelAlike`, `SweptAlikeNext`, `SweepAlike`, `MatchOrderAlike`: the levels that cross;
- `WithAlike`, `EnteredAlike`, `PruneAlike`, `RestAlike`: what rests, and the depth cut;
- `AddAlike`, `CancelTwins`, `ModifyTwins`: the operations, and `SnapshotsAlike`: what is shown, in cents.

`SnapshotsShow` compares what is printed: by `PrintedNear` the C++ engine prints the cent of the
Rust engine, or the one below for half a cent.

`FullSide` is where a modify to zero must be excluded: such a maker trades in one book and not
in the other (section 4). `EngineInv` lifts this to the engines. The Rust engine starts on a line
when the C++ engine is done with it, so between them lies a run of Rust books (`Leads`): the
first is the one it has, each next one adds the order the C++ book has taken and it has not, and
the last is the twin of the C++ book of now. A step of the C++ engine adds a book to the end of
the run, a step of the Rust engine takes one from the front, and when both have acknowledged the
line the run has one book. `CppAnswered` and `RustAnswered` say which answers each kind of line
can get, so that equal answers mean that each engine is done with all of its orders. After
an error of the C++ engine nothing is said of the books: it is enough that the line was not
proper, or that a trade batch overflowed, which is the one disagreement on proper lines, and the
exception in `AnswersStaySame`. TLC checks the four invariants and not `EngineInv` itself, which
quantifies over all sets of prices and all runs.

**Gateway.** An answer is given to the resolver at the head of a queue, and answers and
resolvers carry nothing in common but their order. The proof goes along that order: calls
run one after the other (`CallsInOrder`, an invariant of the proof that no run checks), so commands and answers in the two pipes are
ordered by call, a batch before its snapshot (`PipesInOrder`); the resolvers are those of
the answers to come, in the same order (`ResolversMatch`), and when an engine has ended those
that will never be called are behind all others. So the head of the queue belongs to the
next answer (`AnswersMatch`). `BooksAgree` adds what an engine has applied: the batches of
all calls up to some number, with the rest of those sent in its pipe; `SnapshotsComparable`
is its last line.

**Only model-checked.** All safety properties of the passing runs are stated by a theorem. Left
to TLC are

- the liveness properties `EveryOrderMatched` and `CallsSettleWhileEnginesRun`: TLAPS does not
  prove liveness under fairness or reason about `ENABLED`;
- the hypothesis `[]MatchedInOrder` of `PipelineConservesQuantity`, which is proved, but in
  a module that cannot be cited through an instance;
- `SameAnswers` without its exception: `parity_valid` has room for every trade.

## 6. What is not modelled

- Moving a guard: it changes nothing the threads share.
- `inplace_vector` and `expected`: a bounded sequence and an error in `OrderBook`.
  `LatencyWatermarks` with concurrent `record`s: the engine calls it from one thread, and
  that is what `CppEngine` has.
- The text of a line: the parsers are modelled by which keys, orders and end they find, not
  character by character. Prices that share a cent (see the notes above) and prices whose
  cents do not fit a `u64`. The latency extremes of the Rust engine, which are two plain
  locals.
- In the gateway: generated prices, metrics, static answers, shutdown, and answers of type
  error, after which all later answers would go to the wrong calls. The gateway's own
  orders cause none: `SameAnswers` says that proper lines are acknowledged.
- The dashboard page (its trade tape is planned), the Rust wrapper of crossbeam's queue,
  the market simulator, the other benchmarks, build files and vendored code.

## 7. The plan

Done, in this order: queue and its promise, queue proofs, refinement proof, hazard pointer
domain, C++ book, Rust book and parity, gateway, end of the hazard pointer domain, engine
loops and parity at the level of lines, pipeline; then the proofs of the hazard pointer
domain, the gateway, the pipeline and the C++ book, its trades and its depth cut, and of the
quantity that passes through the pipeline, and of the parity of the two engines.

Next modules:

1. `Gateway` with answers of type error, composed with the engines' loops, and the mismatch
   counters of server.js:380-404.
2. `TradeTape`: server.js:350-366 and dashboard.js:159-178, duplicates and the order of
   trades across snapshots and updates.
3. `Watermarks`: low_latency.h:266-307 under concurrent `record` and reads, as a
   refinement of an atomic minimum and maximum.

Next theorems:

1. `Watermarks`: the refinement.
2. Parity with two prices on one cent left out of the senders' assumption: which snapshots
   still agree.
