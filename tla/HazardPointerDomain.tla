------------------------ MODULE HazardPointerDomain ------------------------
(***************************************************************************)
(* cpp/src/low_latency.h, HazardPointerDomain, driven as in                 *)
(* cpp/tests/low_latency_stress.cpp:121-165: readers dereference the node   *)
(* an atomic pointer "published" designates, under the protection of a      *)
(* guard; writers replace that node, retire the old one and scan.  The      *)
(* allocator may hand a freed node out again.                               *)
(*                                                                          *)
(* Memory order.  protect, clear and release are plain release stores; the  *)
(* reader's next load of published may overtake them on a machine with      *)
(* store buffers (x86).  StoreBuffering says whether that is modelled: a    *)
(* reader's stores wait in a buffer, in order, and reach memory later; a    *)
(* read-modify-write waits for the buffer to drain.                         *)
(***************************************************************************)
EXTENDS Integers, Sequences, FiniteSets, SequencesExt, FiniteSetsExt, Functions

CONSTANTS Readers,          \* threads that hold at most one guard at a time
          Writers,          \* threads that replace, retire and scan
          Nodes,            \* BOUND: the addresses the allocator can return
          Null,             \* nullptr
          Slots,            \* number of hazard slots
          RetireThreshold,  \* retire scans once this many nodes are retired
          CountModulus,     \* retired_count_ is counted modulo this (2^64)
          StoreBuffering,   \* TRUE: a reader's stores are buffered
          BufferLimit       \* BOUND: stores a reader's buffer can hold

ASSUME SlotsAssumption == Slots \in Nat \ {0}
ASSUME ThresholdAssumption == RetireThreshold \in Nat \ {0}
ASSUME ModulusAssumption == CountModulus \in Nat /\ CountModulus > RetireThreshold
ASSUME NodesAssumption == IsFiniteSet(Nodes) /\ Nodes # {} /\ Null \notin Nodes
ASSUME ThreadsAssumption ==
    Readers \cap Writers = {} /\ IsFiniteSet(Readers) /\ IsFiniteSet(Writers)
ASSUME BufferAssumption == StoreBuffering \in BOOLEAN /\ BufferLimit \in Nat \ {0}

SlotIds == 0..(Slots - 1)

VARIABLES published,      \* the shared pointer of the client
          allocated,      \* the nodes that are alive
          hazards,        \* hazards_: slot -> protected node or Null
          active,         \* active_: slot -> in use
          retired,        \* the list at retired_head_, head first
          retired_count,  \* retired_count_
          pc,             \* thread -> its next step
          slot,           \* reader -> slot tried, and then slot held by its guard
          node,           \* reader -> the pointer it loaded; writer -> the node it
                          \*   retires, or the one of its list it looks at
          buffer,         \* reader -> its stores that have not reached memory
          mine,           \* writer -> the rest of the list it is scanning
          probe,          \* writer -> the slot contains_hazard looks at next
          dropped         \* writer -> scanned - still_retired

domain == <<hazards, active, retired, retired_count>>
readerVars == <<slot, buffer>>
writerVars == <<mine, probe, dropped>>
vars == <<published, allocated, hazards, active, retired, retired_count,
          pc, slot, node, buffer, mine, probe, dropped>>

Init ==
    /\ published \in Nodes
    /\ allocated = {published}
    /\ hazards = [s \in SlotIds |-> Null]
    /\ active = [s \in SlotIds |-> FALSE]
    /\ retired = <<>>
    /\ retired_count = 0
    /\ pc = [t \in Readers \cup Writers |-> "idle"]
    /\ slot = [r \in Readers |-> 0]
    /\ node = [t \in Readers \cup Writers |-> Null]
    /\ buffer = [r \in Readers |-> <<>>]
    /\ mine = [w \in Writers |-> <<>>]
    /\ probe = [w \in Writers |-> 0]
    /\ dropped = [w \in Writers |-> 0]

Goto(t, from, to) ==
    /\ pc[t] = from
    /\ pc' = [pc EXCEPT ![t] = to]
-----------------------------------------------------------------------------
(* Stores of a reader: to its hazard slot, and to the active flag of its slot. *)

Perform(store) ==
    IF store.to = "hazard"
    THEN hazards' = [hazards EXCEPT ![store.slot] = store.value] /\ UNCHANGED active
    ELSE active' = [active EXCEPT ![store.slot] = store.value] /\ UNCHANGED hazards

Store(r, to, value) ==
    LET store == [to |-> to, slot |-> slot[r], value |-> value]
    IN  IF StoreBuffering
        THEN /\ Len(buffer[r]) < BufferLimit
             /\ buffer' = [buffer EXCEPT ![r] = Append(@, store)]
             /\ UNCHANGED <<hazards, active>>
        ELSE Perform(store) /\ UNCHANGED buffer

\* The oldest buffered store of r reaches memory.
Drain(r) ==
    /\ buffer[r] # <<>>
    /\ Perform(Head(buffer[r]))
    /\ buffer' = [buffer EXCEPT ![r] = Tail(@)]
    /\ UNCHANGED <<published, allocated, retired, retired_count, pc, slot, node,
                   mine, probe, dropped>>
-----------------------------------------------------------------------------
(* A reader: make_guard, protect until the pointer is still published, use, ~Guard. *)

\* Mutation: the search for a slot goes on where the last one ended.
MakeGuardOnward(r) ==
    /\ Goto(r, "idle", "acquire")
    /\ UNCHANGED <<published, allocated, domain, node, readerVars, writerVars>>

MakeGuard(r) ==
    /\ Goto(r, "idle", "acquire")
    /\ slot' = [slot EXCEPT ![r] = 0]
    /\ UNCHANGED <<published, allocated, domain, node, buffer, writerVars>>

\* acquire_slot: one compare-exchange.
\* Mutations: the exchange also succeeds on a slot in use; a load and a store take its place.
AcquireSlotUnseen(r) ==
    /\ Goto(r, "acquire", "load")
    /\ active' = [active EXCEPT ![slot[r]] = TRUE]
    /\ UNCHANGED <<published, allocated, hazards, retired, retired_count,
                   node, readerVars, writerVars>>

AcquireSlotUnfenced(r) ==
    /\ Goto(r, "acquire", "load")
    /\ ~ active[slot[r]]
    /\ active' = [active EXCEPT ![slot[r]] = TRUE]
    /\ UNCHANGED <<published, allocated, hazards, retired, retired_count,
                   node, readerVars, writerVars>>

AcquireSlot(r) ==
    /\ Goto(r, "acquire", "load")
    /\ buffer[r] = <<>>
    /\ ~ active[slot[r]]
    /\ active' = [active EXCEPT ![slot[r]] = TRUE]
    /\ UNCHANGED <<published, allocated, hazards, retired, retired_count,
                   node, readerVars, writerVars>>

\* The slot is in use: try the next of n slots, or terminate the process.
TryNextSlot(r, n) ==
    /\ pc[r] = "acquire"
    /\ buffer[r] = <<>>
    /\ active[slot[r]]
    /\ IF slot[r] + 1 < n
       THEN slot' = [slot EXCEPT ![r] = @ + 1] /\ UNCHANGED pc
       ELSE pc' = [pc EXCEPT ![r] = "terminated"] /\ UNCHANGED slot
    /\ UNCHANGED <<published, allocated, domain, node, buffer, writerVars>>

\* Mutation: the loop over the slots stops before the last one.
SlotTakenEarly(r) == TryNextSlot(r, Slots - 1)

SlotTaken(r) == TryNextSlot(r, Slots)

LoadPublished(r) ==
    /\ Goto(r, "load", "protect")
    /\ node' = [node EXCEPT ![r] = published]
    /\ UNCHANGED <<published, allocated, domain, readerVars, writerVars>>

Protect(r) ==
    /\ Goto(r, "protect", "validate")
    /\ Store(r, "hazard", node[r])
    /\ UNCHANGED <<published, allocated, retired, retired_count, slot, node, writerVars>>

\* Mutation: the reader trusts its first load.
ValidateNever(r) ==
    /\ Goto(r, "validate", "use")
    /\ UNCHANGED <<published, allocated, domain, node, readerVars, writerVars>>

Validate(r) ==
    /\ pc[r] = "validate"
    /\ pc' = [pc EXCEPT ![r] = IF published = node[r] THEN "use" ELSE "load"]
    /\ UNCHANGED <<published, allocated, domain, node, readerVars, writerVars>>

\* The dereference of the node is over; ~Guard runs release, that is clear ...
Clear(r) ==
    /\ Goto(r, "use", "release")
    /\ Store(r, "hazard", Null)
    /\ node' = [node EXCEPT ![r] = Null]
    /\ UNCHANGED <<published, allocated, retired, retired_count, slot, writerVars>>

\* ... and the store that gives the slot back.
Release(r) ==
    /\ Goto(r, "release", "idle")
    /\ Store(r, "active", FALSE)
    /\ UNCHANGED <<published, allocated, retired, retired_count, slot, node, writerVars>>
-----------------------------------------------------------------------------
(* A writer: replace the published node and retire the old one. *)

Replace(w) ==
    /\ Goto(w, "idle", "push")
    /\ published # Null
    /\ \E fresh \in Nodes \ allocated :
          /\ allocated' = allocated \cup {fresh}
          /\ published' = fresh
    /\ node' = [node EXCEPT ![w] = published]
    /\ UNCHANGED <<domain, readerVars, writerVars>>

\* push_retired: the exchange that succeeds.  The list only grows at its head, so
\* the loads and the failed exchanges before it have no effect.
Prepend(w) ==
    /\ retired' = <<node[w]>> \o retired
    /\ node' = [node EXCEPT ![w] = Null]

PushRetired(w) ==
    /\ Goto(w, "push", "count")
    /\ Prepend(w)
    /\ UNCHANGED <<published, allocated, hazards, active, retired_count,
                   readerVars, writerVars>>

\* retired_count_.fetch_add(1) + 1 >= RetireThreshold, in size_t.
\* Mutation: only the retire that hits the threshold exactly scans.
CountRetiredExactly(w) ==
    /\ pc[w] = "count"
    /\ retired_count' = (retired_count + 1) % CountModulus
    /\ pc' = [pc EXCEPT ![w] = IF retired_count' = RetireThreshold THEN "scan" ELSE "idle"]
    /\ UNCHANGED <<published, allocated, hazards, active, retired, node,
                   readerVars, writerVars>>

CountRetired(w) ==
    /\ pc[w] = "count"
    /\ retired_count' = (retired_count + 1) % CountModulus
    /\ pc' = [pc EXCEPT ![w] = IF retired_count' >= RetireThreshold THEN "scan" ELSE "idle"]
    /\ UNCHANGED <<published, allocated, hazards, active, retired, node,
                   readerVars, writerVars>>

\* scan is public: the stress test calls it between two replacements.
CallScan(w) ==
    /\ Goto(w, "idle", "scan")
    /\ UNCHANGED <<published, allocated, domain, node, readerVars, writerVars>>

ScanTake(w) ==
    /\ Goto(w, "scan", "next")
    /\ mine' = [mine EXCEPT ![w] = retired]
    /\ retired' = <<>>
    /\ dropped' = [dropped EXCEPT ![w] = 0]
    /\ UNCHANGED <<published, allocated, hazards, active, retired_count, node, probe,
                   readerVars>>

ScanNext(w) ==
    /\ pc[w] = "next"
    /\ IF mine[w] = <<>>
       THEN pc' = [pc EXCEPT ![w] = "subtract"] /\ UNCHANGED <<node, mine, probe>>
       ELSE /\ pc' = [pc EXCEPT ![w] = "probe"]
            /\ node' = [node EXCEPT ![w] = Head(mine[w])]
            /\ mine' = [mine EXCEPT ![w] = Tail(@)]
            /\ probe' = [probe EXCEPT ![w] = 0]
    /\ UNCHANGED <<published, allocated, domain, dropped, readerVars>>

\* contains_hazard: one load per slot, for n slots.
ProbeOneOf(w, n) ==
    /\ pc[w] = "probe"
    /\ \/ /\ hazards[probe[w]] = node[w]
          /\ pc' = [pc EXCEPT ![w] = "keep"]
          /\ UNCHANGED probe
       \/ /\ hazards[probe[w]] # node[w]
          /\ IF probe[w] + 1 < n
             THEN probe' = [probe EXCEPT ![w] = @ + 1] /\ UNCHANGED pc
             ELSE pc' = [pc EXCEPT ![w] = "delete"] /\ UNCHANGED probe
    /\ UNCHANGED <<published, allocated, domain, node, mine, dropped, readerVars>>

\* Mutations: contains_hazard leaves out the last slot, or runs past it.
ProbeAllButLast(w) == ProbeOneOf(w, Slots - 1)
ProbeTooFar(w) == ProbeOneOf(w, Slots + 1)

Probe(w) == ProbeOneOf(w, Slots)

\* Mutations: the kept node is not pushed back; it is subtracted all the same.
KeepNowhere(w) ==
    /\ Goto(w, "keep", "next")
    /\ node' = [node EXCEPT ![w] = Null]
    /\ UNCHANGED <<published, allocated, domain, readerVars, writerVars>>

KeepUncounted(w) ==
    /\ Goto(w, "keep", "next")
    /\ Prepend(w)
    /\ dropped' = [dropped EXCEPT ![w] = @ + 1]
    /\ UNCHANGED <<published, allocated, hazards, active, retired_count,
                   readerVars, mine, probe>>

Keep(w) ==
    /\ Goto(w, "keep", "next")
    /\ Prepend(w)
    /\ UNCHANGED <<published, allocated, hazards, active, retired_count,
                   readerVars, writerVars>>

Delete(w) ==
    /\ Goto(w, "delete", "next")
    /\ allocated' = allocated \ {node[w]}
    /\ dropped' = [dropped EXCEPT ![w] = @ + 1]
    /\ node' = [node EXCEPT ![w] = Null]
    /\ UNCHANGED <<published, domain, mine, probe, readerVars>>

\* fetch_sub, skipped when nothing was deleted.
Subtract(w) ==
    /\ Goto(w, "subtract", "idle")
    /\ retired_count' = (retired_count - dropped[w]) % CountModulus
    /\ dropped' = [dropped EXCEPT ![w] = 0]
    /\ UNCHANGED <<published, allocated, hazards, active, retired, node, mine, probe,
                   readerVars>>
-----------------------------------------------------------------------------
(* The end: no node is published any more while readers still run, and then the domain is
   destroyed. *)

\* The last of the writers takes the published node back and retires it.
Finish(w) ==
    /\ \A v \in Writers : pc[v] = "idle"
    /\ published # Null
    /\ published' = Null
    /\ node' = [node EXCEPT ![w] = published]
    /\ pc' = [pc EXCEPT ![w] = "push"]
    /\ UNCHANGED <<allocated, domain, readerVars, writerVars>>

\* The destructor, when every thread is done: what is still retired is deleted.
Destroy ==
    /\ published = Null
    /\ \A t \in Readers \cup Writers : pc[t] = "idle"
    /\ \A r \in Readers : buffer[r] = <<>>
    /\ allocated' = allocated \ ToSet(retired)
    /\ retired' = <<>>
    /\ pc' = [t \in Readers \cup Writers |-> "joined"]
    /\ UNCHANGED <<published, hazards, active, retired_count, slot, node, buffer,
                   mine, probe, dropped>>
-----------------------------------------------------------------------------
ReaderStep(r) ==
    \/ MakeGuard(r) \/ AcquireSlot(r) \/ SlotTaken(r) \/ LoadPublished(r)
    \/ Protect(r) \/ Validate(r) \/ Clear(r) \/ Release(r) \/ Drain(r)

WriterStep(w) ==
    \/ Replace(w) \/ PushRetired(w) \/ CountRetired(w) \/ CallScan(w) \/ ScanTake(w)
    \/ ScanNext(w) \/ Probe(w) \/ Keep(w) \/ Delete(w) \/ Subtract(w) \/ Finish(w)

Next ==
    \/ \E r \in Readers : ReaderStep(r)
    \/ \E w \in Writers : WriterStep(w)
    \/ Destroy

Spec == Init /\ [][Next]_vars
-----------------------------------------------------------------------------
Steps == {"idle", "acquire", "load", "protect", "validate", "use", "release", "terminated",
          "push", "count", "scan", "next", "probe", "keep", "delete", "subtract", "joined"}
Stores == [to : {"hazard"}, slot : SlotIds, value : Nodes \cup {Null}]
          \cup [to : {"active"}, slot : SlotIds, value : {FALSE}]

TypeOK ==
    /\ published \in Nodes \cup {Null}
    /\ allocated \subseteq Nodes
    /\ hazards \in [SlotIds -> Nodes \cup {Null}]
    /\ active \in [SlotIds -> BOOLEAN]
    /\ retired \in Seq(Nodes)
    /\ retired_count \in 0..(CountModulus - 1)
    /\ pc \in [Readers \cup Writers -> Steps]
    /\ slot \in [Readers -> SlotIds]
    /\ node \in [Readers \cup Writers -> Nodes \cup {Null}]
    /\ buffer \in [Readers -> Seq(Stores)]
    /\ mine \in [Writers -> Seq(Nodes)]
    /\ probe \in [Writers -> SlotIds]
    /\ dropped \in [Writers -> Nat]

\* A node a reader has protected and found still published is not deleted before
\* the guard is cleared, up to the last retire and the last scan, which run beside readers
\* (low_latency_stress.cpp:145-161, low_latency.h:410-417).  README.md:67 promises it.
NoUseAfterFree == \A r \in Readers : pc[r] = "use" => node[r] \in allocated \cup {Null}

\* The invariant behind it, where a store reaches memory at once: a guard's slot holds the
\* pointer its reader loaded, from protect to clear; and once the reader has found that
\* pointer still published, no scan that looks at the node has passed the slot
\* (low_latency.h:357-365, :410-417, :426-433).
ProtectionInv ==
    /\ \A r \in Readers : pc[r] \in {"validate", "use"} => hazards[slot[r]] = node[r]
    /\ \A r \in Readers, w \in Writers :
          pc[r] = "use" /\ node[r] # Null /\ node[w] = node[r] =>
              pc[w] # "delete" /\ (pc[w] = "probe" => probe[w] <= slot[r])

\* Reader r owns the slot of its guard, from the exchange to the store that frees it.
Holds(r) == pc[r] \in {"load", "protect", "validate", "use", "release"}

\* No two guards share a slot, whoever took it, gave it back and took it again
\* (low_latency.h:440-448): a shared slot would drop somebody's protection.
SlotsExclusive ==
    \A r, s \in Readers : r # s /\ Holds(r) /\ Holds(s) => slot[r] # slot[s]

\* The invariant behind it: reader r owns slot s while its guard holds it, and until the
\* store that gives it back, the last of its call, has reached memory; a slot is active as
\* long as somebody owns it, and nobody owns one together with another
\* (low_latency.h:347-373, :440-448).
GivesBack(r, s) ==
    \E i \in DOMAIN buffer[r] : buffer[r][i].to = "active" /\ buffer[r][i].slot = s

Owns(r, s) == (Holds(r) /\ slot[r] = s) \/ GivesBack(r, s)

SlotInv ==
    /\ \A s \in SlotIds : active[s] <=> \E r \in Readers : Owns(r, s)
    /\ \A r, q \in Readers, s \in SlotIds : Owns(r, s) /\ Owns(q, s) => r = q
    /\ \A r \in Readers : \A i \in DOMAIN buffer[r] :
          buffer[r][i].to = "active" =>
              i = Len(buffer[r]) /\ pc[r] \in {"idle", "acquire"}

\* With as many slots as guards at a time, acquire_slot finds one and does not
\* terminate the process, although it passes each slot once, at different times.
NeverTerminates ==
    Cardinality(Readers) <= Slots => \A r \in Readers : pc[r] # "terminated"

\* The invariant behind it.  Readers pass slots one by one, and a slot passed may be free
\* again at once; but whoever is behind a reader that searches, holding a slot or
\* searching itself, needs that slot or an earlier one, so that a reader never has fewer
\* others behind it than slots (low_latency.h:440-448).
Searches(r) == pc[r] = "acquire" /\ buffer[r] = <<>>

Position(r) ==
    IF Holds(r) \/ Searches(r) THEN slot[r]
    ELSE IF buffer[r] # <<>> THEN Last(buffer[r]).slot
    ELSE 0

SearchInv ==
    /\ \A r \in Readers :
          Searches(r) => Cardinality({q \in Readers : Position(q) < slot[r]}) >= slot[r]
    /\ \A r \in Readers :
          /\ pc[r] = "acquire" /\ buffer[r] # <<>> => slot[r] = 0
          /\ buffer[r] # <<>> => Holds(r) \/ Last(buffer[r]).to = "active"

\* Writer w has a node in its hands: one it is about to retire, or looks at.
InHand(w) == IF node[w] = Null THEN {} ELSE {node[w]}

\* The nodes that wait with writer w: the one in its hands and the rest of its list.
Waiting(w) == InHand(w) \cup ToSet(mine[w])
Live == {published} \ {Null}

\* Every node alive is published, or waits exactly once to be deleted, in the list
\* or in the hands of one writer: none is lost, none is deleted twice, none is
\* deleted while it is published, and none outlives the domain (low_latency.h:319-327,
\* :389-424).
EveryNodeAccountedFor ==
    /\ Live \subseteq allocated
    /\ ToSet(retired) \cup UNION {Waiting(w) : w \in Writers} = allocated \ Live
    /\ IsInjective(retired)
    /\ \A w \in Writers : /\ IsInjective(mine[w])
                          /\ InHand(w) \cap ToSet(mine[w]) = {}
                          /\ Waiting(w) \cap ToSet(retired) = {}
    /\ \A v, w \in Writers : v # w => Waiting(v) \cap Waiting(w) = {}

\* retired_count_ is what the list and the running scans hold, except for the nodes
\* pushed and not yet counted; it is exact although it may wrap below zero when a
\* scan subtracts a node before its writer has counted it (low_latency.h:395-397, :421).
\* The destructor does not look at it.
Scanning(w) == pc[w] \in {"next", "probe", "keep", "delete", "subtract"}

\* What a running scan has not looked at yet, or looks at, or has not subtracted yet.
Unsettled(w) ==
    IF Scanning(w) THEN Len(mine[w]) + Cardinality(InHand(w)) + dropped[w] ELSE 0

CountBalances ==
    (\A w \in Writers : pc[w] # "joined") =>
    (retired_count + Cardinality({w \in Writers : pc[w] = "count"})) % CountModulus =
    (Len(retired) + SumFunction([w \in Writers |-> Unsettled(w)])) % CountModulus

\* Between calls, garbage stays below the threshold, or all of it was found in a hazard
\* slot by scans that ran side by side.  A reader can make a scan keep two nodes: one
\* still in its slot, and one it loaded before the scan and stores into the slot while
\* the scan runs (low_latency.h:397-398, :410-413).
GarbageBounded ==
    (\A w \in Writers : pc[w] = "idle") =>
        \/ Len(retired) < RetireThreshold
        \/ Len(retired) <= 2 * Cardinality(Readers) * Cardinality(Writers)
=============================================================================
