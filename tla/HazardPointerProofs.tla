-------------------------- MODULE HazardPointerProofs --------------------------
(***************************************************************************)
(* Proofs about HazardPointerDomain, for every set of readers, writers and  *)
(* addresses and every number of slots: types; where every node is; what    *)
(* retired_count_ counts; who owns a slot, and why a reader that searches   *)
(* for one finds it, with and without store buffers.  Then the promise of   *)
(* the hazard pointers, that no reader uses a deleted node.  It rests on    *)
(* the slots being exclusive and on every node being accounted for, and it  *)
(* holds where a store is visible before the next load: the run             *)
(* hp_store_buffers shows that it fails where stores are buffered.  Last    *)
(* how much garbage there can be between calls.                             *)
(***************************************************************************)
EXTENDS HazardPointerDomain, FoldLemmas
-----------------------------------------------------------------------------
(* Types. *)

\* A writer has a node in its hands exactly while it retires one or looks at one.
HandsFull == \A w \in Writers : node[w] # Null <=> pc[w] \in {"push", "probe", "keep", "delete"}

LEMMA TypeInit == Init => TypeOK /\ HandsFull
<1> SUFFICES ASSUME Init PROVE TypeOK /\ HandsFull  OBVIOUS
<1> USE DEF Init
<1>1. /\ published \in Nodes \cup {Null}
      /\ allocated \subseteq Nodes
      /\ retired \in Seq(Nodes)
      /\ pc \in [Readers \cup Writers -> Steps]
  BY DEF Steps
<1>2. /\ hazards \in [SlotIds -> Nodes \cup {Null}]
      /\ active \in [SlotIds -> BOOLEAN]
      /\ slot \in [Readers -> SlotIds]
      /\ probe \in [Writers -> SlotIds]
  BY SlotsAssumption DEF SlotIds
<1>3. retired_count \in 0..(CountModulus - 1)
  BY ModulusAssumption, ThresholdAssumption
<1>4. /\ node \in [Readers \cup Writers -> Nodes \cup {Null}]
      /\ buffer \in [Readers -> Seq(Stores)]
      /\ mine \in [Writers -> Seq(Nodes)]
      /\ dropped \in [Writers -> Nat]
  OBVIOUS
<1>5. HandsFull  BY ThreadsAssumption DEF HandsFull
<1> QED  BY <1>1, <1>2, <1>3, <1>4, <1>5 DEF TypeOK

\* A store that reaches memory.
LEMMA PerformType ==
    ASSUME TypeOK, NEW store \in Stores, Perform(store)
    PROVE  hazards' \in [SlotIds -> Nodes \cup {Null}] /\ active' \in [SlotIds -> BOOLEAN]
  BY DEF TypeOK, Perform, Stores

LEMMA StoreType ==
    ASSUME TypeOK, NEW r \in Readers, NEW to, NEW value,
           [to |-> to, slot |-> slot[r], value |-> value] \in Stores, Store(r, to, value)
    PROVE  /\ hazards' \in [SlotIds -> Nodes \cup {Null}]
           /\ active' \in [SlotIds -> BOOLEAN]
           /\ buffer' \in [Readers -> Seq(Stores)]
<1> DEFINE store == [to |-> to, slot |-> slot[r], value |-> value]
<1>1. CASE StoreBuffering
  <2>1. UNCHANGED <<hazards, active>> /\ buffer' = [buffer EXCEPT ![r] = Append(@, store)]
    BY <1>1 DEF Store
  <2> QED  BY <2>1 DEF TypeOK
<1>2. CASE ~ StoreBuffering
  <2>1. Perform(store) /\ UNCHANGED buffer  BY <1>2 DEF Store
  <2> QED  BY <2>1, PerformType DEF TypeOK
<1> QED  BY <1>1, <1>2

LEMMA TypeReader == ASSUME TypeOK, NEW r \in Readers, ReaderStep(r) PROVE TypeOK'
<1> USE SlotsAssumption DEF readerVars, writerVars, domain, Goto, Steps
<1>1. CASE MakeGuard(r)  BY <1>1 DEF MakeGuard, TypeOK, SlotIds
<1>2. CASE AcquireSlot(r)  BY <1>2 DEF AcquireSlot, TypeOK
<1>3. CASE SlotTaken(r)
  <2>1. slot' \in [Readers -> SlotIds]
    <3>1. CASE slot[r] + 1 < Slots  BY <1>3, <3>1 DEF SlotTaken, TryNextSlot, TypeOK, SlotIds
    <3>2. CASE ~ (slot[r] + 1 < Slots)  BY <1>3, <3>2 DEF SlotTaken, TryNextSlot, TypeOK
    <3> QED  BY <3>1, <3>2
  <2>2. pc' \in [Readers \cup Writers -> Steps]  BY ZenonT(60), <1>3 DEF SlotTaken, TryNextSlot, TypeOK
  <2> QED  BY <1>3, <2>1, <2>2 DEF SlotTaken, TryNextSlot, TypeOK
<1>4. CASE LoadPublished(r)  BY <1>4 DEF LoadPublished, TypeOK
<1>5. CASE Protect(r)
  <2>1. [to |-> "hazard", slot |-> slot[r], value |-> node[r]] \in Stores  BY DEF TypeOK, Stores
  <2> QED  BY <1>5, <2>1, StoreType DEF Protect, TypeOK
<1>6. CASE Validate(r)  BY <1>6 DEF Validate, TypeOK
<1>7. CASE Clear(r)
  <2>1. [to |-> "hazard", slot |-> slot[r], value |-> Null] \in Stores  BY DEF TypeOK, Stores
  <2> QED  BY <1>7, <2>1, StoreType DEF Clear, TypeOK
<1>8. CASE Release(r)
  <2>1. [to |-> "active", slot |-> slot[r], value |-> FALSE] \in Stores  BY DEF TypeOK, Stores
  <2> QED  BY <1>8, <2>1, StoreType DEF Release, TypeOK
<1>9. CASE Drain(r)
  <2>1. Head(buffer[r]) \in Stores /\ Tail(buffer[r]) \in Seq(Stores)
    BY <1>9 DEF Drain, TypeOK
  <2> QED  BY <1>9, <2>1, PerformType DEF Drain, TypeOK
<1> QED  BY <1>1, <1>2, <1>3, <1>4, <1>5, <1>6, <1>7, <1>8, <1>9 DEF ReaderStep

\* The node in a writer's hands goes to the head of the list.
LEMMA PrependType ==
    ASSUME TypeOK, HandsFull, NEW w \in Writers, pc[w] \in {"push", "keep"}, Prepend(w)
    PROVE  /\ retired' \in Seq(Nodes)
           /\ node' \in [Readers \cup Writers -> Nodes \cup {Null}]
<1>1. node[w] \in Nodes  BY DEF TypeOK, HandsFull
<1>2. <<node[w]>> \in Seq(Nodes)  BY <1>1
<1> QED  BY <1>2 DEF TypeOK, Prepend

LEMMA TypeWriter == ASSUME TypeOK, HandsFull, NEW w \in Writers, WriterStep(w) PROVE TypeOK'
<1> USE SlotsAssumption, ModulusAssumption, ThresholdAssumption
    DEF readerVars, writerVars, domain, Goto, Steps
<1>1. CASE Replace(w)  BY <1>1 DEF Replace, TypeOK
<1>2. CASE PushRetired(w)  BY <1>2, PrependType DEF PushRetired, TypeOK
<1>3. CASE CountRetired(w)  BY <1>3 DEF CountRetired, TypeOK
<1>4. CASE CallScan(w)  BY <1>4 DEF CallScan, TypeOK
<1>5. CASE ScanTake(w)  BY <1>5 DEF ScanTake, TypeOK
<1>6. CASE ScanNext(w)
  <2>1. CASE mine[w] = <<>>  BY <1>6, <2>1 DEF ScanNext, TypeOK
  <2>2. CASE mine[w] # <<>>
    <3>1. Head(mine[w]) \in Nodes /\ Tail(mine[w]) \in Seq(Nodes) /\ 0 \in SlotIds
      BY <2>2 DEF TypeOK, SlotIds
    <3> QED  BY ZenonT(60), <1>6, <2>2, <3>1 DEF ScanNext, TypeOK
  <2> QED  BY <2>1, <2>2
<1>7. CASE Probe(w)
  <2>1. probe' \in [Writers -> SlotIds]
    <3>1. CASE UNCHANGED probe  BY <3>1 DEF TypeOK
    <3>2. CASE probe[w] + 1 < Slots /\ probe' = [probe EXCEPT ![w] = @ + 1]
      BY <3>2 DEF TypeOK, SlotIds
    <3> QED  BY <1>7, <3>1, <3>2 DEF Probe, ProbeOneOf
  <2>2. pc' \in [Readers \cup Writers -> Steps]
    <3>1. \/ UNCHANGED pc
          \/ pc' = [pc EXCEPT ![w] = "keep"]
          \/ pc' = [pc EXCEPT ![w] = "delete"]
      BY <1>7 DEF Probe, ProbeOneOf
    <3> QED  BY <3>1 DEF TypeOK
  <2> QED  BY <1>7, <2>1, <2>2 DEF Probe, ProbeOneOf, TypeOK
<1>8. CASE Keep(w)  BY <1>8, PrependType DEF Keep, TypeOK
<1>9. CASE Delete(w)  BY <1>9 DEF Delete, TypeOK
<1>10. CASE Subtract(w)  BY <1>10 DEF Subtract, TypeOK
<1>11. CASE Finish(w)  BY <1>11 DEF Finish, TypeOK
<1> QED  BY <1>1, <1>2, <1>3, <1>4, <1>5, <1>6, <1>7, <1>8, <1>9, <1>10, <1>11 DEF WriterStep

LEMMA HandsReader ==
    ASSUME TypeOK, HandsFull, NEW r \in Readers, ReaderStep(r) PROVE HandsFull'
  BY ZenonT(60), ThreadsAssumption
     DEF ReaderStep, MakeGuard, AcquireSlot, SlotTaken, TryNextSlot, LoadPublished, Protect,
         Validate, Clear, Release, Drain, Goto, TypeOK, HandsFull

LEMMA HandsWriter ==
    ASSUME TypeOK, HandsFull, NEW w \in Writers, WriterStep(w) PROVE HandsFull'
<1> USE NodesAssumption DEF TypeOK, HandsFull, Goto
<1>1. CASE Replace(w)  BY <1>1 DEF Replace
<1>2. CASE PushRetired(w)  BY <1>2 DEF PushRetired, Prepend
<1>3. CASE CountRetired(w)  BY <1>3 DEF CountRetired
<1>4. CASE CallScan(w)  BY <1>4 DEF CallScan
<1>5. CASE ScanTake(w)  BY <1>5 DEF ScanTake
<1>6. CASE ScanNext(w)
  <2>1. mine[w] # <<>> => Head(mine[w]) \in Nodes  OBVIOUS
  <2> QED  BY <1>6, <2>1 DEF ScanNext
<1>7. CASE Probe(w)  BY <1>7 DEF Probe, ProbeOneOf
<1>8. CASE Keep(w)  BY <1>8 DEF Keep, Prepend
<1>9. CASE Delete(w)  BY <1>9 DEF Delete
<1>10. CASE Subtract(w)  BY <1>10 DEF Subtract
<1>11. CASE Finish(w)  BY <1>11 DEF Finish
<1> QED  BY <1>1, <1>2, <1>3, <1>4, <1>5, <1>6, <1>7, <1>8, <1>9, <1>10, <1>11 DEF WriterStep

LEMMA TypeStep == TypeOK /\ HandsFull /\ [Next]_vars => TypeOK' /\ HandsFull'
<1> SUFFICES ASSUME TypeOK, HandsFull, [Next]_vars PROVE TypeOK' /\ HandsFull'  OBVIOUS
<1>1. CASE Destroy
  <2>1. TypeOK'  BY <1>1 DEF Destroy, TypeOK, Steps
  <2>2. HandsFull'  BY <1>1 DEF Destroy, HandsFull
  <2> QED  BY <2>1, <2>2
<1>2. CASE UNCHANGED vars  BY <1>2 DEF vars, TypeOK, HandsFull
<1> QED  BY <1>1, <1>2, TypeReader, TypeWriter, HandsReader, HandsWriter DEF Next

LEMMA TypedHands == Spec => [](TypeOK /\ HandsFull)
  BY TypeInit, TypeStep, PTL DEF Spec

\* Every variable keeps its type (low_latency.h:309-448).
THEOREM TypeCorrect == Spec => []TypeOK
  BY TypedHands, PTL
-----------------------------------------------------------------------------
(* Every node alive is in one place. *)

\* A writer has a list only while its scan goes through one.
ListsTaken == \A w \in Writers : mine[w] # <<>> => Scanning(w) /\ pc[w] # "subtract"

\* <<x>> \o s has the elements of s and x.
LEMMA PrependSet ==
    ASSUME NEW S, NEW s \in Seq(S), NEW x \in S
    PROVE  /\ ToSet(<<x>> \o s) = {x} \cup ToSet(s)
           /\ IsInjective(s) /\ x \notin ToSet(s) => IsInjective(<<x>> \o s)
<1> DEFINE t == <<x>> \o s
<1>1. /\ t \in Seq(S) /\ Len(t) = Len(s) + 1 /\ t[1] = x
      /\ \A i \in 1..Len(s) : t[i + 1] = s[i]
      /\ DOMAIN t = 1..Len(t) /\ DOMAIN s = 1..Len(s)
  OBVIOUS
<1> HIDE DEF t
<1>2. ToSet(t) = {x} \cup ToSet(s)
  <2>1. ToSet(t) \subseteq {x} \cup ToSet(s)
    <3> SUFFICES ASSUME NEW i \in 1..Len(t), i # 1 PROVE t[i] \in ToSet(s)
      BY <1>1 DEF ToSet
    <3>1. i - 1 \in 1..Len(s) /\ i = (i - 1) + 1  BY <1>1
    <3> QED  BY <1>1, <3>1 DEF ToSet
  <2>2. {x} \cup ToSet(s) \subseteq ToSet(t)
    <3>1. 1 \in 1..Len(t)  BY <1>1
    <3>2. \A i \in 1..Len(s) : i + 1 \in 1..Len(t)  BY <1>1
    <3> QED  BY <1>1, <3>1, <3>2 DEF ToSet
  <2> QED  BY <2>1, <2>2
<1>3. ASSUME IsInjective(s), x \notin ToSet(s) PROVE IsInjective(t)
  <2> SUFFICES ASSUME NEW i \in 1..Len(t), NEW j \in 1..Len(t), t[i] = t[j] PROVE i = j
    BY <1>1 DEF IsInjective
  <2>1. \A k \in 1..Len(t) : k # 1 => /\ k - 1 \in 1..Len(s)
                                      /\ t[k] = s[k - 1]
                                      /\ t[k] \in ToSet(s)
    <3> SUFFICES ASSUME NEW k \in 1..Len(t), k # 1
                 PROVE  k - 1 \in 1..Len(s) /\ t[k] = s[k - 1] /\ t[k] \in ToSet(s)
      OBVIOUS
    <3>1. k - 1 \in 1..Len(s) /\ k = (k - 1) + 1  BY <1>1
    <3> QED  BY <1>1, <3>1 DEF ToSet
  <2>2. CASE i = 1 \/ j = 1  BY <1>1, <1>3, <2>1, <2>2
  <2>3. CASE i # 1 /\ j # 1
    <3>1. /\ i - 1 \in 1..Len(s) /\ t[i] = s[i - 1]
          /\ j - 1 \in 1..Len(s) /\ t[j] = s[j - 1]
      BY <2>1, <2>3
    <3>2. s[i - 1] = s[j - 1]  BY <3>1
    <3>3. i - 1 = j - 1  BY <1>1, <1>3, <3>1, <3>2 DEF IsInjective
    <3> QED  BY <1>1, <3>3
  <2> QED  BY <2>2, <2>3
<1> QED  BY <1>2, <1>3 DEF t

\* A list without its first node.
LEMMA TailSet ==
    ASSUME NEW S, NEW s \in Seq(S), s # <<>>
    PROVE  /\ Head(s) \in S /\ Tail(s) \in Seq(S)
           /\ ToSet(s) = {Head(s)} \cup ToSet(Tail(s))
           /\ IsInjective(s) => IsInjective(Tail(s)) /\ Head(s) \notin ToSet(Tail(s))
<1> DEFINE t == Tail(s)
<1>1. /\ t \in Seq(S) /\ Len(t) = Len(s) - 1 /\ Head(s) = s[1] /\ Len(s) \in Nat \ {0}
      /\ \A i \in 1..Len(t) : t[i] = s[i + 1]
      /\ DOMAIN t = 1..Len(t) /\ DOMAIN s = 1..Len(s)
  OBVIOUS
<1> HIDE DEF t
<1>2. Head(s) \in S  OBVIOUS
<1>3. ToSet(s) = {Head(s)} \cup ToSet(t)
  <2>1. ToSet(s) \subseteq {Head(s)} \cup ToSet(t)
    <3> SUFFICES ASSUME NEW i \in 1..Len(s), i # 1 PROVE s[i] \in ToSet(t)
      BY <1>1 DEF ToSet
    <3>1. i - 1 \in 1..Len(t) /\ i = (i - 1) + 1  BY <1>1
    <3> QED  BY <1>1, <3>1 DEF ToSet
  <2>2. {Head(s)} \cup ToSet(t) \subseteq ToSet(s)
    <3>1. 1 \in 1..Len(s)  BY <1>1
    <3>2. \A i \in 1..Len(t) : i + 1 \in 1..Len(s)  BY <1>1
    <3> QED  BY <1>1, <3>1, <3>2 DEF ToSet
  <2> QED  BY <2>1, <2>2
<1>4. ASSUME IsInjective(s) PROVE IsInjective(t) /\ Head(s) \notin ToSet(t)
  <2>1. \A i \in 1..Len(t) : i + 1 \in 1..Len(s) /\ t[i] = s[i + 1]  BY <1>1
  <2>2. IsInjective(t)
    <3> SUFFICES ASSUME NEW i \in 1..Len(t), NEW j \in 1..Len(t), t[i] = t[j] PROVE i = j
      BY <1>1 DEF IsInjective
    <3>1. i + 1 = j + 1  BY <1>1, <1>4, <2>1 DEF IsInjective
    <3> QED  BY <3>1
  <2>3. ASSUME NEW i \in 1..Len(t), t[i] = Head(s) PROVE FALSE
    <3>1. 1 = i + 1  BY <1>1, <1>4, <2>1, <2>3 DEF IsInjective
    <3> QED  BY <3>1
  <2> QED  BY <1>1, <2>2, <2>3 DEF ToSet
<1> QED  BY <1>1, <1>2, <1>3, <1>4 DEF t

LEMMA AccountInit == Init => EveryNodeAccountedFor /\ ListsTaken
<1> SUFFICES ASSUME Init PROVE EveryNodeAccountedFor /\ ListsTaken  OBVIOUS
<1>1. \A w \in Writers : mine[w] = <<>> /\ InHand(w) = {}  BY DEF Init, InHand
<1>2. ToSet(<<>>) = {} /\ IsInjective(<<>>)  BY DEF ToSet, IsInjective
<1>3. \A w \in Writers : Waiting(w) = {}  BY <1>1, <1>2 DEF Waiting
<1>4. allocated = Live  BY NodesAssumption DEF Init, Live
<1> QED
  BY <1>1, <1>2, <1>3, <1>4 DEF Init, EveryNodeAccountedFor, ListsTaken

\* A step that moves no node.
LEMMA AccountQuiet ==
    ASSUME EveryNodeAccountedFor, UNCHANGED <<published, allocated, retired>>,
           \A w \in Writers : mine'[w] = mine[w] /\ node'[w] = node[w]
    PROVE  EveryNodeAccountedFor'
<1>1. \A w \in Writers : InHand(w)' = InHand(w) /\ Waiting(w)' = Waiting(w)
  BY DEF InHand, Waiting
<1>2. Live' = Live  BY DEF Live
<1> QED  BY <1>1, <1>2 DEF EveryNodeAccountedFor

\* The node in the hands of w goes to the head of the list.
LEMMA AccountPrepend ==
    ASSUME TypeOK, HandsFull, EveryNodeAccountedFor, NEW w \in Writers,
           pc[w] \in {"push", "keep"}, Prepend(w), UNCHANGED <<published, allocated, mine>>
    PROVE  EveryNodeAccountedFor'
<1> USE DEF EveryNodeAccountedFor
<1>1. node[w] \in Nodes /\ InHand(w) = {node[w]}  BY DEF TypeOK, HandsFull, InHand
<1>2. node[w] \notin ToSet(retired) /\ node[w] \notin ToSet(mine[w])  BY <1>1 DEF Waiting
<1>3. ToSet(retired') = {node[w]} \cup ToSet(retired) /\ IsInjective(retired')
  BY <1>1, <1>2, PrependSet DEF Prepend, TypeOK
<1>4. InHand(w)' = {} /\ Waiting(w)' = ToSet(mine[w])
  BY DEF Prepend, InHand, Waiting, TypeOK
<1>5. \A v \in Writers : v # w => InHand(v)' = InHand(v) /\ Waiting(v)' = Waiting(v)
  BY DEF Prepend, InHand, Waiting, TypeOK
<1>6. Waiting(w) = {node[w]} \cup ToSet(mine[w])  BY <1>1 DEF Waiting
<1>7. Live' = Live  BY DEF Live
<1>8. ToSet(retired') \cup UNION {Waiting(v)' : v \in Writers} = allocated \ Live
  BY <1>3, <1>4, <1>5, <1>6
<1>9. ASSUME NEW v \in Writers
      PROVE  /\ IsInjective(mine'[v])
             /\ InHand(v)' \cap ToSet(mine'[v]) = {}
             /\ Waiting(v)' \cap ToSet(retired') = {}
  <2>1. CASE v = w  BY <1>2, <1>3, <1>4, <1>6, <2>1
  <2>2. CASE v # w  BY <1>3, <1>5, <1>6, <2>2
  <2> QED  BY <2>1, <2>2
<1>10. ASSUME NEW u \in Writers, NEW v \in Writers, u # v
       PROVE  Waiting(u)' \cap Waiting(v)' = {}
  BY <1>4, <1>5, <1>6, <1>10
<1> QED  BY <1>3, <1>7, <1>8, <1>9, <1>10

LEMMA AccountReplace ==
    ASSUME TypeOK, HandsFull, EveryNodeAccountedFor, NEW w \in Writers, Replace(w)
    PROVE  EveryNodeAccountedFor'
<1> USE DEF EveryNodeAccountedFor, Replace, Goto
<1>1. PICK fresh \in Nodes \ allocated :
         allocated' = allocated \cup {fresh} /\ published' = fresh
  OBVIOUS
<1>2. Live = {published} /\ Live' = {fresh}  BY <1>1, NodesAssumption DEF Live
<1>3. InHand(w) = {} /\ Waiting(w) = ToSet(mine[w])
  BY DEF HandsFull, InHand, Waiting
<1>4. InHand(w)' = {published} /\ Waiting(w)' = {published} \cup Waiting(w)
  BY <1>3 DEF InHand, Waiting, TypeOK, writerVars
<1>5. \A v \in Writers : v # w => InHand(v)' = InHand(v) /\ Waiting(v)' = Waiting(v)
  BY DEF InHand, Waiting, TypeOK, writerVars
<1>6. /\ published \in allocated
      /\ published \notin ToSet(retired)
      /\ \A v \in Writers : published \notin Waiting(v)
  BY <1>2
<1>7. UNCHANGED <<retired, mine>>  BY DEF domain, writerVars
<1>8. ToSet(retired) \cup UNION {Waiting(v)' : v \in Writers} = (allocated \ Live) \cup {published}
  BY <1>4, <1>5
<1>9. (allocated \ Live) \cup {published} = allocated' \ Live'  BY <1>1, <1>2, <1>6
<1>10. ASSUME NEW v \in Writers
       PROVE  /\ InHand(v)' \cap ToSet(mine[v]) = {}
              /\ Waiting(v)' \cap ToSet(retired) = {}
  <2>1. CASE v = w  BY <1>3, <1>4, <1>6, <2>1
  <2>2. CASE v # w  BY <1>5, <2>2
  <2> QED  BY <2>1, <2>2
<1>11. ASSUME NEW u \in Writers, NEW v \in Writers, u # v
       PROVE  Waiting(u)' \cap Waiting(v)' = {}
  BY <1>4, <1>5, <1>6, <1>11
<1> QED  BY <1>1, <1>2, <1>7, <1>8, <1>9, <1>10, <1>11

LEMMA AccountScanTake ==
    ASSUME TypeOK, HandsFull, ListsTaken, EveryNodeAccountedFor, NEW w \in Writers, ScanTake(w)
    PROVE  EveryNodeAccountedFor'
<1> USE DEF EveryNodeAccountedFor, ScanTake, Goto
<1>1. InHand(w) = {} /\ mine[w] = <<>> /\ ToSet(mine[w]) = {}
  BY DEF HandsFull, ListsTaken, Scanning, InHand, ToSet
<1>2. Waiting(w) = {}  BY <1>1 DEF Waiting
<1>3. mine'[w] = retired /\ InHand(w)' = {} /\ Waiting(w)' = ToSet(retired)
  BY <1>1 DEF InHand, Waiting, TypeOK
<1>4. \A v \in Writers :
         v # w => mine'[v] = mine[v] /\ InHand(v)' = InHand(v) /\ Waiting(v)' = Waiting(v)
  BY DEF InHand, Waiting, TypeOK
<1>5. retired' = <<>> /\ ToSet(retired') = {} /\ IsInjective(retired')
  BY DEF ToSet, IsInjective
<1>6. Live' = Live /\ allocated' = allocated  BY DEF Live
<1>7. ToSet(retired') \cup UNION {Waiting(v)' : v \in Writers} = allocated \ Live
  BY <1>2, <1>3, <1>4, <1>5
<1>8. ASSUME NEW v \in Writers
      PROVE  /\ IsInjective(mine'[v])
             /\ InHand(v)' \cap ToSet(mine'[v]) = {}
             /\ Waiting(v)' \cap ToSet(retired') = {}
  BY <1>3, <1>4, <1>5
<1>9. ASSUME NEW u \in Writers, NEW v \in Writers, u # v
      PROVE  Waiting(u)' \cap Waiting(v)' = {}
  BY <1>3, <1>4, <1>9
<1> QED  BY <1>5, <1>6, <1>7, <1>8, <1>9

LEMMA AccountScanNext ==
    ASSUME TypeOK, HandsFull, EveryNodeAccountedFor, NEW w \in Writers, ScanNext(w)
    PROVE  EveryNodeAccountedFor'
<1> USE DEF EveryNodeAccountedFor, ScanNext
<1>1. CASE mine[w] = <<>>  BY <1>1, AccountQuiet DEF domain
<1>2. CASE mine[w] # <<>>
  <2>1. mine[w] \in Seq(Nodes)  BY DEF TypeOK
  <2>2. /\ Head(mine[w]) \in Nodes
        /\ ToSet(mine[w]) = {Head(mine[w])} \cup ToSet(Tail(mine[w]))
        /\ IsInjective(Tail(mine[w])) /\ Head(mine[w]) \notin ToSet(Tail(mine[w]))
    BY <1>2, <2>1, TailSet
  <2>3. mine'[w] = Tail(mine[w]) /\ InHand(w)' = {Head(mine[w])}
    BY <1>2, <2>2, NodesAssumption DEF InHand, TypeOK
  <2>4. Waiting(w)' = Waiting(w)  BY <2>2, <2>3 DEF HandsFull, InHand, Waiting
  <2>5. \A v \in Writers :
           v # w => mine'[v] = mine[v] /\ InHand(v)' = InHand(v) /\ Waiting(v)' = Waiting(v)
    BY ZenonT(60), <1>2 DEF InHand, Waiting, TypeOK
  <2>6. Live' = Live /\ UNCHANGED <<allocated, retired>>  BY DEF Live, domain
  <2>7. \A v \in Writers : Waiting(v)' = Waiting(v)  BY <2>4, <2>5
  <2>8. ASSUME NEW v \in Writers
        PROVE  IsInjective(mine'[v]) /\ InHand(v)' \cap ToSet(mine'[v]) = {}
    BY <2>2, <2>3, <2>5
  <2> QED  BY <2>6, <2>7, <2>8
<1> QED  BY <1>1, <1>2

LEMMA AccountDelete ==
    ASSUME TypeOK, HandsFull, EveryNodeAccountedFor, NEW w \in Writers, Delete(w)
    PROVE  EveryNodeAccountedFor'
<1> USE DEF EveryNodeAccountedFor, Delete, Goto
<1>1. InHand(w) = {node[w]}  BY DEF HandsFull, InHand
<1>2. InHand(w)' = {} /\ Waiting(w)' = ToSet(mine[w])  BY DEF InHand, Waiting, TypeOK
<1>3. Waiting(w) = {node[w]} \cup ToSet(mine[w])  BY <1>1 DEF Waiting
<1>4. \A v \in Writers : v # w => InHand(v)' = InHand(v) /\ Waiting(v)' = Waiting(v)
  BY DEF InHand, Waiting, TypeOK
<1>5. /\ node[w] \notin Live
      /\ node[w] \notin ToSet(mine[w])
      /\ node[w] \notin ToSet(retired)
      /\ \A v \in Writers : v # w => node[w] \notin Waiting(v)
  BY <1>1, <1>3
<1>6. Live' = Live /\ UNCHANGED <<retired, mine>> /\ allocated' = allocated \ {node[w]}
  BY DEF Live, domain
<1>7. ToSet(retired) \cup UNION {Waiting(v)' : v \in Writers} = allocated' \ Live
  BY <1>2, <1>3, <1>4, <1>5, <1>6
<1>8. ASSUME NEW v \in Writers
      PROVE  /\ InHand(v)' \cap ToSet(mine[v]) = {}
             /\ Waiting(v)' \cap ToSet(retired) = {}
  BY <1>2, <1>3, <1>4
<1>9. ASSUME NEW u \in Writers, NEW v \in Writers, u # v
      PROVE  Waiting(u)' \cap Waiting(v)' = {}
  BY <1>2, <1>3, <1>4, <1>9
<1> QED  BY <1>5, <1>6, <1>7, <1>8, <1>9

LEMMA AccountFinish ==
    ASSUME TypeOK, HandsFull, EveryNodeAccountedFor, NEW w \in Writers, Finish(w)
    PROVE  EveryNodeAccountedFor'
<1> USE DEF EveryNodeAccountedFor, Finish
<1>1. Live = {published} /\ Live' = {}  BY DEF Live
<1>2. InHand(w) = {} /\ Waiting(w) = ToSet(mine[w])  BY DEF HandsFull, InHand, Waiting
<1>3. InHand(w)' = {published} /\ Waiting(w)' = {published} \cup Waiting(w)
  BY <1>2 DEF InHand, Waiting, TypeOK, writerVars
<1>4. \A v \in Writers : v # w => InHand(v)' = InHand(v) /\ Waiting(v)' = Waiting(v)
  BY DEF InHand, Waiting, TypeOK, writerVars
<1>5. /\ published \in allocated
      /\ published \notin ToSet(retired)
      /\ \A v \in Writers : published \notin Waiting(v)
  BY <1>1
<1>6. UNCHANGED <<allocated, retired, mine>>  BY DEF domain, writerVars
<1>7. ToSet(retired) \cup UNION {Waiting(v)' : v \in Writers} = allocated
  BY <1>1, <1>3, <1>4, <1>5
<1>8. ASSUME NEW v \in Writers
      PROVE  /\ InHand(v)' \cap ToSet(mine[v]) = {}
             /\ Waiting(v)' \cap ToSet(retired) = {}
  BY <1>2, <1>3, <1>4, <1>5
<1>9. ASSUME NEW u \in Writers, NEW v \in Writers, u # v
      PROVE  Waiting(u)' \cap Waiting(v)' = {}
  BY <1>3, <1>4, <1>5, <1>9
<1> QED  BY <1>1, <1>6, <1>7, <1>8, <1>9

LEMMA AccountDestroy ==
    ASSUME TypeOK, HandsFull, ListsTaken, EveryNodeAccountedFor, Destroy
    PROVE  EveryNodeAccountedFor'
<1> USE DEF EveryNodeAccountedFor, Destroy
<1>1. \A w \in Writers : InHand(w) = {} /\ ToSet(mine[w]) = {}
  BY DEF HandsFull, ListsTaken, Scanning, InHand, ToSet
<1>2. \A w \in Writers : Waiting(w) = {}  BY <1>1 DEF Waiting
<1>3. \A w \in Writers : InHand(w)' = {} /\ Waiting(w)' = {}
  BY <1>1, <1>2 DEF InHand, Waiting
<1>4. Live = {} /\ Live' = {}  BY DEF Live
<1>5. allocated' = {}  BY <1>2, <1>4
<1>6. ToSet(retired') = {} /\ IsInjective(retired')  BY DEF ToSet, IsInjective
<1> QED  BY <1>1, <1>3, <1>4, <1>5, <1>6

LEMMA ListsStep ==
    ASSUME TypeOK, ListsTaken, [Next]_vars PROVE ListsTaken'
<1> USE DEF TypeOK, ListsTaken, Scanning, Goto
<1>1. ASSUME NEW r \in Readers, ReaderStep(r) PROVE ListsTaken'
  BY <1>1, ThreadsAssumption
     DEF ReaderStep, MakeGuard, AcquireSlot, SlotTaken, TryNextSlot, LoadPublished, Protect,
         Validate, Clear, Release, Drain, writerVars
<1>2. ASSUME NEW w \in Writers, WriterStep(w) PROVE ListsTaken'
  <2> USE DEF writerVars
  <2>1. CASE Replace(w)  BY <2>1 DEF Replace
  <2>2. CASE PushRetired(w)  BY <2>2 DEF PushRetired
  <2>3. CASE CountRetired(w)  BY <2>3 DEF CountRetired
  <2>4. CASE CallScan(w)  BY <2>4 DEF CallScan
  <2>5. CASE ScanTake(w)  BY <2>5 DEF ScanTake
  <2>6. CASE ScanNext(w)  BY <2>6 DEF ScanNext
  <2>7. CASE Probe(w)  BY <2>7 DEF Probe, ProbeOneOf
  <2>8. CASE Keep(w)  BY <2>8 DEF Keep
  <2>9. CASE Delete(w)  BY <2>9 DEF Delete
  <2>10. CASE Subtract(w)  BY <2>10 DEF Subtract
  <2>11. CASE Finish(w)  BY <2>11 DEF Finish
  <2> QED
    BY <1>2, <2>1, <2>2, <2>3, <2>4, <2>5, <2>6, <2>7, <2>8, <2>9, <2>10, <2>11 DEF WriterStep
<1>3. CASE Destroy  BY <1>3 DEF Destroy
<1>4. CASE UNCHANGED vars  BY <1>4 DEF vars
<1> QED  BY <1>1, <1>2, <1>3, <1>4 DEF Next

LEMMA AccountReader ==
    ASSUME TypeOK, EveryNodeAccountedFor, NEW r \in Readers, ReaderStep(r)
    PROVE  EveryNodeAccountedFor'
<1>1. UNCHANGED <<published, allocated, retired, mine>>
  BY DEF ReaderStep, MakeGuard, AcquireSlot, SlotTaken, TryNextSlot, LoadPublished, Protect,
         Validate, Clear, Release, Drain, writerVars, domain
<1>2. \A w \in Writers : node'[w] = node[w]
  BY ThreadsAssumption
     DEF ReaderStep, MakeGuard, AcquireSlot, SlotTaken, TryNextSlot, LoadPublished, Protect,
         Validate, Clear, Release, Drain, TypeOK
<1> QED  BY <1>1, <1>2, AccountQuiet

LEMMA AccountWriter ==
    ASSUME TypeOK, HandsFull, ListsTaken, EveryNodeAccountedFor,
           NEW w \in Writers, WriterStep(w)
    PROVE  EveryNodeAccountedFor'
<1>1. CASE Replace(w)  BY <1>1, AccountReplace
<1>2. CASE PushRetired(w) \/ Keep(w)
  BY <1>2, AccountPrepend DEF PushRetired, Keep, Goto, writerVars
<1>3. CASE CountRetired(w) \/ CallScan(w) \/ Probe(w) \/ Subtract(w)
  BY <1>3, AccountQuiet
     DEF CountRetired, CallScan, Probe, ProbeOneOf, Subtract, writerVars, domain
<1>4. CASE ScanTake(w)  BY <1>4, AccountScanTake
<1>5. CASE ScanNext(w)  BY <1>5, AccountScanNext
<1>6. CASE Delete(w)  BY <1>6, AccountDelete
<1>7. CASE Finish(w)  BY <1>7, AccountFinish
<1> QED  BY <1>1, <1>2, <1>3, <1>4, <1>5, <1>6, <1>7 DEF WriterStep

LEMMA AccountStep ==
    TypeOK /\ HandsFull /\ ListsTaken /\ EveryNodeAccountedFor /\ [Next]_vars
        => ListsTaken' /\ EveryNodeAccountedFor'
<1> SUFFICES ASSUME TypeOK, HandsFull, ListsTaken, EveryNodeAccountedFor, [Next]_vars
             PROVE  EveryNodeAccountedFor'
  BY ListsStep
<1>1. CASE UNCHANGED vars  BY <1>1, AccountQuiet DEF vars
<1> QED  BY <1>1, AccountReader, AccountWriter, AccountDestroy DEF Next

\* No node is lost, deleted twice, or deleted while it is published, however many scans
\* overlap, and whatever the readers' stores do (low_latency.h:389-424).
THEOREM NodesAccountedFor == Spec => []EveryNodeAccountedFor
  BY AccountInit, AccountStep, TypedHands, PTL DEF Spec
-----------------------------------------------------------------------------
(* What retired_count_ counts. *)

Counting == {w \in Writers : pc[w] = "count"}
Held == [w \in Writers |-> Unsettled(w)]

\* The two sides of the balance.
Counted == retired_count + Cardinality(Counting)
Garbage == Len(retired) + SumFunction(Held)

\* Without writers there is nothing to count, also when the domain is destroyed.
NothingToCount == Writers = {} => retired = <<>>

Holdings ==
    /\ Held \in [Writers -> Nat]
    /\ \A w \in Writers : InHand(w) = {} \/ Cardinality(InHand(w)) = 1

LEMMA HeldType == TypeOK => Holdings
<1> SUFFICES ASSUME TypeOK PROVE Holdings  OBVIOUS
<1>1. Cardinality({}) = 0 /\ \A x : Cardinality({x}) = 1  BY FS_EmptySet, FS_Singleton
<1>2. ASSUME NEW w \in Writers
      PROVE  (InHand(w) = {} \/ Cardinality(InHand(w)) = 1) /\ Unsettled(w) \in Nat
  <2>1. InHand(w) = {} \/ Cardinality(InHand(w)) = 1  BY <1>1 DEF InHand
  <2>2. mine[w] \in Seq(Nodes) /\ dropped[w] \in Nat  BY DEF TypeOK
  <2>3. Len(mine[w]) \in Nat  BY <2>2
  <2>6. Cardinality(InHand(w)) \in Nat  BY <1>1, <2>1
  <2>4. Len(mine[w]) + Cardinality(InHand(w)) + dropped[w] \in Nat  BY <2>2, <2>3, <2>6
  <2>5. Unsettled(w) \in Nat  BY <2>4 DEF Unsettled
  <2> QED  BY <2>1, <2>5
<1> QED  BY <1>2 DEF Held, Holdings

SidesTyped ==
    /\ IsFiniteSet(Counting) /\ Cardinality(Counting) \in Nat
    /\ retired_count \in Nat /\ Counted \in Nat
    /\ Len(retired) \in Nat /\ SumFunction(Held) \in Nat /\ Garbage \in Nat

LEMMA SidesType == TypeOK => SidesTyped
<1> SUFFICES ASSUME TypeOK PROVE SidesTyped  OBVIOUS
<1>1. IsFiniteSet(Counting) /\ Cardinality(Counting) \in Nat
  BY ThreadsAssumption, FS_Subset, FS_CardinalityType DEF Counting
<1>2. retired_count \in Nat
  BY ModulusAssumption, ThresholdAssumption DEF TypeOK
<1>3. SumFunction(Held) \in Nat
  <2>0. Held \in [Writers -> Nat]  BY HeldType DEF Holdings
  <2>1. CASE Writers = {}
    <3>1. SumFunction(Held) = 0  BY <2>0, <2>1, ThreadsAssumption, SumOfZeros
    <3> QED  BY <3>1
  <2>2. CASE Writers # {}
    <3>1. PICK w \in Writers : TRUE  BY <2>2
    <3> QED  BY <2>0, <3>1, ThreadsAssumption, SumChanges
  <2> QED  BY <2>1, <2>2
<1>4. Len(retired) \in Nat  BY DEF TypeOK
<1> QED  BY <1>1, <1>2, <1>3, <1>4 DEF Counted, Garbage, SidesTyped

\* A step of writer w that changes what w holds, and counts it or not.
LEMMA CountMoves ==
    ASSUME TypeOK, TypeOK', CountBalances, NEW w \in Writers,
           pc[w] # "joined", pc'[w] # "joined",
           \A v \in Writers : v # w => pc'[v] = pc[v] /\ node'[v] = node[v]
                                       /\ mine'[v] = mine[v] /\ dropped'[v] = dropped[v],
           NEW x \in Int, retired_count' \in {x, x % CountModulus},
           x - retired_count + (IF pc'[w] = "count" THEN 1 ELSE 0)
                             - (IF pc[w] = "count" THEN 1 ELSE 0) =
               Len(retired') - Len(retired) + Unsettled(w)' - Unsettled(w)
    PROVE  CountBalances'
<1> SUFFICES ASSUME \A v \in Writers : pc'[v] # "joined"
             PROVE  (retired_count' + Cardinality(Counting')) % CountModulus =
                    Garbage' % CountModulus
  BY DEF CountBalances, Counting, Garbage, Held
<1>0. Holdings /\ Holdings' /\ SidesTyped /\ SidesTyped'
  BY HeldType, SidesType, PTL
<1>1. Counted % CountModulus = Garbage % CountModulus
  <2>1. \A v \in Writers : pc[v] # "joined"  OBVIOUS
  <2> QED  BY <2>1 DEF CountBalances, Counting, Counted, Garbage, Held
<1>2. Unsettled(w) \in Nat /\ Unsettled(w)' \in Nat  BY <1>0 DEF Holdings, Held
<1>3. SumFunction(Held') = SumFunction(Held) - Unsettled(w) + Unsettled(w)'
  <2>1. /\ Held \in [Writers -> Nat] /\ Held' \in [Writers -> Nat]
        /\ Held[w] = Unsettled(w) /\ Held'[w] = Unsettled(w)'
    BY <1>0 DEF Held, Holdings
  <2>2. \A v \in Writers : v # w => Held'[v] = Held[v]
    BY DEF Held, Unsettled, Scanning, InHand
  <2> HIDE DEF Held
  <2> QED  BY <2>1, <2>2, ThreadsAssumption, SumChanges
<1>4. Cardinality(Counting') - Cardinality(Counting) =
      (IF pc'[w] = "count" THEN 1 ELSE 0) - (IF pc[w] = "count" THEN 1 ELSE 0)
  <2>1. IsFiniteSet(Counting) /\ Cardinality(Counting) \in Nat  BY <1>0 DEF SidesTyped
  <2>2. CASE pc[w] = "count" /\ pc'[w] # "count"
    <3>1. Counting' = Counting \ {w} /\ w \in Counting  BY <2>2 DEF Counting
    <3>2. Cardinality(Counting') = Cardinality(Counting) - 1
      BY <2>1, <3>1, FS_RemoveElement
    <3> QED  BY <2>1, <2>2, <3>2
  <2>3. CASE pc[w] # "count" /\ pc'[w] = "count"
    <3>1. Counting' = Counting \cup {w} /\ w \notin Counting  BY <2>3 DEF Counting
    <3>2. Cardinality(Counting') = Cardinality(Counting) + 1
      BY <2>1, <3>1, FS_AddElement
    <3> QED  BY <2>1, <2>3, <3>2
  <2>4. CASE pc[w] = "count" <=> pc'[w] = "count"
    <3>1. Counting' = Counting  BY <2>4 DEF Counting
    <3> QED  BY <2>1, <2>4, <3>1
  <2> QED  BY <2>2, <2>3, <2>4
<1> DEFINE d == Garbage' - Garbage
           y == Cardinality(Counting')
           was == IF pc[w] = "count" THEN 1 ELSE 0
           is == IF pc'[w] = "count" THEN 1 ELSE 0
<1>5. x + y = Counted + d /\ y \in Int /\ d \in Int /\ Garbage + d = Garbage'
  <2>1. Cardinality(Counting') - Cardinality(Counting) = is - was  BY <1>4
  <2>2. x - retired_count + is - was =
        Len(retired') - Len(retired) + Unsettled(w)' - Unsettled(w)
    OBVIOUS
  <2>3. is \in Int /\ was \in Int  OBVIOUS
  <2>4. /\ Counted = retired_count + Cardinality(Counting) /\ retired_count \in Nat
        /\ Garbage = Len(retired) + SumFunction(Held)
        /\ Garbage' = Len(retired') + SumFunction(Held')
        /\ Len(retired) \in Nat /\ Len(retired') \in Nat
        /\ SumFunction(Held) \in Nat /\ SumFunction(Held') \in Nat
        /\ Cardinality(Counting) \in Nat /\ y \in Nat
    BY <1>0 DEF SidesTyped, Counted, Garbage
  <2>5. y = Cardinality(Counting')  OBVIOUS
  <2> HIDE DEF is, was, y
  <2>6. SumFunction(Held') - SumFunction(Held) = Unsettled(w)' - Unsettled(w)
    <3>1. SumFunction(Held') \in Nat /\ SumFunction(Held) \in Nat  BY <2>4
    <3>2. SumFunction(Held') = SumFunction(Held) - Unsettled(w) + Unsettled(w)'  BY <1>3
    <3> QED  BY <1>2, <3>1, <3>2
  <2>7. /\ Garbage \in Int /\ Garbage' \in Int /\ y \in Int /\ retired_count \in Int
        /\ Cardinality(Counting) \in Int
    BY <2>4
  <2>8. Garbage' - Garbage = Len(retired') - Len(retired) + SumFunction(Held') - SumFunction(Held)
    BY <2>4
  <2>9. d = Garbage' - Garbage  OBVIOUS
  <2> HIDE DEF d
  <2>10. d \in Int /\ Garbage + d = Garbage'  BY <2>7, <2>9
  <2>11. d = Len(retired') - Len(retired) + Unsettled(w)' - Unsettled(w)
    BY <1>2, <2>4, <2>6, <2>8, <2>9
  <2>12. d = x - retired_count + is - was  BY <2>2, <2>11
  <2>13. d = x - retired_count + y - Cardinality(Counting)
    BY <2>1, <2>3, <2>5, <2>7, <2>12
  <2>14. x + y = retired_count + Cardinality(Counting) + d  BY <2>7, <2>13
  <2>15. Counted = retired_count + Cardinality(Counting)  BY <2>4
  <2> QED  BY <2>7, <2>10, <2>14, <2>15
<1>6. CountModulus \in Nat \ {0} /\ Counted \in Int /\ Garbage \in Int
  BY <1>0, ModulusAssumption, ThresholdAssumption DEF SidesTyped
<1> HIDE DEF d, y
<1>7. ASSUME NEW n \in {x, x % CountModulus}
      PROVE  (n + y) % CountModulus = (Garbage + d) % CountModulus
  <2>1. ((Counted % CountModulus) + d) % CountModulus = (Counted + d) % CountModulus
    BY <1>5, <1>6, RemainderAdd
  <2>2. ((Garbage % CountModulus) + d) % CountModulus = (Garbage + d) % CountModulus
    BY <1>5, <1>6, RemainderAdd
  <2>3. ((x % CountModulus) + y) % CountModulus = (x + y) % CountModulus
    BY <1>5, <1>6, RemainderAdd
  <2>4. (n + y) % CountModulus = (x + y) % CountModulus  BY <2>3
  <2> QED  BY <1>1, <1>5, <2>1, <2>2, <2>4
<1> QED  BY <1>5, <1>7 DEF y

\* What a writer holds in the steps of a scan; outside it holds nothing that counts.
LEMMA WhatIsHeld ==
    ASSUME TypeOK, HandsFull, ListsTaken, NEW w \in Writers
    PROVE  /\ ~ Scanning(w) => Unsettled(w) = 0
           /\ pc[w] = "next" => Unsettled(w) = Len(mine[w]) + dropped[w]
           /\ pc[w] \in {"probe", "keep", "delete"} =>
                 Unsettled(w) = Len(mine[w]) + dropped[w] + 1
           /\ pc[w] = "subtract" => Unsettled(w) = dropped[w]
<1>1. Len(mine[w]) \in Nat /\ dropped[w] \in Nat  BY DEF TypeOK
<1>2. CASE ~ Scanning(w)  BY <1>2 DEF Unsettled, Scanning
<1>3. CASE pc[w] = "next" \/ pc[w] = "subtract"
  <2>1. InHand(w) = {}  BY <1>3 DEF HandsFull, InHand
  <2>2. Cardinality(InHand(w)) = 0  BY <2>1, FS_EmptySet
  <2>3. pc[w] = "subtract" => Len(mine[w]) = 0  BY DEF ListsTaken
  <2>4. Unsettled(w) = Len(mine[w]) + 0 + dropped[w]  BY <1>3, <2>2 DEF Unsettled, Scanning
  <2> QED  BY <1>1, <1>3, <2>3, <2>4 DEF Scanning
<1>4. CASE pc[w] \in {"probe", "keep", "delete"}
  <2>1. InHand(w) = {node[w]}  BY <1>4 DEF HandsFull, InHand
  <2>2. Cardinality(InHand(w)) = 1  BY <2>1, FS_Singleton
  <2>3. Unsettled(w) = Len(mine[w]) + 1 + dropped[w]  BY <1>4, <2>2 DEF Unsettled, Scanning
  <2> QED  BY <1>1, <1>4, <2>3 DEF Scanning
<1> QED  BY <1>2, <1>3, <1>4 DEF Scanning

Holding(w) ==
    /\ Len(mine[w]) \in Nat /\ dropped[w] \in Nat /\ Len(retired) \in Nat
    /\ ~ Scanning(w) => Unsettled(w) = 0
    /\ pc[w] = "next" => Unsettled(w) = Len(mine[w]) + dropped[w]
    /\ pc[w] \in {"probe", "keep", "delete"} =>
          Unsettled(w) = Len(mine[w]) + dropped[w] + 1
    /\ pc[w] = "subtract" => Unsettled(w) = dropped[w]

AllHolding == \A w \in Writers : Holding(w)

LEMMA HoldingTyped == TypeOK /\ HandsFull /\ ListsTaken => AllHolding
  BY WhatIsHeld DEF AllHolding, Holding, TypeOK

LEMMA CountWriter ==
    ASSUME TypeOK, TypeOK', HandsFull, HandsFull', ListsTaken, ListsTaken', CountBalances,
           NEW w \in Writers, WriterStep(w)
    PROVE  CountBalances'
<1> USE DEF Goto, readerVars, writerVars, domain
<1>0. AllHolding /\ AllHolding' /\ SidesTyped /\ SidesTyped'
  BY HoldingTyped, SidesType, PTL
<1>1. \A v \in Writers : v # w => pc'[v] = pc[v] /\ node'[v] = node[v]
                                  /\ mine'[v] = mine[v] /\ dropped'[v] = dropped[v]
  BY DEF TypeOK, WriterStep, Replace, PushRetired, CountRetired, CallScan, ScanTake,
         ScanNext, Probe, ProbeOneOf, Keep, Delete, Subtract, Finish, Prepend
<1>2. pc[w] # "joined" /\ pc'[w] # "joined"
  BY DEF TypeOK, WriterStep, Replace, PushRetired, CountRetired, CallScan, ScanTake,
         ScanNext, Probe, ProbeOneOf, Keep, Delete, Subtract, Finish, Prepend
<1> DEFINE was == IF pc[w] = "count" THEN 1 ELSE 0
           is == IF pc'[w] = "count" THEN 1 ELSE 0
           more == Len(retired') - Len(retired) + Unsettled(w)' - Unsettled(w)
<1>3. ASSUME NEW x \in Int, retired_count' \in {x, x % CountModulus},
             x - retired_count + is - was = more
      PROVE  CountBalances'
  BY <1>1, <1>2, <1>3, CountMoves
<1>4. retired_count \in Nat /\ retired_count' \in Nat  BY <1>0 DEF SidesTyped
<1>5. Holding(w) /\ Holding(w)'  BY <1>0 DEF AllHolding
<1>6. CASE Replace(w) \/ CallScan(w) \/ Finish(w)
  <2>1. /\ UNCHANGED <<retired, retired_count>> /\ was = 0 /\ is = 0
        /\ ~ Scanning(w) /\ ~ Scanning(w)'
    BY <1>6 DEF Replace, CallScan, Finish, TypeOK, Scanning
  <2>2. more = 0  BY <1>5, <2>1 DEF Holding
  <2> QED  BY <1>3, <1>4, <2>1, <2>2
<1>7. CASE PushRetired(w)
  <2>1. /\ UNCHANGED retired_count /\ was = 0 /\ is = 1 /\ retired' = <<node[w]>> \o retired
        /\ ~ Scanning(w) /\ ~ Scanning(w)'
    BY <1>7 DEF PushRetired, Prepend, TypeOK, Scanning
  <2>2. Len(retired') = Len(retired) + 1  BY <2>1 DEF TypeOK
  <2>3. more = 1  BY <1>5, <2>1, <2>2 DEF Holding
  <2> QED  BY <1>3, <1>4, <2>1, <2>3
<1>8. CASE CountRetired(w)
  <2>1. /\ UNCHANGED retired /\ was = 1 /\ is = 0 /\ ~ Scanning(w) /\ ~ Scanning(w)'
        /\ retired_count' = (retired_count + 1) % CountModulus
    BY <1>8 DEF CountRetired, TypeOK, Scanning
  <2>2. more = 0  BY <1>5, <2>1 DEF Holding
  <2> DEFINE x == retired_count + 1
  <2>3. x \in Int /\ x - retired_count + is - was = more  BY <1>4, <2>1, <2>2
  <2>4. retired_count' \in {x, x % CountModulus}  BY <2>1
  <2> HIDE DEF x, is, was, more
  <2> QED  BY <1>3, <2>3, <2>4
<1>9. CASE ScanTake(w)
  <2>1. /\ UNCHANGED retired_count /\ was = 0 /\ is = 0 /\ ~ Scanning(w) /\ pc'[w] = "next"
        /\ mine'[w] = retired /\ dropped'[w] = 0 /\ retired' = <<>>
    BY <1>9 DEF ScanTake, TypeOK, Scanning
  <2>2. more = 0  BY <1>5, <2>1 DEF Holding
  <2> QED  BY <1>3, <1>4, <2>1, <2>2
<1>10. CASE ScanNext(w) /\ mine[w] = <<>>
  <2>1. /\ UNCHANGED <<retired, retired_count>> /\ was = 0 /\ is = 0
        /\ pc[w] = "next" /\ pc'[w] = "subtract" /\ dropped'[w] = dropped[w] /\ Len(mine[w]) = 0
    BY <1>10 DEF ScanNext, TypeOK
  <2>2. more = 0  BY <1>5, <2>1 DEF Holding
  <2> QED  BY <1>3, <1>4, <2>1, <2>2
<1>11. CASE ScanNext(w) /\ mine[w] # <<>>
  <2>1. /\ UNCHANGED <<retired, retired_count>> /\ was = 0 /\ is = 0
        /\ pc[w] = "next" /\ pc'[w] = "probe" /\ dropped'[w] = dropped[w]
        /\ mine'[w] = Tail(mine[w])
    BY <1>11 DEF ScanNext, TypeOK
  <2>2. Len(mine'[w]) = Len(mine[w]) - 1  BY <1>11, <2>1 DEF TypeOK
  <2>3. more = 0  BY <1>5, <2>1, <2>2 DEF Holding
  <2> QED  BY <1>3, <1>4, <2>1, <2>3
<1>12. CASE Probe(w)
  <2>1. /\ UNCHANGED <<retired, retired_count>> /\ was = 0 /\ is = 0
        /\ pc[w] = "probe" /\ pc'[w] \in {"probe", "keep", "delete"}
        /\ dropped'[w] = dropped[w] /\ mine'[w] = mine[w]
    BY <1>12 DEF Probe, ProbeOneOf, TypeOK
  <2>2. more = 0  BY <1>5, <2>1 DEF Holding
  <2> QED  BY <1>3, <1>4, <2>1, <2>2
<1>13. CASE Keep(w)
  <2>1. /\ UNCHANGED retired_count /\ was = 0 /\ is = 0 /\ retired' = <<node[w]>> \o retired
        /\ pc[w] = "keep" /\ pc'[w] = "next" /\ dropped'[w] = dropped[w] /\ mine'[w] = mine[w]
    BY <1>13 DEF Keep, Prepend, TypeOK
  <2>2. Len(retired') = Len(retired) + 1  BY <2>1 DEF TypeOK
  <2>3. more = 0  BY <1>5, <2>1, <2>2 DEF Holding
  <2> QED  BY <1>3, <1>4, <2>1, <2>3
<1>14. CASE Delete(w)
  <2>1. /\ UNCHANGED <<retired, retired_count>> /\ was = 0 /\ is = 0 /\ pc[w] = "delete"
        /\ pc'[w] = "next" /\ dropped'[w] = dropped[w] + 1 /\ mine'[w] = mine[w]
    BY <1>14 DEF Delete, TypeOK
  <2>2. more = 0  BY <1>5, <2>1 DEF Holding
  <2> QED  BY <1>3, <1>4, <2>1, <2>2
<1>15. CASE Subtract(w)
  <2>1. /\ UNCHANGED retired /\ was = 0 /\ is = 0 /\ pc[w] = "subtract" /\ ~ Scanning(w)'
        /\ retired_count' = (retired_count - dropped[w]) % CountModulus
    BY <1>15 DEF Subtract, TypeOK, Scanning
  <2>2. more = 0 - dropped[w] /\ dropped[w] \in Nat  BY <1>5, <2>1 DEF Holding
  <2>3. /\ retired_count - dropped[w] \in Int
        /\ retired_count - dropped[w] - retired_count + is - was = more
    BY <1>4, <2>1, <2>2
  <2> QED  BY <1>3, <2>1, <2>3
<1> QED
  BY <1>6, <1>7, <1>8, <1>9, <1>10, <1>11, <1>12, <1>13, <1>14, <1>15 DEF WriterStep

LEMMA CountInit == Init => CountBalances /\ NothingToCount
<1> SUFFICES ASSUME Init PROVE CountBalances /\ NothingToCount  OBVIOUS
<1>1. \A w \in Writers : ~ Scanning(w) /\ pc[w] = "idle"  BY DEF Init, Scanning
<1>2. Held \in [Writers -> Nat] /\ \A w \in Writers : Held[w] = 0
  BY <1>1 DEF Held, Unsettled
<1>3. SumFunction(Held) = 0  BY <1>2, ThreadsAssumption, SumOfZeros
<1>4. Counting = {}  BY <1>1 DEF Counting
<1>5. Cardinality(Counting) = 0  BY <1>4, FS_EmptySet
<1>6. retired_count = 0 /\ Len(retired) = 0  BY DEF Init
<1>7. retired_count + Cardinality(Counting) = Len(retired) + SumFunction(Held)
  BY <1>3, <1>5, <1>6
<1> QED  BY <1>7 DEF Init, CountBalances, NothingToCount, Counting, Held

LEMMA CountStep ==
    /\ TypeOK /\ HandsFull /\ ListsTaken /\ CountBalances /\ NothingToCount
    /\ TypeOK' /\ HandsFull' /\ ListsTaken' /\ [Next]_vars
    => CountBalances' /\ NothingToCount'
<1> SUFFICES ASSUME TypeOK, HandsFull, ListsTaken, CountBalances, NothingToCount,
                    TypeOK', HandsFull', ListsTaken', [Next]_vars
             PROVE  CountBalances' /\ NothingToCount'
  OBVIOUS
<1> USE DEF readerVars, writerVars, domain
<1>1. ASSUME UNCHANGED <<retired, retired_count, mine, dropped>>,
             \A w \in Writers : pc'[w] = pc[w] /\ node'[w] = node[w]
      PROVE  CountBalances' /\ NothingToCount'
  <2>1. Counting' = Counting /\ Held' = Held
    BY <1>1 DEF Counting, Held, Unsettled, Scanning, InHand
  <2>2. (\A w \in Writers : pc'[w] # "joined") <=> \A w \in Writers : pc[w] # "joined"
    BY <1>1
  <2> QED  BY <1>1, <2>1, <2>2 DEF CountBalances, NothingToCount, Counting, Held
<1>2. ASSUME NEW r \in Readers, ReaderStep(r) PROVE CountBalances' /\ NothingToCount'
  <2>1. UNCHANGED <<retired, retired_count, mine, dropped>>
    BY <1>2 DEF ReaderStep, MakeGuard, AcquireSlot, SlotTaken, TryNextSlot, LoadPublished,
                Protect, Validate, Clear, Release, Drain
  <2>2. \A w \in Writers : pc'[w] = pc[w] /\ node'[w] = node[w]
    BY <1>2, ThreadsAssumption
       DEF ReaderStep, MakeGuard, AcquireSlot, SlotTaken, TryNextSlot, LoadPublished,
           Protect, Validate, Clear, Release, Drain, Goto, TypeOK
  <2> QED  BY <1>1, <2>1, <2>2
<1>3. CASE Destroy
  <2>1. CASE Writers = {}
    <3>1. UNCHANGED <<retired, retired_count, mine, dropped>>
      BY <1>3, <2>1 DEF Destroy, NothingToCount
    <3> QED  BY <1>1, <2>1, <3>1
  <2>2. CASE Writers # {}
    <3>1. \A w \in Writers : pc'[w] = "joined"  BY <1>3 DEF Destroy
    <3> QED  BY <2>2, <3>1 DEF CountBalances, NothingToCount
  <2> QED  BY <2>1, <2>2
<1>4. CASE UNCHANGED vars  BY <1>1, <1>4 DEF vars
<1>5. ASSUME NEW w \in Writers, WriterStep(w) PROVE CountBalances' /\ NothingToCount'
  BY <1>5, CountWriter DEF NothingToCount
<1> QED  BY <1>2, <1>3, <1>4, <1>5 DEF Next

LEMMA ListsOfScans == Spec => []ListsTaken
<1>1. Init => ListsTaken  BY AccountInit
<1>2. TypeOK /\ ListsTaken /\ [Next]_vars => ListsTaken'  BY ListsStep
<1> QED  BY <1>1, <1>2, TypedHands, PTL DEF Spec

\* retired_count_ is exact up to the nodes pushed and not yet counted and to what running
\* scans have not subtracted, for any number of writers that scan side by side, although it
\* wraps below zero on the way (low_latency.h:395-397, :421).
THEOREM CountStaysBalanced == Spec => []CountBalances
  BY CountInit, CountStep, ListsOfScans, TypedHands, PTL DEF Spec
-----------------------------------------------------------------------------
(* Without store buffering no store waits. *)

Unbuffered == ~ StoreBuffering => \A r \in Readers : buffer[r] = <<>>

LEMMA UnbufferedStep == TypeOK /\ Unbuffered /\ [Next]_vars => Unbuffered'
<1> SUFFICES ASSUME TypeOK, Unbuffered, [Next]_vars, ~ StoreBuffering
             PROVE  UNCHANGED buffer
  BY DEF Unbuffered
<1>1. ASSUME NEW r \in Readers, ReaderStep(r) PROVE UNCHANGED buffer
  BY <1>1 DEF Unbuffered, ReaderStep, MakeGuard, AcquireSlot, SlotTaken, TryNextSlot,
              LoadPublished, Protect, Validate, Clear, Release, Drain, Store, readerVars
<1>2. ASSUME NEW w \in Writers, WriterStep(w) PROVE UNCHANGED buffer
  BY <1>2 DEF WriterStep, Replace, PushRetired, CountRetired, CallScan, ScanTake, ScanNext,
              Probe, ProbeOneOf, Keep, Delete, Subtract, Finish, readerVars
<1> QED  BY <1>1, <1>2 DEF Next, Destroy, vars

\* What a step of a writer leaves alone.
LEMMA WriterFrame ==
    ASSUME TypeOK, NEW w \in Writers, WriterStep(w)
    PROVE  /\ UNCHANGED <<hazards, active, slot, buffer>>
           /\ \A r \in Readers : pc'[r] = pc[r] /\ node'[r] = node[r]
<1>1. UNCHANGED <<hazards, active, slot, buffer>>
  BY DEF WriterStep, Replace, PushRetired, CountRetired, CallScan, ScanTake, ScanNext,
         Probe, ProbeOneOf, Keep, Delete, Subtract, Finish, readerVars, domain
<1>2. \A r \in Readers : r # w  BY ThreadsAssumption
<1>3. \A r \in Readers : pc'[r] = pc[r]
  <2>1. \E to \in Steps : pc' = [pc EXCEPT ![w] = to] \/ UNCHANGED pc
    BY DEF WriterStep, Replace, PushRetired, CountRetired, CallScan, ScanTake, ScanNext,
           Probe, ProbeOneOf, Keep, Delete, Subtract, Finish, Goto, Steps
  <2> QED  BY <1>2, <2>1 DEF TypeOK
<1>4. \A r \in Readers : node'[r] = node[r]
  BY <1>2 DEF WriterStep, Replace, PushRetired, CountRetired, CallScan, ScanTake, ScanNext,
           Probe, ProbeOneOf, Keep, Delete, Subtract, Finish, Prepend, domain, TypeOK
<1> QED  BY <1>1, <1>3, <1>4
-----------------------------------------------------------------------------
(* Who owns a slot. *)

\* The last conjunct of SlotInv: the store that frees a slot is the last of its call.
FreesLast(r) ==
    \A i \in DOMAIN buffer[r] :
        buffer[r][i].to = "active" =>
            i = Len(buffer[r]) /\ pc[r] \in {"idle", "acquire"}
FreeingStoreLast == \A r \in Readers : FreesLast(r)

\* A step that changes the state of reader r only.
LEMMA OthersFree ==
    ASSUME SlotInv, NEW r \in Readers, FreesLast(r)',
           \A q \in Readers \ {r} : pc'[q] = pc[q] /\ buffer'[q] = buffer[q]
    PROVE  FreeingStoreLast'
<1>1. \A q \in Readers : FreesLast(q)  BY DEF SlotInv, FreesLast
<1>2. \A q \in Readers \ {r} : FreesLast(q)'  BY <1>1 DEF FreesLast
<1> QED  BY <1>2 DEF FreeingStoreLast

LEMMA SlotInit == Init => SlotInv /\ Unbuffered
  BY DEF Init, SlotInv, Unbuffered, Owns, GivesBack, Holds

\* A step that changes neither owners nor flags.
LEMMA SlotQuiet ==
    ASSUME SlotInv, UNCHANGED active, FreeingStoreLast',
           \A r \in Readers, s \in SlotIds : Owns(r, s)' <=> Owns(r, s)
    PROVE  SlotInv'
  BY DEF SlotInv, FreeingStoreLast, FreesLast

\* A step of r that does not touch the state of another reader.
LEMMA OthersOwn ==
    ASSUME NEW r \in Readers, NEW q \in Readers, pc'[q] = pc[q], slot'[q] = slot[q],
           buffer'[q] = buffer[q]
    PROVE  \A s \in SlotIds : Owns(q, s)' <=> Owns(q, s)
  BY DEF Owns, GivesBack, Holds

\* A reader whose guard holds its slot gives none back at the same time.
LEMMA HolderKeeps ==
    ASSUME SlotInv, NEW r \in Readers, Holds(r)
    PROVE  \A i \in DOMAIN buffer[r] : buffer[r][i].to # "active"
  BY DEF SlotInv, Holds

\* A reader stores to its hazard slot.
LEMMA SlotHazardStore ==
    ASSUME TypeOK, SlotInv, NEW r \in Readers, NEW value \in Nodes \cup {Null},
           Holds(r), Holds(r)', Store(r, "hazard", value), UNCHANGED slot,
           \A q \in Readers \ {r} : pc'[q] = pc[q]
    PROVE  SlotInv'
<1> DEFINE store == [to |-> "hazard", slot |-> slot[r], value |-> value]
<1>1. UNCHANGED active  BY DEF Store, Perform
<1>2. /\ \A q \in Readers \ {r} : buffer'[q] = buffer[q]
      /\ buffer'[r] = buffer[r] \/ buffer'[r] = Append(buffer[r], store)
  BY DEF Store, TypeOK
<1>3. \A i \in DOMAIN buffer'[r] : buffer'[r][i].to # "active"
  <2>1. buffer[r] \in Seq(Stores)  BY DEF TypeOK
  <2>2. ASSUME buffer'[r] = Append(buffer[r], store), NEW i \in DOMAIN buffer'[r]
        PROVE  buffer'[r][i].to # "active"
    <3>1. CASE i = Len(buffer[r]) + 1  BY <2>1, <2>2, <3>1
    <3>2. CASE i # Len(buffer[r]) + 1
      <4>1. i \in DOMAIN buffer[r] /\ buffer'[r][i] = buffer[r][i]  BY <2>1, <2>2, <3>2
      <4> QED  BY <4>1, HolderKeeps
    <3> QED  BY <3>1, <3>2
  <2> QED  BY <1>2, <2>2, HolderKeeps
<1>4. FreeingStoreLast'  BY <1>2, <1>3, OthersFree DEF FreesLast
<1>5. \A s \in SlotIds : Owns(r, s)' <=> Owns(r, s)
  BY <1>3, HolderKeeps DEF Owns, GivesBack
<1>6. \A q \in Readers, s \in SlotIds : Owns(q, s)' <=> Owns(q, s)
  BY <1>2, <1>5, OthersOwn
<1> QED  BY <1>1, <1>4, <1>6, SlotQuiet

LEMMA SlotAcquire ==
    ASSUME TypeOK, SlotInv, NEW r \in Readers, AcquireSlot(r) PROVE SlotInv'
<1> USE DEF AcquireSlot, Goto, readerVars, TypeOK
<1>1. \A q \in Readers : ~ Owns(q, slot[r])  BY DEF SlotInv
<1>2. \A s \in SlotIds : ~ Owns(r, s)  BY DEF Owns, GivesBack, Holds
<1>3. \A s \in SlotIds : Owns(r, s)' <=> s = slot[r]
  BY DEF Owns, GivesBack, Holds
<1>4. \A q \in Readers \ {r}, s \in SlotIds : Owns(q, s)' <=> Owns(q, s)
  BY OthersOwn
<1>5. \A s \in SlotIds : active'[s] <=> active[s] \/ s = slot[r]  OBVIOUS
<1>6. FreeingStoreLast'  BY OthersFree DEF FreesLast
<1>7. ASSUME NEW s \in SlotIds PROVE active'[s] <=> \E q \in Readers : Owns(q, s)'
  <2>1. active[s] <=> \E q \in Readers : Owns(q, s)  BY DEF SlotInv
  <2>2. CASE s = slot[r]  BY <1>3, <1>5, <2>2
  <2>3. CASE s # slot[r]
    <3>1. \A q \in Readers : Owns(q, s)' <=> Owns(q, s)  BY <1>2, <1>3, <1>4, <2>3
    <3> QED  BY <1>5, <2>1, <2>3, <3>1
  <2> QED  BY <2>2, <2>3
<1>8. ASSUME NEW p \in Readers, NEW q \in Readers, NEW s \in SlotIds, Owns(p, s)', Owns(q, s)'
      PROVE  p = q
  <2>1. CASE s = slot[r]
    <3>1. p # r => FALSE  BY <1>1, <1>4, <1>8, <2>1
    <3>2. q # r => FALSE  BY <1>1, <1>4, <1>8, <2>1
    <3> QED  BY <3>1, <3>2
  <2>2. CASE s # slot[r]
    <3>1. p # r /\ q # r  BY <1>3, <1>8, <2>2
    <3>2. Owns(p, s) /\ Owns(q, s)  BY <3>1, <1>4, <1>8
    <3> QED  BY <3>2 DEF SlotInv
  <2> QED  BY <2>1, <2>2
<1> QED  BY <1>6, <1>7, <1>8 DEF SlotInv, FreeingStoreLast, FreesLast

\* The store that frees slot s reaches memory: its owner r owns nothing any more.
LEMMA SlotFreed ==
    ASSUME TypeOK, SlotInv, NEW r \in Readers, NEW s \in SlotIds, Owns(r, s),
           active' = [active EXCEPT ![s] = FALSE], FreeingStoreLast',
           \A t \in SlotIds : ~ Owns(r, t)',
           \A t \in SlotIds : Owns(r, t) => t = s,
           \A q \in Readers \ {r}, t \in SlotIds : Owns(q, t)' <=> Owns(q, t)
    PROVE  SlotInv'
<1>1. ASSUME NEW t \in SlotIds PROVE active'[t] <=> \E q \in Readers : Owns(q, t)'
  <2>1. active[t] <=> \E q \in Readers : Owns(q, t)  BY DEF SlotInv
  <2>2. active'[t] <=> active[t] /\ t # s  BY DEF TypeOK
  <2>3. \A q \in Readers : Owns(q, s) => q = r  BY DEF SlotInv
  <2> QED  BY <2>1, <2>2, <2>3
<1>2. ASSUME NEW p \in Readers, NEW q \in Readers, NEW t \in SlotIds, Owns(p, t)', Owns(q, t)'
      PROVE  p = q
  BY <1>2 DEF SlotInv
<1> QED  BY <1>1, <1>2 DEF SlotInv, FreeingStoreLast, FreesLast

LEMMA SlotRelease ==
    ASSUME TypeOK, SlotInv, NEW r \in Readers, Release(r) PROVE SlotInv'
<1> DEFINE store == [to |-> "active", slot |-> slot[r], value |-> FALSE]
<1>1. /\ pc[r] = "release" /\ pc' = [pc EXCEPT ![r] = "idle"] /\ UNCHANGED slot
      /\ slot[r] \in SlotIds /\ buffer[r] \in Seq(Stores)
  BY DEF Release, Goto, TypeOK
<1>2. Holds(r) /\ ~ Holds(r)'  BY <1>1 DEF Holds, TypeOK
<1>3. \A s \in SlotIds : Owns(r, s) <=> s = slot[r]
  BY <1>2, HolderKeeps DEF Owns, GivesBack
<1>4. \A q \in Readers \ {r} : pc'[q] = pc[q] /\ buffer'[q] = buffer[q]
  BY <1>1 DEF Release, Store, TypeOK
<1>5. \A q \in Readers \ {r}, s \in SlotIds : Owns(q, s)' <=> Owns(q, s)
  BY <1>1, <1>4, OthersOwn
<1>6. CASE StoreBuffering
  <2>1. UNCHANGED active /\ buffer'[r] = Append(buffer[r], store)
    BY <1>6 DEF Release, Store, TypeOK
  <2>2. ASSUME NEW i \in DOMAIN buffer'[r]
        PROVE  buffer'[r][i].to = "active" <=> i = Len(buffer'[r])
    <3>1. CASE i = Len(buffer[r]) + 1  BY <1>1, <2>1, <3>1
    <3>2. CASE i # Len(buffer[r]) + 1
      <4>1. i \in DOMAIN buffer[r] /\ buffer'[r][i] = buffer[r][i]
            /\ Len(buffer'[r]) = Len(buffer[r]) + 1
        BY <1>1, <2>1, <2>2, <3>2
      <4> QED  BY <1>2, <3>2, <4>1, HolderKeeps
    <3> QED  BY <3>1, <3>2
  <2>3. /\ Len(buffer'[r]) \in DOMAIN buffer'[r]
        /\ buffer'[r][Len(buffer'[r])] = store
    BY <1>1, <2>1
  <2>4. \A s \in SlotIds : Owns(r, s)' <=> s = slot[r]
    BY <1>2, <2>2, <2>3 DEF Owns, GivesBack
  <2>5. FreeingStoreLast'
    BY <1>1, <1>4, <2>2, OthersFree DEF FreesLast, TypeOK
  <2> QED  BY <1>3, <1>5, <2>1, <2>4, <2>5, SlotQuiet
<1>7. CASE ~ StoreBuffering
  <2>1. UNCHANGED buffer /\ active' = [active EXCEPT ![slot[r]] = FALSE]
    BY <1>7 DEF Release, Store, Perform
  <2>2. \A s \in SlotIds : ~ Owns(r, s)'
    BY <1>2, <2>1, HolderKeeps DEF Owns, GivesBack
  <2>3. FreeingStoreLast'
    BY <1>2, <1>4, <2>1, HolderKeeps, OthersFree DEF FreesLast
  <2> QED  BY <1>1, <1>3, <1>5, <2>1, <2>2, <2>3, SlotFreed
<1> QED  BY <1>6, <1>7

LEMMA SlotDrain ==
    ASSUME TypeOK, SlotInv, NEW r \in Readers, Drain(r) PROVE SlotInv'
<1> DEFINE s0 == Head(buffer[r])
<1>1. /\ buffer[r] \in Seq(Stores) /\ buffer[r] # <<>> /\ s0 \in Stores
      /\ s0 = buffer[r][1] /\ buffer'[r] = Tail(buffer[r])
      /\ UNCHANGED <<pc, slot>> /\ Perform(s0)
      /\ \A q \in Readers \ {r} : buffer'[q] = buffer[q]
  BY DEF Drain, TypeOK
<1>2. \A i \in DOMAIN buffer'[r] : /\ i + 1 \in DOMAIN buffer[r]
                                   /\ buffer'[r][i] = buffer[r][i + 1]
                                   /\ Len(buffer[r]) = Len(buffer'[r]) + 1
  BY <1>1
<1>3. FreeingStoreLast'
  <2>1. FreesLast(r)  BY DEF SlotInv, FreesLast
  <2>2. FreesLast(r)'  BY <1>1, <1>2, <2>1 DEF FreesLast
  <2> QED  BY <1>1, <2>2, OthersFree
<1>4. \A q \in Readers \ {r}, s \in SlotIds : Owns(q, s)' <=> Owns(q, s)
  BY <1>1, OthersOwn
<1>5. CASE s0.to = "hazard"
  <2>1. UNCHANGED active  BY <1>1, <1>5 DEF Perform
  <2>2. \A s \in SlotIds : GivesBack(r, s)' => GivesBack(r, s)
    BY <1>2 DEF GivesBack
  <2>3. ASSUME NEW s \in SlotIds, GivesBack(r, s) PROVE GivesBack(r, s)'
    <3>1. PICK i \in DOMAIN buffer[r] : buffer[r][i].to = "active" /\ buffer[r][i].slot = s
      BY <2>3 DEF GivesBack
    <3>2. i # 1  BY <1>1, <1>5, <3>1
    <3>3. i - 1 \in DOMAIN buffer'[r] /\ buffer'[r][i - 1] = buffer[r][i]
      BY <1>1, <3>1, <3>2
    <3> QED  BY <3>1, <3>3 DEF GivesBack
  <2>4. \A s \in SlotIds : Owns(r, s)' <=> Owns(r, s)
    BY <1>1, <2>2, <2>3 DEF Owns, Holds
  <2> QED  BY <1>3, <1>4, <2>1, <2>4, SlotQuiet
<1>6. CASE s0.to = "active"
  <2>1. s0.slot \in SlotIds /\ active' = [active EXCEPT ![s0.slot] = FALSE]
    BY <1>1, <1>6 DEF Perform, Stores
  <2>2. 1 \in DOMAIN buffer[r]  BY <1>1
  <2>3. Len(buffer[r]) = 1 /\ pc[r] \in {"idle", "acquire"}
    BY <1>1, <1>6, <2>2 DEF SlotInv
  <2>4. DOMAIN buffer'[r] = {} /\ DOMAIN buffer[r] = {1}
    <3>1. DOMAIN buffer[r] = 1..Len(buffer[r]) /\ DOMAIN buffer'[r] = 1..Len(buffer'[r])
      BY <1>1
    <3>2. Len(buffer'[r]) = 0  BY <1>1, <2>3
    <3> QED  BY <2>3, <3>1, <3>2
  <2>5. ~ Holds(r) /\ ~ Holds(r)'  BY <1>1, <2>3 DEF Holds
  <2>6. \A s \in SlotIds : Owns(r, s) <=> s = s0.slot
    BY <1>1, <1>6, <2>4, <2>5 DEF Owns, GivesBack
  <2>7. \A s \in SlotIds : ~ Owns(r, s)'
    BY <2>4, <2>5 DEF Owns, GivesBack
  <2> QED  BY <1>3, <1>4, <2>1, <2>6, <2>7, SlotFreed
<1> QED  BY <1>1, <1>5, <1>6 DEF Stores

LEMMA SlotReader ==
    ASSUME TypeOK, SlotInv, NEW r \in Readers, ReaderStep(r) PROVE SlotInv'
<1> USE DEF Goto, readerVars, domain, TypeOK
<1>1. CASE MakeGuard(r) \/ SlotTaken(r)
  <2>1. /\ UNCHANGED <<active, buffer>>
        /\ ~ Holds(r) /\ ~ Holds(r)'
        /\ pc'[r] \in {"acquire", "terminated"}
        /\ pc'[r] = "terminated" => buffer[r] = <<>>
        /\ \A q \in Readers \ {r} : pc'[q] = pc[q] /\ slot'[q] = slot[q]
    BY <1>1 DEF MakeGuard, SlotTaken, TryNextSlot, Holds
  <2>2. FreesLast(r)'
    <3>1. FreesLast(r)  BY DEF SlotInv, FreesLast
    <3> QED  BY <2>1, <3>1 DEF FreesLast
  <2>3. \A q \in Readers, s \in SlotIds : Owns(q, s)' <=> Owns(q, s)
    BY <2>1 DEF Owns, GivesBack, Holds
  <2> QED  BY <2>1, <2>2, <2>3, OthersFree, SlotQuiet
<1>2. CASE AcquireSlot(r)  BY <1>2, SlotAcquire
<1>3. CASE LoadPublished(r) \/ Validate(r)
  <2>1. /\ UNCHANGED <<active, buffer, slot>>
        /\ Holds(r) /\ Holds(r)'
        /\ \A q \in Readers \ {r} : pc'[q] = pc[q]
    BY <1>3 DEF LoadPublished, Validate, Holds
  <2>2. FreesLast(r)'  BY <2>1, HolderKeeps DEF FreesLast
  <2>3. \A q \in Readers, s \in SlotIds : Owns(q, s)' <=> Owns(q, s)
    BY <2>1 DEF Owns, GivesBack, Holds
  <2> QED  BY <2>1, <2>2, <2>3, OthersFree, SlotQuiet
<1>4. CASE Protect(r)  BY <1>4, SlotHazardStore DEF Protect, Holds
<1>5. CASE Clear(r)  BY <1>5, SlotHazardStore DEF Clear, Holds
<1>6. CASE Release(r)  BY <1>6, SlotRelease
<1>7. CASE Drain(r)  BY <1>7, SlotDrain
<1> QED  BY <1>1, <1>2, <1>3, <1>4, <1>5, <1>6, <1>7 DEF ReaderStep

LEMMA SlotStep == TypeOK /\ SlotInv /\ [Next]_vars => SlotInv'
<1> SUFFICES ASSUME TypeOK, SlotInv, [Next]_vars PROVE SlotInv'  OBVIOUS
<1>1. ASSUME NEW w \in Writers, WriterStep(w) PROVE SlotInv'
  BY <1>1, WriterFrame DEF SlotInv, Owns, GivesBack, Holds
<1>2. CASE Destroy
  <2>1. \A r \in Readers : buffer[r] = <<>> /\ ~ Holds(r) /\ ~ Holds(r)'
    BY <1>2 DEF Destroy, Holds, TypeOK
  <2>2. \A r \in Readers, s \in SlotIds : ~ Owns(r, s) /\ ~ Owns(r, s)'
    BY <1>2, <2>1 DEF Destroy, Owns, GivesBack
  <2>3. FreeingStoreLast'  BY <1>2, <2>1 DEF Destroy, FreeingStoreLast, FreesLast
  <2> QED  BY <1>2, <2>2, <2>3, SlotQuiet DEF Destroy
<1>3. CASE UNCHANGED vars
  BY <1>3 DEF vars, SlotInv, Owns, GivesBack, Holds
<1> QED  BY <1>1, <1>2, <1>3, SlotReader DEF Next

LEMMA SlotsOwned == Spec => [](SlotInv /\ Unbuffered)
  BY SlotInit, SlotStep, UnbufferedStep, TypeCorrect, PTL DEF Spec

\* A slot is in use exactly while one reader owns it, up to the moment the store that
\* gives it back reaches memory (low_latency.h:347-373, :440-448).
THEOREM SlotsHaveOneOwner == Spec => []SlotInv
  BY SlotsOwned, PTL

\* No two guards share a slot, also when a reader's stores lag behind the loads that
\* follow them: the exchange that takes a slot comes after the store that frees it has
\* reached memory, and that store is the last of its guard (low_latency.h:347-373).
THEOREM SlotsAreExclusive == Spec => []SlotsExclusive
<1>1. TypeOK /\ SlotInv => SlotsExclusive
  BY DEF TypeOK, SlotInv, SlotsExclusive, Owns
<1> QED  BY <1>1, TypeCorrect, SlotsOwned, PTL
-----------------------------------------------------------------------------
(* Why a search succeeds. *)

Below(b) == {q \in Readers : Position(q) < b}
BehindSearch == \A r \in Readers : Searches(r) => Cardinality(Below(slot[r])) >= slot[r]
SearchStart ==
    \A r \in Readers :
        /\ pc[r] = "acquire" /\ buffer[r] # <<>> => slot[r] = 0
        /\ buffer[r] # <<>> => Holds(r) \/ Last(buffer[r]).to = "active"

LEMMA SearchParts == SearchInv <=> BehindSearch /\ SearchStart
  BY DEF SearchInv, BehindSearch, SearchStart, Below

LEMMA SetGrows ==
    ASSUME NEW S, NEW T, S \subseteq T, IsFiniteSet(T)
    PROVE  Cardinality(S) \in Nat /\ Cardinality(T) \in Nat /\ Cardinality(S) <= Cardinality(T)
  BY FS_Subset, FS_CardinalityType

LEMMA OneMore ==
    ASSUME NEW S, NEW T, S \subseteq T, IsFiniteSet(T), NEW x \in T \ S
    PROVE  Cardinality(S) + 1 <= Cardinality(T)
<1>1. IsFiniteSet(S)  BY FS_Subset
<1>2. Cardinality(S \cup {x}) = Cardinality(S) + 1  BY <1>1, FS_AddElement
<1>3. S \cup {x} \subseteq T  OBVIOUS
<1> QED  BY <1>2, <1>3, SetGrows

Positioned == \A r \in Readers : Position(r) \in SlotIds /\ Position(r) \in Nat

LEMMA PositionType == TypeOK => Positioned
<1> SUFFICES ASSUME TypeOK, NEW r \in Readers
             PROVE  Position(r) \in SlotIds /\ Position(r) \in Nat
  BY DEF Positioned
<1>1. slot[r] \in SlotIds /\ 0 \in SlotIds  BY SlotsAssumption DEF TypeOK, SlotIds
<1>2. ASSUME buffer[r] # <<>> PROVE Last(buffer[r]).slot \in SlotIds
  <2>1. buffer[r] \in Seq(Stores) /\ Len(buffer[r]) \in 1..Len(buffer[r])
    BY <1>2 DEF TypeOK
  <2>2. Last(buffer[r]) \in Stores  BY <2>1 DEF Last
  <2> QED  BY <2>2 DEF Stores
<1>3. Position(r) \in SlotIds  BY <1>1, <1>2 DEF Position
<1> QED  BY <1>3, SlotsAssumption DEF SlotIds

LEMMA BelowFinite == \A b : IsFiniteSet(Below(b))
  BY ThreadsAssumption, FS_Subset DEF Below

\* A step after which no reader is further on, and no new search starts beyond slot 0.
LEMMA SearchQuiet ==
    ASSUME TypeOK, TypeOK', BehindSearch, SearchStart',
           \A q \in Readers : Position(q)' <= Position(q),
           \A q \in Readers : Searches(q)' => slot'[q] = 0 \/ (Searches(q) /\ slot'[q] = slot[q])
    PROVE  SearchInv'
<1>1. ASSUME NEW r \in Readers, Searches(r)'
      PROVE  Cardinality(Below(slot[r])') >= slot'[r]
  <2>1. IsFiniteSet(Below(slot[r])')
    BY ThreadsAssumption, FS_Subset DEF Below
  <2>2. CASE slot'[r] = 0  BY <2>1, <2>2, FS_CardinalityType
  <2>3. CASE Searches(r) /\ slot'[r] = slot[r]
    <3>1. slot[r] \in Nat  BY SlotsAssumption DEF TypeOK, SlotIds
    <3>2. \A q \in Readers : Position(q) \in Nat /\ Position(q)' \in Nat
      <4>1. TypeOK' => Positioned'  BY PositionType, PTL
      <4> QED  BY PositionType, <4>1 DEF Positioned
    <3>3. Below(slot[r]) \subseteq Below(slot[r])'
      BY <2>3, <3>1, <3>2 DEF Below
    <3>4. Cardinality(Below(slot[r])) >= slot[r]  BY <2>3 DEF BehindSearch
    <3> QED  BY <2>1, <2>3, <3>1, <3>3, <3>4, SetGrows
  <2> QED  BY <1>1, <2>2, <2>3
<1> QED  BY <1>1, SearchParts DEF BehindSearch, SearchStart, SearchInv, Below

\* The same for a step that changes the state of reader r only.
LEMMA SearchOne ==
    ASSUME TypeOK, TypeOK', SearchInv, NEW r \in Readers,
           \A q \in Readers \ {r} :
               pc'[q] = pc[q] /\ slot'[q] = slot[q] /\ buffer'[q] = buffer[q],
           Position(r)' <= Position(r),
           Searches(r)' => slot'[r] = 0 \/ (Searches(r) /\ slot'[r] = slot[r]),
           pc'[r] = "acquire" /\ buffer'[r] # <<>> => slot'[r] = 0,
           buffer'[r] # <<>> => Holds(r)' \/ Last(buffer'[r]).to = "active"
    PROVE  SearchInv'
<1>1. BehindSearch /\ SearchStart  BY SearchParts
<1>2. \A q \in Readers \ {r} :
          /\ Position(q)' = Position(q)
          /\ Searches(q)' <=> Searches(q)
          /\ Holds(q)' <=> Holds(q)
  BY DEF Position, Searches, Holds
<1>3. SearchStart'  BY <1>1, <1>2 DEF SearchStart
<1>4. \A q \in Readers : Position(q) \in Nat  BY PositionType DEF Positioned
<1>5. \A q \in Readers : Position(q)' <= Position(q)  BY <1>2, <1>4
<1>6. \A q \in Readers :
          Searches(q)' => slot'[q] = 0 \/ (Searches(q) /\ slot'[q] = slot[q])
  BY <1>2
<1> QED  BY <1>1, <1>3, <1>5, <1>6, SearchQuiet

\* Whoever owns a slot stands at it.
LEMMA OwnerStands ==
    ASSUME TypeOK, SlotInv, NEW r \in Readers, NEW s \in SlotIds, Owns(r, s)
    PROVE  Position(r) = s
<1>1. CASE Holds(r) /\ slot[r] = s  BY <1>1 DEF Position
<1>2. CASE GivesBack(r, s)
  <2>1. PICK i \in DOMAIN buffer[r] : buffer[r][i].to = "active" /\ buffer[r][i].slot = s
    BY <1>2 DEF GivesBack
  <2>2. i = Len(buffer[r]) /\ pc[r] \in {"idle", "acquire"}  BY <2>1 DEF SlotInv
  <2>3. buffer[r] # <<>>  BY <2>1
  <2> QED  BY <2>1, <2>2, <2>3 DEF Position, Holds, Searches, Last
<1> QED  BY <1>1, <1>2 DEF Owns

\* A reader that finds slot b in use has b others behind the slot, and its owner in it.
LEMMA Crowd ==
    ASSUME TypeOK, SlotInv, SearchInv, NEW r \in Readers, Searches(r), active[slot[r]]
    PROVE  /\ Cardinality(Below(slot[r] + 1) \ {r}) >= slot[r] + 1
           /\ Cardinality(Readers) >= slot[r] + 2
<1> DEFINE b == slot[r]
<1>1. b \in SlotIds /\ b \in Nat  BY SlotsAssumption DEF TypeOK, SlotIds
<1>2. PICK c \in Readers : Owns(c, b)  BY <1>1 DEF SlotInv
<1>3. Position(c) = b  BY <1>1, <1>2, OwnerStands
<1>4. ~ Owns(r, b)  BY DEF Searches, Owns, GivesBack, Holds
<1>5. Position(r) = b  BY DEF Position
<1>6. \A q \in Readers : Position(q) \in Nat  BY PositionType DEF Positioned
<1>7. /\ Below(b) \subseteq Below(b + 1) \ {r}
      /\ c \in (Below(b + 1) \ {r}) \ Below(b)
      /\ Below(b + 1) \ {r} \subseteq Readers
      /\ r \in Readers \ (Below(b + 1) \ {r})
  BY <1>1, <1>2, <1>3, <1>4, <1>5, <1>6 DEF Below
<1>8. /\ IsFiniteSet(Below(b + 1) \ {r}) /\ IsFiniteSet(Readers) /\ IsFiniteSet(Below(b))
  BY <1>7, BelowFinite, ThreadsAssumption, FS_Subset
<1>9. Cardinality(Below(b)) >= b  BY SearchParts DEF BehindSearch
<1>10. Cardinality(Below(b)) + 1 <= Cardinality(Below(b + 1) \ {r})
  BY <1>7, <1>8, OneMore
<1>11. Cardinality(Below(b + 1) \ {r}) + 1 <= Cardinality(Readers)
  BY <1>7, <1>8, OneMore
<1>12. /\ Cardinality(Below(b)) \in Nat /\ Cardinality(Readers) \in Nat
       /\ Cardinality(Below(b + 1) \ {r}) \in Nat
  BY <1>8, FS_CardinalityType
<1> QED  BY <1>1, <1>9, <1>10, <1>11, <1>12

LEMMA SearchOnward ==
    ASSUME TypeOK, TypeOK', SlotInv, SearchInv, NEW r \in Readers, SlotTaken(r)
    PROVE  SearchInv'
<1> USE DEF SlotTaken, TryNextSlot
<1>1. /\ Searches(r) /\ active[slot[r]] /\ slot[r] \in Nat /\ UNCHANGED buffer
      /\ buffer[r] = <<>> /\ Position(r) = slot[r] /\ pc[r] = "acquire"
  BY SlotsAssumption DEF Searches, Position, TypeOK, SlotIds
<1>2. CASE ~ (slot[r] + 1 < Slots)
  <2>1. UNCHANGED slot /\ pc' = [pc EXCEPT ![r] = "terminated"]  BY <1>2
  <2>2. ~ Searches(r)' /\ Position(r)' = 0
    BY <1>1, <2>1 DEF Searches, Position, Holds, TypeOK
  <2> QED  BY <1>1, <2>1, <2>2, SearchOne DEF TypeOK
<1>3. CASE slot[r] + 1 < Slots
  <2> DEFINE b == slot[r] + 1
  <2>1. UNCHANGED pc /\ slot' = [slot EXCEPT ![r] = @ + 1]  BY <1>3
  <2>2. \A q \in Readers \ {r} :
            /\ slot'[q] = slot[q]
            /\ Position(q)' = Position(q)
            /\ Searches(q)' <=> Searches(q)
            /\ Holds(q)' <=> Holds(q)
    BY <1>1, <2>1 DEF Position, Searches, Holds, TypeOK
  <2>3. slot'[r] = b /\ Searches(r)' /\ Position(r)' = b
    BY <1>1, <2>1 DEF Searches, Position, TypeOK
  <2>4. SearchStart'
    BY <1>1, <2>1, <2>2, <2>3, SearchParts DEF SearchStart
  <2>5. \A q \in Readers : Position(q) \in Nat  BY PositionType DEF Positioned
  <2>6. ASSUME NEW j \in Readers, Searches(j)'
        PROVE  Cardinality(Below(slot[j])') >= slot'[j]
    <3>1. \A x \in Readers : slot[x] \in Nat  BY SlotsAssumption DEF TypeOK, SlotIds
    <3>2. IsFiniteSet(Below(slot[j])')  BY ThreadsAssumption, FS_Subset DEF Below
    <3>3. CASE slot'[j] = b
      <4>1. Below(b) \ {r} \subseteq Below(slot[j])'
        BY <2>2, <3>3 DEF Below
      <4>2. Cardinality(Below(b) \ {r}) >= b  BY <1>1, Crowd
      <4> QED  BY <1>1, <3>2, <3>3, <4>1, <4>2, SetGrows
    <3>4. CASE slot'[j] # b
      <4>1. j # r  BY <2>3, <3>4
      <4>2. Searches(j) /\ slot'[j] = slot[j]  BY <2>2, <2>6, <4>1
      <4>3. Below(slot[j]) \subseteq Below(slot[j])'
        <5> SUFFICES ASSUME NEW q \in Readers, Position(q) < slot[j]
                     PROVE  Position(q)' < slot[j]
          BY <4>2 DEF Below
        <5>1. CASE q # r  BY <2>2, <5>1
        <5>2. CASE q = r  BY <1>1, <2>3, <3>1, <3>4, <4>2, <5>2
        <5> QED  BY <5>1, <5>2
      <4>4. Cardinality(Below(slot[j])) >= slot[j]
        BY <4>2, SearchParts DEF BehindSearch
      <4> QED  BY <3>1, <3>2, <4>2, <4>3, <4>4, SetGrows
    <3> QED  BY <3>3, <3>4
  <2> QED  BY <2>4, <2>6 DEF SearchInv, SearchStart, Below
<1> QED  BY <1>2, <1>3

\* A step of a reader whose guard goes on holding its slot.
LEMMA SearchHeld ==
    ASSUME TypeOK, TypeOK', SearchInv, NEW r \in Readers, Holds(r)', UNCHANGED slot,
           Holds(r) \/ Searches(r),
           \A q \in Readers \ {r} : pc'[q] = pc[q] /\ buffer'[q] = buffer[q]
    PROVE  SearchInv'
<1>1. Position(r)' = Position(r) /\ Position(r) \in Nat
  BY PositionType DEF Position, Positioned
<1>2. ~ Searches(r)' /\ pc'[r] # "acquire"  BY DEF Searches, Holds
<1> QED  BY <1>1, <1>2, SearchOne

LEMMA SearchRelease ==
    ASSUME TypeOK, TypeOK', Unbuffered, SlotInv, SearchInv, NEW r \in Readers, Release(r)
    PROVE  SearchInv'
<1>1. /\ Position(r) = slot[r] /\ slot[r] \in Nat /\ pc'[r] = "idle" /\ UNCHANGED slot
      /\ ~ Holds(r)' /\ ~ Searches(r)'
      /\ \A q \in Readers \ {r} : pc'[q] = pc[q] /\ buffer'[q] = buffer[q]
  BY SlotsAssumption
     DEF Release, Goto, Store, TypeOK, SlotIds, Position, Holds, Searches
<1>2. buffer'[r] # <<>> => Last(buffer'[r]) = [to |-> "active", slot |-> slot[r], value |-> FALSE]
  <2> DEFINE store == [to |-> "active", slot |-> slot[r], value |-> FALSE]
  <2>1. CASE StoreBuffering
    <3>1. buffer[r] \in Seq(Stores) /\ buffer'[r] = Append(buffer[r], store)
      BY <2>1 DEF Release, Store, TypeOK
    <3>2. Len(buffer'[r]) = Len(buffer[r]) + 1 /\ buffer'[r][Len(buffer[r]) + 1] = store
      BY <3>1
    <3> QED  BY <3>2 DEF Last
  <2>2. CASE ~ StoreBuffering  BY <2>2 DEF Release, Store, Unbuffered
  <2> QED  BY <2>1, <2>2
<1>3. Position(r)' <= Position(r)  BY <1>1, <1>2 DEF Position
<1> QED  BY <1>1, <1>2, <1>3, SearchOne

LEMMA SearchDrain ==
    ASSUME TypeOK, TypeOK', SlotInv, SearchInv, NEW r \in Readers, Drain(r)
    PROVE  SearchInv'
<1>1. /\ buffer[r] \in Seq(Stores) /\ buffer[r] # <<>>
      /\ buffer'[r] = Tail(buffer[r]) /\ UNCHANGED <<pc, slot>>
      /\ \A q \in Readers \ {r} : pc'[q] = pc[q] /\ buffer'[q] = buffer[q]
      /\ Holds(r)' <=> Holds(r)
  BY DEF Drain, TypeOK, Holds
<1>2. SearchStart /\ Position(r) \in Nat /\ slot[r] \in Nat
  BY SMTT(30), SlotsAssumption, SearchParts, PositionType DEF Positioned, TypeOK, SlotIds
<1>3. CASE buffer'[r] # <<>>
  <2>1. Last(buffer'[r]) = Last(buffer[r])
    <3>1. /\ Len(buffer'[r]) = Len(buffer[r]) - 1 /\ Len(buffer'[r]) \in DOMAIN buffer'[r]
          /\ Len(buffer[r]) \in Nat
      BY <1>1, <1>3
    <3>2. buffer'[r][Len(buffer'[r])] = buffer[r][Len(buffer'[r]) + 1]  BY <1>1, <3>1
    <3> QED  BY <3>1, <3>2 DEF Last
  <2>2. ~ Searches(r)' /\ ~ Searches(r)  BY <1>1, <1>3 DEF Searches
  <2>3. Position(r)' = Position(r)  BY <1>1, <1>3, <2>1, <2>2 DEF Position
  <2> QED  BY <1>1, <1>2, <1>3, <2>1, <2>2, <2>3, SearchOne DEF SearchStart
<1>4. CASE buffer'[r] = <<>>
  <2>1. Searches(r)' => slot'[r] = 0  BY <1>1, <1>2 DEF Searches, SearchStart
  <2>2. Position(r)' <= Position(r)
    <3>1. CASE Holds(r)  BY <1>1, <1>2, <3>1 DEF Position
    <3>2. CASE ~ Holds(r)
      <4>1. Position(r)' = 0  BY <1>1, <1>4, <2>1, <3>2 DEF Position
      <4> QED  BY <1>2, <4>1
    <3> QED  BY <3>1, <3>2
  <2> QED  BY <1>1, <1>4, <2>1, <2>2, SearchOne
<1> QED  BY <1>3, <1>4

LEMMA SearchReader ==
    ASSUME TypeOK, TypeOK', Unbuffered, SlotInv, SearchInv, NEW r \in Readers, ReaderStep(r)
    PROVE  SearchInv'
<1> USE DEF Goto, readerVars, domain
<1>1. CASE MakeGuard(r)
  <2>1. /\ UNCHANGED buffer /\ slot'[r] = 0 /\ pc[r] = "idle" /\ pc'[r] = "acquire"
        /\ \A q \in Readers \ {r} : pc'[q] = pc[q] /\ slot'[q] = slot[q]
    BY <1>1 DEF MakeGuard, TypeOK
  <2>2. buffer[r] # <<>> => Last(buffer[r]).to = "active"
    BY <2>1, SearchParts DEF SearchStart, Holds
  <2>3. Position(r)' = Position(r) /\ Position(r) \in Nat
    BY <2>1, PositionType DEF Position, Positioned, Searches, Holds
  <2> QED  BY <2>1, <2>2, <2>3, SearchOne
<1>2. CASE AcquireSlot(r)
  BY <1>2, SearchHeld DEF AcquireSlot, Searches, Holds, TypeOK
<1>3. CASE SlotTaken(r)  BY <1>3, SearchOnward
<1>4. CASE LoadPublished(r)  BY <1>4, SearchHeld DEF LoadPublished, Holds, TypeOK
<1>5. CASE Protect(r)  BY <1>5, SearchHeld DEF Protect, Store, Holds, TypeOK
<1>6. CASE Validate(r)  BY <1>6, SearchHeld DEF Validate, Holds, TypeOK
<1>7. CASE Clear(r)  BY <1>7, SearchHeld DEF Clear, Store, Holds, TypeOK
<1>8. CASE Release(r)  BY <1>8, SearchRelease
<1>9. CASE Drain(r)  BY <1>9, SearchDrain
<1> QED  BY <1>1, <1>2, <1>3, <1>4, <1>5, <1>6, <1>7, <1>8, <1>9 DEF ReaderStep

LEMMA SearchInit == Init => SearchInv
  BY DEF Init, SearchInv, Searches

LEMMA SearchStep ==
    TypeOK /\ TypeOK' /\ Unbuffered /\ SlotInv /\ SearchInv /\ [Next]_vars => SearchInv'
<1> SUFFICES ASSUME TypeOK, TypeOK', Unbuffered, SlotInv, SearchInv, [Next]_vars
             PROVE  SearchInv'
  OBVIOUS
<1>1. BehindSearch /\ SearchStart /\ \A q \in Readers : Position(q) \in Nat
  BY SearchParts, PositionType DEF Positioned
<1>2. ASSUME UNCHANGED <<slot, buffer>>, \A q \in Readers : pc'[q] = pc[q]
      PROVE  SearchInv'
  <2>1. \A q \in Readers : /\ Position(q)' = Position(q)
                           /\ Searches(q)' <=> Searches(q)
                           /\ Holds(q)' <=> Holds(q)
    BY <1>2 DEF Position, Searches, Holds
  <2>2. SearchStart'  BY <1>1, <1>2, <2>1 DEF SearchStart
  <2> QED  BY <1>1, <1>2, <2>1, <2>2, SearchQuiet
<1>3. ASSUME NEW w \in Writers, WriterStep(w) PROVE SearchInv'
  BY <1>2, <1>3, WriterFrame
<1>4. CASE Destroy
  <2>1. \A q \in Readers : /\ Position(q)' = 0 /\ Position(q) = 0 /\ ~ Searches(q)'
                           /\ buffer'[q] = <<>>
    BY <1>4 DEF Destroy, Position, Searches, Holds, TypeOK
  <2> QED  BY <1>1, <2>1, SearchQuiet DEF SearchStart
<1>5. CASE UNCHANGED vars  BY <1>2, <1>5 DEF vars
<1> QED  BY <1>3, <1>4, <1>5, SearchReader DEF Next

\* The invariant of the search, for any number of readers, slots and buffered stores
\* (low_latency.h:440-448).
THEOREM SearchersCrowdBehind == Spec => []SearchInv
  BY SearchInit, SearchStep, SlotsOwned, TypeCorrect, PTL DEF Spec

\* With no more guards at a time than slots, acquire_slot always finds one, although it
\* looks at each slot once, while the others take and free theirs (low_latency.h:440-448).
THEOREM SearchesSucceed == Spec => []NeverTerminates
<1>1. Init => NeverTerminates  BY DEF Init, NeverTerminates
<1>2. TypeOK /\ SlotInv /\ SearchInv /\ NeverTerminates /\ [Next]_vars => NeverTerminates'
  <2> SUFFICES ASSUME TypeOK, SlotInv, SearchInv, NeverTerminates, [Next]_vars,
                      Cardinality(Readers) <= Slots, NEW r \in Readers,
                      pc'[r] = "terminated"
               PROVE  FALSE
    BY DEF NeverTerminates
  <2>1. pc[r] # "terminated"  BY DEF NeverTerminates
  <2>2. SlotTaken(r) /\ ~ (slot[r] + 1 < Slots)
    <3>1. ASSUME NEW q \in Readers, ReaderStep(q)
          PROVE  q = r /\ SlotTaken(r) /\ ~ (slot[r] + 1 < Slots)
      BY <2>1, <3>1
         DEF ReaderStep, MakeGuard, AcquireSlot, SlotTaken, TryNextSlot, LoadPublished,
             Protect, Validate, Clear, Release, Drain, Goto, TypeOK
    <3>2. ~ \E w \in Writers : WriterStep(w)  BY <2>1, WriterFrame
    <3>3. ~ Destroy  BY DEF Destroy
    <3>4. ~ UNCHANGED vars  BY <2>1 DEF vars
    <3> QED  BY <3>1, <3>2, <3>3, <3>4 DEF Next
  <2>3. Searches(r) /\ active[slot[r]]
    BY <2>2 DEF SlotTaken, TryNextSlot, Searches
  <2>4. Cardinality(Readers) >= slot[r] + 2  BY <2>3, Crowd
  <2>5. /\ slot[r] \in Int /\ Slots \in Int /\ Cardinality(Readers) \in Int
    BY SlotsAssumption, ThreadsAssumption, FS_CardinalityType DEF TypeOK, SlotIds
  <2> QED  BY <2>2, <2>4, <2>5
<1> QED  BY <1>1, <1>2, SearchersCrowdBehind, SlotsOwned, TypeCorrect, PTL DEF Spec
-----------------------------------------------------------------------------
(* The promise. *)

\* What the promise rests on.
Base == TypeOK /\ HandsFull /\ EveryNodeAccountedFor /\ SlotInv /\ SlotsExclusive /\ Unbuffered

LEMMA BaseInvariant == Spec => []Base
  BY TypedHands, NodesAccountedFor, SlotsOwned, SlotsAreExclusive, PTL DEF Base

LEMMA ProtectionInit == Init => ProtectionInv /\ NoUseAfterFree
  BY DEF Init, ProtectionInv, NoUseAfterFree

\* A step of reader q leaves the others protected if it leaves their slots alone.
LEMMA OthersProtected ==
    ASSUME Base, ProtectionInv, NoUseAfterFree, NEW q \in Readers,
           UNCHANGED <<allocated, probe>>,
           \A t \in (Readers \cup Writers) \ {q} : pc'[t] = pc[t] /\ node'[t] = node[t],
           \A r \in Readers \ {q} : slot'[r] = slot[r],
           \A r \in Readers \ {q} : Holds(r) => hazards'[slot[r]] = hazards[slot[r]],
           pc'[q] \in {"validate", "use"} => hazards'[slot'[q]] = node'[q],
           pc'[q] = "use" =>
               /\ node'[q] \in allocated \cup {Null}
               /\ \A w \in Writers : node'[q] # Null /\ node[w] = node'[q] =>
                     pc[w] # "delete" /\ (pc[w] = "probe" => probe[w] <= slot'[q])
    PROVE  ProtectionInv' /\ NoUseAfterFree'
<1>1. \A w \in Writers : w # q /\ w \in (Readers \cup Writers) \ {q}  BY ThreadsAssumption
<1>2. ASSUME NEW r \in Readers, pc'[r] \in {"validate", "use"}
      PROVE  hazards'[slot'[r]] = node'[r]
  BY <1>2 DEF ProtectionInv, Holds
<1>3. ASSUME NEW r \in Readers, NEW w \in Writers,
             pc'[r] = "use", node'[r] # Null, node'[w] = node'[r]
      PROVE  pc'[w] # "delete" /\ (pc'[w] = "probe" => probe'[w] <= slot'[r])
  <2>1. pc'[w] = pc[w] /\ node'[w] = node[w]  BY <1>1
  <2>2. CASE r = q  BY <1>3, <2>1, <2>2
  <2>3. CASE r # q  BY <1>3, <2>1, <2>3 DEF ProtectionInv
  <2> QED  BY <2>2, <2>3
<1>4. NoUseAfterFree'  BY DEF NoUseAfterFree
<1> QED  BY <1>2, <1>3, <1>4 DEF ProtectionInv

\* A store to the hazard slot of q reaches memory: the slot of nobody else.
LEMMA HazardStored ==
    ASSUME ~ StoreBuffering, Base, NEW q \in Readers, Holds(q), NEW value,
           Store(q, "hazard", value)
    PROVE  /\ hazards'[slot[q]] = value
           /\ \A r \in Readers \ {q} : Holds(r) => hazards'[slot[r]] = hazards[slot[r]]
<1>1. hazards' = [hazards EXCEPT ![slot[q]] = value]  BY DEF Store, Perform
<1> QED  BY <1>1 DEF Base, TypeOK, SlotsExclusive

LEMMA ProtectionReader ==
    ASSUME ~ StoreBuffering, Base, ProtectionInv, NoUseAfterFree,
           NEW q \in Readers, ReaderStep(q)
    PROVE  ProtectionInv' /\ NoUseAfterFree'
<1> USE DEF Goto, readerVars, writerVars, domain
<1>0. TypeOK  BY DEF Base
<1>1. CASE MakeGuard(q) \/ AcquireSlot(q) \/ SlotTaken(q) \/ LoadPublished(q)
  <2>1. /\ UNCHANGED <<allocated, probe, hazards>> /\ pc'[q] \notin {"validate", "use"}
        /\ \A t \in (Readers \cup Writers) \ {q} : pc'[t] = pc[t] /\ node'[t] = node[t]
        /\ \A r \in Readers \ {q} : slot'[r] = slot[r]
    BY <1>0, <1>1
       DEF TypeOK, MakeGuard, AcquireSlot, SlotTaken, TryNextSlot, LoadPublished
  <2> QED  BY <2>1, OthersProtected
<1>2. CASE Protect(q)
  <2>1. Holds(q) /\ Store(q, "hazard", node[q]) /\ UNCHANGED <<allocated, probe, slot, node>>
        /\ pc' = [pc EXCEPT ![q] = "validate"]
    BY <1>2 DEF Protect, Holds
  <2> QED  BY <1>0, <2>1, HazardStored, OthersProtected DEF TypeOK
<1>3. CASE Validate(q)
  <2>1. /\ UNCHANGED <<allocated, probe, slot, node, hazards>>
        /\ pc' = [pc EXCEPT ![q] = IF published = node[q] THEN "use" ELSE "load"]
        /\ pc[q] = "validate" /\ hazards[slot[q]] = node[q]
    BY <1>3 DEF Validate, ProtectionInv
  <2>2. ASSUME pc'[q] = "use" PROVE published = node[q]
    BY <1>0, <2>1, <2>2 DEF TypeOK
  <2>3. ASSUME pc'[q] = "use", node[q] # Null
        PROVE  /\ node[q] \in allocated
               /\ \A w \in Writers : node[w] # node[q]
    <3>1. Live = {node[q]} /\ EveryNodeAccountedFor  BY <2>2, <2>3 DEF Live, Base
    <3>2. \A w \in Writers : Waiting(w) \subseteq allocated \ Live
      BY <3>1 DEF EveryNodeAccountedFor
    <3>3. \A w \in Writers : node[w] = Null \/ node[w] \in Waiting(w)
      BY DEF Waiting, InHand
    <3> QED  BY <2>3, <3>1, <3>2, <3>3 DEF EveryNodeAccountedFor
  <2>4. \A t \in (Readers \cup Writers) \ {q} : pc'[t] = pc[t]  BY <1>0, <2>1 DEF TypeOK
  <2> QED  BY <2>1, <2>3, <2>4, OthersProtected
<1>4. CASE Clear(q)
  <2>1. /\ Holds(q) /\ Store(q, "hazard", Null) /\ UNCHANGED <<allocated, probe, slot>>
        /\ pc' = [pc EXCEPT ![q] = "release"] /\ node' = [node EXCEPT ![q] = Null]
    BY <1>4 DEF Clear, Holds
  <2> QED  BY <1>0, <2>1, HazardStored, OthersProtected DEF TypeOK
<1>5. CASE Release(q)
  <2>1. UNCHANGED <<allocated, probe, slot, node, hazards>> /\ pc' = [pc EXCEPT ![q] = "idle"]
    BY <1>5 DEF Release, Store, Perform
  <2> QED  BY <1>0, <2>1, OthersProtected DEF TypeOK
<1>6. ~ Drain(q)  BY DEF Drain, Base, Unbuffered
<1> QED  BY <1>1, <1>2, <1>3, <1>4, <1>5, <1>6 DEF ReaderStep

\* A step of writer w that deletes nothing, and sends no scan on beyond a guard's slot.
LEMMA StillProtected ==
    ASSUME Base, ProtectionInv, NoUseAfterFree, NEW w \in Writers, WriterStep(w),
           allocated \subseteq allocated',
           \A v \in Writers \ {w} :
               pc'[v] = pc[v] /\ node'[v] = node[v] /\ probe'[v] = probe[v],
           \A r \in Readers : pc[r] = "use" /\ node[r] # Null /\ node'[w] = node[r] =>
               pc'[w] # "delete" /\ (pc'[w] = "probe" => probe'[w] <= slot[r])
    PROVE  ProtectionInv' /\ NoUseAfterFree'
<1>1. /\ UNCHANGED <<hazards, slot>>
      /\ \A r \in Readers : pc'[r] = pc[r] /\ node'[r] = node[r]
  BY WriterFrame DEF Base
<1>2. ASSUME NEW r \in Readers, NEW v \in Writers,
             pc'[r] = "use", node'[r] # Null, node'[v] = node'[r]
      PROVE  pc'[v] # "delete" /\ (pc'[v] = "probe" => probe'[v] <= slot'[r])
  <2>1. CASE v = w  BY <1>1, <1>2, <2>1
  <2>2. CASE v # w  BY <1>1, <1>2, <2>2 DEF ProtectionInv
  <2> QED  BY <2>1, <2>2
<1>3. NoUseAfterFree'  BY <1>1 DEF NoUseAfterFree
<1> QED  BY <1>1, <1>2, <1>3 DEF ProtectionInv

LEMMA ProtectionWriter ==
    ASSUME Base, ProtectionInv, NoUseAfterFree, NEW w \in Writers, WriterStep(w)
    PROVE  ProtectionInv' /\ NoUseAfterFree'
<1> USE DEF Goto, readerVars, writerVars, domain
<1>0. TypeOK  BY DEF Base
<1>1. \A v \in Writers \ {w} : pc'[v] = pc[v] /\ node'[v] = node[v] /\ probe'[v] = probe[v]
  BY <1>0 DEF TypeOK, WriterStep, Replace, PushRetired, CountRetired, CallScan, ScanTake,
              ScanNext, Probe, ProbeOneOf, Keep, Delete, Subtract, Finish, Prepend
<1>2. CASE Replace(w) \/ PushRetired(w) \/ CountRetired(w) \/ CallScan(w) \/ ScanTake(w)
           \/ Keep(w) \/ Subtract(w) \/ Finish(w)
  <2>1. allocated \subseteq allocated' /\ pc'[w] \notin {"delete", "probe"}
    BY <1>0, <1>2 DEF TypeOK, Replace, PushRetired, CountRetired, CallScan, ScanTake, Keep,
                      Subtract, Finish
  <2> QED  BY <1>1, <2>1, StillProtected
<1>3. CASE ScanNext(w)
  <2>1. /\ UNCHANGED allocated /\ pc'[w] # "delete"
        /\ pc'[w] = "probe" => probe'[w] = 0
    BY <1>0, <1>3 DEF TypeOK, ScanNext
  <2>2. \A r \in Readers : 0 <= slot[r]  BY <1>0 DEF TypeOK, SlotIds
  <2> QED  BY <1>1, <2>1, <2>2, StillProtected
<1>4. CASE Probe(w)
  <2>1. UNCHANGED <<allocated, node>> /\ pc[w] = "probe"  BY <1>4 DEF Probe, ProbeOneOf
  <2>2. ASSUME NEW r \in Readers, pc[r] = "use", node[r] # Null, node[w] = node[r]
        PROVE  pc'[w] # "delete" /\ (pc'[w] = "probe" => probe'[w] <= slot[r])
    <3>1. probe[w] <= slot[r] /\ hazards[slot[r]] = node[w]
      BY <2>1, <2>2 DEF ProtectionInv
    <3>2. probe[w] \in 0..(Slots - 1) /\ slot[r] \in 0..(Slots - 1) /\ Slots \in Nat
      BY <1>0, SlotsAssumption DEF TypeOK, SlotIds
    <3>3. CASE pc' = [pc EXCEPT ![w] = "keep"]  BY <1>0, <3>3 DEF TypeOK
    <3>4. CASE hazards[probe[w]] # node[w]
      <4>1. probe[w] < slot[r] /\ probe[w] + 1 < Slots  BY <3>1, <3>2, <3>4
      <4>2. UNCHANGED pc /\ probe' = [probe EXCEPT ![w] = @ + 1]
        BY <1>4, <3>4, <4>1 DEF Probe, ProbeOneOf
      <4> QED  BY <1>0, <2>1, <3>2, <4>1, <4>2 DEF TypeOK
    <3> QED  BY <1>4, <3>3, <3>4 DEF Probe, ProbeOneOf
  <2> QED  BY <1>1, <2>1, <2>2, StillProtected
<1>5. CASE Delete(w)
  <2>1. /\ pc[w] = "delete" /\ pc'[w] = "next" /\ node[w] # Null /\ node'[w] = Null
        /\ allocated' = allocated \ {node[w]}
    BY <1>0, <1>5 DEF Delete, TypeOK, Base, HandsFull
  <2>2. \A r \in Readers : pc[r] = "use" => node[r] # node[w]
    BY <2>1 DEF ProtectionInv
  <2>3. /\ UNCHANGED <<hazards, slot>>
        /\ \A r \in Readers : pc'[r] = pc[r] /\ node'[r] = node[r]
    BY <1>0, WriterFrame
  <2>4. NoUseAfterFree'  BY <2>1, <2>2, <2>3 DEF NoUseAfterFree
  <2>5. ASSUME NEW r \in Readers, NEW v \in Writers,
               pc'[r] = "use", node'[r] # Null, node'[v] = node'[r]
        PROVE  pc'[v] # "delete" /\ (pc'[v] = "probe" => probe'[v] <= slot'[r])
    <3>1. v # w  BY <2>1, <2>5
    <3> QED  BY <1>1, <2>3, <2>5, <3>1 DEF ProtectionInv
  <2> QED  BY <2>3, <2>4, <2>5 DEF ProtectionInv
<1> QED  BY <1>2, <1>3, <1>4, <1>5 DEF WriterStep

LEMMA ProtectionStep ==
    ~ StoreBuffering /\ Base /\ ProtectionInv /\ NoUseAfterFree /\ [Next]_vars
        => ProtectionInv' /\ NoUseAfterFree'
<1> SUFFICES ASSUME ~ StoreBuffering, Base, ProtectionInv, NoUseAfterFree, [Next]_vars
             PROVE  ProtectionInv' /\ NoUseAfterFree'
  OBVIOUS
<1>1. CASE Destroy
  <2>1. \A r \in Readers : pc'[r] = "joined"  BY <1>1 DEF Destroy
  <2> QED  BY <2>1 DEF ProtectionInv, NoUseAfterFree
<1>2. CASE UNCHANGED vars  BY <1>2 DEF vars, ProtectionInv, NoUseAfterFree
<1> QED  BY <1>1, <1>2, ProtectionReader, ProtectionWriter DEF Next

LEMMA Protection == ~ StoreBuffering => (Spec => [](ProtectionInv /\ NoUseAfterFree))
<1> SUFFICES ASSUME ~ StoreBuffering PROVE Spec => [](ProtectionInv /\ NoUseAfterFree)
  OBVIOUS
<1>1. Base /\ ProtectionInv /\ NoUseAfterFree /\ [Next]_vars
        => ProtectionInv' /\ NoUseAfterFree'
  BY ProtectionStep
<1> QED  BY <1>1, ProtectionInit, BaseInvariant, PTL DEF Spec

\* The invariant of the protection, for any number of readers, writers and slots
\* (low_latency.h:357-365, :410-433).
THEOREM GuardsProtect == ~ StoreBuffering => (Spec => []ProtectionInv)
  BY Protection, PTL

\* No reader uses a node that was deleted, however many readers, writers, overlapping scans
\* and reused addresses there are, up to the destructor: what README.md:67 promises, where
\* a store to a hazard slot is visible before the next load (low_latency.h:357-365,
\* :389-424).
THEOREM NoReaderUsesFreedNode == ~ StoreBuffering => (Spec => []NoUseAfterFree)
  BY Protection, PTL
-----------------------------------------------------------------------------
(* How much garbage there is between calls. *)

\* What readers may still show a scan: what they loaded, and what is in the slots.
Shown == {node[r] : r \in Readers} \cup {hazards[s] : s \in SlotIds}

\* The nodes the scan of w may still keep: it has decided on one, and may find the others.
Pinned(w) ==
    ((ToSet(mine[w]) \cup (IF pc[w] = "probe" THEN InHand(w) ELSE {})) \cap Shown)
        \cup (IF pc[w] = "keep" THEN InHand(w) ELSE {})

\* kept[w] are nodes the last scan of w left in the list: a reader stands for two of them,
\* and of those the scan may still keep.
Survivors(kept) ==
    /\ kept \in [Writers -> SUBSET Nodes]
    /\ \A w \in Writers :
          /\ kept[w] \subseteq ToSet(retired)
          /\ Cardinality(kept[w]) + Cardinality(Pinned(w)) <= 2 * Cardinality(Readers)

\* A writer is about to count its node, or to scan.
Attended == \E w \in Writers : pc[w] \in {"count", "scan"}

\* Of what the scans did not leave there, there is less than the threshold, or a scan comes.
Few(kept) ==
    \/ ToSet(retired) \subseteq UNION {kept[w] : w \in Writers}
    \/ Attended
    \/ Garbage < RetireThreshold

GarbageInv == \E kept : Survivors(kept) /\ Few(kept)

\* What it rests on: a slot is cleared before it is given back ...
Guarding(r) == pc[r] \in {"load", "protect", "validate", "use"}

SlotsCleared == \A s \in SlotIds : hazards[s] # Null => \E r \in Readers : Guarding(r) /\ slot[r] = s

\* ... a scan holds no more than there are nodes, and writers end together.
ScansBounded == \A w \in Writers : Unsettled(w) <= Cardinality(Nodes)
JoinedTogether == \A v, w \in Writers : pc[v] = "joined" => pc[w] = "joined"

LEMMA PinnedTypes ==
    ASSUME TypeOK
    PROVE  /\ \A w \in Writers : /\ Pinned(w) \subseteq Nodes /\ IsFiniteSet(Pinned(w))
                                 /\ Cardinality(Pinned(w)) \in Nat
           /\ Cardinality(Readers) \in Nat /\ Cardinality(Writers) \in Nat
           /\ Cardinality(Nodes) \in Nat
<1>1. ASSUME NEW w \in Writers PROVE Pinned(w) \subseteq Nodes
  <2>1. ToSet(mine[w]) \subseteq Nodes  BY DEF TypeOK, ToSet
  <2>2. InHand(w) \subseteq Nodes  BY DEF TypeOK, InHand
  <2> QED  BY <2>1, <2>2 DEF Pinned
<1>2. \A w \in Writers : IsFiniteSet(Pinned(w)) /\ Cardinality(Pinned(w)) \in Nat
  BY <1>1, NodesAssumption, FS_Subset, FS_CardinalityType
<1> QED  BY <1>1, <1>2, NodesAssumption, ThreadsAssumption, FS_CardinalityType

\* Two of a reader's pointers are shown at a time: the one it loaded, and its hazard.
LEMMA ShownBound ==
    ASSUME TypeOK, SlotsCleared
    PROVE  IsFiniteSet(Shown \ {Null}) /\ Cardinality(Shown \ {Null}) <= 2 * Cardinality(Readers)
<1> DEFINE loaded == [r \in Readers |-> node[r]]
           stored == [r \in Readers |-> hazards[slot[r]]]
           L == {loaded[r] : r \in Readers}
           H == {stored[r] : r \in Readers}
<1>1. IsFiniteSet(Readers) /\ Cardinality(Readers) \in Nat
  BY ThreadsAssumption, FS_CardinalityType
<1>2. IsFiniteSet(L) /\ Cardinality(L) <= Cardinality(Readers)
  <2> HIDE DEF loaded
  <2>1. DOMAIN loaded = Readers  BY DEF loaded
  <2> QED  BY <1>1, <2>1, ImageBound
<1>3. IsFiniteSet(H) /\ Cardinality(H) <= Cardinality(Readers)
  <2> HIDE DEF stored
  <2>1. DOMAIN stored = Readers  BY DEF stored
  <2> QED  BY <1>1, <2>1, ImageBound
<1>4. Shown \ {Null} \subseteq L \cup H
  <2>1. ASSUME NEW s \in SlotIds, hazards[s] # Null PROVE hazards[s] \in H
    BY <2>1 DEF SlotsCleared
  <2> QED  BY <2>1 DEF Shown
<1> HIDE DEF L, H
<1>5. /\ IsFiniteSet(L \cup H) /\ Cardinality(L) \in Nat /\ Cardinality(H) \in Nat
      /\ Cardinality(L \cap H) \in Nat
      /\ Cardinality(L \cup H) = Cardinality(L) + Cardinality(H) - Cardinality(L \cap H)
  <2>1. IsFiniteSet(L \cap H)
    <3>1. L \cap H \in SUBSET L  OBVIOUS
    <3> QED  BY <1>2, <3>1, FS_Subset
  <2> QED  BY <1>2, <1>3, <2>1, FS_Union, FS_CardinalityType
<1>6. Cardinality(Shown \ {Null}) <= Cardinality(L \cup H) /\ IsFiniteSet(Shown \ {Null})
  <2>1. Shown \ {Null} \in SUBSET (L \cup H)  BY <1>4
  <2> HIDE DEF Shown
  <2> QED  BY <1>5, <2>1, FS_Subset
<1>7. Cardinality(Shown \ {Null}) \in Nat  BY <1>6, FS_CardinalityType
<1> QED  BY <1>1, <1>2, <1>3, <1>5, <1>6, <1>7

LEMMA ClearedInit == Init => SlotsCleared /\ ScansBounded /\ JoinedTogether
<1> SUFFICES ASSUME Init PROVE SlotsCleared /\ ScansBounded /\ JoinedTogether  OBVIOUS
<1>1. \A w \in Writers : pc[w] = "idle" /\ Unsettled(w) = 0
  BY DEF Init, Unsettled, Scanning
<1>2. Cardinality(Nodes) \in Nat  BY NodesAssumption, FS_CardinalityType
<1> QED  BY <1>1, <1>2 DEF Init, SlotsCleared, ScansBounded, JoinedTogether

LEMMA ClearedStep ==
    ~ StoreBuffering /\ TypeOK /\ Unbuffered /\ SlotsCleared /\ [Next]_vars => SlotsCleared'
<1> SUFFICES ASSUME ~ StoreBuffering, TypeOK, Unbuffered, SlotsCleared, [Next]_vars
             PROVE  SlotsCleared'
  OBVIOUS
<1>1. ASSUME NEW q \in Readers, ReaderStep(q) PROVE SlotsCleared'
  <2> USE DEF Goto, readerVars, writerVars, domain
  <2>0. \A r \in Readers \ {q} : pc'[r] = pc[r] /\ slot'[r] = slot[r]
    BY <1>1 DEF ReaderStep, MakeGuard, AcquireSlot, SlotTaken, TryNextSlot, LoadPublished,
                Protect, Validate, Clear, Release, Drain, TypeOK
  <2>1. CASE MakeGuard(q) \/ AcquireSlot(q) \/ SlotTaken(q)
    <3>1. UNCHANGED hazards /\ ~ Guarding(q)
      BY <2>1 DEF MakeGuard, AcquireSlot, SlotTaken, TryNextSlot, Guarding
    <3> QED  BY <2>0, <3>1 DEF SlotsCleared, Guarding
  <2>2. CASE LoadPublished(q) \/ Validate(q)
    <3>1. UNCHANGED <<hazards, slot>> /\ Guarding(q)'
      BY <2>2 DEF LoadPublished, Validate, Guarding, TypeOK
    <3> QED  BY <2>0, <3>1 DEF SlotsCleared, Guarding
  <2>3. CASE Protect(q)
    <3>1. /\ hazards' = [hazards EXCEPT ![slot[q]] = node[q]]
          /\ Guarding(q)' /\ UNCHANGED slot
      BY <2>3 DEF Protect, Guarding, Store, Perform, TypeOK
    <3> QED  BY <2>0, <3>1 DEF SlotsCleared, Guarding, TypeOK
  <2>4. CASE Clear(q)
    <3>1. hazards' = [hazards EXCEPT ![slot[q]] = Null] /\ UNCHANGED slot
      BY <2>4 DEF Clear, Store, Perform
    <3>2. ASSUME NEW s \in SlotIds, hazards'[s] # Null
          PROVE  \E r \in Readers : Guarding(r)' /\ slot'[r] = s
      <4>1. s # slot[q] /\ hazards[s] # Null  BY <3>1, <3>2 DEF TypeOK
      <4>2. PICK r \in Readers : Guarding(r) /\ slot[r] = s  BY <4>1 DEF SlotsCleared
      <4>3. r # q  BY <4>1, <4>2
      <4> QED  BY <2>0, <4>2, <4>3 DEF Guarding
    <3> QED  BY <3>2 DEF SlotsCleared
  <2>5. CASE Release(q)
    <3>1. UNCHANGED hazards /\ ~ Guarding(q)
      BY <2>5 DEF Release, Store, Perform, Guarding
    <3> QED  BY <2>0, <3>1 DEF SlotsCleared, Guarding
  <2>6. ~ Drain(q)  BY DEF Drain, Unbuffered
  <2> QED  BY <1>1, <2>1, <2>2, <2>3, <2>4, <2>5, <2>6 DEF ReaderStep
<1>2. ASSUME NEW w \in Writers, WriterStep(w) PROVE SlotsCleared'
  BY <1>2, WriterFrame DEF SlotsCleared, Guarding
<1>3. CASE Destroy  BY <1>3 DEF Destroy, SlotsCleared, Guarding
<1>4. CASE UNCHANGED vars  BY <1>4 DEF vars, SlotsCleared, Guarding
<1> QED  BY <1>1, <1>2, <1>3, <1>4 DEF Next

LEMMA JoinedStep == TypeOK /\ JoinedTogether /\ [Next]_vars => JoinedTogether'
<1> SUFFICES ASSUME TypeOK, JoinedTogether, [Next]_vars PROVE JoinedTogether'  OBVIOUS
<1>1. ASSUME NEW q \in Readers, ReaderStep(q) PROVE \A w \in Writers : pc'[w] = pc[w]
  BY <1>1, ThreadsAssumption
     DEF ReaderStep, MakeGuard, AcquireSlot, SlotTaken, TryNextSlot, LoadPublished,
         Protect, Validate, Clear, Release, Drain, Goto, TypeOK
<1>2. ASSUME NEW w \in Writers, WriterStep(w)
      PROVE  \A v \in Writers : pc'[v] = "joined" => pc[v] = "joined" /\ v # w
  BY <1>2 DEF WriterStep, Replace, PushRetired, CountRetired, CallScan, ScanTake, ScanNext,
              Probe, ProbeOneOf, Keep, Delete, Subtract, Finish, Goto, TypeOK
<1>3. ASSUME NEW w \in Writers, WriterStep(w) PROVE pc[w] # "joined"
  BY <1>3 DEF WriterStep, Replace, PushRetired, CountRetired, CallScan, ScanTake, ScanNext,
              Probe, ProbeOneOf, Keep, Delete, Subtract, Finish, Goto
<1>4. CASE Destroy  BY <1>4 DEF Destroy, JoinedTogether
<1>5. CASE UNCHANGED vars  BY <1>5 DEF vars, JoinedTogether
<1>6. ASSUME NEW w \in Writers, WriterStep(w) PROVE JoinedTogether'
  BY <1>2, <1>3, <1>6 DEF JoinedTogether
<1>7. ASSUME NEW q \in Readers, ReaderStep(q) PROVE JoinedTogether'
  BY <1>1, <1>7 DEF JoinedTogether
<1> QED  BY <1>4, <1>5, <1>6, <1>7 DEF Next

\* What a step of w does to what w holds, next to the list.
Shifts(w) ==
    LET more == Len(retired') - Len(retired) + Unsettled(w)' - Unsettled(w)
    IN  /\ ~ PushRetired(w) => more <= 0
        /\ Unsettled(w)' <= Unsettled(w) \/ Unsettled(w)' = Len(retired)

LEMMA WriterShifts ==
    ASSUME TypeOK, TypeOK', HandsFull, HandsFull', ListsTaken, ListsTaken',
           NEW w \in Writers, WriterStep(w)
    PROVE  Shifts(w)
<1> USE DEF Goto, readerVars, writerVars, domain
<1>0. /\ Holding(w) /\ Holding(w)' /\ Unsettled(w) \in Nat /\ Unsettled(w)' \in Nat
      /\ Len(retired) \in Nat /\ Len(retired') \in Nat
  <2>1. AllHolding /\ AllHolding' /\ Holdings /\ Holdings'  BY HoldingTyped, HeldType, PTL
  <2> QED  BY <2>1 DEF AllHolding, Holdings, Held, Holding
<1>1. CASE UNCHANGED retired /\ Unsettled(w)' = Unsettled(w)  BY <1>0, <1>1 DEF Shifts
<1>2. CASE Replace(w) \/ CallScan(w) \/ Finish(w) \/ CountRetired(w)
  <2>1. UNCHANGED retired /\ ~ Scanning(w) /\ ~ Scanning(w)'
    BY <1>2 DEF Replace, CallScan, Finish, CountRetired, TypeOK, Scanning
  <2> QED  BY <1>0, <1>1, <2>1 DEF Holding
<1>3. CASE PushRetired(w)
  <2>1. ~ Scanning(w) /\ ~ Scanning(w)'  BY <1>3 DEF PushRetired, TypeOK, Scanning
  <2> QED  BY <1>0, <1>3, <2>1 DEF Holding, Shifts
<1>4. CASE ScanTake(w)
  <2>1. ~ Scanning(w) /\ pc'[w] = "next" /\ mine'[w] = retired /\ dropped'[w] = 0
        /\ retired' = <<>>
    BY <1>4 DEF ScanTake, TypeOK, Scanning
  <2> QED  BY <1>0, <2>1 DEF Holding, Shifts
<1>5. CASE ScanNext(w) /\ mine[w] = <<>>
  <2>1. /\ UNCHANGED retired /\ pc[w] = "next" /\ pc'[w] = "subtract"
        /\ dropped'[w] = dropped[w] /\ Len(mine[w]) = 0
    BY <1>5 DEF ScanNext, TypeOK
  <2> QED  BY <1>0, <1>1, <2>1 DEF Holding
<1>6. CASE ScanNext(w) /\ mine[w] # <<>>
  <2>1. /\ UNCHANGED retired /\ pc[w] = "next" /\ pc'[w] = "probe"
        /\ dropped'[w] = dropped[w] /\ mine'[w] = Tail(mine[w])
    BY <1>6 DEF ScanNext, TypeOK
  <2>2. Len(mine'[w]) = Len(mine[w]) - 1  BY <1>6, <2>1 DEF TypeOK
  <2> QED  BY <1>0, <1>1, <2>1, <2>2 DEF Holding
<1>7. CASE Probe(w)
  <2>1. /\ UNCHANGED retired /\ pc[w] = "probe" /\ pc'[w] \in {"probe", "keep", "delete"}
        /\ dropped'[w] = dropped[w] /\ mine'[w] = mine[w]
    BY <1>7 DEF Probe, ProbeOneOf, TypeOK
  <2> QED  BY <1>0, <1>1, <2>1 DEF Holding
<1>8. CASE Keep(w)
  <2>1. /\ retired' = <<node[w]>> \o retired /\ pc[w] = "keep" /\ pc'[w] = "next"
        /\ dropped'[w] = dropped[w] /\ mine'[w] = mine[w]
    BY <1>8 DEF Keep, Prepend, TypeOK
  <2>2. Len(retired') = Len(retired) + 1  BY <2>1 DEF TypeOK
  <2> QED  BY <1>0, <2>1, <2>2 DEF Holding, Shifts
<1>9. CASE Delete(w)
  <2>1. /\ UNCHANGED retired /\ pc[w] = "delete" /\ pc'[w] = "next"
        /\ dropped'[w] = dropped[w] + 1 /\ mine'[w] = mine[w]
    BY <1>9 DEF Delete, TypeOK
  <2> QED  BY <1>0, <1>1, <2>1 DEF Holding
<1>10. CASE Subtract(w)
  <2>1. UNCHANGED retired /\ ~ Scanning(w)'  BY <1>10 DEF Subtract, TypeOK, Scanning
  <2> QED  BY <1>0, <2>1 DEF Holding, Shifts
<1> QED
  BY <1>2, <1>3, <1>4, <1>5, <1>6, <1>7, <1>8, <1>9, <1>10 DEF WriterStep

\* What a step of writer w leaves of the other writers.
LEMMA OtherWriters ==
    ASSUME TypeOK, NEW w \in Writers, WriterStep(w), NEW v \in Writers, v # w
    PROVE  /\ pc'[v] = pc[v] /\ node'[v] = node[v] /\ mine'[v] = mine[v]
           /\ dropped'[v] = dropped[v]
  BY DEF TypeOK, WriterStep, Replace, PushRetired, CountRetired, CallScan, ScanTake, Goto,
         ScanNext, Probe, ProbeOneOf, Keep, Delete, Subtract, Finish, Prepend, readerVars,
         writerVars, domain

LEMMA GarbageMoves ==
    ASSUME TypeOK, TypeOK', NEW w \in Writers, WriterStep(w)
    PROVE  /\ Garbage \in Nat /\ Garbage' \in Nat
           /\ Garbage' = Garbage + (Len(retired') - Len(retired) + Unsettled(w)' - Unsettled(w))
<1>0. Holdings /\ Holdings' /\ SidesTyped /\ SidesTyped'
  BY HeldType, SidesType, PTL
<1>1. SumFunction(Held') = SumFunction(Held) - Unsettled(w) + Unsettled(w)'
  <2>1. /\ Held \in [Writers -> Nat] /\ Held' \in [Writers -> Nat]
        /\ Held[w] = Unsettled(w) /\ Held'[w] = Unsettled(w)'
    BY <1>0 DEF Held, Holdings
  <2>2. \A v \in Writers : v # w => Held'[v] = Held[v]
    BY OtherWriters DEF Held, Unsettled, Scanning, InHand
  <2> HIDE DEF Held
  <2> QED  BY <2>1, <2>2, ThreadsAssumption, SumChanges
<1>2. Unsettled(w) \in Nat /\ Unsettled(w)' \in Nat  BY <1>0 DEF Holdings, Held
<1>3. Garbage = Len(retired) + SumFunction(Held) /\ Garbage' = Len(retired') + SumFunction(Held')
  BY DEF Garbage
<1>4. /\ Len(retired) \in Nat /\ SumFunction(Held) \in Nat /\ Garbage \in Nat
      /\ Len(retired') \in Nat /\ SumFunction(Held') \in Nat /\ Garbage' \in Nat
  BY <1>0 DEF SidesTyped
<1> HIDE DEF Held
<1> QED  BY <1>1, <1>2, <1>3, <1>4

\* The list is no longer than there are nodes.
LEMMA ListBound ==
    ASSUME TypeOK, EveryNodeAccountedFor
    PROVE  /\ IsFiniteSet(ToSet(retired)) /\ Cardinality(ToSet(retired)) = Len(retired)
           /\ Len(retired) <= Cardinality(Nodes)
<1>1. retired \in Seq(Nodes) /\ IsInjective(retired)  BY DEF TypeOK, EveryNodeAccountedFor
<1>2. IsFiniteSet(ToSet(retired)) /\ Cardinality(ToSet(retired)) = Len(retired)
  BY <1>1, InjectiveLength
<1>3. ToSet(retired) \in SUBSET Nodes  BY <1>1 DEF ToSet
<1> QED  BY <1>2, <1>3, NodesAssumption, FS_Subset

LEMMA ScansStep ==
    /\ TypeOK /\ HandsFull /\ ListsTaken /\ EveryNodeAccountedFor /\ ScansBounded
    /\ TypeOK' /\ HandsFull' /\ ListsTaken' /\ [Next]_vars
    => ScansBounded'
<1> SUFFICES ASSUME TypeOK, HandsFull, ListsTaken, EveryNodeAccountedFor, ScansBounded,
                    TypeOK', HandsFull', ListsTaken', [Next]_vars
             PROVE  ScansBounded'
  OBVIOUS
<1>1. ASSUME UNCHANGED <<mine, dropped>>, \A w \in Writers : pc'[w] = pc[w] /\ node'[w] = node[w]
      PROVE  ScansBounded'
  BY <1>1 DEF ScansBounded, Unsettled, Scanning, InHand
<1>2. ASSUME NEW r \in Readers, ReaderStep(r) PROVE ScansBounded'
  <2>1. UNCHANGED <<mine, dropped>>
    BY <1>2 DEF ReaderStep, MakeGuard, AcquireSlot, SlotTaken, TryNextSlot, LoadPublished,
                Protect, Validate, Clear, Release, Drain, writerVars
  <2>2. \A w \in Writers : pc'[w] = pc[w] /\ node'[w] = node[w]
    BY <1>2, ThreadsAssumption
       DEF ReaderStep, MakeGuard, AcquireSlot, SlotTaken, TryNextSlot, LoadPublished,
           Protect, Validate, Clear, Release, Drain, Goto, TypeOK
  <2> QED  BY <1>1, <2>1, <2>2
<1>3. ASSUME NEW w \in Writers, WriterStep(w) PROVE ScansBounded'
  <2>1. Unsettled(w)' <= Unsettled(w) \/ Unsettled(w)' = Len(retired)
    BY <1>3, WriterShifts DEF Shifts
  <2>2. \A v \in Writers : v # w => Unsettled(v)' = Unsettled(v)
    BY <1>3, OtherWriters DEF Unsettled, Scanning, InHand
  <2>3. /\ Unsettled(w) <= Cardinality(Nodes) /\ Len(retired) <= Cardinality(Nodes)
        /\ Cardinality(Nodes) \in Nat
    BY ListBound, NodesAssumption, FS_CardinalityType DEF ScansBounded
  <2>4. Unsettled(w) \in Nat /\ Unsettled(w)' \in Nat
    <3>1. Holdings /\ Holdings'  BY HeldType, PTL
    <3> QED  BY <3>1 DEF Holdings, Held
  <2>5. Unsettled(w)' <= Cardinality(Nodes)  BY <2>1, <2>3, <2>4
  <2> QED  BY <2>2, <2>5 DEF ScansBounded
<1>4. CASE Destroy
  <2>1. \A w \in Writers : ~ Scanning(w)'  BY <1>4 DEF Destroy, Scanning
  <2>2. \A w \in Writers : Unsettled(w)' = 0  BY <2>1 DEF Unsettled
  <2>3. Cardinality(Nodes) \in Nat  BY NodesAssumption, FS_CardinalityType
  <2> QED  BY <2>2, <2>3 DEF ScansBounded
<1>5. CASE UNCHANGED vars  BY <1>1, <1>5 DEF vars
<1> QED  BY <1>2, <1>3, <1>4, <1>5 DEF Next

\* A step that leaves the list alone and shows no scan a node of its own.
LEMMA SurvivorsStay ==
    ASSUME TypeOK, TypeOK', NEW kept, Survivors(kept), ToSet(retired) \subseteq ToSet(retired'),
           \A w \in Writers : Pinned(w)' \subseteq Pinned(w)
    PROVE  Survivors(kept)'
<1> SUFFICES ASSUME NEW w \in Writers
             PROVE  Cardinality(kept[w]) + Cardinality(Pinned(w)') <= 2 * Cardinality(Readers)
  BY DEF Survivors
<1>1. /\ IsFiniteSet(Pinned(w)) /\ Cardinality(Pinned(w)) \in Nat
      /\ Cardinality(Readers) \in Nat
  BY PinnedTypes
<1>2. Cardinality(Pinned(w)') \in Nat /\ Cardinality(Pinned(w)') <= Cardinality(Pinned(w))
  <2>1. Pinned(w)' \subseteq Pinned(w)  OBVIOUS
  <2> QED  BY <1>1, <2>1, SetGrows
<1>3. Cardinality(kept[w]) \in Nat
  <2>1. kept[w] \in SUBSET Nodes  BY DEF Survivors
  <2> QED  BY <2>1, NodesAssumption, FS_Subset, FS_CardinalityType
<1>4. Cardinality(kept[w]) + Cardinality(Pinned(w)) <= 2 * Cardinality(Readers)
  BY DEF Survivors
<1> QED  BY <1>1, <1>2, <1>3, <1>4

\* A reader shows a scan nothing new: it loads what is published, which is not retired.
LEMMA GarbageReader ==
    ASSUME ~ StoreBuffering, TypeOK, TypeOK', Unbuffered, EveryNodeAccountedFor,
           NEW kept, Survivors(kept), Few(kept), NEW q \in Readers, ReaderStep(q)
    PROVE  Survivors(kept)' /\ Few(kept)'
<1> USE DEF Goto, readerVars, writerVars, domain
<1>1. /\ UNCHANGED <<published, retired, mine, dropped>>
      /\ \A w \in Writers : pc'[w] = pc[w] /\ node'[w] = node[w]
  <2>1. UNCHANGED <<published, retired, mine, dropped>>
    BY DEF ReaderStep, MakeGuard, AcquireSlot, SlotTaken, TryNextSlot, LoadPublished,
           Protect, Validate, Clear, Release, Drain
  <2>2. \A w \in Writers : pc'[w] = pc[w] /\ node'[w] = node[w]
    BY ThreadsAssumption
       DEF ReaderStep, MakeGuard, AcquireSlot, SlotTaken, TryNextSlot, LoadPublished,
           Protect, Validate, Clear, Release, Drain, TypeOK
  <2> QED  BY <2>1, <2>2
<1>2. Shown' \subseteq Shown \cup {published, Null}
  <2>1. CASE UNCHANGED <<node, hazards>>  BY <2>1 DEF Shown
  <2>2. CASE LoadPublished(q)
    <3>1. UNCHANGED hazards /\ node' = [node EXCEPT ![q] = published]
      BY <2>2 DEF LoadPublished
    <3> QED  BY <3>1 DEF Shown, TypeOK
  <2>3. CASE Protect(q)
    <3>1. UNCHANGED node /\ hazards' = [hazards EXCEPT ![slot[q]] = node[q]]
      BY <2>3 DEF Protect, Store, Perform
    <3> QED  BY <3>1 DEF Shown, TypeOK
  <2>4. CASE Clear(q)
    <3>1. /\ node' = [node EXCEPT ![q] = Null]
          /\ hazards' = [hazards EXCEPT ![slot[q]] = Null]
      BY <2>4 DEF Clear, Store, Perform
    <3> QED  BY <3>1 DEF Shown, TypeOK
  <2>5. CASE Release(q)
    <3>1. UNCHANGED <<node, hazards>>  BY <2>5 DEF Release, Store, Perform
    <3> QED  BY <2>1, <3>1
  <2>6. CASE MakeGuard(q) \/ AcquireSlot(q) \/ SlotTaken(q) \/ Validate(q)
    <3>1. UNCHANGED <<node, hazards>>
      BY <2>6 DEF MakeGuard, AcquireSlot, SlotTaken, TryNextSlot, Validate
    <3> QED  BY <2>1, <3>1
  <2>7. ~ Drain(q)  BY DEF Drain, Unbuffered
  <2> QED  BY <2>2, <2>3, <2>4, <2>5, <2>6, <2>7 DEF ReaderStep
<1>3. ASSUME NEW w \in Writers PROVE Pinned(w)' \subseteq Pinned(w)
  <2>1. Waiting(w) \cap Live = {}
    <3>1. Waiting(w) \subseteq allocated \ Live  BY DEF EveryNodeAccountedFor
    <3> QED  BY <3>1
  <2>2. Waiting(w) \subseteq Nodes  BY DEF Waiting, InHand, TypeOK, ToSet
  <2>3. published \notin Waiting(w) /\ Null \notin Waiting(w)
    BY <2>1, <2>2, NodesAssumption DEF Live
  <2>4. InHand(w)' = InHand(w)  BY <1>1 DEF InHand
  <2> QED  BY <1>1, <1>2, <2>3, <2>4 DEF Pinned, Waiting
<1>4. Survivors(kept)'
  <2>1. ToSet(retired) \subseteq ToSet(retired')  BY <1>1
  <2> QED  BY <1>3, <2>1, SurvivorsStay
<1>5. Held' = Held  BY <1>1 DEF Held, Unsettled, Scanning, InHand
<1>6. Garbage' = Garbage  BY <1>1, <1>5 DEF Garbage
<1> QED  BY <1>1, <1>4, <1>6 DEF Few, Attended

LEMMA WriterPins ==
    ASSUME TypeOK, NEW w \in Writers, WriterStep(w)
    PROVE  Shown' = Shown /\ \A v \in Writers \ {w} : Pinned(v)' = Pinned(v)
<1>1. Shown' = Shown  BY WriterFrame DEF Shown
<1>2. \A v \in Writers \ {w} : pc'[v] = pc[v] /\ node'[v] = node[v] /\ mine'[v] = mine[v]
  BY OtherWriters
<1> QED  BY <1>1, <1>2 DEF Pinned, InHand

\* The steps that leave the list alone.
Quiet(w) ==
    \/ Replace(w) \/ CountRetired(w) \/ CallScan(w) \/ ScanNext(w) \/ Probe(w)
    \/ Delete(w) \/ Subtract(w) \/ Finish(w)

LEMMA QuietPins ==
    ASSUME TypeOK, HandsFull, ListsTaken, NEW w \in Writers, Quiet(w)
    PROVE  UNCHANGED retired /\ \A v \in Writers : Pinned(v)' \subseteq Pinned(v)
<1> USE DEF Goto, readerVars, writerVars, domain
<1>0. WriterStep(w)  BY DEF WriterStep, Quiet
<1>1. UNCHANGED retired
  BY DEF Quiet, Replace, CountRetired, CallScan, ScanNext, Probe, ProbeOneOf, Delete,
         Subtract, Finish
<1>2. Shown' = Shown /\ \A v \in Writers \ {w} : Pinned(v)' = Pinned(v)  BY <1>0, WriterPins
<1>3. Pinned(w)' \subseteq Pinned(w)
  <2>1. CASE Replace(w) \/ CountRetired(w) \/ CallScan(w) \/ Subtract(w) \/ Finish(w)
    <3>1. UNCHANGED mine /\ pc'[w] \notin {"probe", "keep"}
      BY <2>1 DEF Replace, CountRetired, CallScan, Subtract, Finish, TypeOK
    <3> QED  BY <1>2, <3>1 DEF Pinned
  <2>2. CASE ScanNext(w) /\ mine[w] = <<>>
    <3>1. UNCHANGED mine /\ pc'[w] \notin {"probe", "keep"}  BY <2>2 DEF ScanNext, TypeOK
    <3> QED  BY <1>2, <3>1 DEF Pinned
  <2>3. CASE ScanNext(w) /\ mine[w] # <<>>
    <3>1. mine[w] \in Seq(Nodes)  BY DEF TypeOK
    <3>2. ToSet(mine[w]) = {Head(mine[w])} \cup ToSet(Tail(mine[w]))  BY <2>3, <3>1, TailSet
    <3>3. mine'[w] = Tail(mine[w]) /\ node'[w] = Head(mine[w]) /\ pc'[w] = "probe"
      BY <2>3 DEF ScanNext, TypeOK
    <3>4. InHand(w)' \subseteq {Head(mine[w])}  BY <3>3 DEF InHand
    <3> QED  BY <1>2, <3>2, <3>3, <3>4 DEF Pinned
  <2>4. CASE Probe(w)
    <3>1. UNCHANGED <<mine, node>> /\ pc[w] = "probe" /\ InHand(w)' = InHand(w)
      BY <2>4 DEF Probe, ProbeOneOf, InHand
    <3>2. CASE pc'[w] = "keep"
      <4>1. hazards[probe[w]] = node[w]
        BY <2>4, <3>1, <3>2 DEF Probe, ProbeOneOf, TypeOK
      <4>2. InHand(w) \subseteq Shown  BY <4>1 DEF InHand, Shown, TypeOK
      <4> QED  BY <1>2, <3>1, <3>2, <4>2 DEF Pinned
    <3>3. CASE pc'[w] # "keep"  BY <1>2, <3>1, <3>3 DEF Pinned
    <3> QED  BY <3>2, <3>3
  <2>5. CASE Delete(w)
    <3>1. UNCHANGED mine /\ pc'[w] = "next"  BY <2>5 DEF Delete, TypeOK
    <3> QED  BY <1>2, <3>1 DEF Pinned
  <2> QED  BY <2>1, <2>2, <2>3, <2>4, <2>5 DEF Quiet
<1> QED  BY <1>1, <1>2, <1>3

\* Without anybody else who has yet to count, a count below the threshold is the garbage.
CountFits == Cardinality(Nodes) * (Cardinality(Writers) + 1) < CountModulus

CountExact == Garbage = retired_count
NobodyCounts == \A w \in Writers : pc[w] \notin {"count", "joined"}

LEMMA CountIsGarbage ==
    /\ TypeOK /\ EveryNodeAccountedFor /\ ScansBounded /\ CountBalances /\ CountFits /\ NobodyCounts
    => CountExact
<1> SUFFICES ASSUME TypeOK, EveryNodeAccountedFor, ScansBounded, CountBalances, CountFits,
                    NobodyCounts
             PROVE  Garbage = retired_count
  BY DEF CountExact
<1> USE DEF NobodyCounts
<1> DEFINE n == Cardinality(Nodes)
           m == Cardinality(Writers)
<1>0. n \in Nat /\ m \in Nat  BY PinnedTypes
<1>1. Counting = {}  BY DEF Counting
<1>2. Cardinality(Counting) = 0  BY <1>1, FS_EmptySet
<1>3. SumFunction(Held) \in Nat /\ SumFunction(Held) <= m * n
  <2>1. Held \in [Writers -> Nat] /\ \A w \in Writers : Held[w] <= n
    BY HeldType DEF Holdings, ScansBounded, Held
  <2> HIDE DEF Held
  <2> QED  BY <1>0, <2>1, SumBound, ThreadsAssumption
<1>4. Len(retired) \in Nat /\ Len(retired) <= n  BY ListBound DEF TypeOK
<1>5. n * (m + 1) = m * n + n /\ m * n \in Nat  BY <1>0
<1> DEFINE s == SumFunction(Held)
<1>6. Garbage = Len(retired) + s  BY DEF Garbage
<1>7. n * (m + 1) < CountModulus /\ CountModulus \in Nat \ {0}
  BY ModulusAssumption, ThresholdAssumption DEF CountFits
<1>8. s \in Nat /\ s <= m * n  BY <1>3
<1> HIDE DEF n, m, s
<1>9. Garbage \in 0..(CountModulus - 1)
  <2> DEFINE p == m * n
  <2>1. p \in Nat /\ p + n < CountModulus  BY <1>5, <1>7
  <2>2. s <= p  BY <1>8
  <2> HIDE DEF p
  <2> QED  BY <1>0, <1>4, <1>6, <1>7, <1>8, <2>1, <2>2
<1>10. retired_count \in 0..(CountModulus - 1)  BY DEF TypeOK
<1>11. (retired_count + 0) % CountModulus = Garbage % CountModulus
  BY <1>2 DEF CountBalances, Counting, Garbage, Held
<1>12. retired_count + 0 = retired_count  BY <1>10, <1>7
<1>13. retired_count % CountModulus = Garbage % CountModulus  BY <1>11, <1>12
<1>14. retired_count % CountModulus = retired_count /\ Garbage % CountModulus = Garbage
  BY <1>7, <1>9, <1>10, RemainderSmall
<1> QED  BY <1>13, <1>14

LEMMA GarbageQuiet ==
    ASSUME TypeOK, TypeOK', HandsFull, HandsFull', ListsTaken, ListsTaken',
           EveryNodeAccountedFor', ScansBounded', CountBalances', JoinedTogether, CountFits,
           NEW kept, Survivors(kept), Few(kept), NEW w \in Writers, Quiet(w)
    PROVE  Survivors(kept)' /\ Few(kept)'
<1> USE DEF Goto
<1>0. WriterStep(w)  BY DEF WriterStep, Quiet
<1>1. UNCHANGED retired /\ \A v \in Writers : Pinned(v)' \subseteq Pinned(v)  BY QuietPins
<1>2. Survivors(kept)'
  <2>1. ToSet(retired) \subseteq ToSet(retired')  BY <1>1
  <2> QED  BY <1>1, <2>1, SurvivorsStay
<1>3. CASE ToSet(retired) \subseteq UNION {kept[v] : v \in Writers}
  BY <1>1, <1>2, <1>3 DEF Few
<1>4. CASE CountRetired(w)
  <2>1. CASE pc'[w] = "scan"  BY <1>2, <2>1 DEF Few, Attended
  <2>2. CASE pc'[w] # "scan"
    <3>1. /\ retired_count' < RetireThreshold /\ pc'[w] = "idle"
      BY <1>4, <2>2, ThresholdAssumption DEF CountRetired, TypeOK
    <3>2. CASE \E v \in Writers : pc'[v] \in {"count", "scan"}  BY <1>2, <3>2 DEF Few, Attended
    <3>3. CASE \A v \in Writers : pc'[v] \notin {"count", "scan"}
      <4>1. \A v \in Writers : pc'[v] # "joined"
        <5>1. pc[w] = "count"  BY <1>4 DEF CountRetired
        <5>2. \A v \in Writers : pc[v] # "joined"  BY <5>1 DEF JoinedTogether
        <5> QED  BY <1>0, <3>1, <5>2, OtherWriters
      <4>2. NobodyCounts'  BY <3>3, <4>1 DEF NobodyCounts
      <4>3. CountFits'  BY DEF CountFits
      <4>4. CountExact'  BY <4>2, <4>3, CountIsGarbage, PTL
      <4> QED  BY <1>2, <3>1, <4>4 DEF Few, CountExact
    <3> QED  BY <3>2, <3>3
  <2> QED  BY <2>1, <2>2
<1>5. CASE ~ CountRetired(w) /\ Attended
  <2>1. pc[w] \notin {"count", "scan"}
    BY <1>5 DEF Quiet, Replace, CallScan, ScanNext, Probe, ProbeOneOf, Delete, Subtract,
                Finish
  <2>2. PICK v \in Writers : pc[v] \in {"count", "scan"}  BY <1>5 DEF Attended
  <2>3. v # w /\ pc'[v] = pc[v]  BY <1>0, <2>1, <2>2, OtherWriters
  <2> QED  BY <1>2, <2>2, <2>3 DEF Few, Attended
<1>6. CASE ~ CountRetired(w) /\ Garbage < RetireThreshold
  <2>1. ~ PushRetired(w)
    BY DEF Quiet, Replace, CountRetired, CallScan, ScanNext, Probe, ProbeOneOf, Delete,
           Subtract, Finish, PushRetired
  <2> DEFINE more == Len(retired') - Len(retired) + Unsettled(w)' - Unsettled(w)
  <2>2. more <= 0  BY <1>0, <2>1, WriterShifts DEF Shifts
  <2>3. Garbage \in Nat /\ Garbage' \in Nat /\ Garbage' = Garbage + more
    BY <1>0, GarbageMoves
  <2>4. more \in Int
    <3>1. Holdings /\ Holdings'  BY HeldType, PTL
    <3>2. Unsettled(w) \in Nat /\ Unsettled(w)' \in Nat  BY <3>1 DEF Holdings, Held
    <3> QED  BY <3>2 DEF TypeOK
  <2> HIDE DEF more
  <2>5. Garbage' < RetireThreshold  BY <1>6, <2>2, <2>3, <2>4, ThresholdAssumption
  <2> QED  BY <1>2, <2>5 DEF Few
<1> QED  BY <1>3, <1>4, <1>5, <1>6 DEF Few

LEMMA GarbagePush ==
    ASSUME TypeOK, TypeOK', HandsFull, NEW kept, Survivors(kept),
           NEW w \in Writers, PushRetired(w)
    PROVE  Survivors(kept)' /\ Few(kept)'
<1>0. WriterStep(w)  BY DEF WriterStep
<1>1. ToSet(retired) \subseteq ToSet(retired')
  <2>1. node[w] \in Nodes /\ retired \in Seq(Nodes)
    BY DEF HandsFull, TypeOK, PushRetired, Goto
  <2> QED  BY <2>1, PrependSet DEF PushRetired, Prepend
<1>2. Pinned(w)' \subseteq Pinned(w)
  <2>1. UNCHANGED mine /\ pc'[w] = "count"
    BY DEF PushRetired, Goto, writerVars, TypeOK
  <2> QED  BY <1>0, <2>1, WriterPins DEF Pinned
<1>3. \A v \in Writers : Pinned(v)' \subseteq Pinned(v)  BY <1>0, <1>2, WriterPins
<1>4. Survivors(kept)'  BY <1>1, <1>3, SurvivorsStay
<1>5. pc'[w] = "count"  BY DEF PushRetired, Goto, TypeOK
<1> QED  BY <1>4, <1>5 DEF Few, Attended

LEMMA GarbageKeep ==
    ASSUME TypeOK, TypeOK', HandsFull, HandsFull', ListsTaken, ListsTaken',
           EveryNodeAccountedFor,
           NEW kept, Survivors(kept), Few(kept), NEW w \in Writers, Keep(w)
    PROVE  GarbageInv'
<1> USE DEF Goto, writerVars
<1>0. WriterStep(w)  BY DEF WriterStep
<1>1. PICK n \in Nodes : n = node[w]  BY DEF HandsFull, TypeOK, Keep
<1> DEFINE more == [kept EXCEPT ![w] = @ \cup {n}]
<1>2. ToSet(retired') = {n} \cup ToSet(retired)
  BY <1>1, PrependSet DEF Keep, Prepend, TypeOK
<1>3. /\ InHand(w) = {n} /\ n \notin ToSet(mine[w]) /\ n \notin ToSet(retired)
  BY <1>1, NodesAssumption DEF InHand, EveryNodeAccountedFor, Waiting
<1>4. kept \in [Writers -> SUBSET Nodes]  BY DEF Survivors
<1>5. more \in [Writers -> SUBSET Nodes] /\ more[w] = kept[w] \cup {n}
      /\ \A v \in Writers \ {w} : more[v] = kept[v]
  BY <1>1, <1>4
<1>6. n \in Pinned(w) /\ Pinned(w)' \subseteq Pinned(w) \ {n}
  <2>1. pc[w] = "keep" /\ pc'[w] = "next" /\ UNCHANGED mine  BY DEF Keep, TypeOK
  <2>2. Shown' = Shown  BY <1>0, WriterPins
  <2> QED  BY <1>3, <2>1, <2>2 DEF Pinned
<1>7. ASSUME NEW v \in Writers
      PROVE  /\ more[v] \subseteq ToSet(retired')
             /\ Cardinality(more[v]) + Cardinality(Pinned(v)') <= 2 * Cardinality(Readers)
  <2>1. /\ kept[v] \subseteq ToSet(retired)
        /\ Cardinality(kept[v]) + Cardinality(Pinned(v)) <= 2 * Cardinality(Readers)
    BY DEF Survivors
  <2>2. CASE v # w
    <3>1. more[v] = kept[v] /\ Pinned(v)' = Pinned(v)  BY <1>0, <1>5, <2>2, WriterPins
    <3> QED  BY <1>2, <2>1, <3>1
  <2>3. CASE v = w
    <3>1. IsFiniteSet(kept[w]) /\ Cardinality(kept[w]) \in Nat /\ n \notin kept[w]
      <4>1. kept[w] \in SUBSET Nodes  BY <1>4
      <4> QED  BY <1>3, <2>1, <2>3, <4>1, NodesAssumption, FS_Subset, FS_CardinalityType
    <3>2. Cardinality(more[w]) = Cardinality(kept[w]) + 1
      <4>1. Cardinality(kept[w] \cup {n}) = Cardinality(kept[w]) + 1
        BY <3>1, FS_AddElement
      <4> QED  BY <1>5, <4>1
    <3>3. IsFiniteSet(Pinned(w)) /\ Cardinality(Pinned(w)) \in Nat /\ Cardinality(Readers) \in Nat
      BY PinnedTypes
    <3>4. Cardinality(Pinned(w)') \in Nat /\ Cardinality(Pinned(w)') + 1 <= Cardinality(Pinned(w))
      <4>1. Pinned(w)' \subseteq Pinned(w) /\ n \in Pinned(w) \ Pinned(w)'  BY <1>6
      <4>2. Cardinality(Pinned(w)') \in Nat  BY <3>3, <4>1, SetGrows
      <4> QED  BY <3>3, <4>1, <4>2, OneMore
    <3> QED  BY <1>2, <1>5, <2>1, <2>3, <3>1, <3>2, <3>3, <3>4
  <2> QED  BY <2>2, <2>3
<1> HIDE DEF more
<1>8. Survivors(more)'  BY <1>5, <1>7 DEF Survivors
<1>9. Few(more)'
  <2>1. CASE ToSet(retired) \subseteq UNION {kept[v] : v \in Writers}
    <3>1. \A v \in Writers : kept[v] \subseteq more[v]  BY <1>5
    <3>2. ToSet(retired') \subseteq UNION {more[v] : v \in Writers}
      BY <1>2, <1>5, <2>1, <3>1
    <3> QED  BY <3>2 DEF Few
  <2>2. CASE Attended
    <3>1. PICK v \in Writers : pc[v] \in {"count", "scan"}  BY <2>2 DEF Attended
    <3>2. v # w  BY <3>1 DEF Keep
    <3>3. pc'[v] = pc[v]  BY <1>0, <3>2, OtherWriters
    <3> QED  BY <3>1, <3>3 DEF Few, Attended
  <2>3. CASE Garbage < RetireThreshold
    <3>0. ~ PushRetired(w)  BY DEF Keep, PushRetired
    <3> DEFINE d == Len(retired') - Len(retired) + Unsettled(w)' - Unsettled(w)
    <3>1. d <= 0  BY <1>0, <3>0, WriterShifts DEF Shifts
    <3>2. Garbage \in Nat /\ Garbage' \in Nat /\ Garbage' = Garbage + d  BY <1>0, GarbageMoves
    <3>3. d \in Int
      <4>1. Holdings /\ Holdings'  BY HeldType, PTL
      <4>2. Unsettled(w) \in Nat /\ Unsettled(w)' \in Nat  BY <4>1 DEF Holdings, Held
      <4> QED  BY <4>2 DEF TypeOK
    <3> HIDE DEF d
    <3>4. Garbage' < RetireThreshold  BY <2>3, <3>1, <3>2, <3>3, ThresholdAssumption
    <3> QED  BY <3>4 DEF Few
  <2> QED  BY <2>1, <2>2, <2>3 DEF Few
<1> QED  BY <1>8, <1>9 DEF GarbageInv

\* Nothing is in the list when all of it is taken, or before there is anything.
Emptied ==
    /\ retired = <<>>
    /\ \A v \in Writers : Cardinality(Pinned(v)) <= 2 * Cardinality(Readers)

LEMMA NothingKept == TypeOK /\ Emptied => GarbageInv
<1> SUFFICES ASSUME TypeOK, Emptied PROVE GarbageInv  OBVIOUS
<1> USE DEF Emptied
<1> DEFINE none == [v \in Writers |-> {}]
<1>1. ToSet(retired) = {}  BY DEF ToSet
<1>2. Cardinality({}) = 0  BY FS_EmptySet
<1>3. /\ none \in [Writers -> SUBSET Nodes]
      /\ \A v \in Writers : none[v] \subseteq ToSet(retired) /\ Cardinality(none[v]) = 0
  BY <1>2
<1>4. \A v \in Writers : Cardinality(Pinned(v)) \in Nat  BY PinnedTypes
<1>5. Survivors(none)  BY <1>3, <1>4 DEF Survivors
<1>6. Few(none)  BY <1>1 DEF Few
<1> HIDE DEF none
<1> QED  BY <1>5, <1>6 DEF GarbageInv

LEMMA GarbageTake ==
    ASSUME TypeOK, TypeOK', SlotsCleared, NEW kept, Survivors(kept),
           NEW w \in Writers, ScanTake(w)
    PROVE  GarbageInv'
<1>0. WriterStep(w)  BY DEF WriterStep
<1>1. retired' = <<>>  BY DEF ScanTake
<1>2. ASSUME NEW v \in Writers PROVE Cardinality(Pinned(v)') <= 2 * Cardinality(Readers)
  <2>1. CASE v # w
    <3>1. Pinned(v)' = Pinned(v)  BY <1>0, <2>1, WriterPins
    <3>2. kept[v] \in SUBSET Nodes
          /\ Cardinality(kept[v]) + Cardinality(Pinned(v)) <= 2 * Cardinality(Readers)
      BY DEF Survivors
    <3>3. Cardinality(kept[v]) \in Nat  BY <3>2, NodesAssumption, FS_Subset, FS_CardinalityType
    <3> QED  BY <3>1, <3>2, <3>3, PinnedTypes
  <2>2. CASE v = w
    <3>1. pc'[w] = "next" /\ mine'[w] = retired  BY DEF ScanTake, Goto, TypeOK
    <3>2. Shown' = Shown  BY <1>0, WriterPins
    <3>3. ToSet(retired) \subseteq Nodes  BY DEF TypeOK, ToSet
    <3>4. Pinned(w)' \subseteq Shown \ {Null}
      BY <3>1, <3>2, <3>3, NodesAssumption DEF Pinned
    <3>5. IsFiniteSet(Shown \ {Null})
          /\ Cardinality(Shown \ {Null}) <= 2 * Cardinality(Readers)
      BY ShownBound
    <3> HIDE DEF Shown
    <3>6. /\ Cardinality(Pinned(w)') \in Nat /\ Cardinality(Shown \ {Null}) \in Nat
          /\ Cardinality(Pinned(w)') <= Cardinality(Shown \ {Null})
      BY <3>4, <3>5, SetGrows
    <3> QED  BY <2>2, <3>5, <3>6, PinnedTypes
  <2> QED  BY <2>1, <2>2
<1>3. Emptied'  BY <1>1, <1>2 DEF Emptied
<1> QED  BY <1>3, NothingKept, PTL

GarbageBase ==
    /\ TypeOK /\ HandsFull /\ ListsTaken /\ EveryNodeAccountedFor /\ CountBalances
    /\ Unbuffered /\ SlotsCleared /\ ScansBounded /\ JoinedTogether

LEMMA GarbageStep ==
    ~ StoreBuffering /\ CountFits /\ GarbageBase /\ GarbageBase' /\ GarbageInv /\ [Next]_vars
        => GarbageInv'
<1> SUFFICES ASSUME ~ StoreBuffering, CountFits, GarbageBase, GarbageBase', GarbageInv, [Next]_vars
             PROVE  GarbageInv'
  OBVIOUS
<1> USE DEF GarbageBase
<1>1. PICK kept : Survivors(kept) /\ Few(kept)  BY DEF GarbageInv
<1>2. ASSUME NEW q \in Readers, ReaderStep(q) PROVE GarbageInv'
  BY <1>1, <1>2, GarbageReader DEF GarbageInv
<1>3. ASSUME NEW w \in Writers, WriterStep(w) PROVE GarbageInv'
  <2>1. CASE Quiet(w)
    BY <1>1, <2>1, GarbageQuiet DEF GarbageInv
  <2>2. CASE PushRetired(w)  BY <1>1, <2>2, GarbagePush DEF GarbageInv
  <2>3. CASE Keep(w)  BY <1>1, <2>3, GarbageKeep
  <2>4. CASE ScanTake(w)  BY <1>1, <2>4, GarbageTake
  <2> QED  BY <1>3, <2>1, <2>2, <2>3, <2>4 DEF WriterStep, Quiet
<1>4. CASE Destroy
  <2>1. retired' = <<>>  BY <1>4 DEF Destroy
  <2>2. ASSUME NEW v \in Writers PROVE Pinned(v)' = {}
    <3>1. mine[v] = <<>> /\ UNCHANGED mine /\ pc'[v] = "joined"
      BY <1>4 DEF Destroy, ListsTaken, Scanning
    <3> QED  BY <3>1 DEF Pinned, ToSet
  <2>3. \A v \in Writers : Cardinality(Pinned(v)') <= 2 * Cardinality(Readers)
    BY <2>2, FS_EmptySet, PinnedTypes
  <2>4. Emptied'  BY <2>1, <2>3 DEF Emptied
  <2> QED  BY <2>4, NothingKept, PTL
<1>5. CASE UNCHANGED vars
  BY <1>1, <1>5 DEF vars, GarbageInv, Survivors, Few, Attended, Garbage, Held, Unsettled,
                   Scanning, InHand, Pinned, Shown
<1> QED  BY <1>2, <1>3, <1>4, <1>5 DEF Next

LEMMA GarbageInit == Init => GarbageInv
<1> SUFFICES ASSUME Init PROVE GarbageInv  OBVIOUS
<1>1. TypeOK  BY TypeInit
<1>2. \A v \in Writers : Pinned(v) = {}  BY DEF Init, Pinned, ToSet
<1>3. \A v \in Writers : Cardinality(Pinned(v)) <= 2 * Cardinality(Readers)
  BY <1>1, <1>2, FS_EmptySet, PinnedTypes
<1>4. retired = <<>>  BY DEF Init
<1> QED  BY <1>1, <1>3, <1>4, NothingKept DEF Emptied

\* Between calls the survivors of the last scans are all there is, or it is little.
LEMMA GarbageIsBounded ==
    ASSUME GarbageBase, GarbageInv, NothingToCount PROVE GarbageBounded
<1> SUFFICES ASSUME \A w \in Writers : pc[w] = "idle", ~ (Len(retired) < RetireThreshold)
             PROVE  Len(retired) <= 2 * Cardinality(Readers) * Cardinality(Writers)
  BY DEF GarbageBounded
<1> USE DEF GarbageBase
<1>1. PICK kept : Survivors(kept) /\ Few(kept)  BY DEF GarbageInv
<1>2. ~ Attended  BY DEF Attended
<1>3. ~ (Garbage < RetireThreshold)
  <2>1. SidesTyped  BY SidesType
  <2> QED  BY <2>1, ThresholdAssumption DEF SidesTyped, Garbage
<1>4. ToSet(retired) \subseteq UNION {kept[w] : w \in Writers}  BY <1>1, <1>2, <1>3 DEF Few
<1>5. kept \in [Writers -> SUBSET Nodes]  BY <1>1 DEF Survivors
<1> DEFINE b == 2 * Cardinality(Readers)
           all == AllOf(kept, Writers)
<1>6. b \in Nat /\ Cardinality(Writers) \in Nat  BY PinnedTypes
<1>7. ASSUME NEW w \in Writers PROVE Cardinality(kept[w]) <= b
  <2>1. Cardinality(kept[w]) + Cardinality(Pinned(w)) <= b  BY <1>1 DEF Survivors
  <2>2. kept[w] \in SUBSET Nodes  BY <1>5
  <2>3. Cardinality(kept[w]) \in Nat  BY <2>2, NodesAssumption, FS_Subset, FS_CardinalityType
  <2> QED  BY <1>6, <2>1, <2>3, PinnedTypes
<1> HIDE DEF b
<1>8. Cardinality(all) <= Cardinality(Writers) * b
  BY <1>5, <1>6, <1>7, ThreadsAssumption, NodesAssumption, UnionBound
<1>9. IsFiniteSet(all)
  <2>1. all \in SUBSET Nodes  BY <1>5 DEF AllOf
  <2> QED  BY <2>1, NodesAssumption, FS_Subset
<1> HIDE DEF all
<1>10. /\ Cardinality(ToSet(retired)) \in Nat /\ Cardinality(all) \in Nat
       /\ Cardinality(ToSet(retired)) <= Cardinality(all)
  <2>1. ToSet(retired) \subseteq all  BY <1>4 DEF all, AllOf
  <2> QED  BY <1>9, <2>1, SetGrows
<1>11. Cardinality(ToSet(retired)) = Len(retired)  BY ListBound
<1>12. Cardinality(Writers) * b = 2 * Cardinality(Readers) * Cardinality(Writers)
  <2> DEFINE r == Cardinality(Readers)
             m == Cardinality(Writers)
  <2>1. r \in Nat /\ m \in Nat  BY PinnedTypes
  <2> HIDE DEF r, m
  <2>2. m * (2 * r) = 2 * r * m  BY <2>1
  <2> QED  BY <2>2 DEF b, r, m
<1> QED  BY <1>6, <1>8, <1>10, <1>11, <1>12

LEMMA GarbageBaseAlways == ~ StoreBuffering => (Spec => []GarbageBase)
<1> SUFFICES ASSUME ~ StoreBuffering PROVE Spec => []GarbageBase  OBVIOUS
<1>1. TypeOK /\ Unbuffered /\ SlotsCleared /\ [Next]_vars => SlotsCleared'  BY ClearedStep
<1>2. Spec => []SlotsCleared  BY <1>1, ClearedInit, TypedHands, SlotsOwned, PTL DEF Spec
<1>3. Spec => []JoinedTogether  BY ClearedInit, JoinedStep, TypedHands, PTL DEF Spec
<1>4. Spec => []ScansBounded
  BY ClearedInit, ScansStep, TypedHands, ListsOfScans, NodesAccountedFor, PTL DEF Spec
<1> QED
  BY <1>2, <1>3, <1>4, TypedHands, ListsOfScans, NodesAccountedFor, CountStaysBalanced,
     SlotsOwned, PTL DEF GarbageBase

\* Between calls the retired nodes stay below the threshold, or each was left there by a
\* scan for one of two pointers of a reader, however scans overlap and addresses repeat,
\* where a store is visible before the next load and the count cannot wrap all the way round
\* (low_latency.h:393-422).
THEOREM GarbageStaysBounded == ~ StoreBuffering /\ CountFits => (Spec => []GarbageBounded)
<1> SUFFICES ASSUME ~ StoreBuffering, CountFits PROVE Spec => []GarbageBounded  OBVIOUS
<1>1. GarbageBase /\ GarbageBase' /\ GarbageInv /\ [Next]_vars => GarbageInv'  BY GarbageStep
<1>2. GarbageBase /\ GarbageInv /\ NothingToCount => GarbageBounded  BY GarbageIsBounded
<1>3. Spec => []NothingToCount
  BY CountInit, CountStep, ListsOfScans, TypedHands, PTL DEF Spec
<1> QED  BY <1>1, <1>2, <1>3, GarbageInit, GarbageBaseAlways, PTL DEF Spec
=============================================================================
