--------------------------- MODULE PipelineProofs ---------------------------
(***************************************************************************)
(* Proofs about Pipeline, for any number of producers, any capacity, both   *)
(* memory orders and any book: the ring inside the pipeline is the ring of  *)
(* ConcurrentQueue, and the book gets the orders in the order of their      *)
(* positions.                                                               *)
(***************************************************************************)
EXTENDS Pipeline, ConcurrentQueueProofs, FiniteSetTheorems

HistoryOK ==
    /\ holding \in [Consumers -> BOOLEAN]
    /\ claimed \in Seq(Values)
    /\ matched.orders \in Seq(Values)

OneMatcher(c) == Consumers = {c}

LEMMA Matcher == ASSUME NEW c \in Consumers PROVE OneMatcher(c)
<1>1. PICK d : Consumers = {d}  BY MatcherAssumption, FS_Singleton
<1> QED  BY <1>1 DEF OneMatcher
-----------------------------------------------------------------------------
(* The ring in the pipeline. *)

LEMMA RingStep == [PipelineNext]_pipeline => [Next]_vars
<1> SUFFICES ASSUME [PipelineNext]_pipeline PROVE [Next]_vars  OBVIOUS
<1>1. CASE UNCHANGED pipeline  BY <1>1 DEF pipeline, vars
<1>2. ASSUME NEW t \in Producers, Offer(t) \/ Push(t) PROVE Next
  BY <1>2 DEF Offer, Push, Next
<1>3. ASSUME NEW c \in Consumers, Pop(c) PROVE Next
  BY <1>3 DEF Pop, Ask, Next
<1>4. ASSUME NEW c \in Consumers, Match(c) PROVE UNCHANGED vars
  BY <1>4 DEF Match
<1> QED  BY <1>1, <1>2, <1>3, <1>4 DEF PipelineNext

\* The ring does not know that a book is fed from it: in the pipeline it behaves as it does
\* alone, so everything proved of ConcurrentQueue holds here
\* (concurrent_order_book_benches.cpp:15-57).
THEOREM PipelineRunsTheRing == PipelineSpec => Spec
  BY RingStep, PTL DEF PipelineSpec, PipelineInit, Spec

\* Also with a book behind it the ring is a bounded FIFO queue (concurrent_queue.h:28-72).
THEOREM PipelineIsFifo == PipelineSpec => FifoPromise
  BY PipelineRunsTheRing, ImplementsFifo
-----------------------------------------------------------------------------
LEMMA HistoryInit == PipelineInit => HistoryOK
  BY DEF PipelineInit, HistoryOK

LEMMA HistoryStep == TypeOK /\ HistoryOK /\ [PipelineNext]_pipeline => HistoryOK'
<1> SUFFICES ASSUME TypeOK, HistoryOK, [PipelineNext]_pipeline PROVE HistoryOK'  OBVIOUS
<1>0. \A t \in Threads : item[t] \in Values  BY DEF TypeOK, Values
<1>1. CASE UNCHANGED pipeline  BY <1>1 DEF pipeline, HistoryOK
<1>2. ASSUME NEW t \in Producers, Offer(t) PROVE HistoryOK'
  BY <1>2 DEF Offer, HistoryOK
<1>3. ASSUME NEW t \in Producers, Push(t) PROVE HistoryOK'
  BY <1>0, <1>3 DEF Push, Claims, HistoryOK, Threads
<1>4. ASSUME NEW c \in Consumers, Pop(c) PROVE HistoryOK'
  BY <1>4 DEF Pop, HistoryOK
<1>5. ASSUME NEW c \in Consumers, Match(c) PROVE HistoryOK'
  <2>1. matched'.orders = Append(matched.orders, item[c]) /\ claimed' = claimed
    BY <1>5 DEF Match
  <2>2. holding' \in [Consumers -> BOOLEAN]  BY <1>5 DEF Match, PutDown, HistoryOK
  <2> QED  BY <1>0, <2>1, <2>2 DEF HistoryOK, Threads
<1> QED  BY <1>1, <1>2, <1>3, <1>4, <1>5 DEF PipelineNext

LEMMA HistoryCorrect == PipelineSpec => [](TypeOK /\ CursorInv /\ HistoryOK)
<1>1. PipelineSpec => []TypeOK /\ []CursorInv
  BY PipelineRunsTheRing, TypeCorrect, CursorsAgree
<1> QED  BY <1>1, HistoryInit, HistoryStep, PTL DEF PipelineSpec
-----------------------------------------------------------------------------
(* Where an order is between the exchange of its producer and add_order. *)

Placed == \A p \in dequeue_pos..(enqueue_pos - 1) : OrderAt(p) = claimed[p + 1]

InHand(c) ==
    /\ holding[c] => pc[c] = "idle" /\ item[c] = claimed[dequeue_pos]
    /\ Draining(c) => Carried(c) = claimed[dequeue_pos]
    /\ Len(matched.orders) = IF Draining(c) \/ holding[c] THEN dequeue_pos - 1 ELSE dequeue_pos

LEMMA TransitParts ==
    OrdersInTransit <=> /\ Len(claimed) = enqueue_pos
                        /\ Placed
                        /\ \A c \in Consumers : InHand(c)
  BY DEF OrdersInTransit, Placed, InHand

\* The same in terms of the contents of the queue.
LEMMA PlacedContents ==
    ASSUME enqueue_pos \in Nat, dequeue_pos \in Nat
    PROVE  Placed <=> \A i \in 1..(enqueue_pos - dequeue_pos) :
                          Contents[i] = claimed[dequeue_pos + i]
<1>1. \A i \in 1..(enqueue_pos - dequeue_pos) :
          Contents[i] = OrderAt(dequeue_pos + i - 1)
  BY DEF Contents
<1>2. ASSUME Placed, NEW i \in 1..(enqueue_pos - dequeue_pos)
      PROVE  Contents[i] = claimed[dequeue_pos + i]
  <2> DEFINE p == dequeue_pos + i - 1
  <2>1. p \in dequeue_pos..(enqueue_pos - 1) /\ p + 1 = dequeue_pos + i  OBVIOUS
  <2> QED  BY <1>1, <1>2, <2>1 DEF Placed
<1>3. ASSUME \A i \in 1..(enqueue_pos - dequeue_pos) : Contents[i] = claimed[dequeue_pos + i],
             NEW p \in dequeue_pos..(enqueue_pos - 1)
      PROVE  OrderAt(p) = claimed[p + 1]
  <2> DEFINE i == p - dequeue_pos + 1
  <2>1. /\ i \in 1..(enqueue_pos - dequeue_pos)
        /\ dequeue_pos + i = p + 1 /\ dequeue_pos + i - 1 = p
    OBVIOUS
  <2> QED  BY <1>1, <1>3, <2>1
<1> QED  BY <1>2, <1>3 DEF Placed

LEMMA PlacedContentsNext ==
    ASSUME enqueue_pos' \in Nat, dequeue_pos' \in Nat
    PROVE  Placed' <=> \A i \in 1..(enqueue_pos' - dequeue_pos') :
                           Contents'[i] = claimed'[dequeue_pos' + i]
<1>1. (enqueue_pos \in Nat /\ dequeue_pos \in Nat)' =>
         (Placed <=> \A i \in 1..(enqueue_pos - dequeue_pos) :
                         Contents[i] = claimed[dequeue_pos + i])'
  BY PlacedContents, PTL
<1> QED  BY <1>1

LEMMA TransitInit == PipelineInit => OrdersInTransit
<1> SUFFICES ASSUME PipelineInit PROVE OrdersInTransit  OBVIOUS
<1>1. /\ enqueue_pos = 0 /\ dequeue_pos = 0 /\ claimed = <<>> /\ matched.orders = <<>>
      /\ \A c \in Consumers : holding[c] = FALSE /\ pc[c] = "idle"
  BY DEF PipelineInit, Init, Threads
<1> QED  BY <1>1 DEF OrdersInTransit, Draining

\* A step of a producer: the queue stays as it is, or gets the order that is claimed.
LEMMA TransitProducer ==
    ASSUME CursorInv, CursorInv', TypeOK, TypeOK', HistoryOK, OrdersInTransit,
           UNCHANGED <<dequeue_pos, holding, matched>>,
           \A c \in Consumers : UNCHANGED <<pc[c], item[c], Carried(c)>>,
           \/ Contents' = Contents /\ UNCHANGED <<enqueue_pos, claimed>>
           \/ \E x \in Values : /\ Contents' = Append(Contents, x)
                                /\ enqueue_pos' = enqueue_pos + 1
                                /\ claimed' = Append(claimed, x)
    PROVE  OrdersInTransit'
<1>1. /\ enqueue_pos \in Nat /\ dequeue_pos \in Nat /\ dequeue_pos <= enqueue_pos
      /\ enqueue_pos' \in Nat /\ dequeue_pos' \in Nat
      /\ claimed \in Seq(Values) /\ Len(claimed) = enqueue_pos
      /\ matched.orders \in Seq(Values)
  BY DEF TypeOK, HistoryOK, CursorInv, Window, OrdersInTransit
<1>2. \A i \in 1..(enqueue_pos - dequeue_pos) : Contents[i] = claimed[dequeue_pos + i]
  BY <1>1, PlacedContents DEF OrdersInTransit, Placed
<1>3. /\ Contents \in Seq(Values) /\ Len(Contents) = enqueue_pos - dequeue_pos
  BY ContentsSeq
<1>4. /\ Len(claimed') = enqueue_pos'
      /\ \A i \in 1..enqueue_pos : claimed'[i] = claimed[i]
      /\ \A i \in 1..(enqueue_pos' - dequeue_pos') : Contents'[i] = claimed'[dequeue_pos' + i]
  <2>1. CASE Contents' = Contents /\ UNCHANGED <<enqueue_pos, claimed>>
    BY <1>1, <1>2, <2>1
  <2>2. ASSUME NEW x \in Values, Contents' = Append(Contents, x),
               enqueue_pos' = enqueue_pos + 1, claimed' = Append(claimed, x)
        PROVE  /\ Len(claimed') = enqueue_pos'
               /\ \A i \in 1..enqueue_pos : claimed'[i] = claimed[i]
               /\ \A i \in 1..(enqueue_pos' - dequeue_pos') :
                     Contents'[i] = claimed'[dequeue_pos' + i]
    <3>1. /\ Len(claimed') = enqueue_pos + 1 /\ claimed'[enqueue_pos + 1] = x
          /\ \A i \in 1..enqueue_pos : claimed'[i] = claimed[i]
      BY <1>1, <2>2
    <3>2. /\ Contents'[enqueue_pos - dequeue_pos + 1] = x
          /\ \A i \in 1..(enqueue_pos - dequeue_pos) : Contents'[i] = Contents[i]
      BY <1>1, <1>3, <2>2
    <3>3. ASSUME NEW i \in 1..(enqueue_pos' - dequeue_pos')
          PROVE  Contents'[i] = claimed'[dequeue_pos' + i]
      <4>1. CASE i = enqueue_pos - dequeue_pos + 1
        <5>1. dequeue_pos' + i = enqueue_pos + 1  BY <1>1, <4>1
        <5> QED  BY <3>1, <3>2, <4>1, <5>1
      <4>2. CASE i # enqueue_pos - dequeue_pos + 1
        <5>1. i \in 1..(enqueue_pos - dequeue_pos) /\ dequeue_pos + i \in 1..enqueue_pos
          BY <1>1, <2>2, <3>3, <4>2
        <5> QED  BY <1>2, <3>1, <3>2, <5>1
      <4> QED  BY <4>1, <4>2
    <3> QED  BY <2>2, <3>1, <3>3
  <2> QED  BY <2>1, <2>2
<1>5. Placed'  BY <1>1, <1>4, PlacedContentsNext
<1>6. ASSUME NEW c \in Consumers PROVE InHand(c)'
  <2>1. InHand(c) /\ UNCHANGED <<pc[c], item[c], Carried(c), holding[c]>>
    BY TransitParts
  <2>2. Draining(c)' <=> Draining(c)  BY <2>1 DEF Draining
  <2>3. Len(matched.orders) \in Nat  BY <1>1
  <2>4. Draining(c) \/ holding[c] => dequeue_pos \in 1..enqueue_pos
    BY <1>1, <2>1, <2>3 DEF InHand
  <2>5. Draining(c) \/ holding[c] => claimed'[dequeue_pos'] = claimed[dequeue_pos]
    BY <1>4, <2>4
  <2> QED  BY <2>1, <2>2, <2>5 DEF InHand
<1> QED  BY <1>4, <1>5, <1>6 DEF OrdersInTransit, Placed, InHand

\* A step of the consumer: the queue stays as it is, or gives its head away.
LEMMA TransitConsumer ==
    ASSUME CursorInv, CursorInv', TypeOK, TypeOK', HistoryOK, OrdersInTransit,
           NEW c \in Consumers,
           UNCHANGED <<enqueue_pos, claimed>>,
           \/ Contents' = Contents /\ UNCHANGED dequeue_pos
           \/ Contents # <<>> /\ Contents' = Tail(Contents) /\ dequeue_pos' = dequeue_pos + 1,
           InHand(c)'
    PROVE  OrdersInTransit'
<1>1. /\ enqueue_pos \in Nat /\ dequeue_pos \in Nat /\ dequeue_pos <= enqueue_pos
      /\ enqueue_pos' \in Nat /\ dequeue_pos' \in Nat /\ Len(claimed) = enqueue_pos
  BY DEF TypeOK, CursorInv, Window, OrdersInTransit
<1>2. \A i \in 1..(enqueue_pos - dequeue_pos) : Contents[i] = claimed[dequeue_pos + i]
  BY <1>1, PlacedContents DEF OrdersInTransit, Placed
<1>3. /\ Contents \in Seq(Values) /\ Len(Contents) = enqueue_pos - dequeue_pos
  BY ContentsSeq
<1>4. \A i \in 1..(enqueue_pos' - dequeue_pos') : Contents'[i] = claimed'[dequeue_pos' + i]
  <2>1. CASE Contents' = Contents /\ UNCHANGED dequeue_pos
    BY <1>2, <2>1
  <2>2. CASE Contents # <<>> /\ Contents' = Tail(Contents) /\ dequeue_pos' = dequeue_pos + 1
    <3>1. \A i \in 1..(enqueue_pos - dequeue_pos - 1) : Contents'[i] = Contents[i + 1]
      BY <1>1, <1>3, <2>2
    <3>2. ASSUME NEW i \in 1..(enqueue_pos' - dequeue_pos')
          PROVE  Contents'[i] = claimed'[dequeue_pos' + i]
      <4>1. /\ i \in 1..(enqueue_pos - dequeue_pos - 1)
            /\ i + 1 \in 1..(enqueue_pos - dequeue_pos)
            /\ dequeue_pos' + i = dequeue_pos + (i + 1)
        BY <1>1, <2>2
      <4> QED  BY <1>2, <3>1, <4>1
    <3> QED  BY <3>2
  <2> QED  BY <2>1, <2>2
<1>5. Placed'  BY <1>1, <1>4, PlacedContentsNext
<1>6. \A d \in Consumers : d = c  BY Matcher DEF OneMatcher
<1> QED  BY <1>1, <1>5, <1>6 DEF OrdersInTransit, Placed, InHand

LEMMA TransitPush ==
    ASSUME CursorInv, CursorInv', TypeOK, TypeOK', HistoryOK, OrdersInTransit,
           NEW t \in Producers, Offer(t) \/ Push(t)
    PROVE  OrdersInTransit'
<1> USE RolesAssumption, CapacityAssumption DEF Threads
<1>0. /\ (\E o \in Orders : PushStart(t, o)) \/ PushStep(t)
      /\ UNCHANGED <<holding, matched>> /\ t \in Threads
  BY DEF Offer, Push
<1>1. (enqueue_pos' = enqueue_pos => claimed' = claimed)
  BY DEF Offer, Push, Claims
<1>2. \A c \in Consumers : UNCHANGED <<pc[c], item[c]>>
  BY <1>0 DEF PushStart, PushStep, PushReady, PushFull, PushBehind, PushReload, PushClaim,
         PushClaimFails, PushWrite, PushPublish, Goto, TypeOK
<1>3. CASE PushWrite(t)
  <2>1. UNCHANGED Promise!vars  BY <1>3, RefinePushWrite
  <2>2. Contents' = Contents /\ CarriedOrders' = CarriedOrders  BY <2>1 DEF Promise!vars
  <2>3. \A c \in Consumers : CarriedOrders[c] = Carried(c) /\ CarriedOrders'[c] = Carried(c)'
    BY DEF CarriedOrders
  <2>4. UNCHANGED <<enqueue_pos, dequeue_pos>>  BY <1>3 DEF PushWrite
  <2> QED  BY <1>0, <1>1, <1>2, <2>2, <2>3, <2>4, TransitProducer
<1>4. CASE PushClaim(t)
  <2>1. /\ Promise!Enqueue(t) /\ enqueue_pos' = enqueue_pos + 1 /\ UNCHANGED dequeue_pos
        /\ pc[t] = "push_cas" /\ UNCHANGED <<data, pos>>
    BY <1>4, RefinePushClaim DEF PushClaim, TypeOK, Goto
  <2>2. CarriedOrders[t] = item[t] /\ item[t] \in Values
    BY <2>1 DEF CarriedOrders, Carried, TypeOK, Values
  <2>3. Contents' = Append(Contents, item[t])  BY <2>1, <2>2 DEF Promise!Enqueue
  <2>4. \A c \in Consumers : UNCHANGED Carried(c)  BY <1>2, <2>1 DEF Carried
  <2>5. claimed' = Append(claimed, item[t])
    <3>1. enqueue_pos' # enqueue_pos  BY <2>1 DEF TypeOK
    <3>2. pc[t] # "idle"  BY <2>1
    <3>3. ~ \E o \in Orders : PushStart(t, o)  BY <3>2 DEF PushStart, Goto
    <3> QED  BY <3>1, <3>3 DEF Offer, Push, Claims
  <2> QED  BY <1>0, <1>2, <2>1, <2>2, <2>3, <2>4, <2>5, TransitProducer
<1>5. CASE \/ \E o \in Orders : PushStart(t, o)
           \/ PushReady(t) \/ PushFull(t) \/ PushBehind(t) \/ PushReload(t)
           \/ PushClaimFails(t) \/ PushPublish(t)
  <2>1. UNCHANGED <<data, enqueue_pos, dequeue_pos>>
    BY <1>5 DEF PushStart, PushReady, PushFull, PushBehind, PushReload, PushClaimFails,
                PushPublish, shared
  <2>2. /\ \A u \in Threads : u # t =>
              pc'[u] = pc[u] /\ pos'[u] = pos[u] /\ item'[u] = item[u]
        /\ pc[t] # "push_write" /\ pc'[t] # "push_write"
    BY <1>5 DEF PushStart, PushReady, PushFull, PushBehind, PushReload, PushClaimFails,
                PushPublish, Goto, Load, TypeOK, shared
  <2>3. Contents' = Contents  BY <1>0, <2>1, <2>2, LookingStep
  <2>4. \A c \in Consumers : UNCHANGED Carried(c)  BY <2>1, <2>2 DEF Carried
  <2> QED  BY <1>0, <1>1, <1>2, <2>1, <2>3, <2>4, TransitProducer
<1> QED  BY <1>0, <1>3, <1>4, <1>5 DEF PushStep

LEMMA TransitPop ==
    ASSUME CursorInv, CursorInv', TypeOK, TypeOK', HistoryOK, OrdersInTransit,
           NEW c \in Consumers, Pop(c)
    PROVE  OrdersInTransit'
<1> USE RolesAssumption, CapacityAssumption DEF Threads
<1>0. /\ PopStart(c) \/ PopStep(c)
      /\ UNCHANGED <<claimed, matched>> /\ c \in Threads
      /\ holding[c] = FALSE /\ holding'[c] = (pc[c] = "pop_release")
      /\ InHand(c)
  BY TransitParts DEF Pop, Ask, HistoryOK
<1>1. CASE PopClaim(c)
  <2>1. /\ Promise!Dequeue(c) /\ dequeue_pos' = dequeue_pos + 1 /\ UNCHANGED enqueue_pos
        /\ pc[c] = "pop_cas" /\ pc'[c] = "pop_read"
    BY <1>1, RefinePopClaim DEF PopClaim, TypeOK, Goto
  <2>2. /\ Contents # <<>> /\ Contents' = Tail(Contents)
        /\ CarriedOrders'[c] = Head(Contents)
    BY <2>1 DEF Promise!Dequeue, Promise!Move, CarriedOrders
  <2>3. Carried(c)' = Head(Contents)  BY <2>2 DEF CarriedOrders
  <2>4. Head(Contents) = claimed[dequeue_pos']
    <3>1. /\ enqueue_pos \in Nat /\ dequeue_pos \in Nat
          /\ Contents \in Seq(Values) /\ Len(Contents) = enqueue_pos - dequeue_pos
      BY ContentsSeq DEF TypeOK
    <3>2. Head(Contents) = Contents[1] /\ 1 \in 1..(enqueue_pos - dequeue_pos)
      BY <2>2, <3>1
    <3> QED  BY <2>1, <3>1, <3>2, PlacedContents DEF OrdersInTransit, Placed
  <2>5. InHand(c)'
    <3>1. holding'[c] = FALSE /\ Draining(c)' /\ ~ Draining(c)
      BY <1>0, <2>1 DEF Draining
    <3>2. Len(matched'.orders) = dequeue_pos' - 1
      BY <1>0, <2>1, <3>1 DEF InHand, TypeOK
    <3> QED  BY <1>0, <2>3, <2>4, <3>1, <3>2 DEF InHand
  <2> QED  BY <1>0, <2>1, <2>2, <2>5, TransitConsumer
<1>2. CASE \/ PopStart(c) \/ PopReady(c) \/ PopEmpty(c) \/ PopBehind(c) \/ PopReload(c)
           \/ PopClaimFails(c) \/ PopRead(c) \/ PopRelease(c)
  <2>1. UNCHANGED <<data, enqueue_pos, dequeue_pos>>
    BY <1>2 DEF PopStart, PopReady, PopEmpty, PopBehind, PopReload, PopClaimFails, PopRead,
                PopRelease, shared
  <2>2. /\ \A u \in Threads : u # c =>
              pc'[u] = pc[u] /\ pos'[u] = pos[u] /\ item'[u] = item[u]
        /\ pc[c] # "push_write" /\ pc'[c] # "push_write"
    BY <1>2 DEF PopStart, PopReady, PopEmpty, PopBehind, PopReload, PopClaimFails, PopRead,
                PopRelease, Goto, Load, TypeOK, shared
  <2>3. Contents' = Contents  BY <1>0, <2>1, <2>2, LookingStep
  <2>4. CASE PopRead(c)
    <3>1. /\ pc[c] = "pop_read" /\ pc'[c] = "pop_release" /\ item'[c] = data[Index(pos[c])]
      BY <2>4 DEF PopRead, Goto, TypeOK
    <3>2. Draining(c) /\ Draining(c)' /\ Carried(c)' = Carried(c) /\ holding'[c] = FALSE
      BY <1>0, <3>1 DEF Draining, Carried
    <3>3. InHand(c)'  BY <1>0, <2>1, <3>2 DEF InHand
    <3> QED  BY <1>0, <2>1, <2>3, <3>3, TransitConsumer
  <2>5. CASE PopRelease(c)
    <3>1. pc[c] = "pop_release" /\ pc'[c] = "idle" /\ item'[c] = item[c]
      BY <2>5 DEF PopRelease, Goto, TypeOK
    <3>2. Draining(c) /\ ~ Draining(c)' /\ Carried(c) = item[c] /\ holding'[c] = TRUE
      BY <1>0, <3>1 DEF Draining, Carried
    <3>3. InHand(c)'  BY <1>0, <2>1, <3>1, <3>2 DEF InHand
    <3> QED  BY <1>0, <2>1, <2>3, <3>3, TransitConsumer
  <2>6. CASE \/ PopStart(c) \/ PopReady(c) \/ PopEmpty(c) \/ PopBehind(c) \/ PopReload(c)
             \/ PopClaimFails(c)
    <3>1. /\ pc[c] \in {"idle", "pop_seq", "pop_cas", "pop_reload"}
          /\ pc'[c] \in {"idle", "pop_seq", "pop_cas", "pop_reload"}
      BY <2>6 DEF PopStart, PopReady, PopEmpty, PopBehind, PopReload, PopClaimFails, Goto, TypeOK
    <3>2. ~ Draining(c) /\ ~ Draining(c)' /\ holding'[c] = FALSE
      BY <1>0, <3>1 DEF Draining
    <3>3. InHand(c)'  BY <1>0, <2>1, <3>2 DEF InHand
    <3> QED  BY <1>0, <2>1, <2>3, <3>3, TransitConsumer
  <2> QED  BY <1>2, <2>4, <2>5, <2>6
<1> QED  BY <1>0, <1>1, <1>2 DEF PopStep

LEMMA TransitMatch ==
    ASSUME CursorInv, TypeOK, HistoryOK, OrdersInTransit, NEW c \in Consumers, Match(c)
    PROVE  OrdersInTransit'
<1>1. /\ UNCHANGED vars /\ UNCHANGED claimed
      /\ holding[c] = TRUE /\ holding'[c] = FALSE
      /\ matched'.orders = Append(matched.orders, item[c])
      /\ InHand(c) /\ item[c] \in Values
  BY TransitParts DEF Match, PutDown, HistoryOK, TypeOK, Threads, Values
<1>2. /\ Len(claimed') = enqueue_pos' /\ Placed'
  <2>1. UNCHANGED <<enqueue_pos, dequeue_pos, claimed>> /\ Contents' = Contents
    BY <1>1 DEF vars, Contents, OrderAt
  <2>2. enqueue_pos \in Nat /\ dequeue_pos \in Nat /\ Len(claimed) = enqueue_pos /\ Placed
    BY TransitParts DEF TypeOK
  <2> QED  BY <2>1, <2>2, PlacedContents, PlacedContentsNext
<1>3. InHand(c)'
  <2>1. ~ Draining(c) /\ ~ Draining(c)'  BY <1>1 DEF InHand, Draining, vars
  <2>2. Len(matched'.orders) = Len(matched.orders) + 1 /\ Len(matched.orders) = dequeue_pos - 1
    BY <1>1, <2>1 DEF InHand, HistoryOK
  <2>3. dequeue_pos \in Nat /\ dequeue_pos' = dequeue_pos  BY <1>1 DEF TypeOK, vars
  <2> QED  BY <1>1, <2>1, <2>2, <2>3 DEF InHand
<1>4. \A d \in Consumers : d = c  BY Matcher DEF OneMatcher
<1> QED  BY <1>2, <1>3, <1>4 DEF OrdersInTransit, Placed, InHand

LEMMA TransitStep ==
    (TypeOK /\ CursorInv /\ HistoryOK) /\ (TypeOK /\ CursorInv /\ HistoryOK)'
        /\ OrdersInTransit /\ [PipelineNext]_pipeline => OrdersInTransit'
<1> SUFFICES ASSUME TypeOK, CursorInv, HistoryOK, TypeOK', CursorInv', OrdersInTransit,
                    [PipelineNext]_pipeline
             PROVE  OrdersInTransit'
  OBVIOUS
<1>1. CASE UNCHANGED pipeline
  <2>1. UNCHANGED <<enqueue_pos, dequeue_pos, claimed, matched, holding, pc, item>>
    BY <1>1 DEF pipeline, vars
  <2>2. Contents' = Contents  BY <1>1 DEF pipeline, vars, Contents, OrderAt
  <2>3. \A c \in Consumers : UNCHANGED Carried(c)  BY <1>1 DEF pipeline, vars, Carried
  <2> QED  BY <2>1, <2>2, <2>3, TransitProducer
<1> QED  BY <1>1, TransitPush, TransitPop, TransitMatch DEF PipelineNext

\* Between a producer's exchange and add_order every order is in exactly one place, where
\* its position says (concurrent_queue.h:39-46, :66-73,
\* concurrent_order_book_benches.cpp:38-47).
THEOREM NoOrderIsLost == PipelineSpec => []OrdersInTransit
  BY TransitInit, TransitStep, HistoryCorrect, PTL DEF PipelineSpec

LEMMA PrefixIndices ==
    ASSUME NEW s \in Seq(Values), NEW t \in Seq(Values)
    PROVE  IsPrefix(s, t) <=> Len(s) <= Len(t) /\ \A i \in 1..Len(s) : s[i] = t[i]
<1>1. CASE Len(s) <= Len(t)
  <2>1. /\ SubSeq(s, 1, Len(s)) \in Seq(Values) /\ Len(SubSeq(s, 1, Len(s))) = Len(s)
        /\ SubSeq(t, 1, Len(s)) \in Seq(Values) /\ Len(SubSeq(t, 1, Len(s))) = Len(s)
        /\ \A i \in 1..Len(s) : SubSeq(s, 1, Len(s))[i] = s[i] /\ SubSeq(t, 1, Len(s))[i] = t[i]
    BY <1>1
  <2>2. SubSeq(s, 1, Len(s)) = SubSeq(t, 1, Len(s)) <=> \A i \in 1..Len(s) : s[i] = t[i]
    BY <2>1
  <2> QED  BY <1>1, <2>2 DEF IsPrefix
<1>2. CASE ~ Len(s) <= Len(t)  BY <1>2 DEF IsPrefix
<1> QED  BY <1>1, <1>2

\* The book gets the orders one after the other in the order of their positions, each once,
\* whatever the threads do (concurrent_order_book_benches.cpp:38-47).
THEOREM BookFollowsTheRing == PipelineSpec => []MatchedInOrder
<1>1. PipelineInit => MatchedInOrder
  BY DEF PipelineInit, MatchedInOrder, IsPrefix
<1>2. /\ TypeOK /\ CursorInv /\ HistoryOK /\ HistoryOK' /\ OrdersInTransit /\ OrdersInTransit'
      /\ MatchedInOrder /\ [PipelineNext]_pipeline
      => MatchedInOrder'
  <2> SUFFICES ASSUME TypeOK, CursorInv, HistoryOK, HistoryOK', OrdersInTransit,
                      MatchedInOrder, [PipelineNext]_pipeline
               PROVE  MatchedInOrder'
    OBVIOUS
  <2> DEFINE n == Len(matched.orders)
  <2>1. /\ claimed \in Seq(Values) /\ claimed' \in Seq(Values)
        /\ matched.orders \in Seq(Values) /\ n \in Nat
        /\ n <= Len(claimed) /\ \A i \in 1..n : matched.orders[i] = claimed[i]
        /\ \A t \in Threads : item[t] \in Values
    <3>1. /\ claimed \in Seq(Values) /\ claimed' \in Seq(Values)
          /\ matched.orders \in Seq(Values) /\ n \in Nat
      BY DEF HistoryOK
    <3>2. \A t \in Threads : item[t] \in Values  BY DEF TypeOK, Values
    <3> QED  BY <3>1, <3>2, PrefixIndices DEF MatchedInOrder
  <2>2. ASSUME Len(matched'.orders) <= Len(claimed'),
               \A i \in 1..Len(matched'.orders) : matched'.orders[i] = claimed'[i]
        PROVE  MatchedInOrder'
    <3>1. claimed' \in Seq(Values) /\ matched'.orders \in Seq(Values)  BY DEF HistoryOK
    <3>2. IsPrefix(matched'.orders, claimed')  BY <2>2, <3>1, PrefixIndices
    <3> QED  BY <3>2 DEF MatchedInOrder
  <2>3. CASE UNCHANGED <<matched, claimed>>  BY <2>3 DEF MatchedInOrder
  <2>4. ASSUME NEW t \in Producers, Push(t) PROVE MatchedInOrder'
    <3>1. matched' = matched /\ (claimed' = claimed \/ claimed' = Append(claimed, item[t]))
      BY <2>4 DEF Push, Claims
    <3>2. t \in Threads  BY DEF Threads
    <3>3. Len(claimed') >= Len(claimed) /\ \A i \in 1..Len(claimed) : claimed'[i] = claimed[i]
      BY <2>1, <3>1, <3>2
    <3> QED  BY <2>1, <2>2, <3>1, <3>3
  <2>5. ASSUME NEW c \in Consumers, Match(c) PROVE MatchedInOrder'
    <3>1. /\ claimed' = claimed /\ holding[c] /\ InHand(c)
          /\ matched'.orders = Append(matched.orders, item[c])
      BY <2>5, TransitParts DEF Match, PutDown
    <3>2. /\ item[c] = claimed[dequeue_pos] /\ Len(matched.orders) = dequeue_pos - 1
          /\ Len(claimed) = enqueue_pos /\ dequeue_pos <= enqueue_pos
          /\ dequeue_pos \in Nat /\ enqueue_pos \in Nat
      BY <3>1 DEF InHand, OrdersInTransit, CursorInv, Window, TypeOK
    <3>3. /\ Len(matched'.orders) = dequeue_pos
          /\ \A i \in 1..dequeue_pos : matched'.orders[i] = claimed[i]
      <4>1. c \in Threads /\ n = dequeue_pos - 1  BY <3>2 DEF Threads
      <4>2. /\ Len(matched'.orders) = n + 1 /\ matched'.orders[n + 1] = item[c]
            /\ \A i \in 1..n : matched'.orders[i] = matched.orders[i]
        BY <2>1, <3>1, <4>1
      <4> QED  BY <2>1, <3>2, <4>1, <4>2
    <3> QED  BY <2>2, <3>1, <3>2, <3>3
  <2> QED
    BY <2>3, <2>4, <2>5 DEF PipelineNext, Offer, Pop, pipeline
<1> QED  BY <1>1, <1>2, NoOrderIsLost, HistoryCorrect, PTL DEF PipelineSpec
=============================================================================
