----------------------- MODULE ConcurrentQueueProofs -----------------------
(***************************************************************************)
(* Proofs about ConcurrentQueue, for every set of producers and consumers,  *)
(* every capacity of at least two and both memory orders (StaleLoads): the  *)
(* invariants of the ring, and that it implements BoundedQueue, since every *)
(* step of the ring is a step of the abstract queue or leaves it as it is.  *)
(***************************************************************************)
EXTENDS ConcurrentQueue, SequenceTheorems, TLAPS
-----------------------------------------------------------------------------
(* Positions and cells. *)

\* The cell of a position exists.
LEMMA IndexType == ASSUME NEW p \in Int PROVE Index(p) \in Cells
  BY CapacityAssumption DEF Index, Cells

\* The quotient and the remainder by Capacity are unique.
LEMMA QuotientUnique ==
    ASSUME NEW a \in Int, NEW b \in Int, NEW r \in Cells, NEW s \in Cells,
           Capacity * a + r = Capacity * b + s
    PROVE  r = s
<1>1. Capacity \in Nat /\ Capacity >= 2 /\ r \in 0..(Capacity - 1) /\ s \in 0..(Capacity - 1)
  BY CapacityAssumption DEF Cells
<1>2. s - r = Capacity * (a - b)  BY <1>1
<1>3. CASE a - b >= 1   BY <1>1, <1>2, <1>3
<1>4. CASE a - b <= -1  BY <1>1, <1>2, <1>4
<1>5. CASE a = b        BY <1>1, <1>2, <1>5
<1> QED  BY <1>3, <1>4, <1>5

\* A cell serves one position in Capacity.
LEMMA IndexPeriod ==
    ASSUME NEW p \in Int PROVE Index(p + Capacity) = Index(p)
<1> DEFINE a == (p + Capacity) \div Capacity
           b == (p \div Capacity) + 1
<1>1. /\ a \in Int /\ Index(p + Capacity) \in Cells
      /\ p + Capacity = Capacity * a + Index(p + Capacity)
  BY CapacityAssumption DEF Index, Cells
<1>2. /\ b \in Int /\ Index(p) \in Cells
      /\ p + Capacity = Capacity * b + Index(p)
  BY CapacityAssumption DEF Index, Cells
<1> HIDE DEF a, b
<1> QED  BY <1>1, <1>2, QuotientUnique

\* Positions less than Capacity apart have cells of their own.
LEMMA IndexApart ==
    ASSUME NEW p \in Int, NEW q \in Int, p < q, q < p + Capacity
    PROVE  Index(p) # Index(q)
<1> DEFINE a == p \div Capacity
           b == q \div Capacity
<1>0. Capacity \in Nat /\ Capacity >= 2  BY CapacityAssumption
<1>1. a \in Int /\ p = Capacity * a + Index(p) /\ Index(p) \in 0..(Capacity - 1)
  BY <1>0 DEF Index
<1>2. b \in Int /\ q = Capacity * b + Index(q) /\ Index(q) \in 0..(Capacity - 1)
  BY <1>0 DEF Index
<1> HIDE DEF a, b
<1>3. SUFFICES ASSUME Index(p) = Index(q) PROVE FALSE  OBVIOUS
<1>4. q - p = Capacity * (b - a)  BY <1>0, <1>1, <1>2, <1>3
<1>5. CASE b - a <= 0  BY <1>0, <1>1, <1>2, <1>4, <1>5
<1>6. CASE b - a >= 1  BY <1>0, <1>1, <1>2, <1>4, <1>6
<1> QED  BY <1>1, <1>2, <1>5, <1>6

\* The two lemmas above, for positions of one window of Capacity positions.
LEMMA WindowApart ==
    ASSUME NEW w \in Int, NEW p \in w..(w + Capacity - 1),
           NEW q \in w..(w + Capacity - 1), p # q
    PROVE  Index(p) # Index(q)
<1>0. Capacity \in Nat  BY CapacityAssumption
<1>1. CASE p < q  BY <1>0, <1>1, IndexApart
<1>2. CASE q < p  BY <1>0, <1>2, IndexApart
<1> QED  BY <1>0, <1>1, <1>2

\* Initially the cell of a position below Capacity is the position itself.
LEMMA IndexIdentity == ASSUME NEW p \in Cells PROVE Index(p) = p
  BY CapacityAssumption DEF Index, Cells

\* A load of a sequence never returns more than the sequence.
LEMMA LoadSequenceBound ==
    ASSUME NEW i \in Cells, sequence[i] \in Nat, NEW s \in LoadSequence(i)
    PROVE  s \in Int /\ s <= sequence[i]
  BY CapacityAssumption DEF LoadSequence, Cells

\* A load of a cursor never returns more than the cursor.
LEMMA LoadCursorBound ==
    ASSUME NEW cursor \in Nat, NEW p \in LoadCursor(cursor)
    PROVE  p \in Nat /\ p <= cursor
  BY DEF LoadCursor
-----------------------------------------------------------------------------
(* Types. *)

LEMMA TypeInit == Init => TypeOK
  BY CapacityAssumption DEF Init, TypeOK, Cells, Threads

LEMMA TypePush ==
    ASSUME TypeOK, NEW t \in Producers,
           (\E o \in Orders : PushStart(t, o)) \/ PushStep(t)
    PROVE  TypeOK'
<1> USE RolesAssumption, CapacityAssumption DEF TypeOK, Threads, shared
<1>0. Index(pos[t]) \in Cells  BY IndexType
<1>1. CASE \E o \in Orders : PushStart(t, o)
  BY <1>1, LoadCursorBound DEF PushStart, Goto, Load
<1>2. CASE PushReady(t)   BY <1>2 DEF PushReady, Goto
<1>3. CASE PushFull(t)    BY <1>3 DEF PushFull, Goto
<1>4. CASE PushBehind(t)  BY <1>4 DEF PushBehind, Goto
<1>5. CASE PushReload(t)  BY <1>5, LoadCursorBound DEF PushReload, Goto, Load
<1>6. CASE PushClaim(t)   BY <1>6 DEF PushClaim, Goto
<1>7. CASE PushClaimFails(t)
  BY <1>7, LoadCursorBound DEF PushClaimFails, Goto, Load
<1>8. CASE PushWrite(t)   BY <1>0, <1>8 DEF PushWrite, Goto
<1>9. CASE PushPublish(t) BY <1>0, <1>9 DEF PushPublish, Goto
<1> QED  BY <1>1, <1>2, <1>3, <1>4, <1>5, <1>6, <1>7, <1>8, <1>9 DEF PushStep

LEMMA TypePop ==
    ASSUME TypeOK, NEW t \in Consumers, PopStart(t) \/ PopStep(t)
    PROVE  TypeOK'
<1> USE RolesAssumption, CapacityAssumption DEF TypeOK, Threads, shared
<1>0. Index(pos[t]) \in Cells  BY IndexType
<1>1. CASE PopStart(t)    BY <1>1, LoadCursorBound DEF PopStart, Goto, Load
<1>2. CASE PopReady(t)    BY <1>2 DEF PopReady, Goto
<1>3. CASE PopEmpty(t)    BY <1>3 DEF PopEmpty, Goto
<1>4. CASE PopBehind(t)   BY <1>4 DEF PopBehind, Goto
<1>5. CASE PopReload(t)   BY <1>5, LoadCursorBound DEF PopReload, Goto, Load
<1>6. CASE PopClaim(t)    BY <1>6 DEF PopClaim, Goto
<1>7. CASE PopClaimFails(t)
  BY <1>7, LoadCursorBound DEF PopClaimFails, Goto, Load
<1>8. CASE PopRead(t)     BY <1>0, <1>8 DEF PopRead, Goto
<1>9. CASE PopRelease(t)  BY <1>0, <1>9 DEF PopRelease, Goto
<1> QED  BY <1>1, <1>2, <1>3, <1>4, <1>5, <1>6, <1>7, <1>8, <1>9 DEF PopStep

LEMMA TypeStep == TypeOK /\ [Next]_vars => TypeOK'
<1> SUFFICES ASSUME TypeOK, [Next]_vars PROVE TypeOK'  OBVIOUS
<1>1. CASE UNCHANGED vars  BY <1>1 DEF vars, TypeOK
<1>2. CASE Next            BY <1>2, TypePush, TypePop DEF Next
<1> QED  BY <1>1, <1>2

\* Every variable keeps its type (the state of the ring and of each call).
THEOREM TypeCorrect == Spec => []TypeOK
  BY TypeInit, TypeStep, PTL DEF Spec
-----------------------------------------------------------------------------
(* The cursor invariant, one lemma per kind of step. *)

LEMMA CursorInit == Init => CursorInv
<1> SUFFICES ASSUME Init PROVE CursorInv  OBVIOUS
<1> USE CapacityAssumption DEF Init
<1>1. \A p \in Cells : sequence[Index(p)] = p  BY IndexIdentity
<1>2. \A t \in Threads : ~ Filling(t) /\ ~ Draining(t)  BY DEF Filling, Draining
<1>3. Window  BY DEF Window
<1>4. FillersInWindow /\ DrainersInWindow /\ FillersApart /\ DrainersApart
  BY <1>2 DEF FillersInWindow, DrainersInWindow, FillersApart, DrainersApart, Threads
<1>5. UsedCells  BY DEF UsedCells
<1>6. FreeCells
  <2>1. \A p : ~ BeingDrained(p)  BY <1>2 DEF BeingDrained, Threads
  <2> QED  BY <1>1, <2>1 DEF FreeCells, Cells
<1>7. PassedCells  BY DEF PassedCells
<1>8. LoadsAreFloors  BY DEF LoadsAreFloors, Threads
<1> QED  BY <1>3, <1>4, <1>5, <1>6, <1>7, <1>8 DEF CursorInv

\* A step that moves no cursor, stores no sequence and leaves every thread
\* inside or outside its cell.
LEMMA CursorQuiet ==
    ASSUME TypeOK, CursorInv, UNCHANGED <<sequence, enqueue_pos, dequeue_pos>>,
           \A u \in Threads : /\ Filling(u)' <=> Filling(u)
                              /\ Draining(u)' <=> Draining(u)
                              /\ Filling(u) \/ Draining(u) => pos'[u] = pos[u],
           LoadsAreFloors'
    PROVE  CursorInv'
<1>1. \A p : BeingFilled(p)' <=> BeingFilled(p)
  BY DEF BeingFilled, Threads
<1>2. \A p : BeingDrained(p)' <=> BeingDrained(p)
  BY DEF BeingDrained, Threads
<1>3. Window'  BY DEF CursorInv, Window
<1>4. FillersInWindow' /\ DrainersInWindow' /\ FillersApart' /\ DrainersApart'
  BY DEF CursorInv, FillersInWindow, DrainersInWindow, FillersApart, DrainersApart, Threads
<1>5. UsedCells'  BY <1>1 DEF CursorInv, UsedCells
<1>6. FreeCells'  BY <1>2 DEF CursorInv, FreeCells
<1>7. PassedCells'  BY DEF CursorInv, PassedCells
<1> QED  BY <1>3, <1>4, <1>5, <1>6, <1>7 DEF CursorInv

\* The steps of try_push that only look, or that write the order.
LEMMA CursorPushQuiet ==
    ASSUME TypeOK, CursorInv, NEW t \in Producers,
           \/ \E o \in Orders : PushStart(t, o)
           \/ PushReady(t) \/ PushFull(t) \/ PushBehind(t) \/ PushReload(t)
           \/ PushClaimFails(t) \/ PushWrite(t)
    PROVE  CursorInv'
<1> USE RolesAssumption DEF TypeOK, Threads, shared
<1>0. Index(pos[t]) \in Cells  BY IndexType
<1>1. UNCHANGED <<sequence, enqueue_pos, dequeue_pos>>
  BY DEF PushStart, PushReady, PushFull, PushBehind, PushReload, PushClaimFails, PushWrite
<1>2. \A u \in Threads : u # t => pc'[u] = pc[u] /\ pos'[u] = pos[u]
  BY DEF PushStart, PushReady, PushFull, PushBehind, PushReload, PushClaimFails, PushWrite,
         Goto, Load
<1>3. /\ Filling(t)' <=> Filling(t)
      /\ Draining(t)' <=> Draining(t)
      /\ Filling(t) \/ Draining(t) => pos'[t] = pos[t]
  BY DEF PushStart, PushReady, PushFull, PushBehind, PushReload, PushClaimFails, PushWrite,
         Goto, Load, Filling, Draining
<1>4. pc'[t] = "push_cas" => sequence[Index(pos'[t])] >= pos'[t]
  <2> SUFFICES ASSUME pc'[t] = "push_cas" PROVE sequence[Index(pos'[t])] >= pos'[t]
    OBVIOUS
  <2>1. PushReady(t)
    BY DEF PushStart, PushFull, PushBehind, PushReload, PushClaimFails, PushWrite, Goto
  <2> QED  BY <1>0, <2>1, LoadSequenceBound DEF PushReady
<1>5. pos'[t] \in Nat /\ pos'[t] <= enqueue_pos
  BY LoadCursorBound DEF PushStart, PushReady, PushFull, PushBehind, PushReload,
       PushClaimFails, PushWrite, Load, CursorInv, LoadsAreFloors
<1>6. LoadsAreFloors'
  BY <1>1, <1>2, <1>4, <1>5 DEF CursorInv, LoadsAreFloors
<1> QED  BY <1>1, <1>2, <1>3, <1>6, CursorQuiet DEF Filling, Draining

\* The steps of try_pop that only look, or that read the order.
LEMMA CursorPopQuiet ==
    ASSUME TypeOK, CursorInv, NEW t \in Consumers,
           \/ PopStart(t)
           \/ PopReady(t) \/ PopEmpty(t) \/ PopBehind(t) \/ PopReload(t)
           \/ PopClaimFails(t) \/ PopRead(t)
    PROVE  CursorInv'
<1> USE RolesAssumption DEF TypeOK, Threads, shared
<1>0. Index(pos[t]) \in Cells  BY IndexType
<1>1. UNCHANGED <<sequence, enqueue_pos, dequeue_pos>>
  BY DEF PopStart, PopReady, PopEmpty, PopBehind, PopReload, PopClaimFails, PopRead
<1>2. \A u \in Threads : u # t => pc'[u] = pc[u] /\ pos'[u] = pos[u]
  BY DEF PopStart, PopReady, PopEmpty, PopBehind, PopReload, PopClaimFails, PopRead,
         Goto, Load
<1>3. /\ Filling(t)' <=> Filling(t)
      /\ Draining(t)' <=> Draining(t)
      /\ Filling(t) \/ Draining(t) => pos'[t] = pos[t]
  BY DEF PopStart, PopReady, PopEmpty, PopBehind, PopReload, PopClaimFails, PopRead,
         Goto, Load, Filling, Draining
<1>4. pc'[t] = "pop_cas" => sequence[Index(pos'[t])] >= pos'[t] + 1
  <2> SUFFICES ASSUME pc'[t] = "pop_cas" PROVE sequence[Index(pos'[t])] >= pos'[t] + 1
    OBVIOUS
  <2>1. PopReady(t)
    BY DEF PopStart, PopEmpty, PopBehind, PopReload, PopClaimFails, PopRead, Goto
  <2> QED  BY <1>0, <2>1, LoadSequenceBound DEF PopReady
<1>5. pos'[t] \in Nat /\ pos'[t] <= dequeue_pos
  BY LoadCursorBound DEF PopStart, PopReady, PopEmpty, PopBehind, PopReload,
       PopClaimFails, PopRead, Load, CursorInv, LoadsAreFloors
<1>6. LoadsAreFloors'
  BY <1>1, <1>2, <1>4, <1>5 DEF CursorInv, LoadsAreFloors
<1> QED  BY <1>1, <1>2, <1>3, <1>6, CursorQuiet DEF Filling, Draining

\* A successful exchange of try_push: the cell is free and nobody is inside it.
LEMMA CursorPushClaim ==
    ASSUME TypeOK, CursorInv, NEW t \in Producers, PushClaim(t)
    PROVE  CursorInv'
<1> USE RolesAssumption, CapacityAssumption DEF TypeOK, Threads
<1>1. /\ pc[t] = "push_cas" /\ pos[t] = enqueue_pos
      /\ pc' = [pc EXCEPT ![t] = "push_write"]
      /\ enqueue_pos' = enqueue_pos + 1
      /\ UNCHANGED <<sequence, dequeue_pos, pos>>
  BY DEF PushClaim, Goto
<1>2. sequence[Index(enqueue_pos)] \in Nat /\ sequence[Index(enqueue_pos)] >= enqueue_pos
  BY <1>1, IndexType DEF CursorInv, LoadsAreFloors
<1>3. dequeue_pos <= enqueue_pos /\ enqueue_pos < dequeue_pos + Capacity
  <2>1. SUFFICES ASSUME enqueue_pos = dequeue_pos + Capacity PROVE FALSE
    BY DEF CursorInv, Window
  <2>2. Index(enqueue_pos) = Index(dequeue_pos)  BY <2>1, IndexPeriod
  <2>3. sequence[Index(dequeue_pos)] <= dequeue_pos + 1
    <3>1. dequeue_pos \in dequeue_pos..(enqueue_pos - 1)  BY <2>1
    <3> QED  BY <3>1 DEF CursorInv, UsedCells
  <2> QED  BY <1>2, <2>1, <2>2, <2>3
<1>4. sequence[Index(enqueue_pos)] = enqueue_pos /\ ~ BeingDrained(enqueue_pos - Capacity)
  <2>1. enqueue_pos \in enqueue_pos..(dequeue_pos + Capacity - 1)  BY <1>3
  <2>2. sequence[Index(enqueue_pos)] = IF BeingDrained(enqueue_pos - Capacity)
                                       THEN (enqueue_pos - Capacity) + 1 ELSE enqueue_pos
    BY <2>1 DEF CursorInv, FreeCells
  <2> QED  BY <1>2, <2>2
<1>5. \A u \in Threads : u # t => pc'[u] = pc[u]  BY <1>1
<1>6. Filling(t)' /\ ~ Draining(t)' /\ ~ Filling(t) /\ ~ Draining(t)
  BY <1>1 DEF Filling, Draining
<1>7. \A u \in Threads : u # t => (Filling(u)' <=> Filling(u)) /\ (Draining(u)' <=> Draining(u))
  BY <1>5 DEF Filling, Draining
<1>8. \A p : BeingFilled(p)' <=> BeingFilled(p) \/ p = enqueue_pos
  BY <1>1, <1>6, <1>7 DEF BeingFilled
<1>9. \A p : BeingDrained(p)' <=> BeingDrained(p)
  BY <1>1, <1>6, <1>7 DEF BeingDrained
<1>10. Window'  BY <1>1, <1>3 DEF Window
<1>11. FillersInWindow'
  BY <1>1, <1>3, <1>6, <1>7 DEF CursorInv, FillersInWindow
<1>12. DrainersInWindow'
  <2> SUFFICES ASSUME NEW u \in Consumers, Draining(u)'
               PROVE  enqueue_pos + 1 <= pos[u] + Capacity /\ pos[u] < dequeue_pos
    BY <1>1 DEF DrainersInWindow
  <2>1. Draining(u)  BY <1>6, <1>7
  <2>2. pos[u] # enqueue_pos - Capacity  BY <1>4, <2>1 DEF BeingDrained
  <2> QED  BY <2>1, <2>2 DEF CursorInv, DrainersInWindow
<1>13. FillersApart'
  BY <1>1, <1>6, <1>7 DEF CursorInv, FillersApart, FillersInWindow
<1>14. DrainersApart'
  BY <1>1, <1>6, <1>7 DEF CursorInv, DrainersApart
<1>15. UsedCells'
  <2> SUFFICES ASSUME NEW p \in dequeue_pos..enqueue_pos
               PROVE  sequence[Index(p)] = IF BeingFilled(p)' THEN p ELSE p + 1
    BY <1>1 DEF UsedCells
  <2>1. CASE p = enqueue_pos  BY <1>4, <1>8, <2>1
  <2>2. CASE p # enqueue_pos
    <3>1. p \in dequeue_pos..(enqueue_pos - 1)  BY <2>2
    <3> QED  BY <1>8, <2>2, <3>1 DEF CursorInv, UsedCells
  <2> QED  BY <2>1, <2>2
<1>16. FreeCells'
  <2> SUFFICES ASSUME NEW p \in (enqueue_pos + 1)..(dequeue_pos + Capacity - 1)
               PROVE  sequence[Index(p)] = IF BeingDrained(p - Capacity)'
                                           THEN (p - Capacity) + 1 ELSE p
    BY <1>1 DEF FreeCells
  <2>1. p \in enqueue_pos..(dequeue_pos + Capacity - 1)  OBVIOUS
  <2> QED  BY <1>9, <2>1 DEF CursorInv, FreeCells
<1>17. PassedCells'
  <2>1. \A p \in 0..enqueue_pos : sequence[Index(p)] >= p
    <3> SUFFICES ASSUME NEW p \in 0..enqueue_pos PROVE sequence[Index(p)] >= p  OBVIOUS
    <3>1. CASE p = enqueue_pos  BY <1>2, <3>1
    <3>2. CASE p # enqueue_pos
      <4>1. p \in 0..(enqueue_pos - 1)  BY <3>2
      <4> QED  BY <4>1 DEF CursorInv, PassedCells
    <3> QED  BY <3>1, <3>2
  <2> QED  BY <1>1, <2>1 DEF CursorInv, PassedCells
<1>18. LoadsAreFloors'
  <2>1. \A u \in Consumers : pc'[u] = pc[u]  BY <1>5
  <2>2. \A u \in Producers : pc'[u] = "push_cas" => pc[u] = "push_cas"  BY <1>1, <1>5
  <2> QED  BY <1>1, <2>1, <2>2 DEF CursorInv, LoadsAreFloors
<1> QED
  BY <1>10, <1>11, <1>12, <1>13, <1>14, <1>15, <1>16, <1>17, <1>18 DEF CursorInv

\* The release store of try_push: only the cell of pos[t] changes, from p to p + 1.
LEMMA CursorPushPublish ==
    ASSUME TypeOK, CursorInv, NEW t \in Producers, PushPublish(t)
    PROVE  CursorInv'
<1> USE RolesAssumption, CapacityAssumption DEF TypeOK, Threads
<1> DEFINE q == pos[t]
<1>1. /\ pc[t] = "push_publish"
      /\ pc' = [pc EXCEPT ![t] = "idle"]
      /\ sequence' = [sequence EXCEPT ![Index(q)] = q + 1]
      /\ UNCHANGED <<enqueue_pos, dequeue_pos, pos>>
  BY DEF PushPublish, Goto
<1>2. Filling(t) /\ ~ Draining(t) /\ ~ Filling(t)' /\ ~ Draining(t)'
  BY <1>1 DEF Filling, Draining
<1>3. q \in Nat /\ dequeue_pos <= q /\ q < enqueue_pos /\ enqueue_pos <= dequeue_pos + Capacity
  BY <1>2 DEF CursorInv, FillersInWindow, Window
<1>4. sequence[Index(q)] = q
  <2>1. q \in dequeue_pos..(enqueue_pos - 1)  BY <1>3
  <2>2. BeingFilled(q)  BY <1>2 DEF BeingFilled
  <2> QED  BY <2>1, <2>2 DEF CursorInv, UsedCells
<1>5. \A u \in Threads : u # t => (Filling(u)' <=> Filling(u)) /\ (Draining(u)' <=> Draining(u))
  BY <1>1 DEF Filling, Draining
<1>6. \A p : BeingFilled(p)' <=> BeingFilled(p) /\ p # q
  <2>1. \A u \in Producers : u # t /\ Filling(u) => pos[u] # q
    BY <1>2 DEF CursorInv, FillersApart
  <2> QED  BY <1>1, <1>2, <1>5, <2>1 DEF BeingFilled
<1>7. \A p : BeingDrained(p)' <=> BeingDrained(p)
  BY <1>1, <1>2, <1>5 DEF BeingDrained
<1>8. Index(q) \in Cells  BY <1>3, IndexType
<1>9. \A p \in dequeue_pos..(dequeue_pos + Capacity - 1) :
         p # q => sequence'[Index(p)] = sequence[Index(p)]
  <2> SUFFICES ASSUME NEW p \in dequeue_pos..(dequeue_pos + Capacity - 1), p # q
               PROVE  sequence'[Index(p)] = sequence[Index(p)]
    OBVIOUS
  <2>1. Index(p) # Index(q) /\ Index(p) \in Cells  BY <1>3, WindowApart, IndexType
  <2> QED  BY <1>1, <2>1
<1>10. \A i \in Cells : sequence'[i] \in Nat /\ sequence'[i] >= sequence[i]
  BY <1>1, <1>3, <1>4, <1>8
<1> HIDE DEF q
<1>11. Window'  BY <1>1 DEF CursorInv, Window
<1>12. FillersInWindow' /\ DrainersInWindow' /\ FillersApart' /\ DrainersApart'
  BY <1>1, <1>2, <1>5
     DEF CursorInv, FillersInWindow, DrainersInWindow, FillersApart, DrainersApart
<1>13. UsedCells'
  <2> SUFFICES ASSUME NEW p \in dequeue_pos..(enqueue_pos - 1)
               PROVE  sequence'[Index(p)] = IF BeingFilled(p)' THEN p ELSE p + 1
    BY <1>1 DEF UsedCells
  <2>1. CASE p = q  BY <1>1, <1>6, <1>8, <2>1
  <2>2. CASE p # q
    <3>1. p \in dequeue_pos..(dequeue_pos + Capacity - 1)  BY <1>3
    <3> QED  BY <1>6, <1>9, <2>2, <3>1 DEF CursorInv, UsedCells
  <2> QED  BY <2>1, <2>2
<1>14. FreeCells'
  <2> SUFFICES ASSUME NEW p \in enqueue_pos..(dequeue_pos + Capacity - 1)
               PROVE  sequence'[Index(p)] = IF BeingDrained(p - Capacity)'
                                            THEN (p - Capacity) + 1 ELSE p
    BY <1>1 DEF FreeCells
  <2>1. p \in dequeue_pos..(dequeue_pos + Capacity - 1) /\ p # q  BY <1>3
  <2> QED  BY <1>7, <1>9, <2>1 DEF CursorInv, FreeCells
<1>15. \A p \in Int : /\ Index(p) \in Cells
                      /\ sequence[Index(p)] \in Nat /\ sequence'[Index(p)] \in Nat
                      /\ sequence'[Index(p)] >= sequence[Index(p)]
  BY <1>10, IndexType
<1>16. PassedCells'  BY <1>1, <1>15 DEF CursorInv, PassedCells
<1>17. LoadsAreFloors'
  <2>1. \A u \in Producers : pc'[u] = "push_cas" => pc[u] = "push_cas"  BY <1>1
  <2>2. \A u \in Consumers : pc'[u] = pc[u]  BY <1>1
  <2> QED  BY <1>1, <1>15, <2>1, <2>2 DEF CursorInv, LoadsAreFloors
<1> QED  BY <1>11, <1>12, <1>13, <1>14, <1>16, <1>17 DEF CursorInv

\* A successful exchange of try_pop: the cell holds an order nobody is writing.
LEMMA CursorPopClaim ==
    ASSUME TypeOK, CursorInv, NEW t \in Consumers, PopClaim(t)
    PROVE  /\ CursorInv'
           /\ dequeue_pos < enqueue_pos
           /\ ~ BeingFilled(dequeue_pos)
<1> USE RolesAssumption, CapacityAssumption DEF TypeOK, Threads
<1>1. /\ pc[t] = "pop_cas" /\ pos[t] = dequeue_pos
      /\ pc' = [pc EXCEPT ![t] = "pop_read"]
      /\ dequeue_pos' = dequeue_pos + 1
      /\ UNCHANGED <<sequence, enqueue_pos, pos>>
  BY DEF PopClaim, Goto
<1>2. sequence[Index(dequeue_pos)] \in Nat /\ sequence[Index(dequeue_pos)] >= dequeue_pos + 1
  BY <1>1, IndexType DEF CursorInv, LoadsAreFloors
<1>3. dequeue_pos < enqueue_pos /\ enqueue_pos <= dequeue_pos + Capacity
  <2>1. SUFFICES ASSUME enqueue_pos = dequeue_pos PROVE FALSE
    BY DEF CursorInv, Window
  <2>2. dequeue_pos \in enqueue_pos..(dequeue_pos + Capacity - 1)  BY <2>1
  <2>3. sequence[Index(dequeue_pos)] <= dequeue_pos  BY <2>2 DEF CursorInv, FreeCells
  <2> QED  BY <1>2, <2>3
<1>4. sequence[Index(dequeue_pos)] = dequeue_pos + 1 /\ ~ BeingFilled(dequeue_pos)
  <2>1. dequeue_pos \in dequeue_pos..(enqueue_pos - 1)  BY <1>3
  <2>2. sequence[Index(dequeue_pos)] = IF BeingFilled(dequeue_pos)
                                       THEN dequeue_pos ELSE dequeue_pos + 1
    BY <2>1 DEF CursorInv, UsedCells
  <2> QED  BY <1>2, <2>2
<1>5. Draining(t)' /\ ~ Filling(t)' /\ ~ Filling(t) /\ ~ Draining(t)
  BY <1>1 DEF Filling, Draining
<1>6. \A u \in Threads : u # t => (Filling(u)' <=> Filling(u)) /\ (Draining(u)' <=> Draining(u))
  BY <1>1 DEF Filling, Draining
<1>7. \A p : BeingFilled(p)' <=> BeingFilled(p)
  BY <1>1, <1>5, <1>6 DEF BeingFilled
<1>8. \A p : BeingDrained(p)' <=> BeingDrained(p) \/ p = dequeue_pos
  BY <1>1, <1>5, <1>6 DEF BeingDrained
<1>9. Window'  BY <1>1, <1>3 DEF Window
<1>10. FillersInWindow'
  <2> SUFFICES ASSUME NEW u \in Producers, Filling(u)'
               PROVE  dequeue_pos + 1 <= pos[u] /\ pos[u] < enqueue_pos
    BY <1>1 DEF FillersInWindow
  <2>1. Filling(u)  BY <1>5, <1>6
  <2>2. pos[u] # dequeue_pos  BY <1>4, <2>1 DEF BeingFilled
  <2> QED  BY <2>1, <2>2 DEF CursorInv, FillersInWindow
<1>11. DrainersInWindow'
  BY <1>1, <1>3, <1>5, <1>6 DEF CursorInv, DrainersInWindow
<1>12. FillersApart'
  BY <1>1, <1>5, <1>6 DEF CursorInv, FillersApart
<1>13. DrainersApart'
  BY <1>1, <1>5, <1>6 DEF CursorInv, DrainersApart, DrainersInWindow
<1>14. UsedCells'
  <2> SUFFICES ASSUME NEW p \in (dequeue_pos + 1)..(enqueue_pos - 1)
               PROVE  sequence[Index(p)] = IF BeingFilled(p)' THEN p ELSE p + 1
    BY <1>1 DEF UsedCells
  <2>1. p \in dequeue_pos..(enqueue_pos - 1)  OBVIOUS
  <2> QED  BY <1>7, <2>1 DEF CursorInv, UsedCells
<1>15. FreeCells'
  <2> SUFFICES ASSUME NEW p \in enqueue_pos..(dequeue_pos + Capacity)
               PROVE  sequence[Index(p)] = IF BeingDrained(p - Capacity)'
                                           THEN (p - Capacity) + 1 ELSE p
    BY <1>1 DEF FreeCells
  <2>1. CASE p = dequeue_pos + Capacity
    <3>1. Index(p) = Index(dequeue_pos) /\ p - Capacity = dequeue_pos
      BY <2>1, IndexPeriod
    <3> QED  BY <1>4, <1>8, <3>1
  <2>2. CASE p # dequeue_pos + Capacity
    <3>1. p \in enqueue_pos..(dequeue_pos + Capacity - 1) /\ p - Capacity # dequeue_pos
      BY <2>2
    <3> QED  BY <1>8, <3>1 DEF CursorInv, FreeCells
  <2> QED  BY <2>1, <2>2
<1>16. PassedCells'
  <2>1. \A p \in 0..dequeue_pos : sequence[Index(p)] >= p + 1
    <3> SUFFICES ASSUME NEW p \in 0..dequeue_pos PROVE sequence[Index(p)] >= p + 1  OBVIOUS
    <3>1. CASE p = dequeue_pos  BY <1>2, <3>1
    <3>2. CASE p # dequeue_pos
      <4>1. p \in 0..(dequeue_pos - 1)  BY <3>2
      <4> QED  BY <4>1 DEF CursorInv, PassedCells
    <3> QED  BY <3>1, <3>2
  <2> QED  BY <1>1, <2>1 DEF CursorInv, PassedCells
<1>17. LoadsAreFloors'
  <2>1. \A u \in Producers : pc'[u] = pc[u]  BY <1>1
  <2>2. \A u \in Consumers : pc'[u] = "pop_cas" => pc[u] = "pop_cas"  BY <1>1
  <2> QED  BY <1>1, <2>1, <2>2 DEF CursorInv, LoadsAreFloors
<1>18. CursorInv'
  BY <1>9, <1>10, <1>11, <1>12, <1>13, <1>14, <1>15, <1>16, <1>17 DEF CursorInv
<1> QED  BY <1>3, <1>4, <1>18

\* The release store of try_pop: only the cell of pos[t] changes, to the value
\* that frees it for the position Capacity further on.
LEMMA CursorPopRelease ==
    ASSUME TypeOK, CursorInv, NEW t \in Consumers, PopRelease(t)
    PROVE  CursorInv'
<1> USE RolesAssumption, CapacityAssumption DEF TypeOK, Threads
<1> DEFINE q == pos[t] + Capacity
<1>1. /\ pc[t] = "pop_release"
      /\ pc' = [pc EXCEPT ![t] = "idle"]
      /\ sequence' = [sequence EXCEPT ![Index(pos[t])] = q]
      /\ UNCHANGED <<enqueue_pos, dequeue_pos, pos>>
  BY DEF PopRelease, Goto
<1>2. Draining(t) /\ ~ Filling(t) /\ ~ Filling(t)' /\ ~ Draining(t)'
  BY <1>1 DEF Filling, Draining
<1>3. /\ q \in Nat /\ dequeue_pos <= enqueue_pos /\ enqueue_pos <= q
      /\ q < dequeue_pos + Capacity
  BY <1>2 DEF CursorInv, DrainersInWindow, Window
<1>4. Index(q) = Index(pos[t])  BY IndexPeriod
<1>5. sequence[Index(q)] = pos[t] + 1
  <2>1. q \in enqueue_pos..(dequeue_pos + Capacity - 1) /\ q - Capacity = pos[t]  BY <1>3
  <2>2. BeingDrained(q - Capacity)  BY <1>2, <2>1 DEF BeingDrained
  <2> QED  BY <2>1, <2>2 DEF CursorInv, FreeCells
<1>6. \A u \in Threads : u # t => (Filling(u)' <=> Filling(u)) /\ (Draining(u)' <=> Draining(u))
  BY <1>1 DEF Filling, Draining
<1>7. \A p : BeingFilled(p)' <=> BeingFilled(p)
  BY <1>1, <1>2, <1>6 DEF BeingFilled
<1>8. \A p : BeingDrained(p)' <=> BeingDrained(p) /\ p # pos[t]
  <2>1. \A u \in Consumers : u # t /\ Draining(u) => pos[u] # pos[t]
    BY <1>2 DEF CursorInv, DrainersApart
  <2> QED  BY <1>1, <1>2, <1>6, <2>1 DEF BeingDrained
<1>9. Index(q) \in Cells  BY <1>3, IndexType
<1>10. \A p \in dequeue_pos..(dequeue_pos + Capacity - 1) :
          p # q => sequence'[Index(p)] = sequence[Index(p)]
  <2> SUFFICES ASSUME NEW p \in dequeue_pos..(dequeue_pos + Capacity - 1), p # q
               PROVE  sequence'[Index(p)] = sequence[Index(p)]
    OBVIOUS
  <2>1. Index(p) # Index(q) /\ Index(p) \in Cells  BY <1>3, WindowApart, IndexType
  <2> QED  BY <1>1, <1>4, <2>1
<1>11. \A i \in Cells : sequence'[i] \in Nat /\ sequence'[i] >= sequence[i]
  BY <1>1, <1>3, <1>4, <1>5, <1>9
<1>12. sequence'[Index(q)] = q  BY <1>1, <1>4, <1>9
<1>13. q - Capacity = pos[t]  OBVIOUS
<1> HIDE DEF q
<1>14. Window'  BY <1>1 DEF CursorInv, Window
<1>15. FillersInWindow' /\ DrainersInWindow' /\ FillersApart' /\ DrainersApart'
  BY <1>1, <1>2, <1>6
     DEF CursorInv, FillersInWindow, DrainersInWindow, FillersApart, DrainersApart
<1>16. UsedCells'
  <2> SUFFICES ASSUME NEW p \in dequeue_pos..(enqueue_pos - 1)
               PROVE  sequence'[Index(p)] = IF BeingFilled(p)' THEN p ELSE p + 1
    BY <1>1 DEF UsedCells
  <2>1. p \in dequeue_pos..(dequeue_pos + Capacity - 1) /\ p # q  BY <1>3
  <2> QED  BY <1>7, <1>10, <2>1 DEF CursorInv, UsedCells
<1>17. FreeCells'
  <2> SUFFICES ASSUME NEW p \in enqueue_pos..(dequeue_pos + Capacity - 1)
               PROVE  sequence'[Index(p)] = IF BeingDrained(p - Capacity)'
                                            THEN (p - Capacity) + 1 ELSE p
    BY <1>1 DEF FreeCells
  <2>1. CASE p = q  BY <1>8, <1>12, <1>13, <2>1
  <2>2. CASE p # q
    <3>1. p \in dequeue_pos..(dequeue_pos + Capacity - 1)  BY <1>3
    <3>2. p - Capacity # pos[t]  BY <1>3, <1>13, <2>2
    <3> QED  BY <1>8, <1>10, <2>2, <3>1, <3>2 DEF CursorInv, FreeCells
  <2> QED  BY <2>1, <2>2
<1>18. \A p \in Int : /\ Index(p) \in Cells
                      /\ sequence[Index(p)] \in Nat /\ sequence'[Index(p)] \in Nat
                      /\ sequence'[Index(p)] >= sequence[Index(p)]
  BY <1>11, IndexType
<1>19. PassedCells'  BY <1>1, <1>18 DEF CursorInv, PassedCells
<1>20. LoadsAreFloors'
  <2>1. \A u \in Consumers : pc'[u] = "pop_cas" => pc[u] = "pop_cas"  BY <1>1
  <2>2. \A u \in Producers : pc'[u] = pc[u]  BY <1>1
  <2> QED  BY <1>1, <1>18, <2>1, <2>2 DEF CursorInv, LoadsAreFloors
<1> QED  BY <1>14, <1>15, <1>16, <1>17, <1>19, <1>20 DEF CursorInv

LEMMA CursorStep == TypeOK /\ CursorInv /\ [Next]_vars => CursorInv'
<1> SUFFICES ASSUME TypeOK, CursorInv, [Next]_vars PROVE CursorInv'  OBVIOUS
<1>1. CASE UNCHANGED vars
  <2>1. LoadsAreFloors'  BY <1>1 DEF vars, CursorInv, LoadsAreFloors
  <2> QED  BY <1>1, <2>1, CursorQuiet DEF vars, Filling, Draining
<1>2. CASE \E t \in Producers : (\E o \in Orders : PushStart(t, o)) \/ PushStep(t)
  BY <1>2, CursorPushQuiet, CursorPushClaim, CursorPushPublish DEF PushStep
<1>3. CASE \E t \in Consumers : PopStart(t) \/ PopStep(t)
  BY <1>3, CursorPopQuiet, CursorPopClaim, CursorPopRelease DEF PopStep
<1> QED  BY <1>1, <1>2, <1>3 DEF Next

\* The cursors, the sequences and the threads inside cells always agree.
THEOREM CursorsAgree == Spec => []CursorInv
<1>1. Init => TypeOK /\ CursorInv  BY TypeInit, CursorInit
<1>2. TypeOK /\ CursorInv /\ [Next]_vars => TypeOK' /\ CursorInv'  BY TypeStep, CursorStep
<1> QED  BY <1>1, <1>2, PTL DEF Spec
-----------------------------------------------------------------------------
(* What the cursor invariant gives. *)

LEMMA RaceFree == TypeOK /\ CursorInv => NoCellRace
<1> SUFFICES ASSUME TypeOK, CursorInv,
                    NEW t \in Threads, NEW u \in Threads, t # u,
                    Filling(t) \/ Draining(t), Filling(u) \/ Draining(u)
             PROVE  Index(pos[t]) # Index(pos[u])
  BY DEF NoCellRace
<1> USE CapacityAssumption DEF TypeOK, Threads, CursorInv
<1>1. \A v \in Threads : /\ Filling(v) => v \in Producers
                         /\ Draining(v) => v \in Consumers
  BY DEF Filling, Draining
<1>2. CASE Filling(t) /\ Filling(u)
  <2>1. pos[t] # pos[u]  BY <1>1, <1>2 DEF FillersApart
  <2>2. /\ pos[t] \in dequeue_pos..(dequeue_pos + Capacity - 1)
        /\ pos[u] \in dequeue_pos..(dequeue_pos + Capacity - 1)
    BY <1>1, <1>2 DEF FillersInWindow, Window
  <2> QED  BY <2>1, <2>2, WindowApart
<1>3. CASE Draining(t) /\ Draining(u)
  <2> DEFINE w == enqueue_pos - Capacity
  <2>1. pos[t] # pos[u]  BY <1>1, <1>3 DEF DrainersApart
  <2>2. w \in Int /\ pos[t] \in w..(w + Capacity - 1) /\ pos[u] \in w..(w + Capacity - 1)
    BY <1>1, <1>3 DEF DrainersInWindow, Window
  <2> QED  BY <2>1, <2>2, WindowApart
<1>4. ASSUME NEW f \in Threads, NEW d \in Threads, Filling(f), Draining(d)
      PROVE  Index(pos[d]) # Index(pos[f])
  <2>1. pos[d] < pos[f] /\ pos[f] < pos[d] + Capacity
    BY <1>1, <1>4 DEF FillersInWindow, DrainersInWindow
  <2> QED  BY <2>1, IndexApart
<1> QED  BY <1>2, <1>3, <1>4

\* The order data of a cell is never accessed by two threads at once.
THEOREM NoRaces == Spec => []NoCellRace
  BY TypeCorrect, CursorsAgree, RaceFree, PTL

LEMMA RestExact == TypeOK /\ CursorInv => ExactAtRest
<1> SUFFICES ASSUME TypeOK, CursorInv,
                    \A t \in Threads : ~ (Filling(t) \/ Draining(t)),
                    NEW p \in dequeue_pos..(dequeue_pos + Capacity - 1)
             PROVE  sequence[Index(p)] = IF p < enqueue_pos THEN p + 1 ELSE p
  BY DEF ExactAtRest
<1> USE CapacityAssumption DEF TypeOK, Threads, CursorInv
<1>1. ~ BeingFilled(p) /\ ~ BeingDrained(p - Capacity)
  BY DEF BeingFilled, BeingDrained
<1>2. CASE p < enqueue_pos
  <2>1. p \in dequeue_pos..(enqueue_pos - 1)  BY <1>2
  <2> QED  BY <1>1, <1>2, <2>1 DEF UsedCells
<1>3. CASE p >= enqueue_pos
  <2>1. p \in enqueue_pos..(dequeue_pos + Capacity - 1)  BY <1>3
  <2> QED  BY <1>1, <1>3, <2>1 DEF FreeCells
<1> QED  BY <1>2, <1>3

\* No cell is lost: at rest the sequences say exactly what the cursors say.
THEOREM NothingLeaks == Spec => []ExactAtRest
  BY TypeCorrect, CursorsAgree, RestExact, PTL
-----------------------------------------------------------------------------
(* The values that orders in the ring can have *)

Values == Orders \cup {NoOrder}
-----------------------------------------------------------------------------
(* The order of a position. *)

\* A position whose order is on its way to the cell: the producer has it.
LEMMA OrderUnwritten ==
    ASSUME FillersApart, NEW t \in Producers, pc[t] = "push_write"
    PROVE  OrderAt(pos[t]) = item[t]
<1>1. \A u \in Producers : pc[u] = "push_write" /\ pos[u] = pos[t] => u = t
  BY DEF FillersApart, Filling
<1> QED  BY <1>1 DEF OrderAt

\* The same in the next state.
LEMMA OrderUnwrittenNext ==
    ASSUME FillersApart', NEW t \in Producers, pc'[t] = "push_write"
    PROVE  OrderAt(pos[t])' = item'[t]
<1>1. \A u \in Producers : pc'[u] = "push_write" /\ pos'[u] = pos'[t] => u = t
  BY DEF FillersApart, Filling
<1> QED  BY <1>1 DEF OrderAt

LEMMA OrderType ==
    ASSUME TypeOK, FillersApart, NEW p \in Int PROVE OrderAt(p) \in Values
<1>1. CASE \E t \in Producers : pc[t] = "push_write" /\ pos[t] = p
  BY <1>1, OrderUnwritten DEF TypeOK, Threads, Values
<1>2. CASE ~ \E t \in Producers : pc[t] = "push_write" /\ pos[t] = p
  BY <1>2, IndexType DEF OrderAt, TypeOK, Values
<1> QED  BY <1>1, <1>2

\* A step keeps the order of p if it keeps the producer that is on its way with
\* it and, when there is none, the data of p's cell.
LEMMA OrderKept ==
    ASSUME FillersApart, FillersApart', NEW p \in Int,
           \A u \in Producers :
              /\ pc'[u] = "push_write" /\ pos'[u] = p
                    <=> pc[u] = "push_write" /\ pos[u] = p
              /\ pc[u] = "push_write" => item'[u] = item[u],
           (~ \E u \in Producers : pc[u] = "push_write" /\ pos[u] = p)
              => data'[Index(p)] = data[Index(p)]
    PROVE  OrderAt(p)' = OrderAt(p)
<1>1. CASE \E u \in Producers : pc[u] = "push_write" /\ pos[u] = p
  <2>1. PICK u \in Producers : pc[u] = "push_write" /\ pos[u] = p  BY <1>1
  <2>2. pc'[u] = "push_write" /\ pos'[u] = p /\ item'[u] = item[u]  BY <2>1
  <2>3. OrderAt(p) = item[u]  BY <2>1, OrderUnwritten
  <2>4. OrderAt(p)' = item'[u]
    <3>1. \A v \in Producers : pc'[v] = "push_write" /\ pos'[v] = p => v = u
      BY <2>2 DEF FillersApart, Filling
    <3> QED  BY <2>2, <3>1 DEF OrderAt
  <2> QED  BY <2>2, <2>3, <2>4
<1>2. CASE ~ \E u \in Producers : pc[u] = "push_write" /\ pos[u] = p
  <2>1. ~ \E u \in Producers : pc'[u] = "push_write" /\ pos'[u] = p  BY <1>2
  <2> QED  BY <1>2, <2>1 DEF OrderAt
<1> QED  BY <1>1, <1>2
-----------------------------------------------------------------------------
(* The contents of the queue as a sequence. *)

LEMMA ContentsSeq ==
    ASSUME TypeOK, CursorInv
    PROVE  /\ Contents \in Seq(Values)
           /\ Len(Contents) = enqueue_pos - dequeue_pos
           /\ Len(Contents) \in Nat
           /\ \A i \in 1..(enqueue_pos - dequeue_pos) :
                 Contents[i] = OrderAt(dequeue_pos + i - 1)
<1> DEFINE n == enqueue_pos - dequeue_pos
<1>1. n \in Nat /\ dequeue_pos \in Nat  BY DEF TypeOK, CursorInv, Window
<1>2. \A i \in 1..n : OrderAt(dequeue_pos + i - 1) \in Values
  BY <1>1, OrderType DEF CursorInv
<1>3. Contents \in [1..n -> Values]  BY <1>2 DEF Contents
<1> HIDE DEF n
<1>4. Contents \in Seq(Values) /\ Len(Contents) = n
  BY <1>1, <1>3, LenProperties
<1> QED  BY <1>1, <1>4 DEF Contents, n

\* A step that moves no cursor and keeps the orders keeps the contents.
LEMMA ContentsKept ==
    ASSUME UNCHANGED <<enqueue_pos, dequeue_pos>>,
           enqueue_pos \in Nat, dequeue_pos \in Nat,
           \A p \in dequeue_pos..(enqueue_pos - 1) : OrderAt(p)' = OrderAt(p)
    PROVE  Contents' = Contents
<1>1. \A i \in 1..(enqueue_pos - dequeue_pos) :
         OrderAt(dequeue_pos + i - 1)' = OrderAt(dequeue_pos + i - 1)
  <2> SUFFICES ASSUME NEW i \in 1..(enqueue_pos - dequeue_pos)
               PROVE  OrderAt(dequeue_pos + i - 1)' = OrderAt(dequeue_pos + i - 1)
    OBVIOUS
  <2> DEFINE p == dequeue_pos + i - 1
  <2>1. p \in dequeue_pos..(enqueue_pos - 1) /\ p' = p  OBVIOUS
  <2> QED  BY <2>1
<1> QED  BY <1>1 DEF Contents
-----------------------------------------------------------------------------
(* The abstract state of the threads. *)

\* A step of thread t changes the phase and the order of no other thread, as
\* long as it writes into no cell another thread is about to read.
LEMMA OthersKept ==
    ASSUME NEW t \in Threads,
           \A u \in Threads : u # t =>
              /\ pc'[u] = pc[u] /\ pos'[u] = pos[u] /\ item'[u] = item[u]
              /\ pc[u] = "pop_read" => data'[Index(pos[u])] = data[Index(pos[u])]
    PROVE  /\ Phases' = [Phases EXCEPT ![t] = Phase(t)']
           /\ CarriedOrders' = [CarriedOrders EXCEPT ![t] = Carried(t)']
           /\ Phases[t] = Phase(t)
           /\ CarriedOrders[t] = Carried(t)
<1>1. \A u \in Threads : u # t => Phase(u)' = Phase(u)
  BY DEF Phase, Filling, Draining
<1>2. \A u \in Threads : u # t => Carried(u)' = Carried(u)
  BY DEF Carried
<1>3. Phases' = [Phases EXCEPT ![t] = Phase(t)']  BY <1>1 DEF Phases
<1>4. CarriedOrders' = [CarriedOrders EXCEPT ![t] = Carried(t)']  BY <1>2 DEF CarriedOrders
<1> QED  BY <1>3, <1>4 DEF Phases, CarriedOrders

\* A step of the abstract queue by thread t that leaves its contents alone.
LEMMA PhaseMove ==
    ASSUME NEW t \in Threads,
           Phases' = [Phases EXCEPT ![t] = Phase(t)'],
           CarriedOrders' = [CarriedOrders EXCEPT ![t] = Carried(t)'],
           Phases[t] = Phase(t), CarriedOrders[t] = Carried(t),
           Contents' = Contents,
           Phase(t)' = Phase(t), Carried(t)' = Carried(t)
    PROVE  UNCHANGED Promise!vars
<1>1. Phases' = Phases  BY DEF Phases
<1>2. CarriedOrders' = CarriedOrders  BY DEF CarriedOrders
<1> QED  BY <1>1, <1>2 DEF Promise!vars

LEMMA PromiseInit == Init => Promise!Init
<1> SUFFICES ASSUME Init PROVE Promise!Init  OBVIOUS
<1>1. Contents = <<>>  BY DEF Init, Contents
<1>2. Phases = [t \in Threads |-> "idle"]
  <2>1. \A t \in Threads : pc[t] = "idle"  BY DEF Init
  <2>2. \A t \in Threads : Phase(t) = "idle"  BY <2>1 DEF Phase, Filling, Draining
  <2> QED  BY <2>2 DEF Phases
<1>3. CarriedOrders = [t \in Threads |-> NoOrder]
  BY DEF Init, CarriedOrders, Carried, Threads
<1> QED  BY <1>1, <1>2, <1>3 DEF Promise!Init, Promise!Threads, Threads
-----------------------------------------------------------------------------
(* The steps that neither move a cursor nor write into a cell. *)

\* Such a step keeps the contents and the other threads.
LEMMA LookingStep ==
    ASSUME TypeOK, CursorInv, CursorInv', NEW t \in Threads,
           UNCHANGED <<data, enqueue_pos, dequeue_pos>>,
           \A u \in Threads : u # t =>
              pc'[u] = pc[u] /\ pos'[u] = pos[u] /\ item'[u] = item[u],
           pc[t] # "push_write", pc'[t] # "push_write"
    PROVE  /\ Contents' = Contents
           /\ Phases' = [Phases EXCEPT ![t] = Phase(t)']
           /\ CarriedOrders' = [CarriedOrders EXCEPT ![t] = Carried(t)']
           /\ Phases[t] = Phase(t)
           /\ CarriedOrders[t] = Carried(t)
<1>1. \A p \in Int : OrderAt(p)' = OrderAt(p)
  <2> SUFFICES ASSUME NEW p \in Int PROVE OrderAt(p)' = OrderAt(p)  OBVIOUS
  <2>1. \A u \in Producers :
           /\ pc'[u] = "push_write" /\ pos'[u] = p <=> pc[u] = "push_write" /\ pos[u] = p
           /\ pc[u] = "push_write" => item'[u] = item[u]
    BY DEF Threads
  <2> QED  BY <2>1, OrderKept DEF CursorInv
<1>2. Contents' = Contents  BY <1>1, ContentsKept DEF TypeOK
<1> QED  BY <1>2, OthersKept

LEMMA RefinePushLook ==
    ASSUME TypeOK, CursorInv, CursorInv', NEW t \in Producers,
           \/ \E o \in Orders : PushStart(t, o)
           \/ PushReady(t) \/ PushFull(t) \/ PushBehind(t) \/ PushReload(t)
           \/ PushClaimFails(t) \/ PushPublish(t)
    PROVE  Promise!Next \/ UNCHANGED Promise!vars
<1> USE RolesAssumption, CapacityAssumption DEF TypeOK, Threads, shared
<1>1. UNCHANGED <<data, enqueue_pos, dequeue_pos>>
  BY DEF PushStart, PushReady, PushFull, PushBehind, PushReload, PushClaimFails, PushPublish
<1>2. \A u \in Threads : u # t =>
         pc'[u] = pc[u] /\ pos'[u] = pos[u] /\ item'[u] = item[u]
  BY DEF PushStart, PushReady, PushFull, PushBehind, PushReload, PushClaimFails, PushPublish,
         Goto, Load
<1>3. pc[t] # "push_write" /\ pc'[t] # "push_write"
  BY DEF PushStart, PushReady, PushFull, PushBehind, PushReload, PushClaimFails, PushPublish,
         Goto
<1>4. /\ Contents' = Contents
      /\ Phases' = [Phases EXCEPT ![t] = Phase(t)']
      /\ CarriedOrders' = [CarriedOrders EXCEPT ![t] = Carried(t)']
      /\ Phases[t] = Phase(t)
      /\ CarriedOrders[t] = Carried(t)
  BY <1>1, <1>2, <1>3, LookingStep
<1>5. ASSUME NEW o \in Orders, PushStart(t, o)
      PROVE  Promise!Offer(t, o)
  <2>1. /\ Phase(t) = "idle" /\ Phase(t)' = "calling" /\ Carried(t)' = o
    BY <1>5 DEF PushStart, Goto, Phase, Filling, Draining, Carried
  <2> QED  BY <1>4, <2>1 DEF Promise!Offer, Promise!Move
<1>6. CASE PushFull(t)
  <2>1. /\ Phase(t) = "calling" /\ Phase(t)' = "idle" /\ Carried(t)' = NoOrder
    BY <1>6 DEF PushFull, Goto, Phase, Filling, Draining, Carried
  <2>2. ~StaleLoads => \/ Len(Contents) = Capacity
                       \/ \E c \in Consumers : Phases[c] = "leaving"
    <3> SUFFICES ASSUME ~StaleLoads, Len(Contents) # Capacity
                 PROVE  \E c \in Consumers : Phases[c] = "leaving"
      OBVIOUS
    <3>1. sequence[Index(pos[t])] < pos[t]
      BY <1>6 DEF PushFull, LoadSequence
    <3>2. pos[t] = enqueue_pos
      <4>1. pos[t] <= enqueue_pos  BY DEF CursorInv, LoadsAreFloors
      <4>2. Index(pos[t]) \in Cells  BY IndexType
      <4>3. CASE pos[t] < enqueue_pos
        <5>1. pos[t] \in 0..(enqueue_pos - 1)  BY <4>3
        <5>2. sequence[Index(pos[t])] >= pos[t]  BY <5>1 DEF CursorInv, PassedCells
        <5> QED  BY <3>1, <4>2, <5>2
      <4> QED  BY <4>1, <4>3
    <3>3. enqueue_pos \in enqueue_pos..(dequeue_pos + Capacity - 1)
      BY ContentsSeq DEF CursorInv, Window
    <3>4. BeingDrained(enqueue_pos - Capacity)
      <4>1. sequence[Index(enqueue_pos)] # enqueue_pos  BY <3>1, <3>2
      <4> QED  BY <3>3, <4>1 DEF CursorInv, FreeCells
    <3>5. PICK c \in Consumers : Draining(c)  BY <3>4 DEF BeingDrained
    <3>6. Phases[c] = "leaving"  BY <3>5 DEF Phases, Phase, Draining
    <3> QED  BY <3>6
  <2> QED  BY <1>4, <2>1, <2>2 DEF Promise!Refuse, Promise!Move, Promise!Next
<1>7. CASE PushPublish(t)
  <2>1. /\ Phase(t) = "leaving" /\ Phase(t)' = "idle" /\ Carried(t)' = NoOrder
    BY <1>7 DEF PushPublish, Goto, Phase, Filling, Draining, Carried
  <2> QED  BY <1>4, <2>1 DEF Promise!Return, Promise!Move, Promise!Next
<1>8. CASE PushReady(t) \/ PushBehind(t) \/ PushReload(t) \/ PushClaimFails(t)
  <2>1. Phase(t)' = Phase(t) /\ Carried(t)' = Carried(t)
    BY <1>8 DEF PushReady, PushBehind, PushReload, PushClaimFails, Goto,
                Phase, Filling, Draining, Carried
  <2> QED  BY <1>4, <2>1, PhaseMove
<1> QED  BY <1>5, <1>6, <1>7, <1>8 DEF Promise!Next

LEMMA RefinePopLook ==
    ASSUME TypeOK, CursorInv, CursorInv', NEW t \in Consumers,
           \/ PopStart(t)
           \/ PopReady(t) \/ PopEmpty(t) \/ PopBehind(t) \/ PopReload(t)
           \/ PopClaimFails(t) \/ PopRead(t) \/ PopRelease(t)
    PROVE  Promise!Next \/ UNCHANGED Promise!vars
<1> USE RolesAssumption, CapacityAssumption DEF TypeOK, Threads, shared
<1>1. UNCHANGED <<data, enqueue_pos, dequeue_pos>>
  BY DEF PopStart, PopReady, PopEmpty, PopBehind, PopReload, PopClaimFails, PopRead, PopRelease
<1>2. \A u \in Threads : u # t =>
         pc'[u] = pc[u] /\ pos'[u] = pos[u] /\ item'[u] = item[u]
  BY DEF PopStart, PopReady, PopEmpty, PopBehind, PopReload, PopClaimFails, PopRead, PopRelease,
         Goto, Load
<1>3. pc[t] # "push_write" /\ pc'[t] # "push_write"
  BY DEF PopStart, PopReady, PopEmpty, PopBehind, PopReload, PopClaimFails, PopRead, PopRelease,
         Goto
<1>4. /\ Contents' = Contents
      /\ Phases' = [Phases EXCEPT ![t] = Phase(t)']
      /\ CarriedOrders' = [CarriedOrders EXCEPT ![t] = Carried(t)']
      /\ Phases[t] = Phase(t)
      /\ CarriedOrders[t] = Carried(t)
  BY <1>1, <1>2, <1>3, LookingStep
<1>5. ASSUME Carried(t)' = Carried(t)
      PROVE  CarriedOrders' = CarriedOrders
  BY <1>4, <1>5 DEF CarriedOrders
<1>6. CASE PopStart(t)
  <2>1. /\ Phase(t) = "idle" /\ Phase(t)' = "calling" /\ Carried(t)' = Carried(t)
    BY <1>6 DEF PopStart, Goto, Phase, Filling, Draining, Carried
  <2> QED  BY <1>4, <1>5, <2>1 DEF Promise!Ask, Promise!Move, Promise!Next
<1>7. CASE PopEmpty(t)
  <2>1. /\ Phase(t) = "calling" /\ Phase(t)' = "idle" /\ Carried(t)' = Carried(t)
    BY <1>7 DEF PopEmpty, Goto, Phase, Filling, Draining, Carried
  <2>2. ~StaleLoads => \/ Contents = <<>>
                       \/ \E p \in Producers : Phases[p] = "leaving"
    <3> SUFFICES ASSUME ~StaleLoads, Contents # <<>>
                 PROVE  \E p \in Producers : Phases[p] = "leaving"
      OBVIOUS
    <3>1. sequence[Index(pos[t])] < pos[t] + 1
      BY <1>7 DEF PopEmpty, LoadSequence
    <3>2. pos[t] = dequeue_pos
      <4>1. pos[t] <= dequeue_pos  BY DEF CursorInv, LoadsAreFloors
      <4>2. Index(pos[t]) \in Cells  BY IndexType
      <4>3. CASE pos[t] < dequeue_pos
        <5>1. pos[t] \in 0..(dequeue_pos - 1)  BY <4>3
        <5>2. sequence[Index(pos[t])] >= pos[t] + 1  BY <5>1 DEF CursorInv, PassedCells
        <5> QED  BY <3>1, <4>2, <5>2
      <4> QED  BY <4>1, <4>3
    <3>3. dequeue_pos \in dequeue_pos..(enqueue_pos - 1)
      <4>1. enqueue_pos - dequeue_pos # 0  BY ContentsSeq, EmptySeq
      <4> QED  BY <4>1 DEF CursorInv, Window
    <3>4. BeingFilled(dequeue_pos)
      <4>1. sequence[Index(dequeue_pos)] # dequeue_pos + 1  BY <3>1, <3>2
      <4> QED  BY <3>3, <4>1 DEF CursorInv, UsedCells
    <3>5. PICK p \in Producers : Filling(p)  BY <3>4 DEF BeingFilled
    <3>6. Phases[p] = "leaving"  BY <3>5 DEF Phases, Phase, Filling
    <3> QED  BY <3>6
  <2> QED  BY <1>4, <1>5, <2>1, <2>2 DEF Promise!FindNothing, Promise!Move, Promise!Next
<1>8. CASE PopRelease(t)
  <2>1. /\ Phase(t) = "leaving" /\ Phase(t)' = "idle" /\ Carried(t)' = NoOrder
    BY <1>8 DEF PopRelease, Goto, Phase, Filling, Draining, Carried
  <2> QED  BY <1>4, <2>1 DEF Promise!Return, Promise!Move, Promise!Next
<1>9. CASE PopReady(t) \/ PopBehind(t) \/ PopReload(t) \/ PopClaimFails(t) \/ PopRead(t)
  <2>1. Phase(t)' = Phase(t) /\ Carried(t)' = Carried(t)
    BY <1>9 DEF PopReady, PopBehind, PopReload, PopClaimFails, PopRead, Goto,
                Phase, Filling, Draining, Carried
  <2> QED  BY <1>4, <2>1, PhaseMove
<1> QED  BY <1>6, <1>7, <1>8, <1>9
-----------------------------------------------------------------------------
(* The two exchanges and the write. *)

\* An order gets its position: it is appended.
LEMMA RefinePushClaim ==
    ASSUME TypeOK, CursorInv, CursorInv', NEW t \in Producers, PushClaim(t)
    PROVE  Promise!Enqueue(t)
<1> USE RolesAssumption, CapacityAssumption DEF TypeOK, Threads
<1>1. /\ pc[t] = "push_cas" /\ pos[t] = enqueue_pos
      /\ pc' = [pc EXCEPT ![t] = "push_write"]
      /\ enqueue_pos' = enqueue_pos + 1
      /\ UNCHANGED <<data, dequeue_pos, pos, item>>
  BY DEF PushClaim, Goto
<1>2. /\ Phases' = [Phases EXCEPT ![t] = Phase(t)']
      /\ CarriedOrders' = [CarriedOrders EXCEPT ![t] = Carried(t)']
      /\ Phases[t] = Phase(t)
      /\ CarriedOrders[t] = Carried(t)
  BY <1>1, OthersKept
<1>3. /\ Phase(t) = "calling" /\ Phase(t)' = "leaving"
      /\ Carried(t) = item[t] /\ Carried(t)' = NoOrder
  BY <1>1 DEF Phase, Filling, Draining, Carried
<1>4. \A p \in dequeue_pos..(enqueue_pos - 1) : OrderAt(p)' = OrderAt(p)
  <2> SUFFICES ASSUME NEW p \in dequeue_pos..(enqueue_pos - 1)
               PROVE  OrderAt(p)' = OrderAt(p)
    OBVIOUS
  <2>1. \A u \in Producers :
           /\ pc'[u] = "push_write" /\ pos'[u] = p <=> pc[u] = "push_write" /\ pos[u] = p
           /\ pc[u] = "push_write" => item'[u] = item[u]
    BY <1>1
  <2> QED  BY <1>1, <2>1, OrderKept DEF CursorInv
<1>5. \A p \in Int : p = enqueue_pos => OrderAt(p)' = item[t]
  <2>1. \A u \in Producers : pc'[u] = "push_write" /\ pos'[u] = enqueue_pos => u = t
    BY <1>1 DEF CursorInv, FillersApart, FillersInWindow, Filling
  <2>2. pc'[t] = "push_write" /\ pos'[t] = enqueue_pos /\ item'[t] = item[t]  BY <1>1
  <2> QED  BY <2>1, <2>2 DEF OrderAt
<1>6. enqueue_pos < dequeue_pos + Capacity /\ dequeue_pos <= enqueue_pos
  BY <1>1 DEF CursorInv, Window
<1>7. Contents' = Append(Contents, item[t])
  <2> DEFINE n == enqueue_pos - dequeue_pos
  <2>1. n \in Nat /\ enqueue_pos' - dequeue_pos' = n + 1  BY <1>1, <1>6
  <2>2. /\ Contents \in Seq(Values) /\ Len(Contents) = n /\ item[t] \in Values
        /\ \A i \in 1..n : Contents[i] = OrderAt(dequeue_pos + i - 1)
    BY ContentsSeq DEF Values
  <2>3. Contents' = [i \in 1..(n + 1) |-> IF i = n + 1 THEN item[t] ELSE Contents[i]]
    <3>1. ASSUME NEW i \in 1..(n + 1)
          PROVE  OrderAt(dequeue_pos + i - 1)' =
                    IF i = n + 1 THEN item[t] ELSE Contents[i]
      <4> DEFINE p == dequeue_pos + i - 1
      <4>1. p \in Int /\ p' = p  BY <1>1
      <4>2. CASE i = n + 1
        <5>1. p = enqueue_pos  BY <4>2
        <5> QED  BY <1>5, <4>1, <4>2, <5>1
      <4>3. CASE i # n + 1
        <5>1. p \in dequeue_pos..(enqueue_pos - 1) /\ i \in 1..n  BY <4>3
        <5> QED  BY <1>4, <2>2, <4>1, <4>3, <5>1
      <4> QED  BY <4>2, <4>3
    <3> HIDE DEF n
    <3> QED  BY <2>1, <3>1 DEF Contents
  <2> HIDE DEF n
  <2> QED  BY <2>1, <2>2, <2>3, AppendProperties
<1>8. Len(Contents) < Capacity  BY <1>6, ContentsSeq
<1> QED
  BY <1>2, <1>3, <1>7, <1>8 DEF Promise!Enqueue, Promise!Move

\* The oldest order leaves: what the consumer will read from the cell is the head.
LEMMA RefinePopClaim ==
    ASSUME TypeOK, CursorInv, CursorInv', NEW t \in Consumers, PopClaim(t)
    PROVE  Promise!Dequeue(t)
<1> USE RolesAssumption, CapacityAssumption DEF TypeOK, Threads
<1>1. /\ pc[t] = "pop_cas" /\ pos[t] = dequeue_pos
      /\ pc' = [pc EXCEPT ![t] = "pop_read"]
      /\ dequeue_pos' = dequeue_pos + 1
      /\ UNCHANGED <<data, enqueue_pos, pos, item>>
  BY DEF PopClaim, Goto
<1>2. /\ Phases' = [Phases EXCEPT ![t] = Phase(t)']
      /\ CarriedOrders' = [CarriedOrders EXCEPT ![t] = Carried(t)']
      /\ Phases[t] = Phase(t)
  BY <1>1, OthersKept
<1>3. /\ Phase(t) = "calling" /\ Phase(t)' = "leaving"
      /\ Carried(t)' = data[Index(dequeue_pos)]
  BY <1>1 DEF Phase, Filling, Draining, Carried
<1>4. dequeue_pos < enqueue_pos /\ ~ BeingFilled(dequeue_pos)  BY CursorPopClaim
<1>5. OrderAt(dequeue_pos) = data[Index(dequeue_pos)]
  BY <1>4 DEF OrderAt, BeingFilled, Filling
<1>6. \A p \in Int : OrderAt(p)' = OrderAt(p)
  <2> SUFFICES ASSUME NEW p \in Int PROVE OrderAt(p)' = OrderAt(p)  OBVIOUS
  <2>1. \A u \in Producers :
           /\ pc'[u] = "push_write" /\ pos'[u] = p <=> pc[u] = "push_write" /\ pos[u] = p
           /\ pc[u] = "push_write" => item'[u] = item[u]
    BY <1>1
  <2> QED  BY <1>1, <2>1, OrderKept DEF CursorInv
<1> DEFINE n == enqueue_pos - dequeue_pos
<1>7. n \in Nat /\ n >= 1 /\ enqueue_pos' - dequeue_pos' = n - 1  BY <1>1, <1>4
<1>8. /\ Contents \in Seq(Values) /\ Len(Contents) = n
      /\ \A i \in 1..n : Contents[i] = OrderAt(dequeue_pos + i - 1)
  BY ContentsSeq
<1>9. Contents # <<>> /\ Head(Contents) = OrderAt(dequeue_pos)
  <2>1. Contents[1] = OrderAt(dequeue_pos)
    <3>1. 1 \in 1..n /\ dequeue_pos + 1 - 1 = dequeue_pos  BY <1>7
    <3> QED  BY <1>8, <3>1
  <2>2. Contents # <<>>  BY <1>7, <1>8, EmptySeq
  <2> QED  BY <2>1, <2>2
<1>10. Contents' = Tail(Contents)
  <2>1. ASSUME NEW i \in 1..(n - 1)
        PROVE  OrderAt(dequeue_pos + i - 1)' = Contents[i + 1]
    <3> DEFINE p == dequeue_pos + i
    <3>1. p \in Int /\ (dequeue_pos + i - 1)' = p /\ dequeue_pos + (i + 1) - 1 = p
      BY <1>1
    <3>2. i + 1 \in 1..n  BY <1>7
    <3>3. Contents[i + 1] = OrderAt(p)  BY <1>8, <3>1, <3>2
    <3> QED  BY <1>6, <3>1, <3>3
  <2> HIDE DEF n
  <2>2. Contents' = [i \in 1..(n - 1) |-> Contents[i + 1]]  BY <1>7, <2>1 DEF Contents
  <2>3. /\ Tail(Contents) \in Seq(Values) /\ Len(Tail(Contents)) = n - 1
        /\ \A i \in 1..(n - 1) : Tail(Contents)[i] = Contents[i + 1]
    BY <1>7, <1>8, <1>9, HeadTailProperties
  <2>4. Tail(Contents) \in [1..(n - 1) -> Values]  BY <2>3, LenProperties
  <2> QED  BY <2>2, <2>3, <2>4
<1> QED
  BY <1>2, <1>3, <1>5, <1>9, <1>10 DEF Promise!Dequeue, Promise!Move

\* The write into the cell changes nothing the abstract queue can see: the order
\* of pos[t] moves from the producer to the cell, and no other thread is there.
LEMMA RefinePushWrite ==
    ASSUME TypeOK, CursorInv, CursorInv', NEW t \in Producers, PushWrite(t)
    PROVE  UNCHANGED Promise!vars
<1> USE RolesAssumption, CapacityAssumption DEF TypeOK, Threads
<1>1. /\ pc[t] = "push_write"
      /\ pc' = [pc EXCEPT ![t] = "push_publish"]
      /\ data' = [data EXCEPT ![Index(pos[t])] = item[t]]
      /\ UNCHANGED <<enqueue_pos, dequeue_pos, pos, item>>
  BY DEF PushWrite, Goto
<1>2. \A u \in Threads : u # t /\ pc[u] = "pop_read" =>
         data'[Index(pos[u])] = data[Index(pos[u])]
  <2> SUFFICES ASSUME NEW u \in Threads, u # t, pc[u] = "pop_read"
               PROVE  data'[Index(pos[u])] = data[Index(pos[u])]
    OBVIOUS
  <2>1. Index(pos[u]) # Index(pos[t])
    BY <1>1, RaceFree DEF NoCellRace, Filling, Draining
  <2>2. Index(pos[u]) \in Cells  BY IndexType
  <2> QED  BY <1>1, <2>1, <2>2
<1>3. /\ Phases' = [Phases EXCEPT ![t] = Phase(t)']
      /\ CarriedOrders' = [CarriedOrders EXCEPT ![t] = Carried(t)']
      /\ Phases[t] = Phase(t)
      /\ CarriedOrders[t] = Carried(t)
  BY <1>1, <1>2, OthersKept
<1>4. Phase(t)' = Phase(t) /\ Carried(t)' = Carried(t)
  BY <1>1 DEF Phase, Filling, Draining, Carried
<1>5. pos[t] \in dequeue_pos..(dequeue_pos + Capacity - 1) /\ pos[t] < enqueue_pos
  BY <1>1 DEF CursorInv, FillersInWindow, Window, Filling
<1>6. \A p \in dequeue_pos..(enqueue_pos - 1) : OrderAt(p)' = OrderAt(p)
  <2> SUFFICES ASSUME NEW p \in dequeue_pos..(enqueue_pos - 1)
               PROVE  OrderAt(p)' = OrderAt(p)
    OBVIOUS
  <2>1. CASE p = pos[t]
    <3>1. OrderAt(p) = item[t]  BY <1>1, <2>1, OrderUnwritten DEF CursorInv
    <3>2. ~ \E u \in Producers : pc'[u] = "push_write" /\ pos'[u] = p
      BY <1>1, <2>1 DEF CursorInv, FillersApart, Filling
    <3>3. data'[Index(p)] = item[t]  BY <1>1, <2>1, IndexType
    <3> QED  BY <3>1, <3>2, <3>3 DEF OrderAt
  <2>2. CASE p # pos[t]
    <3>1. \A u \in Producers :
             /\ pc'[u] = "push_write" /\ pos'[u] = p <=> pc[u] = "push_write" /\ pos[u] = p
             /\ pc[u] = "push_write" => item'[u] = item[u]
      BY <1>1, <2>2
    <3>2. data'[Index(p)] = data[Index(p)]
      <4>1. p \in dequeue_pos..(dequeue_pos + Capacity - 1)
        BY DEF CursorInv, Window
      <4>2. Index(p) # Index(pos[t]) /\ Index(p) \in Cells
        BY <1>5, <2>2, <4>1, WindowApart, IndexType
      <4> QED  BY <1>1, <4>2
    <3> QED  BY <3>1, <3>2, OrderKept DEF CursorInv
  <2> QED  BY <2>1, <2>2
<1>7. Contents' = Contents  BY <1>1, <1>6, ContentsKept
<1> QED  BY <1>3, <1>4, <1>7, PhaseMove
-----------------------------------------------------------------------------
LEMMA RefineStep ==
    TypeOK /\ CursorInv /\ CursorInv' /\ [Next]_vars => [Promise!Next]_(Promise!vars)
<1> SUFFICES ASSUME TypeOK, CursorInv, CursorInv', [Next]_vars
             PROVE  Promise!Next \/ UNCHANGED Promise!vars
  OBVIOUS
<1>1. CASE UNCHANGED vars
  <2>1. Contents' = Contents  BY <1>1 DEF vars, Contents, OrderAt
  <2>2. Phases' = Phases  BY <1>1 DEF vars, Phases, Phase, Filling, Draining
  <2>3. CarriedOrders' = CarriedOrders  BY <1>1 DEF vars, CarriedOrders, Carried
  <2> QED  BY <2>1, <2>2, <2>3 DEF Promise!vars
<1>2. CASE \E t \in Producers : (\E o \in Orders : PushStart(t, o)) \/ PushStep(t)
  <2>1. PICK t \in Producers : (\E o \in Orders : PushStart(t, o)) \/ PushStep(t)
    BY <1>2
  <2>2. CASE PushClaim(t)  BY <2>2, RefinePushClaim DEF Promise!Next
  <2>3. CASE PushWrite(t)  BY <2>3, RefinePushWrite
  <2> QED  BY <2>1, <2>2, <2>3, RefinePushLook DEF PushStep
<1>3. CASE \E t \in Consumers : PopStart(t) \/ PopStep(t)
  <2>1. PICK t \in Consumers : PopStart(t) \/ PopStep(t)  BY <1>3
  <2>2. CASE PopClaim(t)  BY <2>2, RefinePopClaim DEF Promise!Next
  <2> QED  BY <2>1, <2>2, RefinePopLook DEF PopStep
<1> QED  BY <1>1, <1>2, <1>3 DEF Next

\* The ring behaves as the bounded FIFO queue: orders leave in the order in which
\* they got their positions, each once and unchanged, and a failing call had a
\* reason (try_push and try_pop as their callers see them).
THEOREM ImplementsFifo == Spec => FifoPromise
<1>1. Init => Promise!Init  BY PromiseInit
<1>2. TypeOK /\ CursorInv /\ CursorInv' /\ [Next]_vars => [Promise!Next]_(Promise!vars)
  BY RefineStep
<1> QED  BY <1>1, <1>2, TypeCorrect, CursorsAgree, PTL DEF Spec, FifoPromise, Promise!Spec
=============================================================================
