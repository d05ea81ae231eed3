--------------------------- MODULE OrderBookProofs ---------------------------
(***************************************************************************)
(* What TLAPS proves of OrderBook, for all orders, prices and limits.       *)
(***************************************************************************)
EXTENDS OrderBook, FoldLemmas, FiniteSetTheorems, SequenceTheorems

-----------------------------------------------------------------------------
(* Quantity *)

\* The sums of the first orders of a sequence.
Running(F, s) ==
    /\ F \in [0..Len(s) -> Nat]
    /\ F[0] = 0
    /\ \A k \in 1..Len(s) : F[k] = F[k - 1] + s[k].quantity

Countable(s) == \A i \in 1..Len(s) : s[i].quantity \in Nat

LEMMA QuantityRuns ==
    ASSUME NEW X, NEW s \in Seq(X), Countable(s)
    PROVE  \E F : Running(F, s) /\ Quantity(s) = F[Len(s)]
<1> DEFINE n == Len(s)
           step == [k \in 1..n |-> [sum \in Nat |-> sum + s[k].quantity]]
           G(iter) == [t \in SUBSET (DOMAIN s) |->
                          IF t = {} THEN 0 ELSE iter[t \ {Max(t)}] + s[Max(t)].quantity]
<1>1. n \in Nat /\ DOMAIN s = 1..n  OBVIOUS
<1>2. Quantity(s) = (CHOOSE iter : iter = G(iter))[DOMAIN s]
  BY DEF Quantity, FoldLeft, MapThenFoldSet
<1>3. \E iter : iter = G(iter)
  <2>1. step \in [1..n -> [Nat -> Nat]]  BY DEF Countable
  <2> HIDE DEF step
  <2>2. PICK iter \in [SUBSET (1..n) -> Nat] : iter = FoldEquation(n, 0, step, iter)
    <3>1. PICK iter : Folds(n, Nat, 0, step, iter)  BY <1>1, <2>1, FoldExists
    <3> QED  BY <3>1 DEF Folds
  <2> DEFINE E == FoldEquation(n, 0, step, iter)
  <2>3. ASSUME NEW t \in SUBSET (1..n) PROVE E[t] = G(iter)[t]
    <3>1. CASE t = {}  BY <1>1, <3>1 DEF FoldEquation
    <3>2. CASE t # {}
      <4>1. Max(t) \in 1..n  BY <3>2, <1>1, GreatestNumber
      <4>2. iter[t \ {Max(t)}] \in Nat  OBVIOUS
      <4>3. E[t] = step[Max(t)][iter[t \ {Max(t)}]]  BY <3>2 DEF FoldEquation
      <4>4. step[Max(t)][iter[t \ {Max(t)}]] = iter[t \ {Max(t)}] + s[Max(t)].quantity
        BY <4>1, <4>2 DEF step
      <4> QED  BY <4>3, <4>4, <3>2, <1>1
    <3> QED  BY <3>1, <3>2
  <2>4. E = G(iter)
    <3>1. E = [t \in SUBSET (1..n) |-> E[t]]  BY DEF FoldEquation
    <3>2. G(iter) = [t \in SUBSET (1..n) |-> G(iter)[t]]  BY <1>1
    <3> HIDE DEF E, G
    <3> QED  BY <2>3, <3>1, <3>2
  <2> QED  BY <2>2, <2>4
<1> DEFINE J == CHOOSE iter : iter = G(iter)
<1>4. J = G(J)  BY <1>3
<1>5. J[{}] = 0
  <2>1. G(J)[{}] = 0  OBVIOUS
  <2> HIDE DEF J, G
  <2> QED  BY <2>1, <1>4
<1>6. ASSUME NEW t \in SUBSET (1..n), t # {}, J[t \ {Max(t)}] \in Nat
      PROVE  J[t] = step[Max(t)][J[t \ {Max(t)}]]
  <2>1. Max(t) \in 1..n  BY <1>6, <1>1, GreatestNumber
  <2>2. G(J)[t] = J[t \ {Max(t)}] + s[Max(t)].quantity  BY <1>1, <1>6
  <2>3. step[Max(t)][J[t \ {Max(t)}]] = J[t \ {Max(t)}] + s[Max(t)].quantity
    BY <2>1, <1>6
  <2> HIDE DEF J, G, step
  <2> QED  BY <2>2, <2>3, <1>4
<1>7. step \in [1..n -> [Nat -> Nat]]  BY DEF Countable
<1> HIDE DEF J
<1>8. PICK run : Runs(n, Nat, 0, step, J[1..n], run)
  <2> HIDE DEF step, G, n
  <2>1. Unfolds(n, Nat, 0, step, J)  BY <1>5, <1>6 DEF Unfolds
  <2>2. n \in Nat /\ 0 \in Nat  BY <1>1
  <2> QED  BY <1>7, <2>1, <2>2, FoldRuns
<1>9. ASSUME NEW k \in 1..n PROVE run[k] = run[k - 1] + s[k].quantity
  <2>1. k - 1 \in 0..n  BY <1>1
  <2> QED  BY <2>1, <1>8 DEF Runs
<1>10. Quantity(s) = run[n]  BY <1>1, <1>2, <1>8 DEF J, Runs
<1>11. Running(run, s)  BY <1>8, <1>9 DEF Running, Runs
<1> QED  BY <1>10, <1>11

\* Sequences with the same first quantities have the same first sums.
LEMMA RunningAgree ==
    ASSUME NEW F, NEW s, NEW G, NEW t, Running(F, s), Running(G, t),
           Len(s) \in Nat, Len(t) \in Nat, NEW m \in Nat, m <= Len(s), m <= Len(t),
           \A i \in 1..m : s[i].quantity = t[i].quantity
    PROVE  \A k \in 0..m : F[k] = G[k]
<1> DEFINE T == {k \in 0..m : F[k] = G[k]}
<1>1. 0 \in T  BY DEF Running
<1>2. ASSUME NEW k \in T \cap (0..(m - 1)) PROVE k + 1 \in T
  <2>1. k + 1 \in 1..m /\ k + 1 \in 1..Len(s) /\ k + 1 \in 1..Len(t) /\ (k + 1) - 1 = k
    OBVIOUS
  <2>2. F[k + 1] = F[k] + s[k + 1].quantity /\ G[k + 1] = G[k] + t[k + 1].quantity
    BY <2>1 DEF Running
  <2> QED  BY <2>1, <2>2
<1>3. 0..m \subseteq T
  <2> HIDE DEF T
  <2> QED  BY <1>1, <1>2, UpTo
<1> QED  BY <1>3

LEMMA QuantityType ==
    ASSUME NEW X, NEW s \in Seq(X), Countable(s) PROVE Quantity(s) \in Nat
<1>1. PICK F : Running(F, s) /\ Quantity(s) = F[Len(s)]  BY QuantityRuns
<1>2. Len(s) \in 0..Len(s)  OBVIOUS
<1> QED  BY <1>1, <1>2 DEF Running

LEMMA QuantityEmpty == Quantity(<<>>) = 0
<1>1. <<>> \in Seq({}) /\ Countable(<<>>) /\ Len(<<>>) = 0  BY DEF Countable
<1>2. PICK F : Running(F, <<>>) /\ Quantity(<<>>) = F[Len(<<>>)]  BY <1>1, QuantityRuns
<1> QED  BY <1>1, <1>2 DEF Running

LEMMA QuantityAppend ==
    ASSUME NEW X, NEW s \in Seq(X), Countable(s), NEW x \in X, x.quantity \in Nat
    PROVE  /\ Countable(Append(s, x))
           /\ Quantity(Append(s, x)) = Quantity(s) + x.quantity
<1> DEFINE t == Append(s, x)
           n == Len(s)
<1>1. /\ t \in Seq(X) /\ Len(t) = n + 1 /\ n \in Nat
      /\ t[n + 1] = x /\ \A i \in 1..n : t[i] = s[i]
  OBVIOUS
<1> HIDE DEF t
<1>2. Countable(t)
  <2>1. ASSUME NEW i \in 1..(n + 1) PROVE t[i].quantity \in Nat
    <3>1. CASE i = n + 1  BY <1>1, <3>1
    <3>2. CASE i \in 1..n  BY <1>1, <3>2 DEF Countable
    <3> QED  BY <1>1, <3>1, <3>2
  <2> QED  BY <1>1, <2>1 DEF Countable
<1>3. PICK F : Running(F, s) /\ Quantity(s) = F[n]  BY QuantityRuns
<1>4. PICK G : Running(G, t) /\ Quantity(t) = G[Len(t)]  BY <1>1, <1>2, QuantityRuns
<1>5. F[n] = G[n]
  <2>1. \A k \in 0..n : F[k] = G[k]
    <3>1. n <= Len(t) /\ \A i \in 1..n : s[i].quantity = t[i].quantity  BY <1>1
    <3> QED  BY <1>1, <1>3, <1>4, <3>1, RunningAgree
  <2> QED  BY <1>1, <2>1
<1>6. G[n + 1] = G[n] + t[n + 1].quantity
  <2>1. n + 1 \in 1..Len(t) /\ (n + 1) - 1 = n  BY <1>1
  <2> QED  BY <2>1, <1>4 DEF Running
<1> QED  BY <1>1, <1>2, <1>3, <1>4, <1>5, <1>6 DEF t

LEMMA ChangedSum ==
    ASSUME NEW f \in Int, NEW g \in Int, NEW a \in Int, NEW b \in Int, NEW old \in Int,
           NEW new \in Int, g = f - old + new, b = a, NEW h, h = f + a, NEW i, i = g + b
    PROVE  i = h - old + new
OBVIOUS

\* One order gets a new quantity.
LEMMA QuantityChange ==
    ASSUME NEW X, NEW s \in Seq(X), Countable(s), NEW Y, NEW t \in Seq(Y), Countable(t),
           Len(t) = Len(s), NEW j \in 1..Len(s),
           \A i \in 1..Len(s) : i # j => t[i].quantity = s[i].quantity
    PROVE  Quantity(t) = Quantity(s) - s[j].quantity + t[j].quantity
<1> DEFINE n == Len(s)
<1>0. n \in Nat /\ j \in 1..n /\ Len(t) = n  OBVIOUS
<1>1. PICK F : Running(F, s) /\ Quantity(s) = F[n]  BY QuantityRuns
<1>2. PICK G : Running(G, t) /\ Quantity(t) = G[n]  BY <1>0, QuantityRuns
<1> DEFINE T == {k \in 0..n : k >= j => G[k] = F[k] - s[j].quantity + t[j].quantity}
<1>3. \A k \in 0..(j - 1) : F[k] = G[k]
  <2>1. /\ j - 1 \in Nat /\ j - 1 <= Len(s) /\ j - 1 <= Len(t)
        /\ \A i \in 1..(j - 1) : s[i].quantity = t[i].quantity
    BY <1>0
  <2> QED  BY <1>0, <1>1, <1>2, <2>1, RunningAgree
<1>4. 0 \in T  BY <1>0
<1>5. ASSUME NEW k \in T \cap (0..(n - 1)) PROVE k + 1 \in T
  <2>1. k + 1 \in 1..n /\ (k + 1) - 1 = k /\ k \in 0..n  BY <1>0
  <2>2. F[k + 1] = F[k] + s[k + 1].quantity /\ G[k + 1] = G[k] + t[k + 1].quantity
    BY <1>0, <1>1, <1>2, <2>1 DEF Running
  <2>3. /\ F[k] \in Nat /\ G[k] \in Nat /\ s[k + 1].quantity \in Nat
        /\ t[k + 1].quantity \in Nat /\ s[j].quantity \in Nat /\ t[j].quantity \in Nat
    BY <1>0, <1>1, <1>2, <2>1 DEF Running, Countable
  <2>4. CASE k + 1 = j
    <3>1. k \in 0..(j - 1)  BY <2>1, <2>4
    <3>2. F[k] = G[k]  BY <1>3, <3>1
    <3>3. G[k + 1] = F[k + 1] - s[j].quantity + t[j].quantity  BY <3>2, <2>2, <2>3, <2>4
    <3> QED  BY <3>3, <2>1
  <2>5. CASE k + 1 > j
    <3>1. G[k] = F[k] - s[j].quantity + t[j].quantity  BY <1>0, <2>1, <2>5
    <3>2. t[k + 1].quantity = s[k + 1].quantity  BY <1>0, <2>1, <2>5
    <3> DEFINE f == F[k]
               g == G[k]
               a == s[k + 1].quantity
               b == t[k + 1].quantity
               old == s[j].quantity
               new == t[j].quantity
    <3>3. /\ f \in Int /\ g \in Int /\ a \in Int /\ b \in Int /\ old \in Int /\ new \in Int
          /\ g = f - old + new /\ b = a
      BY <2>3, <3>1, <3>2, SMTT(20)
    <3>4. F[k + 1] = f + a /\ G[k + 1] = g + b  BY <2>2
    <3> HIDE DEF f, g, a, b, old, new
    <3>5. G[k + 1] = F[k + 1] - old + new  BY <3>3, <3>4, ChangedSum
    <3> QED  BY <3>5, <2>1 DEF old, new
  <2>6. CASE k + 1 < j  BY <2>1, <2>6, <1>0
  <2> QED  BY <1>0, <2>1, <2>4, <2>5, <2>6
<1>6. 0..n \subseteq T
  <2> HIDE DEF T
  <2> QED  BY <1>0, <1>4, <1>5, UpTo
<1>7. n \in 0..n /\ n >= j  BY <1>0
<1> QED  BY <1>1, <1>2, <1>6, <1>7

\* One order leaves.
LEMMA QuantityRemove ==
    ASSUME NEW X, NEW s \in Seq(X), Countable(s), NEW t \in Seq(X), NEW j \in 1..Len(s),
           Len(t) = Len(s) - 1,
           \A i \in 1..(Len(s) - 1) : t[i] = IF i < j THEN s[i] ELSE s[i + 1]
    PROVE  Countable(t) /\ Quantity(t) = Quantity(s) - s[j].quantity
<1> DEFINE n == Len(s)
<1>0. n \in Nat /\ j \in 1..n /\ Len(t) = n - 1 /\ n - 1 \in Nat  OBVIOUS
<1>c. Countable(t)
  <2>1. ASSUME NEW i \in 1..(n - 1) PROVE t[i].quantity \in Nat
    <3>1. i \in 1..n /\ i + 1 \in 1..n  BY <1>0
    <3>2. t[i] = s[i] \/ t[i] = s[i + 1]  BY <1>0
    <3> QED  BY <3>1, <3>2 DEF Countable
  <2> QED  BY <1>0, <2>1 DEF Countable
<1>1. PICK F : Running(F, s) /\ Quantity(s) = F[n]  BY QuantityRuns
<1>2. PICK G : Running(G, t) /\ Quantity(t) = G[n - 1]  BY <1>0, <1>c, QuantityRuns
<1> DEFINE T == {k \in 0..(n - 1) : k >= j - 1 => G[k] = F[k + 1] - s[j].quantity}
<1>3. \A k \in 0..(j - 1) : F[k] = G[k]
  <2>1. /\ j - 1 \in Nat /\ j - 1 <= Len(s) /\ j - 1 <= Len(t)
        /\ \A i \in 1..(j - 1) : s[i].quantity = t[i].quantity
    BY <1>0
  <2> QED  BY <1>0, <1>1, <1>2, <2>1, RunningAgree, SMTT(20)
<1>4. ASSUME NEW k \in 0..(n - 1), k = j - 1 PROVE G[k] = F[k + 1] - s[j].quantity
  <2>1. k \in 0..(j - 1) /\ j \in 1..Len(s) /\ k \in 0..Len(s) /\ k + 1 = j  BY <1>0, <1>4
  <2>2. F[j] = F[j - 1] + s[j].quantity  BY <1>1, <2>1 DEF Running
  <2>3. F[k] \in Nat /\ s[j].quantity \in Nat /\ F[k] = G[k]
    BY <1>1, <1>3, <2>1 DEF Running, Countable
  <2> QED  BY <2>1, <2>2, <2>3, <1>4
<1>5. 0 \in T
  <2>1. 0 \in 0..(n - 1) /\ (0 >= j - 1 => 0 = j - 1)  BY <1>0
  <2> QED  BY <2>1, <1>4
<1>6. ASSUME NEW k \in T \cap (0..((n - 1) - 1)) PROVE k + 1 \in T
  <2>1. k + 1 \in 0..(n - 1)  BY <1>0
  <2>2. CASE k + 1 = j - 1  BY <2>1, <2>2, <1>4
  <2>3. CASE k + 1 < j - 1  BY <2>1, <2>3, <1>0
  <2>4. CASE k + 1 > j - 1
    <3>1. /\ k + 1 \in 1..Len(t) /\ (k + 1) - 1 = k /\ k + 2 \in 1..Len(s)
          /\ (k + 2) - 1 = k + 1 /\ k \in 0..Len(t) /\ k + 1 \in 0..Len(s) /\ k >= j - 1
          /\ (k + 1) + 1 = k + 2
      BY <1>0, <2>1, <2>4
    <3>2. F[k + 2] = F[k + 1] + s[k + 2].quantity /\ G[k + 1] = G[k] + t[k + 1].quantity
      BY <1>1, <1>2, <3>1 DEF Running
    <3>3. t[k + 1] = s[k + 2]
      <4>1. k + 1 \in 1..(Len(s) - 1) /\ ~ (k + 1 < j)  BY <1>0, <2>1, <2>4
      <4>2. t[k + 1] = IF k + 1 < j THEN s[k + 1] ELSE s[(k + 1) + 1]  BY <4>1
      <4> QED  BY <3>1, <4>1, <4>2
    <3>4. /\ F[k + 1] \in Nat /\ G[k] \in Nat
          /\ s[k + 2].quantity \in Nat /\ s[j].quantity \in Nat
      BY <1>0, <1>1, <1>2, <3>1 DEF Running, Countable
    <3>5. G[k] = F[k + 1] - s[j].quantity  BY <3>1
    <3>6. G[k + 1] = F[k + 2] - s[j].quantity  BY <3>2, <3>3, <3>4, <3>5
    <3> QED  BY <3>1, <3>6, <2>1
  <2> QED  BY <1>0, <2>1, <2>2, <2>3, <2>4
<1>7. 0..(n - 1) \subseteq T
  <2> HIDE DEF T
  <2> QED  BY <1>0, <1>5, <1>6, UpTo
<1>8. n - 1 \in 0..(n - 1) /\ n - 1 >= j - 1 /\ (n - 1) + 1 = n  BY <1>0
<1> QED  BY <1>c, <1>1, <1>2, <1>7, <1>8
-----------------------------------------------------------------------------
(* Makers *)

LEMMA MakersRuns ==
    ASSUME NEW X, NEW s \in Seq(X), NEW filled \in BOOLEAN
    PROVE  \E run \in [0..Len(s) -> Seq(X)] :
              /\ run[0] = <<>>
              /\ run[Len(s)] = Makers(filled, s)
              /\ \A k \in 1..Len(s) :
                    run[k] = IF (s[k].quantity = 0) = filled THEN Append(run[k - 1], s[k])
                             ELSE run[k - 1]
<1> DEFINE n == Len(s)
           next(some, k) == IF (s[k].quantity = 0) = filled THEN Append(some, s[k]) ELSE some
           step == [k \in 1..n |-> [some \in Seq(X) |-> next(some, k)]]
           G(iter) == [t \in SUBSET (DOMAIN s) |->
                          IF t = {} THEN <<>> ELSE next(iter[t \ {Max(t)}], Max(t))]
<1>1. n \in Nat /\ DOMAIN s = 1..n /\ <<>> \in Seq(X)  OBVIOUS
<1>2. Makers(filled, s) = (CHOOSE iter : iter = G(iter))[DOMAIN s]
  BY DEF Makers, FoldLeft, MapThenFoldSet
<1>3. ASSUME NEW k \in 1..n, NEW some \in Seq(X)
      PROVE  next(some, k) \in Seq(X) /\ step[k][some] = next(some, k)
  <2>1. s[k] \in X  OBVIOUS
  <2>2. next(some, k) \in Seq(X)  BY <2>1
  <2> HIDE DEF next
  <2> QED  BY <2>2
<1>4. step \in [1..n -> [Seq(X) -> Seq(X)]]
  <2> HIDE DEF next
  <2> QED  BY <1>3
<1> HIDE DEF step, next
<1>5. \E iter : iter = G(iter)
  <2>1. PICK iter \in [SUBSET (1..n) -> Seq(X)] : iter = FoldEquation(n, <<>>, step, iter)
    <3>1. PICK iter : Folds(n, Seq(X), <<>>, step, iter)  BY <1>1, <1>4, FoldExists
    <3> QED  BY <3>1 DEF Folds
  <2> DEFINE E == FoldEquation(n, <<>>, step, iter)
  <2>2. ASSUME NEW t \in SUBSET (1..n) PROVE E[t] = G(iter)[t]
    <3>1. CASE t = {}  BY <1>1, <3>1 DEF FoldEquation
    <3>2. CASE t # {}
      <4>1. Max(t) \in 1..n  BY <3>2, <1>1, GreatestNumber
      <4>2. iter[t \ {Max(t)}] \in Seq(X)  OBVIOUS
      <4>3. E[t] = step[Max(t)][iter[t \ {Max(t)}]]  BY <3>2 DEF FoldEquation
      <4>4. step[Max(t)][iter[t \ {Max(t)}]] = next(iter[t \ {Max(t)}], Max(t))
        BY <4>1, <4>2, <1>3
      <4> QED  BY <4>3, <4>4, <3>2, <1>1
    <3> QED  BY <3>1, <3>2
  <2>3. E = G(iter)
    <3>1. E = [t \in SUBSET (1..n) |-> E[t]]  BY DEF FoldEquation
    <3>2. G(iter) = [t \in SUBSET (1..n) |-> G(iter)[t]]  BY <1>1
    <3> HIDE DEF E, G
    <3> QED  BY <2>2, <3>1, <3>2
  <2> QED  BY <2>1, <2>3
<1> DEFINE J == CHOOSE iter : iter = G(iter)
<1>6. J = G(J)  BY <1>5
<1>7. Unfolds(n, Seq(X), <<>>, step, J)
  <2>1. G(J)[{}] = <<>>  OBVIOUS
  <2>2. ASSUME NEW t \in SUBSET (1..n), t # {}, J[t \ {Max(t)}] \in Seq(X)
        PROVE  G(J)[t] = step[Max(t)][J[t \ {Max(t)}]]
    <3>1. Max(t) \in 1..n  BY <2>2, <1>1, GreatestNumber
    <3>2. G(J)[t] = next(J[t \ {Max(t)}], Max(t))  BY <1>1, <2>2
    <3> HIDE DEF J
    <3> QED  BY <2>2, <3>1, <3>2, <1>3
  <2> HIDE DEF J, G
  <2> QED  BY <2>1, <2>2, <1>6 DEF Unfolds
<1>8. PICK run : Runs(n, Seq(X), <<>>, step, J[1..n], run)
  <2> HIDE DEF J, n
  <2> QED  BY <1>1, <1>4, <1>7, FoldRuns
<1>9. ASSUME NEW k \in 1..n PROVE run[k] = next(run[k - 1], k)
  <2>1. k - 1 \in 0..n  BY <1>1
  <2>2. run[k - 1] \in Seq(X)  BY <2>1, <1>8 DEF Runs
  <2> QED  BY <2>2, <1>3, <1>8 DEF Runs
<1>10. run \in [0..n -> Seq(X)] /\ run[0] = <<>> /\ run[n] = Makers(filled, s)
  BY <1>1, <1>2, <1>8 DEF Runs, J
<1> QED  BY <1>9, <1>10 DEF next

Stamped(s) == \A i \in 1..Len(s) : s[i].timestamp \in Nat

\* The orders in some are orders of s that are filled, or not, in the order of s.
Picked(some, s, filled, k) ==
    /\ Len(some) <= k
    /\ \A i \in 1..Len(some) : \E j \in 1..k : some[i] = s[j] /\ (s[j].quantity = 0) = filled
    /\ InArrivalOrder(s) => InArrivalOrder(some)
    /\ ~ filled => \A F : Running(F, s) => Quantity(some) = F[k]

LEMMA PickedNext ==
    ASSUME NEW X, NEW s \in Seq(X), Countable(s), Stamped(s), NEW filled \in BOOLEAN,
           NEW k \in 1..Len(s), NEW some \in Seq(X), Picked(some, s, filled, k - 1),
           NEW next, next = IF (s[k].quantity = 0) = filled THEN Append(some, s[k]) ELSE some
    PROVE  Picked(next, s, filled, k)
<1>0. /\ k \in Nat /\ k - 1 \in Nat /\ s[k] \in X /\ s[k].quantity \in Nat
      /\ Len(some) \in Nat /\ Len(some) <= k - 1 /\ Len(s) \in Nat /\ DOMAIN s = 1..Len(s)
      /\ DOMAIN some = 1..Len(some)
  BY DEF Countable, Picked
<1>1. \A i \in 1..Len(some) :
         \E j \in 1..(k - 1) : some[i] = s[j] /\ (s[j].quantity = 0) = filled
  BY DEF Picked
<1>2. ASSUME NEW F, Running(F, s), ~ filled
      PROVE  Quantity(some) = F[k - 1] /\ F[k] = F[k - 1] + s[k].quantity
  BY <1>2 DEF Picked, Running
<1>c. Countable(some)
  <2>1. ASSUME NEW i \in 1..Len(some) PROVE some[i].quantity \in Nat
    <3>1. PICK j \in 1..(k - 1) : some[i] = s[j]  BY <1>1
    <3>2. j \in 1..Len(s)  BY <1>0
    <3> QED  BY <3>1, <3>2 DEF Countable
  <2> QED  BY <2>1 DEF Countable
<1>3. CASE (s[k].quantity = 0) = filled
  <2>1. next = Append(some, s[k])  BY <1>3
  <2>2. /\ Len(next) = Len(some) + 1 /\ next[Len(some) + 1] = s[k]
        /\ \A i \in 1..Len(some) : next[i] = some[i]
        /\ DOMAIN next = 1..(Len(some) + 1)
    BY <1>0, <2>1
  <2> HIDE <2>1
  <2>3. ASSUME NEW i \in 1..Len(next)
        PROVE  \E j \in 1..k : next[i] = s[j] /\ (s[j].quantity = 0) = filled
    <3>1. CASE i = Len(some) + 1
      <4>1. k \in 1..k  BY <1>0
      <4> QED  BY <3>1, <4>1, <2>2, <1>3
    <3>2. CASE i \in 1..Len(some)
      <4>1. PICK j \in 1..(k - 1) : some[i] = s[j] /\ (s[j].quantity = 0) = filled
        BY <1>1, <3>2
      <4>2. j \in 1..k  BY <1>0
      <4> QED  BY <4>1, <4>2, <2>2, <3>2
    <3> QED  BY <1>0, <2>2, <3>1, <3>2
  <2>4. ASSUME InArrivalOrder(s) PROVE InArrivalOrder(next)
    <3>1. InArrivalOrder(some)  BY <2>4 DEF Picked
    <3>2. ASSUME NEW a \in DOMAIN next, NEW b \in DOMAIN next, a < b
          PROVE  next[a].timestamp < next[b].timestamp
      <4>1. a \in 1..Len(some)  BY <1>0, <2>2, <3>2
      <4>2. CASE b = Len(some) + 1
        <5>1. PICK j \in 1..(k - 1) : some[a] = s[j]  BY <1>1, <4>1
        <5>2. j \in DOMAIN s /\ k \in DOMAIN s /\ j < k  BY <1>0
        <5>3. s[j].timestamp < s[k].timestamp  BY <5>2, <2>4 DEF InArrivalOrder
        <5> QED  BY <5>1, <5>3, <4>1, <4>2, <2>2
      <4>3. CASE b \in 1..Len(some)
        <5>1. some[a].timestamp < some[b].timestamp
          BY <1>0, <3>1, <3>2, <4>1, <4>3 DEF InArrivalOrder
        <5> QED  BY <5>1, <4>1, <4>3, <2>2
      <4> QED  BY <1>0, <2>2, <4>2, <4>3
    <3> QED  BY <3>2 DEF InArrivalOrder
  <2>5. ASSUME NEW F, Running(F, s), ~ filled PROVE Quantity(next) = F[k]
    <3>1. Quantity(next) = Quantity(some) + s[k].quantity
      BY <1>0, <1>c, <2>1, QuantityAppend
    <3> QED  BY <3>1, <1>2, <2>5
  <2>6. Len(next) <= k  BY <1>0, <2>2
  <2> QED  BY <2>3, <2>4, <2>5, <2>6 DEF Picked
<1>4. CASE ~ ((s[k].quantity = 0) = filled)
  <2>1. next = some  BY <1>4
  <2>2. ASSUME NEW i \in 1..Len(some)
        PROVE  \E j \in 1..k : some[i] = s[j] /\ (s[j].quantity = 0) = filled
    <3>1. PICK j \in 1..(k - 1) : some[i] = s[j] /\ (s[j].quantity = 0) = filled
      BY <1>1
    <3>2. j \in 1..k  BY <1>0
    <3> QED  BY <3>1, <3>2
  <2>3. ASSUME NEW F, Running(F, s), ~ filled PROVE Quantity(some) = F[k]
    <3>1. s[k].quantity = 0  BY <1>4, <2>3
    <3>2. F[k - 1] \in Nat
      <4>1. k - 1 \in 0..Len(s)  BY <1>0
      <4> QED  BY <4>1, <2>3 DEF Running
    <3> QED  BY <3>1, <3>2, <1>2, <2>3
  <2>4. Len(some) <= k /\ (InArrivalOrder(s) => InArrivalOrder(some))  BY <1>0 DEF Picked
  <2> QED  BY <2>1, <2>2, <2>3, <2>4 DEF Picked
<1> QED  BY <1>3, <1>4

\* What the survivors of a level, and the filled makers, are.
LEMMA MakersPicked ==
    ASSUME NEW X, NEW s \in Seq(X), Countable(s), Stamped(s), NEW filled \in BOOLEAN
    PROVE  Makers(filled, s) \in Seq(X) /\ Picked(Makers(filled, s), s, filled, Len(s))
<1> DEFINE n == Len(s)
<1>1. PICK run \in [0..n -> Seq(X)] :
         /\ run[0] = <<>>
         /\ run[n] = Makers(filled, s)
         /\ \A k \in 1..n :
               run[k] = IF (s[k].quantity = 0) = filled THEN Append(run[k - 1], s[k])
                        ELSE run[k - 1]
  BY MakersRuns
<1> DEFINE T == {k \in 0..n : Picked(run[k], s, filled, k)}
<1>2. n \in Nat  OBVIOUS
<1>3. 0 \in T
  <2>1. \A F : Running(F, s) => Quantity(<<>>) = F[0]  BY QuantityEmpty DEF Running
  <2>2. Len(<<>>) <= 0 /\ InArrivalOrder(<<>>) /\ 1..Len(<<>>) = {}  BY DEF InArrivalOrder
  <2>3. Picked(<<>>, s, filled, 0)  BY <2>1, <2>2 DEF Picked
  <2> QED  BY <1>1, <1>2, <2>3
<1>4. ASSUME NEW k \in T \cap (0..(n - 1)) PROVE k + 1 \in T
  <2>1. k + 1 \in 1..n /\ (k + 1) - 1 = k /\ k \in 0..n /\ k + 1 \in 0..n  BY <1>2
  <2>2. run[k] \in Seq(X) /\ Picked(run[k], s, filled, k)  BY <2>1
  <2>3. run[k + 1] = IF (s[k + 1].quantity = 0) = filled THEN Append(run[k], s[k + 1])
                     ELSE run[k]
    BY <1>1, <2>1
  <2>4. Picked(run[k + 1], s, filled, k + 1)
    <3>1. Picked(run[k], s, filled, (k + 1) - 1)  BY <2>1, <2>2
    <3> HIDE <1>1
    <3> QED  BY <2>1, <2>2, <2>3, <3>1, PickedNext
  <2> QED  BY <2>1, <2>4
<1>5. 0..n \subseteq T
  <2> HIDE DEF T
  <2> QED  BY <1>2, <1>3, <1>4, UpTo
<1>6. n \in 0..n  BY <1>2
<1> QED  BY <1>1, <1>5, <1>6

LEMMA SurvivorsQuantity ==
    ASSUME NEW X, NEW s \in Seq(X), Countable(s), Stamped(s)
    PROVE  Quantity(Makers(FALSE, s)) = Quantity(s)
<1>1. Picked(Makers(FALSE, s), s, FALSE, Len(s))  BY MakersPicked
<1>2. PICK F : Running(F, s) /\ Quantity(s) = F[Len(s)]  BY QuantityRuns
<1> QED  BY <1>1, <1>2 DEF Picked
-----------------------------------------------------------------------------
(* MatchMakers *)

TradeReport == [maker : OrderIds, quantity : Nat, price : Prices]
Remaining == 0..(QuantityModulus - 1)

\* What the fold over the makers of a level carries.
MakersState == [left : Remaining, trades : Seq(TradeReport), overflow : BOOLEAN,
                total : Remaining, orders : Seq(OrderNode)]

LEMMA MinOfTwo ==
    ASSUME NEW a \in Nat, NEW b \in Nat
    PROVE  Min({a, b}) \in Nat /\ Min({a, b}) = IF a <= b THEN a ELSE b
<1> DEFINE c == IF a <= b THEN a ELSE b
<1>1. c \in {a, b} /\ c \in Nat /\ \A y \in {a, b} : c <= y  OBVIOUS
<1>2. \A x \in {a, b} : (\A y \in {a, b} : x <= y) => x = c  BY <1>1
<1>3. Min({a, b}) = c
  <2> HIDE DEF c
  <2> QED  BY <1>1, <1>2 DEF Min
<1> QED  BY <1>1, <1>3

\* Maker gives q to the taker.
Gives(taker, price, m, maker, q, r) ==
    /\ r \in MakersState
    /\ q \in 0..maker.quantity /\ q <= m.left /\ r.left = m.left - q
    /\ r.total = (m.total - q) % QuantityModulus
    /\ Len(r.trades) <= MaxTradesPerOrder
    /\ \E node \in OrderNode :
          /\ node.order_id = maker.order_id /\ node.timestamp = maker.timestamp
          /\ node.quantity = maker.quantity - q
          /\ r.orders = Append(m.orders, node)
    /\ m.overflow => r.overflow
    /\ r.overflow \/ r.left = 0 \/ q = maker.quantity

LEMMA PassGives ==
    ASSUME NEW taker, NEW price, NEW m \in MakersState, NEW maker \in OrderNode,
           Len(m.trades) <= MaxTradesPerOrder, NEW r,
           \/ r = Pass(m, maker) /\ (m.left = 0 \/ maker.quantity = 0 \/ m.overflow)
           \/ r = [Pass(m, maker) EXCEPT !.overflow = TRUE]
    PROVE  Gives(taker, price, m, maker, 0, r)
<1>1. /\ r \in MakersState /\ r.left = m.left /\ r.total = m.total /\ r.trades = m.trades
      /\ r.orders = Append(m.orders, maker)
      /\ (r.overflow = m.overflow /\ (m.left = 0 \/ maker.quantity = 0 \/ m.overflow)) \/ r.overflow
  <2> DEFINE p == [m EXCEPT !.orders = Append(@, maker)]
  <2>1. Append(m.orders, maker) \in Seq(OrderNode)  BY DEF MakersState
  <2>2. /\ p \in MakersState /\ p.left = m.left /\ p.total = m.total /\ p.trades = m.trades
        /\ p.orders = Append(m.orders, maker) /\ p.overflow = m.overflow
    BY <2>1 DEF MakersState
  <2>3. Pass(m, maker) = p  BY DEF Pass
  <2> HIDE DEF p
  <2>4. CASE r = p /\ (m.left = 0 \/ maker.quantity = 0 \/ m.overflow)  BY <2>2, <2>4
  <2>5. CASE r = [p EXCEPT !.overflow = TRUE]  BY <2>2, <2>5 DEF MakersState
  <2> QED  BY <2>3, <2>4, <2>5
<1>2. m.total % QuantityModulus = m.total
  BY QuantitiesAssumption, RemainderSmall DEF MakersState, Remaining
<1>3. m.total - 0 = m.total /\ m.left - 0 = m.left /\ maker.quantity - 0 = maker.quantity
      /\ 0 \in 0..maker.quantity /\ 0 <= m.left
  BY QuantitiesAssumption DEF MakersState, Remaining, OrderNode
<1>4. \E node \in OrderNode :
          /\ node.order_id = maker.order_id /\ node.timestamp = maker.timestamp
          /\ node.quantity = maker.quantity - 0
          /\ r.orders = Append(m.orders, node)
  <2>1. /\ maker.order_id = maker.order_id /\ maker.timestamp = maker.timestamp
        /\ maker.quantity = maker.quantity - 0
        /\ r.orders = Append(m.orders, maker)
    BY <1>1, <1>3
  <2> QED  BY <2>1
<1>5. r.overflow \/ r.left = 0 \/ 0 = maker.quantity  BY <1>1
<1>6. m.overflow => r.overflow  BY <1>1
<1> QED  BY <1>1, <1>2, <1>3, <1>4, <1>5, <1>6 DEF Gives

LEMMA TradeGives ==
    ASSUME NEW taker, NEW price \in Prices, NEW m \in MakersState, NEW maker \in OrderNode,
           Len(m.trades) < MaxTradesPerOrder
    PROVE  \E q : Gives(taker, price, m, maker, q, Trade(price, m, maker))
<1> DEFINE q == Min({m.left, maker.quantity})
           node == [maker EXCEPT !.quantity = @ - q]
           trade == [maker |-> maker.order_id, quantity |-> q, price |-> price]
           r == Trade(price, m, maker)
<1>0. QuantityModulus \in Nat /\ QuantityModulus > 0  BY QuantitiesAssumption
<1>1. /\ m.left \in Remaining /\ m.left \in Nat /\ maker.quantity \in Nat /\ m.total \in Int
      /\ maker.quantity < QuantityModulus
  BY QuantitiesAssumption DEF MakersState, Remaining, OrderNode
<1>2. q \in Nat /\ q = IF m.left <= maker.quantity THEN m.left ELSE maker.quantity
  BY <1>1, MinOfTwo
<1> HIDE DEF q
<1>3. /\ node \in OrderNode /\ node.order_id = maker.order_id
      /\ node.timestamp = maker.timestamp /\ node.quantity = maker.quantity - q
  <2>1. maker.quantity - q \in 0..(QuantityModulus - 1)  BY <1>0, <1>1, <1>2
  <2> QED  BY <2>1 DEF OrderNode
<1>4. trade \in TradeReport
  BY <1>2 DEF TradeReport, OrderNode
<1>5. (m.total - q) % QuantityModulus \in Remaining
  <2>1. m.total - q \in Int  BY <1>1, <1>2
  <2> QED  BY <2>1, QuantitiesAssumption, Remainder DEF Remaining
<1>6. m.left - q \in Remaining /\ q \in 0..maker.quantity /\ q <= m.left
  BY <1>0, <1>1, <1>2 DEF Remaining
<1>7. /\ Append(m.orders, node) \in Seq(OrderNode)
      /\ Append(m.trades, trade) \in Seq(TradeReport)
      /\ Len(Append(m.trades, trade)) <= MaxTradesPerOrder
  BY <1>3, <1>4, LimitsAssumption DEF MakersState
<1>8. /\ r = [[m EXCEPT !.orders = Append(@, node)] EXCEPT
                !.left = @ - q, !.total = (@ - q) % QuantityModulus,
                !.trades = Append(@, trade)]
  BY DEF Trade, Pass, q
<1> HIDE DEF node, trade, r
<1>9. /\ r \in MakersState /\ r.left = m.left - q /\ r.overflow = m.overflow
      /\ r.total = (m.total - q) % QuantityModulus
      /\ r.orders = Append(m.orders, node) /\ r.trades = Append(m.trades, trade)
  BY <1>5, <1>6, <1>7, <1>8 DEF MakersState
<1>10. r.left = 0 \/ q = maker.quantity  BY <1>1, <1>2, <1>9
<1>11. \E x \in OrderNode :
          /\ x.order_id = maker.order_id /\ x.timestamp = maker.timestamp
          /\ x.quantity = maker.quantity - q
          /\ r.orders = Append(m.orders, x)
  BY <1>3, <1>9
<1>12. Gives(taker, price, m, maker, q, r)
  BY <1>6, <1>7, <1>9, <1>10, <1>11 DEF Gives
<1> QED  BY <1>12 DEF r

LEMMA MatchMakerGives ==
    ASSUME NEW taker, NEW price \in Prices, NEW m \in MakersState, NEW maker \in OrderNode,
           Len(m.trades) <= MaxTradesPerOrder
    PROVE  \E q : Gives(taker, price, m, maker, q, MatchMaker(taker, price, m, maker))
<1>1. CASE m.left = 0 \/ maker.quantity = 0 \/ m.overflow
  <2>1. MatchMaker(taker, price, m, maker) = Pass(m, maker)  BY <1>1 DEF MatchMaker
  <2> QED  BY <1>1, <2>1, PassGives
<1>2. CASE ~ (m.left = 0 \/ maker.quantity = 0 \/ m.overflow)
  <2>1. CASE Len(m.trades) = MaxTradesPerOrder
    <3>1. MatchMaker(taker, price, m, maker) = [Pass(m, maker) EXCEPT !.overflow = TRUE]
      BY <1>2, <2>1 DEF MatchMaker
    <3> QED  BY <3>1, PassGives
  <2>2. CASE Len(m.trades) # MaxTradesPerOrder
    <3>1. MatchMaker(taker, price, m, maker) = Trade(price, m, maker)
      BY <1>2, <2>2 DEF MatchMaker
    <3>2. Len(m.trades) < MaxTradesPerOrder  BY <2>2, LimitsAssumption DEF MakersState
    <3> QED  BY <3>1, <3>2, TradeGives
  <2> QED  BY <2>1, <2>2
<1> QED  BY <1>1, <1>2

\* The fold over the makers of a level, from the state m of the fold over the levels.
Within == {a \in MakersState : Len(a.trades) <= MaxTradesPerOrder}
Start(m, level) == [left |-> m.left, trades |-> m.trades, overflow |-> FALSE,
                    total |-> level.total_quantity, orders |-> <<>>]

LEMMA MatchMakersRuns ==
    ASSUME NEW taker, NEW m, NEW level \in PriceLevel, Start(m, level) \in Within
    PROVE  \E run \in [0..Len(level.orders) -> Within] :
              /\ run[0] = Start(m, level)
              /\ run[Len(level.orders)] = MatchMakers(taker, m, level)
              /\ \A k \in 1..Len(level.orders) :
                    run[k] = MatchMaker(taker, level.price, run[k - 1], level.orders[k])
<1> DEFINE s == level.orders
           n == Len(s)
           base == Start(m, level)
           next(a, k) == MatchMaker(taker, level.price, a, s[k])
           step == [k \in 1..n |-> [a \in Within |-> next(a, k)]]
           G(iter) == [t \in SUBSET (DOMAIN s) |->
                          IF t = {} THEN base ELSE next(iter[t \ {Max(t)}], Max(t))]
<1>1. /\ s \in Seq(OrderNode) /\ n \in Nat /\ DOMAIN s = 1..n /\ base \in Within
      /\ level.price \in Prices
  BY DEF PriceLevel
<1>2. MatchMakers(taker, m, level) = (CHOOSE iter : iter = G(iter))[DOMAIN s]
  BY DEF MatchMakers, Start, FoldLeft, MapThenFoldSet
<1>3. ASSUME NEW k \in 1..n, NEW a \in Within
      PROVE  next(a, k) \in Within /\ step[k][a] = next(a, k)
  <2>1. s[k] \in OrderNode  BY <1>1
  <2>2. a \in MakersState /\ Len(a.trades) <= MaxTradesPerOrder  BY DEF Within
  <2>3. next(a, k) \in Within
    <3>1. PICK q : Gives(taker, level.price, a, s[k], q, next(a, k))
      BY <1>1, <2>1, <2>2, MatchMakerGives
    <3> QED  BY <3>1 DEF Gives, Within
  <2> HIDE DEF next
  <2> QED  BY <2>3
<1>4. step \in [1..n -> [Within -> Within]]
  <2> HIDE DEF next
  <2> QED  BY <1>3
<1> HIDE DEF step, next, base
<1>5. \E iter : iter = G(iter)
  <2>1. PICK iter \in [SUBSET (1..n) -> Within] : iter = FoldEquation(n, base, step, iter)
    <3>1. PICK iter : Folds(n, Within, base, step, iter)  BY <1>1, <1>4, FoldExists
    <3> QED  BY <3>1 DEF Folds
  <2> DEFINE E == FoldEquation(n, base, step, iter)
  <2>2. ASSUME NEW t \in SUBSET (1..n) PROVE E[t] = G(iter)[t]
    <3>1. CASE t = {}  BY <1>1, <3>1 DEF FoldEquation
    <3>2. CASE t # {}
      <4>1. Max(t) \in 1..n  BY <3>2, <1>1, GreatestNumber
      <4>2. iter[t \ {Max(t)}] \in Within  OBVIOUS
      <4>3. E[t] = step[Max(t)][iter[t \ {Max(t)}]]  BY <3>2 DEF FoldEquation
      <4>4. step[Max(t)][iter[t \ {Max(t)}]] = next(iter[t \ {Max(t)}], Max(t))
        BY <4>1, <4>2, <1>3
      <4> QED  BY <4>3, <4>4, <3>2, <1>1
    <3> QED  BY <3>1, <3>2
  <2>3. E = G(iter)
    <3>1. E = [t \in SUBSET (1..n) |-> E[t]]  BY DEF FoldEquation
    <3>2. G(iter) = [t \in SUBSET (1..n) |-> G(iter)[t]]  BY <1>1
    <3> HIDE DEF E, G
    <3> QED  BY <2>2, <3>1, <3>2
  <2> QED  BY <2>1, <2>3
<1> DEFINE J == CHOOSE iter : iter = G(iter)
<1>6. J = G(J)  BY <1>5
<1>7. Unfolds(n, Within, base, step, J)
  <2>1. G(J)[{}] = base  OBVIOUS
  <2>2. ASSUME NEW t \in SUBSET (1..n), t # {}, J[t \ {Max(t)}] \in Within
        PROVE  G(J)[t] = step[Max(t)][J[t \ {Max(t)}]]
    <3>1. Max(t) \in 1..n  BY <2>2, <1>1, GreatestNumber
    <3>2. G(J)[t] = next(J[t \ {Max(t)}], Max(t))  BY <1>1, <2>2
    <3> HIDE DEF J
    <3> QED  BY <2>2, <3>1, <3>2, <1>3
  <2> HIDE DEF J, G
  <2> QED  BY <2>1, <2>2, <1>6 DEF Unfolds
<1>8. PICK run : Runs(n, Within, base, step, J[1..n], run)
  <2> HIDE DEF J, n
  <2> QED  BY <1>1, <1>4, <1>7, FoldRuns
<1>9. ASSUME NEW k \in 1..n PROVE run[k] = next(run[k - 1], k)
  <2>1. k - 1 \in 0..n  BY <1>1
  <2>2. run[k - 1] \in Within  BY <2>1, <1>8 DEF Runs
  <2> QED  BY <2>2, <1>3, <1>8 DEF Runs
<1>10. run \in [0..n -> Within] /\ run[0] = base /\ run[n] = MatchMakers(taker, m, level)
  BY <1>1, <1>2, <1>8 DEF Runs, J
<1> QED  BY <1>9, <1>10 DEF next, base

\* What the first k makers have given.
Given(m, level, k, a) ==
    /\ Len(a.orders) = k
    /\ \A i \in 1..k : /\ a.orders[i].order_id = level.orders[i].order_id
                       /\ a.orders[i].timestamp = level.orders[i].timestamp
    /\ \A F : Running(F, level.orders) =>
          a.total = (Quantity(level.orders) - F[k] + Quantity(a.orders)) % QuantityModulus
    /\ a.left <= m.left
    /\ a.overflow \/ a.left = 0 \/ \A i \in 1..k : a.orders[i].quantity = 0

LEMMA NodesCountable ==
    ASSUME NEW s \in Seq(OrderNode) PROVE Countable(s) /\ Stamped(s)
<1>1. \A x \in OrderNode : x.quantity \in Nat /\ x.timestamp \in Nat
  BY QuantitiesAssumption DEF OrderNode
<1>2. \A i \in 1..Len(s) : s[i] \in OrderNode  OBVIOUS
<1> QED  BY <1>1, <1>2 DEF Countable, Stamped

LEMMA MovedSum ==
    ASSUME NEW s \in Int, NEW f \in Int, NEW g \in Int, NEW a \in Int, NEW x \in Int,
           NEW q \in Int, g = f + x
    PROVE  (s - f + a) + (- q) = s - g + (a + (x - q))
OBVIOUS

LEMMA GivenNext ==
    ASSUME NEW taker, NEW m, m.left \in Nat, NEW level \in PriceLevel,
           NEW k \in 1..Len(level.orders), NEW a \in Within, Given(m, level, k - 1, a),
           NEW q, NEW r, Gives(taker, level.price, a, level.orders[k], q, r)
    PROVE  Given(m, level, k, r)
<1> DEFINE s == level.orders
           maker == s[k]
<1>1. /\ k \in Nat /\ k - 1 \in Nat /\ s \in Seq(OrderNode) /\ maker \in OrderNode
      /\ a.orders \in Seq(OrderNode) /\ Len(a.orders) = k - 1 /\ k \in 1..Len(s)
  BY DEF PriceLevel, Within, MakersState, Given
<1>2. PICK node \in OrderNode :
         /\ node.order_id = maker.order_id /\ node.timestamp = maker.timestamp
         /\ node.quantity = maker.quantity - q
         /\ r.orders = Append(a.orders, node)
  BY DEF Gives
<1>3. /\ Len(r.orders) = k /\ r.orders[k] = node
      /\ \A i \in 1..(k - 1) : r.orders[i] = a.orders[i]
  <2>1. /\ Len(r.orders) = Len(a.orders) + 1 /\ r.orders[Len(a.orders) + 1] = node
        /\ \A i \in 1..Len(a.orders) : r.orders[i] = a.orders[i]
    BY <1>1, <1>2, AppendProperties
  <2>2. Len(a.orders) + 1 = k  BY <1>1
  <2> QED  BY <1>1, <2>1, <2>2
<1>4. maker.quantity \in Nat /\ QuantityModulus \in Nat \ {0}
  BY <1>1, QuantitiesAssumption DEF OrderNode
<1>g. /\ q \in 0..maker.quantity /\ q <= a.left /\ r.left = a.left - q
      /\ r.total = (a.total - q) % QuantityModulus
      /\ a.overflow => r.overflow
      /\ r.overflow \/ r.left = 0 \/ q = maker.quantity
  BY DEF Gives
<1>l. a.left \in Nat /\ a.total \in Int
  BY QuantitiesAssumption DEF Within, MakersState, Remaining
<1>q. q \in Nat /\ q <= maker.quantity  BY <1>4, <1>g
<1> HIDE DEF maker, s
<1>5. ASSUME NEW i \in 1..k
      PROVE  /\ r.orders[i].order_id = s[i].order_id
             /\ r.orders[i].timestamp = s[i].timestamp
  <2>1. CASE i = k  BY <1>2, <1>3, <2>1 DEF maker
  <2>2. CASE i \in 1..(k - 1)  BY <1>3, <2>2 DEF Given, s
  <2> QED  BY <1>1, <2>1, <2>2
<1>6. ASSUME NEW F, Running(F, s)
      PROVE  r.total = (Quantity(s) - F[k] + Quantity(r.orders)) % QuantityModulus
  <2> DEFINE b == Quantity(s) - F[k - 1] + Quantity(a.orders)
  <2>1. a.total = b % QuantityModulus  BY <1>6 DEF Given, s
  <2>2. /\ F[k] = F[k - 1] + maker.quantity /\ F[k - 1] \in Nat /\ F[k] \in Nat
    <3>1. k - 1 \in 0..Len(s) /\ k \in 0..Len(s)  BY <1>1
    <3> QED  BY <1>1, <1>6, <3>1 DEF Running, maker
  <2>3. Quantity(r.orders) = Quantity(a.orders) + (maker.quantity - q)
    <3>1. node.quantity \in Nat  BY <1>2, <1>4, <1>q
    <3> QED  BY <1>1, <1>2, <3>1, NodesCountable, QuantityAppend
  <2>4. Quantity(a.orders) \in Nat /\ Quantity(s) \in Nat
    BY <1>1, NodesCountable, QuantityType
  <2>5. b \in Int /\ - q \in Int  BY <1>q, <2>2, <2>4
  <2> HIDE DEF b
  <2>6. ((b % QuantityModulus) + (- q)) % QuantityModulus = (b + (- q)) % QuantityModulus
    BY <1>4, <2>5, RemainderAdd
  <2>7. a.total - q = (b % QuantityModulus) + (- q)
    <3>1. a.total - q = a.total + (- q)  BY <1>l, <1>q
    <3> QED  BY <3>1, <2>1
  <2>8. b + (- q) = Quantity(s) - F[k] + Quantity(r.orders)
    <3> DEFINE all == Quantity(s)
               f == F[k - 1]
               g == F[k]
               given == Quantity(a.orders)
               x == maker.quantity
    <3>1. /\ all \in Int /\ f \in Int /\ g \in Int /\ given \in Int /\ x \in Int /\ q \in Int
          /\ g = f + x
      BY <1>4, <1>q, <2>2, <2>4
    <3>2. b = all - f + given  BY DEF b
    <3> HIDE DEF all, f, g, given, x
    <3>3. b + (- q) = all - g + (given + (x - q))  BY <3>1, <3>2, MovedSum
    <3> QED  BY <3>3, <2>3 DEF all, g, given, x
  <2>9. r.total = (a.total - q) % QuantityModulus  BY <1>g
  <2> QED  BY <2>6, <2>7, <2>8, <2>9
<1>7. r.left <= m.left
  <2>1. a.left <= m.left  BY DEF Given
  <2> QED  BY <1>l, <1>q, <1>g, <2>1
<1>8. r.overflow \/ r.left = 0 \/ \A i \in 1..k : r.orders[i].quantity = 0
  <2>1. SUFFICES ASSUME ~ r.overflow, r.left # 0, NEW i \in 1..k
                 PROVE  r.orders[i].quantity = 0
    OBVIOUS
  <2>2. ~ a.overflow /\ q = maker.quantity  BY <1>g, <2>1
  <2>a. a.left # 0  BY <1>g, <1>l, <1>q, <2>1
  <2>3. CASE i = k  BY <1>2, <1>3, <1>4, <2>2, <2>3
  <2>4. CASE i \in 1..(k - 1)  BY <1>3, <2>2, <2>a, <2>4 DEF Given
  <2> QED  BY <1>1, <2>3, <2>4
<1> QED  BY <1>3, <1>5, <1>6, <1>7, <1>8 DEF Given, s

LEMMA MakersGiven ==
    ASSUME NEW taker, NEW m, m.left \in Nat, NEW level \in PriceLevel, Exact(level),
           Start(m, level) \in Within
    PROVE  /\ MatchMakers(taker, m, level) \in Within
           /\ Given(m, level, Len(level.orders), MatchMakers(taker, m, level))
<1> DEFINE s == level.orders
           n == Len(s)
<1>1. PICK run \in [0..n -> Within] :
         /\ run[0] = Start(m, level)
         /\ run[n] = MatchMakers(taker, m, level)
         /\ \A k \in 1..n : run[k] = MatchMaker(taker, level.price, run[k - 1], s[k])
  BY MatchMakersRuns
<1>2. n \in Nat /\ s \in Seq(OrderNode) /\ level.price \in Prices  BY DEF PriceLevel
<1> DEFINE T == {k \in 0..n : Given(m, level, k, run[k])}
<1>3. 0 \in T
  <2>1. ASSUME NEW F, Running(F, s)
        PROVE  level.total_quantity = (Quantity(s) - F[0] + Quantity(<<>>)) % QuantityModulus
    <3>1. Quantity(s) \in Nat  BY <1>2, NodesCountable, QuantityType
    <3>2. Quantity(s) - F[0] + Quantity(<<>>) = Quantity(s)
      BY <2>1, <3>1, QuantityEmpty DEF Running
    <3> QED  BY <3>2 DEF Exact
  <2>2. Given(m, level, 0, Start(m, level))  BY <2>1 DEF Given, Start
  <2> QED  BY <1>1, <1>2, <2>2
<1>4. ASSUME NEW k \in T \cap (0..(n - 1)) PROVE k + 1 \in T
  <2>1. /\ k + 1 \in 1..n /\ (k + 1) - 1 = k /\ k \in 0..n /\ k + 1 \in 0..n
        /\ run[k] \in Within /\ s[k + 1] \in OrderNode
    BY <1>2
  <2>2. run[k] \in MakersState /\ Len(run[k].trades) <= MaxTradesPerOrder
    BY <2>1 DEF Within
  <2>3. run[k + 1] = MatchMaker(taker, level.price, run[k], s[k + 1])  BY <1>1, <2>1
  <2>4. PICK q : Gives(taker, level.price, run[k], s[k + 1], q, run[k + 1])
    BY <1>2, <2>1, <2>2, <2>3, MatchMakerGives
  <2>5. Given(m, level, (k + 1) - 1, run[k])  BY <2>1
  <2>6. Given(m, level, k + 1, run[k + 1])
    <3> HIDE <1>1
    <3> QED  BY <2>1, <2>4, <2>5, GivenNext
  <2> QED  BY <2>1, <2>6
<1>5. 0..n \subseteq T
  <2> HIDE DEF T
  <2> QED  BY <1>2, <1>3, <1>4, UpTo
<1>6. n \in 0..n  BY <1>2
<1> QED  BY <1>1, <1>5, <1>6
-----------------------------------------------------------------------------
(* MatchLevel *)

\* A level as the book has it between two operations.
Good(level) ==
    level \in PriceLevel /\ level.orders # <<>> /\ Exact(level) /\ InArrivalOrder(level.orders)

LEMMA MadeLevel ==
    ASSUME NEW level \in PriceLevel, Good(level), NEW m, m.left \in Nat, NEW taker,
           Start(m, level) \in Within, NEW done, done = MatchMakers(taker, m, level)
    PROVE  /\ done \in Within /\ done.orders \in Seq(OrderNode) /\ done.left <= m.left
           /\ Len(done.orders) = Len(level.orders)
           /\ \A i \in 1..Len(done.orders) :
                 done.orders[i].timestamp = level.orders[i].timestamp
           /\ InArrivalOrder(done.orders)
           /\ done.total = Quantity(done.orders) % QuantityModulus
           /\ \/ done.overflow \/ done.left = 0
              \/ \A i \in 1..Len(done.orders) : done.orders[i].quantity = 0
<1> DEFINE n == Len(level.orders)
<1>1. done \in Within /\ Given(m, level, n, done)  BY MakersGiven DEF Good
<1>2. level.orders \in Seq(OrderNode) /\ done.orders \in Seq(OrderNode) /\ n \in Nat
  BY <1>1 DEF PriceLevel, Within, MakersState
<1>3. Len(done.orders) = n /\ DOMAIN done.orders = 1..n /\ DOMAIN level.orders = 1..n
  BY <1>1, <1>2 DEF Given
<1>4. \A i \in 1..n : done.orders[i].timestamp = level.orders[i].timestamp
  BY <1>1 DEF Given
<1>5. InArrivalOrder(done.orders)
  BY <1>3, <1>4 DEF Good, InArrivalOrder
<1>6. done.total = Quantity(done.orders) % QuantityModulus
  <2>1. PICK F : Running(F, level.orders) /\ Quantity(level.orders) = F[n]
    BY <1>2, NodesCountable, QuantityRuns
  <2>2. done.total = (Quantity(level.orders) - F[n] + Quantity(done.orders)) % QuantityModulus
    BY <1>1, <2>1 DEF Given
  <2>3. Quantity(level.orders) \in Nat /\ Quantity(done.orders) \in Nat
    BY <1>2, NodesCountable, QuantityType
  <2>4. Quantity(level.orders) - F[n] + Quantity(done.orders) = Quantity(done.orders)
    BY <2>1, <2>3
  <2> QED  BY <2>2, <2>4
<1>7. /\ done.left <= m.left
      /\ done.overflow \/ done.left = 0 \/ \A i \in 1..n : done.orders[i].quantity = 0
  BY <1>1 DEF Given
<1> QED  BY <1>1, <1>2, <1>3, <1>4, <1>5, <1>6, <1>7

\* The orders that survive the cleanup of a level.
Survive(kept, s) ==
    /\ kept \in Seq(OrderNode) /\ InArrivalOrder(kept) /\ Len(kept) <= Len(s)
    /\ Quantity(kept) = Quantity(s)
    /\ \A i \in 1..Len(kept) : \E j \in 1..Len(s) : kept[i] = s[j] /\ s[j].quantity # 0

LEMMA Survivors ==
    ASSUME NEW s \in Seq(OrderNode), InArrivalOrder(s) PROVE Survive(Makers(FALSE, s), s)
<1> DEFINE kept == Makers(FALSE, s)
<1>1. Countable(s) /\ Stamped(s)  BY NodesCountable
<1>2. kept \in Seq(OrderNode) /\ Picked(kept, s, FALSE, Len(s))  BY <1>1, MakersPicked
<1>3. Quantity(kept) = Quantity(s)  BY <1>1, SurvivorsQuantity
<1>4. /\ Len(kept) <= Len(s) /\ InArrivalOrder(kept)
      /\ \A i \in 1..Len(kept) :
            \E j \in 1..Len(s) : kept[i] = s[j] /\ (s[j].quantity = 0) = FALSE
  BY <1>2 DEF Picked
<1> QED  BY <1>2, <1>3, <1>4 DEF Survive

\* The nodes that the cleanup retires were filled.
AllFilled(gone, s) ==
    /\ gone \in Seq(Nat)
    /\ \A t \in ToSet(gone) : \E j \in 1..Len(s) : t = s[j].timestamp /\ s[j].quantity = 0

LEMMA CleanedUp ==
    ASSUME NEW s \in Seq(OrderNode), InArrivalOrder(s) PROVE AllFilled(RetiredByCleanup(s), s)
<1> DEFINE gone == RetiredByCleanup(s)
           kept == Len(Makers(FALSE, s))
           behind == SubSeq(s, kept + 1, Len(s))
           tail == Makers(TRUE, behind)
<1>1. kept \in Nat /\ kept <= Len(s) /\ Len(s) \in Nat
  <2>1. Survive(Makers(FALSE, s), s)  BY Survivors
  <2>2. Makers(FALSE, s) \in Seq(OrderNode) /\ kept <= Len(s)  BY <2>1 DEF Survive
  <2>3. kept \in Nat  BY <2>2, LenProperties
  <2>4. Len(s) \in Nat  BY LenProperties
  <2> HIDE DEF kept
  <2> QED  BY <2>2, <2>3, <2>4
<1> HIDE DEF kept
<1>2. /\ behind \in Seq(OrderNode)
      /\ \A i \in 1..Len(behind) : kept + i \in 1..Len(s) /\ behind[i] = s[kept + i]
  <2>1. \A i \in (kept + 1)..Len(s) : s[i] \in OrderNode  BY <1>1
  <2>2. /\ behind \in Seq(OrderNode) /\ Len(behind) = Len(s) - kept
        /\ \A i \in 1..(Len(s) - kept) : behind[i] = s[kept + i]
    BY <1>1, <2>1
  <2> QED  BY <1>1, <2>2
<1> HIDE DEF behind
<1>3. tail \in Seq(OrderNode) /\ Picked(tail, behind, TRUE, Len(behind))
  BY <1>2, NodesCountable, MakersPicked
<1>4. \A i \in 1..Len(tail) :
         \E j \in 1..Len(behind) : tail[i] = behind[j] /\ (behind[j].quantity = 0) = TRUE
  BY <1>3 DEF Picked
<1>5. gone = [i \in DOMAIN tail |-> tail[i].timestamp]
  BY DEF gone, RetiredByCleanup, kept, behind
<1> HIDE DEF tail, gone
<1>6. \A i \in 1..Len(tail) : tail[i].timestamp \in Nat
  <2>1. \A i \in 1..Len(tail) : tail[i] \in OrderNode  BY <1>3
  <2> QED  BY <2>1 DEF OrderNode
<1>7. gone \in Seq(Nat) /\ DOMAIN gone = 1..Len(tail)  BY <1>3, <1>5, <1>6
<1>8. ASSUME NEW t \in ToSet(gone)
      PROVE  \E j \in 1..Len(s) : t = s[j].timestamp /\ s[j].quantity = 0
  <2>1. PICK i \in 1..Len(tail) : t = tail[i].timestamp  BY <1>5, <1>7 DEF ToSet
  <2>2. PICK j \in 1..Len(behind) : tail[i] = behind[j] /\ behind[j].quantity = 0  BY <1>4
  <2>3. kept + j \in 1..Len(s) /\ behind[j] = s[kept + j]  BY <1>2
  <2> QED  BY <2>1, <2>2, <2>3
<1> QED  BY <1>7, <1>8 DEF AllFilled, gone
\* What the fold over the levels carries.
LevelsState == [left : Remaining, levels : Seq(PriceLevel), trades : Seq(TradeReport),
                overflow : BOOLEAN, retired : Seq(Nat)]

\* What a sweep leaves of a level.
Remains(kept, level) ==
    Good(kept) /\ kept.price = level.price /\ Stamps(kept) \subseteq Stamps(level)

\* The sweep went from m to r at a level: the level is gone, or what remains of it stands
\* behind the levels before it; a taker that goes on has left nothing that crosses.
Swept(taker, m, level, r) ==
    /\ r \in LevelsState /\ Len(r.trades) <= MaxTradesPerOrder /\ r.left <= m.left
    /\ m.overflow => r.overflow
    /\ \E gone \in Seq(Nat) :
          /\ r.retired = m.retired \o gone
          /\ ToSet(gone) \subseteq Stamps(level)
          /\ \/ r.levels = m.levels
             \/ \E kept \in PriceLevel :
                   /\ Remains(kept, level)
                   /\ r.levels = Append(m.levels, kept)
                   /\ ToSet(gone) \cap Stamps(kept) = {}
                   /\ \/ r.overflow \/ r.left = 0
                      \/ Better(Opposite(taker.side), taker.price, level.price)

\* The level behind the makers' fold, and the nodes its cleanup retires.
KeptLevel(level, done, orders) ==
    [price |-> level.price, total_quantity |-> done.total, orders |-> orders]
Gone(done) == IF done.overflow THEN <<>> ELSE RetiredByCleanup(done.orders)

\* The cleanup leaves a level whose nodes are apart from those it retires.
Parted(level, kept, gone) ==
    /\ gone \in Seq(Nat) /\ ToSet(gone) \subseteq Stamps(level)
    /\ kept \in PriceLevel
    /\ kept.orders # <<>> => Remains(kept, level)
    /\ ToSet(gone) \cap Stamps(kept) = {}

LEMMA CleanedLevel ==
    ASSUME NEW level \in PriceLevel, Good(level), NEW done,
           done.orders \in Seq(OrderNode), Len(done.orders) = Len(level.orders),
           InArrivalOrder(done.orders),
           \A i \in 1..Len(done.orders) :
              done.orders[i].timestamp = level.orders[i].timestamp,
           done.total \in Remaining, done.total = Quantity(done.orders) % QuantityModulus
    PROVE  Parted(level, KeptLevel(level, done, Makers(FALSE, done.orders)),
                  RetiredByCleanup(done.orders))
<1> DEFINE s == done.orders
           orders == Makers(FALSE, s)
           kept == KeptLevel(level, done, orders)
           gone == RetiredByCleanup(s)
<1>1. /\ orders \in Seq(OrderNode) /\ InArrivalOrder(orders)
      /\ Quantity(orders) = Quantity(s)
      /\ \A i \in 1..Len(orders) : \E j \in 1..Len(s) : orders[i] = s[j] /\ s[j].quantity # 0
  <2>1. Survive(orders, s)  BY Survivors
  <2> QED  BY <2>1 DEF Survive
<1>2. /\ gone \in Seq(Nat)
      /\ \A t \in ToSet(gone) : \E j \in 1..Len(s) : t = s[j].timestamp /\ s[j].quantity = 0
  <2>1. AllFilled(gone, s)  BY CleanedUp
  <2> QED  BY <2>1 DEF AllFilled
<1>3. /\ kept \in PriceLevel /\ kept.price = level.price /\ kept.orders = orders
      /\ kept.total_quantity = done.total
  BY <1>1 DEF KeptLevel, PriceLevel, Remaining
<1>s. s \in Seq(OrderNode)  OBVIOUS
<1>o. /\ InArrivalOrder(s) /\ done.total = Quantity(s) % QuantityModulus
      /\ \A i \in 1..Len(s) : s[i].timestamp = level.orders[i].timestamp
      /\ Len(s) = Len(level.orders)
  OBVIOUS
<1> HIDE DEF s, orders, kept, gone
<1>4. DOMAIN s = 1..Len(s) /\ DOMAIN level.orders = 1..Len(s) /\ DOMAIN orders = 1..Len(orders)
  <2>1. level.orders \in Seq(OrderNode)  BY DEF PriceLevel
  <2>2. DOMAIN level.orders = 1..Len(level.orders)  BY <2>1, LenProperties
  <2>3. DOMAIN s = 1..Len(s)  BY <1>s, LenProperties
  <2>4. DOMAIN orders = 1..Len(orders)  BY <1>1, LenProperties
  <2> QED  BY <1>o, <2>2, <2>3, <2>4
<1>5. \A j \in 1..Len(s) : s[j].timestamp \in Stamps(level)  BY <1>4, <1>o DEF Stamps
<1>6. ToSet(gone) \subseteq Stamps(level)  BY <1>2, <1>5
<1>7. ASSUME NEW t \in Stamps(kept)
      PROVE  \E j \in 1..Len(s) : t = s[j].timestamp /\ s[j].quantity # 0
  <2>1. PICK i \in 1..Len(orders) : t = orders[i].timestamp  BY <1>3, <1>4 DEF Stamps
  <2>2. PICK j \in 1..Len(s) : orders[i] = s[j] /\ s[j].quantity # 0  BY <1>1
  <2> QED  BY <2>1, <2>2
<1>8. Stamps(kept) \subseteq Stamps(level)  BY <1>5, <1>7
<1>9. ToSet(gone) \cap Stamps(kept) = {}
  <2>1. SUFFICES ASSUME NEW t \in ToSet(gone), t \in Stamps(kept) PROVE FALSE  OBVIOUS
  <2>2. PICK j \in 1..Len(s) : t = s[j].timestamp /\ s[j].quantity = 0  BY <1>2
  <2>3. PICK k \in 1..Len(s) : t = s[k].timestamp /\ s[k].quantity # 0  BY <1>7, <2>1
  <2>4. s[j] \in OrderNode /\ s[k] \in OrderNode  BY <1>s, LenProperties
  <2>5. t \in Nat  BY <2>2, <2>4 DEF OrderNode
  <2>6. j < k \/ k < j  BY <2>2, <2>3
  <2>7. t < t  BY <1>4, <1>o, <2>2, <2>3, <2>6, ZenonT(40) DEF InArrivalOrder
  <2> QED  BY <2>5, <2>7
<1>10. Exact(kept)  BY <1>1, <1>3, <1>o DEF Exact
<1>11. kept.orders # <<>> => Remains(kept, level)
  BY <1>1, <1>3, <1>8, <1>10 DEF Remains, Good
<1>12. Parted(level, kept, gone)  BY <1>2, <1>3, <1>6, <1>9, <1>11 DEF Parted
<1> QED  BY <1>12 DEF s, orders, kept, gone
\* The fields of the state behind a sweep that cleaned up.
Cleaned(m, level, done, orders, r) ==
    /\ r \in LevelsState /\ KeptLevel(level, done, orders) \in PriceLevel
    /\ r.left = done.left /\ r.trades = done.trades /\ r.overflow = done.overflow
    /\ r.levels = Append(m.levels, KeptLevel(level, done, orders))
    /\ r.retired = m.retired \o Gone(done)

LEMMA CleanUpState ==
    ASSUME NEW m \in LevelsState, NEW level \in PriceLevel, NEW done \in Within,
           NEW orders \in Seq(OrderNode), Gone(done) \in Seq(Nat)
    PROVE  Cleaned(m, level, done, orders, CleanUp(m, level, done, orders))
<1> DEFINE kept == KeptLevel(level, done, orders)
           r == CleanUp(m, level, done, orders)
<1>1. kept \in PriceLevel
  BY DEF KeptLevel, PriceLevel, Remaining, Within, MakersState
<1>2. m.levels \in Seq(PriceLevel) /\ m.retired \in Seq(Nat)  BY DEF LevelsState
<1>3. Append(m.levels, kept) \in Seq(PriceLevel)  BY <1>1, <1>2, AppendProperties
<1>4. m.retired \o Gone(done) \in Seq(Nat)  BY <1>2, ConcatProperties
<1>5. done.overflow \in BOOLEAN /\ done.left \in Remaining /\ done.trades \in Seq(TradeReport)
  BY DEF Within, MakersState
<1>7. r = [left |-> done.left, trades |-> done.trades, overflow |-> done.overflow,
           levels |-> Append(m.levels, kept), retired |-> m.retired \o Gone(done)]
  BY DEF CleanUp, KeptLevel, Gone
<1> HIDE DEF kept, r
<1>8. /\ r \in LevelsState /\ r.left = done.left /\ r.trades = done.trades
      /\ r.overflow = done.overflow /\ r.levels = Append(m.levels, kept)
      /\ r.retired = m.retired \o Gone(done)
  BY <1>3, <1>4, <1>5, <1>7 DEF LevelsState
<1> QED  BY <1>1, <1>8 DEF Cleaned, kept, r

LEMMA UntouchedSwept ==
    ASSUME NEW taker, NEW m \in LevelsState, Len(m.trades) <= MaxTradesPerOrder,
           NEW level \in PriceLevel, Good(level), Untouched(taker, m, level),
           NEW r, r = [m EXCEPT !.levels = Append(@, level)]
    PROVE  Swept(taker, m, level, r)
<1>1. m.levels \in Seq(PriceLevel) /\ m.retired \in Seq(Nat) /\ m.left \in Nat
  BY QuantitiesAssumption DEF LevelsState, Remaining
<1>2. Append(m.levels, level) \in Seq(PriceLevel)  BY <1>1, AppendProperties
<1>3. /\ r \in LevelsState /\ r.left = m.left /\ r.trades = m.trades
      /\ r.overflow = m.overflow /\ r.retired = m.retired
      /\ r.levels = Append(m.levels, level)
  BY <1>2 DEF LevelsState
<1>4. /\ <<>> \in Seq(Nat) /\ m.retired \o <<>> = m.retired
  BY <1>1, ConcatEmptySeq
<1>5. ToSet(<<>>) = {}  BY DEF ToSet
<1>6. Remains(level, level)  BY DEF Remains
<1>7. \/ r.overflow \/ r.left = 0
      \/ Better(Opposite(taker.side), taker.price, level.price)
  BY <1>3 DEF Untouched
<1>8. r.left <= m.left  BY <1>1, <1>3
<1>9. \E kept \in PriceLevel :
         /\ Remains(kept, level) /\ r.levels = Append(m.levels, kept)
         /\ ToSet(<<>>) \cap Stamps(kept) = {}
         /\ \/ r.overflow \/ r.left = 0
            \/ Better(Opposite(taker.side), taker.price, level.price)
  BY <1>3, <1>5, <1>6, <1>7
<1>10. r.retired = m.retired \o <<>> /\ ToSet(<<>>) \subseteq Stamps(level)
  BY <1>3, <1>4, <1>5
<1> QED  BY <1>3, <1>4, <1>8, <1>9, <1>10 DEF Swept

LEMMA TouchedSwept ==
    ASSUME NEW taker, NEW m \in LevelsState, Len(m.trades) <= MaxTradesPerOrder,
           NEW level \in PriceLevel, Good(level), ~ Untouched(taker, m, level),
           NEW r, r = MatchLevel(taker, m, level)
    PROVE  Swept(taker, m, level, r)
<1> DEFINE done == MatchMakers(taker, m, level)
           orders == IF done.overflow THEN done.orders ELSE Makers(FALSE, done.orders)
           kept == KeptLevel(level, done, orders)
           gone == Gone(done)
           cleaned == CleanUp(m, level, done, orders)
<1>1. m.left \in Nat /\ m.retired \in Seq(Nat) /\ m.levels \in Seq(PriceLevel)
  BY QuantitiesAssumption DEF LevelsState, Remaining
<1>2. Start(m, level) \in Within
  <2>1. <<>> \in Seq(OrderNode) /\ level.total_quantity \in Remaining
    BY DEF PriceLevel, Remaining
  <2> QED  BY <2>1 DEF Start, Within, MakersState, LevelsState
<1>3. /\ done \in Within /\ done.orders \in Seq(OrderNode) /\ done.left <= m.left
      /\ Len(done.orders) = Len(level.orders)
      /\ \A i \in 1..Len(done.orders) :
            done.orders[i].timestamp = level.orders[i].timestamp
      /\ InArrivalOrder(done.orders)
      /\ done.total = Quantity(done.orders) % QuantityModulus
      /\ \/ done.overflow \/ done.left = 0
         \/ \A i \in 1..Len(done.orders) : done.orders[i].quantity = 0
  BY <1>1, <1>2, MadeLevel
<1>4. ~ m.overflow  BY DEF Untouched
<1>5. r = IF orders = <<>> THEN [cleaned EXCEPT !.levels = m.levels] ELSE cleaned
  BY DEF MatchLevel
<1> HIDE DEF done
<1>6. /\ done.overflow \in BOOLEAN /\ done.total \in Remaining
      /\ Len(done.trades) <= MaxTradesPerOrder
  BY <1>3 DEF Within, MakersState
<1>7. CASE done.overflow
  <2>1. /\ orders = done.orders /\ gone = <<>>  BY <1>7 DEF Gone
  <2>2. /\ r = cleaned
    <3>1. level.orders \in Seq(OrderNode) /\ level.orders # <<>>  BY DEF PriceLevel, Good
    <3>2. Len(level.orders) # 0  BY <3>1, EmptySeq
    <3>3. done.orders # <<>>  BY <1>3, <3>2, EmptySeq
    <3> QED  BY <2>1, <3>3, <1>5
  <2>3. <<>> \in Seq(Nat) /\ ToSet(<<>>) = {}  BY DEF ToSet
  <2>4. /\ r \in LevelsState /\ kept \in PriceLevel
        /\ r.left = done.left /\ r.trades = done.trades
        /\ r.overflow = done.overflow /\ r.levels = Append(m.levels, kept)
        /\ r.retired = m.retired \o <<>>
    <3>1. Gone(done) \in Seq(Nat)  BY <2>1, <2>3
    <3>2. orders \in Seq(OrderNode)  BY <1>3, <2>1
    <3> HIDE DEF orders, cleaned
    <3>3. Cleaned(m, level, done, orders, CleanUp(m, level, done, orders))
      BY <1>3, <3>1, <3>2, CleanUpState
    <3>4. Cleaned(m, level, done, orders, r)  BY <2>2, <3>3 DEF cleaned
    <3> QED  BY <2>1, <3>4 DEF Cleaned
  <2>5. Remains(kept, level)
    <3>1. kept.price = level.price /\ kept.orders = done.orders
          /\ kept.total_quantity = done.total
      BY <2>1 DEF KeptLevel
    <3> HIDE DEF kept, orders
    <3>2. level.orders \in Seq(OrderNode) /\ level.orders # <<>>  BY DEF PriceLevel, Good
    <3>3. DOMAIN level.orders = 1..Len(level.orders)  BY <3>2, LenProperties
    <3>4. DOMAIN done.orders = 1..Len(done.orders)  BY <1>3, LenProperties
    <3>5. Stamps(kept) \subseteq Stamps(level)
      BY <1>3, <3>1, <3>3, <3>4 DEF Stamps
    <3>6. Len(level.orders) # 0  BY <3>2, EmptySeq
    <3>7. kept.orders # <<>>  BY <1>3, <3>1, <3>6
    <3>8. Exact(kept)  BY <1>3, <3>1 DEF Exact
    <3> QED  BY <1>3, <2>4, <3>1, <3>5, <3>7, <3>8 DEF Remains, Good
  <2> HIDE DEF kept, orders, cleaned, gone
  <2>6. \E k \in PriceLevel :
           /\ Remains(k, level) /\ r.levels = Append(m.levels, k)
           /\ ToSet(<<>>) \cap Stamps(k) = {}
           /\ \/ r.overflow \/ r.left = 0
              \/ Better(Opposite(taker.side), taker.price, level.price)
    BY <1>7, <2>3, <2>4, <2>5
  <2>7. r.left <= m.left /\ Len(r.trades) <= MaxTradesPerOrder  BY <1>3, <1>6, <2>4
  <2> QED  BY <1>4, <2>3, <2>4, <2>6, <2>7 DEF Swept
<1>8. CASE ~ done.overflow
  <2>1. orders = Makers(FALSE, done.orders) /\ gone = RetiredByCleanup(done.orders)  BY <1>8 DEF Gone
  <2>2. /\ gone \in Seq(Nat) /\ ToSet(gone) \subseteq Stamps(level)
        /\ kept \in PriceLevel
        /\ orders # <<>> => Remains(kept, level)
        /\ ToSet(gone) \cap Stamps(kept) = {}
    <3>1. Parted(level, KeptLevel(level, done, Makers(FALSE, done.orders)),
                 RetiredByCleanup(done.orders))
      BY <1>3, <1>6, CleanedLevel
    <3>2. kept.orders = orders  BY DEF KeptLevel
    <3> QED  BY <2>1, <3>1, <3>2 DEF Parted
  <2>3. Survive(orders, done.orders)  BY <1>3, <2>1, Survivors
  <2>4. orders \in Seq(OrderNode)  BY <2>3 DEF Survive
  <2>5. /\ cleaned \in LevelsState
        /\ cleaned.left = done.left /\ cleaned.trades = done.trades
        /\ cleaned.overflow = done.overflow /\ cleaned.levels = Append(m.levels, kept)
        /\ cleaned.retired = m.retired \o gone
    <3>1. Gone(done) \in Seq(Nat)  BY <2>2
    <3> HIDE DEF orders
    <3>2. Cleaned(m, level, done, orders, CleanUp(m, level, done, orders))
      BY <1>3, <2>4, <3>1, CleanUpState
    <3> QED  BY <3>2 DEF Cleaned
  <2> HIDE DEF kept, gone, cleaned, orders
  <2>6. /\ r \in LevelsState
        /\ r.left = done.left /\ r.trades = done.trades
        /\ r.overflow = done.overflow
        /\ r.levels = IF orders = <<>> THEN m.levels ELSE Append(m.levels, kept)
        /\ r.retired = m.retired \o gone
    <3>1. CASE orders = <<>>
      <4>1. r = [cleaned EXCEPT !.levels = m.levels]  BY <3>1, <1>5
      <4> QED  BY <1>1, <2>5, <3>1, <4>1 DEF LevelsState
    <3>2. CASE orders # <<>>
      <4>1. r = cleaned  BY <3>2, <1>5
      <4> QED  BY <2>5, <3>2, <4>1
    <3> QED  BY <3>1, <3>2
  <2>7. r.left <= m.left /\ Len(r.trades) <= MaxTradesPerOrder  BY <1>3, <1>6, <2>6
  <2>8. CASE orders = <<>>
    <3>1. r.levels = m.levels  BY <2>6, <2>8
    <3> QED  BY <1>4, <2>2, <2>6, <2>7, <3>1 DEF Swept
  <2>9. CASE orders # <<>>
    <3>1. r.levels = Append(m.levels, kept)  BY <2>6, <2>9
    <3>2. r.left = 0
      <4>1. Len(orders) # 0  BY <2>4, <2>9, EmptySeq
      <4>2. Len(orders) \in Nat  BY <2>4, LenProperties
      <4>3. 1 \in 1..Len(orders)  BY <4>1, <4>2
      <4>4. PICK j \in 1..Len(done.orders) : done.orders[j].quantity # 0
        BY <2>3, <4>3 DEF Survive
      <4> QED  BY <1>3, <1>8, <2>6, <4>4
    <3>3. \E k \in PriceLevel :
             /\ Remains(k, level) /\ r.levels = Append(m.levels, k)
             /\ ToSet(gone) \cap Stamps(k) = {}
             /\ \/ r.overflow \/ r.left = 0
                \/ Better(Opposite(taker.side), taker.price, level.price)
      BY <2>2, <2>9, <3>1, <3>2
    <3> QED  BY <1>4, <2>2, <2>6, <2>7, <3>3 DEF Swept
  <2> QED  BY <2>8, <2>9
<1> QED  BY <1>6, <1>7, <1>8

LEMMA MatchLevelSwept ==
    ASSUME NEW taker, NEW m \in LevelsState, Len(m.trades) <= MaxTradesPerOrder,
           NEW level \in PriceLevel, Good(level)
    PROVE  Swept(taker, m, level, MatchLevel(taker, m, level))
<1>1. CASE Untouched(taker, m, level)
  <2>1. MatchLevel(taker, m, level) = [m EXCEPT !.levels = Append(@, level)]
    BY <1>1 DEF MatchLevel
  <2> QED  BY <1>1, <2>1, UntouchedSwept
<1>2. CASE ~ Untouched(taker, m, level)  BY <1>2, TouchedSwept
<1> QED  BY <1>1, <1>2
-----------------------------------------------------------------------------
(* MatchOrder *)

\* One side of the book between two operations, but for its length.
SideOK(side, levels) ==
    /\ levels \in Seq(PriceLevel)
    /\ \A i \in 1..Len(levels) : Good(levels[i])
    /\ Sorted(side, levels)

Apart(levels) ==
    \A i, j \in 1..Len(levels) : i # j => Stamps(levels[i]) \cap Stamps(levels[j]) = {}

\* The states of the fold over the levels, and the first.
Sweeping == {m \in LevelsState : Len(m.trades) <= MaxTradesPerOrder}
SweepStart(taker) == [left |-> taker.quantity, levels |-> <<>>, trades |-> <<>>,
                      overflow |-> FALSE, retired |-> <<>>]

LEMMA MatchOrderRuns ==
    ASSUME NEW taker, SweepStart(taker) \in Sweeping, NEW side, NEW levels, SideOK(side, levels)
    PROVE  \E run \in [0..Len(levels) -> Sweeping] :
              /\ run[0] = SweepStart(taker)
              /\ run[Len(levels)] = MatchOrder(taker, levels)
              /\ \A k \in 1..Len(levels) :
                    /\ run[k] = MatchLevel(taker, run[k - 1], levels[k])
                    /\ Swept(taker, run[k - 1], levels[k], run[k])
<1> DEFINE s == levels
           n == Len(s)
           base == SweepStart(taker)
           next(a, k) == MatchLevel(taker, a, s[k])
           step == [k \in 1..n |-> [a \in Sweeping |-> next(a, k)]]
           G(iter) == [t \in SUBSET (DOMAIN s) |->
                          IF t = {} THEN base ELSE next(iter[t \ {Max(t)}], Max(t))]
<1>0. levels \in Seq(PriceLevel) /\ \A i \in 1..Len(levels) : Good(levels[i])
  BY DEF SideOK
<1>1. n \in Nat /\ DOMAIN s = 1..n /\ base \in Sweeping
  BY <1>0, LenProperties
<1>2. MatchOrder(taker, levels) = (CHOOSE iter : iter = G(iter))[DOMAIN s]
  BY DEF MatchOrder, SweepStart, FoldLeft, MapThenFoldSet
<1>3. ASSUME NEW k \in 1..n, NEW a \in Sweeping
      PROVE  /\ next(a, k) \in Sweeping /\ step[k][a] = next(a, k)
             /\ Swept(taker, a, s[k], next(a, k))
  <2>1. s[k] \in PriceLevel /\ Good(s[k])  BY <1>0, LenProperties
  <2>2. a \in LevelsState /\ Len(a.trades) <= MaxTradesPerOrder  BY DEF Sweeping
  <2>3. Swept(taker, a, s[k], next(a, k))  BY <2>1, <2>2, MatchLevelSwept
  <2>4. next(a, k) \in Sweeping  BY <2>3 DEF Swept, Sweeping
  <2> HIDE DEF next
  <2> QED  BY <2>3, <2>4
<1>4. step \in [1..n -> [Sweeping -> Sweeping]]
  <2> HIDE DEF next
  <2> QED  BY <1>3
<1> HIDE DEF step, next, base
<1>5. \E iter : iter = G(iter)
  <2>1. PICK iter \in [SUBSET (1..n) -> Sweeping] : iter = FoldEquation(n, base, step, iter)
    <3>1. PICK iter : Folds(n, Sweeping, base, step, iter)  BY <1>1, <1>4, FoldExists
    <3> QED  BY <3>1 DEF Folds
  <2> DEFINE E == FoldEquation(n, base, step, iter)
  <2>2. ASSUME NEW t \in SUBSET (1..n) PROVE E[t] = G(iter)[t]
    <3>1. CASE t = {}  BY <1>1, <3>1 DEF FoldEquation
    <3>2. CASE t # {}
      <4>1. Max(t) \in 1..n  BY <3>2, <1>1, GreatestNumber
      <4>2. iter[t \ {Max(t)}] \in Sweeping  OBVIOUS
      <4>3. E[t] = step[Max(t)][iter[t \ {Max(t)}]]  BY <3>2 DEF FoldEquation
      <4>4. step[Max(t)][iter[t \ {Max(t)}]] = next(iter[t \ {Max(t)}], Max(t))
        BY <4>1, <4>2, <1>3
      <4> QED  BY <4>3, <4>4, <3>2, <1>1
    <3> QED  BY <3>1, <3>2
  <2>3. E = G(iter)
    <3>1. E = [t \in SUBSET (1..n) |-> E[t]]  BY DEF FoldEquation
    <3>2. G(iter) = [t \in SUBSET (1..n) |-> G(iter)[t]]  BY <1>1
    <3> HIDE DEF E, G
    <3> QED  BY <2>2, <3>1, <3>2
  <2> QED  BY <2>1, <2>3
<1> DEFINE J == CHOOSE iter : iter = G(iter)
<1>6. J = G(J)  BY <1>5
<1>7. Unfolds(n, Sweeping, base, step, J)
  <2>1. G(J)[{}] = base  OBVIOUS
  <2>2. ASSUME NEW t \in SUBSET (1..n), t # {}, J[t \ {Max(t)}] \in Sweeping
        PROVE  G(J)[t] = step[Max(t)][J[t \ {Max(t)}]]
    <3>1. Max(t) \in 1..n  BY <2>2, <1>1, GreatestNumber
    <3>2. G(J)[t] = next(J[t \ {Max(t)}], Max(t))  BY <1>1, <2>2
    <3> HIDE DEF J
    <3> QED  BY <2>2, <3>1, <3>2, <1>3
  <2> HIDE DEF J, G
  <2> QED  BY <2>1, <2>2, <1>6 DEF Unfolds
<1>8. PICK run : Runs(n, Sweeping, base, step, J[1..n], run)
  <2> HIDE DEF J, n
  <2> QED  BY <1>1, <1>4, <1>7, FoldRuns
<1>9. ASSUME NEW k \in 1..n
      PROVE  run[k] = next(run[k - 1], k) /\ Swept(taker, run[k - 1], s[k], run[k])
  <2>1. k - 1 \in 0..n  BY <1>1
  <2>2. run[k - 1] \in Sweeping  BY <2>1, <1>8 DEF Runs
  <2>3. run[k] = step[k][run[k - 1]]  BY <1>8 DEF Runs
  <2>4. Swept(taker, run[k - 1], s[k], next(run[k - 1], k))
        /\ step[k][run[k - 1]] = next(run[k - 1], k)
    BY <2>2, <1>3
  <2> QED  BY <2>3, <2>4
<1>10. run \in [0..n -> Sweeping] /\ run[0] = base /\ run[n] = MatchOrder(taker, levels)
  BY <1>1, <1>2, <1>8 DEF Runs, J
<1> QED  BY <1>9, <1>10 DEF base, next
LEMMA ToSetConcat ==
    ASSUME NEW X, NEW s \in Seq(X), NEW t \in Seq(X)
    PROVE  ToSet(s \o t) = ToSet(s) \cup ToSet(t)
<1> DEFINE m == Len(s)
           n == Len(t)
           u == s \o t
<1>1. /\ m \in Nat /\ n \in Nat /\ DOMAIN s = 1..m /\ DOMAIN t = 1..n
  BY LenProperties
<1>2. /\ u \in Seq(X) /\ Len(u) = m + n
      /\ \A i \in 1..(m + n) : u[i] = IF i <= m THEN s[i] ELSE t[i - m]
  BY ConcatProperties
<1>3. DOMAIN u = 1..(m + n)  BY <1>2, LenProperties
<1> HIDE DEF m, n, u
<1>4. ASSUME NEW x \in ToSet(u) PROVE x \in ToSet(s) \cup ToSet(t)
  <2>1. PICK i \in 1..(m + n) : x = u[i]  BY <1>3 DEF ToSet
  <2>2. CASE i <= m
    <3>1. x = s[i] /\ i \in DOMAIN s  BY <1>1, <1>2, <2>1, <2>2
    <3> QED  BY <3>1 DEF ToSet
  <2>3. CASE i > m
    <3>1. x = t[i - m] /\ i - m \in DOMAIN t  BY <1>1, <1>2, <2>1, <2>3
    <3> QED  BY <3>1 DEF ToSet
  <2> QED  BY <1>1, <2>2, <2>3
<1>5. ASSUME NEW x \in ToSet(s) PROVE x \in ToSet(u)
  <2>1. PICK i \in 1..m : x = s[i]  BY <1>1, <1>5 DEF ToSet
  <2>2. i \in 1..(m + n) /\ i <= m  BY <1>1
  <2>3. u[i] = x /\ i \in DOMAIN u  BY <1>2, <1>3, <2>1, <2>2
  <2> QED  BY <2>3 DEF ToSet
<1>6. ASSUME NEW x \in ToSet(t) PROVE x \in ToSet(u)
  <2>1. PICK i \in 1..n : x = t[i]  BY <1>1, <1>6 DEF ToSet
  <2>2. m + i \in 1..(m + n) /\ ~ (m + i <= m) /\ (m + i) - m = i  BY <1>1
  <2>3. u[m + i] = x /\ m + i \in DOMAIN u  BY <1>2, <1>3, <2>1, <2>2
  <2> QED  BY <2>3 DEF ToSet
<1>7. ToSet(u) = ToSet(s) \cup ToSet(t)  BY <1>4, <1>5, <1>6
<1> QED  BY <1>7 DEF u

\* What the sweep has done to the first k levels.
SweptTo(taker, side, levels, k, m) ==
    /\ Len(m.levels) <= k
    /\ \A i \in 1..Len(m.levels) : \E j \in 1..k : Remains(m.levels[i], levels[j])
    /\ Sorted(side, m.levels)
    /\ \A t \in ToSet(m.retired) : \E j \in 1..k : t \in Stamps(levels[j])
    /\ \A i \in 1..Len(m.levels) : ToSet(m.retired) \cap Stamps(m.levels[i]) = {}
    /\ \/ m.overflow \/ m.left = 0
       \/ \A i \in 1..Len(m.levels) :
             Better(Opposite(taker.side), taker.price, m.levels[i].price)

LEMMA SweepNext ==
    ASSUME NEW taker, NEW side, NEW levels, SideOK(side, levels), Apart(levels),
           NEW k \in 1..Len(levels), NEW m \in Sweeping, NEW r,
           SweptTo(taker, side, levels, k - 1, m), Swept(taker, m, levels[k], r)
    PROVE  SweptTo(taker, side, levels, k, r)
<1> DEFINE n == Len(m.levels)
<1>0. levels \in Seq(PriceLevel) /\ Sorted(side, levels)  BY DEF SideOK
<1>1. Len(levels) \in Nat /\ DOMAIN levels = 1..Len(levels)  BY <1>0, LenProperties
<1>2. k \in Nat /\ k >= 1 /\ k - 1 \in Nat /\ k \in 1..k  BY <1>1
<1>3. m.levels \in Seq(PriceLevel) /\ m.retired \in Seq(Nat) /\ m.left \in Nat
  BY QuantitiesAssumption DEF Sweeping, LevelsState, Remaining
<1>4. n \in Nat /\ DOMAIN m.levels = 1..n  BY <1>3, LenProperties
<1>5. PICK gone \in Seq(Nat) :
         /\ r.retired = m.retired \o gone
         /\ ToSet(gone) \subseteq Stamps(levels[k])
         /\ \/ r.levels = m.levels
            \/ \E kept \in PriceLevel :
                  /\ Remains(kept, levels[k])
                  /\ r.levels = Append(m.levels, kept)
                  /\ ToSet(gone) \cap Stamps(kept) = {}
                  /\ \/ r.overflow \/ r.left = 0
                     \/ Better(Opposite(taker.side), taker.price, levels[k].price)
  BY DEF Swept
<1>6. r.left \in Nat /\ r.left <= m.left /\ (m.overflow => r.overflow)
  BY QuantitiesAssumption DEF Swept, LevelsState, Remaining
<1>7. /\ n <= k - 1
      /\ \A i \in 1..n : \E j \in 1..(k - 1) : Remains(m.levels[i], levels[j])
      /\ Sorted(side, m.levels)
      /\ \A t \in ToSet(m.retired) : \E j \in 1..(k - 1) : t \in Stamps(levels[j])
      /\ \A i \in 1..n : ToSet(m.retired) \cap Stamps(m.levels[i]) = {}
      /\ \/ m.overflow \/ m.left = 0
         \/ \A i \in 1..n : Better(Opposite(taker.side), taker.price, m.levels[i].price)
  BY DEF SweptTo
<1>8. ToSet(r.retired) = ToSet(m.retired) \cup ToSet(gone)  BY <1>3, <1>5, ToSetConcat
<1>9. ASSUME NEW i \in 1..n
      PROVE  /\ \E j \in 1..k : Remains(m.levels[i], levels[j])
             /\ ToSet(r.retired) \cap Stamps(m.levels[i]) = {}
  <2>1. PICK j \in 1..(k - 1) : Remains(m.levels[i], levels[j])  BY <1>7
  <2>2. j \in 1..k /\ j \in 1..Len(levels) /\ j # k  BY <1>1, <1>2
  <2>3. Stamps(levels[j]) \cap Stamps(levels[k]) = {}  BY <2>2 DEF Apart
  <2>4. Stamps(m.levels[i]) \subseteq Stamps(levels[j])  BY <2>1 DEF Remains
  <2>5. ToSet(m.retired) \cap Stamps(m.levels[i]) = {}  BY <1>7
  <2> QED  BY <1>5, <1>8, <2>1, <2>2, <2>3, <2>4, <2>5
<1>10. ASSUME NEW t \in ToSet(r.retired) PROVE \E j \in 1..k : t \in Stamps(levels[j])
  <2>1. CASE t \in ToSet(m.retired)
    <3>1. PICK j \in 1..(k - 1) : t \in Stamps(levels[j])  BY <1>7, <2>1
    <3>2. j \in 1..k  BY <1>2
    <3> QED  BY <3>1, <3>2
  <2>2. CASE t \in ToSet(gone)  BY <1>2, <1>5, <2>2
  <2> QED  BY <1>8, <2>1, <2>2
<1>11. \/ r.overflow \/ r.left = 0
       \/ \A i \in 1..n : Better(Opposite(taker.side), taker.price, m.levels[i].price)
  <2>1. CASE m.overflow  BY <1>6, <2>1
  <2>2. CASE m.left = 0
    <3>1. r.left = 0  BY <1>6, <2>2
    <3> QED  BY <3>1
  <2> QED  BY <1>7, <2>1, <2>2
<1>12. CASE r.levels = m.levels
  <2>1. n <= k  BY <1>2, <1>4, <1>7
  <2> QED  BY <1>7, <1>9, <1>10, <1>11, <1>12, <2>1 DEF SweptTo
<1>13. ASSUME NEW kept \in PriceLevel, Remains(kept, levels[k]),
              r.levels = Append(m.levels, kept), ToSet(gone) \cap Stamps(kept) = {},
              \/ r.overflow \/ r.left = 0
              \/ Better(Opposite(taker.side), taker.price, levels[k].price)
       PROVE  SweptTo(taker, side, levels, k, r)
  <2>1. /\ r.levels \in Seq(PriceLevel) /\ Len(r.levels) = n + 1 /\ r.levels[n + 1] = kept
        /\ \A i \in 1..n : r.levels[i] = m.levels[i]
    BY <1>3, <1>13, AppendProperties
  <2>2. DOMAIN r.levels = 1..(n + 1)  BY <2>1, LenProperties
  <2>3. \A i \in 1..(n + 1) : i = n + 1 \/ i \in 1..n  BY <1>4
  <2>4. Len(r.levels) <= k  BY <1>2, <1>4, <1>7, <2>1
  <2>p. kept.price = levels[k].price  BY <1>13 DEF Remains
  <2>5. ASSUME NEW i \in 1..Len(r.levels)
        PROVE  /\ \E j \in 1..k : Remains(r.levels[i], levels[j])
               /\ ToSet(r.retired) \cap Stamps(r.levels[i]) = {}
    <3>1. CASE i = n + 1
      <4>1. \E j \in 1..k : Remains(r.levels[i], levels[j])  BY <1>2, <1>13, <2>1, <3>1
      <4>2. ToSet(m.retired) \cap Stamps(kept) = {}
        <5>1. SUFFICES ASSUME NEW t \in ToSet(m.retired), t \in Stamps(kept) PROVE FALSE
          OBVIOUS
        <5>2. PICK j \in 1..(k - 1) : t \in Stamps(levels[j])  BY <1>7
        <5>3. j \in 1..Len(levels) /\ j # k  BY <1>1, <1>2
        <5>4. t \in Stamps(levels[k])  BY <1>13, <5>1 DEF Remains
        <5> QED  BY <5>2, <5>3, <5>4 DEF Apart
      <4>3. r.levels[i] = kept  BY <2>1, <3>1
      <4> QED  BY <1>8, <1>13, <4>1, <4>2, <4>3
    <3>2. CASE i \in 1..n
      <4>1. r.levels[i] = m.levels[i]  BY <2>1, <3>2
      <4> QED  BY <1>9, <3>2, <4>1
    <3> QED  BY <2>1, <2>3, <3>1, <3>2
  <2>6. ASSUME NEW a \in DOMAIN r.levels, NEW b \in DOMAIN r.levels, a < b
        PROVE  Better(side, r.levels[a].price, r.levels[b].price)
    <3>1. a \in 1..n /\ r.levels[a] = m.levels[a]
      <4>1. a \in 1..n  BY <1>4, <2>2, <2>6
      <4> QED  BY <2>1, <4>1
    <3>2. CASE b = n + 1
      <4>1. r.levels[b].price = levels[k].price  BY <2>1, <2>p, <3>2
      <4>2. PICK j \in 1..(k - 1) : Remains(m.levels[a], levels[j])  BY <1>7, <3>1
      <4>3. j \in DOMAIN levels /\ k \in DOMAIN levels /\ j < k  BY <1>1, <1>2
      <4>4. Better(side, levels[j].price, levels[k].price)  BY <1>0, <4>3 DEF Sorted
      <4>5. r.levels[a].price = levels[j].price  BY <3>1, <4>2 DEF Remains
      <4> QED  BY <4>1, <4>4, <4>5
    <3>3. CASE b \in 1..n
      <4>1. r.levels[b] = m.levels[b]  BY <2>1, <3>3
      <4>2. Better(side, m.levels[a].price, m.levels[b].price)
        BY <1>4, <1>7, <2>6, <3>1, <3>3 DEF Sorted
      <4> QED  BY <3>1, <4>1, <4>2
    <3> QED  BY <2>2, <2>3, <3>2, <3>3
  <2>7. Sorted(side, r.levels)  BY <2>6 DEF Sorted
  <2>8. \/ r.overflow \/ r.left = 0
        \/ \A i \in 1..Len(r.levels) :
              Better(Opposite(taker.side), taker.price, r.levels[i].price)
    <3>1. SUFFICES ASSUME ~ r.overflow, r.left # 0, NEW i \in 1..Len(r.levels)
                   PROVE  Better(Opposite(taker.side), taker.price, r.levels[i].price)
      OBVIOUS
    <3>2. CASE i = n + 1
      <4>1. r.levels[i].price = levels[k].price  BY <2>1, <2>p, <3>2
      <4> QED  BY <1>13, <3>1, <4>1
    <3>3. CASE i \in 1..n
      <4>1. r.levels[i] = m.levels[i]  BY <2>1, <3>3
      <4> QED  BY <1>11, <3>1, <3>3, <4>1
    <3> QED  BY <2>1, <2>3, <3>2, <3>3
  <2> QED  BY <1>10, <2>4, <2>5, <2>7, <2>8 DEF SweptTo
<1> QED  BY <1>5, <1>12, <1>13

\* What matching leaves of the opposite side.
LEMMA MatchOrderSwept ==
    ASSUME NEW taker, taker.quantity \in Remaining, NEW side, NEW levels,
           SideOK(side, levels), Apart(levels)
    PROVE  /\ MatchOrder(taker, levels) \in Sweeping
           /\ SweptTo(taker, side, levels, Len(levels), MatchOrder(taker, levels))
<1> DEFINE n == Len(levels)
<1>1. SweepStart(taker) \in Sweeping
  BY LimitsAssumption DEF SweepStart, Sweeping, LevelsState
<1>2. PICK run \in [0..n -> Sweeping] :
         /\ run[0] = SweepStart(taker)
         /\ run[n] = MatchOrder(taker, levels)
         /\ \A k \in 1..n : Swept(taker, run[k - 1], levels[k], run[k])
  BY <1>1, MatchOrderRuns
<1>3. n \in Nat
  <2>1. levels \in Seq(PriceLevel)  BY DEF SideOK
  <2> QED  BY <2>1, LenProperties
<1> DEFINE T == {k \in 0..n : SweptTo(taker, side, levels, k, run[k])}
<1>4. 0 \in T
  <2>1. Len(<<>>) = 0 /\ 1..Len(<<>>) = {} /\ Sorted(side, <<>>) /\ ToSet(<<>>) = {}
    BY DEF Sorted, ToSet
  <2>2. SweptTo(taker, side, levels, 0, SweepStart(taker))
    BY <2>1 DEF SweptTo, SweepStart
  <2> QED  BY <1>2, <1>3, <2>2
<1>5. ASSUME NEW k \in T \cap (0..(n - 1)) PROVE k + 1 \in T
  <2>1. k + 1 \in 1..n /\ (k + 1) - 1 = k /\ k \in 0..n /\ k + 1 \in 0..n  BY <1>3
  <2>2. run[k] \in Sweeping  BY <2>1
  <2>3. Swept(taker, run[k], levels[k + 1], run[k + 1])  BY <1>2, <2>1
  <2>4. SweptTo(taker, side, levels, (k + 1) - 1, run[k])  BY <2>1
  <2>5. SweptTo(taker, side, levels, k + 1, run[k + 1])
    <3> HIDE <1>2
    <3> QED  BY <2>1, <2>2, <2>3, <2>4, SweepNext
  <2> QED  BY <2>1, <2>5
<1>6. 0..n \subseteq T
  <2> HIDE DEF T
  <2> QED  BY <1>3, <1>4, <1>5, UpTo
<1>7. n \in 0..n  BY <1>3
<1> QED  BY <1>2, <1>6, <1>7
-----------------------------------------------------------------------------
(* Sides that differ in one level *)

\* r is s with e before what was at i.
Inserted(s, e, i, r) ==
    /\ Len(r) = Len(s) + 1 /\ r[i] = e
    /\ \A j \in 1..(i - 1) : r[j] = s[j]
    /\ \A j \in (i + 1)..(Len(s) + 1) : r[j] = s[j - 1]

LEMMA InsertAtFacts ==
    ASSUME NEW X, NEW s \in Seq(X), NEW e \in X, NEW i \in Nat, i > 0, i <= Len(s) + 1,
           NEW r, r = InsertAt(s, i, e)
    PROVE  r \in Seq(X) /\ Inserted(s, e, i, r)
<1> DEFINE n == Len(s)
           a == SubSeq(s, 1, i - 1)
           b == SubSeq(s, i, n)
<1>1. n \in Nat /\ i \in 1..(n + 1) /\ \A j \in 1..n : s[j] \in X  BY LenProperties
<1>2. /\ a \in Seq(X) /\ Len(a) = i - 1
      /\ \A j \in 1..(i - 1) : a[j] = s[j]
  <2>1. \A j \in 1..(i - 1) : s[j] \in X  BY <1>1
  <2>2. /\ a \in Seq(X) /\ Len(a) = (IF 1 <= i - 1 THEN (i - 1) - 1 + 1 ELSE 0)
        /\ \A j \in 1..((i - 1) - 1 + 1) : a[j] = s[1 + j - 1]
    BY <1>1, <2>1, SubSeqProperties
  <2> QED  BY <1>1, <2>2
<1>3. /\ b \in Seq(X) /\ Len(b) = n - i + 1
      /\ \A j \in 1..(n - i + 1) : b[j] = s[i + j - 1]
  <2>1. \A j \in i..n : s[j] \in X  BY <1>1
  <2>2. /\ b \in Seq(X) /\ Len(b) = (IF i <= n THEN n - i + 1 ELSE 0)
        /\ \A j \in 1..(n - i + 1) : b[j] = s[i + j - 1]
    BY <1>1, <2>1, SubSeqProperties
  <2> QED  BY <1>1, <2>2
<1>4. r = (a \o <<e>>) \o b  BY DEF InsertAt
<1> HIDE DEF n, a, b
<1>5. <<e>> \in Seq(X) /\ Len(<<e>>) = 1 /\ <<e>>[1] = e  OBVIOUS
<1>6. /\ a \o <<e>> \in Seq(X) /\ Len(a \o <<e>>) = i
      /\ \A j \in 1..i : (a \o <<e>>)[j] = IF j <= i - 1 THEN a[j] ELSE <<e>>[j - (i - 1)]
  BY <1>1, <1>2, <1>5, ConcatProperties
<1>7. /\ r \in Seq(X) /\ Len(r) = i + (n - i + 1)
      /\ \A j \in 1..(i + (n - i + 1)) :
            r[j] = IF j <= i THEN (a \o <<e>>)[j] ELSE b[j - i]
  BY <1>1, <1>3, <1>4, <1>6, ConcatProperties, SMTT(20)
<1>8. Len(r) = n + 1  BY <1>1, <1>7
<1>9. r[i] = e
  <2>1. i \in 1..i /\ i \in 1..(i + (n - i + 1)) /\ ~ (i <= i - 1) /\ i - (i - 1) = 1
        /\ i <= i
    BY <1>1
  <2>2. r[i] = (a \o <<e>>)[i]  BY <1>7, <2>1
  <2>3. (a \o <<e>>)[i] = <<e>>[1]  BY <1>6, <2>1
  <2> QED  BY <1>5, <2>2, <2>3
<1>10. ASSUME NEW j \in 1..(i - 1) PROVE r[j] = s[j]
  <2>1. j \in 1..i /\ j \in 1..(i + (n - i + 1)) /\ j <= i - 1 /\ j <= i  BY <1>1
  <2>2. r[j] = (a \o <<e>>)[j]  BY <1>7, <2>1
  <2>3. (a \o <<e>>)[j] = a[j]  BY <1>6, <2>1
  <2> QED  BY <1>2, <2>2, <2>3
<1>11. ASSUME NEW j \in (i + 1)..(n + 1) PROVE r[j] = s[j - 1]
  <2>1. /\ j \in 1..(i + (n - i + 1)) /\ ~ (j <= i) /\ j - i \in 1..(n - i + 1)
        /\ i + (j - i) - 1 = j - 1
    BY <1>1
  <2>2. r[j] = b[j - i]  BY <1>7, <2>1
  <2>3. b[j - i] = s[i + (j - i) - 1]  BY <1>3, <2>1
  <2> QED  BY <2>1, <2>2, <2>3
<1> QED  BY <1>7, <1>8, <1>9, <1>10, <1>11 DEF Inserted, n

LEMMA RemoveAtFacts ==
    ASSUME NEW X, NEW s \in Seq(X), NEW i \in 1..Len(s), NEW r, r = RemoveAt(s, i)
    PROVE  /\ r \in Seq(X) /\ Len(r) = Len(s) - 1
           /\ \A j \in 1..(Len(s) - 1) : r[j] = IF j < i THEN s[j] ELSE s[j + 1]
<1> DEFINE n == Len(s)
           a == SubSeq(s, 1, i - 1)
           b == SubSeq(s, i + 1, n)
<1>1. n \in Nat /\ i \in 1..n /\ \A j \in 1..n : s[j] \in X  BY LenProperties
<1>2. /\ a \in Seq(X) /\ Len(a) = i - 1
      /\ \A j \in 1..(i - 1) : a[j] = s[j]
  <2>1. \A j \in 1..(i - 1) : s[j] \in X  BY <1>1
  <2>2. /\ a \in Seq(X) /\ Len(a) = (IF 1 <= i - 1 THEN (i - 1) - 1 + 1 ELSE 0)
        /\ \A j \in 1..((i - 1) - 1 + 1) : a[j] = s[1 + j - 1]
    BY <1>1, <2>1, SubSeqProperties
  <2> QED  BY <1>1, <2>2
<1>3. /\ b \in Seq(X) /\ Len(b) = n - i
      /\ \A j \in 1..(n - i) : b[j] = s[i + j]
  <2>1. \A j \in (i + 1)..n : s[j] \in X  BY <1>1
  <2>2. /\ b \in Seq(X) /\ Len(b) = (IF i + 1 <= n THEN n - (i + 1) + 1 ELSE 0)
        /\ \A j \in 1..(n - (i + 1) + 1) : b[j] = s[(i + 1) + j - 1]
    BY <1>1, <2>1, SubSeqProperties
  <2> QED  BY <1>1, <2>2
<1>4. r = a \o b  BY DEF RemoveAt
<1> HIDE DEF n, a, b
<1>5. /\ r \in Seq(X) /\ Len(r) = (i - 1) + (n - i)
      /\ \A j \in 1..((i - 1) + (n - i)) : r[j] = IF j <= i - 1 THEN a[j] ELSE b[j - (i - 1)]
  <2>1. /\ a \o b \in Seq(X) /\ Len(a \o b) = Len(a) + Len(b)
        /\ \A j \in 1..(Len(a) + Len(b)) : (a \o b)[j] = IF j <= Len(a) THEN a[j] ELSE b[j - Len(a)]
    BY <1>2, <1>3, ConcatProperties
  <2> QED  BY <1>2, <1>3, <1>4, <2>1
<1>6. Len(r) = n - 1  BY <1>1, <1>5
<1>7. ASSUME NEW j \in 1..(n - 1) PROVE r[j] = IF j < i THEN s[j] ELSE s[j + 1]
  <2>1. j \in 1..((i - 1) + (n - i))  BY <1>1
  <2>2. CASE j < i
    <3>1. j <= i - 1 /\ j \in 1..(i - 1)  BY <1>1, <2>2
    <3>2. r[j] = a[j]  BY <1>5, <2>1, <3>1
    <3> QED  BY <1>2, <2>2, <3>1, <3>2
  <2>3. CASE ~ (j < i)
    <3>1. ~ (j <= i - 1) /\ j - (i - 1) \in 1..(n - i) /\ i + (j - (i - 1)) = j + 1
      BY <1>1, <2>3
    <3>2. r[j] = b[j - (i - 1)]  BY <1>5, <2>1, <3>1
    <3>3. b[j - (i - 1)] = s[i + (j - (i - 1))]  BY <1>3, <3>1
    <3> QED  BY <2>3, <3>1, <3>2, <3>3
  <2> QED  BY <2>2, <2>3
<1> QED  BY <1>5, <1>6, <1>7 DEF n

LEMMA FrontFacts ==
    ASSUME NEW X, NEW s \in Seq(X), Len(s) > 0
    PROVE  /\ Front(s) \in Seq(X) /\ Len(Front(s)) = Len(s) - 1
           /\ \A j \in 1..(Len(s) - 1) : Front(s)[j] = s[j]
<1> DEFINE n == Len(s)
<1>1. n \in Nat /\ n > 0 /\ \A j \in 1..n : s[j] \in X  BY LenProperties
<1>2. \A j \in 1..(n - 1) : s[j] \in X  BY <1>1
<1>3. /\ SubSeq(s, 1, n - 1) \in Seq(X)
      /\ Len(SubSeq(s, 1, n - 1)) = (IF 1 <= n - 1 THEN (n - 1) - 1 + 1 ELSE 0)
      /\ \A j \in 1..((n - 1) - 1 + 1) : SubSeq(s, 1, n - 1)[j] = s[1 + j - 1]
  BY <1>1, <1>2, SubSeqProperties
<1>4. Front(s) = SubSeq(s, 1, n - 1)  BY DEF Front
<1> HIDE DEF n
<1>5. (IF 1 <= n - 1 THEN (n - 1) - 1 + 1 ELSE 0) = n - 1 /\ (n - 1) - 1 + 1 = n - 1
  BY <1>1
<1>6. \A j \in 1..(n - 1) : 1 + j - 1 = j  OBVIOUS
<1>7. /\ Front(s) \in Seq(X) /\ Len(Front(s)) = n - 1
      /\ \A j \in 1..(n - 1) : Front(s)[j] = s[j]
  BY <1>3, <1>4, <1>5, <1>6
<1> QED  BY <1>7 DEF n
\* The nodes of a side, each with the price at which it stands.
Marks(levels) == UNION {{levels[i].price} \X Stamps(levels[i]) : i \in DOMAIN levels}

LEMMA MarkOf ==
    ASSUME NEW levels \in Seq(PriceLevel), NEW x
    PROVE  x \in Marks(levels) <=>
              \E i \in 1..Len(levels) : \E t \in Stamps(levels[i]) : x = <<levels[i].price, t>>
<1>1. DOMAIN levels = 1..Len(levels)  BY LenProperties
<1>2. x \in Marks(levels) <=>
         \E i \in 1..Len(levels) : x \in {levels[i].price} \X Stamps(levels[i])
  BY <1>1 DEF Marks
<1> QED  BY <1>2

\* A side in which one level was replaced by another of the same price.
Put(levels, i, kept) == [levels EXCEPT ![i] = kept]

LEMMA ReplaceLevel ==
    ASSUME NEW side, NEW levels, SideOK(side, levels), NEW i \in 1..Len(levels),
           NEW kept, Good(kept), kept.price = levels[i].price,
           NEW new, new = Put(levels, i, kept)
    PROVE  /\ SideOK(side, new) /\ Len(new) = Len(levels)
           /\ \A j \in 1..Len(levels) : new[j] = IF j = i THEN kept ELSE levels[j]
<1>1. levels \in Seq(PriceLevel) /\ kept \in PriceLevel  BY DEF SideOK, Good
<1>2. /\ new \in Seq(PriceLevel) /\ Len(new) = Len(levels)
      /\ \A j \in 1..Len(levels) : new[j] = IF j = i THEN kept ELSE levels[j]
  BY <1>1, ExceptSeq DEF Put
<1>3. \A j \in 1..Len(new) : Good(new[j])  BY <1>2 DEF SideOK
<1>4. \A j \in 1..Len(levels) : new[j].price = levels[j].price  BY <1>2
<1>5. DOMAIN new = 1..Len(levels) /\ DOMAIN levels = 1..Len(levels)
  BY <1>1, <1>2, LenProperties
<1>6. Sorted(side, new)  BY <1>4, <1>5 DEF SideOK, Sorted
<1> QED  BY <1>2, <1>3, <1>6 DEF SideOK

\* A side from which levels were taken: level i was level f[i].
LEMMA TakeLevels ==
    ASSUME NEW side, NEW levels, SideOK(side, levels), NEW new \in Seq(PriceLevel),
           NEW f \in [1..Len(new) -> 1..Len(levels)],
           \A i \in 1..Len(new) : new[i] = levels[f[i]],
           \A i, j \in 1..Len(new) : i < j => f[i] < f[j]
    PROVE  SideOK(side, new) /\ Marks(new) \subseteq Marks(levels)
<1>1. levels \in Seq(PriceLevel)  BY DEF SideOK
<1>2. DOMAIN new = 1..Len(new) /\ DOMAIN levels = 1..Len(levels)
  BY <1>1, LenProperties
<1>3. \A i \in 1..Len(new) : Good(new[i])  BY DEF SideOK
<1>4. Sorted(side, new)
  <2>1. SUFFICES ASSUME NEW i \in 1..Len(new), NEW j \in 1..Len(new), i < j
                 PROVE  Better(side, new[i].price, new[j].price)
    BY <1>2 DEF Sorted
  <2>2. f[i] \in DOMAIN levels /\ f[j] \in DOMAIN levels /\ f[i] < f[j]  BY <1>2, <2>1
  <2>3. Better(side, levels[f[i]].price, levels[f[j]].price)  BY <2>2 DEF SideOK, Sorted
  <2> QED  BY <2>3
<1>5. ASSUME NEW x \in Marks(new) PROVE x \in Marks(levels)
  <2>1. PICK i \in 1..Len(new) : \E t \in Stamps(new[i]) : x = <<new[i].price, t>>
    BY MarkOf
  <2>2. f[i] \in 1..Len(levels) /\ new[i] = levels[f[i]]  OBVIOUS
  <2> QED  BY <1>1, <2>1, <2>2, MarkOf
<1> QED  BY <1>3, <1>4, <1>5 DEF SideOK

LEMMA FrontLevels ==
    ASSUME NEW side, NEW levels, SideOK(side, levels), Len(levels) > 0
    PROVE  /\ SideOK(side, Front(levels)) /\ Marks(Front(levels)) \subseteq Marks(levels)
           /\ Len(Front(levels)) = Len(levels) - 1
<1> DEFINE new == Front(levels)
           f == [i \in 1..Len(new) |-> i]
<1>1. levels \in Seq(PriceLevel)  BY DEF SideOK
<1>2. /\ new \in Seq(PriceLevel) /\ Len(new) = Len(levels) - 1
      /\ \A j \in 1..(Len(levels) - 1) : new[j] = levels[j]
  BY <1>1, FrontFacts
<1>3. Len(levels) \in Nat  BY <1>1, LenProperties
<1> HIDE DEF new
<1>4. f \in [1..Len(new) -> 1..Len(levels)]  BY <1>2, <1>3
<1>5. \A i \in 1..Len(new) : new[i] = levels[f[i]]  BY <1>2
<1>6. \A i, j \in 1..Len(new) : i < j => f[i] < f[j]  OBVIOUS
<1>7. SideOK(side, new) /\ Marks(new) \subseteq Marks(levels)
  <2> HIDE DEF f
  <2> QED  BY <1>2, <1>4, <1>5, <1>6, TakeLevels
<1> QED  BY <1>2, <1>7 DEF new

\* Every level was there before, and is not level i.
OthersOf(levels, i, new) ==
    \A k \in 1..Len(new) : \E j \in 1..Len(levels) : j # i /\ new[k] = levels[j]

LEMMA RemoveLevel ==
    ASSUME NEW side, NEW levels, SideOK(side, levels), NEW i \in 1..Len(levels),
           NEW new, new = RemoveAt(levels, i)
    PROVE  /\ SideOK(side, new) /\ Marks(new) \subseteq Marks(levels)
           /\ Len(new) = Len(levels) - 1
           /\ OthersOf(levels, i, new)
<1> DEFINE f == [k \in 1..Len(new) |-> IF k < i THEN k ELSE k + 1]
<1>1. levels \in Seq(PriceLevel)  BY DEF SideOK
<1>2. /\ new \in Seq(PriceLevel) /\ Len(new) = Len(levels) - 1
      /\ \A j \in 1..(Len(levels) - 1) : new[j] = IF j < i THEN levels[j] ELSE levels[j + 1]
  BY <1>1, RemoveAtFacts, ZenonT(40)
<1>3. Len(levels) \in Nat  BY <1>1, LenProperties
<1>4. f \in [1..Len(new) -> 1..Len(levels)]  BY <1>2, <1>3
<1>5. \A k \in 1..Len(new) : new[k] = levels[f[k]]
  BY <1>2
<1>6. \A k, j \in 1..Len(new) : k < j => f[k] < f[j]  BY <1>2, <1>3
<1>7. \A k \in 1..Len(new) : f[k] # i  BY <1>2, <1>3
<1> HIDE DEF f
<1>8. SideOK(side, new) /\ Marks(new) \subseteq Marks(levels)
  <2>1. new \in Seq(PriceLevel)  BY <1>2
  <2> QED  BY <1>4, <1>5, <1>6, <2>1, TakeLevels, ZenonT(40)
<1>9. ASSUME NEW k \in 1..Len(new)
      PROVE  \E j \in 1..Len(levels) : j # i /\ new[k] = levels[j]
  <2>1. f[k] \in 1..Len(levels) /\ f[k] # i /\ new[k] = levels[f[k]]  BY <1>4, <1>5, <1>7
  <2> QED  BY <2>1
<1>10. OthersOf(levels, i, new)  BY <1>9 DEF OthersOf
<1> QED  BY <1>2, <1>8, <1>10
-----------------------------------------------------------------------------
(* FlatPriceLevels *)

\* The first c levels are better than a price, and no other is.
Splits(side, levels, price, c) ==
    /\ c \in 0..Len(levels) /\ LowerBound(side, levels, price) = c + 1
    /\ \A i \in 1..c : Better(side, levels[i].price, price)
    /\ \A i \in (c + 1)..Len(levels) :
          (levels[i].price = price /\ i = c + 1) \/ Better(side, price, levels[i].price)

LEMMA LowerBoundSplits ==
    ASSUME NEW side, NEW levels, SideOK(side, levels), NEW price \in Nat
    PROVE  \E c : Splits(side, levels, price, c)
<1> DEFINE n == Len(levels)
           I == {i \in 1..n : Better(side, levels[i].price, price)}
           O == {i \in 1..n : ~ Better(side, levels[i].price, price)}
<1>1. levels \in Seq(PriceLevel) /\ Sorted(side, levels)  BY DEF SideOK
<1>2. n \in Nat /\ DOMAIN levels = 1..n  BY <1>1, LenProperties
<1>3. \A i \in 1..n : levels[i].price \in Nat
  <2>1. \A i \in 1..n : levels[i] \in PriceLevel  BY <1>1, LenProperties
  <2> QED  BY <2>1, PricesAssumption DEF PriceLevel
<1>4. LowerBound(side, levels, price) = 1 + Cardinality(I)  BY <1>2 DEF LowerBound
<1>5. \A i, j \in 1..n : i < j => Better(side, levels[i].price, levels[j].price)
  BY <1>1, <1>2 DEF Sorted
<1> HIDE DEF n
<1>6. CASE O = {}
  <2>1. I = 1..n /\ \A i \in 1..n : Better(side, levels[i].price, price)  BY <1>6
  <2>2. Cardinality(1..n) = n
    <3>1. Cardinality(1..n) = IF 1 > n THEN 0 ELSE n - 1 + 1  BY <1>2, FS_Interval
    <3> QED  BY <1>2, <3>1
  <2>3. LowerBound(side, levels, price) = n + 1
    <3>1. Cardinality(I) = n
      <4> HIDE DEF I
      <4> QED  BY <2>1, <2>2
    <3> HIDE DEF I
    <3> QED  BY <1>2, <1>4, <3>1
  <2>4. n \in 0..n /\ (n + 1)..n = {}  BY <1>2
  <2>5. Splits(side, levels, price, n)  BY <2>1, <2>3, <2>4 DEF Splits, n
  <2> QED  BY <2>5
<1>7. CASE O # {}
  <2>1. O \in SUBSET Nat  BY <1>2
  <2>2. PICK k \in O : \A y \in O : k <= y  BY <1>7, <2>1, LeastNumber
  <2>3. /\ k \in 1..n /\ k - 1 \in 0..n /\ (k - 1) + 1 = k /\ k - 1 \in Nat
        /\ ~ Better(side, levels[k].price, price)
    BY <1>2
  <2>4. \A i \in 1..(k - 1) : i \in 1..n /\ ~ (k <= i)  BY <1>2, <2>3
  <2>5. \A i \in 1..(k - 1) : Better(side, levels[i].price, price)  BY <2>2, <2>4
  <2>6. ASSUME NEW i \in k..n, i # k PROVE Better(side, price, levels[i].price)
    <3>1. i \in 1..n /\ k < i  BY <1>2, <2>3, <2>6
    <3>2. Better(side, levels[k].price, levels[i].price)  BY <1>5, <2>3, <3>1
    <3>3. levels[k].price \in Nat /\ levels[i].price \in Nat  BY <1>3, <2>3, <3>1
    <3> QED  BY <2>3, <3>2, <3>3 DEF Better
  <2>7. levels[k].price = price \/ Better(side, price, levels[k].price)
    <3>1. levels[k].price \in Nat  BY <1>3, <2>3
    <3> QED  BY <2>3, <3>1 DEF Better
  <2>8. \A i \in k..n :
          (levels[i].price = price /\ i = k) \/ Better(side, price, levels[i].price)
    BY <2>6, <2>7
  <2>9. I = 1..(k - 1)
    <3>1. \A i \in I : i \in 1..(k - 1)
      <4>1. SUFFICES ASSUME NEW i \in I, i \in k..n PROVE FALSE  BY <1>2, <2>3
      <4>2. Better(side, levels[i].price, price)  OBVIOUS
      <4>3. levels[i].price \in Nat  BY <1>3, <4>1
      <4>4. CASE i = k  BY <2>3, <4>2, <4>4
      <4>5. CASE i # k
        <5>1. Better(side, price, levels[i].price)  BY <2>6, <4>1, <4>5
        <5> QED  BY <4>2, <4>3, <5>1 DEF Better
      <4> QED  BY <4>4, <4>5
    <3>2. \A i \in 1..(k - 1) : i \in I  BY <2>4, <2>5
    <3> QED  BY <3>1, <3>2
  <2>10. Cardinality(1..(k - 1)) = k - 1
    <3>1. Cardinality(1..(k - 1)) = IF 1 > k - 1 THEN 0 ELSE (k - 1) - 1 + 1
      BY <2>3, FS_Interval
    <3> QED  BY <2>3, <3>1
  <2>11. LowerBound(side, levels, price) = (k - 1) + 1
    <3>1. Cardinality(I) = k - 1
      <4> HIDE DEF I
      <4> QED  BY <2>9, <2>10
    <3> HIDE DEF I
    <3> QED  BY <1>4, <2>3, <3>1
  <2>12. Splits(side, levels, price, k - 1)
    BY <2>3, <2>5, <2>8, <2>11 DEF Splits, n
  <2> QED  BY <2>12
<1> QED  BY <1>6, <1>7

\* What rests of an order, and a side it may join.
RestOK(order, levels) ==
    /\ order.price \in Prices /\ order.quantity \in Remaining
    /\ order.order_id \in OrderIds /\ order.timestamp \in Nat
    /\ \A x \in Marks(levels) : x[2] < order.timestamp

\* A level, or an empty one, that an order joins.
LEMMA WithGood ==
    ASSUME NEW level \in PriceLevel, Exact(level), InArrivalOrder(level.orders), NEW order,
           order.quantity \in Remaining, order.order_id \in OrderIds, order.timestamp \in Nat,
           \A t \in Stamps(level) : t < order.timestamp
    PROVE  /\ Good(With(level, order)) /\ With(level, order).price = level.price
           /\ Stamps(With(level, order)) = Stamps(level) \cup {order.timestamp}
<1> DEFINE node == [order_id |-> order.order_id, quantity |-> order.quantity,
                    timestamp |-> order.timestamp]
           s == level.orders
           n == Len(s)
           t == Append(s, node)
           new == With(level, order)
<1>1. node \in OrderNode /\ node.quantity = order.quantity /\ node.timestamp = order.timestamp
  BY DEF OrderNode, Remaining
<1>2. s \in Seq(OrderNode) /\ level.total_quantity = Quantity(s) % QuantityModulus
  BY DEF PriceLevel, Exact
<1>3. n \in Nat /\ DOMAIN s = 1..n  BY <1>2, LenProperties
<1>4. new = [price |-> level.price,
             total_quantity |-> (level.total_quantity + order.quantity) % QuantityModulus,
             orders |-> t]
  BY DEF With
<1> HIDE DEF node, s, n
<1>5. /\ t \in Seq(OrderNode) /\ Len(t) = n + 1 /\ t[n + 1] = node
      /\ \A i \in 1..n : t[i] = s[i]
  BY <1>1, <1>2, AppendProperties DEF n
<1>6. DOMAIN t = 1..(n + 1)  BY <1>5, LenProperties
<1>7. Quantity(t) = Quantity(s) + order.quantity
  <2>1. Countable(s)  BY <1>2, NodesCountable
  <2>2. node.quantity \in Nat  BY <1>1, QuantitiesAssumption DEF Remaining
  <2> QED  BY <1>1, <1>2, <2>1, <2>2, QuantityAppend
<1> HIDE DEF t
<1>8. Quantity(s) \in Nat  BY <1>2, NodesCountable, QuantityType
<1>9. QuantityModulus \in Nat \ {0} /\ order.quantity \in Int
  BY QuantitiesAssumption DEF Remaining
<1>10. ((Quantity(s) % QuantityModulus) + order.quantity) % QuantityModulus
          = (Quantity(s) + order.quantity) % QuantityModulus
  <2> DEFINE a == Quantity(s)
             b == order.quantity
  <2>1. a \in Int /\ b \in Int  BY <1>8, <1>9
  <2> HIDE DEF a, b
  <2>2. ((a % QuantityModulus) + b) % QuantityModulus = (a + b) % QuantityModulus
    BY <1>9, <2>1, RemainderAdd
  <2> QED  BY <2>2 DEF a, b
<1>11. (level.total_quantity + order.quantity) % QuantityModulus
          = Quantity(t) % QuantityModulus
  BY <1>2, <1>7, <1>10
<1>12. Quantity(t) % QuantityModulus \in Remaining
  <2>1. Quantity(t) \in Int  BY <1>7, <1>8, <1>9
  <2> QED  BY <1>9, <2>1, Remainder DEF Remaining
<1>13. /\ new \in PriceLevel /\ new.price = level.price /\ new.orders = t
       /\ new.total_quantity = Quantity(t) % QuantityModulus
  <2>1. level.price \in Prices  BY DEF PriceLevel
  <2> QED  BY <1>4, <1>5, <1>11, <1>12, <2>1 DEF PriceLevel, Remaining
<1> HIDE DEF new
<1>14. Stamps(new) = Stamps(level) \cup {order.timestamp}
  <2>1. \A i \in 1..(n + 1) : i = n + 1 \/ i \in 1..n  BY <1>3
  <2>2. n + 1 \in 1..(n + 1) /\ \A i \in 1..n : i \in 1..(n + 1)  BY <1>3
  <2>3. Stamps(level) = {s[i].timestamp : i \in 1..n}  BY <1>3 DEF Stamps, s
  <2>4. Stamps(new) = {t[i].timestamp : i \in 1..(n + 1)}  BY <1>6, <1>13 DEF Stamps
  <2> QED  BY <1>1, <1>5, <2>1, <2>2, <2>3, <2>4
<1>15. InArrivalOrder(t)
  <2>1. ASSUME NEW a \in 1..(n + 1), NEW b \in 1..(n + 1), a < b
        PROVE  t[a].timestamp < t[b].timestamp
    <3>1. a \in 1..n /\ t[a] = s[a]
      <4>1. a \in 1..n  BY <1>3, <2>1
      <4> QED  BY <1>5, <4>1
    <3>2. CASE b = n + 1
      <4>1. t[b].timestamp = order.timestamp  BY <1>1, <1>5, <3>2
      <4>2. s[a].timestamp \in Stamps(level)  BY <1>3, <3>1 DEF Stamps, s
      <4> QED  BY <3>1, <4>1, <4>2
    <3>3. CASE b \in 1..n
      <4>1. t[b] = s[b]  BY <1>5, <3>3
      <4>2. s[a].timestamp < s[b].timestamp
        BY <1>3, <2>1, <3>1, <3>3 DEF InArrivalOrder, s
      <4> QED  BY <3>1, <4>1, <4>2
    <3> QED  BY <1>3, <3>2, <3>3
  <2> QED  BY <1>6, <2>1 DEF InArrivalOrder
<1>16. t # <<>>
  <2>1. n + 1 # 0  BY <1>3
  <2> QED  BY <1>5, <2>1, EmptySeq
<1>17. Good(new)  BY <1>13, <1>15, <1>16 DEF Good, Exact
<1> QED  BY <1>13, <1>14, <1>17 DEF new
\* A side that an order joined.
Joined(side, levels, order, joined) ==
    /\ SideOK(side, joined)
    /\ Len(joined) \in Len(levels)..(Len(levels) + 1)
    /\ Marks(joined) \subseteq Marks(levels) \cup {<<order.price, order.timestamp>>}

\* The order's price has its level.
LEMMA JoinLevel ==
    ASSUME NEW side, NEW levels, SideOK(side, levels), NEW order, order.side = side,
           RestOK(order, levels), Find(side, levels, order.price) # {},
           NEW joined, joined = Join(levels, order)
    PROVE  Joined(side, levels, order, joined)
<1> DEFINE n == Len(levels)
           at == LowerBound(side, levels, order.price)
           kept == With(levels[at], order)
<1>1. levels \in Seq(PriceLevel)  BY DEF SideOK
<1>2. n \in Nat /\ DOMAIN levels = 1..n  BY <1>1, LenProperties
<1>3. at \in 1..n /\ levels[at].price = order.price  BY <1>2 DEF Find
<1>4. joined = [levels EXCEPT ![at] = kept]
  BY DEF Join
<1> HIDE DEF at, kept
<1>5. Good(kept) /\ kept.price = levels[at].price
      /\ Stamps(kept) = Stamps(levels[at]) \cup {order.timestamp}
  <2> DEFINE level == levels[at]
  <2>1. level \in PriceLevel /\ Exact(level) /\ InArrivalOrder(level.orders)
    <3>1. Good(level)  BY <1>3 DEF SideOK
    <3> QED  BY <3>1 DEF Good
  <2>2. ASSUME NEW t \in Stamps(level) PROVE t < order.timestamp
    <3>1. <<level.price, t>> \in Marks(levels)  BY <1>1, <1>3, MarkOf
    <3>2. <<level.price, t>>[2] < order.timestamp  BY <3>1 DEF RestOK
    <3> QED  BY <3>2
  <2>3. order.quantity \in Remaining /\ order.order_id \in OrderIds /\ order.timestamp \in Nat
    BY DEF RestOK
  <2> HIDE DEF level
  <2>4. /\ Good(With(level, order)) /\ With(level, order).price = level.price
        /\ Stamps(With(level, order)) = Stamps(level) \cup {order.timestamp}
    BY <2>1, <2>2, <2>3, WithGood
  <2> QED  BY <2>4 DEF level, kept
<1>6. /\ SideOK(side, joined) /\ Len(joined) = n
      /\ \A j \in 1..n : joined[j] = IF j = at THEN kept ELSE levels[j]
  <2>0. joined = Put(levels, at, kept)  BY <1>4 DEF Put
  <2>1. at \in 1..Len(levels) /\ Good(kept) /\ kept.price = levels[at].price  BY <1>3, <1>5
  <2>2. SideOK(side, levels)  OBVIOUS
  <2>3. /\ SideOK(side, joined) /\ Len(joined) = Len(levels)
        /\ \A j \in 1..Len(levels) : joined[j] = IF j = at THEN kept ELSE levels[j]
    BY <2>0, <2>1, <2>2, ReplaceLevel
  <2> QED  BY <2>3
<1>7. ASSUME NEW x \in Marks(joined)
      PROVE  x \in Marks(levels) \cup {<<order.price, order.timestamp>>}
  <2>1. joined \in Seq(PriceLevel)  BY <1>6 DEF SideOK
  <2>2. PICK i \in 1..n : \E t \in Stamps(joined[i]) : x = <<joined[i].price, t>>
    BY <1>6, <2>1, MarkOf
  <2>3. CASE i # at
    <3>1. joined[i] = levels[i]  BY <1>6, <2>3
    <3>2. x \in Marks(levels)  BY <1>1, <2>2, <3>1, MarkOf
    <3> QED  BY <3>2
  <2>4. CASE i = at
    <3>1. joined[i] = kept  BY <1>6, <2>4
    <3>2. PICK t \in Stamps(levels[at]) \cup {order.timestamp} : x = <<levels[at].price, t>>
      BY <1>5, <2>2, <3>1
    <3>3. CASE t = order.timestamp  BY <1>3, <3>2, <3>3
    <3>4. CASE t \in Stamps(levels[at])
      <4>1. x \in Marks(levels)  BY <1>1, <1>3, <3>2, <3>4, MarkOf
      <4> QED  BY <4>1
    <3> QED  BY <3>3, <3>4
  <2> QED  BY <2>3, <2>4
<1>8. Len(joined) \in n..(n + 1)  BY <1>2, <1>6
<1> QED  BY <1>6, <1>7, <1>8 DEF Joined

\* The order opens a level at its price.
LEMMA JoinNew ==
    ASSUME NEW side \in Sides, NEW levels, SideOK(side, levels), NEW order, order.side = side,
           RestOK(order, levels), Find(side, levels, order.price) = {},
           NEW joined, joined = Join(levels, order)
    PROVE  Joined(side, levels, order, joined)
<1> DEFINE n == Len(levels)
           empty == [price |-> order.price, total_quantity |-> 0, orders |-> <<>>]
           kept == With(empty, order)
<1>1. levels \in Seq(PriceLevel)  BY DEF SideOK
<1>2. n \in Nat /\ DOMAIN levels = 1..n  BY <1>1, LenProperties
<1>3. /\ order.price \in Prices /\ order.price \in Nat /\ order.quantity \in Remaining
      /\ order.order_id \in OrderIds /\ order.timestamp \in Nat
  BY PricesAssumption DEF RestOK
<1>4. PICK c : Splits(side, levels, order.price, c)  BY <1>3, LowerBoundSplits
<1>5. /\ c \in 0..n /\ c \in Nat /\ LowerBound(side, levels, order.price) = c + 1
      /\ \A i \in 1..c : Better(side, levels[i].price, order.price)
  BY <1>4 DEF Splits
<1>6. ASSUME NEW i \in (c + 1)..n PROVE Better(side, order.price, levels[i].price)
  <2>1. i \in DOMAIN levels  BY <1>2, <1>5
  <2>2. ~ (i = c + 1 /\ levels[i].price = order.price)  BY <1>5, <2>1 DEF Find
  <2>3. \/ levels[i].price = order.price /\ i = c + 1
        \/ Better(side, order.price, levels[i].price)
    BY <1>4 DEF Splits
  <2> QED  BY <2>2, <2>3
<1>7. joined = InsertAt(levels, c + 1, kept)  BY <1>5 DEF Join
<1>8. Good(kept) /\ kept.price = order.price /\ Stamps(kept) = {order.timestamp}
  <2>1. /\ empty.price = order.price /\ empty.total_quantity = 0 /\ empty.orders = <<>>
        /\ empty \in PriceLevel
    <3>1. 0 \in 0..(QuantityModulus - 1)  BY QuantitiesAssumption
    <3>2. <<>> \in Seq(OrderNode)  OBVIOUS
    <3> QED  BY <1>3, <3>1, <3>2 DEF PriceLevel
  <2> HIDE DEF empty
  <2>2. Exact(empty)
    <3>1. 0 % QuantityModulus = 0
      <4>1. QuantityModulus \in Nat \ {0}  BY QuantitiesAssumption
      <4> QED  BY <4>1
    <3> QED  BY <2>1, <3>1, QuantityEmpty DEF Exact
  <2>3. DOMAIN <<>> = {}  OBVIOUS
  <2>4. InArrivalOrder(empty.orders)  BY <2>1, <2>3 DEF InArrivalOrder
  <2>5. Stamps(empty) = {}  BY <2>1, <2>3 DEF Stamps
  <2>6. \A t \in Stamps(empty) : t < order.timestamp  BY <2>5
  <2>7. /\ Good(With(empty, order)) /\ With(empty, order).price = empty.price
        /\ Stamps(With(empty, order)) = Stamps(empty) \cup {order.timestamp}
    BY <1>3, <2>1, <2>2, <2>4, <2>6, WithGood
  <2> QED  BY <2>1, <2>5, <2>7
<1> HIDE DEF n, kept
<1>9. kept \in PriceLevel  BY <1>8 DEF Good
<1>10. /\ joined \in Seq(PriceLevel) /\ Len(joined) = n + 1 /\ joined[c + 1] = kept
       /\ \A j \in 1..((c + 1) - 1) : joined[j] = levels[j]
       /\ \A j \in ((c + 1) + 1)..(n + 1) : joined[j] = levels[j - 1]
  <2> DEFINE at == c + 1
  <2>1. n = Len(levels) /\ at \in Nat /\ at > 0 /\ at <= Len(levels) + 1
    BY <1>2, <1>5 DEF n
  <2>2. joined = InsertAt(levels, at, kept)  BY <1>7
  <2> HIDE DEF at
  <2>3. joined \in Seq(PriceLevel) /\ Inserted(levels, kept, at, joined)
    BY <1>1, <1>9, <2>1, <2>2, InsertAtFacts
  <2> QED  BY <2>1, <2>3 DEF Inserted, at
<1>11. /\ \A j \in 1..c : j \in 1..n /\ joined[j] = levels[j]
       /\ \A j \in (c + 2)..(n + 1) : j - 1 \in (c + 1)..n /\ joined[j] = levels[j - 1]
  <2>1. (c + 1) - 1 = c /\ (c + 1) + 1 = c + 2  BY <1>5
  <2>2. /\ \A j \in 1..c : j \in 1..n
        /\ \A j \in (c + 2)..(n + 1) : j - 1 \in (c + 1)..n
    BY <1>2, <1>5
  <2> QED  BY <1>10, <2>1, <2>2
<1>12. \A j \in 1..(n + 1) : j \in 1..c \/ j = c + 1 \/ j \in (c + 2)..(n + 1)
  BY <1>2, <1>5
<1>13. \A j \in 1..Len(joined) : Good(joined[j])
  <2>1. ASSUME NEW j \in 1..(n + 1) PROVE Good(joined[j])
    <3>1. CASE j \in 1..c
      <4>1. j \in 1..Len(levels) /\ joined[j] = levels[j]  BY <1>11, <3>1 DEF n
      <4> QED  BY <4>1 DEF SideOK
    <3>2. CASE j = c + 1  BY <1>8, <1>10, <3>2
    <3>3. CASE j \in (c + 2)..(n + 1)
      <4>1. j - 1 \in 1..Len(levels) /\ joined[j] = levels[j - 1]
        BY <1>2, <1>5, <1>11, <3>3 DEF n
      <4> QED  BY <4>1 DEF SideOK
    <3> QED  BY <1>12, <3>1, <3>2, <3>3
  <2> QED  BY <1>10, <2>1
<1>14. Sorted(side, joined)
  <2>1. \A i, j \in 1..n : i < j => Better(side, levels[i].price, levels[j].price)
    BY <1>2 DEF SideOK, Sorted
  <2>2. ASSUME NEW i \in 1..(n + 1), NEW j \in 1..(n + 1), i < j
        PROVE  Better(side, joined[i].price, joined[j].price)
    <3>1. CASE i \in 1..c /\ j \in 1..c
      <4>1. /\ i \in 1..n /\ j \in 1..n /\ joined[i] = levels[i] /\ joined[j] = levels[j]
        BY <1>11, <3>1
      <4> QED  BY <2>1, <2>2, <4>1
    <3>2. CASE i \in 1..c /\ j = c + 1
      <4>1. joined[i] = levels[i] /\ joined[j] = kept  BY <1>10, <1>11, <3>2
      <4>2. Better(side, levels[i].price, order.price)  BY <1>5, <3>2
      <4> QED  BY <1>8, <4>1, <4>2
    <3>3. CASE i \in 1..c /\ j \in (c + 2)..(n + 1)
      <4>1. i \in 1..n /\ joined[i] = levels[i] /\ joined[j] = levels[j - 1]
        BY <1>11, <3>3
      <4>2. j - 1 \in 1..n /\ i < j - 1  BY <1>2, <1>5, <3>3
      <4> QED  BY <2>1, <4>1, <4>2
    <3>4. CASE i = c + 1 /\ j \in (c + 2)..(n + 1)
      <4>1. joined[i] = kept /\ joined[j] = levels[j - 1] /\ j - 1 \in (c + 1)..n
        BY <1>10, <1>11, <3>4
      <4>2. Better(side, order.price, levels[j - 1].price)  BY <1>6, <4>1
      <4> QED  BY <1>8, <4>1, <4>2
    <3>5. CASE i \in (c + 2)..(n + 1) /\ j \in (c + 2)..(n + 1)
      <4>1. joined[i] = levels[i - 1] /\ joined[j] = levels[j - 1]  BY <1>11, <3>5
      <4>2. i - 1 \in 1..n /\ j - 1 \in 1..n /\ i - 1 < j - 1
        BY <1>2, <1>5, <2>2, <3>5
      <4> QED  BY <2>1, <4>1, <4>2
    <3>6. \/ i \in 1..c /\ j \in 1..c
          \/ i \in 1..c /\ j = c + 1
          \/ i \in 1..c /\ j \in (c + 2)..(n + 1)
          \/ i = c + 1 /\ j \in (c + 2)..(n + 1)
          \/ i \in (c + 2)..(n + 1) /\ j \in (c + 2)..(n + 1)
      BY <1>2, <1>5, <2>2
    <3> QED  BY <3>1, <3>2, <3>3, <3>4, <3>5, <3>6
  <2>3. DOMAIN joined = 1..(n + 1)  BY <1>10, LenProperties
  <2> QED  BY <2>2, <2>3 DEF Sorted
<1>15. SideOK(side, joined)  BY <1>10, <1>13, <1>14 DEF SideOK
<1>16. ASSUME NEW x \in Marks(joined)
       PROVE  x \in Marks(levels) \cup {<<order.price, order.timestamp>>}
  <2>1. PICK i \in 1..(n + 1) : \E t \in Stamps(joined[i]) : x = <<joined[i].price, t>>
    BY <1>10, MarkOf
  <2>2. CASE i \in 1..c
    <3>1. i \in 1..Len(levels) /\ joined[i] = levels[i]  BY <1>11, <2>2 DEF n
    <3>2. x \in Marks(levels)  BY <1>1, <2>1, <3>1, MarkOf
    <3> QED  BY <3>2
  <2>3. CASE i = c + 1
    <3>1. joined[i] = kept  BY <1>10, <2>3
    <3> QED  BY <1>8, <2>1, <3>1
  <2>4. CASE i \in (c + 2)..(n + 1)
    <3>1. i - 1 \in 1..Len(levels) /\ joined[i] = levels[i - 1]
      BY <1>2, <1>5, <1>11, <2>4 DEF n
    <3>2. x \in Marks(levels)  BY <1>1, <2>1, <3>1, MarkOf
    <3> QED  BY <3>2
  <2> QED  BY <1>12, <2>2, <2>3, <2>4
<1>17. Len(joined) \in n..(n + 1)  BY <1>2, <1>10
<1> QED  BY <1>15, <1>16, <1>17 DEF Joined, n

\* A side in which an order rests.
LEMMA RestJoins ==
    ASSUME NEW side \in Sides, NEW levels, SideOK(side, levels), Len(levels) <= MaxDepthLevels,
           NEW order, order.side = side, RestOK(order, levels)
    PROVE  /\ SideOK(side, Rest(levels, order)) /\ Len(Rest(levels, order)) <= MaxDepthLevels
           /\ Marks(Rest(levels, order))
                \subseteq Marks(levels) \cup {<<order.price, order.timestamp>>}
<1> DEFINE joined == Join(levels, order)
<1>1. Joined(side, levels, order, joined)
  <2>1. CASE Find(side, levels, order.price) = {}  BY <2>1, JoinNew
  <2>2. CASE Find(side, levels, order.price) # {}  BY <2>2, JoinLevel
  <2> QED  BY <2>1, <2>2
<1>2. Len(levels) \in Nat
  <2>1. levels \in Seq(PriceLevel)  BY DEF SideOK
  <2> QED  BY <2>1, LenProperties
<1>3. Rest(levels, order) =
        IF Len(joined) <= MaxDepthLevels THEN joined
        ELSE IF Last(joined).price = order.price THEN levels ELSE Front(joined)
  BY DEF Rest
<1> HIDE DEF joined
<1>4. CASE Len(joined) <= MaxDepthLevels
  BY <1>1, <1>3, <1>4 DEF Joined
<1>5. CASE ~ (Len(joined) <= MaxDepthLevels) /\ Last(joined).price = order.price
  BY <1>3, <1>5
<1>6. CASE ~ (Len(joined) <= MaxDepthLevels) /\ Last(joined).price # order.price
  <2>1. Len(joined) \in Nat /\ Len(joined) > 0 /\ Len(joined) - 1 <= MaxDepthLevels
    BY <1>1, <1>2, <1>6, LimitsAssumption DEF Joined
  <2>2. /\ SideOK(side, Front(joined)) /\ Marks(Front(joined)) \subseteq Marks(joined)
        /\ Len(Front(joined)) = Len(joined) - 1
    BY <1>1, <2>1, FrontLevels DEF Joined
  <2> QED  BY <1>1, <1>3, <1>6, <2>1, <2>2 DEF Joined
<1> QED  BY <1>4, <1>5, <1>6
\* What a match leaves of the side it sweeps.
Matched(taker, side, levels, m) ==
    /\ SideOK(side, m.levels) /\ Len(m.levels) <= Len(levels)
    /\ Marks(m.levels) \subseteq Marks(levels)
    /\ \A t \in ToSet(m.retired) : /\ \E x \in Marks(levels) : x[2] = t
                                   /\ \A x \in Marks(m.levels) : x[2] # t
    /\ m.left \in Remaining /\ m.overflow \in BOOLEAN /\ m.retired \in Seq(Nat)
    /\ m.trades \in Seq(TradeReport) /\ Len(m.trades) <= MaxTradesPerOrder
    /\ \/ m.overflow \/ m.left = 0
       \/ \A x \in Marks(m.levels) : Better(Opposite(taker.side), taker.price, x[1])

LEMMA MatchOrderMatched ==
    ASSUME NEW taker, taker.quantity \in Remaining, NEW side, NEW levels,
           SideOK(side, levels), Apart(levels)
    PROVE  Matched(taker, side, levels, MatchOrder(taker, levels))
<1> DEFINE m == MatchOrder(taker, levels)
           n == Len(levels)
<1>1. m \in Sweeping /\ SweptTo(taker, side, levels, n, m)  BY MatchOrderSwept
<1>2. levels \in Seq(PriceLevel)  BY DEF SideOK
<1> HIDE DEF m
<1>3. /\ m \in LevelsState /\ Len(m.trades) <= MaxTradesPerOrder
      /\ m.left \in Remaining /\ m.overflow \in BOOLEAN /\ m.retired \in Seq(Nat)
      /\ m.trades \in Seq(TradeReport) /\ m.levels \in Seq(PriceLevel)
  BY <1>1 DEF Sweeping, LevelsState
<1>4. \A i \in 1..Len(m.levels) : \E j \in 1..n : Remains(m.levels[i], levels[j])
  BY <1>1 DEF SweptTo
<1>5. \A i \in 1..Len(m.levels) : Good(m.levels[i])  BY <1>4 DEF Remains
<1>6. SideOK(side, m.levels)  BY <1>1, <1>3, <1>5 DEF SideOK, SweptTo
<1>7. ASSUME NEW x \in Marks(m.levels)
      PROVE  /\ x \in Marks(levels) /\ x[2] \notin ToSet(m.retired)
             /\ m.overflow \/ m.left = 0 \/ Better(Opposite(taker.side), taker.price, x[1])
  <2>1. PICK i \in 1..Len(m.levels) : \E t \in Stamps(m.levels[i]) : x = <<m.levels[i].price, t>>
    <3> DEFINE kept == m.levels
    <3>1. kept \in Seq(PriceLevel) /\ x \in Marks(kept)  BY <1>3
    <3> HIDE DEF kept
    <3>2. \E i \in 1..Len(kept) : \E t \in Stamps(kept[i]) : x = <<kept[i].price, t>>
      BY <3>1, MarkOf
    <3> QED  BY <3>2 DEF kept
  <2>2. PICK t \in Stamps(m.levels[i]) : x = <<m.levels[i].price, t>>  BY <2>1
  <2>3. x[1] = m.levels[i].price /\ x[2] = t  BY <2>2
  <2>4. PICK j \in 1..n : Remains(m.levels[i], levels[j])  BY <1>4
  <2>5. m.levels[i].price = levels[j].price /\ t \in Stamps(levels[j])  BY <2>4 DEF Remains
  <2>6. x \in Marks(levels)  BY <1>2, <2>2, <2>5, MarkOf
  <2>7. x[2] \notin ToSet(m.retired)  BY <1>1, <2>2, <2>3 DEF SweptTo
  <2>8. m.overflow \/ m.left = 0 \/ Better(Opposite(taker.side), taker.price, x[1])
    BY <1>1, <2>3 DEF SweptTo
  <2> QED  BY <2>6, <2>7, <2>8
<1>8. ASSUME NEW t \in ToSet(m.retired) PROVE \E x \in Marks(levels) : x[2] = t
  <2>1. PICK j \in 1..n : t \in Stamps(levels[j])  BY <1>1 DEF SweptTo
  <2>2. <<levels[j].price, t>> \in Marks(levels)  BY <1>2, <2>1, MarkOf
  <2>3. <<levels[j].price, t>>[2] = t  OBVIOUS
  <2> QED  BY <2>2, <2>3
<1>9. Len(m.levels) <= n  BY <1>1 DEF SweptTo
<1>10. Matched(taker, side, levels, m)  BY <1>3, <1>6, <1>7, <1>8, <1>9 DEF Matched
<1> QED  BY <1>10 DEF m
-----------------------------------------------------------------------------
(* The nodes of the book and of the hazard pointer domain *)

\* No two marks of a side have the same arrival.
Unique(marks) == \A x, y \in marks : x[2] = y[2] => x = y

LEMMA UniqueApart ==
    ASSUME NEW side \in Sides, NEW levels, SideOK(side, levels), Unique(Marks(levels))
    PROVE  Apart(levels)
<1> DEFINE n == Len(levels)
<1>1. levels \in Seq(PriceLevel)  BY DEF SideOK
<1>2. n \in Nat /\ DOMAIN levels = 1..n  BY <1>1, LenProperties
<1>3. ASSUME NEW i \in 1..n, NEW j \in 1..n, i < j PROVE levels[i].price # levels[j].price
  <2>1. Better(side, levels[i].price, levels[j].price)  BY <1>2, <1>3 DEF SideOK, Sorted
  <2>2. levels[i].price \in Nat /\ levels[j].price \in Nat
    <3>1. levels[i] \in PriceLevel /\ levels[j] \in PriceLevel  BY <1>1, LenProperties
    <3> QED  BY <3>1, PricesAssumption DEF PriceLevel
  <2> QED  BY <2>1, <2>2 DEF Better
<1>4. ASSUME NEW i \in 1..n, NEW j \in 1..n, i # j, NEW t \in Stamps(levels[i]),
             t \in Stamps(levels[j])
      PROVE  FALSE
  <2>1. <<levels[i].price, t>> \in Marks(levels) /\ <<levels[j].price, t>> \in Marks(levels)
    BY <1>1, <1>4, MarkOf
  <2>2. <<levels[i].price, t>> = <<levels[j].price, t>>
    <3>1. <<levels[i].price, t>>[2] = <<levels[j].price, t>>[2]  OBVIOUS
    <3> QED  BY <2>1, <3>1 DEF Unique
  <2>3. levels[i].price = levels[j].price  BY <2>2
  <2>4. i < j \/ j < i  BY <1>2, <1>4
  <2> QED  BY <1>3, <2>3, <2>4
<1> QED  BY <1>4 DEF Apart

\* The marks of the bids and of the asks, the retired nodes and the clock.
NodesApart(B, A, S, c) ==
    /\ \A x \in B, y \in A : x[1] < y[1] /\ x[2] # y[2]
    /\ Unique(B) /\ Unique(A)
    /\ \A x \in B \cup A : x[2] \in 0..(c - 1) /\ x[2] \notin S
    /\ S \subseteq 0..(c - 1)

LEMMA Shrunk ==
    ASSUME NEW B, NEW A, NEW S, NEW c \in Nat, NodesApart(B, A, S, c),
           NEW B2 \in SUBSET B, NEW A2 \in SUBSET A, NEW c2 \in Nat, c <= c2,
           NEW S2, S2 \subseteq 0..(c - 1),
           \A x \in B2 \cup A2 : x[2] \notin S2
    PROVE  NodesApart(B2, A2, S2, c2)
<1>1. (0..(c - 1)) \subseteq 0..(c2 - 1)  OBVIOUS
<1>2. Unique(B2) /\ Unique(A2)  BY DEF NodesApart, Unique
<1>3. \A x \in B2 \cup A2 : x[2] \in 0..(c2 - 1) /\ x[2] \notin S2  BY <1>1 DEF NodesApart
<1>4. \A x \in B2, y \in A2 : x[1] < y[1] /\ x[2] # y[2]  BY DEF NodesApart
<1>5. S2 \subseteq 0..(c2 - 1)  BY <1>1
<1> QED  BY <1>2, <1>3, <1>4, <1>5 DEF NodesApart

LEMMA GrownBids ==
    ASSUME NEW B, NEW A, NEW S, NEW c \in Nat, NodesApart(B, A, S, c),
           NEW p, \A y \in A : p < y[1]
    PROVE  NodesApart(B \cup {<<p, c>>}, A, S, c + 1)
<1> DEFINE new == <<p, c>>
<1>1. new[1] = p /\ new[2] = c  OBVIOUS
<1> HIDE DEF new
<1>2. (0..(c - 1)) \subseteq 0..((c + 1) - 1) /\ c \in 0..((c + 1) - 1) /\ c \notin 0..(c - 1)
  OBVIOUS
<1>3. \A x \in B \cup A : x[2] \in 0..(c - 1) /\ x[2] # c  BY <1>2 DEF NodesApart
<1>4. Unique(B \cup {new}) /\ Unique(A)  BY <1>1, <1>3 DEF NodesApart, Unique
<1>5. \A x \in B \cup {new}, y \in A : x[1] < y[1] /\ x[2] # y[2]
  BY <1>1, <1>3 DEF NodesApart
<1>6. \A x \in B \cup {new} \cup A : x[2] \in 0..((c + 1) - 1) /\ x[2] \notin S
  BY <1>1, <1>2 DEF NodesApart
<1>7. S \subseteq 0..((c + 1) - 1)  BY <1>2 DEF NodesApart
<1>8. NodesApart(B \cup {new}, A, S, c + 1)  BY <1>4, <1>5, <1>6, <1>7 DEF NodesApart
<1> QED  BY <1>8 DEF new

LEMMA GrownAsks ==
    ASSUME NEW B, NEW A, NEW S, NEW c \in Nat, NodesApart(B, A, S, c),
           NEW p, \A x \in B : x[1] < p
    PROVE  NodesApart(B, A \cup {<<p, c>>}, S, c + 1)
<1> DEFINE new == <<p, c>>
<1>1. new[1] = p /\ new[2] = c  OBVIOUS
<1> HIDE DEF new
<1>2. (0..(c - 1)) \subseteq 0..((c + 1) - 1) /\ c \in 0..((c + 1) - 1) /\ c \notin 0..(c - 1)
  OBVIOUS
<1>3. \A x \in B \cup A : x[2] \in 0..(c - 1) /\ x[2] # c  BY <1>2 DEF NodesApart
<1>4. Unique(A \cup {new}) /\ Unique(B)  BY <1>1, <1>3 DEF NodesApart, Unique
<1>5. \A x \in B, y \in A \cup {new} : x[1] < y[1] /\ x[2] # y[2]
  BY <1>1, <1>3 DEF NodesApart
<1>6. \A x \in B \cup A \cup {new} : x[2] \in 0..((c + 1) - 1) /\ x[2] \notin S
  BY <1>1, <1>2 DEF NodesApart
<1>7. S \subseteq 0..((c + 1) - 1)  BY <1>2 DEF NodesApart
<1>8. NodesApart(B, A \cup {new}, S, c + 1)  BY <1>4, <1>5, <1>6, <1>7 DEF NodesApart
<1> QED  BY <1>8 DEF new

LEMMA ToSetCardinality ==
    ASSUME NEW X, NEW s \in Seq(X)
    PROVE  IsFiniteSet(ToSet(s)) /\ Cardinality(ToSet(s)) <= Len(s)
<1> DEFINE n == Len(s)
           f == [i \in 1..n |-> s[i]]
<1>1. n \in Nat /\ DOMAIN s = 1..n  BY LenProperties
<1>2. ToSet(s) = {s[i] : i \in 1..n}  BY <1>1 DEF ToSet
<1> HIDE DEF n
<1>3. f \in Surjection(1..n, ToSet(s))  BY <1>2 DEF Surjection
<1>4. IsFiniteSet(1..n) /\ Cardinality(1..n) = n
  <2>1. /\ IsFiniteSet(1..n)
        /\ Cardinality(1..n) = IF 1 > n THEN 0 ELSE n - 1 + 1
    BY <1>1, FS_Interval
  <2>2. (IF 1 > n THEN 0 ELSE n - 1 + 1) = n  BY <1>1
  <2> QED  BY <2>1, <2>2
<1> HIDE DEF f
<1>5. IsFiniteSet(ToSet(s)) /\ Cardinality(ToSet(s)) <= Cardinality(1..n)
  BY <1>3, <1>4, FS_Surjection
<1> QED  BY <1>4, <1>5 DEF n

LEMMA RemainderBelow ==
    ASSUME NEW d \in Nat \ {0}, NEW a \in Nat, a >= d PROVE a % d <= a - d
<1> DEFINE q == a \div d
           r == a % d
<1>1. r \in 0..(d - 1) /\ q \in Int /\ a = d * q + r  BY Remainder
<1> HIDE DEF q, r
<1>2. q >= 1
  <2>1. SUFFICES ASSUME q <= 0 PROVE FALSE  BY <1>1
  <2>2. d * q <= 0  BY <1>1, <2>1
  <2> QED  BY <1>1, <2>2
<1>3. d * q >= d  BY <1>1, <1>2
<1>4. r <= a - d  BY <1>1, <1>3
<1> QED  BY <1>4 DEF r

\* However many nodes an operation retires, fewer than a threshold stay, none new.
LEMMA RetireAllBounded ==
    ASSUME NEW nodes \in Seq(Nat), IsFiniteSet(smr), Cardinality(smr) < RetireThreshold
    PROVE  /\ RetireAll(nodes) \subseteq smr \cup ToSet(nodes)
           /\ IsFiniteSet(RetireAll(nodes)) /\ Cardinality(RetireAll(nodes)) < RetireThreshold
<1> DEFINE n == Len(nodes)
           k == Cardinality(smr)
           total == k + n
           left == total % RetireThreshold
           tail == SubSeq(nodes, n - left + 1, n)
<1>1. n \in Nat /\ k \in Nat /\ k < RetireThreshold /\ RetireThreshold \in Nat \ {0}
  BY LenProperties, FS_CardinalityType, LimitsAssumption
<1>2. IsFiniteSet(ToSet(nodes)) /\ Cardinality(ToSet(nodes)) <= n  BY ToSetCardinality
<1>3. RetireAll(nodes) = IF total < RetireThreshold THEN smr \cup ToSet(nodes) ELSE ToSet(tail)
  BY DEF RetireAll
<1> HIDE DEF n, k
<1>4. CASE total < RetireThreshold
  <2> DEFINE all == smr \cup ToSet(nodes)
             both == smr \cap ToSet(nodes)
  <2>1. /\ IsFiniteSet(all)
        /\ Cardinality(all) = k + Cardinality(ToSet(nodes)) - Cardinality(both)
    BY <1>2, FS_Union DEF k
  <2>2. Cardinality(both) \in Nat /\ Cardinality(ToSet(nodes)) \in Nat
    <3>1. both \in SUBSET smr  OBVIOUS
    <3>2. IsFiniteSet(both)
      <4> HIDE DEF both
      <4> QED  BY <3>1, FS_Subset
    <3> QED  BY <1>2, <3>2, FS_CardinalityType
  <2>3. RetireAll(nodes) = all  BY <1>3, <1>4
  <2> HIDE DEF all, both
  <2>4. Cardinality(all) < RetireThreshold  BY <1>1, <1>2, <1>4, <2>1, <2>2
  <2> QED  BY <2>1, <2>3, <2>4 DEF all
<1>5. CASE ~ (total < RetireThreshold)
  <2>1. total \in Nat /\ total >= RetireThreshold  BY <1>1, <1>5
  <2>2. left <= total - RetireThreshold /\ left \in 0..(RetireThreshold - 1)
    <3> DEFINE t == total
    <3>1. t \in Nat /\ t >= RetireThreshold /\ t \in Int  BY <2>1
    <3> HIDE DEF t
    <3>2. t % RetireThreshold <= t - RetireThreshold  BY <1>1, <3>1, RemainderBelow
    <3>3. t % RetireThreshold \in 0..(RetireThreshold - 1)  BY <1>1, <3>1, Remainder
    <3> QED  BY <3>2, <3>3 DEF t
  <2> HIDE DEF left
  <2>3. left \in Nat /\ left < n  BY <1>1, <2>2
  <2> DEFINE a == n - left + 1
  <2>4. a \in 1..(n + 1) /\ n - a + 1 = left  BY <1>1, <2>3
  <2>5. tail = SubSeq(nodes, a, n)  OBVIOUS
  <2> HIDE DEF a, tail
  <2>6. /\ tail \in Seq(Nat) /\ Len(tail) = left
        /\ \A i \in 1..left : tail[i] = nodes[a + i - 1] /\ a + i - 1 \in 1..n
    <3>1. \A i \in 1..n : nodes[i] \in Nat  BY LenProperties DEF n
    <3>2. \A i \in a..n : nodes[i] \in Nat  BY <2>4, <3>1, <1>1
    <3>3. a \in Int /\ n \in Int  BY <2>4, <1>1
    <3>4. /\ SubSeq(nodes, a, n) \in Seq(Nat)
          /\ Len(SubSeq(nodes, a, n)) = (IF a <= n THEN n - a + 1 ELSE 0)
          /\ \A i \in 1..(n - a + 1) : SubSeq(nodes, a, n)[i] = nodes[a + i - 1]
      BY <3>2, <3>3, SubSeqProperties
    <3>5. \A i \in 1..left : a + i - 1 \in 1..n  BY <1>1, <2>3, <2>4
    <3>6. Len(tail) = left  BY <1>1, <2>3, <2>4, <2>5, <3>4
    <3> QED  BY <2>4, <2>5, <3>4, <3>5, <3>6
  <2>7. IsFiniteSet(ToSet(tail)) /\ Cardinality(ToSet(tail)) <= left
    BY <2>6, ToSetCardinality
  <2>8. ASSUME NEW t \in ToSet(tail) PROVE t \in ToSet(nodes)
    <3>1. DOMAIN tail = 1..left /\ DOMAIN nodes = 1..n  BY <2>6, LenProperties DEF n
    <3>2. PICK i \in 1..left : t = tail[i]  BY <3>1 DEF ToSet
    <3>3. a + i - 1 \in DOMAIN nodes /\ t = nodes[a + i - 1]  BY <2>6, <3>1, <3>2
    <3> QED  BY <3>3 DEF ToSet
  <2>9. Cardinality(ToSet(tail)) \in Nat  BY <2>7, FS_CardinalityType
  <2>10. Cardinality(ToSet(tail)) < RetireThreshold  BY <1>1, <2>2, <2>3, <2>7, <2>9
  <2>11. RetireAll(nodes) = ToSet(tail)  BY <1>3, <1>5
  <2> QED  BY <2>7, <2>8, <2>10, <2>11
<1> QED  BY <1>4, <1>5
\* The nodes seen from one side: its own marks and those of the opposite side.
Around(side, own, opposite, S, c) ==
    IF side = "buy" THEN NodesApart(own, opposite, S, c) ELSE NodesApart(opposite, own, S, c)

LEMMA AroundFacts ==
    ASSUME NEW side \in Sides, NEW O, NEW P, NEW S, NEW c, Around(side, O, P, S, c)
    PROVE  /\ Unique(O) /\ Unique(P) /\ S \subseteq 0..(c - 1)
           /\ \A x \in O \cup P : x[2] \in 0..(c - 1) /\ x[2] \notin S
           /\ \A x \in O, y \in P : x[2] # y[2]
<1>1. CASE side = "buy"
  <2>1. NodesApart(O, P, S, c)  BY <1>1 DEF Around
  <2> QED  BY <2>1 DEF NodesApart
<1>2. CASE side = "sell"
  <2>1. NodesApart(P, O, S, c)  BY <1>2 DEF Around
  <2> QED  BY <2>1 DEF NodesApart
<1> QED  BY <1>1, <1>2 DEF Sides

LEMMA AroundShrunk ==
    ASSUME NEW side \in Sides, NEW O, NEW P, NEW S, NEW c \in Nat, Around(side, O, P, S, c),
           NEW O2 \in SUBSET O, NEW P2 \in SUBSET P, NEW c2 \in Nat, c <= c2,
           NEW S2, S2 \subseteq 0..(c - 1), \A x \in O2 \cup P2 : x[2] \notin S2
    PROVE  Around(side, O2, P2, S2, c2)
<1>1. CASE side = "buy"
  <2>1. NodesApart(O, P, S, c)  BY <1>1 DEF Around
  <2>2. NodesApart(O2, P2, S2, c2)  BY <2>1, Shrunk
  <2> QED  BY <1>1, <2>2 DEF Around
<1>2. CASE side = "sell"
  <2>1. NodesApart(P, O, S, c)  BY <1>2 DEF Around
  <2>2. \A x \in P2 \cup O2 : x[2] \notin S2  OBVIOUS
  <2>3. NodesApart(P2, O2, S2, c2)  BY <2>1, <2>2, Shrunk
  <2> QED  BY <1>2, <2>3 DEF Around
<1> QED  BY <1>1, <1>2 DEF Sides

LEMMA AroundGrown ==
    ASSUME NEW side \in Sides, NEW O, NEW P, NEW S, NEW c \in Nat, Around(side, O, P, S, c),
           NEW p \in Nat,
           \A y \in P : y[1] \in Nat /\ Better(Opposite(side), p, y[1])
    PROVE  Around(side, O \cup {<<p, c>>}, P, S, c + 1)
<1>1. CASE side = "buy"
  <2>1. NodesApart(O, P, S, c)  BY <1>1 DEF Around
  <2>2. \A y \in P : p < y[1]  BY <1>1 DEF Better, Opposite
  <2>3. NodesApart(O \cup {<<p, c>>}, P, S, c + 1)  BY <2>1, <2>2, GrownBids
  <2> QED  BY <1>1, <2>3 DEF Around
<1>2. CASE side = "sell"
  <2>1. NodesApart(P, O, S, c)  BY <1>2 DEF Around
  <2>2. \A y \in P : y[1] < p  BY <1>2 DEF Better, Opposite
  <2>3. NodesApart(P, O \cup {<<p, c>>}, S, c + 1)  BY <2>1, <2>2, GrownAsks
  <2> QED  BY <1>2, <2>3 DEF Around
<1> QED  BY <1>1, <1>2 DEF Sides

\* A level without its j-th order.
Without(level, j) ==
    [level EXCEPT !.orders = RemoveAt(@, j),
                  !.total_quantity = (@ - level.orders[j].quantity) % QuantityModulus]

LEMMA WithoutOrder ==
    ASSUME NEW level \in PriceLevel, Good(level), NEW j \in 1..Len(level.orders),
           NEW rest, rest = Without(level, j)
    PROVE  /\ rest.orders # <<>> => Good(rest)
           /\ rest.price = level.price
           /\ Stamps(rest) \subseteq Stamps(level) \ {level.orders[j].timestamp}
<1> DEFINE s == level.orders
           n == Len(s)
           t == RemoveAt(s, j)
           q == s[j].quantity
           total == (level.total_quantity - q) % QuantityModulus
<1>1. s \in Seq(OrderNode) /\ level.total_quantity = Quantity(s) % QuantityModulus
  BY DEF PriceLevel, Good, Exact
<1>2. n \in Nat /\ DOMAIN s = 1..n /\ j \in 1..n /\ Countable(s) /\ Stamped(s)
  BY <1>1, LenProperties, NodesCountable
<1>3. InArrivalOrder(s)  BY DEF Good
<1>4. rest = [level EXCEPT !.orders = t, !.total_quantity = total]
  BY DEF Without
<1>5. q \in Nat  BY <1>2 DEF Countable
<1> HIDE DEF s, n, t, q
<1>6. /\ t \in Seq(OrderNode) /\ Len(t) = n - 1
      /\ \A i \in 1..(n - 1) : t[i] = IF i < j THEN s[i] ELSE s[i + 1]
  BY <1>1, <1>2, RemoveAtFacts, ZenonT(40) DEF n, t
<1>7. Quantity(t) = Quantity(s) - q
  BY <1>1, <1>2, <1>6, QuantityRemove DEF n, q
<1>8. Quantity(s) \in Nat  BY <1>1, <1>2, QuantityType
<1>9. QuantityModulus \in Nat \ {0}  BY QuantitiesAssumption
<1>10. total = Quantity(t) % QuantityModulus /\ total \in Remaining
  <2> DEFINE a == Quantity(s)
             b == - q
  <2>1. a \in Int /\ b \in Int /\ (a % QuantityModulus) \in Int  BY <1>5, <1>8, <1>9
  <2>2. total = ((a % QuantityModulus) + b) % QuantityModulus
    <3>1. (a % QuantityModulus) - q = (a % QuantityModulus) + b  BY <1>5, <2>1
    <3> QED  BY <1>1, <3>1
  <2>3. Quantity(t) = a + b  BY <1>5, <1>7, <1>8
  <2> HIDE DEF a, b, total
  <2>4. ((a % QuantityModulus) + b) % QuantityModulus = (a + b) % QuantityModulus
    BY <1>9, <2>1, RemainderAdd
  <2>5. a + b \in Int  BY <2>1
  <2>6. (a + b) % QuantityModulus \in 0..(QuantityModulus - 1)  BY <1>9, <2>5, Remainder
  <2> QED  BY <2>2, <2>3, <2>4, <2>6 DEF Remaining
<1> HIDE DEF total
<1>11. /\ rest \in PriceLevel /\ rest.price = level.price /\ rest.orders = t
       /\ rest.total_quantity = total
  BY <1>4, <1>6, <1>10 DEF PriceLevel, Remaining
<1>12. DOMAIN t = 1..(n - 1)  BY <1>6, LenProperties
<1> DEFINE f == [i \in 1..(n - 1) |-> IF i < j THEN i ELSE i + 1]
<1>13. /\ \A i \in 1..(n - 1) : f[i] \in 1..n /\ f[i] # j /\ t[i] = s[f[i]]
       /\ \A i, k \in 1..(n - 1) : i < k => f[i] < f[k]
  <2>1. \A i \in 1..(n - 1) : f[i] \in 1..n /\ f[i] # j  BY <1>2
  <2>2. \A i, k \in 1..(n - 1) : i < k => f[i] < f[k]  BY <1>2
  <2>3. \A i \in 1..(n - 1) : t[i] = s[f[i]]  BY <1>6
  <2> QED  BY <2>1, <2>2, <2>3
<1> HIDE DEF f
<1>14. \A i, k \in 1..n : i < k => s[i].timestamp < s[k].timestamp
  BY <1>2, <1>3 DEF InArrivalOrder
<1>15. InArrivalOrder(t)  BY <1>12, <1>13, <1>14 DEF InArrivalOrder
<1>16. \A i \in 1..n : i # j => s[i].timestamp # s[j].timestamp
  <2>1. SUFFICES ASSUME NEW i \in 1..n, i # j PROVE s[i].timestamp # s[j].timestamp
    OBVIOUS
  <2>2. s[i].timestamp \in Nat /\ s[j].timestamp \in Nat  BY <1>2, <2>1 DEF Stamped, n
  <2>3. i < j \/ j < i  BY <1>2, <2>1
  <2>4. s[i].timestamp < s[j].timestamp \/ s[j].timestamp < s[i].timestamp
    BY <1>2, <1>14, <2>1, <2>3
  <2> QED  BY <2>2, <2>4
<1>17. ASSUME NEW x \in Stamps(rest) PROVE x \in Stamps(level) /\ x # s[j].timestamp
  <2>1. PICK i \in 1..(n - 1) : x = t[i].timestamp  BY <1>11, <1>12 DEF Stamps
  <2>2. f[i] \in 1..n /\ f[i] # j /\ x = s[f[i]].timestamp  BY <1>13, <2>1
  <2> QED  BY <1>2, <1>16, <2>2 DEF Stamps, s
<1>18. rest.orders # <<>> => Good(rest)  BY <1>10, <1>11, <1>15 DEF Good, Exact
<1> QED  BY <1>11, <1>17, <1>18 DEF s

\* A level whose j-th order has a new quantity.
Requantified(level, j, q) ==
    [level EXCEPT
        !.orders[j].quantity = q,
        !.total_quantity =
            (level.total_quantity - level.orders[j].quantity + q) % QuantityModulus]

LEMMA WithQuantity ==
    ASSUME NEW level \in PriceLevel, Good(level), NEW j \in 1..Len(level.orders),
           NEW q \in Remaining, NEW kept, kept = Requantified(level, j, q)
    PROVE  Good(kept) /\ kept.price = level.price /\ Stamps(kept) = Stamps(level)
<1> DEFINE s == level.orders
           n == Len(s)
           node == [s[j] EXCEPT !.quantity = q]
           t == [s EXCEPT ![j] = node]
           old == s[j].quantity
           total == (level.total_quantity - old + q) % QuantityModulus
<1>1. s \in Seq(OrderNode) /\ level.total_quantity = Quantity(s) % QuantityModulus
  BY DEF PriceLevel, Good, Exact
<1>2. n \in Nat /\ DOMAIN s = 1..n /\ j \in 1..n /\ Countable(s) /\ s[j] \in OrderNode
  BY <1>1, LenProperties, NodesCountable
<1>3. InArrivalOrder(s) /\ s # <<>>  BY DEF Good
<1>4. kept = [level EXCEPT !.orders = t, !.total_quantity = total]
  BY DEF Requantified
<1>5. old \in Nat /\ q \in Nat  BY <1>2, QuantitiesAssumption DEF Countable, Remaining
<1>6. node \in OrderNode /\ node.quantity = q /\ node.timestamp = s[j].timestamp
  BY <1>2 DEF OrderNode, Remaining
<1> HIDE DEF s, n, node
<1>7. /\ t \in Seq(OrderNode) /\ Len(t) = n
      /\ \A i \in 1..n : t[i] = IF i = j THEN node ELSE s[i]
  BY <1>1, <1>2, <1>6, ExceptSeq DEF n
<1> HIDE DEF t
<1>8. Quantity(t) = Quantity(s) - old + q
  <2>1. Countable(t)  BY <1>7, NodesCountable
  <2>2. \A i \in 1..n : i # j => t[i].quantity = s[i].quantity  BY <1>7
  <2>3. t[j].quantity = q  BY <1>2, <1>6, <1>7
  <2>4. Quantity(t) = Quantity(s) - s[j].quantity + t[j].quantity
    BY <1>1, <1>2, <1>7, <2>1, <2>2, QuantityChange DEF n
  <2> QED  BY <2>3, <2>4
<1> HIDE DEF old
<1>9. Quantity(s) \in Nat  BY <1>1, <1>2, QuantityType
<1>10. QuantityModulus \in Nat \ {0}  BY QuantitiesAssumption
<1>11. total = Quantity(t) % QuantityModulus /\ total \in Remaining
  <2> DEFINE a == Quantity(s)
             b == q - old
  <2>1. a \in Int /\ b \in Int /\ (a % QuantityModulus) \in Int  BY <1>5, <1>9, <1>10
  <2>2. total = ((a % QuantityModulus) + b) % QuantityModulus
    <3>1. (a % QuantityModulus) - old + q = (a % QuantityModulus) + b  BY <1>5, <2>1
    <3> QED  BY <1>1, <3>1
  <2>3. Quantity(t) = a + b  BY <1>5, <1>8, <1>9
  <2> HIDE DEF a, b, total
  <2>4. ((a % QuantityModulus) + b) % QuantityModulus = (a + b) % QuantityModulus
    BY <1>10, <2>1, RemainderAdd
  <2>5. a + b \in Int  BY <2>1
  <2>6. (a + b) % QuantityModulus \in 0..(QuantityModulus - 1)  BY <1>10, <2>5, Remainder
  <2> QED  BY <2>2, <2>3, <2>4, <2>6 DEF Remaining
<1> HIDE DEF total
<1>12. /\ kept \in PriceLevel /\ kept.price = level.price /\ kept.orders = t
       /\ kept.total_quantity = total
  BY <1>4, <1>7, <1>11 DEF PriceLevel, Remaining
<1>13. DOMAIN t = 1..n  BY <1>7, LenProperties
<1>14. \A i \in 1..n : t[i].timestamp = s[i].timestamp  BY <1>6, <1>7
<1>15. InArrivalOrder(t)  BY <1>2, <1>3, <1>13, <1>14 DEF InArrivalOrder
<1>16. t # <<>>
  <2>1. n # 0  BY <1>2
  <2> QED  BY <1>7, <2>1, EmptySeq
<1>17. Good(kept)  BY <1>11, <1>12, <1>15, <1>16 DEF Good, Exact
<1>18. Stamps(kept) = Stamps(level)
  <2>1. Stamps(kept) = {t[i].timestamp : i \in 1..n}  BY <1>12, <1>13 DEF Stamps
  <2>2. Stamps(level) = {s[i].timestamp : i \in 1..n}  BY <1>2 DEF Stamps, s
  <2> QED  BY <1>14, <2>1, <2>2
<1> QED  BY <1>12, <1>17, <1>18
\* A side without its order j of level i.
LEMMA SideWithout ==
    ASSUME NEW side \in Sides, NEW levels, SideOK(side, levels), Unique(Marks(levels)),
           NEW i \in 1..Len(levels), NEW j \in 1..Len(levels[i].orders),
           NEW rest,
           rest.orders # <<>> => Good(rest),
           rest.price = levels[i].price,
           Stamps(rest) \subseteq Stamps(levels[i]) \ {levels[i].orders[j].timestamp},
           NEW new,
           new = IF rest.orders = <<>> THEN RemoveAt(levels, i) ELSE Put(levels, i, rest)
    PROVE  /\ SideOK(side, new) /\ Len(new) <= Len(levels)
           /\ Marks(new) \subseteq Marks(levels)
           /\ \A x \in Marks(new) : x[2] # levels[i].orders[j].timestamp
<1> DEFINE n == Len(levels)
           stamp == levels[i].orders[j].timestamp
<1>1. levels \in Seq(PriceLevel) /\ levels[i] \in PriceLevel  BY LenProperties DEF SideOK
<1>2. n \in Nat  BY <1>1, LenProperties
<1>3. stamp \in Stamps(levels[i])
  <2>1. levels[i].orders \in Seq(OrderNode)  BY <1>1 DEF PriceLevel
  <2>2. j \in DOMAIN levels[i].orders  BY <2>1, LenProperties
  <2> QED  BY <2>2 DEF Stamps
<1> HIDE DEF stamp
<1>4. Apart(levels)  BY UniqueApart
<1>5. \A k \in 1..n : k # i => stamp \notin Stamps(levels[k])  BY <1>3, <1>4 DEF Apart
<1>6. CASE rest.orders = <<>>
  <2>1. new = RemoveAt(levels, i)  BY <1>6
  <2>2. /\ SideOK(side, new) /\ Marks(new) \subseteq Marks(levels)
        /\ Len(new) = n - 1
        /\ OthersOf(levels, i, new)
    BY <2>1, RemoveLevel
  <2>3. ASSUME NEW x \in Marks(new) PROVE x[2] # stamp
    <3>1. new \in Seq(PriceLevel)  BY <2>2 DEF SideOK
    <3>2. PICK k \in 1..Len(new) : \E t \in Stamps(new[k]) : x = <<new[k].price, t>>
      BY <3>1, MarkOf
    <3>3. x[2] \in Stamps(new[k])  BY <3>2
    <3>4. PICK l \in 1..n : l # i /\ new[k] = levels[l]  BY <2>2 DEF OthersOf
    <3> QED  BY <1>5, <3>3, <3>4
  <2>4. Len(new) <= n  BY <1>2, <2>2
  <2> QED  BY <2>2, <2>3, <2>4 DEF stamp
<1>7. CASE rest.orders # <<>>
  <2>1. new = Put(levels, i, rest) /\ Good(rest)  BY <1>7
  <2>2. /\ SideOK(side, new) /\ Len(new) = n
        /\ \A k \in 1..n : new[k] = IF k = i THEN rest ELSE levels[k]
    BY <2>1, ReplaceLevel
  <2>3. ASSUME NEW x \in Marks(new) PROVE x \in Marks(levels) /\ x[2] # stamp
    <3>1. new \in Seq(PriceLevel)  BY <2>2 DEF SideOK
    <3>2. PICK k \in 1..n : \E t \in Stamps(new[k]) : x = <<new[k].price, t>>
      BY <2>2, <3>1, MarkOf
    <3>3. PICK t \in Stamps(new[k]) : x = <<new[k].price, t>>  BY <3>2
    <3>4. new[k].price = levels[k].price /\ t \in Stamps(levels[k]) /\ t # stamp
      <4>1. CASE k = i
        <5>1. new[k] = rest  BY <2>2, <4>1
        <5>2. t \in Stamps(levels[i]) \ {stamp}  BY <3>3, <5>1 DEF stamp
        <5> QED  BY <4>1, <5>1, <5>2
      <4>2. CASE k # i
        <5>1. new[k] = levels[k]  BY <2>2, <4>2
        <5> QED  BY <1>5, <3>3, <4>2, <5>1
      <4> QED  BY <4>1, <4>2
    <3>5. x \in Marks(levels)  BY <1>1, <3>3, <3>4, MarkOf
    <3> QED  BY <3>3, <3>4, <3>5
  <2>4. Len(new) <= n  BY <1>2, <2>2
  <2> QED  BY <2>2, <2>3, <2>4 DEF stamp
<1> QED  BY <1>6, <1>7

\* A side whose level i has the same nodes as before.
LEMMA SideWithSameNodes ==
    ASSUME NEW side, NEW levels, SideOK(side, levels), NEW i \in 1..Len(levels),
           NEW kept, Good(kept), kept.price = levels[i].price, Stamps(kept) = Stamps(levels[i]),
           NEW new, new = Put(levels, i, kept)
    PROVE  SideOK(side, new) /\ Len(new) = Len(levels) /\ Marks(new) \subseteq Marks(levels)
<1> DEFINE n == Len(levels)
<1>1. levels \in Seq(PriceLevel)  BY DEF SideOK
<1>2. /\ SideOK(side, new) /\ Len(new) = n
      /\ \A k \in 1..n : new[k] = IF k = i THEN kept ELSE levels[k]
  BY ReplaceLevel
<1>3. ASSUME NEW x \in Marks(new) PROVE x \in Marks(levels)
  <2>1. new \in Seq(PriceLevel)  BY <1>2 DEF SideOK
  <2>2. PICK k \in 1..n : \E t \in Stamps(new[k]) : x = <<new[k].price, t>>
    BY <1>2, <2>1, MarkOf
  <2>3. new[k].price = levels[k].price /\ Stamps(new[k]) = Stamps(levels[k])
    <3>1. CASE k = i
      <4>1. new[k] = kept  BY <1>2, <3>1
      <4> QED  BY <3>1, <4>1
    <3>2. CASE k # i
      <4>1. new[k] = levels[k]  BY <1>2, <3>2
      <4> QED  BY <4>1
    <3> QED  BY <3>1, <3>2
  <2>4. \E t \in Stamps(levels[k]) : x = <<levels[k].price, t>>  BY <2>2, <2>3
  <2> QED  BY <1>1, <2>4, MarkOf
<1> QED  BY <1>2, <1>3
-----------------------------------------------------------------------------
(* The invariant *)

\* Each side alone, the nodes of both sides and of the hazard pointer domain, and what
\* is kept of the domain.
BookInv ==
    /\ \A side \in Sides : SideOK(side, Levels(side)) /\ Len(Levels(side)) <= MaxDepthLevels
    /\ NodesApart(Marks(bids), Marks(asks), smr, clock)
    /\ clock \in 0..MaxOrders
    /\ IsFiniteSet(smr) /\ Cardinality(smr) < RetireThreshold
    /\ reply.trades \in Seq(TradeReport) /\ Len(reply.trades) <= MaxTradesPerOrder

\* The two sides, seen from one of them.
Faces(side, own, opposite) ==
    /\ SideOK(side, own) /\ Len(own) <= MaxDepthLevels
    /\ SideOK(Opposite(side), opposite) /\ Len(opposite) <= MaxDepthLevels

LEMMA BookFaces ==
    ASSUME NEW side \in Sides, BookInv
    PROVE  /\ Faces(side, Levels(side), Levels(Opposite(side)))
           /\ Around(side, Marks(Levels(side)), Marks(Levels(Opposite(side))), smr, clock)
<1>1. Opposite(side) \in Sides  BY DEF Opposite, Sides
<1>2. Faces(side, Levels(side), Levels(Opposite(side)))  BY <1>1 DEF BookInv, Faces
<1>3. CASE side = "buy"
  <2>1. Levels(side) = bids /\ Levels(Opposite(side)) = asks  BY <1>3 DEF Levels, Opposite
  <2> QED  BY <1>2, <1>3, <2>1 DEF BookInv, Around
<1>4. CASE side = "sell"
  <2>1. Levels(side) = asks /\ Levels(Opposite(side)) = bids  BY <1>4 DEF Levels, Opposite
  <2>2. side # "buy"  BY <1>4
  <2> QED  BY <1>2, <2>1, <2>2 DEF BookInv, Around
<1> QED  BY <1>3, <1>4 DEF Sides

\* The invariant of the next state, from the two sides that an operation set.
LEMMA SetSidesKeep ==
    ASSUME NEW side \in Sides, NEW own, NEW opposite, SetSides(side, own, opposite),
           Faces(side, own, opposite),
           Around(side, Marks(own), Marks(opposite), smr', clock'),
           clock' \in 0..MaxOrders, IsFiniteSet(smr'), Cardinality(smr') < RetireThreshold,
           reply'.trades \in Seq(TradeReport), Len(reply'.trades) <= MaxTradesPerOrder
    PROVE  BookInv'
<1>1. CASE side = "buy"
  <2>1. bids' = own /\ asks' = opposite  BY <1>1 DEF SetSides
  <2>2. /\ SideOK("buy", bids') /\ Len(bids') <= MaxDepthLevels
        /\ SideOK("sell", asks') /\ Len(asks') <= MaxDepthLevels
    BY <1>1, <2>1 DEF Faces, Opposite
  <2>3. \A s \in Sides : (SideOK(s, Levels(s)) /\ Len(Levels(s)) <= MaxDepthLevels)'
    BY <2>2 DEF Sides, Levels
  <2>4. NodesApart(Marks(bids'), Marks(asks'), smr', clock')  BY <1>1, <2>1 DEF Around
  <2> QED  BY <2>3, <2>4 DEF BookInv
<1>2. CASE side = "sell"
  <2>1. asks' = own /\ bids' = opposite  BY <1>2 DEF SetSides
  <2>2. /\ SideOK("buy", bids') /\ Len(bids') <= MaxDepthLevels
        /\ SideOK("sell", asks') /\ Len(asks') <= MaxDepthLevels
    BY <1>2, <2>1 DEF Faces, Opposite
  <2>3. \A s \in Sides : (SideOK(s, Levels(s)) /\ Len(Levels(s)) <= MaxDepthLevels)'
    BY <2>2 DEF Sides, Levels
  <2>4. NodesApart(Marks(bids'), Marks(asks'), smr', clock')  BY <1>2, <2>1 DEF Around
  <2> QED  BY <2>3, <2>4 DEF BookInv
<1> QED  BY <1>1, <1>2 DEF Sides
-----------------------------------------------------------------------------
(* Every operation keeps it *)

LEMMA SetSideSets ==
    ASSUME NEW side \in Sides, NEW own, SetSide(side, own)
    PROVE  SetSides(side, own, Levels(Opposite(side)))
BY DEF SetSide, SetSides, Levels, Opposite, Sides

LEMMA FoundFacts ==
    ASSUME NEW side, NEW order_id, NEW price, SideOK(side, Levels(side)),
           NEW found \in Found(side, order_id, price)
    PROVE  /\ found[1] \in 1..Len(Levels(side))
           /\ found[2] \in 1..Len(Levels(side)[found[1]].orders)
<1> DEFINE levels == Levels(side)
           hit(i, j) == levels[i].orders[j].order_id = order_id
           first(i) == {j \in DOMAIN levels[i].orders :
                           hit(i, j) /\ \A k \in 1..(j - 1) : ~ hit(i, k)}
<1>1. Found(side, order_id, price) = UNION {{i} \X first(i) : i \in Find(side, levels, price)}
  BY DEF Found
<1>2. PICK i \in Find(side, levels, price) : found \in {i} \X first(i)  BY <1>1
<1>3. found[1] = i /\ found[2] \in DOMAIN levels[i].orders  BY <1>2
<1>4. levels \in Seq(PriceLevel)  BY DEF SideOK
<1>5. i \in DOMAIN levels  BY <1>2 DEF Find
<1> HIDE DEF levels
<1>6. i \in 1..Len(levels) /\ levels[i] \in PriceLevel  BY <1>4, <1>5, LenProperties
<1>7. levels[i].orders \in Seq(OrderNode)  BY <1>6 DEF PriceLevel
<1>8. found[2] \in 1..Len(levels[i].orders)  BY <1>3, <1>7, LenProperties
<1> QED  BY <1>3, <1>6, <1>8 DEF levels

LEMMA CancelKeeps ==
    ASSUME BookInv, NEW side \in Sides, NEW order_id, NEW price,
           CancelOrder(order_id, side, price)
    PROVE  BookInv'
<1> DEFINE levels == Levels(side)
           others == Levels(Opposite(side))
<1>1. /\ Faces(side, levels, others)
      /\ Around(side, Marks(levels), Marks(others), smr, clock)
  BY BookFaces
<1>2. SideOK(side, levels) /\ Len(levels) <= MaxDepthLevels /\ levels \in Seq(PriceLevel)
  BY <1>1 DEF Faces, SideOK
<1>3. PICK found \in Found(side, order_id, price) :
        LET i      == found[1]
            level  == levels[i]
            node   == level.orders[found[2]]
            rest   == [level EXCEPT !.orders = RemoveAt(@, found[2]),
                                    !.total_quantity = (@ - node.quantity) % QuantityModulus]
        IN  /\ SetSide(side, IF rest.orders = <<>> THEN RemoveAt(levels, i)
                             ELSE [levels EXCEPT ![i] = rest])
            /\ smr' = IF Cardinality(smr) + 1 >= RetireThreshold THEN {node.timestamp}
                      ELSE smr \cup {node.timestamp}
            /\ Reply("none", "none", <<>>, {node.timestamp})
            /\ UNCHANGED clock
  BY DEF CancelOrder
<1> DEFINE i == found[1]
           j == found[2]
           level == levels[i]
           stamp == level.orders[j].timestamp
           rest == Without(level, j)
           new == IF rest.orders = <<>> THEN RemoveAt(levels, i) ELSE Put(levels, i, rest)
<1>4. /\ SetSide(side, new) /\ Reply("none", "none", <<>>, {stamp}) /\ clock' = clock
      /\ smr' = IF Cardinality(smr) + 1 >= RetireThreshold THEN {stamp} ELSE smr \cup {stamp}
  BY <1>3 DEF Put, Without
<1>5. i \in 1..Len(levels) /\ j \in 1..Len(level.orders)
  BY <1>2, FoundFacts
<1>6. level \in PriceLevel /\ Good(level)  BY <1>2, <1>5, LenProperties DEF SideOK
<1> HIDE DEF levels, others, i, j
<1>7. /\ rest.orders # <<>> => Good(rest)
      /\ rest.price = level.price
      /\ Stamps(rest) \subseteq Stamps(level) \ {stamp}
  <2> HIDE DEF level
  <2> QED  BY <1>5, <1>6, WithoutOrder
<1> HIDE DEF rest
<1>8. Unique(Marks(levels))  BY <1>1, AroundFacts
<1>9. /\ SideOK(side, new) /\ Len(new) <= Len(levels)
      /\ Marks(new) \subseteq Marks(levels)
      /\ \A x \in Marks(new) : x[2] # stamp
  BY <1>2, <1>5, <1>7, <1>8, SideWithout
<1>10. \E x \in Marks(levels) : x[2] = stamp
  <2>1. level.orders \in Seq(OrderNode)  BY <1>6 DEF PriceLevel
  <2>2. stamp \in Stamps(level)
    <3>1. j \in DOMAIN level.orders  BY <1>5, <2>1, LenProperties
    <3> QED  BY <3>1 DEF Stamps
  <2>3. <<level.price, stamp>> \in Marks(levels)  BY <1>2, <1>5, <2>2, MarkOf
  <2>4. <<level.price, stamp>>[2] = stamp  OBVIOUS
  <2> QED  BY <2>3, <2>4
<1> HIDE DEF new, stamp, level
<1>11. clock \in 0..MaxOrders /\ clock \in Nat  BY LimitsAssumption DEF BookInv
<1>12. smr' \subseteq smr \cup {stamp}  BY <1>4
<1>13. Around(side, Marks(new), Marks(others), smr', clock')
  <2>1. /\ smr \subseteq 0..(clock - 1)
        /\ \A x \in Marks(levels) \cup Marks(others) : x[2] \in 0..(clock - 1) /\ x[2] \notin smr
        /\ \A x \in Marks(levels), y \in Marks(others) : x[2] # y[2]
    BY <1>1, AroundFacts
  <2>2. smr' \subseteq 0..(clock - 1)  BY <1>10, <1>12, <2>1
  <2>3. ASSUME NEW x \in Marks(new) \cup Marks(others) PROVE x[2] \notin smr'
    <3>1. x[2] \notin smr  BY <1>9, <2>1
    <3>2. x[2] # stamp
      <4>1. CASE x \in Marks(new)  BY <1>9, <4>1
      <4>2. CASE x \in Marks(others)  BY <1>10, <2>1, <4>2
      <4> QED  BY <4>1, <4>2
    <3> QED  BY <1>12, <3>1, <3>2
  <2> DEFINE O2 == Marks(new)
             P2 == Marks(others)
             S2 == smr'
  <2>4. /\ O2 \in SUBSET Marks(levels) /\ P2 \in SUBSET P2 /\ clock <= clock
        /\ S2 \subseteq 0..(clock - 1) /\ \A x \in O2 \cup P2 : x[2] \notin S2
    BY <1>9, <1>11, <2>2, <2>3
  <2>5. Around(side, Marks(levels), P2, smr, clock)  BY <1>1
  <2> HIDE DEF O2, P2, S2
  <2>6. Around(side, O2, P2, S2, clock)  BY <1>11, <2>4, <2>5, AroundShrunk
  <2> QED  BY <1>4, <2>6 DEF O2, P2, S2
<1>14. IsFiniteSet(smr') /\ Cardinality(smr') < RetireThreshold
  <2>1. IsFiniteSet(smr) /\ Cardinality(smr) \in Nat  BY FS_CardinalityType DEF BookInv
  <2>2. CASE Cardinality(smr) + 1 >= RetireThreshold
    <3>1. smr' = {stamp}  BY <1>4, <2>2
    <3>2. IsFiniteSet({stamp}) /\ Cardinality({stamp}) = 1  BY FS_Singleton
    <3> QED  BY <3>1, <3>2, LimitsAssumption
  <2>3. CASE ~ (Cardinality(smr) + 1 >= RetireThreshold)
    <3>1. smr' = smr \cup {stamp}  BY <1>4, <2>3
    <3>2. /\ IsFiniteSet(smr \cup {stamp})
          /\ Cardinality(smr \cup {stamp}) =
                IF stamp \in smr THEN Cardinality(smr) ELSE Cardinality(smr) + 1
      BY <2>1, FS_AddElement
    <3>3. Cardinality(smr \cup {stamp}) <= Cardinality(smr) + 1  BY <2>1, <3>2
    <3>4. Cardinality(smr \cup {stamp}) \in Nat  BY <3>2, FS_CardinalityType
    <3> QED  BY <2>1, <2>3, <3>1, <3>2, <3>3, <3>4, LimitsAssumption
  <2> QED  BY <2>2, <2>3
<1>15. reply'.trades = <<>>  BY <1>4 DEF Reply
<1>16. reply'.trades \in Seq(TradeReport) /\ Len(reply'.trades) <= MaxTradesPerOrder
  BY <1>15, LimitsAssumption
<1>17. Faces(side, new, others)
  <2>1. Len(new) <= MaxDepthLevels
    <3>1. new \in Seq(PriceLevel)  BY <1>9 DEF SideOK
    <3>2. Len(new) \in Nat /\ Len(levels) \in Nat  BY <1>2, <3>1, LenProperties
    <3> QED  BY <1>2, <1>9, <3>2, LimitsAssumption
  <2> QED  BY <1>1, <1>9, <2>1 DEF Faces
<1>18. SetSides(side, new, others)  BY <1>4, SetSideSets DEF others
<1>19. clock' \in 0..MaxOrders  BY <1>4, <1>11
<1> QED  BY <1>13, <1>14, <1>16, <1>17, <1>18, <1>19, SetSidesKeep

LEMMA ModifyKeeps ==
    ASSUME BookInv, NEW side \in Sides, NEW order_id, NEW price, NEW q \in NewQuantities,
           ModifyOrder(order_id, side, price, q)
    PROVE  BookInv'
<1> DEFINE levels == Levels(side)
           others == Levels(Opposite(side))
<1>1. /\ Faces(side, levels, others)
      /\ Around(side, Marks(levels), Marks(others), smr, clock)
  BY BookFaces
<1>2. SideOK(side, levels) /\ Len(levels) <= MaxDepthLevels /\ levels \in Seq(PriceLevel)
  BY <1>1 DEF Faces, SideOK
<1>3. PICK found \in Found(side, order_id, price) :
        LET i      == found[1]
            j      == found[2]
            level  == levels[i]
            total  == level.total_quantity - level.orders[j].quantity + q
        IN  /\ SetSide(side, [levels EXCEPT ![i] =
                  [level EXCEPT !.orders[j].quantity = q,
                                !.total_quantity = total % QuantityModulus]])
            /\ Reply("none", "none", <<>>, {})
            /\ UNCHANGED <<clock, smr>>
  BY DEF ModifyOrder
<1> DEFINE i == found[1]
           j == found[2]
           level == levels[i]
           kept == Requantified(level, j, q)
           new == Put(levels, i, kept)
<1>4. SetSide(side, new) /\ Reply("none", "none", <<>>, {}) /\ clock' = clock /\ smr' = smr
  BY <1>3 DEF Put, Requantified
<1>5. i \in 1..Len(levels) /\ j \in 1..Len(level.orders)
  BY <1>2, FoundFacts
<1>6. level \in PriceLevel /\ Good(level)  BY <1>2, <1>5, LenProperties DEF SideOK
<1> HIDE DEF levels, others, i, j
<1>7. Good(kept) /\ kept.price = level.price /\ Stamps(kept) = Stamps(level)
  <2>1. q \in Remaining  BY QuantitiesAssumption DEF Remaining
  <2> HIDE DEF level
  <2> QED  BY <1>5, <1>6, <2>1, WithQuantity
<1> HIDE DEF kept
<1>8. SideOK(side, new) /\ Len(new) = Len(levels) /\ Marks(new) \subseteq Marks(levels)
  BY <1>2, <1>5, <1>7, SideWithSameNodes
<1> HIDE DEF new
<1>9. clock \in 0..MaxOrders /\ clock \in Nat  BY LimitsAssumption DEF BookInv
<1>10. Around(side, Marks(new), Marks(others), smr', clock')
  <2> DEFINE O2 == Marks(new)
             P2 == Marks(others)
  <2>1. /\ smr \subseteq 0..(clock - 1)
        /\ \A x \in Marks(levels) \cup P2 : x[2] \notin smr
    BY <1>1, AroundFacts
  <2>2. /\ O2 \in SUBSET Marks(levels) /\ P2 \in SUBSET P2 /\ clock <= clock
        /\ \A x \in O2 \cup P2 : x[2] \notin smr
    BY <1>8, <1>9, <2>1
  <2>3. Around(side, Marks(levels), P2, smr, clock)  BY <1>1
  <2> HIDE DEF O2, P2
  <2>4. Around(side, O2, P2, smr, clock)  BY <1>9, <2>1, <2>2, <2>3, AroundShrunk
  <2> QED  BY <1>4, <2>4 DEF O2, P2
<1>11. reply'.trades = <<>>  BY <1>4 DEF Reply
<1>12. reply'.trades \in Seq(TradeReport) /\ Len(reply'.trades) <= MaxTradesPerOrder
  BY <1>11, LimitsAssumption
<1>13. Faces(side, new, others)  BY <1>1, <1>2, <1>8 DEF Faces
<1>14. SetSides(side, new, others)  BY <1>4, SetSideSets DEF others
<1>15. /\ clock' \in 0..MaxOrders /\ IsFiniteSet(smr') /\ Cardinality(smr') < RetireThreshold
  BY <1>4, <1>9 DEF BookInv
<1> QED  BY <1>10, <1>12, <1>13, <1>14, <1>15, SetSidesKeep
LEMMA AddKeeps ==
    ASSUME BookInv, NEW order \in Orders, AddValidOrder(order)
    PROVE  BookInv'
<1> DEFINE side == order.side
           own == Levels(side)
           opposite == Levels(Opposite(side))
           m == MatchOrder(order, opposite)
           rest == [side |-> order.side, price |-> order.price, quantity |-> m.left,
                    order_id |-> order.order_id, timestamp |-> clock]
           new == IF m.overflow \/ m.left = 0 THEN own ELSE Rest(own, rest)
<1>1. /\ side \in Sides /\ Opposite(side) \in Sides
      /\ order.price \in Prices /\ order.price \in Nat
      /\ order.quantity \in Remaining /\ order.order_id \in OrderIds
  BY OrdersAssumption, QuantitiesAssumption, PricesAssumption
  DEF Sides, Opposite, Remaining
<1>2. /\ clock < MaxOrders /\ clock' = clock + 1
      /\ SetSides(side, new, m.levels)
      /\ smr' = RetireAll(m.retired)
      /\ IF m.overflow
         THEN Reply("trade_batch_overflow", order, <<>>, ToSet(m.retired))
         ELSE Reply("none", order, m.trades, ToSet(m.retired))
  BY DEF AddValidOrder
<1>3. /\ Faces(side, own, opposite)
      /\ Around(side, Marks(own), Marks(opposite), smr, clock)
  BY <1>1, BookFaces
<1>4. /\ SideOK(side, own) /\ Len(own) <= MaxDepthLevels
      /\ SideOK(Opposite(side), opposite) /\ Len(opposite) <= MaxDepthLevels
      /\ opposite \in Seq(PriceLevel)
  BY <1>3 DEF Faces, SideOK
<1> HIDE DEF own, opposite
<1>5. Matched(order, Opposite(side), opposite, m)
  <2>1. Unique(Marks(opposite))  BY <1>1, <1>3, AroundFacts
  <2>2. Apart(opposite)  BY <1>1, <1>4, <2>1, UniqueApart
  <2> QED  BY <1>1, <1>4, <2>2, MatchOrderMatched
<1> HIDE DEF m
<1>6. /\ SideOK(Opposite(side), m.levels) /\ Len(m.levels) <= Len(opposite)
      /\ Marks(m.levels) \subseteq Marks(opposite)
      /\ \A t \in ToSet(m.retired) : /\ \E x \in Marks(opposite) : x[2] = t
                                     /\ \A x \in Marks(m.levels) : x[2] # t
      /\ m.left \in Remaining /\ m.overflow \in BOOLEAN /\ m.retired \in Seq(Nat)
      /\ m.trades \in Seq(TradeReport) /\ Len(m.trades) <= MaxTradesPerOrder
      /\ \/ m.overflow \/ m.left = 0
         \/ \A x \in Marks(m.levels) : Better(Opposite(side), order.price, x[1])
  BY <1>5 DEF Matched
<1>7. clock \in Nat /\ clock + 1 \in 0..MaxOrders
  BY <1>2, LimitsAssumption DEF BookInv
<1>8. /\ smr' \subseteq smr \cup ToSet(m.retired)
      /\ IsFiniteSet(smr') /\ Cardinality(smr') < RetireThreshold
  <2> DEFINE nodes == m.retired
  <2>1. nodes \in Seq(Nat) /\ IsFiniteSet(smr) /\ Cardinality(smr) < RetireThreshold
    BY <1>6 DEF BookInv
  <2> HIDE DEF nodes
  <2>2. /\ RetireAll(nodes) \subseteq smr \cup ToSet(nodes)
        /\ IsFiniteSet(RetireAll(nodes)) /\ Cardinality(RetireAll(nodes)) < RetireThreshold
    BY <2>1, RetireAllBounded
  <2> QED  BY <1>2, <2>2 DEF nodes
<1> DEFINE O == Marks(own)
           P == Marks(opposite)
           Q == Marks(m.levels)
           S2 == smr'
<1>9. Around(side, O, Q, S2, clock)
  <2>1. /\ smr \subseteq 0..(clock - 1)
        /\ \A x \in O \cup P : x[2] \in 0..(clock - 1) /\ x[2] \notin smr
        /\ \A x \in O, y \in P : x[2] # y[2]
    BY <1>1, <1>3, AroundFacts
  <2>2. ASSUME NEW t \in S2 PROVE t \in 0..(clock - 1)
    <3>1. CASE t \in smr  BY <2>1, <3>1
    <3>2. CASE t \in ToSet(m.retired)
      <4>1. PICK x \in P : x[2] = t  BY <1>6, <3>2
      <4> QED  BY <2>1, <4>1
    <3> QED  BY <1>8, <3>1, <3>2
  <2>3. ASSUME NEW x \in O \cup Q PROVE x[2] \notin S2
    <3>1. x \in O \cup P  BY <1>6
    <3>2. x[2] \notin smr  BY <2>1, <3>1
    <3>3. x[2] \notin ToSet(m.retired)
      <4>1. SUFFICES ASSUME x[2] \in ToSet(m.retired) PROVE FALSE  OBVIOUS
      <4>2. x \notin Q  BY <1>6, <4>1
      <4>3. PICK y \in P : y[2] = x[2]  BY <1>6, <4>1
      <4> QED  BY <2>1, <4>2, <4>3
    <3> QED  BY <1>8, <3>2, <3>3
  <2>4. /\ O \in SUBSET O /\ Q \in SUBSET P /\ clock <= clock
        /\ S2 \subseteq 0..(clock - 1) /\ \A x \in O \cup Q : x[2] \notin S2
    BY <1>6, <1>7, <2>2, <2>3
  <2>5. Around(side, O, P, smr, clock)  BY <1>3
  <2> HIDE DEF O, P, Q, S2
  <2> QED  BY <1>1, <1>7, <2>4, <2>5, AroundShrunk
<1>10. /\ S2 \subseteq 0..(clock - 1) /\ clock <= clock + 1 /\ clock + 1 \in Nat
       /\ S2 \subseteq 0..((clock + 1) - 1)
       /\ \A x \in O \cup Q : x[2] \notin S2 /\ x[2] \in 0..(clock - 1)
  <2>1. S2 \subseteq 0..(clock - 1) /\ \A x \in O \cup Q : x[2] \notin S2 /\ x[2] \in 0..(clock - 1)
    <3> HIDE DEF O, Q, S2
    <3> QED  BY <1>1, <1>9, AroundFacts
  <2> QED  BY <1>7, <2>1
<1>11. /\ SideOK(side, new) /\ Len(new) <= MaxDepthLevels
       /\ Around(side, Marks(new), Q, S2, clock + 1)
  <2>1. CASE m.overflow \/ m.left = 0
    <3>1. new = own  BY <2>1
    <3>2. Around(side, O, Q, S2, clock + 1)
      <4>1. O \in SUBSET O /\ Q \in SUBSET Q  OBVIOUS
      <4> HIDE DEF O, Q, S2
      <4> QED  BY <1>1, <1>7, <1>9, <1>10, <4>1, AroundShrunk
    <3> HIDE DEF new
    <3> QED  BY <1>4, <3>1, <3>2
  <2>2. CASE ~ (m.overflow \/ m.left = 0)
    <3>1. new = Rest(own, rest)  BY <2>2
    <3>2. /\ rest.side = side /\ rest.price = order.price /\ rest.timestamp = clock
          /\ rest.quantity = m.left /\ rest.order_id = order.order_id
      OBVIOUS
    <3> HIDE DEF rest, new
    <3>3. RestOK(rest, own)
      <4>1. \A x \in O : x[2] < clock  BY <1>7, <1>10
      <4> QED  BY <1>1, <1>6, <1>7, <3>2, <4>1 DEF RestOK
    <3>4. /\ SideOK(side, Rest(own, rest)) /\ Len(Rest(own, rest)) <= MaxDepthLevels
          /\ Marks(Rest(own, rest)) \subseteq O \cup {<<rest.price, rest.timestamp>>}
      BY <1>1, <1>4, <3>2, <3>3, RestJoins
    <3>5. Marks(new) \subseteq O \cup {<<order.price, clock>>}  BY <3>1, <3>2, <3>4
    <3>6. \A y \in Q : y[1] \in Nat /\ Better(Opposite(side), order.price, y[1])
      <4>1. ASSUME NEW y \in Q PROVE y[1] \in Nat
        <5> DEFINE kept == m.levels
        <5>1. kept \in Seq(PriceLevel) /\ y \in Marks(kept)  BY <1>6 DEF SideOK
        <5> HIDE DEF kept
        <5>2. PICK k \in 1..Len(kept) : \E t \in Stamps(kept[k]) : y = <<kept[k].price, t>>
          BY <5>1, MarkOf
        <5>3. kept[k] \in PriceLevel  BY <5>1, LenProperties
        <5>4. y[1] = kept[k].price  BY <5>2
        <5> QED  BY <5>3, <5>4, PricesAssumption DEF PriceLevel
      <4> QED  BY <1>6, <2>2, <4>1
    <3> DEFINE p == order.price
               O2 == Marks(new)
               O3 == O \cup {<<p, clock>>}
    <3>7. p \in Nat /\ \A y \in Q : y[1] \in Nat /\ Better(Opposite(side), p, y[1])
      BY <1>1, <3>6
    <3>8. Around(side, O3, Q, S2, clock + 1)
      <4> HIDE DEF O, Q, S2, p
      <4> QED  BY <1>1, <1>7, <1>9, <3>7, AroundGrown
    <3>9. /\ O2 \in SUBSET O3 /\ Q \in SUBSET Q /\ clock + 1 <= clock + 1
          /\ \A x \in O2 \cup Q : x[2] \notin S2
      <4>1. \A x \in O3 : x[2] \notin S2
        <5>1. <<p, clock>>[2] = clock  OBVIOUS
        <5>2. clock \notin 0..(clock - 1)  BY <1>7
        <5> HIDE DEF S2, O, Q, p
        <5> QED  BY <1>10, <5>1, <5>2
      <4> QED  BY <1>7, <1>10, <3>5, <4>1
    <3>10. Around(side, O2, Q, S2, clock + 1)
      <4> DEFINE c == clock + 1
      <4>1. c \in Nat /\ c <= c /\ S2 \subseteq 0..(c - 1)  BY <1>10
      <4>2. Around(side, O3, Q, S2, c)  BY <3>8
      <4> HIDE DEF O2, O3, Q, S2, c
      <4>3. Around(side, O2, Q, S2, c)  BY <1>1, <3>9, <4>1, <4>2, AroundShrunk
      <4> QED  BY <4>3 DEF c
    <3> QED  BY <3>1, <3>4, <3>10
  <2> QED  BY <2>1, <2>2
<1> HIDE DEF new
<1>12. Faces(side, new, m.levels)
  <2>1. Len(m.levels) <= MaxDepthLevels
    <3>1. m.levels \in Seq(PriceLevel)  BY <1>6 DEF SideOK
    <3>2. Len(m.levels) \in Nat /\ Len(opposite) \in Nat  BY <1>4, <3>1, LenProperties
    <3> QED  BY <1>4, <1>6, <3>2, LimitsAssumption
  <2> QED  BY <1>6, <1>11, <2>1 DEF Faces
<1>13. reply'.trades = <<>> \/ reply'.trades = m.trades  BY <1>2, <1>6 DEF Reply
<1>14. reply'.trades \in Seq(TradeReport) /\ Len(reply'.trades) <= MaxTradesPerOrder
  <2>1. <<>> \in Seq(TradeReport) /\ Len(<<>>) <= MaxTradesPerOrder  BY LimitsAssumption
  <2>2. m.trades \in Seq(TradeReport) /\ Len(m.trades) <= MaxTradesPerOrder  BY <1>6
  <2>3. CASE reply'.trades = <<>>  BY <2>1, <2>3
  <2>4. CASE reply'.trades = m.trades  BY <2>2, <2>4
  <2> QED  BY <1>13, <2>3, <2>4
<1>15. Around(side, Marks(new), Marks(m.levels), smr', clock')  BY <1>2, <1>11
<1>16. clock' \in 0..MaxOrders  BY <1>2, <1>7
<1> HIDE DEF side
<1> QED  BY <1>1, <1>2, <1>8, <1>12, <1>14, <1>15, <1>16, SetSidesKeep

\* An operation that only answers.
LEMMA OnlyReplyKeeps ==
    ASSUME BookInv, NEW error, Reply(error, "none", <<>>, {}),
           UNCHANGED <<bids, asks, clock, smr>>
    PROVE  BookInv'
<1>1. reply'.trades = <<>>  BY DEF Reply
<1>2. reply'.trades \in Seq(TradeReport) /\ Len(reply'.trades) <= MaxTradesPerOrder
  BY <1>1, LimitsAssumption
<1>3. \A side \in Sides : (SideOK(side, Levels(side)) /\ Len(Levels(side)) <= MaxDepthLevels)'
  BY DEF BookInv, Levels
<1> QED  BY <1>2, <1>3 DEF BookInv

LEMMA BookInitial == Init => BookInv
<1> SUFFICES ASSUME Init PROVE BookInv  OBVIOUS
<1>1. /\ bids = <<>> /\ asks = <<>> /\ clock = 0 /\ smr = {} /\ reply.trades = <<>>
  BY DEF Init
<1>2. /\ <<>> \in Seq(PriceLevel) /\ Len(<<>>) = 0 /\ DOMAIN <<>> = {} /\ 1..0 = {}
  OBVIOUS
<1>3. \A side \in Sides : SideOK(side, <<>>)  BY <1>2 DEF SideOK, Sorted
<1>4. \A side \in Sides : SideOK(side, Levels(side)) /\ Len(Levels(side)) <= MaxDepthLevels
  BY <1>1, <1>2, <1>3, LimitsAssumption DEF Levels
<1>5. Marks(<<>>) = {}  BY <1>2 DEF Marks
<1>6. NodesApart(Marks(bids), Marks(asks), smr, clock)
  BY <1>1, <1>5 DEF NodesApart, Unique
<1>7. IsFiniteSet(smr) /\ Cardinality(smr) < RetireThreshold
  BY <1>1, FS_EmptySet, LimitsAssumption
<1>8. /\ reply.trades \in Seq(TradeReport) /\ Len(reply.trades) <= MaxTradesPerOrder
  BY <1>1, LimitsAssumption
<1> QED  BY <1>1, <1>4, <1>6, <1>7, <1>8, LimitsAssumption DEF BookInv

LEMMA BookPreserved == BookInv /\ [Next]_vars => BookInv'
<1> SUFFICES ASSUME BookInv, [Next]_vars PROVE BookInv'  OBVIOUS
<1>1. CASE UNCHANGED vars
  BY <1>1 DEF BookInv, vars, Levels
<1>2. ASSUME NEW order \in Orders, TryAddOrder(order) PROVE BookInv'
  <2>1. CASE RejectOrder(order)  BY <2>1, OnlyReplyKeeps DEF RejectOrder
  <2>2. CASE AddValidOrder(order)  BY <2>2, AddKeeps
  <2> QED  BY <1>2, <2>1, <2>2 DEF TryAddOrder
<1>3. ASSUME NEW id \in OrderIds, NEW side \in Sides, NEW price \in Prices,
             CancelOrder(id, side, price)
      PROVE  BookInv'
  BY <1>3, CancelKeeps
<1>4. ASSUME NEW id \in OrderIds, NEW side \in Sides, NEW price \in Prices,
             NotFound(id, side, price)
      PROVE  BookInv'
  BY <1>4, OnlyReplyKeeps DEF NotFound
<1>5. ASSUME NEW id \in OrderIds, NEW side \in Sides, NEW price \in Prices,
             NEW q \in NewQuantities, ModifyOrder(id, side, price, q)
      PROVE  BookInv'
  BY <1>5, ModifyKeeps
<1> QED  BY <1>1, <1>2, <1>3, <1>4, <1>5 DEF Next

LEMMA BookAlways == Spec => []BookInv
BY BookInitial, BookPreserved, PTL DEF Spec
-----------------------------------------------------------------------------
(* What the invariant says *)

LEMMA LevelOfSide ==
    ASSUME BookInv, NEW side \in Sides, NEW i \in DOMAIN Levels(side)
    PROVE  /\ i \in 1..Len(Levels(side)) /\ Good(Levels(side)[i])
           /\ \A t \in Stamps(Levels(side)[i]) : <<Levels(side)[i].price, t>> \in Marks(Levels(side))
<1>1. SideOK(side, Levels(side)) /\ Levels(side) \in Seq(PriceLevel)  BY DEF BookInv, SideOK
<1>2. i \in 1..Len(Levels(side))  BY <1>1, LenProperties
<1>3. Good(Levels(side)[i])  BY <1>1, <1>2 DEF SideOK
<1>4. ASSUME NEW t \in Stamps(Levels(side)[i])
      PROVE  <<Levels(side)[i].price, t>> \in Marks(Levels(side))
  <2> DEFINE levels == Levels(side)
  <2>1. levels \in Seq(PriceLevel)  BY <1>1
  <2> HIDE DEF levels
  <2>2. \A l \in 1..Len(levels) : \A u \in Stamps(levels[l]) :
           <<levels[l].price, u>> \in Marks(levels)
    BY <2>1, MarkOf
  <2> QED  BY <1>2, <1>4, <2>2 DEF levels
<1> QED  BY <1>2, <1>3, <1>4

LEMMA RestingMarks ==
    ASSUME BookInv, NEW t \in Resting
    PROVE  \E x \in Marks(bids) \cup Marks(asks) : x[2] = t
<1>1. \E side \in Sides : \E i \in DOMAIN Levels(side) : t \in Stamps(Levels(side)[i])
  <2>1. \/ \E i \in DOMAIN bids : t \in Stamps(bids[i])
        \/ \E i \in DOMAIN asks : t \in Stamps(asks[i])
    <3>1. CASE t \in UNION {Stamps(bids[i]) : i \in DOMAIN bids}  BY <3>1
    <3>2. CASE t \in UNION {Stamps(asks[i]) : i \in DOMAIN asks}  BY <3>2
    <3> QED  BY <3>1, <3>2 DEF Resting
  <2>2. Levels("buy") = bids /\ Levels("sell") = asks /\ "buy" \in Sides /\ "sell" \in Sides
    BY DEF Levels, Sides
  <2> QED  BY <2>1, <2>2
<1>2. PICK side \in Sides : \E i \in DOMAIN Levels(side) : t \in Stamps(Levels(side)[i])
  BY <1>1
<1>3. PICK i \in DOMAIN Levels(side) : t \in Stamps(Levels(side)[i])  BY <1>2
<1>4. <<Levels(side)[i].price, t>> \in Marks(Levels(side))  BY <1>3, LevelOfSide
<1>5. <<Levels(side)[i].price, t>>[2] = t  OBVIOUS
<1>6. Marks(Levels(side)) \subseteq Marks(bids) \cup Marks(asks)  BY DEF Levels
<1> QED  BY <1>4, <1>5, <1>6

LEMMA BookIsTyped == BookInv => TypeOK
<1> SUFFICES ASSUME BookInv PROVE TypeOK  OBVIOUS
<1>1. bids \in Seq(PriceLevel) /\ asks \in Seq(PriceLevel)
  <2>1. Levels("buy") = bids /\ Levels("sell") = asks /\ "buy" \in Sides /\ "sell" \in Sides
    BY DEF Levels, Sides
  <2> QED  BY <2>1 DEF BookInv, SideOK
<1>2. ASSUME NEW t \in Resting PROVE t \in 0..(clock - 1)
  <2>1. PICK x \in Marks(bids) \cup Marks(asks) : x[2] = t  BY RestingMarks
  <2> QED  BY <2>1 DEF BookInv, NodesApart
<1>3. smr \cup Resting \subseteq 0..(clock - 1)  BY <1>2 DEF BookInv, NodesApart
<1>4. reply.trades \in Seq([maker : OrderIds, quantity : Nat, price : Prices])
  BY DEF BookInv, TradeReport
<1> QED  BY <1>1, <1>3, <1>4 DEF BookInv, TypeOK

LEMMA BookIsWellFormed == BookInv => WellFormed
<1> SUFFICES ASSUME BookInv PROVE WellFormed  OBVIOUS
<1>1. ASSUME NEW side \in Sides, NEW i \in DOMAIN Levels(side)
      PROVE  Levels(side)[i].orders # <<>>
  BY <1>1, LevelOfSide DEF Good
<1>2. \A side \in Sides : Len(Levels(side)) <= MaxDepthLevels /\ Sorted(side, Levels(side))
  BY DEF BookInv, SideOK
<1>3. ASSUME NEW i \in DOMAIN bids, NEW j \in DOMAIN asks PROVE bids[i].price < asks[j].price
  <2>1. Levels("buy") = bids /\ Levels("sell") = asks /\ "buy" \in Sides /\ "sell" \in Sides
    BY DEF Levels, Sides
  <2>2. ASSUME NEW side \in Sides, NEW k \in DOMAIN Levels(side)
        PROVE  \E x \in Marks(Levels(side)) : x[1] = Levels(side)[k].price
    <3> DEFINE level == Levels(side)[k]
    <3>1. Good(level) /\ level.orders \in Seq(OrderNode)
      <4>1. Good(level)  BY <2>2, LevelOfSide
      <4> QED  BY <4>1 DEF Good, PriceLevel
    <3>2. level.orders # <<>>  BY <3>1 DEF Good
    <3>3. 1 \in DOMAIN level.orders
      <4> DEFINE s == level.orders
      <4>1. s \in Seq(OrderNode) /\ s # <<>>  BY <3>1, <3>2
      <4> HIDE DEF s
      <4>2. Len(s) \in Nat /\ Len(s) # 0 /\ DOMAIN s = 1..Len(s)
        BY <4>1, LenProperties, EmptySeq
      <4>3. 1 \in DOMAIN s  BY <4>2
      <4> QED  BY <4>3 DEF s
    <3>4. level.orders[1].timestamp \in Stamps(level)  BY <3>3 DEF Stamps
    <3>5. <<level.price, level.orders[1].timestamp>> \in Marks(Levels(side))
      BY <2>2, <3>4, LevelOfSide
    <3>6. <<level.price, level.orders[1].timestamp>>[1] = level.price  OBVIOUS
    <3> QED  BY <3>5, <3>6
  <2>3. PICK x \in Marks(bids) : x[1] = bids[i].price  BY <2>1, <2>2
  <2>4. PICK y \in Marks(asks) : y[1] = asks[j].price  BY <2>1, <2>2
  <2>5. x[1] < y[1]  BY <2>3, <2>4 DEF BookInv, NodesApart
  <2> QED  BY <2>3, <2>4, <2>5
<1> QED  BY <1>1, <1>2, <1>3 DEF WellFormed

LEMMA BookTotalsExact == BookInv => TotalsExact
BY LevelOfSide DEF TotalsExact, Good

LEMMA BookKeepsTimePriority == BookInv => TimePriority
BY LevelOfSide DEF TimePriority, Good

LEMMA BookRetiredUnreachable == BookInv => RetiredUnreachable
<1> SUFFICES ASSUME BookInv PROVE RetiredUnreachable  OBVIOUS
<1>1. smr \cap Resting = {}
  <2>1. ASSUME NEW t \in smr, t \in Resting PROVE FALSE
    <3>1. PICK x \in Marks(bids) \cup Marks(asks) : x[2] = t  BY <2>1, RestingMarks
    <3> QED  BY <2>1, <3>1 DEF BookInv, NodesApart
  <2> QED  BY <2>1
<1>2. ASSUME NEW s \in Sides, NEW t \in Sides, NEW i \in DOMAIN Levels(s),
             NEW k \in DOMAIN Levels(t),
             Stamps(Levels(s)[i]) \cap Stamps(Levels(t)[k]) # {}
      PROVE  s = t /\ i = k
  <2>1. PICK u : u \in Stamps(Levels(s)[i]) /\ u \in Stamps(Levels(t)[k])  BY <1>2
  <2> DEFINE x == <<Levels(s)[i].price, u>>
             y == <<Levels(t)[k].price, u>>
  <2>2. x \in Marks(Levels(s)) /\ y \in Marks(Levels(t))  BY <2>1, LevelOfSide
  <2>3. x[2] = u /\ y[2] = u  OBVIOUS
  <2> HIDE DEF x, y
  <2>4. \A a \in Marks(bids), b \in Marks(asks) : a[2] # b[2]  BY DEF BookInv, NodesApart
  <2>5. s = t
    <3>1. SUFFICES ASSUME s # t PROVE FALSE  OBVIOUS
    <3>2. CASE s = "buy" /\ t = "sell"
      <4>1. Levels(s) = bids /\ Levels(t) = asks  BY <3>2 DEF Levels
      <4> QED  BY <2>2, <2>3, <2>4, <4>1
    <3>3. CASE s = "sell" /\ t = "buy"
      <4>1. Levels(s) = asks /\ Levels(t) = bids  BY <3>3 DEF Levels
      <4> QED  BY <2>2, <2>3, <2>4, <4>1
    <3> QED  BY <3>1, <3>2, <3>3 DEF Sides
  <2>6. i = k
    <3>1. /\ SideOK(s, Levels(s))
          /\ Around(s, Marks(Levels(s)), Marks(Levels(Opposite(s))), smr, clock)
      BY BookFaces DEF Faces
    <3>2. Unique(Marks(Levels(s)))  BY <3>1, AroundFacts
    <3>3. Apart(Levels(s))  BY <3>1, <3>2, UniqueApart
    <3>4. i \in 1..Len(Levels(s)) /\ k \in 1..Len(Levels(s))  BY <2>5, LevelOfSide
    <3>5. u \in Stamps(Levels(s)[i]) \cap Stamps(Levels(s)[k])  BY <2>1, <2>5
    <3> QED  BY <3>3, <3>4, <3>5 DEF Apart
  <2> QED  BY <2>5, <2>6
<1> QED  BY <1>1, <1>2 DEF RetiredUnreachable, BookInv
-----------------------------------------------------------------------------

\* Both sides are typed, no node is newer than the clock, and a TradeBatch never holds
\* more than its capacity (order_book.h:29-113, order_book.cpp:37-43).
THEOREM TypeCorrect == Spec => []TypeOK
BY BookAlways, BookIsTyped, PTL

\* Each side is sorted and bounded, no level is empty, and the book is never crossed
\* (order_book.h:115-148, order_book.cpp:21-143).
THEOREM BookIsNeverCrossed == Spec => []WellFormed
BY BookAlways, BookIsWellFormed, PTL

\* A level's total is the sum of its orders modulo 2^64, whatever was filled, cancelled
\* or modified before (order_book.cpp:59, :140, :174, :205-207).
THEOREM LevelTotalsAreExact == Spec => []TotalsExact
BY BookAlways, BookTotalsExact, PTL

\* The orders of a level stand in the order of their arrival: remove_if, partial fills,
\* cancels and modifies keep it (order_book.cpp:62-68, :159-213).
THEOREM PriorityIsTime == Spec => []TimePriority
BY BookAlways, BookKeepsTimePriority, PTL

\* What was handed to the hazard pointer domain is not reachable from the book, no node
\* stands at two levels, and fewer than a threshold of nodes waits to be deleted
\* (order_book.cpp:62-68, :175-177, low_latency.h:397-400).
THEOREM RetiredNodesAreUnreachable == Spec => []RetiredUnreachable
BY BookAlways, BookRetiredUnreachable, PTL
-----------------------------------------------------------------------------
(* Offers in the order of priority *)

Offering == [price : Prices, node : OrderNode]

LEMMA OfferingTypes ==
    ASSUME NEW a \in Offering
    PROVE  /\ a.price \in Nat /\ a.node.timestamp \in Nat /\ a.node.quantity \in Nat
           /\ a.node.order_id \in OrderIds
<1>1. a.price \in Nat /\ a.node \in OrderNode  BY PricesAssumption DEF Offering
<1>2. QuantityModulus \in Nat  BY QuantitiesAssumption
<1> QED  BY <1>1, <1>2 DEF OrderNode

LEMMA AheadOrders ==
    ASSUME NEW side, NEW a \in Offering, NEW b \in Offering, NEW c \in Offering
    PROVE  /\ ~ Ahead(side, a, a)
           /\ Ahead(side, a, b) => ~ Ahead(side, b, a)
           /\ Ahead(side, a, b) /\ Ahead(side, b, c) => Ahead(side, a, c)
<1>1. /\ a.price \in Nat /\ a.node.timestamp \in Nat
      /\ b.price \in Nat /\ b.node.timestamp \in Nat
      /\ c.price \in Nat /\ c.node.timestamp \in Nat
  BY OfferingTypes
<1> QED  BY <1>1 DEF Ahead, Better

\* The offers of a side: priority decides between any two.
Ranked(side, offers) ==
    /\ IsFiniteSet(offers) /\ offers \subseteq Offering
    /\ \A a, b \in offers : a # b => Ahead(side, a, b) \/ Ahead(side, b, a)

\* The first offers, up to some point.
Foremost(side, offers, D) ==
    D \subseteq offers /\ \A a \in D, b \in offers \ D : Ahead(side, a, b)

LEMMA OffersBefore ==
    ASSUME NEW side, NEW offers, Ranked(side, offers), NEW D, NEW b \in offers \ D,
           Foremost(side, offers, D), Foremost(side, offers, D \cup {b})
    PROVE  {a \in offers : Ahead(side, a, b)} = D
<1>1. ASSUME NEW a \in D PROVE a \in offers /\ Ahead(side, a, b)
  BY DEF Foremost
<1>2. ASSUME NEW a \in offers, Ahead(side, a, b) PROVE a \in D
  <2>1. SUFFICES ASSUME a \notin D PROVE FALSE  OBVIOUS
  <2>2. a \in Offering /\ b \in Offering  BY DEF Ranked
  <2>3. a # b  BY <1>2, <2>2, AheadOrders
  <2>4. Ahead(side, b, a)  BY <2>1, <2>3 DEF Foremost
  <2> QED  BY <1>2, <2>2, <2>4, AheadOrders
<1> QED  BY <1>1, <1>2

LEMMA SupplyGrows ==
    ASSUME NEW side, NEW offers, Ranked(side, offers), NEW D
    PROVE  /\ Supply(offers, {}) = 0
           /\ \A b \in offers \ D :
                 /\ Supply(offers, D) \in Nat
                 /\ Supply(offers, D \cup {b}) = Supply(offers, D) + b.node.quantity
<1> DEFINE f(some) == [a \in offers |-> IF a \in some THEN a.node.quantity ELSE 0]
<1>1. IsFiniteSet(offers) /\ \A a \in offers : a.node.quantity \in Nat
  BY OfferingTypes DEF Ranked
<1>2. \A some : f(some) \in [offers -> Nat]  BY <1>1
<1>3. \A some : Supply(offers, some) = SumFunction(f(some))  BY DEF Supply
<1>4. \A a \in offers : f({})[a] = 0  OBVIOUS
<1>5. ASSUME NEW b \in offers \ D
      PROVE  /\ f(D)[b] = 0 /\ f(D \cup {b})[b] = b.node.quantity
             /\ \A v \in offers : v # b => f(D \cup {b})[v] = f(D)[v]
  OBVIOUS
<1> HIDE DEF f
<1>6. SumFunction(f({})) = 0  BY <1>1, <1>2, <1>4, SumOfZeros
<1>7. ASSUME NEW b \in offers \ D
      PROVE  /\ SumFunction(f(D)) \in Nat
             /\ SumFunction(f(D \cup {b})) = SumFunction(f(D)) + b.node.quantity
  <2> DEFINE g == f(D)
             h == f(D \cup {b})
  <2>1. /\ g \in [offers -> Nat] /\ h \in [offers -> Nat]
        /\ g[b] = 0 /\ h[b] = b.node.quantity
        /\ \A v \in offers : v # b => h[v] = g[v]
    BY <1>2, <1>5
  <2> HIDE DEF g, h
  <2>2. SumFunction(g) \in Nat /\ SumFunction(h) = SumFunction(g) - g[b] + h[b]
    BY <1>1, <2>1, SumChanges
  <2>3. SumFunction(h) = SumFunction(g) + b.node.quantity  BY <1>1, <2>1, <2>2
  <2> QED  BY <2>2, <2>3 DEF g, h
<1> QED  BY <1>3, <1>6, <1>7

\* What is left of an order behind some offers.
Left(order, offers, D) ==
    IF order.quantity > Supply(offers, D) THEN order.quantity - Supply(offers, D) ELSE 0

\* What an offer gives of what is left.
Gift(left, node) == IF left <= node.quantity THEN left ELSE node.quantity

LEMMA GreatestOfTwo ==
    ASSUME NEW a \in Int, NEW b \in Int
    PROVE  Max({a, b}) = (IF a >= b THEN a ELSE b) /\ Min({a, b}) = (IF a <= b THEN a ELSE b)
<1> DEFINE c == IF a >= b THEN a ELSE b
           d == IF a <= b THEN a ELSE b
<1>1. c \in {a, b} /\ \A y \in {a, b} : c >= y  OBVIOUS
<1>2. \A x \in {a, b} : (\A y \in {a, b} : x >= y) => x = c  OBVIOUS
<1>3. d \in {a, b} /\ \A y \in {a, b} : d <= y  OBVIOUS
<1>4. \A x \in {a, b} : (\A y \in {a, b} : x <= y) => x = d  OBVIOUS
<1>5. Max({a, b}) = c
  <2> HIDE DEF c
  <2> QED  BY <1>1, <1>2 DEF Max
<1>6. Min({a, b}) = d
  <2> HIDE DEF d
  <2> QED  BY <1>3, <1>4 DEF Min
<1> QED  BY <1>5, <1>6

LEMMA ShareIs ==
    ASSUME NEW order, order.quantity \in Nat, NEW offers, NEW D, NEW b \in offers,
           Ranked(Opposite(order.side), offers), b \notin D,
           {a \in offers : Ahead(Opposite(order.side), a, b)} = D
    PROVE  /\ Left(order, offers, D) \in Nat
           /\ Share(order, offers, b) = Gift(Left(order, offers, D), b.node)
           /\ Left(order, offers, D \cup {b}) = Left(order, offers, D) - Share(order, offers, b)
<1> DEFINE q == order.quantity
           s == Supply(offers, D)
           p == b.node.quantity
<1>1. q \in Nat /\ p \in Nat  BY OfferingTypes DEF Ranked
<1>2. s \in Nat /\ Supply(offers, D \cup {b}) = s + p  BY SupplyGrows
<1>3. Share(order, offers, b) = Max({0, Min({p, q - s})})  BY DEF Share
<1>4. /\ Left(order, offers, D) = IF q > s THEN q - s ELSE 0
      /\ Left(order, offers, D \cup {b}) = IF q > s + p THEN q - (s + p) ELSE 0
  BY <1>2 DEF Left
<1>5. Gift(Left(order, offers, D), b.node) =
         IF Left(order, offers, D) <= p THEN Left(order, offers, D) ELSE p
  BY DEF Gift
<1> HIDE DEF q, s, p
<1>6. Min({p, q - s}) = IF p <= q - s THEN p ELSE q - s
  <2> DEFINE rest == q - s
  <2>1. rest \in Int /\ p \in Int  BY <1>1, <1>2
  <2> HIDE DEF rest
  <2>2. Min({p, rest}) = IF p <= rest THEN p ELSE rest  BY <2>1, GreatestOfTwo
  <2> QED  BY <2>2 DEF rest
<1> DEFINE least == Min({p, q - s})
<1>7. least \in Int  BY <1>1, <1>2, <1>6
<1>8. Max({0, least}) = IF 0 >= least THEN 0 ELSE least
  <2> HIDE DEF least
  <2> QED  BY <1>7, GreatestOfTwo
<1>9. Share(order, offers, b) = IF 0 >= least THEN 0 ELSE least  BY <1>3, <1>8
<1> QED  BY <1>1, <1>2, <1>4, <1>5, <1>6, <1>9
-----------------------------------------------------------------------------
(* The trades with the first offers *)

\* They are the givers among them, one trade each, in the order of their ranks.
Traded(order, offers, D, left, trades) ==
    LET givers == Givers(order, offers) \cap D
    IN  /\ left = Left(order, offers, D)
        /\ Len(trades) = Cardinality(givers)
        /\ \A k \in 1..Len(trades) :
              \E b \in givers :
                 Rank(order, offers, b) = k - 1 /\ trades[k] = TradeWith(order, offers, b)

\* The next maker trades, unless it has nothing or nothing is left.
TradesNext(left, trades, price, node) ==
    IF Gift(left, node) = 0 THEN trades
    ELSE Append(trades, [maker |-> node.order_id, quantity |-> Gift(left, node), price |-> price])

LEMMA NextOffer ==
    ASSUME NEW order, order.quantity \in Nat, NEW offers, Ranked(Opposite(order.side), offers),
           NEW D, NEW b \in offers \ D, Foremost(Opposite(order.side), offers, D),
           Foremost(Opposite(order.side), offers, D \cup {b}),
           NEW left, NEW trades \in Seq(TradeReport), Traded(order, offers, D, left, trades)
    PROVE  Traded(order, offers, D \cup {b}, left - Gift(left, b.node),
                  TradesNext(left, trades, b.price, b.node))
<1> DEFINE side == Opposite(order.side)
           share == Share(order, offers, b)
           givers == Givers(order, offers)
           now == TradesNext(left, trades, b.price, b.node)
           n == Len(trades)
<1>1. {a \in offers : Ahead(side, a, b)} = D  BY OffersBefore
<1>2. /\ left = Left(order, offers, D) /\ n = Cardinality(givers \cap D)
      /\ \A k \in 1..n : \E a \in givers \cap D :
            Rank(order, offers, a) = k - 1 /\ trades[k] = TradeWith(order, offers, a)
  BY DEF Traded
<1>3. /\ left \in Nat /\ share = Gift(left, b.node)
      /\ Left(order, offers, D \cup {b}) = left - share
  BY <1>1, <1>2, ShareIs
<1>4. IsFiniteSet(givers \cap D)
  <2>1. givers \subseteq offers  BY DEF Givers
  <2> QED  BY <2>1, FS_Subset DEF Ranked
<1>5. n \in Nat  BY LenProperties
<1>6. b \in givers <=> share > 0  BY DEF Givers
<1>7. b.node.quantity \in Nat  BY OfferingTypes DEF Ranked
<1>8. share \in Nat  BY <1>3, <1>7 DEF Gift
<1>9. CASE share = 0
  <2>1. now = trades  BY <1>3, <1>9 DEF TradesNext
  <2>2. givers \cap (D \cup {b}) = givers \cap D  BY <1>6, <1>9
  <2> HIDE DEF now, givers, share
  <2>3. Traded(order, offers, D \cup {b}, left - share, now)
    BY <1>2, <1>3, <2>1, <2>2 DEF Traded, givers
  <2> QED  BY <1>3, <2>3 DEF now
<1>10. CASE share # 0
  <2> DEFINE report == TradeWith(order, offers, b)
  <2>1. b \in givers  BY <1>6, <1>8, <1>10
  <2>2. givers \cap (D \cup {b}) = (givers \cap D) \cup {b}  BY <2>1
  <2>3. Rank(order, offers, b) = n
    <3>1. {a \in givers : Ahead(side, a, b)} = givers \cap D  BY <1>1 DEF Givers
    <3> QED  BY <1>2, <3>1 DEF Rank
  <2>4. now = Append(trades, report)
    BY <1>3, <1>10 DEF TradesNext, TradeWith
  <2>5. report \in TradeReport
    BY <1>8, OfferingTypes DEF TradeWith, TradeReport, Ranked, Offering
  <2> HIDE DEF now, report, givers, share
  <2>6. /\ Len(now) = n + 1 /\ now[n + 1] = report
        /\ \A k \in 1..n : now[k] = trades[k]
    BY <2>4, <2>5, AppendProperties
  <2>7. Cardinality((givers \cap D) \cup {b}) = n + 1
    BY <1>2, <1>4, FS_AddElement
  <2>8. ASSUME NEW k \in 1..(n + 1)
        PROVE  \E a \in (givers \cap D) \cup {b} :
                  Rank(order, offers, a) = k - 1 /\ now[k] = TradeWith(order, offers, a)
    <3>1. CASE k = n + 1
      <4>1. Rank(order, offers, b) = k - 1  BY <1>5, <2>3, <3>1
      <4>2. now[k] = TradeWith(order, offers, b)  BY <2>6, <3>1 DEF report
      <4> QED  BY <4>1, <4>2
    <3>2. CASE k \in 1..n
      <4>1. PICK a \in givers \cap D :
               Rank(order, offers, a) = k - 1 /\ trades[k] = TradeWith(order, offers, a)
        BY <1>2, <3>2
      <4>2. now[k] = trades[k]  BY <2>6, <3>2
      <4> QED  BY <4>1, <4>2
    <3> QED  BY <1>5, <3>1, <3>2
  <2>9. Traded(order, offers, D \cup {b}, left - share, now)
    BY <1>3, <2>2, <2>6, <2>7, <2>8 DEF Traded, givers
  <2> QED  BY <1>3, <2>9 DEF now
<1> QED  BY <1>9, <1>10

\* All offers behind, the trades are those that the definition asks for.
LEMMA RanksDiffer ==
    ASSUME NEW order, NEW offers, Ranked(Opposite(order.side), offers),
           NEW a \in Givers(order, offers), NEW b \in Givers(order, offers),
           Rank(order, offers, a) = Rank(order, offers, b)
    PROVE  a = b
<1> DEFINE side == Opposite(order.side)
           before(x) == {y \in Givers(order, offers) : Ahead(side, y, x)}
<1>1. Givers(order, offers) \subseteq offers  BY DEF Givers
<1>2. ASSUME NEW x \in Givers(order, offers), NEW y \in Givers(order, offers),
             Ahead(side, x, y), Cardinality(before(x)) = Cardinality(before(y))
      PROVE  FALSE
  <2>1. IsFiniteSet(before(y))
    <3>1. before(y) \subseteq offers  BY <1>1
    <3> QED  BY <3>1, FS_Subset DEF Ranked
  <2>2. before(x) \subseteq before(y)
    <3>1. SUFFICES ASSUME NEW z \in Givers(order, offers), Ahead(side, z, x)
                   PROVE  Ahead(side, z, y)
      OBVIOUS
    <3>2. x \in Offering /\ y \in Offering /\ z \in Offering  BY <1>1 DEF Ranked
    <3> QED  BY <1>2, <3>1, <3>2, AheadOrders
  <2>3. before(x) = before(y)  BY <1>2, <2>1, <2>2, FS_Subset
  <2>4. x \in before(y)  BY <1>2
  <2>5. Ahead(side, x, x)  BY <2>3, <2>4
  <2>6. x \in Offering  BY <1>1 DEF Ranked
  <2> QED  BY <2>5, <2>6, AheadOrders
<1>3. Cardinality(before(a)) = Cardinality(before(b))  BY DEF Rank
<1>4. a = b \/ Ahead(side, a, b) \/ Ahead(side, b, a)  BY <1>1 DEF Ranked
<1> QED  BY <1>2, <1>3, <1>4

LEMMA AllTraded ==
    ASSUME NEW order, NEW levels, NEW left, NEW trades \in Seq(TradeReport),
           Ranked(Opposite(order.side), Offers(order, levels)),
           Traded(order, Offers(order, levels), Offers(order, levels), left, trades)
    PROVE  trades = PriorityTrades(order, levels)
<1> DEFINE offers == Offers(order, levels)
           givers == Givers(order, offers)
           giver(k) == CHOOSE b \in givers : Rank(order, offers, b) = k - 1
<1>1. givers \cap offers = givers  BY DEF Givers
<1>2. /\ Len(trades) = Cardinality(givers)
      /\ \A k \in 1..Len(trades) :
            \E b \in givers :
               Rank(order, offers, b) = k - 1 /\ trades[k] = TradeWith(order, offers, b)
  BY <1>1 DEF Traded
<1>3. PriorityTrades(order, levels) =
         [k \in 1..Cardinality(givers) |-> TradeWith(order, offers, giver(k))]
  BY DEF PriorityTrades
<1>4. ASSUME NEW k \in 1..Len(trades) PROVE trades[k] = TradeWith(order, offers, giver(k))
  <2> HIDE DEF offers, givers
  <2>1. PICK b \in givers :
           Rank(order, offers, b) = k - 1 /\ trades[k] = TradeWith(order, offers, b)
    BY <1>2
  <2>2. giver(k) \in givers /\ Rank(order, offers, giver(k)) = k - 1  BY <2>1
  <2> HIDE DEF giver
  <2>3. giver(k) = b
    <3>1. Rank(order, offers, giver(k)) = Rank(order, offers, b)  BY <2>1, <2>2
    <3> QED  BY <2>2, <3>1, RanksDiffer DEF givers, offers
  <2> QED  BY <2>1, <2>3
<1>5. DOMAIN trades = 1..Len(trades)  BY LenProperties
<1>6. trades = [k \in 1..Len(trades) |-> trades[k]]  BY <1>5
<1> HIDE DEF giver, givers, offers
<1> QED  BY <1>2, <1>3, <1>4, <1>6
-----------------------------------------------------------------------------
(* The places of the offers in a side *)

\* Place j of level i comes before place l of level k.
Sooner(i, j, k, l) == i < k \/ (i = k /\ j < l)

\* The offers at the levels before i and at the first j places of level i.
Reached(offers, levels, i, j) ==
    {x \in offers : \E k \in 1..Len(levels) : \E l \in 1..Len(levels[k].orders) :
                       x = Offer(levels, k, l) /\ Sooner(k, l, i, j + 1)}

LEMMA OfferTypes ==
    ASSUME NEW levels \in Seq(PriceLevel), NEW i \in 1..Len(levels)
    PROVE  /\ levels[i] \in PriceLevel /\ levels[i].orders \in Seq(OrderNode)
           /\ levels[i].price \in Prices
           /\ Len(levels[i].orders) \in Nat
           /\ DOMAIN levels[i].orders = 1..Len(levels[i].orders)
           /\ \A j \in 1..Len(levels[i].orders) :
                 /\ levels[i].orders[j] \in OrderNode /\ Offer(levels, i, j) \in Offering
                 /\ Offer(levels, i, j).price = levels[i].price
                 /\ Offer(levels, i, j).node = levels[i].orders[j]
<1>1. levels[i] \in PriceLevel  BY LenProperties
<1>2. levels[i].orders \in Seq(OrderNode) /\ levels[i].price \in Prices
  BY <1>1 DEF PriceLevel
<1> DEFINE s == levels[i].orders
<1>3. s \in Seq(OrderNode)  BY <1>2
<1> HIDE DEF s
<1>4. /\ Len(s) \in Nat /\ DOMAIN s = 1..Len(s)
      /\ \A j \in 1..Len(s) : s[j] \in OrderNode
  BY <1>3, LenProperties
<1>5. \A j \in 1..Len(s) :
         /\ Offer(levels, i, j) \in Offering
         /\ Offer(levels, i, j).price = levels[i].price
         /\ Offer(levels, i, j).node = s[j]
  BY <1>2, <1>4 DEF Offer, Offering, s
<1> QED  BY <1>1, <1>2, <1>4, <1>5 DEF s

LEMMA OfferPlaces ==
    ASSUME NEW order, NEW levels \in Seq(PriceLevel)
    PROVE  \A x : x \in Offers(order, levels) <=>
              \E i \in 1..Len(levels) : \E j \in 1..Len(levels[i].orders) :
                 Crossing(order, levels[i].price) /\ x = Offer(levels, i, j)
<1>1. DOMAIN levels = 1..Len(levels)  BY LenProperties
<1>2. \A i \in 1..Len(levels) : DOMAIN levels[i].orders = 1..Len(levels[i].orders)
  BY OfferTypes
<1> QED  BY <1>1, <1>2 DEF Offers

\* A side is sorted by priority.
LEMMA SoonerIsAhead ==
    ASSUME NEW side, NEW levels, SideOK(side, levels),
           NEW i \in 1..Len(levels), NEW j \in 1..Len(levels[i].orders),
           NEW k \in 1..Len(levels), NEW l \in 1..Len(levels[k].orders), Sooner(i, j, k, l)
    PROVE  Ahead(side, Offer(levels, i, j), Offer(levels, k, l))
<1>1. /\ levels \in Seq(PriceLevel) /\ Sorted(side, levels)
      /\ InArrivalOrder(levels[i].orders)
  BY DEF SideOK, Good
<1>2. /\ Offer(levels, i, j).price = levels[i].price
      /\ Offer(levels, i, j).node = levels[i].orders[j]
      /\ Offer(levels, k, l).price = levels[k].price
      /\ Offer(levels, k, l).node = levels[k].orders[l]
      /\ DOMAIN levels[i].orders = 1..Len(levels[i].orders)
  BY <1>1, OfferTypes
<1>3. DOMAIN levels = 1..Len(levels)  BY <1>1, LenProperties
<1>4. CASE i < k
  <2>1. Better(side, levels[i].price, levels[k].price)  BY <1>1, <1>3, <1>4 DEF Sorted
  <2> QED  BY <1>2, <2>1 DEF Ahead
<1>5. CASE i = k /\ j < l
  <2>1. levels[i].orders[j].timestamp < levels[i].orders[l].timestamp
    BY <1>1, <1>2, <1>5 DEF InArrivalOrder
  <2> QED  BY <1>2, <1>5, <2>1 DEF Ahead
<1> QED  BY <1>4, <1>5 DEF Sooner

\* The values of a function on a finite set.
LEMMA FiniteValues ==
    ASSUME NEW S, IsFiniteSet(S), NEW f, DOMAIN f = S
    PROVE  IsFiniteSet({f[x] : x \in S})
<1> DEFINE g == [x \in S |-> f[x]]
           T == {f[x] : x \in S}
<1>1. g \in Surjection(S, T)  BY DEF Surjection
<1> HIDE DEF g, T
<1>2. IsFiniteSet(T)  BY <1>1, FS_Surjection
<1> QED  BY <1>2 DEF T

LEMMA OffersRanked ==
    ASSUME NEW side, NEW order, NEW levels, SideOK(side, levels)
    PROVE  Ranked(side, Offers(order, levels))
<1> DEFINE offers == Offers(order, levels)
           n == Len(levels)
<1>1. levels \in Seq(PriceLevel)  BY DEF SideOK
<1>2. n \in Nat  BY <1>1, LenProperties
<1>3. ASSUME NEW x \in offers, NEW y \in offers, x # y
      PROVE  Ahead(side, x, y) \/ Ahead(side, y, x)
  <2>1a. PICK i \in 1..n : \E j \in 1..Len(levels[i].orders) : x = Offer(levels, i, j)
    BY <1>1, OfferPlaces
  <2>1. PICK j \in 1..Len(levels[i].orders) : x = Offer(levels, i, j)  BY <2>1a
  <2>2a. PICK k \in 1..n : \E l \in 1..Len(levels[k].orders) : y = Offer(levels, k, l)
    BY <1>1, OfferPlaces
  <2>2. PICK l \in 1..Len(levels[k].orders) : y = Offer(levels, k, l)  BY <2>2a
  <2>3. Sooner(i, j, k, l) \/ Sooner(k, l, i, j)
    <3>1. i \in Nat /\ k \in Nat /\ j \in Nat /\ l \in Nat
      BY <1>1, <1>2, OfferTypes
    <3>2. i # k \/ j # l  BY <1>3, <2>1, <2>2
    <3> QED  BY <3>1, <3>2 DEF Sooner
  <2> QED  BY <2>1, <2>2, <2>3, SoonerIsAhead
<1>4. offers \subseteq Offering
  <2>1. SUFFICES ASSUME NEW x \in offers PROVE x \in Offering  OBVIOUS
  <2>2a. PICK i \in 1..n : \E j \in 1..Len(levels[i].orders) : x = Offer(levels, i, j)
    BY <1>1, OfferPlaces
  <2>2. PICK j \in 1..Len(levels[i].orders) : x = Offer(levels, i, j)  BY <2>2a
  <2> QED  BY <1>1, <2>2, OfferTypes
<1>5. IsFiniteSet(offers)
  <2> DEFINE f(i) == [j \in 1..Len(levels[i].orders) |-> Offer(levels, i, j)]
             at(i) == {f(i)[j] : j \in 1..Len(levels[i].orders)}
             g == [i \in 1..n |-> at(i)]
             all == {g[i] : i \in 1..n}
  <2>1. ASSUME NEW i \in 1..n PROVE IsFiniteSet(at(i))
    <3> DEFINE len == Len(levels[i].orders)
               S == 1..len
               h == f(i)
    <3>1. len \in Int  BY <1>1, OfferTypes
    <3>2. IsFiniteSet(S)
      <4> HIDE DEF len
      <4> QED  BY <3>1, FS_Interval
    <3>3. DOMAIN h = S  OBVIOUS
    <3> HIDE DEF S, h
    <3>4. IsFiniteSet({h[x] : x \in S})  BY <3>2, <3>3, FiniteValues
    <3> QED  BY <3>4 DEF h, S
  <2>2. IsFiniteSet(1..n)  BY <1>2, FS_Interval
  <2>3. \A x \in offers : \E i \in 1..n : x \in at(i)
    <3>1. SUFFICES ASSUME NEW x \in offers PROVE \E i \in 1..n : x \in at(i)  OBVIOUS
    <3>2a. PICK i \in 1..n : \E j \in 1..Len(levels[i].orders) : x = Offer(levels, i, j)
      BY <1>1, OfferPlaces
    <3>2. PICK j \in 1..Len(levels[i].orders) : x = Offer(levels, i, j)  BY <3>2a
    <3>3. x = f(i)[j]  BY <3>2
    <3> QED  BY <3>3
  <2> HIDE DEF at
  <2>4. DOMAIN g = 1..n /\ \A i \in 1..n : g[i] = at(i)  OBVIOUS
  <2> HIDE DEF g, n, offers
  <2>5. IsFiniteSet(all)  BY <2>2, <2>4, FiniteValues
  <2>6. \A T \in all : IsFiniteSet(T)  BY <2>1, <2>4
  <2> HIDE DEF all
  <2>7. IsFiniteSet(UNION all)  BY <2>5, <2>6, FS_UNION
  <2>8. offers \subseteq UNION all  BY <2>3, <2>4 DEF all
  <2> QED  BY <2>7, <2>8, FS_Subset
<1> QED  BY <1>3, <1>4, <1>5 DEF Ranked

LEMMA ReachedForemost ==
    ASSUME NEW side, NEW order, NEW levels, SideOK(side, levels), NEW i \in Int, NEW j \in Int
    PROVE  Foremost(side, Offers(order, levels), Reached(Offers(order, levels), levels, i, j))
<1> DEFINE offers == Offers(order, levels)
           n == Len(levels)
<1>1. levels \in Seq(PriceLevel)  BY DEF SideOK
<1>2. n \in Nat  BY <1>1, LenProperties
<1>3. ASSUME NEW a \in Reached(offers, levels, i, j),
             NEW b \in offers \ Reached(offers, levels, i, j)
      PROVE  Ahead(side, a, b)
  <2>1. PICK k \in 1..n : \E l \in 1..Len(levels[k].orders) :
                             a = Offer(levels, k, l) /\ Sooner(k, l, i, j + 1)
    BY DEF Reached
  <2>2. PICK l \in 1..Len(levels[k].orders) :
                a = Offer(levels, k, l) /\ Sooner(k, l, i, j + 1)
    BY <2>1
  <2>3. PICK k2 \in 1..n : \E l2 \in 1..Len(levels[k2].orders) : b = Offer(levels, k2, l2)
    BY <1>1, OfferPlaces
  <2>4. PICK l2 \in 1..Len(levels[k2].orders) : b = Offer(levels, k2, l2)  BY <2>3
  <2>5. ~ Sooner(k2, l2, i, j + 1)  BY <2>4 DEF Reached
  <2>6. k \in Int /\ l \in Int /\ k2 \in Int /\ l2 \in Int  BY <1>1, <1>2, OfferTypes
  <2>7. Sooner(k, l, k2, l2)  BY <2>2, <2>5, <2>6 DEF Sooner
  <2> QED  BY <2>2, <2>4, <2>7, SoonerIsAhead
<1> QED  BY <1>3 DEF Foremost, Reached

LEMMA ReachedNext ==
    ASSUME NEW side, NEW order, NEW levels, SideOK(side, levels),
           NEW i \in 1..Len(levels), NEW j \in 1..Len(levels[i].orders),
           Crossing(order, levels[i].price)
    PROVE  LET offers == Offers(order, levels)
           IN  /\ Offer(levels, i, j) \in offers \ Reached(offers, levels, i, j - 1)
               /\ Reached(offers, levels, i, j) =
                     Reached(offers, levels, i, j - 1) \cup {Offer(levels, i, j)}
<1> DEFINE offers == Offers(order, levels)
           n == Len(levels)
<1>1. levels \in Seq(PriceLevel)  BY DEF SideOK
<1>2. n \in Nat /\ i \in Nat /\ j \in Nat /\ (j - 1) + 1 = j
  BY <1>1, LenProperties, OfferTypes
<1>3. Offer(levels, i, j) \in offers  BY <1>1, OfferPlaces
<1>4. Offer(levels, i, j) \notin Reached(offers, levels, i, j - 1)
  <2>1. SUFFICES ASSUME NEW k \in 1..n, NEW l \in 1..Len(levels[k].orders),
                        Offer(levels, i, j) = Offer(levels, k, l), Sooner(k, l, i, j)
                 PROVE  FALSE
    BY <1>2 DEF Reached
  <2>2. Ahead(side, Offer(levels, k, l), Offer(levels, i, j))  BY <2>1, SoonerIsAhead
  <2>3. Offer(levels, i, j) \in Offering  BY <1>1, OfferTypes
  <2> QED  BY <2>1, <2>2, <2>3, AheadOrders
<1>5. ASSUME NEW k \in 1..n, NEW l \in 1..Len(levels[k].orders)
      PROVE  Sooner(k, l, i, j + 1) <=> Sooner(k, l, i, (j - 1) + 1) \/ (k = i /\ l = j)
  <2>1. k \in Int /\ l \in Int  BY <1>1, <1>2, OfferTypes
  <2> QED  BY <1>2, <2>1 DEF Sooner
<1>6. ASSUME NEW x \in Reached(offers, levels, i, j)
      PROVE  x \in Reached(offers, levels, i, j - 1) \cup {Offer(levels, i, j)}
  <2> HIDE DEF offers
  <2>1. PICK k \in 1..n : \E l \in 1..Len(levels[k].orders) :
                             x = Offer(levels, k, l) /\ Sooner(k, l, i, j + 1)
    BY DEF Reached
  <2>2. PICK l \in 1..Len(levels[k].orders) :
                x = Offer(levels, k, l) /\ Sooner(k, l, i, j + 1)
    BY <2>1
  <2>3. x \in offers  BY DEF Reached
  <2> QED  BY <1>5, <2>2, <2>3 DEF Reached
<1>7. ASSUME NEW x \in Reached(offers, levels, i, j - 1)
      PROVE  x \in Reached(offers, levels, i, j)
  <2> HIDE DEF offers
  <2> QED  BY <1>5 DEF Reached
<1>8. Offer(levels, i, j) \in Reached(offers, levels, i, j)
  <2>1. Sooner(i, j, i, j + 1)  BY <1>2 DEF Sooner
  <2> HIDE DEF offers
  <2> QED  BY <1>3, <2>1 DEF Reached
<1> QED  BY <1>3, <1>4, <1>6, <1>7, <1>8

\* From the end of a level to the next one.
LEMMA ReachedLevel ==
    ASSUME NEW order, NEW levels \in Seq(PriceLevel), NEW i \in 1..Len(levels)
    PROVE  LET offers == Offers(order, levels)
           IN  /\ Reached(offers, levels, i, Len(levels[i].orders)) =
                     Reached(offers, levels, i + 1, 0)
               /\ ~ Crossing(order, levels[i].price) =>
                     Reached(offers, levels, i + 1, 0) = Reached(offers, levels, i, 0)
<1> DEFINE offers == Offers(order, levels)
           n == Len(levels)
           len == Len(levels[i].orders)
<1>1. n \in Nat /\ i \in Nat /\ len \in Nat  BY LenProperties, OfferTypes
<1>2. ASSUME NEW k \in 1..n, NEW l \in 1..Len(levels[k].orders)
      PROVE  /\ Sooner(k, l, i, len + 1) <=> Sooner(k, l, i + 1, 0 + 1)
             /\ Sooner(k, l, i, 0 + 1) <=> Sooner(k, l, i + 1, 0 + 1) /\ k # i
  <2>1. k \in Int /\ l \in Int /\ l >= 1  BY <1>1, OfferTypes
  <2>2. k = i => l <= len  BY <1>1, OfferTypes
  <2> HIDE DEF len
  <2> QED  BY <1>1, <2>1, <2>2 DEF Sooner
<1>3. Reached(offers, levels, i, len) = Reached(offers, levels, i + 1, 0)
  <2> HIDE DEF offers, len
  <2> QED  BY <1>2 DEF Reached
<1>4. ASSUME ~ Crossing(order, levels[i].price)
      PROVE  Reached(offers, levels, i + 1, 0) = Reached(offers, levels, i, 0)
  <2>1. ASSUME NEW x \in offers, NEW l \in 1..len PROVE x # Offer(levels, i, l)
    <3>1. PICK k \in 1..n : \E h \in 1..Len(levels[k].orders) :
             Crossing(order, levels[k].price) /\ x = Offer(levels, k, h)
      BY OfferPlaces
    <3>2. PICK h \in 1..Len(levels[k].orders) :
             Crossing(order, levels[k].price) /\ x = Offer(levels, k, h)
      BY <3>1
    <3>3. x.price = levels[k].price  BY <3>2, OfferTypes
    <3>4. Offer(levels, i, l).price = levels[i].price  BY OfferTypes
    <3> QED  BY <1>4, <3>2, <3>3, <3>4
  <2>2. ASSUME NEW x \in Reached(offers, levels, i + 1, 0)
        PROVE  x \in Reached(offers, levels, i, 0)
    <3> HIDE DEF offers
    <3>1. PICK k \in 1..n : \E l \in 1..Len(levels[k].orders) :
                               x = Offer(levels, k, l) /\ Sooner(k, l, i + 1, 0 + 1)
      BY DEF Reached
    <3>2. PICK l \in 1..Len(levels[k].orders) :
                  x = Offer(levels, k, l) /\ Sooner(k, l, i + 1, 0 + 1)
      BY <3>1
    <3>3. x \in offers  BY DEF Reached
    <3>4. k # i  BY <2>1, <3>2, <3>3
    <3> QED  BY <1>2, <3>2, <3>3, <3>4 DEF Reached
  <2>3. ASSUME NEW x \in Reached(offers, levels, i, 0)
        PROVE  x \in Reached(offers, levels, i + 1, 0)
    <3> HIDE DEF offers
    <3> QED  BY <1>2 DEF Reached
  <2> QED  BY <2>2, <2>3
<1> QED  BY <1>3, <1>4

LEMMA ReachedEnds ==
    ASSUME NEW order, NEW levels \in Seq(PriceLevel)
    PROVE  LET offers == Offers(order, levels)
           IN  /\ Reached(offers, levels, 1, 0) = {}
               /\ Reached(offers, levels, Len(levels) + 1, 0) = offers
<1> DEFINE offers == Offers(order, levels)
           n == Len(levels)
<1>1. n \in Nat  BY LenProperties
<1>2. ASSUME NEW k \in 1..n, NEW l \in 1..Len(levels[k].orders)
      PROVE  ~ Sooner(k, l, 1, 0 + 1) /\ Sooner(k, l, n + 1, 0 + 1)
  <2>1. k \in Int /\ l \in Int /\ l >= 1  BY <1>1, OfferTypes
  <2> QED  BY <1>1, <2>1 DEF Sooner
<1>3. ASSUME NEW x \in offers PROVE x \in Reached(offers, levels, n + 1, 0)
  <2>1. PICK k \in 1..n : \E l \in 1..Len(levels[k].orders) : x = Offer(levels, k, l)
    BY OfferPlaces
  <2>2. PICK l \in 1..Len(levels[k].orders) : x = Offer(levels, k, l)  BY <2>1
  <2> HIDE DEF offers
  <2> QED  BY <1>2, <2>2 DEF Reached
<1> HIDE DEF offers
<1> QED  BY <1>2, <1>3 DEF Reached, offers
-----------------------------------------------------------------------------
(* The sweep *)

\* The state of a sweep that has dealt with the offers D.
Followed(order, offers, D, a) ==
    a.overflow \/ Traded(order, offers, D, a.left, a.trades)

\* One maker, from the state m to r.
Takes(price, m, node, r) ==
    \/ r.overflow
    \/ /\ ~ m.overflow /\ r.left = m.left - Gift(m.left, node)
       /\ r.trades = TradesNext(m.left, m.trades, price, node)

LEMMA MatchMakerTakes ==
    ASSUME NEW taker, NEW price \in Prices, NEW m \in Within, NEW maker \in OrderNode
    PROVE  Takes(price, m, maker, MatchMaker(taker, price, m, maker))
<1> DEFINE r == MatchMaker(taker, price, m, maker)
           q == Gift(m.left, maker)
<1>1. m \in MakersState /\ m.left \in Nat /\ maker.quantity \in Nat
  <2>1. QuantityModulus \in Nat  BY QuantitiesAssumption
  <2> QED  BY <2>1 DEF Within, MakersState, Remaining, OrderNode
<1>2. q \in Nat /\ (q = 0 <=> m.left = 0 \/ maker.quantity = 0)  BY <1>1 DEF Gift
<1>3. CASE m.left = 0 \/ maker.quantity = 0 \/ m.overflow
  <2>1. r = [m EXCEPT !.orders = Append(@, maker)]  BY <1>3 DEF MatchMaker, Pass
  <2>2. r.left = m.left /\ r.trades = m.trades /\ r.overflow = m.overflow
    BY <1>1, <2>1 DEF MakersState
  <2>3. CASE ~ m.overflow
    <3>1. q = 0  BY <1>2, <1>3, <2>3
    <3>2. r.left = m.left - q  BY <1>1, <2>2, <3>1
    <3>3. r.trades = TradesNext(m.left, m.trades, price, maker)
      BY <2>2, <3>1 DEF TradesNext
    <3> HIDE DEF r
    <3> QED  BY <2>3, <3>2, <3>3 DEF Takes, q, r
  <2>4. CASE m.overflow  BY <2>2, <2>4 DEF Takes
  <2> QED  BY <2>3, <2>4
<1>4. CASE ~ (m.left = 0 \/ maker.quantity = 0 \/ m.overflow) /\ Len(m.trades) = MaxTradesPerOrder
  <2>1. r = [[m EXCEPT !.orders = Append(@, maker)] EXCEPT !.overflow = TRUE]
    BY <1>4 DEF MatchMaker, Pass
  <2>2. r.overflow  BY <1>1, <2>1 DEF MakersState
  <2> QED  BY <2>2 DEF Takes
<1>5. CASE ~ (m.left = 0 \/ maker.quantity = 0 \/ m.overflow) /\ Len(m.trades) # MaxTradesPerOrder
  <2>1. r = Trade(price, m, maker)  BY <1>5 DEF MatchMaker
  <2>2. Min({m.left, maker.quantity}) = q  BY <1>1, MinOfTwo DEF Gift
  <2> DEFINE node == [maker EXCEPT !.quantity = @ - q]
             trade == [maker |-> maker.order_id, quantity |-> q, price |-> price]
  <2>3. r = [[m EXCEPT !.orders = Append(@, node)] EXCEPT
                !.left = @ - q, !.total = (@ - q) % QuantityModulus,
                !.trades = Append(@, trade)]
    BY <2>1, <2>2 DEF Trade, Pass
  <2> HIDE DEF node, trade, r, q
  <2>4. r.left = m.left - q /\ r.trades = Append(m.trades, trade)
    BY <1>1, <2>3 DEF MakersState
  <2>5. q # 0  BY <1>2, <1>5
  <2>6. r.trades = TradesNext(m.left, m.trades, price, maker)
    BY <2>4, <2>5 DEF TradesNext, trade, q
  <2> QED  BY <1>5, <2>4, <2>6 DEF Takes, q, r
<1> QED  BY <1>3, <1>4, <1>5

\* All makers of a level that crosses.
LEMMA LevelFollowed ==
    ASSUME NEW order, order.quantity \in Nat, NEW levels,
           SideOK(Opposite(order.side), levels), NEW i \in 1..Len(levels),
           Crossing(order, levels[i].price), NEW run,
           \A k \in 0..Len(levels[i].orders) : run[k].trades \in Seq(TradeReport),
           \A k \in 1..Len(levels[i].orders) :
              Takes(levels[i].price, run[k - 1], levels[i].orders[k], run[k]),
           Followed(order, Offers(order, levels),
                    Reached(Offers(order, levels), levels, i, 0), run[0])
    PROVE  Followed(order, Offers(order, levels),
                    Reached(Offers(order, levels), levels, i + 1, 0),
                    run[Len(levels[i].orders)])
<1> DEFINE offers == Offers(order, levels)
           side == Opposite(order.side)
           len == Len(levels[i].orders)
           T == {k \in 0..len : Followed(order, offers, Reached(offers, levels, i, k), run[k])}
<1>1. levels \in Seq(PriceLevel) /\ Ranked(side, offers)  BY OffersRanked DEF SideOK
<1>2. len \in Nat /\ i \in Int  BY <1>1, LenProperties, OfferTypes
<1>3. 0 \in T  BY <1>2
<1>4. ASSUME NEW k \in T \cap (0..(len - 1)) PROVE k + 1 \in T
  <2> DEFINE j == k + 1
             D == Reached(offers, levels, i, k)
             E == Reached(offers, levels, i, j)
             b == Offer(levels, i, j)
             m == run[k]
             r == run[j]
  <2>1. k \in Int /\ j \in Int /\ j \in 1..len /\ j - 1 = k /\ k \in 0..len /\ j \in 0..len
    BY <1>2
  <2> HIDE DEF j
  <2>2. b \in offers \ D /\ E = D \cup {b}  BY <2>1, ReachedNext
  <2>3. Foremost(side, offers, D) /\ Foremost(side, offers, E)
    BY <1>2, <2>1, ReachedForemost
  <2>4. b.price = levels[i].price /\ b.node = levels[i].orders[j]  BY <1>1, <2>1, OfferTypes
  <2>5. m.trades \in Seq(TradeReport) /\ Takes(b.price, m, b.node, r)  BY <2>1, <2>4
  <2>6. Followed(order, offers, D, m)  OBVIOUS
  <2> HIDE DEF b, D, E, m, r, offers, side, T
  <2>7. ASSUME r.overflow PROVE Followed(order, offers, E, r)  BY <2>7 DEF Followed
  <2>8. ASSUME ~ r.overflow PROVE Followed(order, offers, E, r)
    <3>1. /\ ~ m.overflow /\ r.left = m.left - Gift(m.left, b.node)
          /\ r.trades = TradesNext(m.left, m.trades, b.price, b.node)
      BY <2>5, <2>8 DEF Takes
    <3>2. Traded(order, offers, D, m.left, m.trades)  BY <2>6, <3>1 DEF Followed
    <3>3. Foremost(side, offers, D \cup {b})  BY <2>2, <2>3
    <3> DEFINE left == m.left
               trades == m.trades
    <3>4. trades \in Seq(TradeReport) /\ Traded(order, offers, D, left, trades)
      BY <2>5, <3>2
    <3> HIDE DEF left, trades
    <3>5. Traded(order, offers, D \cup {b}, left - Gift(left, b.node),
                 TradesNext(left, trades, b.price, b.node))
      BY <1>1, <2>2, <2>3, <3>3, <3>4, NextOffer DEF side
    <3> QED  BY <2>2, <3>1, <3>5 DEF Followed, left, trades
  <2>9. Followed(order, offers, E, r)  BY <2>7, <2>8
  <2>10. Followed(order, offers, Reached(offers, levels, i, j), run[j])  BY <2>9 DEF E, r
  <2>11. j \in T  BY <2>1, <2>10 DEF T
  <2> QED  BY <2>11 DEF j
<1>5. 0..len \subseteq T
  <2> HIDE DEF T, len
  <2> QED  BY <1>2, <1>3, <1>4, UpTo
<1>6. len \in 0..len  BY <1>2
<1>7. Followed(order, offers, Reached(offers, levels, i, len), run[len])
  <2> HIDE DEF offers, len
  <2> QED  BY <1>5, <1>6
<1>8. Reached(offers, levels, i, len) = Reached(offers, levels, i + 1, 0)
  BY <1>1, ReachedLevel
<1> QED  BY <1>7, <1>8

\* What the cleanup leaves alone.
LEMMA MatchLevelResult ==
    ASSUME NEW taker, NEW m, NEW level, ~ Untouched(taker, m, level)
    PROVE  LET done == MatchMakers(taker, m, level)
               r    == MatchLevel(taker, m, level)
           IN  r.left = done.left /\ r.trades = done.trades /\ r.overflow = done.overflow
<1> DEFINE done == MatchMakers(taker, m, level)
           r == MatchLevel(taker, m, level)
           orders == IF done.overflow THEN done.orders ELSE Makers(FALSE, done.orders)
           kept == Append(m.levels, [price |-> level.price, total_quantity |-> done.total,
                                     orders |-> orders])
           retired == m.retired \o IF done.overflow THEN <<>> ELSE RetiredByCleanup(done.orders)
           cleaned == [left |-> done.left, trades |-> done.trades, overflow |-> done.overflow,
                       levels |-> kept, retired |-> retired]
<1>1. r = IF orders = <<>> THEN [cleaned EXCEPT !.levels = m.levels] ELSE cleaned
  BY DEF MatchLevel, CleanUp
<1> HIDE DEF r, done, orders, kept, retired
<1>2. r.left = done.left /\ r.trades = done.trades /\ r.overflow = done.overflow
  BY <1>1
<1> QED  BY <1>2 DEF r, done

LEMMA MatchLevelFollowed ==
    ASSUME NEW order, order.quantity \in Nat, NEW levels,
           SideOK(Opposite(order.side), levels), NEW i \in 1..Len(levels),
           NEW m \in Sweeping,
           Followed(order, Offers(order, levels),
                    Reached(Offers(order, levels), levels, i, 0), m)
    PROVE  Followed(order, Offers(order, levels),
                    Reached(Offers(order, levels), levels, i + 1, 0),
                    MatchLevel(order, m, levels[i]))
<1> DEFINE offers == Offers(order, levels)
           level == levels[i]
           s == level.orders
           len == Len(s)
           D == Reached(offers, levels, i, 0)
           E == Reached(offers, levels, i + 1, 0)
           r == MatchLevel(order, m, level)
<1>1. levels \in Seq(PriceLevel)  BY DEF SideOK
<1>2. /\ level \in PriceLevel /\ level.price \in Prices /\ len \in Nat
      /\ \A j \in 1..len : s[j] \in OrderNode
  BY <1>1, OfferTypes
<1>3. m \in LevelsState /\ m.left \in Nat /\ m.trades \in Seq(TradeReport)
  <2>1. QuantityModulus \in Nat  BY QuantitiesAssumption
  <2> QED  BY <2>1 DEF Sweeping, LevelsState, Remaining
<1>4. CASE Untouched(order, m, level)
  <2>1. r = [m EXCEPT !.levels = Append(@, level)]  BY <1>4 DEF MatchLevel
  <2>2. r.left = m.left /\ r.trades = m.trades /\ r.overflow = m.overflow
    BY <1>3, <2>1 DEF LevelsState
  <2>3. CASE m.overflow  BY <2>2, <2>3 DEF Followed
  <2>4. CASE ~ Crossing(order, level.price)
    <3>1. E = D  BY <1>1, <2>4, ReachedLevel
    <3>2. Followed(order, offers, D, m)  OBVIOUS
    <3> HIDE DEF r, E, D, offers
    <3> QED  BY <2>2, <3>1, <3>2 DEF Followed, r, E, offers
  <2>5. CASE Crossing(order, level.price) /\ ~ m.overflow
    <3>1. m.left = 0  BY <1>4, <2>5 DEF Untouched, Crossing
    <3> DEFINE run == [k \in 0..len |-> m]
    <3>2. /\ \A k \in 0..len : run[k].trades \in Seq(TradeReport)
          /\ run[0] = m /\ run[len] = m
      BY <1>2, <1>3
    <3>3. ASSUME NEW k \in 1..len
          PROVE  Takes(level.price, run[k - 1], s[k], run[k])
      <4>1. run[k - 1] = m /\ run[k] = m  BY <1>2
      <4>2. s[k].quantity \in Nat
        <5>1. s[k] \in OrderNode /\ QuantityModulus \in Nat  BY <1>2, QuantitiesAssumption
        <5> QED  BY <5>1 DEF OrderNode
      <4>3. Gift(m.left, s[k]) = 0  BY <3>1, <4>2 DEF Gift
      <4>4. m.left = m.left - Gift(m.left, s[k])  BY <3>1, <4>3
      <4>5. m.trades = TradesNext(m.left, m.trades, level.price, s[k])
        BY <4>3 DEF TradesNext
      <4>6. Takes(level.price, m, s[k], m)  BY <2>5, <4>4, <4>5 DEF Takes
      <4> QED  BY <4>1, <4>6
    <3> HIDE DEF run
    <3>4. Followed(order, Offers(order, levels), Reached(Offers(order, levels), levels, i, 0), run[0])
      BY <3>2
    <3>5. Followed(order, offers, E, run[len])
      BY <2>5, <3>2, <3>3, <3>4, LevelFollowed
    <3>6. Followed(order, offers, E, m)  BY <3>2, <3>5
    <3> HIDE DEF r, E, offers
    <3> QED  BY <2>2, <3>6 DEF Followed, r, E, offers
  <2> QED  BY <2>3, <2>4, <2>5
<1>5. CASE ~ Untouched(order, m, level)
  <2>1. Crossing(order, level.price) /\ ~ m.overflow  BY <1>5 DEF Untouched, Crossing
  <2>2. Start(m, level) \in Within
    <3>1. <<>> \in Seq(OrderNode) /\ level.total_quantity \in Remaining
      BY <1>2 DEF PriceLevel, Remaining
    <3>2. m.left \in Remaining /\ Len(m.trades) <= MaxTradesPerOrder
      BY DEF Sweeping, LevelsState
    <3> QED  BY <1>3, <3>1, <3>2 DEF Start, Within, MakersState
  <2>3. PICK run \in [0..len -> Within] :
           /\ run[0] = Start(m, level)
           /\ run[len] = MatchMakers(order, m, level)
           /\ \A k \in 1..len : run[k] = MatchMaker(order, level.price, run[k - 1], s[k])
    <3> HIDE DEF level
    <3> QED  BY <1>2, <2>2, MatchMakersRuns
  <2>4. \A k \in 0..len : run[k].trades \in Seq(TradeReport)  BY DEF Within, MakersState
  <2>5. ASSUME NEW k \in 1..len PROVE Takes(level.price, run[k - 1], s[k], run[k])
    <3>1. k - 1 \in 0..len  BY <1>2
    <3>2. run[k - 1] \in Within  BY <3>1
    <3> QED  BY <1>2, <2>3, <3>2, MatchMakerTakes
  <2>6. Followed(order, Offers(order, levels), Reached(Offers(order, levels), levels, i, 0), run[0])
    <3>1. run[0].left = m.left /\ run[0].trades = m.trades /\ run[0].overflow = FALSE
      BY <2>3 DEF Start
    <3> QED  BY <2>1, <3>1 DEF Followed
  <2>7. Followed(order, offers, E, run[len])
    BY <2>1, <2>4, <2>5, <2>6, LevelFollowed
  <2>8. LET done == MatchMakers(order, m, level)
        IN  r.left = done.left /\ r.trades = done.trades /\ r.overflow = done.overflow
    BY <1>5, MatchLevelResult
  <2> HIDE DEF r, E, offers
  <2> QED  BY <2>3, <2>7, <2>8 DEF Followed, r, E, offers
<1> QED  BY <1>4, <1>5

LEMMA MatchOrderFollowed ==
    ASSUME NEW order, order.quantity \in Remaining, NEW levels,
           SideOK(Opposite(order.side), levels), ~ MatchOrder(order, levels).overflow
    PROVE  MatchOrder(order, levels).trades = PriorityTrades(order, levels)
<1> DEFINE offers == Offers(order, levels)
           side == Opposite(order.side)
           n == Len(levels)
<1>1. levels \in Seq(PriceLevel) /\ Ranked(side, offers)  BY OffersRanked DEF SideOK
<1>2. n \in Nat  BY <1>1, LenProperties
<1>3. SweepStart(order) \in Sweeping
  BY LimitsAssumption DEF SweepStart, Sweeping, LevelsState
<1>4. PICK run \in [0..n -> Sweeping] :
         /\ run[0] = SweepStart(order)
         /\ run[n] = MatchOrder(order, levels)
         /\ \A k \in 1..n : run[k] = MatchLevel(order, run[k - 1], levels[k])
  BY <1>3, MatchOrderRuns
<1>5. order.quantity \in Nat  BY QuantitiesAssumption DEF Remaining
<1> DEFINE T == {k \in 0..n :
                    Followed(order, offers, Reached(offers, levels, k + 1, 0), run[k])}
<1>6. 0 \in T
  <2>1. Reached(offers, levels, 0 + 1, 0) = {}  BY <1>1, ReachedEnds
  <2>2. Left(order, offers, {}) = order.quantity
    <3>1. Supply(offers, {}) = 0  BY <1>1, SupplyGrows
    <3> QED  BY <1>5, <3>1 DEF Left
  <2>3. Givers(order, offers) \cap {} = {} /\ Cardinality({}) = 0 /\ Len(<<>>) = 0 /\ 1..0 = {}
    BY FS_EmptySet
  <2>4. Traded(order, offers, {}, order.quantity, <<>>)
    <3> HIDE DEF offers
    <3> QED  BY <2>2, <2>3 DEF Traded
  <2>5. run[0].left = order.quantity /\ run[0].trades = <<>>  BY <1>4 DEF SweepStart
  <2>6. Followed(order, offers, Reached(offers, levels, 0 + 1, 0), run[0])
    <3> HIDE DEF offers
    <3> QED  BY <2>1, <2>4, <2>5 DEF Followed
  <2> QED  BY <1>2, <2>6
<1>7. ASSUME NEW k \in T \cap (0..(n - 1)) PROVE k + 1 \in T
  <2> DEFINE j == k + 1
  <2>1. j \in 1..n /\ j - 1 = k /\ k \in 0..n /\ j \in 0..n  BY <1>2
  <2>2. Followed(order, offers, Reached(offers, levels, j, 0), run[k])  OBVIOUS
  <2> HIDE DEF j, T
  <2>3. run[k] \in Sweeping /\ run[j] = MatchLevel(order, run[k], levels[j])
    BY <1>4, <2>1
  <2>4. Followed(order, offers, Reached(offers, levels, j + 1, 0), MatchLevel(order, run[k], levels[j]))
    BY <1>5, <2>1, <2>2, <2>3, MatchLevelFollowed
  <2>5. j \in T  BY <2>1, <2>3, <2>4 DEF T
  <2> QED  BY <2>5 DEF j
<1>8. 0..n \subseteq T
  <2> HIDE DEF T, n
  <2> QED  BY <1>2, <1>6, <1>7, UpTo
<1>9. n \in 0..n  BY <1>2
<1>10. Followed(order, offers, Reached(offers, levels, n + 1, 0), run[n])
  <2> HIDE DEF offers, n
  <2> QED  BY <1>8, <1>9
<1>11. Reached(offers, levels, n + 1, 0) = offers  BY <1>1, ReachedEnds
<1> DEFINE m == MatchOrder(order, levels)
<1>12. m \in Sweeping  BY <1>4, <1>9
<1>13. m.trades \in Seq(TradeReport)
  <2> HIDE DEF m
  <2> QED  BY <1>12 DEF Sweeping, LevelsState
<1>14. Traded(order, offers, offers, m.left, m.trades)
  BY <1>4, <1>10, <1>11 DEF Followed
<1> DEFINE left == m.left
           trades == m.trades
<1>15. trades \in Seq(TradeReport) /\ Traded(order, Offers(order, levels), Offers(order, levels), left, trades)
  BY <1>13, <1>14
<1> HIDE DEF left, trades
<1>16. trades = PriorityTrades(order, levels)  BY <1>1, <1>15, AllTraded
<1> QED  BY <1>16 DEF trades
-----------------------------------------------------------------------------
(* The trades of every order *)

LEMMA AddFollows ==
    ASSUME BookInv, NEW order \in Orders, AddValidOrder(order), reply'.error = "none"
    PROVE  /\ reply'.order = order
           /\ reply'.trades = PriorityTrades(order, Levels(Opposite(order.side)))
<1> DEFINE side == order.side
           opposite == Levels(Opposite(side))
           m == MatchOrder(order, opposite)
<1>1. side \in Sides /\ order.quantity \in Remaining
  BY OrdersAssumption, QuantitiesAssumption DEF Sides, Remaining
<1>2. SideOK(Opposite(side), opposite)  BY <1>1, BookFaces DEF Faces
<1>3. IF m.overflow
      THEN Reply("trade_batch_overflow", order, <<>>, ToSet(m.retired))
      ELSE Reply("none", order, m.trades, ToSet(m.retired))
  BY DEF AddValidOrder
<1> HIDE DEF m, opposite
<1>4. ~ m.overflow
  <2>1. SUFFICES ASSUME m.overflow PROVE FALSE  OBVIOUS
  <2>2. reply'.error = "trade_batch_overflow"  BY <1>3, <2>1 DEF Reply
  <2> QED  BY <2>2
<1>5. reply'.order = order /\ reply'.trades = m.trades  BY <1>3, <1>4 DEF Reply
<1>6. m.trades = PriorityTrades(order, opposite)
  BY <1>1, <1>2, <1>4, MatchOrderFollowed DEF m
<1> QED  BY <1>5, <1>6 DEF opposite

\* Every step that answers without an error and moves the clock adds an order.
LEMMA AcceptedAdds ==
    ASSUME Next, clock' # clock PROVE \E order \in Orders : AddValidOrder(order)
<1>1. ASSUME NEW order \in Orders, TryAddOrder(order) PROVE AddValidOrder(order)
  BY <1>1 DEF TryAddOrder, RejectOrder
<1>2. ASSUME NEW id \in OrderIds, NEW s \in Sides, NEW price \in Prices,
             \/ CancelOrder(id, s, price)
             \/ NotFound(id, s, price)
             \/ \E q \in NewQuantities : ModifyOrder(id, s, price, q)
      PROVE  FALSE
  BY <1>2 DEF CancelOrder, NotFound, ModifyOrder
<1> QED  BY <1>1, <1>2 DEF Next

\* Price-time priority in full: every accepted order trades with the makers that cross it,
\* the best price first and the oldest of one price first, each maker gives the least of
\* what it has and of what is left, and no other trade is reported (order_book.cpp:21-125).
THEOREM FillsInPriorityOrder == Spec => FillsFollowPriority
<1>1. ASSUME BookInv, [Next]_vars
      PROVE  [clock' # clock /\ reply'.error = "none" =>
                 LET order == reply'.order
                 IN  reply'.trades = PriorityTrades(order, Levels(Opposite(order.side)))]_vars
  <2>1. CASE UNCHANGED vars  BY <2>1
  <2>2. ASSUME clock' # clock, reply'.error = "none", Next
        PROVE  reply'.trades = PriorityTrades(reply'.order, Levels(Opposite(reply'.order.side)))
    <3>1. PICK order \in Orders : AddValidOrder(order)  BY <2>2, AcceptedAdds
    <3> QED  BY <1>1, <2>2, <3>1, AddFollows
  <2> QED  BY <1>1, <2>1, <2>2
<1> QED  BY <1>1, BookAlways, PTL DEF Spec, FillsFollowPriority
-----------------------------------------------------------------------------
(* What an order trades and what it has left make up the order *)

Conserved(quantity, a) ==
    a.overflow \/ (a.left \in Nat /\ Quantity(a.trades) + a.left = quantity)

LEMMA TradesCountable == ASSUME NEW s \in Seq(TradeReport) PROVE Countable(s)
<1>1. \A i \in 1..Len(s) : s[i] \in TradeReport  BY LenProperties
<1> QED  BY <1>1 DEF Countable, TradeReport

LEMMA TakesConserve ==
    ASSUME NEW quantity, NEW price \in Prices, NEW m, m.trades \in Seq(TradeReport),
           NEW node \in OrderNode, NEW r, Takes(price, m, node, r), Conserved(quantity, m)
    PROVE  Conserved(quantity, r)
<1>1. CASE r.overflow  BY <1>1 DEF Conserved
<1>2. CASE ~ r.overflow
  <2> DEFINE q == Gift(m.left, node)
             trades == m.trades
             report == [maker |-> node.order_id, quantity |-> q, price |-> price]
  <2>1. /\ ~ m.overflow /\ r.left = m.left - q
        /\ r.trades = IF q = 0 THEN trades ELSE Append(trades, report)
    BY <1>2 DEF Takes, TradesNext
  <2>2. m.left \in Nat /\ Quantity(trades) + m.left = quantity  BY <2>1 DEF Conserved
  <2>3. node.quantity \in Nat /\ node.order_id \in OrderIds
    <3>1. QuantityModulus \in Nat  BY QuantitiesAssumption
    <3> QED  BY <3>1 DEF OrderNode
  <2>4. q \in Nat /\ q <= m.left  BY <2>2, <2>3 DEF Gift
  <2>5. trades \in Seq(TradeReport) /\ Countable(trades)  BY TradesCountable
  <2>6. report \in TradeReport /\ report.quantity = q  BY <2>3, <2>4 DEF TradeReport
  <2> HIDE DEF q, report, trades
  <2>7. Quantity(trades) \in Nat  BY <2>5, QuantityType
  <2>8. Quantity(r.trades) = Quantity(trades) + q
    <3>1. CASE q = 0  BY <2>1, <2>7, <3>1
    <3>2. CASE q # 0
      <4>1. Quantity(Append(trades, report)) = Quantity(trades) + report.quantity
        BY <2>4, <2>5, <2>6, QuantityAppend
      <4> QED  BY <2>1, <2>6, <3>2, <4>1
    <3> QED  BY <3>1, <3>2
  <2>9. r.left \in Nat /\ Quantity(r.trades) + r.left = quantity
    BY <2>1, <2>2, <2>4, <2>7, <2>8
  <2> QED  BY <2>9 DEF Conserved
<1> QED  BY <1>1, <1>2

LEMMA MatchMakersConserve ==
    ASSUME NEW level \in PriceLevel, NEW m, NEW taker, Start(m, level) \in Within,
           NEW done, done = MatchMakers(taker, m, level),
           NEW quantity, Conserved(quantity, Start(m, level))
    PROVE  Conserved(quantity, done)
<1> DEFINE s == level.orders
           n == Len(s)
<1>1. PICK run \in [0..n -> Within] :
         /\ run[0] = Start(m, level)
         /\ run[n] = done
         /\ \A k \in 1..n : run[k] = MatchMaker(taker, level.price, run[k - 1], s[k])
  BY MatchMakersRuns
<1>2. s \in Seq(OrderNode) /\ level.price \in Prices  BY DEF PriceLevel
<1>3. n \in Nat /\ \A j \in 1..n : s[j] \in OrderNode  BY <1>2, LenProperties
<1> HIDE DEF n, s
<1> DEFINE T == {k \in 0..n : Conserved(quantity, run[k])}
<1>4. 0 \in T
  <2>1. Conserved(quantity, run[0])  BY <1>1
  <2> QED  BY <1>3, <2>1
<1>5. ASSUME NEW k \in T \cap (0..(n - 1)) PROVE k + 1 \in T
  <2> DEFINE j == k + 1
  <2>1. j \in 1..n /\ j - 1 = k /\ k \in 0..n /\ j \in 0..n  BY <1>3
  <2>2. Conserved(quantity, run[k])  OBVIOUS
  <2> HIDE DEF j, T
  <2>3. run[k] \in Within /\ s[j] \in OrderNode  BY <1>3, <2>1
  <2>4. Takes(level.price, run[k], s[j], run[j])
    BY <1>1, <1>2, <2>1, <2>3, MatchMakerTakes
  <2>5. run[k].trades \in Seq(TradeReport)  BY <2>3 DEF Within, MakersState
  <2>6. Conserved(quantity, run[j])  BY <1>2, <2>2, <2>3, <2>4, <2>5, TakesConserve
  <2>7. j \in T  BY <2>1, <2>6 DEF T
  <2> QED  BY <2>7 DEF j
<1>6. 0..n \subseteq T
  <2> HIDE DEF T
  <2> QED  BY <1>3, <1>4, <1>5, UpTo
<1>7. n \in 0..n  BY <1>3
<1> QED  BY <1>1, <1>6, <1>7 DEF s, n

LEMMA MatchLevelConserves ==
    ASSUME NEW taker, NEW level \in PriceLevel, NEW quantity,
           NEW m \in Sweeping, Conserved(quantity, m)
    PROVE  Conserved(quantity, MatchLevel(taker, m, level))
<1> DEFINE r == MatchLevel(taker, m, level)
<1>1. m \in LevelsState  BY DEF Sweeping
<1>2. CASE Untouched(taker, m, level)
  <2>1. r = [m EXCEPT !.levels = Append(@, level)]  BY <1>2 DEF MatchLevel
  <2>2. r.left = m.left /\ r.trades = m.trades /\ r.overflow = m.overflow
    BY <1>1, <2>1 DEF LevelsState
  <2> HIDE DEF r
  <2> QED  BY <2>2 DEF Conserved, r
<1>3. CASE ~ Untouched(taker, m, level)
  <2> DEFINE start == Start(m, level)
  <2>1. ~ m.overflow  BY <1>3 DEF Untouched
  <2>2. start \in Within
    <3>1. <<>> \in Seq(OrderNode) /\ level.total_quantity \in Remaining
      BY DEF PriceLevel, Remaining
    <3>2. /\ m.left \in Remaining /\ Len(m.trades) <= MaxTradesPerOrder
          /\ m.trades \in Seq(TradeReport)
      BY DEF Sweeping, LevelsState
    <3> QED  BY <3>1, <3>2 DEF Start, Within, MakersState
  <2>3. Conserved(quantity, start)
    <3>1. start.left = m.left /\ start.trades = m.trades  BY DEF Start
    <3> HIDE DEF start
    <3> QED  BY <2>1, <3>1 DEF Conserved
  <2>4. Conserved(quantity, MatchMakers(taker, m, level))
    BY <2>2, <2>3, MatchMakersConserve
  <2>5. LET done == MatchMakers(taker, m, level)
        IN  r.left = done.left /\ r.trades = done.trades /\ r.overflow = done.overflow
    BY <1>3, MatchLevelResult
  <2> HIDE DEF r
  <2> QED  BY <2>4, <2>5 DEF Conserved, r
<1> QED  BY <1>2, <1>3

LEMMA MatchOrderConserves ==
    ASSUME NEW order, order.quantity \in Remaining, NEW side, NEW levels,
           SideOK(side, levels), ~ MatchOrder(order, levels).overflow
    PROVE  order.quantity - Quantity(MatchOrder(order, levels).trades) =
              MatchOrder(order, levels).left
<1> DEFINE n == Len(levels)
           m == MatchOrder(order, levels)
<1>1. levels \in Seq(PriceLevel)  BY DEF SideOK
<1>2. n \in Nat /\ \A i \in 1..n : levels[i] \in PriceLevel  BY <1>1, LenProperties
<1>3. SweepStart(order) \in Sweeping
  BY LimitsAssumption DEF SweepStart, Sweeping, LevelsState
<1>4. PICK run \in [0..n -> Sweeping] :
         /\ run[0] = SweepStart(order)
         /\ run[n] = MatchOrder(order, levels)
         /\ \A k \in 1..n : run[k] = MatchLevel(order, run[k - 1], levels[k])
  BY <1>3, MatchOrderRuns
<1>5. order.quantity \in Nat  BY QuantitiesAssumption DEF Remaining
<1> DEFINE T == {k \in 0..n : Conserved(order.quantity, run[k])}
<1>6. 0 \in T
  <2>1. run[0].left = order.quantity /\ run[0].trades = <<>>  BY <1>4 DEF SweepStart
  <2>2. Conserved(order.quantity, run[0])  BY <1>5, <2>1, QuantityEmpty DEF Conserved
  <2> QED  BY <1>2, <2>2
<1>7. ASSUME NEW k \in T \cap (0..(n - 1)) PROVE k + 1 \in T
  <2> DEFINE j == k + 1
  <2>1. j \in 1..n /\ j - 1 = k /\ k \in 0..n /\ j \in 0..n  BY <1>2
  <2>2. Conserved(order.quantity, run[k])  OBVIOUS
  <2> HIDE DEF j, T
  <2>3. run[k] \in Sweeping /\ run[j] = MatchLevel(order, run[k], levels[j])
    BY <1>4, <2>1
  <2>4. Conserved(order.quantity, MatchLevel(order, run[k], levels[j]))
    <3> DEFINE a == run[k]
               level == levels[j]
               quantity == order.quantity
    <3>1. a \in Sweeping /\ level \in PriceLevel /\ Conserved(quantity, a)
      BY <1>2, <2>1, <2>2, <2>3
    <3> HIDE DEF a, level, quantity
    <3>2. Conserved(quantity, MatchLevel(order, a, level))  BY <3>1, MatchLevelConserves
    <3> QED  BY <3>2 DEF a, level, quantity
  <2>5. Conserved(order.quantity, run[j])  BY <2>3, <2>4
  <2>6. j \in T  BY <2>1, <2>5 DEF T
  <2> QED  BY <2>6 DEF j
<1>8. 0..n \subseteq T
  <2> HIDE DEF T, n
  <2> QED  BY <1>2, <1>6, <1>7, UpTo
<1>9. n \in 0..n  BY <1>2
<1>10. m \in Sweeping /\ Conserved(order.quantity, m)  BY <1>4, <1>8, <1>9
<1>11. ~ m.overflow  OBVIOUS
<1> HIDE DEF m
<1>12. m.trades \in Seq(TradeReport)  BY <1>10 DEF Sweeping, LevelsState
<1> DEFINE trades == m.trades
<1>13. trades \in Seq(TradeReport) /\ Countable(trades)  BY <1>12, TradesCountable
<1> HIDE DEF trades
<1>14. Quantity(trades) \in Nat  BY <1>13, QuantityType
<1>15. m.left \in Nat /\ Quantity(trades) + m.left = order.quantity
  BY <1>10, <1>11 DEF Conserved, trades
<1>16. order.quantity - Quantity(trades) = m.left  BY <1>5, <1>14, <1>15
<1> QED  BY <1>16 DEF m, trades
-----------------------------------------------------------------------------
(* What rests at a price *)

\* What a level holds, if it is the level of price p.
Amount(level, p) == IF level.price = p THEN Quantity(level.orders) ELSE 0

LEMMA AmountType ==
    ASSUME NEW level \in PriceLevel, NEW p
    PROVE  Amount(level, p) \in Nat /\ Quantity(level.orders) \in Nat
<1>1. level.orders \in Seq(OrderNode)  BY DEF PriceLevel
<1>2. Countable(level.orders)  BY <1>1, NodesCountable
<1>3. Quantity(level.orders) \in Nat  BY <1>1, <1>2, QuantityType
<1> QED  BY <1>3 DEF Amount

\* The sums over the first levels of a side.
AmountsTo(F, levels, p) ==
    /\ F \in [0..Len(levels) -> Nat]
    /\ F[0] = 0
    /\ \A k \in 1..Len(levels) : F[k] = F[k - 1] + Amount(levels[k], p)

LEMMA RestingRuns ==
    ASSUME NEW s \in Seq(PriceLevel), NEW p
    PROVE  \E F : AmountsTo(F, s, p) /\ RestingAt(s, p) = F[Len(s)]
<1> DEFINE n == Len(s)
           step == [k \in 1..n |-> [sum \in Nat |-> sum + Amount(s[k], p)]]
           G(iter) == [t \in SUBSET (DOMAIN s) |->
                          IF t = {} THEN 0 ELSE iter[t \ {Max(t)}] + Amount(s[Max(t)], p)]
<1>0. \A k \in 1..n : Amount(s[k], p) \in Nat
  <2>1. \A k \in 1..n : s[k] \in PriceLevel  BY LenProperties
  <2> QED  BY <2>1, AmountType
<1>1. n \in Nat /\ DOMAIN s = 1..n  OBVIOUS
<1>2. RestingAt(s, p) = (CHOOSE iter : iter = G(iter))[DOMAIN s]
  BY DEF RestingAt, FoldLeft, MapThenFoldSet, Amount
<1>3. \E iter : iter = G(iter)
  <2>1. step \in [1..n -> [Nat -> Nat]]  BY <1>0
  <2> HIDE DEF step
  <2>2. PICK iter \in [SUBSET (1..n) -> Nat] : iter = FoldEquation(n, 0, step, iter)
    <3>1. PICK iter : Folds(n, Nat, 0, step, iter)  BY <1>1, <2>1, FoldExists
    <3> QED  BY <3>1 DEF Folds
  <2> DEFINE E == FoldEquation(n, 0, step, iter)
  <2>3. ASSUME NEW t \in SUBSET (1..n) PROVE E[t] = G(iter)[t]
    <3>1. CASE t = {}  BY <1>1, <3>1 DEF FoldEquation
    <3>2. CASE t # {}
      <4>1. Max(t) \in 1..n  BY <3>2, <1>1, GreatestNumber
      <4>2. iter[t \ {Max(t)}] \in Nat  OBVIOUS
      <4>3. E[t] = step[Max(t)][iter[t \ {Max(t)}]]  BY <3>2 DEF FoldEquation
      <4>4. step[Max(t)][iter[t \ {Max(t)}]] = iter[t \ {Max(t)}] + Amount(s[Max(t)], p)
        BY <4>1, <4>2 DEF step
      <4> QED  BY <4>3, <4>4, <3>2, <1>1
    <3> QED  BY <3>1, <3>2
  <2>4. E = G(iter)
    <3>1. E = [t \in SUBSET (1..n) |-> E[t]]  BY DEF FoldEquation
    <3>2. G(iter) = [t \in SUBSET (1..n) |-> G(iter)[t]]  BY <1>1
    <3> HIDE DEF E, G
    <3> QED  BY <2>3, <3>1, <3>2
  <2> QED  BY <2>2, <2>4
<1> DEFINE J == CHOOSE iter : iter = G(iter)
<1>4. J = G(J)  BY <1>3
<1>5. J[{}] = 0
  <2>1. G(J)[{}] = 0  OBVIOUS
  <2> HIDE DEF J, G
  <2> QED  BY <2>1, <1>4
<1>6. ASSUME NEW t \in SUBSET (1..n), t # {}, J[t \ {Max(t)}] \in Nat
      PROVE  J[t] = step[Max(t)][J[t \ {Max(t)}]]
  <2>1. Max(t) \in 1..n  BY <1>6, <1>1, GreatestNumber
  <2>2. G(J)[t] = J[t \ {Max(t)}] + Amount(s[Max(t)], p)  BY <1>1, <1>6
  <2>3. step[Max(t)][J[t \ {Max(t)}]] = J[t \ {Max(t)}] + Amount(s[Max(t)], p)
    BY <2>1, <1>6
  <2> HIDE DEF J, G, step
  <2> QED  BY <2>2, <2>3, <1>4
<1>7. step \in [1..n -> [Nat -> Nat]]  BY <1>0
<1> HIDE DEF J
<1>8. PICK run : Runs(n, Nat, 0, step, J[1..n], run)
  <2> HIDE DEF step, G, n
  <2>1. Unfolds(n, Nat, 0, step, J)  BY <1>5, <1>6 DEF Unfolds
  <2>2. n \in Nat /\ 0 \in Nat  BY <1>1
  <2> QED  BY <1>7, <2>1, <2>2, FoldRuns
<1>9. ASSUME NEW k \in 1..n PROVE run[k] = run[k - 1] + Amount(s[k], p)
  <2>1. k - 1 \in 0..n  BY <1>1
  <2> QED  BY <2>1, <1>8 DEF Runs
<1>10. RestingAt(s, p) = run[n]  BY <1>1, <1>2, <1>8 DEF J, Runs
<1>11. AmountsTo(run, s, p)  BY <1>8, <1>9 DEF AmountsTo, Runs
<1> QED  BY <1>10, <1>11

LEMMA PricesDiffer ==
    ASSUME NEW side, NEW levels, SideOK(side, levels)
    PROVE  /\ levels \in Seq(PriceLevel) /\ Len(levels) \in Nat
           /\ \A i \in 1..Len(levels) : levels[i] \in PriceLevel /\ levels[i].price \in Nat
           /\ \A i, j \in 1..Len(levels) :
                 /\ i < j => Better(side, levels[i].price, levels[j].price)
                 /\ levels[i].price = levels[j].price => i = j
<1> DEFINE n == Len(levels)
<1>1. levels \in Seq(PriceLevel) /\ Sorted(side, levels)  BY DEF SideOK
<1>2. n \in Nat /\ DOMAIN levels = 1..n /\ \A i \in 1..n : levels[i] \in PriceLevel
  BY <1>1, LenProperties
<1>3. \A i \in 1..n : levels[i].price \in Nat  BY <1>2, PricesAssumption DEF PriceLevel
<1>4. \A i, j \in 1..n : i < j => Better(side, levels[i].price, levels[j].price)
  BY <1>1, <1>2 DEF Sorted
<1> HIDE DEF n
<1>5. ASSUME NEW i \in 1..n, NEW j \in 1..n, levels[i].price = levels[j].price PROVE i = j
  <2>1. \A k \in 1..n : ~ Better(side, levels[k].price, levels[k].price)
    BY <1>3 DEF Better
  <2>2. ~ (i < j) /\ ~ (j < i)  BY <1>4, <1>5, <2>1
  <2> QED  BY <1>2, <2>2
<1> QED  BY <1>1, <1>2, <1>3, <1>4, <1>5 DEF n

\* At most one level is of a price, and what it holds rests there.
LEMMA RestingIs ==
    ASSUME NEW side, NEW levels, SideOK(side, levels), NEW p
    PROVE  /\ RestingAt(levels, p) \in Nat
           /\ (\A i \in 1..Len(levels) : levels[i].price # p) => RestingAt(levels, p) = 0
           /\ \A i \in 1..Len(levels) :
                 levels[i].price = p => RestingAt(levels, p) = Quantity(levels[i].orders)
<1> DEFINE n == Len(levels)
<1>1. /\ levels \in Seq(PriceLevel) /\ n \in Nat
      /\ \A i \in 1..n : levels[i] \in PriceLevel
      /\ \A i, j \in 1..n : levels[i].price = levels[j].price => i = j
  BY PricesDiffer
<1>2. PICK F : AmountsTo(F, levels, p) /\ RestingAt(levels, p) = F[n]  BY <1>1, RestingRuns
<1>3. /\ \A k \in 0..n : F[k] \in Nat
      /\ F[0] = 0 /\ \A k \in 1..n : F[k] = F[k - 1] + Amount(levels[k], p)
  BY <1>2 DEF AmountsTo
<1> DEFINE None(k) == (\A i \in 1..k : levels[i].price # p) => F[k] = 0
           One(k) == \A i \in 1..k : levels[i].price = p => F[k] = Quantity(levels[i].orders)
           T == {k \in 0..n : None(k) /\ One(k)}
<1>4. 0 \in T
  <2>1. 0 \in 0..n /\ 1..0 = {}  BY <1>1
  <2>2. None(0) /\ One(0)  BY <1>3, <2>1
  <2> QED  BY <2>1, <2>2
<1>5. ASSUME NEW k \in T \cap (0..(n - 1)) PROVE k + 1 \in T
  <2> DEFINE j == k + 1
  <2>1. j \in 1..n /\ j - 1 = k /\ k \in 0..n /\ j \in 0..n /\ 1..j = (1..k) \cup {j}
        /\ j \notin 1..k /\ \A i \in 1..k : i \in 1..n
    BY <1>1
  <2>2. None(k) /\ One(k)  OBVIOUS
  <2> HIDE DEF j, T, n
  <2>3. F[j] = F[k] + Amount(levels[j], p) /\ F[k] \in Nat  BY <1>3, <2>1
  <2>4. Quantity(levels[j].orders) \in Nat
    <3>1. levels[j] \in PriceLevel  BY <1>1, <2>1
    <3> QED  BY <3>1, AmountType
  <2>5. CASE levels[j].price = p
    <3>1. \A i \in 1..k : levels[i].price # p  BY <1>1, <2>1, <2>5
    <3>2. F[k] = 0  BY <2>2, <3>1
    <3>3. F[j] = Quantity(levels[j].orders)  BY <2>3, <2>4, <2>5, <3>2 DEF Amount
    <3>4. None(j) /\ One(j)  BY <2>1, <2>5, <3>1, <3>3
    <3> QED  BY <2>1, <3>4 DEF T, j
  <2>6. CASE levels[j].price # p
    <3>1. F[j] = F[k]  BY <2>3, <2>6 DEF Amount
    <3>2. None(j) /\ One(j)  BY <2>1, <2>2, <2>6, <3>1
    <3> QED  BY <2>1, <3>2 DEF T, j
  <2> QED  BY <2>5, <2>6
<1>6. 0..n \subseteq T
  <2> HIDE DEF T, n
  <2> QED  BY <1>1, <1>4, <1>5, UpTo
<1>7. n \in T  BY <1>1, <1>6
<1> QED  BY <1>1, <1>2, <1>3, <1>7
-----------------------------------------------------------------------------
(* The best prices of a side *)

PricesOf(levels) == {levels[i].price : i \in DOMAIN levels}

LEMMA PriceOf ==
    ASSUME NEW levels \in Seq(PriceLevel), NEW p
    PROVE  p \in PricesOf(levels) <=> \E i \in 1..Len(levels) : levels[i].price = p
<1>1. DOMAIN levels = 1..Len(levels)  BY LenProperties
<1> QED  BY <1>1 DEF PricesOf

\* The prices better than that of level i are those of the levels before it.
LEMMA PriceRank ==
    ASSUME NEW side, NEW levels, SideOK(side, levels), NEW i \in 1..Len(levels)
    PROVE  Cardinality({q \in PricesOf(levels) : Better(side, q, levels[i].price)}) = i - 1
<1> DEFINE n == Len(levels)
           R == {q \in PricesOf(levels) : Better(side, q, levels[i].price)}
           f == [k \in 1..(i - 1) |-> levels[k].price]
<1>1. /\ levels \in Seq(PriceLevel) /\ n \in Nat
      /\ \A k \in 1..n : levels[k].price \in Nat
      /\ \A j, k \in 1..n : j < k => Better(side, levels[j].price, levels[k].price)
      /\ \A j, k \in 1..n : levels[j].price = levels[k].price => j = k
  BY PricesDiffer
<1>2. i \in 1..n /\ i - 1 \in Nat /\ \A k \in 1..(i - 1) : k \in 1..n /\ k < i  BY <1>1
<1> HIDE DEF n
<1>3. \A k \in 1..(i - 1) : f[k] \in R
  <2>1. SUFFICES ASSUME NEW k \in 1..(i - 1) PROVE levels[k].price \in R  OBVIOUS
  <2>2. levels[k].price \in PricesOf(levels)  BY <1>1, <1>2, PriceOf DEF n
  <2>3. Better(side, levels[k].price, levels[i].price)  BY <1>1, <1>2
  <2> QED  BY <2>2, <2>3
<1>4. \A q \in R : \E k \in 1..(i - 1) : f[k] = q
  <2>1. SUFFICES ASSUME NEW q \in R PROVE \E k \in 1..(i - 1) : levels[k].price = q  OBVIOUS
  <2>2. PICK k \in 1..n : levels[k].price = q  BY <1>1, PriceOf DEF n
  <2>3. Better(side, levels[k].price, levels[i].price)  BY <2>2
  <2>4. levels[k].price \in Nat /\ levels[i].price \in Nat  BY <1>1, <1>2
  <2>5. k # i /\ ~ (i < k)
    <3>1. ~ Better(side, levels[i].price, levels[k].price) /\ levels[k].price # levels[i].price
      BY <2>3, <2>4 DEF Better
    <3> QED  BY <1>1, <1>2, <3>1
  <2>6. k \in 1..(i - 1)  BY <1>1, <1>2, <2>5
  <2> QED  BY <2>2, <2>6
<1>5. \A j, k \in 1..(i - 1) : f[j] = f[k] => j = k  BY <1>1, <1>2
<1>6. f \in Bijection(1..(i - 1), R)
  <2>1. f \in [1..(i - 1) -> R] /\ DOMAIN f = 1..(i - 1)  BY <1>3
  <2> HIDE DEF f, R
  <2>2. f \in Injection(1..(i - 1), R)  BY <1>5, <2>1 DEF Injection, IsInjective
  <2>3. f \in Surjection(1..(i - 1), R)  BY <1>4, <2>1 DEF Surjection
  <2> QED  BY <2>2, <2>3 DEF Bijection
<1> HIDE DEF f, R
<1>7. ExistsBijection(1..(i - 1), R)  BY <1>6 DEF ExistsBijection
<1> DEFINE r == i - 1
<1>8. r \in Nat /\ ExistsBijection(1..r, R)  BY <1>2, <1>7
<1> HIDE DEF r
<1>9. Cardinality(R) = r  BY <1>8, FS_CountingElements
<1> QED  BY <1>9 DEF R, r

\* The prices that a side of at most MaxDepthLevels levels keeps.
KeptOf(side, prices) ==
    {p \in prices : Cardinality({q \in prices : Better(side, q, p)}) < MaxDepthLevels}

\* New is the best levels of all, as many as a side may have.
Top(all, new) ==
    /\ Len(new) <= Len(all) /\ Len(new) <= MaxDepthLevels
    /\ Len(new) < Len(all) => Len(new) = MaxDepthLevels
    /\ \A i \in 1..Len(new) : new[i] = all[i]

LEMMA TopRests ==
    ASSUME NEW side, NEW all, SideOK(side, all), NEW new, SideOK(side, new), Top(all, new),
           NEW p
    PROVE  RestingAt(new, p) =
              IF p \notin KeptOf(side, PricesOf(all)) THEN 0 ELSE RestingAt(all, p)
<1> DEFINE prices == PricesOf(all)
           rank(q) == Cardinality({x \in prices : Better(side, x, q)})
           kept == KeptOf(side, prices)
<1>1. all \in Seq(PriceLevel) /\ Len(all) \in Nat /\ Len(new) \in Nat  BY PricesDiffer
<1>2. /\ Len(new) <= Len(all) /\ Len(new) <= MaxDepthLevels
      /\ Len(new) < Len(all) => Len(new) = MaxDepthLevels
      /\ \A i \in 1..Len(new) : new[i] = all[i]
  BY DEF Top
<1>3. MaxDepthLevels \in Nat  BY LimitsAssumption
<1>4. \A i \in 1..Len(all) : rank(all[i].price) = i - 1  BY PriceRank
<1>5. p \in kept <=> p \in prices /\ rank(p) < MaxDepthLevels  BY DEF KeptOf
<1> HIDE DEF prices, rank, kept
<1>6. ASSUME p \in kept PROVE RestingAt(new, p) = RestingAt(all, p)
  <2>1. PICK i \in 1..Len(all) : all[i].price = p  BY <1>1, <1>5, <1>6, PriceOf DEF prices
  <2>2. i - 1 < MaxDepthLevels  BY <1>4, <1>5, <1>6, <2>1
  <2>3. i \in 1..Len(new)  BY <1>1, <1>2, <1>3, <2>2
  <2>4. new[i] = all[i] /\ new[i].price = p  BY <1>2, <2>1, <2>3
  <2>5. RestingAt(all, p) = Quantity(all[i].orders)  BY <2>1, RestingIs
  <2>6. RestingAt(new, p) = Quantity(new[i].orders)  BY <2>3, <2>4, RestingIs
  <2> QED  BY <2>4, <2>5, <2>6
<1>7. ASSUME p \notin kept PROVE RestingAt(new, p) = 0
  <2>1. ASSUME NEW i \in 1..Len(new) PROVE new[i].price # p
    <3>1. SUFFICES ASSUME new[i].price = p PROVE FALSE  OBVIOUS
    <3>2. i \in 1..Len(all) /\ all[i].price = p /\ i - 1 < MaxDepthLevels
      BY <1>1, <1>2, <1>3, <3>1
    <3>3. p \in prices  BY <1>1, <3>2, PriceOf DEF prices
    <3>4. rank(p) < MaxDepthLevels  BY <1>4, <3>2
    <3> QED  BY <1>5, <1>7, <3>3, <3>4
  <2> QED  BY <2>1, RestingIs
<1> QED  BY <1>6, <1>7 DEF kept, prices
-----------------------------------------------------------------------------
(* What a side holds when an order has joined it *)

LEMMA WithAdds ==
    ASSUME NEW level \in PriceLevel, NEW order, order.quantity \in Remaining,
           order.order_id \in OrderIds, order.timestamp \in Nat
    PROVE  Quantity(With(level, order).orders) = Quantity(level.orders) + order.quantity
<1> DEFINE node == [order_id |-> order.order_id, quantity |-> order.quantity,
                    timestamp |-> order.timestamp]
           s == level.orders
<1>1. node \in OrderNode /\ node.quantity = order.quantity  BY DEF OrderNode, Remaining
<1>2. order.quantity \in Nat  BY QuantitiesAssumption DEF Remaining
<1>3. With(level, order).orders = Append(s, node)  BY DEF With
<1>4. s \in Seq(OrderNode)  BY DEF PriceLevel
<1> HIDE DEF node, s
<1>5. Countable(s)  BY <1>4, NodesCountable
<1>6. Quantity(Append(s, node)) = Quantity(s) + node.quantity
  BY <1>1, <1>2, <1>4, <1>5, QuantityAppend
<1> QED  BY <1>1, <1>3, <1>6 DEF s

\* The order stands behind the orders of its price, if there are any.
Behind(levels, order, level) ==
    \/ \E i \in 1..Len(levels) : levels[i].price = order.price /\ level = With(levels[i], order)
    \/ /\ \A i \in 1..Len(levels) : levels[i].price # order.price
       /\ level = With([price |-> order.price, total_quantity |-> 0, orders |-> <<>>], order)

\* The levels of other prices stay, and the order's level holds the order's quantity more.
Grown(levels, order, joined) ==
    /\ \A j \in 1..Len(levels) :
          levels[j].price # order.price => \E k \in 1..Len(joined) : joined[k] = levels[j]
    /\ \A k \in 1..Len(joined) :
          joined[k].price # order.price => \E j \in 1..Len(levels) : joined[k] = levels[j]
    /\ \E k \in 1..Len(joined) :
          /\ joined[k].price = order.price
          /\ Quantity(joined[k].orders) = RestingAt(levels, order.price) + order.quantity
          /\ Behind(levels, order, joined[k])

\* A new last level leaves the others where they were.
LastIsNew(levels, order, joined) ==
    Len(joined) # Len(levels) /\ joined[Len(joined)].price = order.price
        => \A i \in 1..Len(levels) : joined[i] = levels[i]

LEMMA JoinLevelGrows ==
    ASSUME NEW side, NEW levels, SideOK(side, levels), NEW order, order.side = side,
           RestOK(order, levels), Find(side, levels, order.price) # {},
           NEW joined, joined = Join(levels, order)
    PROVE  Grown(levels, order, joined) /\ LastIsNew(levels, order, joined)
<1> DEFINE n == Len(levels)
           at == LowerBound(side, levels, order.price)
           kept == With(levels[at], order)
<1>1. /\ levels \in Seq(PriceLevel) /\ n \in Nat
      /\ \A i, j \in 1..n : levels[i].price = levels[j].price => i = j
      /\ \A i \in 1..n : levels[i] \in PriceLevel
  BY PricesDiffer
<1>2. DOMAIN levels = 1..n  BY <1>1, LenProperties
<1>3. at \in 1..n /\ levels[at].price = order.price  BY <1>2 DEF Find
<1>4. joined = [levels EXCEPT ![at] = kept]  BY DEF Join
<1>5. /\ order.quantity \in Remaining /\ order.order_id \in OrderIds
      /\ order.timestamp \in Nat
  BY DEF RestOK
<1> HIDE DEF at
<1> DEFINE level == levels[at]
<1>6. level \in PriceLevel  BY <1>1, <1>3
<1> HIDE DEF level
<1>7. Quantity(With(level, order).orders) = Quantity(level.orders) + order.quantity
  BY <1>5, <1>6, WithAdds
<1>8. kept.price = order.price  BY <1>3 DEF With
<1>9. Len(joined) = n /\ \A j \in 1..n : joined[j] = IF j = at THEN kept ELSE levels[j]
  <2> HIDE DEF kept
  <2> DEFINE X == PriceLevel \cup {kept}
  <2>1. levels \in Seq(X) /\ kept \in X /\ at \in 1..Len(levels)  BY <1>1, <1>3
  <2> HIDE DEF X
  <2> QED  BY <1>4, <2>1, ExceptSeq
<1>10. RestingAt(levels, order.price) = Quantity(level.orders)
  BY <1>3, RestingIs DEF level
<1>11. /\ joined[at].price = order.price
       /\ Quantity(joined[at].orders) = RestingAt(levels, order.price) + order.quantity
  BY <1>3, <1>7, <1>8, <1>9, <1>10 DEF level
<1>20. Behind(levels, order, joined[at])
  BY <1>3, <1>9 DEF Behind
<1> HIDE DEF kept, n
<1>12. \A j \in 1..n : levels[j].price # order.price => joined[j] = levels[j]
  BY <1>3, <1>9
<1>13. \A j \in 1..n : joined[j].price # order.price => joined[j] = levels[j]
  BY <1>8, <1>9
<1>14. Grown(levels, order, joined)  BY <1>3, <1>9, <1>11, <1>12, <1>13, <1>20 DEF Grown, n
<1> QED  BY <1>9, <1>14 DEF LastIsNew, n

LEMMA JoinNewGrows ==
    ASSUME NEW side \in Sides, NEW levels, SideOK(side, levels), NEW order, order.side = side,
           RestOK(order, levels), Find(side, levels, order.price) = {},
           NEW joined, joined = Join(levels, order), SideOK(side, joined)
    PROVE  /\ Grown(levels, order, joined) /\ LastIsNew(levels, order, joined)
           /\ Len(joined) = Len(levels) + 1
           /\ \A i \in 1..Len(levels) : levels[i].price # order.price
<1> DEFINE n == Len(levels)
           empty == [price |-> order.price, total_quantity |-> 0, orders |-> <<>>]
           kept == With(empty, order)
<1>1. /\ levels \in Seq(PriceLevel) /\ n \in Nat
      /\ \A i \in 1..n : levels[i] \in PriceLevel /\ levels[i].price \in Nat
  BY PricesDiffer
<1>2. DOMAIN levels = 1..n  BY <1>1, LenProperties
<1>3. /\ order.price \in Prices /\ order.price \in Nat /\ order.quantity \in Remaining
      /\ order.order_id \in OrderIds /\ order.timestamp \in Nat
  BY PricesAssumption DEF RestOK
<1>4. PICK c : Splits(side, levels, order.price, c)  BY <1>3, LowerBoundSplits
<1>5. /\ c \in 0..n /\ c \in Nat /\ LowerBound(side, levels, order.price) = c + 1
      /\ \A i \in 1..c : Better(side, levels[i].price, order.price)
  BY <1>1, <1>4 DEF Splits
<1>6. ASSUME NEW i \in 1..n PROVE levels[i].price # order.price
  <2>1. CASE i \in 1..c  BY <1>1, <1>3, <1>5, <2>1 DEF Better
  <2>2. CASE i \in (c + 1)..n
    <3>1. ~ (i = c + 1 /\ levels[i].price = order.price)  BY <1>2, <1>5 DEF Find
    <3>2. \/ levels[i].price = order.price /\ i = c + 1
          \/ Better(side, order.price, levels[i].price)
      BY <1>4, <2>2 DEF Splits
    <3> QED  BY <1>1, <1>3, <3>1, <3>2 DEF Better
  <2> QED  BY <1>1, <1>5, <2>1, <2>2
<1>7. joined = InsertAt(levels, c + 1, kept)  BY <1>5 DEF Join
<1>8. empty \in PriceLevel /\ empty.price = order.price /\ empty.orders = <<>>
  <2>1. 0 \in 0..(QuantityModulus - 1)  BY QuantitiesAssumption
  <2>2. <<>> \in Seq(OrderNode)  OBVIOUS
  <2> QED  BY <1>3, <2>1, <2>2 DEF PriceLevel
<1>9. kept.price = order.price /\ Quantity(kept.orders) = order.quantity
  <2> HIDE DEF empty
  <2>1. Quantity(With(empty, order).orders) = Quantity(empty.orders) + order.quantity
    BY <1>3, <1>8, WithAdds
  <2>2. order.quantity \in Nat  BY <1>3, QuantitiesAssumption DEF Remaining
  <2> QED  BY <1>8, <2>1, <2>2, QuantityEmpty DEF With
<1> HIDE DEF empty, kept, n
<1> DEFINE X == PriceLevel \cup {kept}
           at == c + 1
<1>10. /\ Len(joined) = n + 1 /\ joined[at] = kept
       /\ \A j \in 1..(at - 1) : joined[j] = levels[j]
       /\ \A j \in (at + 1)..(n + 1) : joined[j] = levels[j - 1]
  <2>1. at \in Nat /\ at > 0 /\ at <= Len(levels) + 1 /\ n = Len(levels)
    BY <1>1, <1>5 DEF n
  <2>2. joined = InsertAt(levels, at, kept) /\ kept \in X /\ levels \in Seq(X)
    BY <1>1, <1>7
  <2> HIDE DEF at, X
  <2>3. Inserted(levels, kept, at, joined)  BY <2>1, <2>2, InsertAtFacts
  <2> QED  BY <2>1, <2>3 DEF Inserted
<1>11. at \in 1..(n + 1)  BY <1>1, <1>5
<1> HIDE DEF at, X
<1>12. ASSUME NEW j \in 1..n PROVE \E k \in 1..(n + 1) : joined[k] = levels[j]
  <2>1. CASE j < at
    <3>1. j \in 1..(n + 1) /\ j \in 1..(at - 1)  BY <1>1, <1>11, <2>1
    <3> QED  BY <1>10, <3>1
  <2>2. CASE ~ (j < at)
    <3>1. j + 1 \in 1..(n + 1) /\ j + 1 \in (at + 1)..(n + 1) /\ (j + 1) - 1 = j
      BY <1>1, <1>11, <2>2
    <3>2. joined[j + 1] = levels[(j + 1) - 1]  BY <1>10, <3>1
    <3> QED  BY <3>1, <3>2
  <2> QED  BY <2>1, <2>2
<1>13. ASSUME NEW k \in 1..(n + 1), k # at PROVE \E j \in 1..n : joined[k] = levels[j]
  <2>1. CASE k < at
    <3>1. k \in 1..n /\ k \in 1..(at - 1)  BY <1>1, <1>11, <2>1
    <3> QED  BY <1>10, <3>1
  <2>2. CASE ~ (k < at)
    <3>1. k - 1 \in 1..n /\ k \in (at + 1)..(n + 1)  BY <1>1, <1>11, <1>13, <2>2
    <3>2. joined[k] = levels[k - 1]  BY <1>10, <3>1
    <3> QED  BY <3>1, <3>2
  <2> QED  BY <2>1, <2>2
<1>14. RestingAt(levels, order.price) = 0  BY <1>6, RestingIs DEF n
<1>15. Quantity(joined[at].orders) = RestingAt(levels, order.price) + order.quantity
  <2>1. order.quantity \in Nat  BY <1>3, QuantitiesAssumption DEF Remaining
  <2> QED  BY <1>9, <1>10, <1>14, <2>1
<1>16. joined[at].price = order.price  BY <1>9, <1>10
<1>20. Behind(levels, order, joined[at])
  BY <1>6, <1>10 DEF Behind, kept, empty, n
<1>17. Grown(levels, order, joined)
  BY <1>10, <1>11, <1>12, <1>13, <1>15, <1>16, <1>20 DEF Grown, n
<1>18. ASSUME joined[n + 1].price = order.price, NEW i \in 1..n PROVE joined[i] = levels[i]
  <2>1. \A j, k \in 1..(n + 1) : joined[j].price = joined[k].price => j = k
    BY <1>10, PricesDiffer
  <2>2. n + 1 \in 1..(n + 1)  BY <1>1
  <2>3. at = n + 1  BY <1>11, <1>16, <1>18, <2>1, <2>2
  <2>4. i \in 1..(at - 1)  BY <1>1, <2>3
  <2> QED  BY <1>10, <2>4
<1>19. LastIsNew(levels, order, joined)  BY <1>10, <1>18 DEF LastIsNew, n
<1> QED  BY <1>6, <1>10, <1>17, <1>19 DEF n

LEMMA JoinedAmounts ==
    ASSUME NEW side, NEW levels, SideOK(side, levels), NEW joined, SideOK(side, joined),
           NEW order, Grown(levels, order, joined), NEW p
    PROVE  RestingAt(joined, p) =
              RestingAt(levels, p) + (IF p = order.price THEN order.quantity ELSE 0)
<1>1. RestingAt(levels, p) \in Nat  BY RestingIs
<1>2. CASE p = order.price
  <2>1. PICK k \in 1..Len(joined) :
           /\ joined[k].price = order.price
           /\ Quantity(joined[k].orders) = RestingAt(levels, order.price) + order.quantity
    BY DEF Grown
  <2>2. RestingAt(joined, p) = Quantity(joined[k].orders)  BY <1>2, <2>1, RestingIs
  <2> QED  BY <1>2, <2>1, <2>2
<1>3. CASE p # order.price
  <2>1. CASE \E j \in 1..Len(levels) : levels[j].price = p
    <3>1. PICK j \in 1..Len(levels) : levels[j].price = p  BY <2>1
    <3>2. PICK k \in 1..Len(joined) : joined[k] = levels[j]  BY <1>3, <3>1 DEF Grown
    <3>3. RestingAt(levels, p) = Quantity(levels[j].orders)  BY <3>1, RestingIs
    <3>4. joined[k].price = p  BY <3>1, <3>2
    <3>5. RestingAt(joined, p) = Quantity(joined[k].orders)  BY <3>4, RestingIs
    <3> QED  BY <1>1, <1>3, <3>2, <3>3, <3>5
  <2>2. CASE \A j \in 1..Len(levels) : levels[j].price # p
    <3>1. \A k \in 1..Len(joined) : joined[k].price # p  BY <1>3, <2>2 DEF Grown
    <3>2. RestingAt(levels, p) = 0  BY <2>2, RestingIs
    <3>3. RestingAt(joined, p) = 0  BY <3>1, RestingIs
    <3> QED  BY <1>3, <3>2, <3>3
  <2> QED  BY <2>1, <2>2
<1> QED  BY <1>2, <1>3

LEMMA JoinedPrices ==
    ASSUME NEW side, NEW levels, SideOK(side, levels), NEW joined, SideOK(side, joined),
           NEW order, Grown(levels, order, joined)
    PROVE  PricesOf(joined) = PricesOf(levels) \cup {order.price}
<1>1. levels \in Seq(PriceLevel) /\ joined \in Seq(PriceLevel)  BY DEF SideOK
<1>2. ASSUME NEW p \in PricesOf(joined) PROVE p \in PricesOf(levels) \cup {order.price}
  <2>1. PICK k \in 1..Len(joined) : joined[k].price = p  BY <1>1, PriceOf
  <2>2. CASE p # order.price
    <3>1. PICK j \in 1..Len(levels) : joined[k] = levels[j]  BY <2>1, <2>2 DEF Grown
    <3>2. levels[j].price = p  BY <2>1, <3>1
    <3>3. p \in PricesOf(levels)  BY <1>1, <3>2, PriceOf
    <3> QED  BY <3>3
  <2> QED  BY <2>2
<1>3. ASSUME NEW p \in PricesOf(levels), p # order.price PROVE p \in PricesOf(joined)
  <2>1. PICK j \in 1..Len(levels) : levels[j].price = p  BY <1>1, PriceOf
  <2>2. PICK k \in 1..Len(joined) : joined[k] = levels[j]  BY <1>3, <2>1 DEF Grown
  <2>3. joined[k].price = p  BY <2>1, <2>2
  <2> QED  BY <1>1, <2>3, PriceOf
<1>4. order.price \in PricesOf(joined)
  <2>1. PICK k \in 1..Len(joined) : joined[k].price = order.price  BY DEF Grown
  <2> QED  BY <1>1, <2>1, PriceOf
<1> QED  BY <1>2, <1>3, <1>4

\* What rests is the top of the side that the order joined, also when the order itself is
\* the worst of a full side.
LEMMA RestIsTop ==
    ASSUME NEW side \in Sides, NEW levels, SideOK(side, levels), Len(levels) <= MaxDepthLevels,
           NEW order, order.side = side, RestOK(order, levels)
    PROVE  \E joined : /\ SideOK(side, joined) /\ Grown(levels, order, joined)
                       /\ Top(joined, Rest(levels, order))
<1> DEFINE joined == Join(levels, order)
           new == Rest(levels, order)
<1>1. /\ SideOK(side, joined) /\ Len(joined) \in Len(levels)..(Len(levels) + 1)
      /\ Grown(levels, order, joined) /\ LastIsNew(levels, order, joined)
  <2>1. CASE Find(side, levels, order.price) = {}
    <3>1. Joined(side, levels, order, joined)  BY <2>1, JoinNew
    <3>2. SideOK(side, joined) /\ Len(joined) \in Len(levels)..(Len(levels) + 1)
      BY <3>1 DEF Joined
    <3>3. Grown(levels, order, joined) /\ LastIsNew(levels, order, joined)
      BY <2>1, <3>2, JoinNewGrows
    <3> QED  BY <3>2, <3>3
  <2>2. CASE Find(side, levels, order.price) # {}
    <3>1. Joined(side, levels, order, joined)  BY <2>2, JoinLevel
    <3>2. SideOK(side, joined) /\ Len(joined) \in Len(levels)..(Len(levels) + 1)
      BY <3>1 DEF Joined
    <3>3. Grown(levels, order, joined) /\ LastIsNew(levels, order, joined)
      BY <2>2, JoinLevelGrows
    <3> QED  BY <3>2, <3>3
  <2> QED  BY <2>1, <2>2
<1>2. Len(levels) \in Nat /\ Len(joined) \in Nat /\ joined \in Seq(PriceLevel)
  BY <1>1, PricesDiffer
<1>3. MaxDepthLevels \in Nat /\ MaxDepthLevels > 0  BY LimitsAssumption
<1>4. new = IF Len(joined) <= MaxDepthLevels THEN joined
            ELSE IF Last(joined).price = order.price THEN levels ELSE Front(joined)
  BY DEF Rest
<1> HIDE DEF joined, new
<1>5. Top(joined, new)
  <2>1. CASE Len(joined) <= MaxDepthLevels
    <3>1. new = joined  BY <1>4, <2>1
    <3> QED  BY <1>2, <2>1, <3>1 DEF Top
  <2>2. CASE ~ (Len(joined) <= MaxDepthLevels)
    <3>1. Len(joined) = MaxDepthLevels + 1 /\ Len(levels) = MaxDepthLevels
      BY <1>1, <1>2, <1>3, <2>2
    <3>2. CASE Last(joined).price = order.price
      <4>1. joined[Len(joined)].price = order.price  BY <3>2 DEF Last
      <4>2. new = levels  BY <1>4, <2>2, <3>2
      <4>3. Len(joined) # Len(levels)  BY <1>3, <3>1
      <4>4. \A i \in 1..Len(levels) : joined[i] = levels[i]
        BY <1>1, <4>1, <4>3 DEF LastIsNew
      <4> QED  BY <1>3, <3>1, <4>2, <4>4 DEF Top
    <3>3. CASE Last(joined).price # order.price
      <4>1. new = Front(joined)  BY <1>4, <2>2, <3>3
      <4>2. Len(joined) > 0 /\ Len(joined) - 1 = MaxDepthLevels  BY <1>3, <3>1
      <4>3. /\ Len(new) = MaxDepthLevels
            /\ \A j \in 1..MaxDepthLevels : new[j] = joined[j]
        BY <1>2, <4>1, <4>2, FrontFacts
      <4> QED  BY <1>3, <3>1, <4>3 DEF Top
    <3> QED  BY <3>2, <3>3
  <2> QED  BY <2>1, <2>2
<1> QED  BY <1>1, <1>5 DEF new

\* What an accepted order does not trade is a quantity.
LEMMA AddLeaves ==
    ASSUME BookInv, NEW order \in Orders, AddValidOrder(order), reply'.error = "none"
    PROVE  order.quantity - Quantity(reply'.trades) \in Nat
<1> DEFINE side == order.side
           own == Levels(side)
           opposite == Levels(Opposite(side))
           m == MatchOrder(order, opposite)
<1>1. /\ side \in Sides /\ Opposite(side) \in Sides /\ order.quantity \in Remaining
      /\ order.price \in Prices /\ order.order_id \in OrderIds
  BY OrdersAssumption, QuantitiesAssumption DEF Sides, Opposite, Remaining
<1>2. /\ Faces(side, own, opposite)
      /\ Around(side, Marks(own), Marks(opposite), smr, clock)
  BY <1>1, BookFaces
<1>3. SideOK(Opposite(side), opposite)  BY <1>2 DEF Faces
<1>4. IF m.overflow
      THEN Reply("trade_batch_overflow", order, <<>>, ToSet(m.retired))
      ELSE Reply("none", order, m.trades, ToSet(m.retired))
  BY DEF AddValidOrder
<1>5. Apart(opposite)
  <2>1. Unique(Marks(opposite))  BY <1>1, <1>2, AroundFacts
  <2> QED  BY <1>1, <1>3, <2>1, UniqueApart
<1> HIDE DEF opposite
<1>6. m.left \in Nat
  <2>1. Matched(order, Opposite(side), opposite, m)  BY <1>1, <1>3, <1>5, MatchOrderMatched
  <2> QED  BY <2>1, QuantitiesAssumption DEF Matched, Remaining
<1>7. ~ m.overflow
  <2> HIDE DEF m
  <2>1. SUFFICES ASSUME m.overflow PROVE FALSE  OBVIOUS
  <2>2. reply'.error = "trade_batch_overflow"  BY <1>4, <2>1 DEF Reply
  <2> QED  BY <2>2
<1>8. order.quantity - Quantity(m.trades) = m.left
  BY <1>1, <1>3, <1>7, MatchOrderConserves
<1> HIDE DEF m
<1>9. reply'.trades = m.trades  BY <1>4, <1>7 DEF Reply
<1> QED  BY <1>6, <1>8, <1>9

\* The side of an accepted order holds, at the prices it keeps, what it held and what the
\* order did not trade.
LEMMA AddCuts ==
    ASSUME BookInv, NEW order \in Orders, AddValidOrder(order), reply'.error = "none",
           NEW own, own = Levels(order.side),
           NEW left, left = order.quantity - Quantity(reply'.trades),
           NEW prices, prices = PricesOf(own) \cup (IF left > 0 THEN {order.price} ELSE {}),
           NEW p
    PROVE  /\ reply'.order = order
           /\ RestingAt(IF order.side = "buy" THEN bids' ELSE asks', p) =
                 IF p \notin KeptOf(order.side, prices) THEN 0
                 ELSE RestingAt(own, p) + (IF p = order.price THEN left ELSE 0)
<1> DEFINE side == order.side
           opposite == Levels(Opposite(side))
           m == MatchOrder(order, opposite)
           rest == [side |-> order.side, price |-> order.price, quantity |-> m.left,
                    order_id |-> order.order_id, timestamp |-> clock]
           new == IF side = "buy" THEN bids' ELSE asks'
<1>1. /\ side \in Sides /\ Opposite(side) \in Sides /\ order.quantity \in Remaining
      /\ order.price \in Prices /\ order.order_id \in OrderIds
  BY OrdersAssumption, QuantitiesAssumption DEF Sides, Opposite, Remaining
<1>2. /\ Faces(side, own, opposite)
      /\ Around(side, Marks(own), Marks(opposite), smr, clock)
  BY <1>1, BookFaces
<1>3. /\ SideOK(side, own) /\ Len(own) <= MaxDepthLevels
      /\ SideOK(Opposite(side), opposite)
  BY <1>2 DEF Faces
<1>4. /\ SetSides(side, IF m.overflow \/ m.left = 0 THEN own ELSE Rest(own, rest), m.levels)
      /\ IF m.overflow
         THEN Reply("trade_batch_overflow", order, <<>>, ToSet(m.retired))
         ELSE Reply("none", order, m.trades, ToSet(m.retired))
  BY DEF AddValidOrder
<1>5. Apart(opposite)
  <2>1. Unique(Marks(opposite))  BY <1>1, <1>2, AroundFacts
  <2> QED  BY <1>1, <1>3, <2>1, UniqueApart
<1> HIDE DEF opposite
<1>6. m.left \in Remaining
  <2>1. Matched(order, Opposite(side), opposite, m)  BY <1>1, <1>3, <1>5, MatchOrderMatched
  <2> QED  BY <2>1 DEF Matched
<1>7. ~ m.overflow
  <2> HIDE DEF m
  <2>1. SUFFICES ASSUME m.overflow PROVE FALSE  OBVIOUS
  <2>2. reply'.error = "trade_batch_overflow"  BY <1>4, <2>1 DEF Reply
  <2> QED  BY <2>2
<1>8. order.quantity - Quantity(m.trades) = m.left
  BY <1>1, <1>3, <1>7, MatchOrderConserves
<1>9. /\ rest.side = side /\ rest.price = order.price /\ rest.quantity = m.left
      /\ rest.order_id = order.order_id /\ rest.timestamp = clock
  OBVIOUS
<1> HIDE DEF m, rest
<1>10. reply'.order = order /\ reply'.trades = m.trades  BY <1>4, <1>7 DEF Reply
<1>11. left = m.left /\ left \in Nat
  BY <1>6, <1>8, <1>10, QuantitiesAssumption DEF Remaining
<1>12. new = IF left = 0 THEN own ELSE Rest(own, rest)
  BY <1>1, <1>4, <1>7, <1>11 DEF SetSides, Sides
<1> HIDE DEF new
<1>13. RestingAt(own, p) \in Nat  BY <1>3, RestingIs
<1>14. CASE left = 0
  <2>1. new = own /\ prices = PricesOf(own)  BY <1>12, <1>14
  <2>2. Top(own, own)
    <3>1. Len(own) \in Nat  BY <1>3, PricesDiffer
    <3> QED  BY <1>3, <3>1 DEF Top
  <2>3. RestingAt(own, p) =
           IF p \notin KeptOf(side, PricesOf(own)) THEN 0 ELSE RestingAt(own, p)
    BY <1>3, <2>2, TopRests
  <2>4. RestingAt(own, p) + (IF p = order.price THEN left ELSE 0) = RestingAt(own, p)
    BY <1>13, <1>14
  <2> QED  BY <1>10, <2>1, <2>3, <2>4 DEF new
<1>15. CASE left # 0
  <2>1. new = Rest(own, rest) /\ left > 0  BY <1>11, <1>12, <1>15
  <2>2. RestOK(rest, own)
    <3>1. clock \in Nat  BY LimitsAssumption DEF BookInv
    <3>2. \A x \in Marks(own) : x[2] \in 0..(clock - 1)  BY <1>1, <1>2, AroundFacts
    <3>3. \A x \in Marks(own) : x[2] < clock  BY <3>1, <3>2
    <3> QED  BY <1>1, <1>6, <1>9, <3>1, <3>3 DEF RestOK
  <2>3. PICK joined : /\ SideOK(side, joined) /\ Grown(own, rest, joined)
                      /\ Top(joined, new)
    BY <1>1, <1>3, <1>9, <2>1, <2>2, RestIsTop
  <2>4. SideOK(side, new)  BY <1>1, <1>3, <1>9, <2>1, <2>2, RestJoins
  <2>5. prices = PricesOf(joined)
    <3>1. PricesOf(joined) = PricesOf(own) \cup {rest.price}  BY <1>3, <2>3, JoinedPrices
    <3> QED  BY <1>9, <2>1, <3>1
  <2>6. RestingAt(joined, p) = RestingAt(own, p) + (IF p = order.price THEN left ELSE 0)
    BY <1>3, <1>9, <1>11, <2>3, JoinedAmounts
  <2>7. RestingAt(new, p) =
           IF p \notin KeptOf(side, PricesOf(joined)) THEN 0 ELSE RestingAt(joined, p)
    BY <2>3, <2>4, TopRests
  <2> QED  BY <1>10, <2>5, <2>6, <2>7 DEF new
<1> QED  BY <1>14, <1>15
-----------------------------------------------------------------------------
(* What the makers of a price lose is what the trades at that price took *)

TookAt(report, p) == IF report.price = p THEN report.quantity ELSE 0
Taken == [quantity : Nat]
TakenAt(trades, p) == [k \in DOMAIN trades |-> [quantity |-> TookAt(trades[k], p)]]

LEMMA TakenSequence ==
    ASSUME NEW trades \in Seq(TradeReport), NEW p
    PROVE  /\ TakenAt(trades, p) \in Seq(Taken) /\ Countable(TakenAt(trades, p))
           /\ Len(TakenAt(trades, p)) = Len(trades)
           /\ \A k \in 1..Len(trades) : TakenAt(trades, p)[k] = [quantity |-> TookAt(trades[k], p)]
           /\ TradedAt(trades, p) = Quantity(TakenAt(trades, p))
<1> DEFINE n == Len(trades)
           s == TakenAt(trades, p)
<1>1. n \in Nat /\ DOMAIN trades = 1..n /\ \A k \in 1..n : trades[k] \in TradeReport
  BY LenProperties
<1>2. \A k \in 1..n : TookAt(trades[k], p) \in Nat  BY <1>1 DEF TookAt, TradeReport
<1>3. s = [k \in 1..n |-> [quantity |-> TookAt(trades[k], p)]]  BY <1>1 DEF TakenAt
<1>4. TradedAt(trades, p) = Quantity(s)  BY DEF TradedAt, TakenAt, TookAt
<1> HIDE DEF s, n
<1>5. \A k \in 1..n : s[k] = [quantity |-> TookAt(trades[k], p)] /\ s[k] \in Taken
  BY <1>2, <1>3 DEF Taken
<1>6. s \in Seq(Taken) /\ Len(s) = n
  <2>1. s \in [1..n -> Taken]  BY <1>3, <1>5
  <2> QED  BY <1>1, <2>1
<1>7. Countable(s)  BY <1>2, <1>5, <1>6 DEF Countable
<1> QED  BY <1>4, <1>5, <1>6, <1>7 DEF s, n

LEMMA TradedType ==
    ASSUME NEW trades \in Seq(TradeReport), NEW p
    PROVE  TradedAt(trades, p) \in Nat
BY TakenSequence, QuantityType

LEMMA TradedEmpty == ASSUME NEW p PROVE TradedAt(<<>>, p) = 0
<1>1. <<>> \in Seq(TradeReport) /\ Len(<<>>) = 0  OBVIOUS
<1>2. /\ TakenAt(<<>>, p) \in Seq(Taken) /\ Len(TakenAt(<<>>, p)) = 0
      /\ TradedAt(<<>>, p) = Quantity(TakenAt(<<>>, p))
  BY <1>1, TakenSequence
<1>3. TakenAt(<<>>, p) = <<>>  BY <1>2, EmptySeq
<1> QED  BY <1>2, <1>3, QuantityEmpty

LEMMA TradedAppend ==
    ASSUME NEW trades \in Seq(TradeReport), NEW report \in TradeReport, NEW p
    PROVE  TradedAt(Append(trades, report), p) = TradedAt(trades, p) + TookAt(report, p)
<1> DEFINE n == Len(trades)
           longer == Append(trades, report)
           s == TakenAt(trades, p)
           t == TakenAt(longer, p)
           x == [quantity |-> TookAt(report, p)]
<1>1. /\ n \in Nat /\ longer \in Seq(TradeReport) /\ Len(longer) = n + 1
      /\ longer[n + 1] = report /\ \A k \in 1..n : longer[k] = trades[k]
  OBVIOUS
<1> HIDE DEF longer
<1>2. /\ s \in Seq(Taken) /\ Countable(s) /\ Len(s) = n
      /\ \A k \in 1..n : s[k] = [quantity |-> TookAt(trades[k], p)]
      /\ TradedAt(trades, p) = Quantity(s)
  BY TakenSequence
<1>3. /\ t \in Seq(Taken) /\ Len(t) = n + 1
      /\ \A k \in 1..(n + 1) : t[k] = [quantity |-> TookAt(longer[k], p)]
      /\ TradedAt(longer, p) = Quantity(t)
  BY <1>1, TakenSequence
<1>4. x \in Taken /\ x.quantity \in Nat /\ x.quantity = TookAt(report, p)
  BY DEF Taken, TookAt, TradeReport
<1> HIDE DEF s, t, n
<1>5. t = Append(s, x)
  <2> DEFINE u == Append(s, x)
  <2>1. /\ u \in Seq(Taken) /\ Len(u) = n + 1 /\ u[n + 1] = x
        /\ \A k \in 1..n : u[k] = s[k]
    BY <1>2, <1>4
  <2> HIDE DEF u
  <2>2. \A k \in 1..(n + 1) : t[k] = u[k]
    <3>1. t[n + 1] = x  BY <1>1, <1>3
    <3>2. \A k \in 1..n : t[k] = s[k]  BY <1>1, <1>2, <1>3
    <3>3. \A k \in 1..(n + 1) : k \in 1..n \/ k = n + 1  BY <1>1
    <3> QED  BY <2>1, <3>1, <3>2, <3>3
  <2>3. t = u  BY <1>3, <2>1, <2>2, SeqEqual
  <2> QED  BY <2>3 DEF u
<1>6. Quantity(Append(s, x)) = Quantity(s) + x.quantity
  BY <1>2, <1>4, QuantityAppend
<1> QED  BY <1>2, <1>3, <1>4, <1>5, <1>6 DEF longer

LEMMA RestingAppend ==
    ASSUME NEW s \in Seq(PriceLevel), NEW level \in PriceLevel, NEW p
    PROVE  /\ RestingAt(s, p) \in Nat
           /\ RestingAt(Append(s, level), p) = RestingAt(s, p) + Amount(level, p)
<1> DEFINE t == Append(s, level)
           n == Len(s)
<1>1. /\ t \in Seq(PriceLevel) /\ Len(t) = n + 1 /\ n \in Nat
      /\ t[n + 1] = level /\ \A i \in 1..n : t[i] = s[i]
  OBVIOUS
<1> HIDE DEF t
<1>2. PICK F : AmountsTo(F, s, p) /\ RestingAt(s, p) = F[n]  BY RestingRuns
<1>3. PICK G : AmountsTo(G, t, p) /\ RestingAt(t, p) = G[Len(t)]  BY <1>1, RestingRuns
<1>4. /\ \A k \in 0..n : F[k] \in Nat
      /\ F[0] = 0 /\ \A k \in 1..n : F[k] = F[k - 1] + Amount(s[k], p)
  BY <1>2 DEF AmountsTo
<1>5. G[0] = 0 /\ \A k \in 1..(n + 1) : G[k] = G[k - 1] + Amount(t[k], p)
  BY <1>1, <1>3 DEF AmountsTo
<1> HIDE DEF n
<1> DEFINE T == {k \in 0..n : F[k] = G[k]}
<1>6. 0 \in T  BY <1>1, <1>4, <1>5
<1>7. ASSUME NEW k \in T \cap (0..(n - 1)) PROVE k + 1 \in T
  <2> DEFINE j == k + 1
  <2>1. j \in 1..n /\ j \in 1..(n + 1) /\ j - 1 = k /\ j \in 0..n  BY <1>1
  <2>2. F[k] = G[k]  OBVIOUS
  <2> HIDE DEF j, T
  <2>3. F[j] = F[k] + Amount(s[j], p) /\ G[j] = G[k] + Amount(t[j], p) /\ t[j] = s[j]
    BY <1>1, <1>4, <1>5, <2>1
  <2> QED  BY <2>1, <2>2, <2>3 DEF T, j
<1>8. 0..n \subseteq T
  <2> HIDE DEF T
  <2> QED  BY <1>1, <1>6, <1>7, UpTo
<1>9. F[n] = G[n] /\ F[n] \in Nat
  <2>1. n \in 0..n  BY <1>1
  <2> QED  BY <1>4, <1>8, <2>1
<1>10. G[n + 1] = G[n] + Amount(t[n + 1], p)
  <2>1. n + 1 \in 1..(n + 1) /\ (n + 1) - 1 = n  BY <1>1
  <2> QED  BY <1>5, <2>1
<1> QED  BY <1>1, <1>2, <1>3, <1>9, <1>10 DEF t

\* Behind k makers of a level of that price: what they have and what they gave is what they
\* had.
Paid(level, trades, p, F, k, a) ==
    a.overflow \/
    TradedAt(a.trades, p) + (IF level.price = p THEN Quantity(a.orders) ELSE 0) =
       TradedAt(trades, p) + (IF level.price = p THEN F[k] ELSE 0)

LEMMA PaidNext ==
    ASSUME NEW level \in PriceLevel, NEW trades \in Seq(TradeReport), NEW p, NEW taker,
           NEW F, Running(F, level.orders), NEW k \in 1..Len(level.orders),
           NEW a \in Within, Paid(level, trades, p, F, k - 1, a),
           NEW q, NEW r, Gives(taker, level.price, a, level.orders[k], q, r),
           Takes(level.price, a, level.orders[k], r)
    PROVE  Paid(level, trades, p, F, k, r)
<1> DEFINE maker == level.orders[k]
           report == [maker |-> maker.order_id, quantity |-> q, price |-> level.price]
<1>1. CASE r.overflow  BY <1>1 DEF Paid
<1>2. CASE ~ r.overflow
  <2>0. QuantityModulus \in Nat  BY QuantitiesAssumption
  <2>1. /\ level.orders \in Seq(OrderNode) /\ maker \in OrderNode /\ level.price \in Prices
        /\ a.orders \in Seq(OrderNode) /\ a.trades \in Seq(TradeReport) /\ a.left \in Nat
    <3>1. level.orders \in Seq(OrderNode) /\ level.price \in Prices  BY DEF PriceLevel
    <3>2. maker \in OrderNode  BY <3>1, LenProperties
    <3>3. a.orders \in Seq(OrderNode) /\ a.trades \in Seq(TradeReport) /\ a.left \in Nat
      BY <2>0 DEF Within, MakersState, Remaining
    <3> QED  BY <3>1, <3>2, <3>3
  <2>2. maker.quantity \in Nat /\ maker.order_id \in OrderIds  BY <2>0, <2>1 DEF OrderNode
  <2> HIDE DEF maker
  <2>3. /\ ~ a.overflow /\ r.left = a.left - Gift(a.left, maker)
        /\ r.trades = TradesNext(a.left, a.trades, level.price, maker)
    BY <1>2 DEF Takes, maker
  <2>4. q \in Nat /\ r.left = a.left - q  BY <2>2 DEF Gives, maker
  <2>5. Gift(a.left, maker) = q
    <3>1. Gift(a.left, maker) \in Nat  BY <2>1, <2>2 DEF Gift
    <3> QED  BY <2>1, <2>3, <2>4, <3>1
  <2>6. PICK node \in OrderNode :
           node.quantity = maker.quantity - q /\ r.orders = Append(a.orders, node)
    BY DEF Gives, maker
  <2>7. Quantity(r.orders) = Quantity(a.orders) + (maker.quantity - q)
    <3>1. node.quantity \in Nat  BY QuantitiesAssumption DEF OrderNode
    <3>2. Countable(a.orders)  BY <2>1, NodesCountable
    <3> DEFINE s == a.orders
    <3>3. s \in Seq(OrderNode) /\ Countable(s)  BY <2>1, <3>2
    <3> HIDE DEF s
    <3>4. Quantity(Append(s, node)) = Quantity(s) + node.quantity
      BY <3>1, <3>3, QuantityAppend
    <3> QED  BY <2>6, <3>4 DEF s
  <2>8. TradedAt(r.trades, p) = TradedAt(a.trades, p) + (IF level.price = p THEN q ELSE 0)
    <3> DEFINE given == a.trades
    <3>1. given \in Seq(TradeReport)  BY <2>1
    <3>2. r.trades = IF q = 0 THEN given ELSE Append(given, report)
      BY <2>3, <2>5 DEF TradesNext
    <3>3. report \in TradeReport /\ TookAt(report, p) = IF level.price = p THEN q ELSE 0
      BY <2>1, <2>2, <2>4 DEF TradeReport, TookAt
    <3> HIDE DEF given, report
    <3>4. TradedAt(given, p) \in Nat  BY <3>1, TradedType
    <3>5. CASE q = 0
      <4>1. r.trades = given  BY <3>2, <3>5
      <4> QED  BY <3>4, <3>5, <4>1 DEF given
    <3>6. CASE q # 0
      <4>1. r.trades = Append(given, report)  BY <3>2, <3>6
      <4> QED  BY <3>1, <3>3, <4>1, TradedAppend DEF given
    <3> QED  BY <3>5, <3>6
  <2>9. F[k] = F[k - 1] + maker.quantity /\ F[k - 1] \in Nat
    <3>1. Len(level.orders) \in Nat  BY <2>1, LenProperties
    <3>2. k - 1 \in 0..Len(level.orders)  BY <3>1
    <3> QED  BY <3>2 DEF Running, maker
  <2>10. /\ TradedAt(a.trades, p) \in Nat /\ TradedAt(trades, p) \in Nat
         /\ Quantity(a.orders) \in Nat
    <3>1. Countable(a.orders)  BY <2>1, NodesCountable
    <3> QED  BY <2>1, <3>1, TradedType, QuantityType
  <2>11. TradedAt(a.trades, p) + (IF level.price = p THEN Quantity(a.orders) ELSE 0) =
            TradedAt(trades, p) + (IF level.price = p THEN F[k - 1] ELSE 0)
    BY <2>3 DEF Paid
  <2>12. TradedAt(r.trades, p) + (IF level.price = p THEN Quantity(r.orders) ELSE 0) =
            TradedAt(trades, p) + (IF level.price = p THEN F[k] ELSE 0)
    <3> DEFINE x == Quantity(a.orders)
               y == TradedAt(a.trades, p)
               z == TradedAt(trades, p)
               f == F[k - 1]
               c == maker.quantity
    <3>1. /\ x \in Nat /\ y \in Nat /\ z \in Nat /\ f \in Nat /\ c \in Nat /\ F[k] = f + c
          /\ Quantity(r.orders) = x + (c - q)
      BY <2>2, <2>7, <2>9, <2>10
    <3>2. CASE level.price = p
      <4>1. y + x = z + f  BY <2>11, <3>2
      <4>2. TradedAt(r.trades, p) = y + q  BY <2>8, <3>2
      <4> HIDE DEF x, y, z, f, c
      <4>3. (y + q) + (x + (c - q)) = z + (f + c)  BY <2>4, <3>1, <4>1
      <4> QED  BY <3>1, <3>2, <4>2, <4>3 DEF z
    <3>3. CASE level.price # p
      <4>1. y + 0 = z + 0 /\ TradedAt(r.trades, p) = y + 0  BY <2>8, <2>11, <3>3
      <4> HIDE DEF x, y, z, f, c
      <4>2. TradedAt(r.trades, p) + 0 = z + 0  BY <3>1, <4>1
      <4> QED  BY <3>3, <4>2 DEF z
    <3> QED  BY <3>2, <3>3
  <2> QED  BY <2>12 DEF Paid
<1> QED  BY <1>1, <1>2

LEMMA MakersPaid ==
    ASSUME NEW level \in PriceLevel, NEW m, NEW taker, Start(m, level) \in Within,
           NEW done, done = MatchMakers(taker, m, level), ~ done.overflow, NEW p
    PROVE  /\ done \in Within
           /\ TradedAt(done.trades, p)
                 + (IF level.price = p THEN Quantity(done.orders) ELSE 0) =
              TradedAt(m.trades, p) + Amount(level, p)
<1> DEFINE s == level.orders
           n == Len(s)
<1>1. PICK run \in [0..n -> Within] :
         /\ run[0] = Start(m, level)
         /\ run[n] = done
         /\ \A k \in 1..n : run[k] = MatchMaker(taker, level.price, run[k - 1], s[k])
  BY MatchMakersRuns
<1>2. s \in Seq(OrderNode) /\ level.price \in Prices  BY DEF PriceLevel
<1>3. n \in Nat /\ \A j \in 1..n : s[j] \in OrderNode  BY <1>2, LenProperties
<1>4. PICK F : Running(F, s) /\ Quantity(s) = F[n]
  <2>1. Countable(s)  BY <1>2, NodesCountable
  <2> QED  BY <1>2, <2>1, QuantityRuns
<1>5. m.trades \in Seq(TradeReport)  BY DEF Start, Within, MakersState
<1> DEFINE trades == m.trades
           T == {k \in 0..n : Paid(level, trades, p, F, k, run[k])}
<1>6. 0 \in T
  <2>1. run[0].trades = trades /\ run[0].orders = <<>>  BY <1>1 DEF Start
  <2>2. F[0] = 0  BY <1>4 DEF Running
  <2> HIDE DEF trades
  <2>3. Paid(level, trades, p, F, 0, run[0])  BY <2>1, <2>2, QuantityEmpty DEF Paid
  <2> QED  BY <1>3, <2>3
<1>7. trades \in Seq(TradeReport)  BY <1>5
<1> HIDE DEF trades, n
<1>8. ASSUME NEW k \in T \cap (0..(n - 1)) PROVE k + 1 \in T
  <2> DEFINE j == k + 1
             a == run[k]
             r == run[j]
  <2>1. j \in 1..n /\ j - 1 = k /\ k \in 0..n /\ j \in 0..n  BY <1>3
  <2>2. Paid(level, trades, p, F, k, a)  OBVIOUS
  <2> HIDE DEF j, T
  <2>3. a \in Within /\ a \in MakersState /\ Len(a.trades) <= MaxTradesPerOrder
        /\ s[j] \in OrderNode /\ r = MatchMaker(taker, level.price, a, s[j])
    BY <1>1, <1>3, <2>1 DEF Within
  <2> HIDE DEF a, r
  <2>4. Takes(level.price, a, s[j], r)  BY <1>2, <2>3, MatchMakerTakes
  <2>5. PICK q : Gives(taker, level.price, a, s[j], q, r)
    BY <1>2, <2>3, MatchMakerGives
  <2>6. Paid(level, trades, p, F, j - 1, a) /\ j \in 1..Len(level.orders)
    BY <2>1, <2>2 DEF n
  <2>7. Paid(level, trades, p, F, j, r)
    BY <1>4, <1>7, <2>3, <2>4, <2>5, <2>6, PaidNext
  <2>8. j \in T  BY <2>1, <2>7 DEF T, r
  <2> QED  BY <2>8 DEF j
<1>9. 0..n \subseteq T
  <2> HIDE DEF T
  <2> QED  BY <1>3, <1>6, <1>8, UpTo
<1>10. n \in 0..n  BY <1>3
<1>11. Paid(level, trades, p, F, n, done) /\ done \in Within
  BY <1>1, <1>9, <1>10
<1> QED  BY <1>4, <1>11 DEF Paid, Amount, trades

\* What a sweep that has dealt with some levels leaves of them, and what it traded.
Balanced(p, sum, m) ==
    m.overflow \/ TradedAt(m.trades, p) + RestingAt(m.levels, p) = sum

LEMMA LevelBalances ==
    ASSUME NEW taker, NEW level \in PriceLevel, Good(level), NEW m \in Sweeping,
           NEW p, NEW sum \in Nat, Balanced(p, sum, m)
    PROVE  Balanced(p, sum + Amount(level, p), MatchLevel(taker, m, level))
<1> DEFINE r == MatchLevel(taker, m, level)
           done == MatchMakers(taker, m, level)
           before == m.levels
<1>1. /\ m \in LevelsState /\ before \in Seq(PriceLevel) /\ m.trades \in Seq(TradeReport)
  BY DEF Sweeping, LevelsState
<1>2. Amount(level, p) \in Nat /\ RestingAt(before, p) \in Nat /\ TradedAt(m.trades, p) \in Nat
  BY <1>1, AmountType, RestingAppend, TradedType
<1>3. CASE Untouched(taker, m, level)
  <2>1. r = [m EXCEPT !.levels = Append(@, level)]  BY <1>3 DEF MatchLevel
  <2>2. r.trades = m.trades /\ r.overflow = m.overflow /\ r.levels = Append(before, level)
    BY <1>1, <2>1 DEF LevelsState
  <2> HIDE DEF r, before
  <2>3. RestingAt(Append(before, level), p) = RestingAt(before, p) + Amount(level, p)
    BY <1>1, RestingAppend
  <2> QED  BY <1>2, <2>2, <2>3 DEF Balanced, before, r
<1>4. CASE ~ Untouched(taker, m, level)
  <2> DEFINE orders == IF done.overflow THEN done.orders ELSE Makers(FALSE, done.orders)
             kept == [price |-> level.price, total_quantity |-> done.total, orders |-> orders]
             cleaned == CleanUp(m, level, done, orders)
  <2>1. ~ m.overflow  BY <1>4 DEF Untouched
  <2>2. Start(m, level) \in Within
    <3>1. <<>> \in Seq(OrderNode) /\ level.total_quantity \in Remaining
      BY DEF PriceLevel, Remaining
    <3>2. m.left \in Remaining /\ Len(m.trades) <= MaxTradesPerOrder
      BY DEF Sweeping, LevelsState
    <3> QED  BY <1>1, <3>1, <3>2 DEF Start, Within, MakersState
  <2>3. r.trades = done.trades /\ r.overflow = done.overflow  BY <1>4, MatchLevelResult
  <2>4. r = IF orders = <<>> THEN [cleaned EXCEPT !.levels = before] ELSE cleaned
    BY <1>4 DEF MatchLevel
  <2>5. cleaned.levels = Append(before, kept)  BY DEF CleanUp
  <2>6. r.levels = IF orders = <<>> THEN before ELSE Append(before, kept)
    <3>1. cleaned = [left |-> cleaned.left, trades |-> cleaned.trades,
                     overflow |-> cleaned.overflow, levels |-> cleaned.levels,
                     retired |-> cleaned.retired]
      BY DEF CleanUp
    <3> HIDE DEF cleaned, orders, kept, before, r
    <3> QED  BY <2>4, <2>5, <3>1
  <2>7. CASE done.overflow  BY <2>3, <2>7 DEF Balanced
  <2>8. CASE ~ done.overflow
    <3>1. /\ done \in Within
          /\ TradedAt(done.trades, p)
                + (IF level.price = p THEN Quantity(done.orders) ELSE 0) =
             TradedAt(m.trades, p) + Amount(level, p)
      BY <2>2, <2>8, MakersPaid
    <3> HIDE DEF done, r
    <3>2. /\ done.orders \in Seq(OrderNode) /\ done.trades \in Seq(TradeReport)
          /\ done.total \in Remaining
      BY <3>1 DEF Within, MakersState
    <3>3. /\ orders \in Seq(OrderNode) /\ Quantity(orders) = Quantity(done.orders)
      <4> DEFINE s == done.orders
      <4>1. s \in Seq(OrderNode)  BY <3>2
      <4>2. orders = Makers(FALSE, s)  BY <2>8
      <4> HIDE DEF s, orders
      <4>3. Countable(s) /\ Stamped(s)  BY <4>1, NodesCountable
      <4>4. Makers(FALSE, s) \in Seq(OrderNode)  BY <4>1, <4>3, MakersPicked
      <4>5. Quantity(Makers(FALSE, s)) = Quantity(s)  BY <4>1, <4>3, SurvivorsQuantity
      <4> QED  BY <4>2, <4>4, <4>5 DEF s
    <3> HIDE DEF orders
    <3>4. kept \in PriceLevel /\ Amount(kept, p) = IF level.price = p THEN Quantity(orders) ELSE 0
      BY <3>2, <3>3 DEF PriceLevel, Remaining, Amount
    <3>5. Amount(kept, p) \in Nat  BY <3>4, AmountType
    <3>6. RestingAt(r.levels, p) = RestingAt(before, p) + Amount(kept, p)
      <4>1. CASE orders = <<>>
        <5>1. Amount(kept, p) = 0  BY <3>4, <4>1, QuantityEmpty
        <5> HIDE DEF kept, before
        <5> QED  BY <1>2, <2>6, <4>1, <5>1
      <4>2. CASE orders # <<>>
        <5> HIDE DEF kept, before
        <5>1. RestingAt(Append(before, kept), p) = RestingAt(before, p) + Amount(kept, p)
          BY <1>1, <3>4, RestingAppend
        <5> QED  BY <2>6, <4>2, <5>1
      <4> QED  BY <4>1, <4>2
    <3>7. TradedAt(done.trades, p) + Amount(kept, p) = TradedAt(m.trades, p) + Amount(level, p)
      BY <3>1, <3>3, <3>4
    <3>8. TradedAt(done.trades, p) \in Nat  BY <3>2, TradedType
    <3>9. TradedAt(m.trades, p) + RestingAt(before, p) = sum  BY <2>1 DEF Balanced
    <3> HIDE DEF kept, before
    <3>10. TradedAt(r.trades, p) + RestingAt(r.levels, p) = sum + Amount(level, p)
      BY <1>2, <2>3, <3>5, <3>6, <3>7, <3>8, <3>9
    <3> QED  BY <3>10 DEF Balanced, r
  <2> QED  BY <2>7, <2>8
<1> QED  BY <1>3, <1>4

LEMMA SweepBalances ==
    ASSUME NEW order, order.quantity \in Remaining, NEW side, NEW levels,
           SideOK(side, levels), ~ MatchOrder(order, levels).overflow, NEW p
    PROVE  RestingAt(MatchOrder(order, levels).levels, p) =
              RestingAt(levels, p) - TradedAt(MatchOrder(order, levels).trades, p)
<1> DEFINE n == Len(levels)
           m == MatchOrder(order, levels)
<1>1. levels \in Seq(PriceLevel) /\ \A i \in 1..n : Good(levels[i])  BY DEF SideOK
<1>2. n \in Nat /\ \A i \in 1..n : levels[i] \in PriceLevel  BY <1>1, LenProperties
<1>3. SweepStart(order) \in Sweeping
  BY LimitsAssumption DEF SweepStart, Sweeping, LevelsState
<1>4. PICK run \in [0..n -> Sweeping] :
         /\ run[0] = SweepStart(order)
         /\ run[n] = m
         /\ \A k \in 1..n : run[k] = MatchLevel(order, run[k - 1], levels[k])
  BY <1>3, MatchOrderRuns
<1>5. PICK F : AmountsTo(F, levels, p) /\ RestingAt(levels, p) = F[n]  BY <1>1, RestingRuns
<1> DEFINE T == {k \in 0..n : Balanced(p, F[k], run[k])}
<1>6. 0 \in T
  <2>1. run[0].trades = <<>> /\ run[0].levels = <<>>  BY <1>4 DEF SweepStart
  <2>2. F[0] = 0  BY <1>5 DEF AmountsTo
  <2>3. RestingAt(<<>>, p) = 0
    <3>1. <<>> \in Seq(PriceLevel) /\ Len(<<>>) = 0  OBVIOUS
    <3>2. PICK G : AmountsTo(G, <<>>, p) /\ RestingAt(<<>>, p) = G[0]  BY <3>1, RestingRuns
    <3> QED  BY <3>2 DEF AmountsTo
  <2>4. Balanced(p, F[0], run[0])  BY <2>1, <2>2, <2>3, TradedEmpty DEF Balanced
  <2> QED  BY <1>2, <2>4
<1> HIDE DEF m
<1>7. ASSUME NEW k \in T \cap (0..(n - 1)) PROVE k + 1 \in T
  <2> DEFINE j == k + 1
             a == run[k]
             level == levels[j]
             sum == F[k]
  <2>1. j \in 1..n /\ j - 1 = k /\ k \in 0..n /\ j \in 0..n  BY <1>2
  <2>2. Balanced(p, sum, a)  OBVIOUS
  <2> HIDE DEF j, T
  <2>3. sum \in Nat /\ F[j] = sum + Amount(level, p)  BY <1>5, <2>1 DEF AmountsTo
  <2>4. a \in Sweeping /\ level \in PriceLevel /\ Good(level)
        /\ run[j] = MatchLevel(order, a, level)
    BY <1>1, <1>2, <1>4, <2>1
  <2> HIDE DEF a, level, sum
  <2>5. Balanced(p, sum + Amount(level, p), MatchLevel(order, a, level))
    BY <2>2, <2>3, <2>4, LevelBalances
  <2>6. j \in T  BY <2>1, <2>3, <2>4, <2>5 DEF T
  <2> QED  BY <2>6 DEF j
<1>8. 0..n \subseteq T
  <2> HIDE DEF T, n
  <2> QED  BY <1>2, <1>6, <1>7, UpTo
<1>9. n \in 0..n  BY <1>2
<1>10. m \in Sweeping /\ Balanced(p, RestingAt(levels, p), m)  BY <1>4, <1>5, <1>8, <1>9
<1>11. ~ m.overflow  BY DEF m
<1>12. TradedAt(m.trades, p) + RestingAt(m.levels, p) = RestingAt(levels, p)
  BY <1>10, <1>11 DEF Balanced
<1>13. m.trades \in Seq(TradeReport) /\ m.levels \in Seq(PriceLevel)
  BY <1>10 DEF Sweeping, LevelsState
<1> DEFINE trades == m.trades
           left == m.levels
<1>14. trades \in Seq(TradeReport) /\ left \in Seq(PriceLevel)  BY <1>13
<1> HIDE DEF trades, left
<1>15. TradedAt(trades, p) \in Nat  BY <1>14, TradedType
<1>16. RestingAt(left, p) \in Nat
  <2>1. PICK G : AmountsTo(G, left, p) /\ RestingAt(left, p) = G[Len(left)]
    BY <1>14, RestingRuns
  <2>2. Len(left) \in 0..Len(left)  BY <1>14, LenProperties
  <2> QED  BY <2>1, <2>2 DEF AmountsTo
<1>17. RestingAt(left, p) = RestingAt(levels, p) - TradedAt(trades, p)
  BY <1>12, <1>15, <1>16 DEF trades, left
<1> QED  BY <1>17 DEF trades, left, m

\* The other side of an accepted order holds what it held without what was traded.
LEMMA AddTakes ==
    ASSUME BookInv, NEW order \in Orders, AddValidOrder(order), reply'.error = "none", NEW p
    PROVE  RestingAt(IF order.side = "buy" THEN asks' ELSE bids', p) =
              RestingAt(Levels(Opposite(order.side)), p) - TradedAt(reply'.trades, p)
<1> DEFINE side == order.side
           own == Levels(side)
           opposite == Levels(Opposite(side))
           m == MatchOrder(order, opposite)
           rest == [side |-> order.side, price |-> order.price, quantity |-> m.left,
                    order_id |-> order.order_id, timestamp |-> clock]
           new == IF side = "buy" THEN asks' ELSE bids'
<1>1. side \in Sides /\ order.quantity \in Remaining
  BY OrdersAssumption, QuantitiesAssumption DEF Sides, Remaining
<1>2. SideOK(Opposite(side), opposite)  BY <1>1, BookFaces DEF Faces
<1>3. /\ SetSides(side, IF m.overflow \/ m.left = 0 THEN own ELSE Rest(own, rest), m.levels)
      /\ IF m.overflow
         THEN Reply("trade_batch_overflow", order, <<>>, ToSet(m.retired))
         ELSE Reply("none", order, m.trades, ToSet(m.retired))
  BY DEF AddValidOrder
<1> HIDE DEF m, opposite, own, rest
<1>4. ~ m.overflow
  <2>1. SUFFICES ASSUME m.overflow PROVE FALSE  OBVIOUS
  <2>2. reply'.error = "trade_batch_overflow"  BY <1>3, <2>1 DEF Reply
  <2> QED  BY <2>2
<1>5. reply'.trades = m.trades  BY <1>3, <1>4 DEF Reply
<1>6. new = m.levels  BY <1>1, <1>3 DEF SetSides, Sides
<1>7. RestingAt(m.levels, p) = RestingAt(opposite, p) - TradedAt(m.trades, p)
  BY <1>1, <1>2, <1>4, SweepBalances DEF m
<1> HIDE DEF new
<1> QED  BY <1>5, <1>6, <1>7 DEF new, opposite
-----------------------------------------------------------------------------
\* Conservation of quantity: at every price the makers lose what was traded at that price,
\* what an accepted order does not trade rests at its price, elsewhere nothing changes, and
\* only what lies beyond the best MaxDepthLevels prices is dropped, be it the order itself
\* (order_book.cpp:50-59, :137-143, order_book.h:133-146).
THEOREM QuantityIsConserved == Spec => QuantityBalances
<1> DEFINE A == clock' # clock /\ reply'.error = "none" =>
          LET order    == reply'.order
              own      == Levels(order.side)
              opposite == Levels(Opposite(order.side))
              left     == order.quantity - Quantity(reply'.trades)
              prices   == {own[i].price : i \in DOMAIN own} \cup
                          (IF left > 0 THEN {order.price} ELSE {})
              kept     == {p \in prices : Cardinality(
                              {q \in prices : Better(order.side, q, p)}) < MaxDepthLevels}
          IN  \A p \in Prices :
                 /\ RestingAt(IF order.side = "buy" THEN asks' ELSE bids', p) =
                       RestingAt(opposite, p) - TradedAt(reply'.trades, p)
                 /\ RestingAt(IF order.side = "buy" THEN bids' ELSE asks', p) =
                       IF p \notin kept THEN 0
                       ELSE RestingAt(own, p) + (IF p = order.price THEN left ELSE 0)
<1>1. ASSUME BookInv, [Next]_vars PROVE [A]_vars
  <2>1. CASE UNCHANGED vars  BY <2>1
  <2>2. ASSUME clock' # clock, reply'.error = "none", Next PROVE A
    <3>1. PICK order \in Orders : AddValidOrder(order)  BY <2>2, AcceptedAdds
    <3> DEFINE own == Levels(order.side)
               left == order.quantity - Quantity(reply'.trades)
               prices == PricesOf(own) \cup (IF left > 0 THEN {order.price} ELSE {})
    <3>2. ASSUME NEW p
          PROVE  /\ reply'.order = order
                 /\ RestingAt(IF order.side = "buy" THEN bids' ELSE asks', p) =
                       IF p \notin KeptOf(order.side, prices) THEN 0
                       ELSE RestingAt(own, p) + (IF p = order.price THEN left ELSE 0)
      BY <1>1, <2>2, <3>1, AddCuts
    <3>3. ASSUME NEW p
          PROVE  RestingAt(IF order.side = "buy" THEN asks' ELSE bids', p) =
                    RestingAt(Levels(Opposite(order.side)), p) - TradedAt(reply'.trades, p)
      BY <1>1, <2>2, <3>1, AddTakes
    <3>4. reply'.order = order  BY <3>2
    <3> QED  BY <3>2, <3>3, <3>4 DEF KeptOf, PricesOf
  <2> QED  BY <1>1, <2>1, <2>2
<1> QED  BY <1>1, BookAlways, PTL DEF Spec, QuantityBalances
=============================================================================
