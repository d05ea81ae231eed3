----------------------------- MODULE FoldLemmas -----------------------------
(***************************************************************************)
(* Induction over numbers, and what FoldLeft and SumFunction compute.  The  *)
(* induction rules of the library take an operator, which the provers       *)
(* cannot instantiate: here a property is the set of the numbers that have  *)
(* it, and the steps of a fold are a function.                              *)
(***************************************************************************)
EXTENDS Integers, Sequences, SequencesExt, FiniteSetsExt, Functions, WellFoundedInduction,
        FiniteSetTheorems, TLAPS

LessThan == OpToRel(<, Nat)

LEMMA LeastNumber ==
    ASSUME NEW T \in SUBSET Nat, T # {} PROVE \E x \in T : \A y \in T : x <= y
<1>1. LessThan = {ss \in Nat \X Nat : ss[1] < ss[2]}  BY DEF LessThan, OpToRel
<1>2. IsWellFoundedOn(LessThan, Nat)  BY NatLessThanWellFounded DEF LessThan
<1>3. PICK x \in T : \A y \in T : ~ (<<y, x>> \in LessThan)
  BY <1>2, WFMin
<1>4. \A y \in Nat : <<y, x>> \in LessThan <=> y < x  BY <1>1
<1>5. ASSUME NEW y \in T PROVE x <= y
  <2>1. ~ (<<y, x>> \in LessThan)  BY <1>3
  <2>2. y \in Nat /\ x \in Nat  OBVIOUS
  <2>3. ~ (y < x)  BY <1>4, <2>1, <2>2
  <2> QED  BY <2>2, <2>3
<1> QED  BY <1>5

\* Induction from 0 to n.
LEMMA UpTo ==
    ASSUME NEW n \in Nat, NEW T, 0 \in T, \A k \in T \cap (0..(n - 1)) : k + 1 \in T
    PROVE  0..n \subseteq T
<1> DEFINE Rest == (0..n) \ T
<1>1. SUFFICES ASSUME Rest # {} PROVE FALSE  OBVIOUS
<1>2. Rest \in SUBSET Nat  OBVIOUS
<1>3. PICK k \in Rest : \A i \in Rest : k <= i  BY <1>1, <1>2, LeastNumber
<1>4. k \in 1..n  OBVIOUS
<1>5. k - 1 \in 0..(n - 1) /\ k - 1 \notin Rest  BY <1>3, <1>4
<1>6. k - 1 \in T \cap (0..(n - 1))  BY <1>5
<1>7. (k - 1) + 1 \in T  BY <1>6
<1> QED  BY <1>7, <1>4

LEMMA InitialSegments ==
    ASSUME NEW n \in Nat
    PROVE  /\ 1..0 = {}
           /\ \A k \in 0..n : (1..k) \in SUBSET (1..n)
           /\ \A k \in 1..n : 1..k # {} /\ Max(1..k) = k /\ (1..k) \ {k} = 1..(k - 1)
<1>1. ASSUME NEW k \in 1..n PROVE Max(1..k) = k
  <2>1. k \in 1..k /\ \A y \in 1..k : k >= y  OBVIOUS
  <2>2. \A x \in 1..k : (\A y \in 1..k : x >= y) => x = k  BY <2>1
  <2> QED  BY <2>1, <2>2 DEF Max
<1>2. ASSUME NEW k \in 1..n PROVE 1..k # {} /\ (1..k) \ {k} = 1..(k - 1)
  OBVIOUS
<1>3. 1..0 = {}  OBVIOUS
<1>4. ASSUME NEW k \in 0..n PROVE (1..k) \in SUBSET (1..n)  OBVIOUS
<1> QED  BY <1>1, <1>2, <1>3, <1>4

LEMMA GreatestNumber ==
    ASSUME NEW n \in Nat, NEW T \in SUBSET (1..n), T # {} PROVE Max(T) \in 1..n
<1> DEFINE Bounds == {k \in Nat : \A y \in T : y <= k}
<1>1. n \in Bounds  OBVIOUS
<1>2. Bounds \in SUBSET Nat /\ Bounds # {}  BY <1>1
<1>3. PICK k \in Bounds : \A y \in Bounds : k <= y  BY <1>2, LeastNumber
<1>4. k \in T
  <2>1. SUFFICES ASSUME k \notin T PROVE FALSE  OBVIOUS
  <2>2. PICK y \in T : TRUE  OBVIOUS
  <2>3. k > 0 /\ k - 1 \in Nat  BY <2>2, <2>1
  <2>4. \A z \in T : z <= k - 1  BY <2>1
  <2> QED  BY <2>3, <2>4, <1>3
<1>5. k \in T /\ \A y \in T : k >= y  BY <1>4
<1>6. Max(T) \in T  BY <1>5 DEF Max
<1> QED  BY <1>6

\* The function that FoldLeft defines by recursion exists, whatever the steps are.
FoldEquation(n, base, step, iter) ==
    [t \in SUBSET (1..n) |-> IF t = {} THEN base ELSE step[Max(t)][iter[t \ {Max(t)}]]]

Folds(n, S, base, step, iter) ==
    iter \in [SUBSET (1..n) -> S] /\ iter = FoldEquation(n, base, step, iter)

LEMMA FoldExists ==
    ASSUME NEW n \in Nat, NEW S, NEW base \in S, NEW step \in [1..n -> [S -> S]]
    PROVE  \E iter : Folds(n, S, base, step, iter)
<1> DEFINE Functions(k) == {f \in [SUBSET (1..k) -> S] : f = FoldEquation(k, base, step, f)}
           T == {k \in 0..n : Functions(k) # {}}
<1>1. 0 \in T
  <2> DEFINE f == [t \in SUBSET (1..0) |-> base]
  <2>1. f \in [SUBSET (1..0) -> S]  OBVIOUS
  <2>2. \A t \in SUBSET (1..0) : t = {}  OBVIOUS
  <2>3. f = FoldEquation(0, base, step, f)  BY <2>2 DEF FoldEquation
  <2>4. f \in Functions(0)  BY <2>1, <2>3
  <2> QED  BY <2>4
<1>2. ASSUME NEW k \in T \cap (0..(n - 1)) PROVE k + 1 \in T
  <2>1. PICK f \in [SUBSET (1..k) -> S] : f = FoldEquation(k, base, step, f)  OBVIOUS
  <2> DEFINE g == [t \in SUBSET (1..(k + 1)) |->
                      IF k + 1 \in t THEN step[k + 1][f[t \ {k + 1}]] ELSE f[t]]
             E == FoldEquation(k + 1, base, step, g)
  <2>2. g \in [SUBSET (1..(k + 1)) -> S]
    <3>1. ASSUME NEW t \in SUBSET (1..(k + 1)) PROVE g[t] \in S
      <4>1. CASE k + 1 \in t
        <5>1. t \ {k + 1} \in SUBSET (1..k)  OBVIOUS
        <5>2. f[t \ {k + 1}] \in S /\ step[k + 1] \in [S -> S]  BY <5>1
        <5> QED  BY <5>2, <4>1
      <4>2. CASE k + 1 \notin t
        <5>1. t \in SUBSET (1..k)  BY <4>2
        <5> QED  BY <5>1, <4>2
      <4> QED  BY <4>1, <4>2
    <3> QED  BY <3>1
  <2>3. ASSUME NEW t \in SUBSET (1..(k + 1)) PROVE g[t] = E[t]
    <3>0. E[t] = IF t = {} THEN base ELSE step[Max(t)][g[t \ {Max(t)}]]
      BY DEF FoldEquation
    <3>1. CASE k + 1 \in t
      <4>1. \A y \in t : k + 1 >= y  OBVIOUS
      <4>2. Max(t) = k + 1
        <5>1. \A x \in t : (\A y \in t : x >= y) => x = k + 1  BY <3>1, <4>1
        <5> QED  BY <5>1, <4>1, <3>1 DEF Max
      <4>3. t \ {k + 1} \in SUBSET (1..k) /\ t \ {k + 1} \in SUBSET (1..(k + 1))  OBVIOUS
      <4>4. g[t \ {k + 1}] = f[t \ {k + 1}]  BY <4>3
      <4>5. g[t] = step[k + 1][f[t \ {k + 1}]]  BY <3>1
      <4>6. E[t] = step[k + 1][g[t \ {k + 1}]]  BY <3>0, <3>1, <4>2
      <4> QED  BY <4>4, <4>5, <4>6
    <3>2. CASE k + 1 \notin t
      <4>1. t \in SUBSET (1..k)  BY <3>2
      <4>2. f[t] = IF t = {} THEN base ELSE step[Max(t)][f[t \ {Max(t)}]]
        BY <2>1, <4>1 DEF FoldEquation
      <4>3. t \ {Max(t)} \in SUBSET (1..(k + 1)) /\ k + 1 \notin t \ {Max(t)}  BY <3>2
      <4>4. g[t \ {Max(t)}] = f[t \ {Max(t)}]  BY <4>3
      <4>5. g[t] = f[t]  BY <3>2
      <4> QED  BY <3>0, <4>2, <4>4, <4>5
    <3> QED  BY <3>1, <3>2
  <2>4. g = E
    <3>1. E = [t \in SUBSET (1..(k + 1)) |-> E[t]]  BY DEF FoldEquation
    <3> HIDE DEF E
    <3> QED  BY <2>3, <3>1
  <2>5. g \in Functions(k + 1)  BY <2>2, <2>4
  <2>6. k + 1 \in 0..n  OBVIOUS
  <2> HIDE DEF Functions
  <2> QED  BY <2>5, <2>6
<1>3. 0..n \subseteq T
  <2> HIDE DEF T
  <2> QED  BY <1>1, <1>2, UpTo
<1>4. n \in T
  <2> HIDE DEF T
  <2>1. n \in 0..n  OBVIOUS
  <2> QED  BY <1>3, <2>1
<1>5. PICK f : f \in Functions(n)  BY <1>4
<1> QED  BY <1>5 DEF Folds

\* The values such a function goes through, one after the other.
Unfolds(n, S, base, step, iter) ==
    /\ iter[{}] = base
    /\ \A t \in SUBSET (1..n) :
          t # {} /\ iter[t \ {Max(t)}] \in S => iter[t] = step[Max(t)][iter[t \ {Max(t)}]]

Runs(n, S, base, step, result, run) ==
    /\ run \in [0..n -> S]
    /\ run[0] = base
    /\ run[n] = result
    /\ \A k \in 1..n : run[k] = step[k][run[k - 1]]

LEMMA FoldRuns ==
    ASSUME NEW n \in Nat, NEW S, NEW base \in S, NEW step \in [1..n -> [S -> S]], NEW iter,
           Unfolds(n, S, base, step, iter)
    PROVE  \E run : Runs(n, S, base, step, iter[1..n], run)
<1>0. /\ iter[{}] = base
      /\ \A t \in SUBSET (1..n) :
            t # {} /\ iter[t \ {Max(t)}] \in S => iter[t] = step[Max(t)][iter[t \ {Max(t)}]]
  BY DEF Unfolds
<1> DEFINE run == [k \in 0..n |-> iter[1..k]]
<1>1. run[0] = base
  <2>1. 1..0 = {}  BY InitialSegments
  <2> QED  BY <2>1, <1>0
<1>2. ASSUME NEW k \in 1..n, run[k - 1] \in S PROVE run[k] = step[k][run[k - 1]]
  <2>1. (1..k) \in SUBSET (1..n) /\ 1..k # {} /\ Max(1..k) = k /\ (1..k) \ {k} = 1..(k - 1)
    BY InitialSegments
  <2>2. run[k - 1] = iter[1..(k - 1)] /\ run[k] = iter[1..k]  OBVIOUS
  <2>3. (1..k) \ {Max(1..k)} = 1..(k - 1)  BY <2>1
  <2> HIDE DEF run
  <2>4. iter[(1..k) \ {Max(1..k)}] \in S  BY <1>2, <2>2, <2>3
  <2>5. iter[1..k] = step[Max(1..k)][iter[(1..k) \ {Max(1..k)}]]  BY <2>1, <2>4, <1>0
  <2> QED  BY <2>1, <2>2, <2>3, <2>5
<1>3. run[n] = iter[1..n]  OBVIOUS
<1>4. run = [k \in 0..n |-> run[k]]  OBVIOUS
<1> HIDE DEF run
<1> DEFINE T == {k \in 0..n : run[k] \in S}
<1>5. 0 \in T  BY <1>1
<1>6. ASSUME NEW k \in T \cap (0..(n - 1)) PROVE k + 1 \in T
  <2>1. k + 1 \in 1..n /\ (k + 1) - 1 = k  OBVIOUS
  <2>2. run[k] \in S  OBVIOUS
  <2>3. run[k + 1] = step[k + 1][run[k]]  BY <2>1, <2>2, <1>2
  <2>4. step[k + 1] \in [S -> S]  BY <2>1
  <2> QED  BY <2>1, <2>2, <2>3, <2>4
<1>7. 0..n \subseteq T
  <2> HIDE DEF T
  <2> QED  BY <1>5, <1>6, UpTo
<1>8. ASSUME NEW k \in 1..n PROVE run[k] = step[k][run[k - 1]]
  <2>1. k - 1 \in 0..n  OBVIOUS
  <2>2. run[k - 1] \in S  BY <2>1, <1>7
  <2> QED  BY <2>2, <1>2
<1>9. run \in [0..n -> S]  BY <1>4, <1>7
<1> QED  BY <1>1, <1>3, <1>8, <1>9 DEF Runs

(* Remainders. *)

LEMMA Remainder ==
    ASSUME NEW d \in Nat \ {0}, NEW a \in Int
    PROVE  a % d \in 0..(d - 1) /\ a \div d \in Int /\ a = d * (a \div d) + (a % d)
<1>1. d \in Int /\ d > 0  OBVIOUS
<1>2. a % d \in 0..(d - 1)
  <2>1. a % d \in Int  BY <1>1
  <2>2. a % d >= 0  BY <1>1
  <2>3. a % d < d  BY <1>1
  <2> QED  BY <2>1, <2>2, <2>3
<1>3. a \div d \in Int  BY <1>1
<1>4. a = d * (a \div d) + (a % d)  BY <1>1
<1> QED  BY <1>2, <1>3, <1>4

LEMMA RemainderUnique ==
    ASSUME NEW d \in Nat \ {0}, NEW a \in Int, NEW b \in Int,
           NEW r \in 0..(d - 1), NEW s \in 0..(d - 1), d * a + r = d * b + s
    PROVE  r = s
<1>1. s - r = d * (a - b)  OBVIOUS
<1>2. CASE a - b >= 1   BY <1>1, <1>2
<1>3. CASE a - b <= -1  BY <1>1, <1>3
<1>4. CASE a = b        BY <1>1, <1>4
<1> QED  BY <1>2, <1>3, <1>4

\* A remainder may be taken on the way.
LEMMA RemainderAdd ==
    ASSUME NEW d \in Nat \ {0}, NEW a \in Int, NEW b \in Int
    PROVE  ((a % d) + b) % d = (a + b) % d
<1> DEFINE r == a % d
           k == a \div d
           x == ((a % d) + b) % d
           y == ((a % d) + b) \div d
           v == (a + b) % d
           w == (a + b) \div d
<1>1. r \in 0..(d - 1) /\ k \in Int /\ a = d * k + r  BY Remainder
<1>2. x \in 0..(d - 1) /\ y \in Int /\ r + b = d * y + x
  <2>1. (a % d) + b \in Int  BY <1>1
  <2> QED  BY <2>1, Remainder
<1>3. v \in 0..(d - 1) /\ w \in Int /\ a + b = d * w + v
  <2>1. a + b \in Int  OBVIOUS
  <2> QED  BY <2>1, Remainder
<1> HIDE DEF r, k, x, y, v, w
<1>4. d * (k + y) + x = d * w + v  BY <1>1, <1>2, <1>3
<1>5. k + y \in Int  BY <1>1, <1>2
<1>6. x = v  BY <1>2, <1>3, <1>4, <1>5, RemainderUnique
<1> QED  BY <1>6 DEF x, v

LEMMA RemainderSmall ==
    ASSUME NEW d \in Nat \ {0}, NEW a \in 0..(d - 1) PROVE a % d = a
OBVIOUS
-----------------------------------------------------------------------------
(* Sums over a finite set, in whatever order. *)

\* The element the library takes out of a set first, and what the sum does with it.
Chosen(t) == CHOOSE x \in t : TRUE

SumEquation(D, f, iter) ==
    \A t \in D : iter[t] = IF t = {} THEN 0 ELSE f[Chosen(t)] + iter[t \ {Chosen(t)}]

LEMMA AnyOf ==
    ASSUME NEW S, IsFiniteSet(S), NEW t \in SUBSET S, t # {}
    PROVE  /\ Chosen(t) \in t /\ IsFiniteSet(t) /\ Cardinality(t) \in Nat \ {0}
           /\ t \ {Chosen(t)} \in SUBSET S
           /\ Cardinality(t \ {Chosen(t)}) = Cardinality(t) - 1
<1>1. Chosen(t) \in t  BY DEF Chosen
<1>2. IsFiniteSet(t)  BY FS_Subset
<1>3. Cardinality(t) \in Nat /\ Cardinality(t) # 0
  BY <1>2, FS_CardinalityType, FS_EmptySet
<1>4. Cardinality(t \ {Chosen(t)}) = Cardinality(t) - 1  BY <1>1, <1>2, FS_RemoveElement
<1> QED  BY <1>1, <1>2, <1>3, <1>4

\* The function that the sum defines by recursion exists.
LEMMA SumExists ==
    ASSUME NEW S, IsFiniteSet(S), NEW f \in [S -> Nat]
    PROVE  \E iter \in [SUBSET S -> Nat] : SumEquation(SUBSET S, f, iter)
<1> DEFINE n == Cardinality(S)
           Small(k) == {t \in SUBSET S : Cardinality(t) <= k}
           T == {k \in 0..n : \E iter \in [Small(k) -> Nat] : SumEquation(Small(k), f, iter)}
<1>0. n \in Nat  BY FS_CardinalityType
<1>1. 0 \in T
  <2> DEFINE g == [t \in Small(0) |-> 0]
  <2>1. \A t \in Small(0) : t = {}
    <3> SUFFICES ASSUME NEW t \in Small(0), t # {} PROVE FALSE  OBVIOUS
    <3>1. Cardinality(t) \in Nat \ {0}  BY AnyOf
    <3> QED  BY <3>1
  <2>2. g \in [Small(0) -> Nat] /\ SumEquation(Small(0), f, g)  BY <2>1 DEF SumEquation
  <2> HIDE DEF Small, g
  <2> QED  BY <1>0, <2>2
<1>2. ASSUME NEW k \in T \cap (0..(n - 1)) PROVE k + 1 \in T
  <2>0. k \in Nat /\ k + 1 \in 0..n  BY <1>0
  <2>1. PICK h \in [Small(k) -> Nat] : SumEquation(Small(k), f, h)  OBVIOUS
  <2> DEFINE g == [t \in Small(k + 1) |->
                      IF t = {} THEN 0 ELSE f[Chosen(t)] + h[t \ {Chosen(t)}]]
  <2>2. ASSUME NEW t \in Small(k + 1), t # {}
        PROVE  Chosen(t) \in S /\ t \ {Chosen(t)} \in Small(k)
    <3>1. /\ Chosen(t) \in t /\ t \ {Chosen(t)} \in SUBSET S /\ Cardinality(t) \in Nat
          /\ Cardinality(t \ {Chosen(t)}) = Cardinality(t) - 1
      BY <2>2, AnyOf
    <3> QED  BY <2>0, <3>1
  <2>3. g \in [Small(k + 1) -> Nat]
    <3>1. ASSUME NEW t \in Small(k + 1), t # {} PROVE f[Chosen(t)] + h[t \ {Chosen(t)}] \in Nat
      <4>1. Chosen(t) \in S /\ t \ {Chosen(t)} \in Small(k)  BY <2>2, <3>1
      <4>2. f[Chosen(t)] \in Nat /\ h[t \ {Chosen(t)}] \in Nat  BY <4>1
      <4> QED  BY <4>2
    <3> QED  BY <3>1
  <2>4. ASSUME NEW t \in Small(k) PROVE t \in Small(k + 1) /\ g[t] = h[t]
    <3>1. IsFiniteSet(t)  BY FS_Subset
    <3>2. Cardinality(t) \in Nat  BY <3>1, FS_CardinalityType
    <3>3. t \in Small(k + 1)  BY <2>0, <3>2
    <3> QED  BY <2>1, <3>3 DEF SumEquation
  <2>5. SumEquation(Small(k + 1), f, g)
    <3> SUFFICES ASSUME NEW t \in Small(k + 1)
                 PROVE  g[t] = IF t = {} THEN 0 ELSE f[Chosen(t)] + g[t \ {Chosen(t)}]
      BY DEF SumEquation
    <3>1. CASE t = {}  BY <3>1
    <3>2. CASE t # {}
      <4>1. g[t \ {Chosen(t)}] = h[t \ {Chosen(t)}]  BY <3>2, <2>2, <2>4
      <4>2. g[t] = f[Chosen(t)] + h[t \ {Chosen(t)}]  BY <3>2
      <4> HIDE DEF g
      <4> QED  BY <3>2, <4>1, <4>2
    <3> QED  BY <3>1, <3>2
  <2> HIDE DEF Small, g
  <2> QED  BY <2>0, <2>3, <2>5
<1>3. 0..n \subseteq T
  <2> HIDE DEF T, n
  <2> QED  BY <1>0, <1>1, <1>2, UpTo
<1>4. n \in 0..n  BY <1>0
<1>5. PICK iter \in [Small(n) -> Nat] : SumEquation(Small(n), f, iter)  BY <1>3, <1>4
<1>6. Small(n) = SUBSET S  BY FS_Subset
<1> HIDE DEF Small, n
<1> QED  BY <1>5, <1>6

\* The sum is the value of such a function.
LEMMA SumIs ==
    ASSUME NEW S, IsFiniteSet(S), NEW f \in [S -> Nat]
    PROVE  \E iter : /\ SumEquation(SUBSET S, f, iter)
                     /\ iter[S] = SumFunction(f)
<1> DEFINE G(iter) == [t \in SUBSET (DOMAIN f) |->
                          IF t = {} THEN 0
                          ELSE LET x == CHOOSE x \in t : TRUE IN f[x] + iter[t \ {x}]]
           J == CHOOSE iter : iter = G(iter)
<1>1. SumFunction(f) = J[DOMAIN f]
  BY DEF SumFunction, SumFunctionOnSet, FoldFunctionOnSet, MapThenFoldSet
<1>2. \E iter : iter = G(iter)
  <2>1. PICK iter \in [SUBSET S -> Nat] : SumEquation(SUBSET S, f, iter)  BY SumExists
  <2>2. iter = [t \in SUBSET S |-> iter[t]]  OBVIOUS
  <2>3. G(iter) = [t \in SUBSET S |-> G(iter)[t]]  OBVIOUS
  <2>4. ASSUME NEW t \in SUBSET S PROVE iter[t] = G(iter)[t]
    <3>1. iter[t] = IF t = {} THEN 0 ELSE f[Chosen(t)] + iter[t \ {Chosen(t)}]
      BY <2>1 DEF SumEquation
    <3> QED  BY <3>1 DEF Chosen
  <2> HIDE DEF G
  <2> QED  BY <2>2, <2>3, <2>4
<1>3. J = G(J)  BY <1>2
<1>4. SumEquation(SUBSET S, f, J)
  <2> SUFFICES ASSUME NEW t \in SUBSET S
               PROVE  J[t] = IF t = {} THEN 0 ELSE f[Chosen(t)] + J[t \ {Chosen(t)}]
    BY DEF SumEquation
  <2>1. G(J)[t] = IF t = {} THEN 0 ELSE f[Chosen(t)] + J[t \ {Chosen(t)}]  BY DEF Chosen
  <2> HIDE DEF J, G
  <2> QED  BY <1>3, <2>1
<1> HIDE DEF J
<1> QED  BY <1>1, <1>4

\* One summand changes.
LEMMA SumChanges ==
    ASSUME NEW S, IsFiniteSet(S), NEW f \in [S -> Nat], NEW g \in [S -> Nat], NEW w \in S,
           \A v \in S : v # w => g[v] = f[v]
    PROVE  SumFunction(f) \in Nat /\ SumFunction(g) = SumFunction(f) - f[w] + g[w]
<1> DEFINE n == Cardinality(S)
<1>0. n \in Nat  BY FS_CardinalityType
<1>1. PICK F : SumEquation(SUBSET S, f, F) /\ F[S] = SumFunction(f)  BY SumIs
<1>2. PICK G : SumEquation(SUBSET S, g, G) /\ G[S] = SumFunction(g)  BY SumIs
<1> DEFINE Agree(t) == F[t] \in Nat /\ G[t] = F[t] + (IF w \in t THEN g[w] - f[w] ELSE 0)
           T == {k \in 0..n : \A t \in SUBSET S : Cardinality(t) = k => Agree(t)}
<1>3. 0 \in T
  <2> SUFFICES ASSUME NEW t \in SUBSET S, Cardinality(t) = 0 PROVE Agree(t)
    BY <1>0
  <2>1. t = {}  BY AnyOf
  <2>2. F[t] = 0 /\ G[t] = 0  BY <1>1, <1>2, <2>1 DEF SumEquation
  <2> QED  BY <2>1, <2>2
<1>4. ASSUME NEW k \in T \cap (0..(n - 1)) PROVE k + 1 \in T
  <2> SUFFICES ASSUME NEW t \in SUBSET S, Cardinality(t) = k + 1 PROVE Agree(t)
    BY <1>0
  <2> DEFINE x == Chosen(t)
             u == t \ {x}
  <2>0. k \in Nat  BY <1>0
  <2>1. t # {}
    <3> SUFFICES ASSUME t = {} PROVE FALSE  OBVIOUS
    <3>1. Cardinality(t) = 0  BY FS_EmptySet
    <3> QED  BY <2>0, <3>1
  <2>2. x \in t /\ u \in SUBSET S /\ Cardinality(u) = k  BY <2>0, <2>1, AnyOf
  <2>3. F[u] \in Nat /\ G[u] = F[u] + (IF w \in u THEN g[w] - f[w] ELSE 0)  BY <2>2
  <2>4. F[t] = f[x] + F[u] /\ G[t] = g[x] + G[u]
    BY <1>1, <1>2, <2>1 DEF SumEquation
  <2>5. f[x] \in Nat /\ g[x] \in Nat /\ f[w] \in Nat /\ g[w] \in Nat  BY <2>2
  <2>6. CASE x = w
    <3>1. w \notin u /\ w \in t  BY <2>2, <2>6
    <3>2. G[u] = F[u]  BY <2>3, <3>1
    <3>3. F[t] = f[w] + F[u] /\ G[t] = g[w] + F[u]  BY <2>4, <2>6, <3>2
    <3> QED  BY <2>3, <2>5, <3>1, <3>3
  <2>7. CASE x # w
    <3>1. w \in u <=> w \in t  BY <2>7
    <3>2. g[x] = f[x]  BY <2>2, <2>7
    <3> HIDE DEF x, u
    <3>3. CASE w \in t
      <4>1. G[u] = F[u] + (g[w] - f[w])  BY <2>3, <3>1, <3>3
      <4> QED  BY <2>3, <2>4, <2>5, <3>2, <3>3, <4>1
    <3>4. CASE w \notin t
      <4>1. G[u] = F[u]  BY <2>3, <3>1, <3>4
      <4> QED  BY <2>3, <2>4, <2>5, <3>2, <3>4, <4>1
    <3> QED  BY <3>3, <3>4
  <2> QED  BY <2>6, <2>7
<1>5. 0..n \subseteq T
  <2> HIDE DEF T, n
  <2> QED  BY <1>0, <1>3, <1>4, UpTo
<1>6. n \in 0..n /\ S \in SUBSET S  BY <1>0
<1>7. Agree(S)  BY <1>5, <1>6
<1>8. f[w] \in Nat /\ g[w] \in Nat  OBVIOUS
<1> QED  BY <1>1, <1>2, <1>7, <1>8

LEMMA SumOfZeros ==
    ASSUME NEW S, IsFiniteSet(S), NEW f \in [S -> Nat], \A v \in S : f[v] = 0
    PROVE  SumFunction(f) = 0
<1> DEFINE n == Cardinality(S)
<1>0. n \in Nat  BY FS_CardinalityType
<1>1. PICK F : SumEquation(SUBSET S, f, F) /\ F[S] = SumFunction(f)  BY SumIs
<1> DEFINE T == {k \in 0..n : \A t \in SUBSET S : Cardinality(t) = k => F[t] = 0}
<1>3. 0 \in T
  <2> SUFFICES ASSUME NEW t \in SUBSET S, Cardinality(t) = 0 PROVE F[t] = 0
    BY <1>0
  <2>1. t = {}  BY AnyOf
  <2> QED  BY <1>1, <2>1 DEF SumEquation
<1>4. ASSUME NEW k \in T \cap (0..(n - 1)) PROVE k + 1 \in T
  <2> SUFFICES ASSUME NEW t \in SUBSET S, Cardinality(t) = k + 1 PROVE F[t] = 0
    BY <1>0
  <2>0. k \in Nat  BY <1>0
  <2>1. t # {}
    <3> SUFFICES ASSUME t = {} PROVE FALSE  OBVIOUS
    <3>1. Cardinality(t) = 0  BY FS_EmptySet
    <3> QED  BY <2>0, <3>1
  <2>2. Chosen(t) \in t /\ t \ {Chosen(t)} \in SUBSET S /\ Cardinality(t \ {Chosen(t)}) = k
    BY <2>0, <2>1, AnyOf
  <2>3. F[t] = f[Chosen(t)] + F[t \ {Chosen(t)}]  BY <1>1, <2>1 DEF SumEquation
  <2>4. F[t \ {Chosen(t)}] = 0 /\ f[Chosen(t)] = 0  BY <2>2
  <2> QED  BY <2>3, <2>4
<1>5. 0..n \subseteq T
  <2> HIDE DEF T, n
  <2> QED  BY <1>0, <1>3, <1>4, UpTo
<1>6. n \in 0..n /\ S \in SUBSET S  BY <1>0
<1> QED  BY <1>1, <1>5, <1>6

\* A sum is at most as many times the largest value as there are values.
LEMMA SumBound ==
    ASSUME NEW S, IsFiniteSet(S), NEW f \in [S -> Nat], NEW b \in Nat, \A v \in S : f[v] <= b
    PROVE  SumFunction(f) \in Nat /\ SumFunction(f) <= Cardinality(S) * b
<1> DEFINE n == Cardinality(S)
<1>0. n \in Nat  BY FS_CardinalityType
<1>1. PICK F : SumEquation(SUBSET S, f, F) /\ F[S] = SumFunction(f)  BY SumIs
<1> DEFINE T == {k \in 0..n : \A t \in SUBSET S :
                                 Cardinality(t) = k => F[t] \in Nat /\ F[t] <= k * b}
<1>3. 0 \in T
  <2> SUFFICES ASSUME NEW t \in SUBSET S, Cardinality(t) = 0 PROVE F[t] = 0
    BY <1>0
  <2>1. t = {}  BY AnyOf
  <2> QED  BY <1>1, <2>1 DEF SumEquation
<1>4. ASSUME NEW k \in T \cap (0..(n - 1)) PROVE k + 1 \in T
  <2> SUFFICES ASSUME NEW t \in SUBSET S, Cardinality(t) = k + 1
               PROVE  F[t] \in Nat /\ F[t] <= (k + 1) * b
    BY <1>0
  <2>0. k \in Nat  BY <1>0
  <2>1. t # {}
    <3> SUFFICES ASSUME t = {} PROVE FALSE  OBVIOUS
    <3>1. Cardinality(t) = 0  BY FS_EmptySet
    <3> QED  BY <2>0, <3>1
  <2>2. Chosen(t) \in t /\ t \ {Chosen(t)} \in SUBSET S /\ Cardinality(t \ {Chosen(t)}) = k
    BY <2>0, <2>1, AnyOf
  <2>3. F[t] = f[Chosen(t)] + F[t \ {Chosen(t)}]  BY <1>1, <2>1 DEF SumEquation
  <2>4. /\ F[t \ {Chosen(t)}] \in Nat /\ F[t \ {Chosen(t)}] <= k * b
        /\ f[Chosen(t)] \in Nat /\ f[Chosen(t)] <= b
    BY <2>2
  <2>5. (k + 1) * b = k * b + b /\ k * b \in Nat  BY <2>0
  <2> QED  BY <2>3, <2>4, <2>5
<1>5. 0..n \subseteq T
  <2> HIDE DEF T, n
  <2> QED  BY <1>0, <1>3, <1>4, UpTo
<1>6. n \in 0..n /\ S \in SUBSET S  BY <1>0
<1> QED  BY <1>1, <1>5, <1>6

\* A sum grows by what one of its values grows.
LEMMA SumGrows ==
    ASSUME NEW S, IsFiniteSet(S), NEW f \in [S -> Nat], NEW g \in [S -> Nat], NEW w \in S,
           NEW x \in Nat, g[w] = f[w] + x, \A v \in S : v # w => g[v] = f[v]
    PROVE  SumFunction(f) \in Nat /\ SumFunction(g) = SumFunction(f) + x
<1>1. SumFunction(f) \in Nat /\ SumFunction(g) = SumFunction(f) - f[w] + g[w]
  BY SumChanges
<1>2. f[w] \in Nat /\ g[w] \in Nat  OBVIOUS
<1> QED  BY <1>1, <1>2

\* Two sums, value by value.
LEMMA SumAdds ==
    ASSUME NEW S, IsFiniteSet(S), NEW f \in [S -> Nat], NEW g \in [S -> Nat],
           NEW h \in [S -> Nat], \A v \in S : h[v] = f[v] + g[v]
    PROVE  /\ SumFunction(f) \in Nat /\ SumFunction(g) \in Nat
           /\ SumFunction(h) = SumFunction(f) + SumFunction(g)
<1> DEFINE n == Cardinality(S)
<1>0. n \in Nat  BY FS_CardinalityType
<1>1. PICK F : SumEquation(SUBSET S, f, F) /\ F[S] = SumFunction(f)  BY SumIs
<1>2. PICK G : SumEquation(SUBSET S, g, G) /\ G[S] = SumFunction(g)  BY SumIs
<1>3. PICK H : SumEquation(SUBSET S, h, H) /\ H[S] = SumFunction(h)  BY SumIs
<1> DEFINE Adds(t) == F[t] \in Nat /\ G[t] \in Nat /\ H[t] = F[t] + G[t]
           T == {k \in 0..n : \A t \in SUBSET S : Cardinality(t) = k => Adds(t)}
<1>4. 0 \in T
  <2> SUFFICES ASSUME NEW t \in SUBSET S, Cardinality(t) = 0 PROVE Adds(t)
    BY <1>0
  <2>1. t = {}  BY AnyOf
  <2>2. F[t] = 0  BY <1>1, <2>1 DEF SumEquation
  <2>3. G[t] = 0  BY <1>2, <2>1 DEF SumEquation
  <2>4. H[t] = 0  BY <1>3, <2>1 DEF SumEquation
  <2> QED  BY <2>2, <2>3, <2>4
<1>5. ASSUME NEW k \in T \cap (0..(n - 1)) PROVE k + 1 \in T
  <2> SUFFICES ASSUME NEW t \in SUBSET S, Cardinality(t) = k + 1 PROVE Adds(t)
    BY <1>0
  <2>0. k \in Nat  BY <1>0
  <2>1. t # {}
    <3> SUFFICES ASSUME t = {} PROVE FALSE  OBVIOUS
    <3>1. Cardinality(t) = 0  BY FS_EmptySet
    <3> QED  BY <2>0, <3>1
  <2>2. Chosen(t) \in t /\ t \ {Chosen(t)} \in SUBSET S /\ Cardinality(t \ {Chosen(t)}) = k
    BY <2>0, <2>1, AnyOf
  <2>3. /\ F[t] = f[Chosen(t)] + F[t \ {Chosen(t)}]
        /\ G[t] = g[Chosen(t)] + G[t \ {Chosen(t)}]
        /\ H[t] = h[Chosen(t)] + H[t \ {Chosen(t)}]
    BY <1>1, <1>2, <1>3, <2>1 DEF SumEquation
  <2>4. Adds(t \ {Chosen(t)})  BY <2>2
  <2>5. /\ f[Chosen(t)] \in Nat /\ g[Chosen(t)] \in Nat
        /\ h[Chosen(t)] = f[Chosen(t)] + g[Chosen(t)]
    BY <2>2
  <2> QED  BY <2>3, <2>4, <2>5
<1>6. 0..n \subseteq T
  <2> HIDE DEF T, n
  <2> QED  BY <1>0, <1>4, <1>5, UpTo
<1>7. n \in 0..n /\ S \in SUBSET S  BY <1>0
<1>8. Adds(S)  BY <1>6, <1>7
<1> QED  BY <1>1, <1>2, <1>3, <1>8

\* The members of a union are bounded as a sum is.
AllOf(f, S) == UNION {f[v] : v \in S}

LEMMA UnionBound ==
    ASSUME NEW S, IsFiniteSet(S), NEW U, IsFiniteSet(U), NEW f \in [S -> SUBSET U],
           NEW b \in Nat, \A v \in S : Cardinality(f[v]) <= b
    PROVE  Cardinality(AllOf(f, S)) <= Cardinality(S) * b
<1> DEFINE n == Cardinality(S)
           All(t) == UNION {f[v] : v \in t}
           T == {k \in 0..n : \A t \in SUBSET S :
                                 Cardinality(t) = k => Cardinality(All(t)) <= k * b}
<1>0. n \in Nat  BY FS_CardinalityType
<1>1. 0 \in T
  <2> SUFFICES ASSUME NEW t \in SUBSET S, Cardinality(t) = 0
               PROVE  Cardinality(All(t)) = 0
    BY <1>0
  <2>1. t = {}  BY AnyOf
  <2>2. All(t) = {}  BY <2>1
  <2> QED  BY <2>2, FS_EmptySet
<1>2. ASSUME NEW k \in T \cap (0..(n - 1)) PROVE k + 1 \in T
  <2> SUFFICES ASSUME NEW t \in SUBSET S, Cardinality(t) = k + 1
               PROVE  Cardinality(All(t)) <= (k + 1) * b
    BY <1>0
  <2>0. k \in Nat  BY <1>0
  <2>1. t # {}
    <3> SUFFICES ASSUME t = {} PROVE FALSE  OBVIOUS
    <3>1. Cardinality(t) = 0  BY FS_EmptySet
    <3> QED  BY <2>0, <3>1
  <2> DEFINE v == Chosen(t)
             r == t \ {v}
  <2>2. v \in t /\ r \in SUBSET S /\ Cardinality(r) = k
    BY <2>0, <2>1, AnyOf
  <2>3. Cardinality(All(r)) <= k * b  BY <2>2
  <2> HIDE DEF v
  <2>4. All(t) = f[v] \cup All(r)  BY <2>2
  <2>5. /\ IsFiniteSet(f[v]) /\ IsFiniteSet(All(r))
        /\ Cardinality(f[v]) \in Nat /\ Cardinality(All(r)) \in Nat
        /\ Cardinality(f[v] \cap All(r)) \in Nat
    <3>1. f[v] \in SUBSET U /\ All(r) \in SUBSET U /\ f[v] \cap All(r) \in SUBSET U  BY <2>2
    <3> HIDE DEF All, r
    <3> QED  BY <3>1, FS_Subset, FS_CardinalityType
  <2>6. Cardinality(f[v] \cup All(r)) =
        Cardinality(f[v]) + Cardinality(All(r)) - Cardinality(f[v] \cap All(r))
    <3> HIDE DEF All, r
    <3> QED  BY <2>5, FS_Union
  <2>7. Cardinality(f[v]) <= b  BY <2>2
  <2>8. (k + 1) * b = k * b + b /\ k * b \in Nat  BY <2>0
  <2>9. Cardinality(All(t)) = Cardinality(f[v] \cup All(r))  BY <2>4
  <2> HIDE DEF All, r
  <2> QED  BY <2>3, <2>5, <2>6, <2>7, <2>8, <2>9
<1>3. 0..n \subseteq T
  <2> HIDE DEF T, n
  <2> QED  BY <1>0, <1>1, <1>2, UpTo
<1>4. n \in 0..n /\ S \in SUBSET S  BY <1>0
<1>5. Cardinality(All(S)) <= n * b  BY <1>3, <1>4
<1> QED  BY <1>5 DEF AllOf

\* A sequence without repetitions has as many members as places.
LEMMA InjectiveLength ==
    ASSUME NEW S, NEW s \in Seq(S), IsInjective(s)
    PROVE  IsFiniteSet(ToSet(s)) /\ Cardinality(ToSet(s)) = Len(s)
<1>1. Len(s) \in Nat /\ s \in [1..Len(s) -> S] /\ DOMAIN s = 1..Len(s)  OBVIOUS
<1>2. s \in [1..Len(s) -> ToSet(s)]  BY <1>1 DEF ToSet
<1>3. s \in Bijection(1..Len(s), ToSet(s))
  BY <1>1, <1>2 DEF Bijection, Injection, Surjection, IsInjective, ToSet
<1>4. IsFiniteSet(1..Len(s)) /\ Cardinality(1..Len(s)) = Len(s)
  <2>1. 1 \in Int /\ Len(s) \in Int  BY <1>1
  <2> QED  BY <1>1, <2>1, FS_Interval
<1> QED  BY <1>3, <1>4, FS_Bijection DEF ExistsBijection

\* A finite set has no more images than members.
LEMMA ImageBound ==
    ASSUME NEW S, IsFiniteSet(S), NEW f, DOMAIN f = S
    PROVE  IsFiniteSet({f[x] : x \in S}) /\ Cardinality({f[x] : x \in S}) <= Cardinality(S)
<1> DEFINE g == [x \in S |-> f[x]]
           T == {f[x] : x \in S}
<1>1. g \in [S -> T] /\ \A y \in T : \E x \in S : g[x] = y  OBVIOUS
<1>2. g \in Surjection(S, T)  BY <1>1 DEF Surjection
<1> QED  BY <1>2, FS_Surjection
=============================================================================
