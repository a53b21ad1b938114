------------------------ MODULE ThroughputTest_proofs ------------------------
(***************************************************************************)
(* What module ThroughputTest keeps, for every length of a half, every     *)
(* interval of the polls and of the probes and every pause: first what a   *)
(* push and a pop do to the heap of module PriorityQueue, then the types   *)
(* and the order of the heap, and then, with threads that are punctual,    *)
(* which jobs are in the heap at each moment - from which the rates, the   *)
(* counters, the report and the filing of the answers follow.              *)
(***************************************************************************)
EXTENDS ThroughputTest, WellFoundedInduction, TLAPS

-----------------------------------------------------------------------------
(* Induction over 1..n, stated of a set *)

\* A set of numbers that is not empty has a least one.
LEMMA LeastNumber ==
    ASSUME NEW T \in SUBSET Nat, T # {}
    PROVE \E x \in T : \A y \in T : x <= y
  <1> DEFINE R == OpToRel(<, Nat)
  <1>1. IsWellFoundedOn(R, Nat)
    BY NatLessThanWellFounded
  <1>2. \A x, y \in Nat : y < x => <<y, x>> \in R
    BY DEF OpToRel
  <1> HIDE DEF R
  <1>3. PICK x \in T : \A y \in T : <<y, x>> \notin R
    BY <1>1, WFMin
  <1>4. \A y \in T : ~(y < x)
    <2> TAKE y \in T
    <2>1. x \in Nat /\ y \in Nat
      OBVIOUS
    <2>2. y < x => <<y, x>> \in R
      BY <1>2, <2>1
    <2> QED BY <1>3, <2>2
  <1>5. x \in Nat /\ \A y \in T : y \in Nat
    OBVIOUS
  <1> QED BY <1>4, <1>5

\* A set has all of 1..n if it has each number whose predecessors it has ...
LEMMA UpTo ==
    ASSUME NEW n \in Nat, NEW S,
           \A k \in 1..n : (\A j \in 1..(k-1) : j \in S) => k \in S
    PROVE  \A k \in 1..n : k \in S
  <1> DEFINE T == {k \in 1..n : k \notin S}
  <1> SUFFICES ASSUME T # {} PROVE FALSE
    OBVIOUS
  <1>1. T \in SUBSET Nat
    OBVIOUS
  <1> HIDE DEF T
  <1>2. PICK k \in T : \A j \in T : k <= j
    BY <1>1, LeastNumber
  <1>3. k \in 1..n /\ k \notin S
    BY DEF T
  <1>4. \A j \in 1..(k-1) : j \in S
    BY <1>2, <1>3 DEF T
  <1> QED BY <1>3, <1>4

\* ... or each number whose successors it has.
LEMMA DownFrom ==
    ASSUME NEW n \in Nat, NEW S,
           \A k \in 1..n : (\A j \in (k+1)..n : j \in S) => k \in S
    PROVE  \A k \in 1..n : k \in S
  <1> DEFINE T == {m \in 1..n : n + 1 - m \in S}
  <1>1. ASSUME NEW m \in 1..n, \A i \in 1..(m-1) : i \in T
        PROVE  m \in T
    <2>1. n + 1 - m \in 1..n
      OBVIOUS
    <2>2. ASSUME NEW j \in (n + 1 - m + 1)..n PROVE j \in S
      <3>1. n + 1 - j \in 1..(m-1) /\ n + 1 - (n + 1 - j) = j
        OBVIOUS
      <3> QED BY <3>1, <1>1
    <2> QED BY <2>1, <2>2
  <1> HIDE DEF T
  <1>2. \A m \in 1..n : m \in T
    BY <1>1, UpTo
  <1> SUFFICES ASSUME NEW k \in 1..n PROVE k \in S
    OBVIOUS
  <1>3. n + 1 - k \in 1..n /\ n + 1 - (n + 1 - k) = k
    OBVIOUS
  <1> QED BY <1>2, <1>3 DEF T

-----------------------------------------------------------------------------
(* The heap: going up *)

\* What is in the cells after a swap.
LEMMA Swapped ==
    ASSUME NEW D, NEW R, NEW c \in [D -> R], NEW i \in D, NEW j \in D
    PROVE  /\ Swap(c, i, j) \in [D -> R]
           /\ \A k \in D : Swap(c, i, j)[k] = IF k = j THEN c[i] ELSE IF k = i THEN c[j] ELSE c[k]
  BY DEF Swap

\* One step of the recursion of SiftUp, with f for the rest of it.
UpBody(C, f, k) == [c \in C |-> IF k > 1 /\ Less(c[k], c[k \div 2])
            THEN f[k \div 2][Swap(c, k, k \div 2)]
            ELSE c]

\* The recursion of SiftUp defines a function: it goes from k to k div 2.
LEMMA UpExists ==
    ASSUME NEW n \in Nat, NEW C
    PROVE  \E f : f = [k \in 1..n |-> UpBody(C, f, k)]
  <1> DEFINE P(m) == \E f : f = [k \in 1..m |-> UpBody(C, f, k)]
             S == {m \in Nat : P(m)}
  <1>1. P(0)
    <2> DEFINE f == [k \in {} |-> 0]
    <2>1. f = [k \in 1..0 |-> UpBody(C, f, k)]
      BY SMT
    <2> HIDE DEF f
    <2> QED BY <2>1
  <1>2. ASSUME NEW m \in 1..n, \A j \in 1..(m-1) : j \in S
        PROVE  m \in S
    <2>1. P(m - 1)
      <3>1. CASE m = 1
        BY <1>1, <3>1
      <3>2. CASE m # 1
        <4>1. m - 1 \in S
          BY <1>2, <3>2
        <4> QED BY <4>1
      <3> QED BY <3>1, <3>2
    <2>2. PICK f : f = [k \in 1..(m-1) |-> UpBody(C, f, k)]
      BY <2>1
    <2> DEFINE g == [k \in 1..m |-> IF k < m THEN f[k] ELSE UpBody(C, f, m)]
    <2>3. \A k \in 1..m : UpBody(C, g, k) = UpBody(C, f, k)
      <3> TAKE k \in 1..m
      <3>1. k > 1 => g[k \div 2] = f[k \div 2]
        OBVIOUS
      <3> HIDE DEF g
      <3> QED BY <3>1 DEF UpBody
    <2>4. \A k \in 1..m : g[k] = UpBody(C, f, k)
      <3> TAKE k \in 1..m
      <3>1. CASE k < m
        <4>1. k \in 1..(m-1)
          BY <3>1
        <4>2. f[k] = UpBody(C, f, k)
          <5> HIDE DEF P, S
          <5> QED BY <4>1, <2>2
        <4> QED BY <4>2, <3>1
      <3>2. CASE ~(k < m)
        <4>1. k = m
          BY <3>2
        <4> QED BY <4>1
      <3> QED BY <3>1, <3>2
    <2>5. g = [k \in 1..m |-> g[k]]
      OBVIOUS
    <2>6. g = [k \in 1..m |-> UpBody(C, g, k)]
      <3> HIDE DEF g
      <3> QED BY <2>3, <2>4, <2>5, Zenon
    <2> HIDE DEF g
    <2> QED BY <2>6
  <1> HIDE DEF S
  <1>3. \A m \in 1..n : m \in S
    BY <1>2, UpTo
  <1>4. n = 0 \/ n \in S
    BY <1>3
  <1> QED BY <1>1, <1>4 DEF S

\* Is the element at k lighter than the one above it?
Rises(c, k) == k > 1 /\ Less(c[k], c[k \div 2])

\* The rule of SiftUp as of a loop: what holds at the start (c is in I[k]:
\* the cells and the place reached) and is kept by a swap upwards holds when
\* it ends, at a place from which nothing rises.
LEMMA SiftUpRun ==
    ASSUME NEW E, NEW tree \in Seq(E), NEW i \in DOMAIN tree, NEW I,
           tree \in I[i],
           \A k \in DOMAIN tree : \A c \in Cells(tree) :
               c \in I[k] /\ Rises(c, k) => Swap(c, k, k \div 2) \in I[k \div 2]
    PROVE  /\ SiftUp(tree, i) \in Cells(tree)
           /\ \E k \in DOMAIN tree : SiftUp(tree, i) \in I[k] /\ ~Rises(SiftUp(tree, i), k)
  <1> DEFINE n == Len(tree)
             C == Cells(tree)
             U == CHOOSE f : f = [k \in DOMAIN tree |-> UpBody(C, f, k)]
             Ends(k, c) == U[k][c] \in C /\ \E l \in 1..n : U[k][c] \in I[l] /\ ~Rises(U[k][c], l)
             S == {k \in 1..n : \A c \in C : c \in I[k] => Ends(k, c)}
  <1>1. n \in Nat /\ DOMAIN tree = 1..n /\ tree \in C
    BY DEF Cells
  <1>2. SiftUp(tree, i) = U[i][tree]
    BY DEF SiftUp, UpBody
  <1>3. U = [k \in DOMAIN tree |-> UpBody(C, U, k)]
    <2>1. \E f : f = [k \in DOMAIN tree |-> UpBody(C, f, k)]
      <3>1. n \in Nat
        BY <1>1
      <3> HIDE DEF C, n
      <3>2. \E f : f = [k \in 1..n |-> UpBody(C, f, k)]
        BY <3>1, UpExists
      <3> QED BY <3>2, <1>1
    <2> HIDE DEF C
    <2> QED BY <2>1
  <1> HIDE DEF U
  <1>4. ASSUME NEW k \in 1..n, \A j \in 1..(k-1) : j \in S
        PROVE  k \in S
    <2> SUFFICES ASSUME NEW c \in C, c \in I[k] PROVE Ends(k, c)
      OBVIOUS
    <2>1. U[k] = UpBody(C, U, k)
      BY <1>1, <1>3
    <2>2. CASE Rises(c, k)
      <3> DEFINE j == k \div 2
      <3>1. j \in 1..(k-1) /\ j \in 1..n
        BY <2>2, <1>1 DEF Rises
      <3>2. Swap(c, k, j) \in C
        <4>1. C = [1..n -> {tree[l] : l \in DOMAIN tree}]
          BY <1>1 DEF Cells
        <4> HIDE DEF C, n, j
        <4> QED BY <3>1, <4>1, Swapped
      <3>3. U[k][c] = U[j][Swap(c, k, j)]
        BY <2>1, <2>2 DEF UpBody, Rises
      <3>4. Swap(c, k, j) \in I[j]
        BY <2>2, <1>1
      <3>5. j \in S
        BY <1>4, <3>1
      <3> HIDE DEF j, C
      <3> QED BY <3>2, <3>3, <3>4, <3>5
    <2>3. CASE ~Rises(c, k)
      <3>1. U[k][c] = c
        BY <2>1, <2>3 DEF UpBody, Rises
      <3> QED BY <3>1, <2>3
    <2> QED BY <2>2, <2>3
  <1> HIDE DEF S
  <1>5. \A k \in 1..n : k \in S
    BY <1>1, <1>4, UpTo
  <1>6. i \in S /\ tree \in C
    BY <1>1, <1>5
  <1>7. Ends(i, tree)
    BY <1>6 DEF S
  <1> QED BY <1>1, <1>2, <1>7

\* What the proofs use of the elements of a heap; what is in it; that nothing
\* is in it twice; and its order.
Timed(E) == \A e \in E : e.when \in Int

Elements(c) == {c[j] : j \in DOMAIN c}

Distinct(c) == \A i, j \in DOMAIN c : c[i] = c[j] => i = j

Ordered(c) == \A j \in DOMAIN c : j > 1 => c[j \div 2].when <= c[j].when

\* A swap changes neither what is in the cells nor how often.
LEMMA SwapKeeps ==
    ASSUME NEW D, NEW R, NEW c \in [D -> R], NEW i \in D, NEW j \in D
    PROVE  /\ Elements(Swap(c, i, j)) = Elements(c)
           /\ Distinct(c) => Distinct(Swap(c, i, j))
  <1> DEFINE s == Swap(c, i, j)
  <1>1. /\ s \in [D -> R]
        /\ \A k \in D : s[k] = IF k = j THEN c[i] ELSE IF k = i THEN c[j] ELSE c[k]
    BY DEF Swap
  <1>2. DOMAIN s = D /\ DOMAIN c = D
    BY <1>1
  <1> HIDE DEF s
  <1>3. s[j] = c[i] /\ s[i] = c[j] /\ \A k \in D \ {i, j} : s[k] = c[k]
    BY <1>1
  <1>4. Elements(s) = Elements(c)
    <2>1. ASSUME NEW k \in D PROVE s[k] \in Elements(c) /\ c[k] \in Elements(s)
      <3>1. s[k] = c[i] \/ s[k] = c[j] \/ s[k] = c[k]
        BY <1>1
      <3>2. c[k] = s[i] \/ c[k] = s[j] \/ c[k] = s[k]
        BY <1>3
      <3> QED BY <1>2, <3>1, <3>2 DEF Elements
    <2> QED BY <2>1, <1>2 DEF Elements
  <1>5. Distinct(c) => Distinct(s)
    BY <1>1, <1>2 DEF Distinct
  <1> QED BY <1>4, <1>5 DEF s

\* Only the element at k may be lighter than the one above it.
UpInv(c, k) ==
    /\ \A j \in DOMAIN c : j > 1 /\ j # k => c[j \div 2].when <= c[j].when
    /\ \A j \in DOMAIN c : k > 1 /\ j \div 2 = k => c[k \div 2].when <= c[j].when

\* This is kept when the element at k is swapped with the one above it.
LEMMA RiseKeeps ==
    ASSUME NEW n \in Nat, NEW E, Timed(E), NEW c \in [1..n -> E], NEW k \in 1..n,
           UpInv(c, k), Rises(c, k)
    PROVE  k \div 2 \in 1..n /\ UpInv(Swap(c, k, k \div 2), k \div 2)
  <1> DEFINE p == k \div 2
             s == Swap(c, k, p)
  <1>1. p \in 1..n /\ p < k /\ k > 1 /\ c[k].when < c[p].when
    BY DEF Rises, Less
  <1>2. /\ s \in [1..n -> E]
        /\ \A j \in 1..n : s[j] = IF j = p THEN c[k] ELSE IF j = k THEN c[p] ELSE c[j]
    <2> HIDE DEF p
    <2> QED BY <1>1 DEF Swap
  <1>3. \A j \in 1..n : c[j].when \in Int /\ s[j].when \in Int
    <2>1. \A j \in 1..n : c[j] \in E /\ s[j] \in E
      BY <1>2
    <2> QED BY <2>1 DEF Timed
  <1> HIDE DEF s
  <1>4. /\ s[p] = c[k] /\ s[k] = c[p]
        /\ \A j \in 1..n : j # p /\ j # k => s[j] = c[j]
    BY <1>1, <1>2
  <1>5. /\ \A j \in 1..n : j > 1 /\ j # k => c[j \div 2].when <= c[j].when
        /\ \A j \in 1..n : j \div 2 = k => c[p].when <= c[j].when
    BY <1>1 DEF UpInv
  <1>6. ASSUME NEW j \in 1..n, j > 1, j # p PROVE s[j \div 2].when <= s[j].when
    <2>1. j \div 2 \in 1..n
      BY <1>6
    <2>2. CASE j = k
      <3>1. s[j] = c[p] /\ s[j \div 2] = c[k]
        BY <2>2, <1>4
      <3> HIDE DEF p
      <3> QED BY <3>1, <1>1, <1>3
    <2>3. CASE j # k /\ j \div 2 = k
      BY <2>3, <1>4, <1>5, <1>6
    <2>4. CASE j # k /\ j \div 2 = p
      <3>1. s[j] = c[j] /\ s[j \div 2] = c[k]
        BY <2>4, <1>4, <1>6
      <3>2. c[p].when <= c[j].when
        BY <2>4, <1>5, <1>6
      <3> HIDE DEF p
      <3> QED BY <3>1, <3>2, <1>1, <1>3
    <2>5. CASE j # k /\ j \div 2 # k /\ j \div 2 # p
      BY <2>5, <2>1, <1>4, <1>5, <1>6
    <2> QED BY <2>2, <2>3, <2>4, <2>5
  <1>7. ASSUME NEW j \in 1..n, p > 1, j \div 2 = p PROVE s[p \div 2].when <= s[j].when
    <2>1. p \div 2 \in 1..n /\ p \div 2 # p /\ p \div 2 # k /\ j # p
      BY <1>1, <1>7
    <2>2. s[p \div 2] = c[p \div 2] /\ c[p \div 2].when <= c[p].when
      BY <2>1, <1>1, <1>4, <1>5, <1>7
    <2>3. j # k => s[j] = c[j] /\ c[p].when <= c[j].when
      BY <2>1, <1>1, <1>4, <1>5, <1>7
    <2> HIDE DEF p
    <2> QED BY <2>1, <2>2, <2>3, <1>1, <1>3, <1>4
  <1>8. DOMAIN s = 1..n
    BY <1>2
  <1> QED BY <1>1, <1>6, <1>7, <1>8 DEF UpInv, s

\* push() keeps the heap ordered and adds its element, once
\* (PriorityQueue.hpp).
THEOREM PushHeap ==
    ASSUME NEW E, Timed(E), NEW tree \in Seq(E), NEW x \in E, Ordered(tree)
    PROVE  /\ Push(tree, x) \in Seq(E)
           /\ Ordered(Push(tree, x))
           /\ Elements(Push(tree, x)) = Elements(tree) \cup {x}
           /\ Distinct(tree) /\ x \notin Elements(tree) => Distinct(Push(tree, x))
  <1> DEFINE h == Append(tree, x)
             n == Len(tree) + 1
             I == [k \in DOMAIN h |-> {c \in Cells(h) :
                      /\ UpInv(c, k)
                      /\ Elements(c) = Elements(h)
                      /\ Distinct(h) => Distinct(c)}]
             s == Push(tree, x)
  <1>1. /\ h \in Seq(E) /\ n \in Nat /\ DOMAIN h = 1..n /\ n \in DOMAIN h
        /\ h[n] = x /\ DOMAIN tree = 1..(n-1) /\ \A j \in 1..(n-1) : h[j] = tree[j]
    OBVIOUS
  <1>2. Elements(h) = Elements(tree) \cup {x}
    <2> HIDE DEF h, n
    <2>1. ASSUME NEW e \in Elements(h) PROVE e \in Elements(tree) \cup {x}
      <3>1. PICK j \in 1..n : e = h[j]
        BY <2>1, <1>1 DEF Elements
      <3> QED BY <3>1, <1>1 DEF Elements
    <2>2. ASSUME NEW e \in Elements(tree) PROVE e \in Elements(h)
      <3>1. PICK j \in 1..(n-1) : e = tree[j]
        BY <2>2, <1>1 DEF Elements
      <3>2. j \in DOMAIN h /\ h[j] = e
        BY <3>1, <1>1
      <3> QED BY <3>2 DEF Elements
    <2>3. x \in Elements(h)
      BY <1>1 DEF Elements
    <2> QED BY <2>1, <2>2, <2>3
  <1>3. Distinct(tree) /\ x \notin Elements(tree) => Distinct(h)
    <2> HIDE DEF h, n
    <2> SUFFICES ASSUME Distinct(tree), x \notin Elements(tree),
                        NEW i \in 1..n, NEW j \in 1..n, h[i] = h[j]
                 PROVE  i = j
      BY <1>1 DEF Distinct
    <2> QED BY <1>1 DEF Distinct, Elements
  <1>4. h \in Cells(h) /\ Cells(h) = [1..n -> Elements(h)] /\ Elements(h) \subseteq E
    <2> HIDE DEF h, n
    <2> QED BY <1>1 DEF Cells, Elements
  <1>5. UpInv(h, n)
    <2> HIDE DEF h, n
    <2>1. ASSUME NEW j \in 1..n, j > 1, j # n PROVE h[j \div 2].when <= h[j].when
      <3>1. j \in 1..(n-1) /\ j \div 2 \in 1..(n-1)
        BY <2>1, <1>1
      <3> QED BY <3>1, <2>1, <1>1 DEF Ordered
    <2>2. \A j \in 1..n : j \div 2 # n
      BY <1>1
    <2> QED BY <2>1, <2>2, <1>1 DEF UpInv
  <1> HIDE DEF h, n
  <1>6. h \in I[n]
    BY <1>1, <1>4, <1>5
  <1>7. ASSUME NEW k \in DOMAIN h, NEW c \in Cells(h), c \in I[k], Rises(c, k)
        PROVE  Swap(c, k, k \div 2) \in I[k \div 2]
    <2>1. UpInv(c, k) /\ Elements(c) = Elements(h) /\ (Distinct(h) => Distinct(c))
      BY <1>7
    <2>2. c \in [1..n -> E] /\ c \in [1..n -> Elements(h)] /\ k \in 1..n
      BY <1>1, <1>4
    <2>3. k \div 2 \in 1..n /\ UpInv(Swap(c, k, k \div 2), k \div 2)
      BY <2>1, <2>2, <1>7, <1>1, RiseKeeps
    <2> DEFINE p == k \div 2
               d == Swap(c, k, p)
    <2>4. p \in 1..n /\ UpInv(d, p)
      BY <2>3
    <2> HIDE DEF p
    <2>5. Elements(d) = Elements(c) /\ (Distinct(c) => Distinct(d))
      BY <2>2, <2>4, SwapKeeps
    <2>6. d \in Cells(h)
      BY <2>2, <2>4, <1>4, Swapped
    <2> HIDE DEF d
    <2>7. d \in I[p]
      BY <2>1, <2>4, <2>5, <2>6, <1>1
    <2> QED BY <2>7 DEF p, d
  <1>8. s = SiftUp(h, n)
    BY DEF Push, h, n
  <1> HIDE DEF I, s
  <1>9. s \in Cells(h) /\ \E k \in DOMAIN h : s \in I[k] /\ ~Rises(s, k)
    BY <1>1, <1>6, <1>7, <1>8, SiftUpRun
  <1>10. PICK k \in DOMAIN h : s \in I[k] /\ ~Rises(s, k)
    BY <1>9
  <1>11. UpInv(s, k) /\ Elements(s) = Elements(h) /\ (Distinct(h) => Distinct(s))
    BY <1>10 DEF I
  <1>12. s \in [1..n -> E] /\ DOMAIN s = 1..n
    BY <1>4, <1>9
  <1>13. s \in Seq(E)
    BY <1>1, <1>12
  <1>14. Ordered(s)
    <2> SUFFICES ASSUME NEW j \in 1..n, j > 1 PROVE s[j \div 2].when <= s[j].when
      BY <1>12 DEF Ordered
    <2>1. CASE j # k
      BY <2>1, <1>11, <1>12 DEF UpInv
    <2>2. CASE j = k
      <3>1. j \div 2 \in 1..n
        BY <1>1
      <3>2. s[j].when \in Int /\ s[j \div 2].when \in Int
        BY <3>1, <1>12 DEF Timed
      <3> QED BY <2>2, <3>2, <1>10 DEF Rises, Less
    <2> QED BY <2>1, <2>2
  <1> QED BY <1>2, <1>3, <1>11, <1>13, <1>14 DEF s

-----------------------------------------------------------------------------
(* The heap: going down *)

\* Is the element at k heavier than its lighter child?
Sinks(n, c, k) == 2 * k <= n /\ Less(c[LighterChild(c, k)], c[k])

\* One step of the recursion of SiftDown, with f for the rest of it.
DownBody(n, C, f, k) ==
    [c \in C |-> IF 2 * k <= n /\ Less(c[LighterChild(c, k)], c[k])
                 THEN f[LighterChild(c, k)][Swap(c, LighterChild(c, k), k)]
                 ELSE c]

\* LighterChild is a child, and not heavier than the other one.
LEMMA Lighter ==
    ASSUME NEW n \in Nat, NEW E, Timed(E), NEW c \in [1..n -> E], NEW k \in 1..n, 2 * k <= n
    PROVE  /\ LighterChild(c, k) \in 1..n /\ LighterChild(c, k) > k
           /\ LighterChild(c, k) \div 2 = k
           /\ \A j \in 1..n : j \div 2 = k => c[LighterChild(c, k)].when <= c[j].when
  <1>1. c \in Seq(E) /\ Len(c) = n
    OBVIOUS
  <1>2. \A j \in 1..n : c[j].when \in Int
    BY DEF Timed
  <1>3. \A j \in 1..n : j \div 2 = k => j = 2 * k \/ j = 2 * k + 1
    OBVIOUS
  <1>4. \/ LighterChild(c, k) = 2 * k /\ (2 * k + 1 > n \/ Less(c[2 * k], c[2 * k + 1]))
        \/ LighterChild(c, k) = 2 * k + 1 /\ 2 * k + 1 <= n /\ ~Less(c[2 * k], c[2 * k + 1])
    BY <1>1 DEF LighterChild
  <1> HIDE DEF LighterChild
  <1>5. CASE LighterChild(c, k) = 2 * k
    <2>1. 2 * k + 1 <= n => c[2 * k].when <= c[2 * k + 1].when
      BY <1>2, <1>4, <1>5 DEF Less
    <2> QED BY <1>2, <1>3, <1>5, <2>1
  <1>6. CASE LighterChild(c, k) = 2 * k + 1 /\ 2 * k + 1 <= n
    <2>1. c[2 * k + 1].when <= c[2 * k].when
      BY <1>2, <1>4, <1>6 DEF Less
    <2> DEFINE l == 2 * k + 1
    <2>2. l \in 1..n /\ l > k /\ l \div 2 = k
      BY <1>6
    <2>3. ASSUME NEW j \in 1..n, j \div 2 = k PROVE c[l].when <= c[j].when
      <3>1. c[l].when \in Int /\ (j = 2 * k \/ j = l)
        BY <2>3, <1>2, <1>3, <1>6
      <3> QED BY <2>1, <3>1
    <2> QED BY <2>2, <2>3, <1>6
  <1> QED BY <1>4, <1>5, <1>6

\* The recursion of SiftDown defines a function: it goes from k to a child.
LEMMA DownExists ==
    ASSUME NEW n \in Nat, NEW E, Timed(E), NEW C, C \subseteq [1..n -> E]
    PROVE  \E f : f = [k \in 1..n |-> DownBody(n, C, f, k)]
  <1> DEFINE P(m) == \E f : f = [k \in m..n |-> DownBody(n, C, f, k)]
             S == {m \in Nat : P(m)}
  <1>1. P(n + 1)
    <2> DEFINE f == [k \in {} |-> 0]
    <2>1. f = [k \in (n + 1)..n |-> DownBody(n, C, f, k)]
      BY SMT
    <2> HIDE DEF f
    <2> QED BY <2>1
  <1>2. ASSUME NEW m \in 1..n, \A j \in (m+1)..n : j \in S
        PROVE  m \in S
    <2>1. P(m + 1)
      <3>1. CASE m = n
        BY <1>1, <3>1
      <3>2. CASE m # n
        <4>1. m + 1 \in S
          BY <1>2, <3>2
        <4> QED BY <4>1
      <3> QED BY <3>1, <3>2
    <2>2. PICK f : f = [k \in (m+1)..n |-> DownBody(n, C, f, k)]
      BY <2>1
    <2> DEFINE g == [k \in m..n |-> IF k > m THEN f[k] ELSE DownBody(n, C, f, m)]
    <2>3. \A k \in m..n : DownBody(n, C, g, k) = DownBody(n, C, f, k)
      <3> TAKE k \in m..n
      <3>1. ASSUME NEW c \in C, 2 * k <= n PROVE g[LighterChild(c, k)] = f[LighterChild(c, k)]
        <4>1. k \in 1..n /\ c \in [1..n -> E]
          OBVIOUS
        <4>2. LighterChild(c, k) \in 1..n /\ LighterChild(c, k) > k
          BY <3>1, <4>1, Lighter
        <4> QED BY <4>2
      <3> HIDE DEF g
      <3> QED BY <3>1 DEF DownBody
    <2>4. \A k \in m..n : g[k] = DownBody(n, C, f, k)
      <3> TAKE k \in m..n
      <3>1. CASE k > m
        <4>1. k \in (m+1)..n
          BY <3>1
        <4>2. f[k] = DownBody(n, C, f, k)
          <5> HIDE DEF P, S
          <5> QED BY <4>1, <2>2
        <4> QED BY <4>2, <3>1
      <3>2. CASE ~(k > m)
        <4>1. k = m
          BY <3>2
        <4> QED BY <4>1
      <3> QED BY <3>1, <3>2
    <2>5. g = [k \in m..n |-> g[k]]
      OBVIOUS
    <2>6. g = [k \in m..n |-> DownBody(n, C, g, k)]
      <3> HIDE DEF g
      <3> QED BY <2>3, <2>4, <2>5, Zenon
    <2> HIDE DEF g
    <2> QED BY <2>6
  <1> HIDE DEF S
  <1>3. \A m \in 1..n : m \in S
    BY <1>2, DownFrom
  <1>4. CASE n = 0
    BY <1>1, <1>4
  <1>5. CASE n # 0
    <2>1. 1 \in S
      BY <1>3, <1>5
    <2> QED BY <2>1 DEF S
  <1> QED BY <1>4, <1>5

\* The rule of SiftDown as of a loop; see SiftUpRun.
LEMMA SiftDownRun ==
    ASSUME NEW E, Timed(E), NEW tree \in Seq(E), NEW i \in DOMAIN tree, NEW I,
           tree \in I[i],
           \A k \in DOMAIN tree : \A c \in Cells(tree) :
               c \in I[k] /\ Sinks(Len(tree), c, k)
                   => Swap(c, LighterChild(c, k), k) \in I[LighterChild(c, k)]
    PROVE  /\ SiftDown(tree, i) \in Cells(tree)
           /\ \E k \in DOMAIN tree : SiftDown(tree, i) \in I[k] /\ ~Sinks(Len(tree), SiftDown(tree, i), k)
  <1> DEFINE n == Len(tree)
             C == Cells(tree)
             U == CHOOSE f : f = [k \in DOMAIN tree |-> DownBody(n, C, f, k)]
             Ends(k, c) == U[k][c] \in C /\ \E l \in 1..n : U[k][c] \in I[l] /\ ~Sinks(n, U[k][c], l)
             S == {k \in 1..n : \A c \in C : c \in I[k] => Ends(k, c)}
  <1>1. n \in Nat /\ DOMAIN tree = 1..n /\ tree \in C /\ C \subseteq [1..n -> E]
    BY DEF Cells
  <1>2. SiftDown(tree, i) = U[i][tree]
    BY DEF SiftDown, DownBody
  <1>3. U = [k \in DOMAIN tree |-> DownBody(n, C, U, k)]
    <2>1. \E f : f = [k \in DOMAIN tree |-> DownBody(n, C, f, k)]
      <3>1. C \subseteq [1..n -> E] /\ n \in Nat
        BY <1>1
      <3> HIDE DEF C, n
      <3>2. \E f : f = [k \in 1..n |-> DownBody(n, C, f, k)]
        BY <3>1, DownExists
      <3> QED BY <3>2, <1>1
    <2> HIDE DEF C, n
    <2> QED BY <2>1
  <1> HIDE DEF U
  <1>4. ASSUME NEW k \in 1..n, \A j \in (k+1)..n : j \in S
        PROVE  k \in S
    <2> SUFFICES ASSUME NEW c \in C, c \in I[k] PROVE Ends(k, c)
      OBVIOUS
    <2>1. U[k] = DownBody(n, C, U, k)
      BY <1>1, <1>3
    <2>2. CASE Sinks(n, c, k)
      <3> DEFINE j == LighterChild(c, k)
      <3>1. j \in 1..n /\ j > k
        <4>1. c \in [1..n -> E] /\ 2 * k <= n
          BY <2>2, <1>1 DEF Sinks
        <4> HIDE DEF n
        <4> QED BY <4>1, <1>1, Lighter
      <3>2. Swap(c, j, k) \in C
        <4>1. C = [1..n -> {tree[l] : l \in DOMAIN tree}]
          BY <1>1 DEF Cells
        <4> HIDE DEF C, n, j
        <4> QED BY <3>1, <4>1, Swapped
      <3>3. U[k][c] = U[j][Swap(c, j, k)]
        BY <2>1, <2>2 DEF DownBody, Sinks
      <3>4. Swap(c, j, k) \in I[j]
        BY <2>2, <1>1
      <3>5. j \in S
        BY <1>4, <3>1
      <3> HIDE DEF j, C
      <3> QED BY <3>2, <3>3, <3>4, <3>5
    <2>3. CASE ~Sinks(n, c, k)
      <3>1. U[k][c] = c
        BY <2>1, <2>3 DEF DownBody, Sinks
      <3> QED BY <3>1, <2>3
    <2> QED BY <2>2, <2>3
  <1> HIDE DEF S
  <1>5. \A k \in 1..n : k \in S
    BY <1>1, <1>4, DownFrom
  <1>6. i \in S /\ tree \in C
    BY <1>1, <1>5
  <1>7. Ends(i, tree)
    BY <1>6 DEF S
  <1> QED BY <1>1, <1>2, <1>7

\* Only the element x at k may be heavier than those below it, the last cell
\* left out: it is the stale slot, which has x too.
DownInv(c, n, k, x) ==
    /\ k \in 1..(n-1) /\ c[k] = x /\ c[n] = x
    /\ \A j \in 2..(n-1) : j \div 2 # k => c[j \div 2].when <= c[j].when
    /\ \A j \in 2..(n-1) : k > 1 /\ j \div 2 = k => c[k \div 2].when <= c[j].when

\* This is kept when the element at k is swapped with its lighter child,
\* which is never the stale slot: nothing sinks below what weighs the same.
LEMMA SinkKeeps ==
    ASSUME NEW n \in Nat, NEW E, Timed(E), NEW c \in [1..n -> E], NEW k, NEW x,
           DownInv(c, n, k, x), Sinks(n, c, k)
    PROVE  /\ LighterChild(c, k) \in 1..(n-1)
           /\ DownInv(Swap(c, LighterChild(c, k), k), n, LighterChild(c, k), x)
  <1> DEFINE l == LighterChild(c, k)
             s == Swap(c, l, k)
  <1>0. /\ k \in 1..(n-1) /\ k \in 1..n /\ n \in 1..n /\ c[k] = x /\ c[n] = x
        /\ \A j \in 2..(n-1) : j \div 2 # k => c[j \div 2].when <= c[j].when
        /\ \A j \in 2..(n-1) : k > 1 /\ j \div 2 = k => c[k \div 2].when <= c[j].when
    BY DEF DownInv
  <1>1. 2 * k <= n /\ Less(c[l], c[k])
    BY DEF Sinks
  <1>2. /\ l \in 1..n /\ l > k /\ l \div 2 = k
        /\ \A j \in 1..n : j \div 2 = k => c[l].when <= c[j].when
    BY <1>0, <1>1, Lighter
  <1> HIDE DEF l
  <1>3. \A j \in 1..n : c[j].when \in Int
    BY DEF Timed
  <1>4. c[l].when < x.when /\ l \in 1..(n-1) /\ l \in 2..(n-1)
    <2>1. c[l].when < c[k].when /\ c[n].when = c[k].when
      BY <1>0, <1>1 DEF Less
    <2>2. l # n
      BY <2>1, <1>2, <1>3, <1>0
    <2> QED BY <2>1, <2>2, <1>0, <1>2
  <1>5. /\ s \in [1..n -> E]
        /\ s[l] = x /\ s[k] = c[l] /\ s[n] = x
        /\ \A j \in 1..n : j # l /\ j # k => s[j] = c[j]
    BY <1>0, <1>2, <1>4 DEF Swap
  <1> HIDE DEF s
  <1>6. ASSUME NEW j \in 2..(n-1), j \div 2 # l PROVE s[j \div 2].when <= s[j].when
    <2>1. j \div 2 \in 1..n /\ j \in 1..n
      OBVIOUS
    <2>2. CASE j = l
      BY <2>2, <1>0, <1>2, <1>3, <1>4, <1>5
    <2>3. CASE j # l /\ j \div 2 = k
      <3>1. s[j] = c[j] /\ s[j \div 2] = c[l]
        BY <2>3, <2>1, <1>0, <1>5
      <3> QED BY <3>1, <2>1, <2>3, <1>2
    <2>4. CASE j = k
      <3>1. s[j \div 2] = c[k \div 2] /\ s[j] = c[l]
        BY <2>1, <2>4, <1>0, <1>5, <1>6
      <3> QED BY <3>1, <2>4, <1>0, <1>2, <1>4
    <2>5. CASE j # l /\ j # k /\ j \div 2 # k
      BY <2>1, <2>5, <1>0, <1>5, <1>6
    <2> QED BY <2>2, <2>3, <2>4, <2>5
  <1>7. ASSUME NEW j \in 2..(n-1), j \div 2 = l PROVE s[l \div 2].when <= s[j].when
    <2>1. j \in 1..n /\ j # l /\ j # k /\ j \div 2 # k
      BY <1>2, <1>7, <1>0
    <2>2. s[j] = c[j] /\ s[l \div 2] = c[l] /\ c[l].when <= c[j].when
      BY <2>1, <1>0, <1>2, <1>5, <1>7
    <2> QED BY <2>2
  <1>8. DownInv(s, n, l, x)
    BY <1>4, <1>5, <1>6, <1>7 DEF DownInv
  <1> QED BY <1>4, <1>8 DEF l, s

\* The cells without those behind m.
Upto(c, m) == [j \in 1..m |-> c[j]]

\* pop() keeps the heap ordered and takes the front and nothing else,
\* although it sifts in an array with a stale slot behind its end
\* (PriorityQueue.hpp).
THEOREM PopHeap ==
    ASSUME NEW E, Timed(E), NEW tree \in Seq(E), tree # <<>>, Ordered(tree)
    PROVE  /\ Pop(tree) \in Seq(E)
           /\ Ordered(Pop(tree))
           /\ Elements(Pop(tree)) \subseteq Elements(tree)
           /\ Distinct(tree) => /\ Distinct(Pop(tree))
                                /\ Elements(Pop(tree)) = Elements(tree) \ {tree[1]}
  <1> DEFINE n == Len(tree)
             x == tree[n]
             h == [tree EXCEPT ![1] = x]
             I == [k \in DOMAIN h |-> {c \in Cells(h) :
                      /\ DownInv(c, n, k, x)
                      /\ Elements(Upto(c, n-1)) = Elements(Upto(h, n-1))
                      /\ Distinct(Upto(h, n-1)) => Distinct(Upto(c, n-1))}]
             s == SiftDown(h, 1)
             p == Pop(tree)
  <1>1. /\ n \in Nat /\ n > 0 /\ DOMAIN tree = 1..n /\ tree \in [1..n -> E] /\ x \in E
        /\ h \in [1..n -> E] /\ h \in Seq(E) /\ Len(h) = n /\ DOMAIN h = 1..n /\ 1 \in DOMAIN h
        /\ h[1] = x /\ \A j \in 2..n : h[j] = tree[j]
    OBVIOUS
  <1>2. p = SubSeq(s, 1, n - 1)
    BY DEF Pop
  <1>3. /\ Elements(Upto(h, n-1)) \subseteq Elements(tree)
        /\ Distinct(tree) => /\ Distinct(Upto(h, n-1))
                             /\ Elements(Upto(h, n-1)) = Elements(tree) \ {tree[1]}
    <2> HIDE DEF n, x, h
    <2>1. /\ DOMAIN Upto(h, n-1) = 1..(n-1)
          /\ \A j \in 1..(n-1) : Upto(h, n-1)[j] = IF j = 1 THEN x ELSE tree[j]
      BY <1>1 DEF Upto
    <2>2. Elements(Upto(h, n-1)) \subseteq Elements(tree)
      BY <1>1, <2>1 DEF Elements, x
    <2>3. ASSUME Distinct(tree) PROVE Distinct(Upto(h, n-1))
      BY <1>1, <2>1, <2>3 DEF Distinct, x
    <2>4. ASSUME Distinct(tree), NEW e \in Elements(Upto(h, n-1)) PROVE e # tree[1]
      <3>1. PICK j \in 1..(n-1) : e = Upto(h, n-1)[j]
        BY <2>1, <2>4 DEF Elements
      <3> QED BY <1>1, <2>1, <2>4, <3>1 DEF Distinct, x
    <2>5. ASSUME NEW e \in Elements(tree), e # tree[1] PROVE e \in Elements(Upto(h, n-1))
      <3>1. PICK j \in 2..n : e = tree[j]
        BY <1>1, <2>5 DEF Elements
      <3>2. CASE j = n
        <4>1. 1 \in 1..(n-1) /\ Upto(h, n-1)[1] = e
          BY <1>1, <2>1, <3>1, <3>2 DEF x
        <4> QED BY <2>1, <4>1 DEF Elements
      <3>3. CASE j # n
        <4>1. j \in 1..(n-1) /\ Upto(h, n-1)[j] = e
          BY <1>1, <2>1, <3>1, <3>3
        <4> QED BY <2>1, <4>1 DEF Elements
      <3> QED BY <3>2, <3>3
    <2> QED BY <2>2, <2>3, <2>4, <2>5
  <1>4. CASE n = 1
    <2> HIDE DEF s
    <2>1. p = <<>>
      BY <1>2, <1>4
    <2>2. Upto(h, n-1) = <<>>
      BY <1>4 DEF Upto
    <2> HIDE DEF h, n, x, p
    <2>3. Ordered(<<>>)
      BY DEF Ordered
    <2> QED BY <1>3, <2>1, <2>2, <2>3 DEF p
  <1>5. CASE n > 1
    <2>1. h \in Cells(h) /\ Cells(h) = [1..n -> Elements(h)] /\ Elements(h) \subseteq E
      <3> HIDE DEF h, n, x
      <3> QED BY <1>1 DEF Cells, Elements
    <2>2. DownInv(h, n, 1, x)
      <3> HIDE DEF h, n
      <3>1. ASSUME NEW j \in 2..(n-1), j \div 2 # 1 PROVE h[j \div 2].when <= h[j].when
        <4>1. j \in 2..n /\ j \div 2 \in 2..n
          BY <3>1, <1>1
        <4> QED BY <4>1, <1>1 DEF Ordered
      <3> QED BY <1>1, <1>5, <3>1 DEF DownInv, n
    <2> HIDE DEF h, n, x
    <2>3. h \in I[1]
      BY <1>1, <2>1, <2>2
    <2>4. ASSUME NEW k \in DOMAIN h, NEW c \in Cells(h), c \in I[k], Sinks(Len(h), c, k)
          PROVE  Swap(c, LighterChild(c, k), k) \in I[LighterChild(c, k)]
      <3>1. /\ DownInv(c, n, k, x)
            /\ Elements(Upto(c, n-1)) = Elements(Upto(h, n-1))
            /\ Distinct(Upto(h, n-1)) => Distinct(Upto(c, n-1))
        BY <2>4
      <3>2. c \in [1..n -> E] /\ c \in [1..n -> Elements(h)] /\ k \in 1..n /\ Sinks(n, c, k)
        BY <1>1, <2>1, <2>4
      <3> DEFINE l == LighterChild(c, k)
                 d == Swap(c, l, k)
      <3>3. l \in 1..(n-1) /\ DownInv(d, n, l, x)
        BY <3>1, <3>2, <1>1, SinkKeeps
      <3> HIDE DEF l
      <3>4. k \in 1..(n-1) /\ l \in 1..n
        BY <3>1, <3>3, <1>1 DEF DownInv
      <3>5. Upto(c, n-1) \in [1..(n-1) -> E]
        BY <3>2, <1>1 DEF Upto
      <3> DEFINE u == Upto(c, n-1)
      <3>6. /\ Swap(u, l, k) \in [1..(n-1) -> E] /\ Upto(d, n-1) = Swap(u, l, k)
        <4>1. /\ d \in [1..n -> E]
              /\ \A j \in 1..n : d[j] = IF j = k THEN c[l] ELSE IF j = l THEN c[k] ELSE c[j]
          BY <3>2, <3>4 DEF Swap
        <4>2. u[l] = c[l] /\ u[k] = c[k] /\ \A j \in 1..(n-1) : u[j] = c[j]
          BY <3>3, <3>4 DEF Upto
        <4> HIDE DEF u, d
        <4>3. /\ Swap(u, l, k) \in [1..(n-1) -> E]
              /\ \A j \in 1..(n-1) :
                     Swap(u, l, k)[j] = IF j = k THEN u[l] ELSE IF j = l THEN u[k] ELSE u[j]
          BY <3>3, <3>4, <3>5 DEF Swap, u
        <4>4. \A j \in 1..(n-1) : Swap(u, l, k)[j] = d[j]
          BY <4>1, <4>2, <4>3, <1>1
        <4> QED BY <4>3, <4>4 DEF Upto
      <3>7. d \in Cells(h)
        BY <3>2, <3>4, <2>1, Swapped
      <3> HIDE DEF d
      <3>8. /\ Elements(Upto(d, n-1)) = Elements(Upto(c, n-1))
            /\ Distinct(Upto(c, n-1)) => Distinct(Upto(d, n-1))
        <4> HIDE DEF u
        <4>1. u \in [1..(n-1) -> E] /\ Upto(c, n-1) = u
          BY <3>5 DEF u
        <4>2. /\ Elements(Swap(u, l, k)) = Elements(u)
              /\ Distinct(u) => Distinct(Swap(u, l, k))
          <5> DEFINE D == 1..(n-1)
          <5>1. u \in [D -> E] /\ l \in D /\ k \in D
            BY <3>3, <3>4, <4>1
          <5> HIDE DEF D
          <5> QED BY <5>1, SwapKeeps
        <4> QED BY <3>6, <4>1, <4>2
      <3>9. d \in I[l]
        BY <3>1, <3>3, <3>4, <3>7, <3>8, <1>1
      <3> QED BY <3>9 DEF d, l
    <2> HIDE DEF I, s
    <2>5. s \in Cells(h) /\ \E k \in DOMAIN h : s \in I[k] /\ ~Sinks(Len(h), s, k)
      BY <1>1, <2>3, <2>4, SiftDownRun DEF s
    <2>6. PICK k \in DOMAIN h : s \in I[k] /\ ~Sinks(Len(h), s, k)
      BY <2>5
    <2>7. /\ DownInv(s, n, k, x)
          /\ Elements(Upto(s, n-1)) = Elements(Upto(h, n-1))
          /\ Distinct(Upto(h, n-1)) => Distinct(Upto(s, n-1))
      BY <2>6 DEF I
    <2>8. s \in [1..n -> E] /\ k \in 1..n /\ ~Sinks(n, s, k)
      BY <2>1, <2>5, <2>6, <1>1
    <2>9. s \in Seq(E) /\ Len(s) = n
      BY <2>8, <1>1
    <2>10. p = Upto(s, n-1)
      <3> HIDE DEF p
      <3> QED BY <1>1, <1>2, <1>5, <2>9 DEF Upto
    <2>11. p \in [1..(n-1) -> E] /\ p \in Seq(E) /\ DOMAIN p = 1..(n-1)
      <3> HIDE DEF p
      <3> QED BY <2>8, <2>10, <1>1 DEF Upto
    <2>12. Ordered(p)
      <3> HIDE DEF p
      <3> SUFFICES ASSUME NEW j \in 2..(n-1) PROVE p[j \div 2].when <= p[j].when
        BY <2>11 DEF Ordered
      <3>1. j \in 1..n /\ j \div 2 \in 1..(n-1) /\ p[j \div 2] = s[j \div 2] /\ p[j] = s[j]
        BY <2>10, <1>1 DEF Upto
      <3>2. CASE j \div 2 # k
        BY <3>1, <3>2, <2>7 DEF DownInv
      <3>3. CASE j \div 2 = k
        <4> DEFINE l == LighterChild(s, k)
        <4>1. 2 * k <= n
          BY <3>3, <3>1, <1>1
        <4>2. l \in 1..n /\ s[l].when <= s[j].when
          BY <4>1, <3>1, <3>3, <2>8, <1>1, Lighter
        <4>3. ~(s[l].when < s[k].when)
          BY <4>1, <2>8 DEF Sinks, Less
        <4> HIDE DEF l
        <4>4. \A i \in 1..n : s[i].when \in Int
          BY <2>8 DEF Timed
        <4>5. s[k].when <= s[j].when
          BY <4>2, <4>3, <4>4, <2>8, <3>1
        <4> QED BY <4>5, <3>1, <3>3
      <3> QED BY <3>2, <3>3
    <2> HIDE DEF p
    <2> QED BY <1>3, <2>7, <2>10, <2>11, <2>12 DEF p
  <1> QED BY <1>1, <1>4, <1>5

\* In an ordered heap the front is the least, of equal deadlines one of them.
THEOREM RootIsLeast ==
    ASSUME NEW E, Timed(E), NEW tree \in Seq(E), Ordered(tree)
    PROVE  \A i \in DOMAIN tree : tree[1].when <= tree[i].when
  <1> DEFINE n == Len(tree)
             S == {i \in 1..n : tree[1].when <= tree[i].when}
  <1>1. n \in Nat /\ DOMAIN tree = 1..n /\ \A i \in 1..n : tree[i].when \in Int
    BY DEF Timed
  <1>2. ASSUME NEW k \in 1..n, \A j \in 1..(k-1) : j \in S
        PROVE  k \in S
    <2>1. CASE k = 1
      BY <2>1, <1>1
    <2>2. CASE k > 1
      <3>1. k \div 2 \in S /\ k \div 2 \in 1..n
        BY <1>2, <2>2, <1>1
      <3>2. tree[k \div 2].when <= tree[k].when
        BY <2>2, <1>1 DEF Ordered
      <3> QED BY <3>1, <3>2, <1>1
    <2> QED BY <2>1, <2>2, <1>1
  <1> HIDE DEF S
  <1>3. \A k \in 1..n : k \in S
    BY <1>1, <1>2, UpTo
  <1> QED BY <1>1, <1>3 DEF S

-----------------------------------------------------------------------------
(* The types *)

\* What the variables hold. Ordered(heap) is part of it: it needs no other
\* fact.
Jobs == [to_run : {"poll", "probe"}, when : Nat]
Requests == {Continue, Exit} \cup [typ : {"SCHEDULE"}, entry : Jobs]
Commands == [op : {"subscribe", "unsubscribe"}, sock : {"dns", "stream"}]
            \cup [op : {"exit"}, sock : {"none"}]
Halves == [rates : Seq(Rates), latencies : Seq({"measured", "lost"})]
Places == {"connect", "threw", "polls", "probes", "subscribe", "load", "collect", "harvest",
           "clearProbes", "clearBytes", "clearRates", "rest", "stopOnEmpty", "continue",
           "stopFc", "stopScheduler", "join", "reported"}

\* The types by the threads that write the variables.
SchedTypes ==
    /\ now \in Nat
    /\ requests \in Seq(Requests)
    /\ heap \in Seq(Jobs) /\ Ordered(heap)
    /\ empty_stop \in BOOLEAN
    /\ sched \in {"loop", "wait", "done", "threw"}

RunTypes ==
    /\ pc \in Places
    /\ alarm \in Nat /\ poll_time \in Nat /\ upload \in BOOLEAN
    /\ results \in Seq(Halves)

FcTypes ==
    /\ bytes \in Counts /\ last_bytes \in Counts /\ rates \in Seq(Rates)
    /\ commands \in Seq(Commands)
    /\ fc \in {"idle", "adding", "done", "threw"} /\ sum \in Counts
    /\ subscribed \subseteq {"dns", "stream"}

ProbeTypes ==
    /\ current_id \in Nat
    /\ DOMAIN sent_times = 0..(current_id - 1)
    /\ \A id \in DOMAIN sent_times : sent_times[id] \in Nat
    /\ DOMAIN latency \subseteq Nat
    /\ in_flight \subseteq [id : Nat, sent : Nat]

Types == SchedTypes /\ RunTypes /\ FcTypes /\ ProbeTypes

\* An element that is appended keeps the type of a queue, and so does the
\* removal of the first one, which has it.
LEMMA QueueTypes ==
    ASSUME NEW S, NEW q \in Seq(S)
    PROVE  /\ \A x \in S : Append(q, x) \in Seq(S)
           /\ q # <<>> => Head(q) \in S /\ Tail(q) \in Seq(S)
  OBVIOUS

\* The heap of the scheduler holds what the lemmas about heaps ask for.
LEMMA JobsTimed == Timed(Jobs)
  BY DEF Timed, Jobs

\* What Put does.
LEMMA PutFacts ==
    ASSUME NEW f, NEW x, NEW v
    PROVE  /\ DOMAIN Put(f, x, v) = DOMAIN f \cup {x}
           /\ Put(f, x, v)[x] = v
           /\ \A d \in DOMAIN f : d # x => Put(f, x, v)[d] = f[d]
  BY DEF Put

\* Each part of a count can be raised while their sum is below the bound.
LEMMA RaisedCount ==
    ASSUME NEW N \in Nat, NEW r \in 0..N, NEW w \in 0..N, NEW f \in 0..N, r + w + f < N
    PROVE  r + 1 \in 0..N /\ w + 1 \in 0..N /\ f + 1 \in 0..N
  OBVIOUS

\* The scheduler: its types, and the order of its heap, are kept.
LEMMA SchedTypesStep ==
    ASSUME Types, Next
    PROVE  SchedTypes'
  <1> USE ThroughputAssumption DEF schedulerVars
  <1>0. /\ now \in Nat /\ requests \in Seq(Requests) /\ heap \in Seq(Jobs) /\ Ordered(heap)
        /\ empty_stop \in BOOLEAN /\ sched \in {"loop", "wait", "done", "threw"}
    BY DEF Types, SchedTypes
  <1>1. CASE RunThread
    <2>1. now' = now /\ heap' = heap /\ sched' = sched
      BY <1>1 DEF RunThread, Connect, SchedulePoll, ScheduleProbe, Subscribe, LoadOver, Collect,
        Harvest, ClearProbes, ClearBytes, ClearRates, RestOver, StopOnEmpty, WakeScheduler, StopFc,
        StopScheduler, Report
    <2>2. empty_stop' \in BOOLEAN
      BY <1>0, <1>1 DEF RunThread, Connect, SchedulePoll, ScheduleProbe, Subscribe, LoadOver, Collect,
        Harvest, ClearProbes, ClearBytes, ClearRates, RestOver, StopOnEmpty, WakeScheduler, StopFc,
        StopScheduler, Report
    <2>3. UNCHANGED requests \/ \E r \in Requests : requests' = Append(requests, r)
      <3>1. poll_time \in Nat /\ Continue \in Requests /\ Exit \in Requests
        BY DEF Types, RunTypes, Requests
      <3>2. Schedule("poll", poll_time) \in Requests /\ Schedule("probe", poll_time) \in Requests
        BY <3>1 DEF Requests, Schedule, Entry, Jobs
      <3>3. CASE SchedulePoll \/ ScheduleProbe
        BY <3>2, <3>3 DEF SchedulePoll, ScheduleProbe, Request
      <3>4. CASE WakeScheduler \/ StopScheduler
        BY <3>1, <3>4 DEF WakeScheduler, StopScheduler, Request
      <3>5. CASE ~(SchedulePoll \/ ScheduleProbe \/ WakeScheduler \/ StopScheduler)
        BY <3>5, <1>1 DEF RunThread, Connect, Subscribe, LoadOver, Collect,
          Harvest, ClearProbes, ClearBytes, ClearRates, RestOver, StopOnEmpty, StopFc, Report
      <3> QED BY <3>3, <3>4, <3>5
    <2>4. requests' \in Seq(Requests)
      BY <1>0, <2>3, QueueTypes
    <2> QED BY <1>0, <2>1, <2>2, <2>4 DEF SchedTypes
  <1>2. CASE SchedulerLoop
    <2>1. CASE LoopTest
      BY <1>0, <1>2, <2>1 DEF SchedulerLoop, LoopTest, SchedTypes
    <2>2. CASE TakeRequest
      <3> DEFINE req == Head(requests)
      <3>1. req \in Requests /\ requests' \in Seq(Requests) /\ now' = now /\ empty_stop' = empty_stop
        BY <1>0, <1>2, <2>2, QueueTypes DEF SchedulerLoop, TakeRequest
      <3>2. Handle(req)
        BY <2>2 DEF TakeRequest
      <3> HIDE DEF req
      <3>3. sched' \in {"done", "loop"}
        BY <3>2 DEF Handle
      <3>4. CASE req.typ = "SCHEDULE"
        <4>1. req.entry \in Jobs
          BY <3>1, <3>4 DEF Requests, Continue, Exit
        <4> DEFINE e == Entry(req.entry.to_run, now + req.entry.when)
        <4>2. e \in Jobs /\ heap' = Push(heap, e)
          BY <1>0, <3>2, <3>4, <4>1 DEF Handle, Jobs, Entry
        <4> HIDE DEF e
        <4>3. Push(heap, e) \in Seq(Jobs) /\ Ordered(Push(heap, e))
          BY <1>0, <4>2, JobsTimed, PushHeap
        <4> QED BY <1>0, <3>1, <3>3, <4>2, <4>3 DEF SchedTypes
      <3>5. CASE req.typ # "SCHEDULE"
        BY <1>0, <3>1, <3>2, <3>3, <3>5 DEF Handle, SchedTypes
      <3> QED BY <1>0, <3>4, <3>5
    <2> QED BY <1>2, <2>1, <2>2 DEF SchedulerLoop
  <1>3. CASE Poll \/ Probe
    <2>1. /\ heap # <<>> /\ heap' = Pop(heap) /\ sched' = "loop"
          /\ UNCHANGED <<now, requests, empty_stop>>
      BY <1>3 DEF Poll, Probe, Due, JobDone
    <2>2. Pop(heap) \in Seq(Jobs) /\ Ordered(Pop(heap))
      BY <1>0, <2>1, JobsTimed, PopHeap
    <2> QED BY <1>0, <2>1, <2>2 DEF SchedTypes
  <1>4. CASE ProbeThrows
    BY <1>0, <1>4 DEF ProbeThrows, SchedTypes
  <1>5. CASE FcThread \/ Transfer \/ WriteThrows \/ \E p \in in_flight : Answer(p)
    BY <1>0, <1>5 DEF FcThread, FcCommand, CountBytes, Transfer, WriteThrows, Answer, SchedTypes
  <1>6. CASE Tick
    BY <1>0, <1>6 DEF Tick, SchedTypes
  <1> QED
    BY <1>1, <1>2, <1>3, <1>4, <1>5, <1>6 DEF Next, SchedulerThread

\* The variables of run() ...
LEMMA RunTypesStep ==
    ASSUME Types, Next
    PROVE  RunTypes'
  <1> USE ThroughputAssumption DEF schedulerVars, runVars, Go, SleepOver, Sleep
  <1>0. /\ now \in Nat /\ pc \in Places /\ alarm \in Nat /\ poll_time \in Nat /\ upload \in BOOLEAN
        /\ results \in Seq(Halves)
        /\ PollEvery \in Nat /\ ProbeEvery \in Nat /\ Load \in Nat /\ Pause \in Nat
    BY DEF Types, SchedTypes, RunTypes
  <1>1. CASE Connect
    BY <1>0, <1>1 DEF Connect, RunTypes, Places
  <1>2. CASE SchedulePoll \/ ScheduleProbe
    <2>1. poll_time' \in Nat
      BY <1>0, <1>2 DEF SchedulePoll, ScheduleProbe
    <2>2. pc' \in Places /\ UNCHANGED <<alarm, upload, results>>
      BY <1>0, <1>2 DEF SchedulePoll, ScheduleProbe, Places
    <2> QED BY <1>0, <2>1, <2>2 DEF RunTypes
  <1>3. CASE Subscribe \/ LoadOver \/ ClearProbes \/ ClearBytes \/ ClearRates \/ RestOver
    <2>1. CASE Subscribe
      BY <1>0, <2>1 DEF Subscribe, RunTypes, Places
    <2>2. CASE LoadOver \/ ClearProbes \/ ClearBytes
      BY <1>0, <2>2 DEF LoadOver, ClearProbes, ClearBytes, RunTypes, Places
    <2>3. CASE ClearRates
      BY <1>0, <2>3 DEF ClearRates, RunTypes, Places
    <2>4. CASE RestOver
      BY <1>0, <2>4 DEF RestOver, RunTypes, Places
    <2> QED BY <1>3, <2>1, <2>2, <2>3, <2>4
  <1>4. CASE Collect
    <2>1. [rates |-> rates, latencies |-> <<>>] \in Halves
      BY DEF Halves, Types, FcTypes
    <2>2. results' \in Seq(Halves)
      BY <1>0, <1>4, <2>1, QueueTypes DEF Collect
    <2> QED BY <1>0, <1>4, <2>2 DEF Collect, RunTypes, Places
  <1>5. CASE Harvest
    <2> DEFINE l == [i \in 1..current_id |-> IF i - 1 \in DOMAIN latency THEN "measured" ELSE "lost"]
    <2>1. l \in Seq({"measured", "lost"})
      BY DEF Types, ProbeTypes
    <2>2. results' = [results EXCEPT ![Len(results)].latencies = l]
      BY <1>5 DEF Harvest
    <2> HIDE DEF l
    <2>3. results' \in Seq(Halves)
      <3>1. \A i \in 1..Len(results) : results[i] \in Halves
        BY <1>0
      <3>2. \A i \in 1..Len(results) : [results[i] EXCEPT !.latencies = l] \in Halves
        BY <2>1, <3>1 DEF Halves
      <3>3. /\ DOMAIN results' = 1..Len(results)
            /\ \A i \in 1..Len(results) : results'[i] =
                  IF i = Len(results) THEN [results[i] EXCEPT !.latencies = l] ELSE results[i]
        BY <1>0, <2>2
      <3>4. results' = [i \in DOMAIN results |-> results'[i]]
        BY <2>2, Zenon
      <3>5. \A i \in 1..Len(results) : results'[i] \in Halves
        BY <3>1, <3>2, <3>3
      <3>6. results' \in [1..Len(results) -> Halves]
        BY <1>0, <3>4, <3>5
      <3> QED BY <1>0, <3>6
    <2> QED BY <1>0, <1>5, <2>3 DEF Harvest, RunTypes, Places
  <1>6. CASE StopOnEmpty \/ WakeScheduler \/ StopFc \/ StopScheduler \/ Report
    BY <1>0, <1>6 DEF StopOnEmpty, WakeScheduler, StopFc, StopScheduler, Report, RunTypes, Places
  <1>7. CASE ~RunThread
    BY <1>0, <1>7
    DEF Next, RunThread, SchedulerThread, SchedulerLoop, Poll, Probe, ProbeThrows, FcThread, FcCommand,
        CountBytes, Transfer, WriteThrows, Answer, Tick, RunTypes
  <1> QED BY <1>1, <1>2, <1>3, <1>4, <1>5, <1>6, <1>7 DEF RunThread

\* ... those of the counters and of the file collection ...
LEMMA FcTypesStep ==
    ASSUME Types, Next
    PROVE  FcTypes'
  <1> USE ThroughputAssumption DEF countVars, fcVars, Counts
  <1>0. /\ bytes \in Counts /\ last_bytes \in Counts /\ rates \in Seq(Rates)
        /\ commands \in Seq(Commands)
        /\ fc \in {"idle", "adding", "done", "threw"} /\ sum \in Counts
        /\ subscribed \subseteq {"dns", "stream"} /\ MaxBytes \in Nat
    BY DEF Types, FcTypes
  <1>1. None \in Counts
    BY <1>0 DEF None
  <1>2. CASE RunThread
    <2>1. UNCHANGED <<fc, sum, subscribed>>
      BY <1>2 DEF RunThread, Connect, SchedulePoll, ScheduleProbe, Subscribe, LoadOver, Collect,
        Harvest, ClearProbes, ClearBytes, ClearRates, RestOver, StopOnEmpty, WakeScheduler, StopFc,
        StopScheduler, Report
    <2>2. (bytes' = bytes \/ bytes' = None) /\ (last_bytes' = last_bytes \/ last_bytes' = None)
          /\ (rates' = rates \/ rates' = <<>>)
      BY <1>2 DEF RunThread, Connect, SchedulePoll, ScheduleProbe, Subscribe, LoadOver, Collect,
        Harvest, ClearProbes, ClearBytes, ClearRates, RestOver, StopOnEmpty, WakeScheduler, StopFc,
        StopScheduler, Report
    <2>3. UNCHANGED commands \/ \E c \in Commands : commands' = Append(commands, c)
      BY <1>2 DEF RunThread, Connect, SchedulePoll, ScheduleProbe, Subscribe, LoadOver, Collect,
        Harvest, ClearProbes, ClearBytes, ClearRates, RestOver, StopOnEmpty, WakeScheduler, StopFc,
        StopScheduler, Report, Tell, Commands
    <2>4. commands' \in Seq(Commands)
      <3>1. commands \in Seq(Commands)
        BY <1>0
      <3> QED BY <2>3, <3>1, QueueTypes
    <2>5. <<>> \in Seq(Rates)
      OBVIOUS
    <2>6. bytes' \in Counts /\ last_bytes' \in Counts /\ rates' \in Seq(Rates)
      <3>1. bytes' \in Counts
        BY <1>0, <1>1, <2>2, Zenon
      <3>2. last_bytes' \in Counts
        BY <1>0, <1>1, <2>2, Zenon
      <3>3. rates' \in Seq(Rates)
        BY <1>0, <2>2, <2>5, Zenon
      <3> QED BY <3>1, <3>2, <3>3
    <2> QED BY <2>1, <2>4, <2>6, <1>0 DEF FcTypes
  <1>3. CASE Poll
    <2> DEFINE r == [moved  |-> Moved(bytes) - Moved(last_bytes),
                     failed |-> bytes.failed - last_bytes.failed]
    <2>1. r \in Rates
      BY <1>0 DEF Moved, Rates
    <2>2. rates' \in Seq(Rates)
      <3>1. rates' = Append(rates, r)
        BY <1>3 DEF Poll
      <3> HIDE DEF r
      <3> QED BY <1>0, <2>1, <3>1, QueueTypes
    <2> QED BY <1>0, <1>3, <2>1, <2>2 DEF Poll, FcTypes
  <1>4. CASE SchedulerLoop \/ Probe \/ ProbeThrows \/ Tick \/ \E p \in in_flight : Answer(p)
    BY <1>0, <1>4 DEF SchedulerLoop, Probe, ProbeThrows, Tick, Answer, FcTypes
  <1>5. CASE FcCommand
    <2>1. Head(commands) \in Commands /\ commands' \in Seq(Commands)
      BY <1>0, <1>5, QueueTypes DEF FcCommand
    <2>2. fc' \in {"idle", "done"} /\ subscribed' \subseteq {"dns", "stream"}
      <3> DEFINE cmd == Head(commands)
      <3>1. cmd.op \in {"subscribe", "unsubscribe", "exit"} /\ cmd.sock \in {"dns", "stream", "none"}
        BY <2>1 DEF Commands
      <3>2. fc = "idle"
        BY <1>5 DEF FcCommand
      <3>3. \/ fc' = fc /\ subscribed' = subscribed \cup {cmd.sock} /\ cmd.op = "subscribe"
            \/ fc' = fc /\ subscribed' = subscribed \ {cmd.sock}
            \/ fc' = "done" /\ subscribed' = subscribed
        BY <1>5, <3>1 DEF FcCommand
      <3>4. cmd.op = "subscribe" => cmd.sock \in {"dns", "stream"}
        BY <2>1 DEF Commands
      <3> HIDE DEF cmd
      <3> QED BY <1>0, <3>1, <3>2, <3>3, <3>4
    <2> QED BY <1>0, <1>5, <2>1, <2>2 DEF FcCommand, FcTypes
  <1>6. CASE Transfer
    <2>1. /\ bytes.read \in 0..MaxBytes /\ bytes.written \in 0..MaxBytes
          /\ bytes.failed \in 0..MaxBytes
          /\ bytes = [read |-> bytes.read, written |-> bytes.written, failed |-> bytes.failed]
          /\ bytes.read + bytes.written + bytes.failed < MaxBytes
      BY <1>0, <1>6 DEF Transfer, Moved
    <2>2. \E r, w, f \in 0..MaxBytes : sum' = [read |-> r, written |-> w, failed |-> f]
      <3>0. /\ bytes.read \in 0..MaxBytes /\ bytes.read + 1 \in 0..MaxBytes
            /\ bytes.written \in 0..MaxBytes /\ bytes.written + 1 \in 0..MaxBytes
            /\ bytes.failed \in 0..MaxBytes /\ bytes.failed + 1 \in 0..MaxBytes
        BY <1>0, <2>1, RaisedCount
      <3>1. CASE sum' = [bytes EXCEPT !.written = bytes.written + 1]
        <4>1. sum' = [read |-> bytes.read, written |-> bytes.written + 1, failed |-> bytes.failed]
          BY <2>1, <3>1
        <4> QED BY <3>0, <4>1, Zenon
      <3>2. CASE sum' = [bytes EXCEPT !.read = bytes.read + 1]
        <4>1. sum' = [read |-> bytes.read + 1, written |-> bytes.written, failed |-> bytes.failed]
          BY <2>1, <3>2
        <4> QED BY <3>0, <4>1, Zenon
      <3>3. CASE sum' = [bytes EXCEPT !.failed = bytes.failed + 1]
        <4>1. sum' = [read |-> bytes.read, written |-> bytes.written, failed |-> bytes.failed + 1]
          BY <2>1, <3>3
        <4> QED BY <3>0, <4>1, Zenon
      <3> QED BY <1>6, <3>1, <3>2, <3>3 DEF Transfer
    <2>3. sum' \in Counts
      BY <2>2
    <2> QED BY <1>0, <1>6, <2>3 DEF Transfer, FcTypes
  <1>8. CASE WriteThrows
    BY <1>0, <1>8 DEF WriteThrows, FcTypes
  <1>7. CASE CountBytes
    BY <1>0, <1>1, <1>7 DEF CountBytes, FcTypes
  <1> QED
    BY <1>2, <1>3, <1>4, <1>5, <1>6, <1>7, <1>8 DEF Next, SchedulerThread, FcThread

\* ... and those of the probes and their answers keep their types.
LEMMA ProbeTypesStep ==
    ASSUME Types, Next
    PROVE  ProbeTypes'
  <1> USE DEF probeVars
  <1>0. /\ now \in Nat /\ current_id \in Nat
        /\ DOMAIN sent_times = 0..(current_id - 1)
        /\ \A id \in DOMAIN sent_times : sent_times[id] \in Nat
        /\ DOMAIN latency \subseteq Nat
        /\ in_flight \subseteq [id : Nat, sent : Nat]
    BY DEF Types, SchedTypes, ProbeTypes
  <1>1. CASE ClearProbes
    BY <1>0, <1>1 DEF ClearProbes, ProbeTypes
  <1>2. CASE Probe
    <2>1. /\ current_id' = current_id + 1 /\ latency' = latency
          /\ sent_times' = Put(sent_times, current_id, now)
          /\ in_flight' = in_flight \cup {[id |-> current_id, sent |-> now]}
      BY <1>2 DEF Probe
    <2>2. DOMAIN sent_times' = 0..(current_id' - 1)
      <3>1. DOMAIN sent_times' = 0..(current_id - 1) \cup {current_id}
        BY <1>0, <2>1 DEF Put
      <3> QED BY <1>0, <2>1, <3>1
    <2>3. \A id \in DOMAIN sent_times' : sent_times'[id] \in Nat
      BY <1>0, <2>1 DEF Put
    <2> QED BY <1>0, <2>1, <2>2, <2>3 DEF ProbeTypes
  <1>3. ASSUME NEW p \in in_flight, Answer(p)
        PROVE  ProbeTypes'
    <2>1. DOMAIN latency' \subseteq DOMAIN latency \cup {p.id}
      BY <1>3 DEF Answer, Put
    <2> QED BY <1>0, <1>3, <2>1 DEF Answer, ProbeTypes
  <1>4. CASE Tick
    BY <1>0, <1>4 DEF Tick, ProbeTypes
  <1>5. CASE UNCHANGED probeVars
    BY <1>0, <1>5 DEF ProbeTypes
  <1>6. CASE RunThread /\ ~ClearProbes
    <2>1. UNCHANGED probeVars
      BY <1>6 DEF RunThread, Connect, SchedulePoll, ScheduleProbe, Subscribe, LoadOver, Collect,
        Harvest, ClearBytes, ClearRates, RestOver, StopOnEmpty, WakeScheduler, StopFc,
        StopScheduler, Report
    <2> QED BY <1>5, <2>1
  <1>7. CASE SchedulerLoop \/ Poll \/ ProbeThrows \/ FcThread \/ Transfer \/ WriteThrows
    <2>1. UNCHANGED probeVars
      BY <1>7 DEF SchedulerLoop, Poll, ProbeThrows, FcThread, FcCommand, CountBytes, Transfer, WriteThrows
    <2> QED BY <1>5, <2>1
  <1> QED BY <1>1, <1>2, <1>3, <1>4, <1>6, <1>7 DEF Next, SchedulerThread

\* They have them at the start.
LEMMA InitTypes == Init => Types
  <1> SUFFICES ASSUME Init PROVE Types
    OBVIOUS
  <1>0. \A S : <<>> \in Seq(S)
    OBVIOUS
  <1>1. SchedTypes
    <2>1. Ordered(heap)
      BY DEF Init, SchedulerInit, Ordered
    <2> QED BY <1>0, <2>1 DEF Init, SchedulerInit, SchedTypes
  <1>2. RunTypes
    BY <1>0 DEF Init, RunTypes, Places
  <1>3. FcTypes
    BY ThroughputAssumption DEF Init, FcTypes, Counts, None
  <1>4. ProbeTypes
    BY DEF Init, ProbeTypes
  <1> QED BY <1>1, <1>2, <1>3, <1>4 DEF Types

\* The types and the order of the heap, whatever the threads do: no
\* assumption about their timing.
THEOREM ThroughputTypes == Spec => []Types
  <1>1. Types /\ [Next]_vars => Types'
    <2> SUFFICES ASSUME Types, [Next]_vars PROVE Types'
      OBVIOUS
    <2>1. CASE Next
      BY <2>1, SchedTypesStep, RunTypesStep, FcTypesStep, ProbeTypesStep DEF Types
    <2>2. CASE UNCHANGED vars
      <3>1. SchedTypes' /\ RunTypes' /\ FcTypes' /\ ProbeTypes'
        BY <2>2
        DEF vars, schedulerVars, runVars, countVars, probeVars, fcVars, Types, SchedTypes, RunTypes,
            FcTypes, ProbeTypes
      <3> QED BY <3>1 DEF Types
    <2> QED BY <2>1, <2>2
  <1> QED BY <1>1, InitTypes, PTL DEF Spec

\* What the scheduler runs next is due first (FrontIsLeast), for any jobs in
\* any order and whether or not the threads are punctual.
THEOREM ThroughputFrontIsLeast == Spec => []FrontIsLeast
  <1>1. Types => FrontIsLeast
    BY JobsTimed, RootIsLeast DEF Types, SchedTypes, FrontIsLeast
  <1> QED BY <1>1, ThroughputTypes, PTL

-----------------------------------------------------------------------------
(* The stream and the counters *)

\* Where run() gives jobs to the scheduler; where it stops the threads; where
\* it resets one half for the next.
Asking == pc \in {"polls", "probes", "subscribe"}
Stopping == pc \in {"stopOnEmpty", "continue", "stopFc", "stopScheduler", "join", "reported"}
Clearing == pc \in {"clearProbes", "clearBytes", "clearRates", "rest"}

\* The stream is not subscribed, will not be, and is not being served; or it
\* never will be, since the thread is dead.
StreamOff ==
    \/ fc = "threw"
    \/ /\ "stream" \notin subscribed /\ fc # "adding"
       /\ \A i \in DOMAIN commands : commands[i].sock # "stream"

\* The file collection has done the unsubscription when the pause after it is
\* over, and is not told to exit before run() stops the threads.
StreamInv ==
    /\ ~Stopping => fc # "done" /\ \A i \in DOMAIN commands : commands[i].op # "exit"
    /\ Asking \/ Clearing \/ pc = "connect" => StreamOff
    /\ pc \in {"collect", "harvest"} /\ fc # "threw" =>
          IF commands = <<>> THEN "stream" \notin subscribed
          ELSE commands[Len(commands)] = [op |-> "unsubscribe", sock |-> "stream"]
    /\ pc = "harvest" /\ now > alarm - Pause => StreamOff

\* A queue, after something is appended ...
LEMMA AppendCommand ==
    ASSUME NEW S, NEW q \in Seq(S), NEW x
    PROVE  /\ DOMAIN Append(q, x) = DOMAIN q \cup {Len(q) + 1}
           /\ \A i \in DOMAIN q : Append(q, x)[i] = q[i]
           /\ Append(q, x)[Len(q) + 1] = x /\ Len(Append(q, x)) = Len(q) + 1
           /\ Append(q, x) # <<>>
  OBVIOUS

\* ... and after its head is taken.
LEMMA TailCommand ==
    ASSUME NEW S, NEW q \in Seq(S), q # <<>>
    PROVE  /\ \A i \in DOMAIN Tail(q) : i + 1 \in DOMAIN q /\ Tail(q)[i] = q[i + 1]
           /\ Tail(q) # <<>> => Len(Tail(q)) \in DOMAIN Tail(q) /\ Tail(q)[Len(Tail(q))] = q[Len(q)]
           /\ Tail(q) = <<>> => q[Len(q)] = Head(q)
           /\ 1 \in DOMAIN q /\ Head(q) = q[1]
  <1> DEFINE n == Len(q)
             r == Tail(q)
  <1>1. n \in Nat /\ n > 0 /\ DOMAIN q = 1..n /\ Head(q) = q[1]
    OBVIOUS
  <1>2. Len(r) = n - 1 /\ DOMAIN r = 1..(n - 1) /\ \A i \in 1..(n - 1) : r[i] = q[i + 1]
    OBVIOUS
  <1>3. r = <<>> => n = 1
    BY <1>1, <1>2
  <1>4. r # <<>> => n - 1 > 0
    OBVIOUS
  <1>5. \A i \in 1..(n - 1) : i + 1 \in 1..n
    BY <1>1
  <1> HIDE DEF r, n
  <1>6. r # <<>> => n - 1 \in 1..(n - 1) /\ r[n - 1] = q[n]
    BY <1>1, <1>2, <1>4
  <1> QED BY <1>1, <1>2, <1>3, <1>5, <1>6 DEF n, r

\* StreamInv is kept: while a command is waiting or the file collection is in
\* observe(), the clock does not move.
LEMMA StreamStep ==
    ASSUME Punctual, Types, StreamInv, Next
    PROVE  StreamInv'
  <1> USE ThroughputAssumption DEF fcVars, runVars, schedulerVars, Go, SleepOver, Sleep, Tell
  <1>0. /\ commands \in Seq(Commands) /\ now \in Nat /\ alarm \in Nat
        /\ Pause \in Nat /\ Pause > 0 /\ fc \in {"idle", "adding", "done", "threw"}
    BY DEF Types, FcTypes, SchedTypes, RunTypes
  <1>1. CASE Connect
    <2>1. StreamOff /\ fc # "done" /\ \A i \in DOMAIN commands : commands[i].op # "exit"
      BY <1>1 DEF Connect, StreamInv, Stopping
    <2>2. CASE pc' = "threw"
      BY <1>1, <2>1, <2>2 DEF Connect, StreamInv, StreamOff, Asking, Stopping, Clearing
    <2>3. CASE pc' = "polls"
      <3>1. commands' = Append(commands, [op |-> "subscribe", sock |-> "dns"]) /\ UNCHANGED <<fc, subscribed>>
        BY <1>1, <2>3 DEF Connect
      <3>2. \A i \in DOMAIN commands' : commands'[i].op # "exit"
        BY <1>0, <2>1, <3>1, AppendCommand
      <3>3. StreamOff'
        BY <1>0, <2>1, <3>1, AppendCommand DEF StreamOff
      <3> QED BY <2>1, <2>3, <3>1, <3>2, <3>3 DEF StreamInv, StreamOff, Asking, Stopping, Clearing
    <2> QED BY <1>1, <2>2, <2>3 DEF Connect
  <1>2. CASE SchedulePoll \/ ScheduleProbe
    BY <1>2 DEF SchedulePoll, ScheduleProbe, StreamInv, StreamOff, Asking, Stopping, Clearing
  <1>3. CASE Subscribe
    BY <1>0, <1>3, AppendCommand DEF Subscribe, StreamInv, StreamOff, Asking, Stopping, Clearing
  <1>4. CASE LoadOver
    BY <1>0, <1>4, AppendCommand DEF LoadOver, StreamInv, StreamOff, Asking, Stopping, Clearing
  <1>5. CASE Collect
    BY <1>0, <1>5 DEF Collect, StreamInv, StreamOff, Asking, Stopping, Clearing
  <1>6. CASE Harvest
    BY <1>0, <1>6 DEF Harvest, StreamInv, StreamOff, Asking, Stopping, Clearing
  <1>7. CASE ClearProbes \/ ClearBytes \/ ClearRates \/ RestOver
    BY <1>7
    DEF ClearProbes, ClearBytes, ClearRates, RestOver, StreamInv, StreamOff, Asking, Stopping, Clearing
  <1>8. CASE StopOnEmpty \/ WakeScheduler \/ StopFc \/ StopScheduler \/ Report
    <2>1. Stopping'
      BY <1>8 DEF StopOnEmpty, WakeScheduler, StopFc, StopScheduler, Report, Stopping
    <2> QED BY <2>1 DEF StreamInv, Stopping, Asking, Clearing
  <1>9. CASE SchedulerThread \/ \E p \in in_flight : Answer(p)
    BY <1>9 DEF SchedulerThread, SchedulerLoop, Poll, Probe, ProbeThrows, Answer, StreamInv, StreamOff,
      Asking, Stopping, Clearing
  <1>10. CASE FcCommand
    <2> DEFINE cmd == Head(commands)
    <2>1. /\ commands # <<>> /\ commands' = Tail(commands) /\ UNCHANGED <<pc, now, alarm>> /\ fc = "idle"
          /\ \/ cmd.op = "subscribe" /\ subscribed' = subscribed \cup {cmd.sock} /\ fc' = fc
             \/ cmd.op = "unsubscribe" /\ subscribed' = subscribed \ {cmd.sock} /\ fc' = fc
             \/ cmd.op = "exit" /\ fc' = "done" /\ subscribed' = subscribed
      <3>1. cmd \in Commands
        BY <1>0, <1>10, QueueTypes DEF FcCommand
      <3>2. cmd.op \in {"subscribe", "unsubscribe", "exit"}
        BY <3>1 DEF Commands
      <3> QED BY <1>10, <3>2 DEF FcCommand
    <2>2. cmd = commands[1] /\ 1 \in DOMAIN commands
      BY <1>0, <2>1, TailCommand
    <2>3. \A i \in DOMAIN commands' : i + 1 \in DOMAIN commands /\ commands'[i] = commands[i + 1]
      BY <1>0, <2>1, TailCommand
    <2>4. /\ commands' # <<>> => commands'[Len(commands')] = commands[Len(commands)]
          /\ commands' = <<>> => commands[Len(commands)] = cmd
      BY <1>0, <2>1, TailCommand
    <2> HIDE DEF cmd
    <2>5. StreamOff => StreamOff'
      BY <2>1, <2>2, <2>3 DEF StreamOff
    <2>6. ~Stopping => fc' # "done" /\ \A i \in DOMAIN commands' : commands'[i].op # "exit"
      BY <2>1, <2>2, <2>3 DEF StreamInv
    <2>7. pc \in {"collect", "harvest"} /\ fc' # "threw" =>
            IF commands' = <<>> THEN "stream" \notin subscribed'
            ELSE commands'[Len(commands')] = [op |-> "unsubscribe", sock |-> "stream"]
      BY <2>1, <2>4 DEF StreamInv
    <2> QED BY <2>1, <2>5, <2>6, <2>7 DEF StreamInv, Asking, Stopping, Clearing
  <1>11. CASE Transfer \/ WriteThrows \/ CountBytes
    BY <1>11 DEF Transfer, WriteThrows, CountBytes, StreamInv, StreamOff, Asking, Stopping, Clearing
  <1>12. CASE Tick
    <2>1. UNCHANGED <<pc, alarm, commands, fc, subscribed>> /\ now' = now + 1 /\ ~FcBusy
      BY <1>12 DEF Tick
    <2>2. pc = "harvest" => StreamOff
      BY <1>0, <2>1 DEF FcBusy, StreamInv, StreamOff, Stopping
    <2> QED BY <2>1, <2>2 DEF StreamInv, StreamOff, Asking, Stopping, Clearing
  <1> QED
    BY <1>1, <1>2, <1>3, <1>4, <1>5, <1>6, <1>7, <1>8, <1>9, <1>10, <1>11, <1>12
    DEF Next, RunThread, FcThread

\* No part of one counter is less than it is in another.
NoLess(c, b) == Moved(b) <= Moved(c) /\ b.failed <= c.failed

\* What the counters are between a reset and a poll. While observe() is about
\* to store a sum, it is no less than what is stored.
CountInv ==
    /\ IF upload THEN bytes.read = 0 /\ bytes.failed = 0 ELSE bytes.written = 0
    /\ fc = "adding" => /\ IF upload THEN sum.read = 0 /\ sum.failed = 0 ELSE sum.written = 0
                        /\ NoLess(sum, bytes)
    /\ pc = "clearRates" => bytes = None
    /\ pc # "clearRates" => NoLess(bytes, last_bytes)
    /\ \A i \in DOMAIN rates : rates[i].moved >= 0 /\ rates[i].failed >= 0

\* No poll comes between the reset of the counter and that of the last
\* reading.
NoPollAtClear == pc = "clearRates" => ~Poll

\* CountInv is kept.
LEMMA CountStep ==
    ASSUME Types, StreamInv, NoPollAtClear, CountInv, Next
    PROVE  CountInv'
  <1> USE DEF countVars, fcVars, runVars, Go, SleepOver
  <1>0. /\ bytes \in Counts /\ sum \in Counts /\ last_bytes \in Counts /\ rates \in Seq(Rates)
        /\ MaxBytes \in Nat /\ upload \in BOOLEAN
    BY ThroughputAssumption DEF Types, FcTypes, RunTypes
  <1>1. CASE ClearBytes
    <2>1. fc # "adding" /\ bytes' = None /\ UNCHANGED <<fc, sum, last_bytes, rates, upload>> /\ pc' = "clearRates"
      BY <1>1 DEF ClearBytes, StreamInv, StreamOff, Clearing
    <2> QED BY <1>0, <2>1 DEF CountInv, None
  <1>2. CASE ClearRates
    <2>1. fc # "adding" /\ bytes = None /\ pc' = "rest" /\ UNCHANGED <<bytes, fc, sum>> /\ last_bytes' = None
          /\ rates' = <<>> /\ upload' = TRUE
      BY <1>2 DEF ClearRates, StreamInv, StreamOff, Clearing, CountInv
    <2> QED BY <2>1 DEF CountInv, NoLess, Moved, None
  <1>3. CASE RunThread /\ ~ClearBytes /\ ~ClearRates
    <2>1. UNCHANGED <<upload, bytes, last_bytes, rates, fc, sum>>
      BY <1>3 DEF RunThread, Connect, SchedulePoll, ScheduleProbe, Subscribe, LoadOver, Collect,
        Harvest, ClearProbes, RestOver, StopOnEmpty, WakeScheduler, StopFc, StopScheduler, Report
    <2>2. pc # "clearRates" /\ pc' # "clearRates"
      BY <1>3 DEF RunThread, Connect, SchedulePoll, ScheduleProbe, Subscribe, LoadOver, Collect,
        Harvest, ClearProbes, RestOver, StopOnEmpty, WakeScheduler, StopFc, StopScheduler, Report
    <2> QED BY <2>1, <2>2 DEF CountInv, NoLess, Moved
  <1>4. CASE Poll
    <2> DEFINE r == [moved  |-> Moved(bytes) - Moved(last_bytes),
                     failed |-> bytes.failed - last_bytes.failed]
    <2>1. pc # "clearRates" /\ NoLess(bytes, last_bytes)
      BY <1>4 DEF NoPollAtClear, CountInv
    <2>2. rates' = Append(rates, r) /\ last_bytes' = bytes
          /\ UNCHANGED <<bytes, fc, sum, pc, upload>>
      BY <1>4 DEF Poll
    <2>3. r.moved >= 0 /\ r.failed >= 0
      BY <1>0, <2>1 DEF NoLess, Moved, Counts
    <2> HIDE DEF r
    <2>4. \A i \in DOMAIN rates' : rates'[i].moved >= 0 /\ rates'[i].failed >= 0
      BY <1>0, <2>2, <2>3, AppendCommand DEF CountInv
    <2>5. NoLess(bytes, bytes)
      BY <1>0 DEF NoLess, Moved, Counts
    <2> QED BY <2>1, <2>2, <2>4, <2>5 DEF CountInv, NoLess, Moved
  <1>5. CASE Transfer
    <2>1. fc' = "adding" /\ UNCHANGED <<upload, bytes, last_bytes, rates, pc>> /\ pc # "clearRates"
      BY <1>5 DEF Transfer, StreamInv, StreamOff, Clearing
    <2>2. \/ upload /\ sum' = [bytes EXCEPT !.written = bytes.written + 1]
          \/ ~upload /\ sum' = [bytes EXCEPT !.read = bytes.read + 1]
          \/ ~upload /\ sum' = [bytes EXCEPT !.failed = bytes.failed + 1]
      BY <1>5 DEF Transfer
    <2>3. IF upload THEN sum'.read = 0 /\ sum'.failed = 0 ELSE sum'.written = 0
      BY <1>0, <2>2 DEF CountInv, Counts
    <2>4. NoLess(sum', bytes)
      BY <1>0, <2>2 DEF NoLess, Moved, Counts
    <2> QED BY <2>1, <2>3, <2>4 DEF CountInv, NoLess, Moved
  <1>6. CASE CountBytes
    <2>1. fc = "adding" /\ fc' = "idle" /\ bytes' = sum /\ UNCHANGED <<upload, last_bytes, rates, pc>>
          /\ pc # "clearRates"
      BY <1>6 DEF CountBytes, StreamInv, StreamOff, Clearing
    <2>2. NoLess(sum, last_bytes)
      BY <1>0, <2>1 DEF CountInv, NoLess, Moved, Counts
    <2> QED BY <2>1, <2>2 DEF CountInv, NoLess, Moved
  <1>7. CASE FcCommand \/ WriteThrows
    <2>1. fc' # "adding" /\ UNCHANGED <<upload, bytes, last_bytes, rates, pc>>
      BY <1>7 DEF FcCommand, WriteThrows
    <2> QED BY <2>1 DEF CountInv, NoLess, Moved
  <1>8. CASE SchedulerLoop \/ Probe \/ ProbeThrows \/ Tick \/ \E p \in in_flight : Answer(p)
    <2>1. UNCHANGED <<upload, bytes, last_bytes, rates, fc, sum, pc>>
      BY <1>8 DEF SchedulerLoop, Probe, ProbeThrows, Tick, Answer
    <2> QED BY <2>1 DEF CountInv, NoLess, Moved
  <1> QED
    BY <1>1, <1>2, <1>3, <1>4, <1>5, <1>6, <1>7, <1>8 DEF Next, SchedulerThread, FcThread

\* How many polls and how many probes a half has.
Polls == (Load - 1) \div PollEvery
Probes == (Load - 1) \div ProbeEvery

-----------------------------------------------------------------------------
(* The jobs of a half *)

\* Multiples of d grow with their factor.
LEMMA Multiples ==
    ASSUME NEW d \in Nat \ {0}
    PROVE  /\ \A k \in Nat : d * k \in Nat /\ d * (k + 1) = d * k + d /\ k <= d * k
           /\ \A j, k \in Nat : j < k => d * j < d * k
           /\ d * 0 = 0 /\ d * 1 = d
  <1>1. \A k \in Nat : d * k \in Nat /\ d * (k + 1) = d * k + d
    OBVIOUS
  <1>2. \A k \in Nat : k <= d * k
    <2> TAKE k \in Nat
    <2>1. d * k = k + (d - 1) * k
      OBVIOUS
    <2>2. (d - 1) * k \in Nat
      OBVIOUS
    <2> QED BY <2>1, <2>2
  <1>3. ASSUME NEW j \in Nat, NEW k \in Nat, j < k PROVE d * j < d * k
    <2>1. d * k = d * j + d * (k - j)
      OBVIOUS
    <2>2. d * (k - j) \in Nat /\ k - j <= d * (k - j)
      <3>1. k - j \in Nat
        BY <1>3
      <3> QED BY <1>1, <1>2, <3>1
    <2> QED BY <1>1, <1>3, <2>1, <2>2
  <1> QED BY <1>1, <1>2, <1>3

\* The loop for (t = d; t < n; t += d) has (n - 1) div d rounds.
LEMMA Rounds ==
    ASSUME NEW d \in Nat \ {0}, NEW n \in Nat \ {0}
    PROVE  LET r == (n - 1) \div d
           IN  r \in Nat /\ r < n /\ d * r < n /\ n <= d * (r + 1)
  <1> DEFINE r == (n - 1) \div d
  <1>1. r \in Nat /\ d * r <= n - 1 /\ n - 1 < d * r + d
    OBVIOUS
  <1>2. d * (r + 1) = d * r + d /\ r <= d * r /\ d * r \in Nat
    BY <1>1, Multiples
  <1> HIDE DEF r
  <1> QED BY <1>1, <1>2 DEF r

\* Where run() has no job with the scheduler.
Resting == pc \in {"connect", "threw", "collect", "harvest", "clearProbes", "clearBytes", "clearRates", "rest"}

\* The k-th job that run() asks for, first the polls and then the probes;
\* what becomes of it in the heap; has it run; and those of the first n that
\* have not.
Job(k) ==
    IF k <= Polls THEN Entry("poll", PollEvery * k) ELSE Entry("probe", ProbeEvery * (k - Polls))
JobAt(start, k) == Entry(Job(k).to_run, start + Job(k).when)
Ran(k) == IF k <= Polls THEN k <= Len(rates) ELSE k - Polls <= current_id
Left(n) == {k \in 1..n : ~Ran(k)}

\* The first a jobs are asked for: the last of them are still in the queue of
\* requests, the others, unless they have run, in the heap, each once.
Asked(a, start) ==
    /\ Len(requests) <= a
    /\ \A i \in DOMAIN requests : requests[i] = [typ |-> "SCHEDULE", entry |-> Job(a - Len(requests) + i)]
    /\ Elements(heap) = {JobAt(start, k) : k \in Left(a - Len(requests))}
    /\ Distinct(heap)

\* What the scheduler has to do, by where run() is, unless a probe has
\* thrown. While run() sleeps through a half, its jobs are those due within
\* that half; afterwards none is left.
JobsInv ==
    sched # "threw" =>
        /\ \A i \in DOMAIN heap : heap[i].when >= now
        /\ Asking => rates = <<>> /\ current_id = 0
        /\ pc = "polls" => \E a \in 0..Polls : poll_time = PollEvery * (a + 1) /\ Asked(a, now)
        /\ pc = "probes" => \E a \in 0..Probes : poll_time = ProbeEvery * (a + 1) /\ Asked(Polls + a, now)
        /\ pc = "subscribe" => Asked(Polls + Probes, now)
        /\ pc = "load" => /\ Asked(Polls + Probes, alarm - Load)
                          /\ requests # <<>> => now = alarm - Load /\ rates = <<>> /\ current_id = 0
                          /\ alarm - Load <= now /\ now <= alarm
                          /\ Len(rates) <= Polls /\ current_id <= Probes
        /\ Resting => heap = <<>> /\ requests = <<>>
        /\ Stopping => heap = <<>> /\ \A i \in DOMAIN requests : requests[i].typ # "SCHEDULE"
        /\ ~Stopping => ~empty_stop /\ sched # "done"
        /\ pc \in {"connect", "rest"} => rates = <<>> /\ current_id = 0
        /\ pc \in {"collect", "harvest"} => current_id = Probes
        /\ pc = "collect" => Len(rates) = Polls
        /\ pc \in {"clearBytes", "clearRates"} => current_id = 0

\* When the loops of run() end.
LEMMA LoopBounds ==
    /\ Polls \in Nat /\ Probes \in Nat
    /\ \A a \in 0..Polls : /\ PollEvery * (a + 1) \in Nat
                           /\ PollEvery * (a + 1) < Load <=> a < Polls
                           /\ PollEvery * (a + 1) + PollEvery = PollEvery * (a + 1 + 1)
    /\ \A a \in 0..Probes : /\ ProbeEvery * (a + 1) \in Nat
                            /\ ProbeEvery * (a + 1) < Load <=> a < Probes
                            /\ ProbeEvery * (a + 1) + ProbeEvery = ProbeEvery * (a + 1 + 1)
  <1>1. ASSUME NEW d \in Nat \ {0}, NEW r \in Nat, d * r < Load, Load <= d * (r + 1), NEW a \in 0..r
        PROVE  /\ d * (a + 1) \in Nat
               /\ d * (a + 1) < Load <=> a < r
               /\ d * (a + 1) + d = d * (a + 1 + 1)
    <2>0. /\ a \in Nat /\ a + 1 \in Nat /\ a + 1 + 1 \in Nat /\ d * r \in Nat /\ d * (r + 1) \in Nat
          /\ Load \in Nat
      BY <1>1, Multiples, ThroughputAssumption
    <2>1. d * (a + 1) \in Nat /\ d * (a + 1) + d = d * (a + 1 + 1)
      BY <2>0, Multiples
    <2>2. a < r => d * (a + 1) < Load
      <3>1. CASE a + 1 < r
        <4>1. d * (a + 1) < d * r
          BY <2>0, <3>1, Multiples
        <4> QED BY <1>1, <2>0, <2>1, <4>1
      <3>2. CASE a + 1 = r
        BY <1>1, <3>2
      <3> QED BY <2>0, <3>1, <3>2
    <2>3. ~(a < r) => ~(d * (a + 1) < Load)
      <3>1. ~(a < r) => a = r
        BY <2>0
      <3> QED BY <1>1, <2>0, <2>1, <3>1
    <2> QED BY <2>1, <2>2, <2>3
  <1>2. PollEvery \in Nat \ {0} /\ ProbeEvery \in Nat \ {0} /\ Load \in Nat \ {0}
    BY ThroughputAssumption
  <1>3. Polls \in Nat /\ PollEvery * Polls < Load /\ Load <= PollEvery * (Polls + 1)
    BY <1>2, Rounds DEF Polls
  <1>4. Probes \in Nat /\ ProbeEvery * Probes < Load /\ Load <= ProbeEvery * (Probes + 1)
    BY <1>2, Rounds DEF Probes
  <1> QED BY <1>1, <1>2, <1>3, <1>4

\* Each job is due within the half, and no two are the same.
LEMMA JobFacts ==
    /\ \A k \in 1..(Polls + Probes) : Job(k) \in Jobs /\ 0 < Job(k).when /\ Job(k).when < Load
    /\ \A k \in 1..Polls : Job(k) = Entry("poll", PollEvery * k)
    /\ \A k \in 1..Probes : Job(Polls + k) = Entry("probe", ProbeEvery * k)
    /\ \A k \in 1..(Polls + Probes) : k > Polls => k - Polls \in 1..Probes
    /\ \A j, k \in 1..(Polls + Probes) :
          Job(j).to_run = Job(k).to_run /\ j < k => Job(j).when < Job(k).when
    /\ \A j, k \in 1..(Polls + Probes) : Job(j) = Job(k) => j = k
  <1>0. /\ Polls \in Nat /\ Probes \in Nat
        /\ PollEvery \in Nat \ {0} /\ ProbeEvery \in Nat \ {0} /\ Load \in Nat \ {0}
    BY LoopBounds, ThroughputAssumption
  <1>1. \A k \in 1..Polls : PollEvery * k \in Nat /\ 0 < PollEvery * k /\ PollEvery * k < Load
    <2> TAKE k \in 1..Polls
    <2>1. k - 1 \in 0..Polls /\ k - 1 < Polls /\ (k - 1) + 1 = k /\ k \in Nat /\ 0 < k
      BY <1>0
    <2>2. PollEvery * k < Load
      BY <2>1, LoopBounds
    <2>3. PollEvery * k \in Nat /\ k <= PollEvery * k
      BY <1>0, <2>1, Multiples
    <2> QED BY <2>1, <2>2, <2>3
  <1>2. \A k \in 1..Probes : ProbeEvery * k \in Nat /\ 0 < ProbeEvery * k /\ ProbeEvery * k < Load
    <2> TAKE k \in 1..Probes
    <2>1. k - 1 \in 0..Probes /\ k - 1 < Probes /\ (k - 1) + 1 = k /\ k \in Nat /\ 0 < k
      BY <1>0
    <2>2. ProbeEvery * k < Load
      BY <2>1, LoopBounds
    <2>3. ProbeEvery * k \in Nat /\ k <= ProbeEvery * k
      BY <1>0, <2>1, Multiples
    <2> QED BY <2>1, <2>2, <2>3
  <1>3. \A k \in 1..Polls : Job(k) = Entry("poll", PollEvery * k)
    BY <1>0 DEF Job
  <1>4. \A k \in 1..Probes : Job(Polls + k) = Entry("probe", ProbeEvery * k)
    <2> TAKE k \in 1..Probes
    <2>1. ~(Polls + k <= Polls) /\ (Polls + k) - Polls = k
      BY <1>0
    <2>2. \A m, l : ~(m <= Polls) /\ m - Polls = l => Job(m) = Entry("probe", ProbeEvery * l)
      BY DEF Job
    <2> QED BY <2>1, <2>2
  <1>5. \A k \in 1..(Polls + Probes) : k <= Polls => k \in 1..Polls
    BY <1>0
  <1>6. \A k \in 1..(Polls + Probes) : k > Polls => k - Polls \in 1..Probes /\ Polls + (k - Polls) = k
    BY <1>0
  <1>7. \A k \in 1..(Polls + Probes) : k <= Polls \/ k > Polls
    BY <1>0
  <1>8. ASSUME NEW k \in 1..(Polls + Probes)
        PROVE  /\ Job(k) \in Jobs /\ 0 < Job(k).when /\ Job(k).when < Load
               /\ Job(k).to_run = "poll" <=> k <= Polls
               /\ Job(k).to_run = "probe" <=> k > Polls
               /\ k <= Polls => Job(k).when = PollEvery * k
               /\ k > Polls => Job(k).when = ProbeEvery * (k - Polls)
    <2>1. CASE k <= Polls
      <3>1. k \in 1..Polls /\ ~(k > Polls)
        BY <1>0, <2>1
      <3>2. Job(k) = Entry("poll", PollEvery * k) /\ PollEvery * k \in Nat /\ 0 < PollEvery * k
            /\ PollEvery * k < Load
        BY <1>1, <1>3, <3>1
      <3> QED BY <2>1, <3>1, <3>2 DEF Entry, Jobs
    <2>2. CASE k > Polls
      <3> DEFINE l == k - Polls
      <3>1. l \in 1..Probes /\ Polls + l = k /\ ~(k <= Polls)
        BY <1>0, <1>6, <2>2
      <3> HIDE DEF l
      <3>2. Job(k) = Entry("probe", ProbeEvery * l) /\ ProbeEvery * l \in Nat /\ 0 < ProbeEvery * l
            /\ ProbeEvery * l < Load
        BY <1>2, <1>4, <3>1
      <3>3. Job(k) \in Jobs /\ Job(k).to_run = "probe" /\ Job(k).when = ProbeEvery * l
        BY <3>2 DEF Entry, Jobs
      <3> QED BY <2>2, <3>1, <3>2, <3>3 DEF l
    <2> QED BY <1>7, <2>1, <2>2
  <1>9. ASSUME NEW j \in 1..(Polls + Probes), NEW k \in 1..(Polls + Probes),
               Job(j).to_run = Job(k).to_run, j < k
        PROVE  Job(j).when < Job(k).when
    <2>0. j \in Nat /\ k \in Nat
      BY <1>0
    <2>1. CASE k <= Polls
      <3>1. j <= Polls
        BY <1>0, <1>9, <2>0, <2>1
      <3>2. PollEvery * j < PollEvery * k
        BY <1>0, <1>9, <2>0, Multiples
      <3> QED BY <1>8, <2>1, <3>1, <3>2
    <2>2. CASE k > Polls
      <3>1. j > Polls
        BY <1>7, <1>8, <1>9, <2>2
      <3>2. j - Polls \in Nat /\ k - Polls \in Nat /\ j - Polls < k - Polls
        BY <1>0, <1>9, <2>0, <2>2, <3>1
      <3>3. ProbeEvery * (j - Polls) < ProbeEvery * (k - Polls)
        BY <1>0, <3>2, Multiples
      <3> QED BY <1>8, <2>2, <3>1, <3>3
    <2> QED BY <1>7, <2>1, <2>2
  <1>10. ASSUME NEW j \in 1..(Polls + Probes), NEW k \in 1..(Polls + Probes), Job(j) = Job(k)
         PROVE  j = k
    <2>1. Job(j).when \in Nat /\ ~(Job(j).when < Job(k).when) /\ ~(Job(k).when < Job(j).when)
      BY <1>8, <1>10 DEF Jobs
    <2>2. ~(j < k) /\ ~(k < j)
      BY <1>9, <1>10, <2>1
    <2> QED BY <1>0, <2>2
  <1> QED BY <1>3, <1>4, <1>6, <1>8, <1>9, <1>10

\* The numbers of the jobs of a half.
Half == 1..(Polls + Probes)

\* The same of the jobs as they are in the heap.
LEMMA JobAtFacts ==
    \A start \in Int :
           /\ \A k \in Half : /\ JobAt(start, k).to_run = Job(k).to_run
                              /\ JobAt(start, k).when \in Int
                              /\ start < JobAt(start, k).when /\ JobAt(start, k).when < start + Load
                              /\ Job(k).to_run = "poll" <=> k <= Polls
                              /\ Job(k).to_run = "probe" <=> ~(k <= Polls)
           /\ \A j, k \in Half :
                 Job(j).to_run = Job(k).to_run /\ j < k => JobAt(start, j).when < JobAt(start, k).when
           /\ \A j, k \in Half : JobAt(start, j) = JobAt(start, k) => j = k
  <1> TAKE start \in Int
  <1>0. Polls \in Nat /\ Probes \in Nat /\ Load \in Nat
    BY LoopBounds, ThroughputAssumption
  <1>1. \A k \in Half : JobAt(start, k).to_run = Job(k).to_run /\ JobAt(start, k).when = start + Job(k).when
    BY DEF JobAt, Entry
  <1>2. \A k \in Half : /\ Job(k) \in Jobs /\ Job(k).when \in Nat
                        /\ 0 < Job(k).when /\ Job(k).when < Load
    BY JobFacts DEF Half, Jobs
  <1>3. \A k \in Half : /\ Job(k).to_run = "poll" <=> k <= Polls
                        /\ Job(k).to_run = "probe" <=> ~(k <= Polls)
    BY DEF Job, Entry
  <1>4. \A j, k \in Half :
           Job(j).to_run = Job(k).to_run /\ j < k => JobAt(start, j).when < JobAt(start, k).when
    BY <1>1, <1>2, JobFacts DEF Half
  <1>5. ASSUME NEW j \in Half, NEW k \in Half, JobAt(start, j) = JobAt(start, k)
        PROVE  j = k
    <2>1. Job(j).to_run = Job(k).to_run /\ start + Job(j).when = start + Job(k).when
      BY <1>1, <1>5
    <2>2. Job(j).when = Job(k).when
      BY <1>2, <2>1
    <2>3. ~(j < k) /\ ~(k < j)
      BY <1>2, <2>1, <2>2, JobFacts DEF Half
    <2> QED BY <1>0, <2>3 DEF Half
  <1> QED BY <1>0, <1>1, <1>2, <1>3, <1>4, <1>5

-----------------------------------------------------------------------------
(* What is asked of the scheduler *)

\* schedule() asks for one job more.
LEMMA AskMore ==
    ASSUME NEW a \in Nat, Types, a < Polls + Probes,
           requests' = Append(requests, [typ |-> "SCHEDULE", entry |-> Job(a + 1)]),
           UNCHANGED <<heap, rates, current_id>>
    PROVE  \A start \in Int : Asked(a, start) => Asked(a + 1, start)'
  <1> SUFFICES ASSUME NEW start \in Int, Asked(a, start)
               PROVE  Asked(a + 1, start)'
    OBVIOUS
  <1>0. requests \in Seq(Requests) /\ Len(requests) \in Nat /\ DOMAIN requests = 1..Len(requests)
    BY DEF Types, SchedTypes
  <1> PICK n \in Nat : n = Len(requests)
    BY <1>0
  <1>1. /\ Len(requests') = n + 1 /\ DOMAIN requests' = 1..(n + 1)
        /\ \A i \in 1..n : requests'[i] = requests[i]
        /\ requests'[n + 1] = [typ |-> "SCHEDULE", entry |-> Job(a + 1)]
    BY <1>0
  <1>2. n \in Nat /\ n <= a /\ (a + 1) - (n + 1) = a - n
    BY <1>0 DEF Asked
  <1>3. Left(a - n)' = Left(a - n)
    BY DEF Left, Ran
  <1>4. \A i \in 1..(n + 1) : requests'[i] = [typ |-> "SCHEDULE", entry |-> Job((a + 1) - (n + 1) + i)]
    <2> TAKE i \in 1..(n + 1)
    <2>1. CASE i = n + 1
      <3>1. (a + 1) - (n + 1) + i = a + 1
        BY <1>2, <2>1
      <3> QED BY <1>1, <2>1, <3>1
    <2>2. CASE i # n + 1
      <3>1. i \in 1..n
        BY <1>2, <2>2
      <3>2. requests[i] = [typ |-> "SCHEDULE", entry |-> Job(a - n + i)]
        BY <1>0, <3>1 DEF Asked
      <3> QED BY <1>1, <1>2, <3>1, <3>2
    <2> QED BY <2>1, <2>2
  <1>5. Elements(heap) = {JobAt(start, k) : k \in Left(a - n)} /\ Distinct(heap)
    BY DEF Asked
  <1>6. Elements(heap') = {JobAt(start, k) : k \in Left(a - n)'} /\ Distinct(heap')
    BY <1>3, <1>5
  <1>7. n + 1 <= a + 1
    BY <1>2
  <1> QED
    BY <1>1, <1>2, <1>4, <1>6, <1>7 DEF Asked

\* No job has run when nothing is counted.
LEMMA NoneRan ==
    ASSUME rates = <<>>, current_id = 0
    PROVE  \A k \in Half : ~Ran(k)
  <1>0. Polls \in Nat /\ Probes \in Nat
    BY LoopBounds
  <1> QED BY <1>0 DEF Ran, Half

\* The scheduler takes a request in the moment it was made: the job goes into
\* the heap with the deadline run() meant.
LEMMA TakeAsked ==
    ASSUME Types, NEW a \in Nat, a <= Polls + Probes, TakeRequest, rates = <<>>, current_id = 0,
           UNCHANGED <<now, rates, current_id>>, Asked(a, now),
           \A i \in DOMAIN heap : heap[i].when >= now
    PROVE  Asked(a, now)' /\ sched' = "loop" /\ \A i \in DOMAIN heap' : heap'[i].when >= now
  <1>0. /\ requests \in Seq(Requests) /\ Len(requests) \in Nat /\ DOMAIN requests = 1..Len(requests)
        /\ now \in Nat /\ heap \in Seq(Jobs) /\ Ordered(heap)
        /\ Polls \in Nat /\ Probes \in Nat /\ Load \in Nat
    BY LoopBounds, ThroughputAssumption DEF Types, SchedTypes
  <1> PICK n \in Nat : n = Len(requests)
    BY <1>0
  <1> PICK k \in Int : k = (a - n) + 1
    OBVIOUS
  <1>1. /\ requests # <<>> /\ n > 0 /\ requests' = Tail(requests) /\ Head(requests) = requests[1]
        /\ Len(requests') = n - 1 /\ DOMAIN requests' = 1..(n - 1)
        /\ \A i \in 1..(n - 1) : requests'[i] = requests[i + 1]
    BY <1>0 DEF TakeRequest
  <1>2. /\ n <= a
        /\ \A i \in 1..n : requests[i] = [typ |-> "SCHEDULE", entry |-> Job(a - n + i)]
        /\ Elements(heap) = {JobAt(now, l) : l \in Left(a - n)} /\ Distinct(heap)
    BY <1>0 DEF Asked
  <1>3. n \in Nat
    BY <1>0
  <1>4. k \in Half /\ a - n \in Nat /\ a - (n - 1) = k /\ k \notin 1..(a - n) /\ a - n < k
    BY <1>0, <1>1, <1>2, <1>3 DEF Half
  <1>5. Head(requests) = [typ |-> "SCHEDULE", entry |-> Job(k)]
    <2>1. 1 \in 1..n
      BY <1>1
    <2>2. requests[1] = [typ |-> "SCHEDULE", entry |-> Job((a - n) + 1)]
      BY <1>2, <2>1
    <2> QED BY <1>1, <2>2
  <1>6. heap' = Push(heap, JobAt(now, k)) /\ sched' = "loop"
    <2>1. Handle(Head(requests))
      BY DEF TakeRequest
    <2> QED BY <1>5, <2>1 DEF Handle, JobAt
  <1>7. JobAt(now, k) \in Jobs
    <2>1. Job(k) \in Jobs
      BY <1>4, JobFacts DEF Half
    <2> QED BY <1>0, <2>1 DEF JobAt, Jobs, Entry
  <1>8. Left(a - n) = 1..(a - n) /\ Left(k) = 1..(a - n) \cup {k} /\ 1..(a - n) \subseteq Half
    <2>1. 1..k \subseteq Half /\ 1..k = 1..(a - n) \cup {k}
      <3>1. k = (a - n) + 1 /\ k <= Polls + Probes
        BY <1>0, <1>3, <1>4 DEF Half
      <3> QED BY <1>0, <1>4, <3>1 DEF Half
    <2>2. \A l \in 1..k : ~Ran(l)
      BY <2>1, NoneRan
    <2> QED BY <2>1, <2>2 DEF Left
  <1>81. now \in Int
    BY <1>0
  <1>82. /\ \A l \in Half : now < JobAt(now, l).when
         /\ \A j, l \in Half : JobAt(now, j) = JobAt(now, l) => j = l
    BY <1>81, JobAtFacts, Zenon
  <1>9. JobAt(now, k) \notin Elements(heap)
    <2> SUFFICES ASSUME JobAt(now, k) \in Elements(heap) PROVE FALSE
      OBVIOUS
    <2>1. PICK l \in Left(a - n) : JobAt(now, k) = JobAt(now, l)
      BY <1>2, Zenon
    <2>2. l \in 1..(a - n) /\ l \in Half
      BY <2>1, <1>8, Zenon
    <2>3. k = l
      BY <2>1, <2>2, <1>4, <1>82, Zenon
    <2> QED BY <2>2, <2>3, <1>4, Zenon
  <1>10. /\ Elements(heap') = Elements(heap) \cup {JobAt(now, k)} /\ Distinct(heap')
    <2> DEFINE e == JobAt(now, k)
    <2>1. heap' = Push(heap, e) /\ e \in Jobs /\ e \notin Elements(heap)
      BY <1>6, <1>7, <1>9
    <2> HIDE DEF e
    <2>2. Elements(heap') = Elements(heap) \cup {e} /\ Distinct(heap')
      BY <1>0, <1>2, <2>1, JobsTimed, PushHeap
    <2> QED BY <2>2 DEF e
  <1>11. Left(k)' = Left(k)
    BY DEF Left, Ran
  <1>12. Elements(heap') = {JobAt(now, l) : l \in Left(k)}
    BY <1>2, <1>8, <1>10
  <1>13. \A i \in 1..(n - 1) : requests'[i] = [typ |-> "SCHEDULE", entry |-> Job(a - (n - 1) + i)]
    <2> TAKE i \in 1..(n - 1)
    <2>1. i + 1 \in 1..n /\ a - n + (i + 1) = a - (n - 1) + i
      BY <1>3
    <2> QED BY <1>1, <1>2, <2>1
  <1>14. Asked(a, now)'
    <2>1. n - 1 <= a
      BY <1>2, <1>3
    <2>2. Elements(heap') = {JobAt(now', l) : l \in Left(a - (n - 1))'}
      BY <1>4, <1>11, <1>12
    <2> QED BY <1>1, <1>10, <1>13, <2>1, <2>2 DEF Asked
  <1>15. \A i \in DOMAIN heap' : heap'[i].when >= now
    <2> TAKE i \in DOMAIN heap'
    <2>1. heap'[i] \in Elements(heap) \cup {JobAt(now, k)}
      BY <1>10 DEF Elements
    <2>2. JobAt(now, k).when >= now
      BY <1>0, <1>4, <1>7, <1>82 DEF Jobs
    <2> QED BY <2>1, <2>2 DEF Elements
  <1> QED BY <1>6, <1>14, <1>15

-----------------------------------------------------------------------------
(* What the scheduler runs *)

\* A job that is due is run while run() sleeps through a half, in the moment
\* of its deadline, and it is the next of its kind: the front of the heap is
\* the least.
LEMMA JobRuns ==
    ASSUME Types, JobsInv, Due
    PROVE  /\ pc = "load" /\ requests = <<>> /\ alarm - Load < now /\ now < alarm
           /\ \E k \in Left(Polls + Probes) :
                 /\ heap[1] = JobAt(alarm - Load, k) /\ now = JobAt(alarm - Load, k).when
                 /\ IF k <= Polls THEN k = Len(rates) + 1 ELSE k - Polls = current_id + 1
  <1>0. /\ requests \in Seq(Requests) /\ now \in Nat /\ heap \in Seq(Jobs) /\ Ordered(heap)
        /\ alarm \in Nat /\ rates \in Seq(Rates) /\ Len(rates) \in Nat /\ current_id \in Nat /\ pc \in Places
        /\ Polls \in Nat /\ Probes \in Nat /\ Load \in Nat \ {0}
    BY LoopBounds, ThroughputAssumption DEF Types, SchedTypes, RunTypes, FcTypes, ProbeTypes
  <1>1. /\ sched = "wait" /\ heap # <<>> /\ heap[1].when <= now /\ 1 \in DOMAIN heap
        /\ heap[1] \in Elements(heap) /\ heap[1].when \in Nat
    <2>1. sched = "wait" /\ heap # <<>> /\ heap[1].when <= now
      BY DEF Due
    <2>2. 1 \in DOMAIN heap /\ heap[1] \in Jobs
      BY <1>0, <2>1
    <2> QED BY <2>1, <2>2 DEF Elements, Jobs
  <1>2. ASSUME NEW a \in Nat, a <= Polls + Probes, NEW start \in Int, Asked(a, start)
        PROVE  /\ \E k \in Left(Polls + Probes) : heap[1] = JobAt(start, k)
               /\ start < heap[1].when /\ heap[1].when < start + Load
    <2>1. PICK k \in Left(a - Len(requests)) : heap[1] = JobAt(start, k)
      BY <1>1, <1>2 DEF Asked
    <2>2. k \in Left(Polls + Probes) /\ k \in Half
      <3>1. Len(requests) \in Nat
        BY <1>0
      <3> QED BY <1>0, <1>2, <3>1 DEF Left, Half
    <2>3. start < JobAt(start, k).when /\ JobAt(start, k).when < start + Load
      BY <2>2, JobAtFacts
    <2> QED BY <2>1, <2>2, <2>3
  <1>3. ~Asking
    <2>1. ASSUME NEW a \in Nat, a <= Polls + Probes, Asked(a, now) PROVE FALSE
      <3>1. now \in Int
        BY <1>0
      <3>2. now < heap[1].when
        BY <1>2, <2>1, <3>1
      <3> QED BY <1>0, <1>1, <3>2
    <2>2. pc # "polls"
      <3> SUFFICES ASSUME pc = "polls" PROVE FALSE
        OBVIOUS
      <3>1. PICK a \in 0..Polls : Asked(a, now)
        BY <1>1 DEF JobsInv
      <3> QED BY <1>0, <2>1, <3>1
    <2>3. pc # "probes"
      <3> SUFFICES ASSUME pc = "probes" PROVE FALSE
        OBVIOUS
      <3>1. PICK a \in 0..Probes : Asked(Polls + a, now)
        BY <1>1 DEF JobsInv
      <3>2. Polls + a \in Nat /\ Polls + a <= Polls + Probes
        BY <1>0
      <3> QED BY <2>1, <3>1, <3>2
    <2>4. pc # "subscribe"
      <3>1. Polls + Probes \in Nat /\ Polls + Probes <= Polls + Probes
        BY <1>0
      <3> QED BY <1>1, <2>1, <3>1 DEF JobsInv
    <2> QED BY <2>2, <2>3, <2>4 DEF Asking
  <1>4. pc = "load"
    BY <1>0, <1>1, <1>3 DEF JobsInv, Places, Asking, Resting, Stopping
  <1> DEFINE start == alarm - Load
  <1>5. start \in Int /\ Asked(Polls + Probes, start) /\ (requests # <<>> => now = start)
        /\ Len(rates) <= Polls /\ current_id <= Probes
    BY <1>0, <1>1, <1>4 DEF JobsInv
  <1>6. start + Load = alarm
    BY <1>0
  <1> HIDE DEF start
  <1>7. now = heap[1].when
    BY <1>0, <1>1 DEF JobsInv
  <1>8. /\ start < now /\ now < alarm
        /\ \E k \in Left(Polls + Probes) : heap[1] = JobAt(start, k)
    <2>1. Polls + Probes \in Nat /\ Polls + Probes <= Polls + Probes
      BY <1>0
    <2> QED BY <1>2, <1>5, <1>6, <1>7, <2>1
  <1>9. requests = <<>>
    BY <1>0, <1>5, <1>8
  <1>10. PICK k \in Left(Polls + Probes) : heap[1] = JobAt(start, k)
    BY <1>8
  <1>11. k \in Half /\ k \in Nat /\ ~Ran(k)
    BY <1>0, <1>10 DEF Left, Half
  <1>12. ASSUME NEW j \in Left(Polls + Probes), Job(j).to_run = Job(k).to_run
         PROVE  ~(j < k)
    <2>1. j \in Half
      BY DEF Left, Half
    <2>2. JobAt(start, j) \in Elements(heap)
      <3>1. (Polls + Probes) - Len(requests) = Polls + Probes
        BY <1>0, <1>9
      <3> QED BY <1>5, <3>1 DEF Asked
    <2>3. PICK i \in DOMAIN heap : heap[i] = JobAt(start, j)
      BY <2>2 DEF Elements
    <2>4. heap[1].when <= heap[i].when
      BY <1>0, JobsTimed, RootIsLeast
    <2>5. j < k => JobAt(start, j).when < JobAt(start, k).when
      BY <1>5, <1>11, <1>12, <2>1, JobAtFacts
    <2>6. JobAt(start, j).when \in Int /\ JobAt(start, k).when \in Int
      BY <1>5, <1>11, <2>1, JobAtFacts
    <2> QED BY <1>10, <2>3, <2>4, <2>5, <2>6
  <1>13. \A j \in Half : (j <= Polls <=> k <= Polls) => Job(j).to_run = Job(k).to_run
    BY DEF Job, Entry
  <1>14. IF k <= Polls THEN k = Len(rates) + 1 ELSE k - Polls = current_id + 1
    <2>1. CASE k <= Polls
      <3>1. k > Len(rates)
        BY <1>0, <1>11, <2>1 DEF Ran
      <3> DEFINE j == Len(rates) + 1
      <3>2. j \in Half /\ j <= Polls /\ j <= k /\ j \in Nat
        BY <1>0, <1>11, <2>1, <3>1 DEF Half
      <3>3. j \in Left(Polls + Probes)
        BY <1>0, <3>2 DEF Left, Half, Ran
      <3> HIDE DEF j
      <3>4. ~(j < k)
        BY <1>12, <1>13, <2>1, <3>2, <3>3
      <3>5. j = k
        BY <1>11, <3>2, <3>4
      <3> QED BY <2>1, <3>5 DEF j
    <2>2. CASE ~(k <= Polls)
      <3>1. k - Polls > current_id
        BY <1>0, <1>11, <2>2 DEF Ran
      <3> DEFINE j == Polls + (current_id + 1)
      <3>2. j \in Half /\ ~(j <= Polls) /\ j <= k /\ j \in Nat /\ j - Polls = current_id + 1
        BY <1>0, <1>11, <2>2, <3>1 DEF Half
      <3>3. j \in Left(Polls + Probes)
        <4>1. ~Ran(j)
          BY <1>0, <3>2 DEF Ran
        <4> QED BY <3>2, <4>1 DEF Left, Half
      <3> HIDE DEF j
      <3>4. ~(j < k)
        BY <1>12, <1>13, <2>2, <3>2, <3>3
      <3>5. j = k
        BY <1>11, <3>2, <3>4
      <3> QED BY <2>2, <3>2, <3>5
    <2> QED BY <2>1, <2>2
  <1> QED BY <1>4, <1>7, <1>8, <1>9, <1>10, <1>14 DEF start

\* When it has run, the heap holds those that are left.
LEMMA JobGone ==
    ASSUME Types, JobsInv, Due, JobDone, UNCHANGED <<pc, now, alarm, poll_time>>,
           \/ heap[1].to_run = "poll" /\ Len(rates') = Len(rates) + 1 /\ current_id' = current_id
           \/ heap[1].to_run = "probe" /\ rates' = rates /\ current_id' = current_id + 1
    PROVE  JobsInv'
  <1>0. /\ now \in Nat /\ heap \in Seq(Jobs) /\ Ordered(heap)
        /\ alarm \in Nat /\ rates \in Seq(Rates) /\ Len(rates) \in Nat /\ current_id \in Nat
        /\ Polls \in Nat /\ Probes \in Nat /\ Load \in Nat \ {0}
    BY LoopBounds, ThroughputAssumption DEF Types, SchedTypes, RunTypes, FcTypes, ProbeTypes
  <1>1. /\ pc = "load" /\ requests = <<>> /\ alarm - Load < now /\ now < alarm
    BY JobRuns
  <1>2. PICK k \in Left(Polls + Probes) :
                 /\ heap[1] = JobAt(alarm - Load, k)
                 /\ IF k <= Polls THEN k = Len(rates) + 1 ELSE k - Polls = current_id + 1
    BY JobRuns
  <1>3. sched = "wait" /\ heap # <<>> /\ heap' = Pop(heap) /\ sched' = "loop"
        /\ UNCHANGED <<requests, empty_stop>>
    BY DEF Due, JobDone
  <1> PICK start \in Int : start = alarm - Load
    BY <1>0
  <1>4. Asked(Polls + Probes, start)
    BY <1>1, <1>3 DEF JobsInv
  <1>5. /\ Len(requests) = 0 /\ DOMAIN requests = {} /\ (Polls + Probes) - 0 = Polls + Probes
    BY <1>0, <1>1
  <1>6. Elements(heap) = {JobAt(start, j) : j \in Left(Polls + Probes)} /\ Distinct(heap)
    BY <1>4, <1>5 DEF Asked
  <1>7. k \in Half /\ k \in Nat
    BY <1>0, <1>2 DEF Left, Half
  <1>8. /\ Elements(Pop(heap)) = Elements(heap) \ {heap[1]} /\ Distinct(Pop(heap))
    BY <1>0, <1>3, <1>6, JobsTimed, PopHeap
  <1>9. /\ heap[1].to_run = "poll" <=> k <= Polls
        /\ heap[1].to_run = "probe" <=> ~(k <= Polls)
    <2>1. JobAt(start, k).to_run = Job(k).to_run
          /\ (Job(k).to_run = "poll" <=> k <= Polls)
          /\ (Job(k).to_run = "probe" <=> ~(k <= Polls))
      BY <1>7, JobAtFacts
    <2> QED BY <1>2, <2>1
  <1>10. Left(Polls + Probes)' = Left(Polls + Probes) \ {k}
    <2>1. ASSUME NEW j \in Half PROVE Ran(j)' <=> Ran(j) \/ j = k
      <3>0. j \in Nat
        BY <1>0 DEF Half
      <3>1. CASE k <= Polls
        <4>1. k = Len(rates) + 1 /\ Len(rates') = Len(rates) + 1 /\ current_id' = current_id
          BY <1>2, <1>9, <3>1
        <4> QED BY <1>0, <1>7, <3>0, <3>1, <4>1 DEF Ran
      <3>2. CASE ~(k <= Polls)
        <4>1. k - Polls = current_id + 1 /\ rates' = rates /\ current_id' = current_id + 1
          BY <1>2, <1>9, <3>2
        <4> QED BY <1>0, <1>7, <3>0, <3>2, <4>1 DEF Ran
      <3> QED BY <3>1, <3>2
    <2> QED BY <2>1 DEF Left, Half
  <1>11. \A j \in Half : JobAt(start, j) = JobAt(start, k) => j = k
    BY <1>7, JobAtFacts
  <1>12. Elements(heap') = {JobAt(start, j) : j \in Left(Polls + Probes)'}
    <2>1. Left(Polls + Probes) \subseteq Half
      BY DEF Left, Half
    <2>2. heap[1] = JobAt(start, k)
      BY <1>2
    <2> QED BY <1>2, <1>3, <1>6, <1>8, <1>10, <1>11, <2>1, <2>2
  <1>13. Asked(Polls + Probes, start)'
    <2>1. requests' = <<>> /\ Len(requests') = 0 /\ DOMAIN requests' = {}
      BY <1>1, <1>3, <1>5
    <2>2. Distinct(heap')
      BY <1>3, <1>8
    <2>3. (Polls + Probes) - Len(requests') = Polls + Probes /\ Len(requests') <= Polls + Probes
      BY <1>0, <2>1
    <2>4. Elements(heap') = {JobAt(start, j) : j \in Left((Polls + Probes) - Len(requests))'}
      BY <1>12, <2>3
    <2> QED BY <2>1, <2>2, <2>3, <2>4 DEF Asked
  <1>14. \A i \in DOMAIN heap' : heap'[i].when >= now
    <2>1. \A i \in DOMAIN heap : heap[i].when >= now
      BY <1>3 DEF JobsInv
    <2> QED BY <1>3, <1>8, <2>1 DEF Elements
  <1>15. Len(rates') <= Polls /\ current_id' <= Probes
    <2>1. Len(rates) <= Polls /\ current_id <= Probes
      BY <1>1, <1>3 DEF JobsInv
    <2>2. ~(k <= Polls) => k - Polls <= Probes
      BY <1>0, <1>7 DEF Half
    <2> QED BY <1>0, <1>2, <1>9, <2>1, <2>2
  <1>16. ~empty_stop' /\ sched' # "done" /\ pc' = "load" /\ requests' = <<>>
    BY <1>1, <1>3 DEF JobsInv, Stopping
  <1>17. alarm' - Load <= now' /\ now' <= alarm'
    BY <1>0, <1>1
  <1> QED
    BY <1>13, <1>14, <1>15, <1>16, <1>17 DEF JobsInv, Asking, Resting, Stopping

-----------------------------------------------------------------------------
(* JobsInv is kept *)

\* JobsInv is kept when the clock moves: no job is passed over ...
LEMMA JobsTick ==
    ASSUME Punctual, Types, JobsInv, Tick
    PROVE  JobsInv'
  <1> SUFFICES ASSUME sched' # "threw" PROVE JobsInv'
    BY DEF JobsInv
  <1>0. /\ now \in Nat /\ alarm \in Nat /\ heap \in Seq(Jobs) /\ Ordered(heap) /\ Load \in Nat
        /\ sched \in {"loop", "wait", "done", "threw"} /\ pc \in Places
    BY ThroughputAssumption DEF Types, SchedTypes, RunTypes
  <1>1. /\ UNCHANGED <<requests, heap, empty_stop, sched, pc, alarm, poll_time, rates, current_id>>
        /\ now' = now + 1 /\ ~RunBusy /\ ~SchedulerBusy /\ sched # "threw"
    BY DEF Tick, schedulerVars, runVars, countVars
  <1>2. ~Asking /\ (pc = "load" => now < alarm)
    BY <1>0, <1>1 DEF RunBusy, Asking
  <1>3. \A i \in DOMAIN heap : heap[i].when >= now + 1
    <2> SUFFICES ASSUME NEW i \in DOMAIN heap PROVE heap[i].when >= now + 1
      OBVIOUS
    <2>1. heap # <<>> /\ 1 \in DOMAIN heap /\ heap[1] \in Jobs /\ heap[i] \in Jobs
      BY <1>0
    <2>2. heap[1].when <= heap[i].when
      BY <1>0, JobsTimed, RootIsLeast
    <2>3. sched # "done"
      BY <1>0, <1>1, <1>2, <2>1 DEF JobsInv, Places, Asking, Resting, Stopping
    <2>4. ~(heap[1].when <= now)
      BY <1>0, <1>1, <2>1, <2>3 DEF SchedulerBusy, Due
    <2> QED BY <1>0, <2>1, <2>2, <2>4 DEF Jobs
  <1>4. pc = "load" => requests = <<>>
    BY <1>0, <1>1 DEF JobsInv, Stopping, SchedulerBusy
  <1>5. ASSUME NEW start \in Int, pc = "load", Asked(Polls + Probes, start)
        PROVE  Asked(Polls + Probes, start)'
    <2>1. \A n : Left(n)' = Left(n)
      BY <1>1 DEF Left, Ran
    <2> QED BY <1>1, <1>5, <2>1 DEF Asked
  <1>6. pc = "load" => Asked(Polls + Probes, alarm - Load)'
    BY <1>0, <1>1, <1>5 DEF JobsInv
  <1>7. pc = "load" => alarm - Load <= now + 1 /\ now + 1 <= alarm
    BY <1>0, <1>1, <1>2 DEF JobsInv
  <1> QED
    BY <1>1, <1>2, <1>3, <1>4, <1>6, <1>7 DEF JobsInv, Asking, Resting, Stopping

\* ... by what does not concern the jobs ...
LEMMA JobsElse ==
    ASSUME JobsInv,
           UNCHANGED <<requests, heap, empty_stop, now, pc, alarm, poll_time, rates, current_id>>,
           sched' = sched \/ (sched = "loop" /\ sched' = "wait") \/ sched' = "threw"
           \/ (sched = "loop" /\ sched' = "done" /\ empty_stop)
    PROVE  JobsInv'
  <1>1. \A a, start : Asked(a, start) => Asked(a, start)'
    <2>1. \A n : Left(n)' = Left(n)
      BY DEF Left, Ran
    <2> QED BY <2>1 DEF Asked
  <1> SUFFICES ASSUME sched' # "threw" PROVE JobsInv'
    BY DEF JobsInv
  <1>2. sched # "threw"
    OBVIOUS
  <1>3. pc = "polls" => \E a \in 0..Polls : poll_time = PollEvery * (a + 1) /\ Asked(a, now)'
    BY <1>1, <1>2 DEF JobsInv
  <1>4. pc = "probes" => \E a \in 0..Probes : poll_time = ProbeEvery * (a + 1) /\ Asked(Polls + a, now)'
    BY <1>1, <1>2 DEF JobsInv
  <1>5. /\ pc = "subscribe" => Asked(Polls + Probes, now)'
        /\ pc = "load" => Asked(Polls + Probes, alarm - Load)'
    BY <1>1, <1>2 DEF JobsInv
  <1>6. ~Stopping => sched' # "done"
    BY <1>2 DEF JobsInv
  <1> QED
    BY <1>2, <1>3, <1>4, <1>5, <1>6 DEF JobsInv, Asking, Resting, Stopping

\* ... when a request is taken ...
LEMMA JobsTaken ==
    ASSUME Types, JobsInv, TakeRequest, UNCHANGED <<now, pc, alarm, poll_time, rates, current_id>>
    PROVE  JobsInv'
  <1>0. /\ now \in Nat /\ pc \in Places /\ requests \in Seq(Requests) /\ heap \in Seq(Jobs)
        /\ Polls \in Nat /\ Probes \in Nat
    BY LoopBounds DEF Types, SchedTypes, RunTypes
  <1>1. /\ requests # <<>> /\ sched = "wait" /\ requests' = Tail(requests) /\ Handle(Head(requests))
        /\ empty_stop' = empty_stop
    BY DEF TakeRequest
  <1>2. ~Resting
    BY <1>1 DEF JobsInv
  <1>3. ASSUME NEW a \in Nat, a <= Polls + Probes, rates = <<>>, current_id = 0, Asked(a, now)
        PROVE  Asked(a, now)' /\ sched' = "loop" /\ \A i \in DOMAIN heap' : heap'[i].when >= now
    <2>1. \A i \in DOMAIN heap : heap[i].when >= now
      BY <1>1 DEF JobsInv
    <2> QED BY <1>3, <2>1, TakeAsked
  <1>4. CASE Asking \/ pc = "load"
    <2>1. rates = <<>> /\ current_id = 0 /\ ~empty_stop /\ (pc = "load" => now = alarm - Load)
      BY <1>1, <1>4 DEF JobsInv, Asking, Stopping
    <2>2. CASE pc = "polls"
      <3>1. PICK a \in 0..Polls : poll_time = PollEvery * (a + 1) /\ Asked(a, now)
        BY <1>1, <2>2 DEF JobsInv
      <3>2. a \in Nat /\ a <= Polls + Probes
        BY <1>0
      <3>3. Asked(a, now)' /\ sched' = "loop" /\ \A i \in DOMAIN heap' : heap'[i].when >= now
        BY <1>3, <2>1, <3>1, <3>2
      <3> QED BY <1>1, <2>1, <2>2, <3>1, <3>3 DEF JobsInv, Asking, Resting, Stopping
    <2>3. CASE pc = "probes"
      <3>1. PICK a \in 0..Probes : poll_time = ProbeEvery * (a + 1) /\ Asked(Polls + a, now)
        BY <1>1, <2>3 DEF JobsInv
      <3>2. Polls + a \in Nat /\ Polls + a <= Polls + Probes
        BY <1>0
      <3>3. Asked(Polls + a, now)' /\ sched' = "loop" /\ \A i \in DOMAIN heap' : heap'[i].when >= now
        BY <1>3, <2>1, <3>1, <3>2
      <3> QED BY <1>1, <2>1, <2>3, <3>1, <3>3 DEF JobsInv, Asking, Resting, Stopping
    <2>4. Polls + Probes \in Nat /\ Polls + Probes <= Polls + Probes
      BY <1>0
    <2>5. CASE pc = "subscribe"
      <3>1. Asked(Polls + Probes, now)
        BY <1>1, <2>5 DEF JobsInv
      <3>2. Asked(Polls + Probes, now)' /\ sched' = "loop" /\ \A i \in DOMAIN heap' : heap'[i].when >= now
        BY <1>3, <2>1, <2>4, <3>1
      <3> QED BY <1>1, <2>1, <2>5, <3>2 DEF JobsInv, Asking, Resting, Stopping
    <2>6. CASE pc = "load"
      <3>1. /\ Asked(Polls + Probes, now) /\ now = alarm - Load /\ alarm - Load <= now /\ now <= alarm
            /\ Len(rates) <= Polls /\ current_id <= Probes
        BY <1>1, <2>1, <2>6 DEF JobsInv
      <3>2. Asked(Polls + Probes, now)' /\ sched' = "loop" /\ \A i \in DOMAIN heap' : heap'[i].when >= now
        BY <1>3, <2>1, <2>4, <3>1
      <3>3. Asked(Polls + Probes, alarm - Load)'
        BY <3>1, <3>2
      <3> QED BY <1>1, <2>1, <2>6, <3>1, <3>2, <3>3 DEF JobsInv, Asking, Resting, Stopping
    <2> QED BY <1>4, <2>2, <2>3, <2>5, <2>6 DEF Asking
  <1>5. CASE Stopping
    <2>1. heap = <<>> /\ \A i \in DOMAIN requests : requests[i].typ # "SCHEDULE"
      BY <1>1, <1>5 DEF JobsInv
    <2>2. 1 \in DOMAIN requests /\ Head(requests) = requests[1]
          /\ \A i \in DOMAIN requests' : i + 1 \in DOMAIN requests /\ requests'[i] = requests[i + 1]
      BY <1>0, <1>1, TailCommand
    <2>3. heap' = <<>> /\ sched' \in {"done", "loop"}
      BY <1>1, <2>1, <2>2 DEF Handle
    <2>4. \A i \in DOMAIN requests' : requests'[i].typ # "SCHEDULE"
      BY <2>1, <2>2
    <2> QED BY <1>5, <2>3, <2>4 DEF JobsInv, Asking, Resting, Stopping
  <1> QED BY <1>0, <1>2, <1>4, <1>5 DEF Places, Asking, Resting, Stopping

\* ... in the loops that ask for the jobs ...
LEMMA JobsAsking ==
    ASSUME Types, JobsInv, SchedulePoll \/ ScheduleProbe \/ Subscribe
    PROVE  JobsInv'
  <1> USE DEF Go, Sleep, schedulerVars, runVars, countVars, probeVars
  <1> SUFFICES ASSUME sched' # "threw" PROVE JobsInv'
    BY DEF JobsInv
  <1>0. /\ now \in Nat /\ now \in Int /\ poll_time \in Nat
        /\ Polls \in Nat /\ Probes \in Nat /\ Load \in Nat \ {0}
    BY LoopBounds, ThroughputAssumption DEF Types, SchedTypes, RunTypes
  <1>1. /\ UNCHANGED <<now, heap, empty_stop, sched, rates, current_id>> /\ sched # "threw"
        /\ pc \in {"polls", "probes", "subscribe"}
    BY DEF SchedulePoll, ScheduleProbe, Subscribe
  <1>2. /\ rates = <<>> /\ current_id = 0 /\ \A i \in DOMAIN heap : heap[i].when >= now
        /\ ~empty_stop /\ sched # "done"
    BY <1>1 DEF JobsInv, Asking, Stopping
  <1>3. CASE SchedulePoll
    <2>1. PICK a \in 0..Polls : poll_time = PollEvery * (a + 1) /\ Asked(a, now)
      BY <1>1, <1>3 DEF JobsInv, SchedulePoll
    <2>2. CASE poll_time < Load
      <3>1. a < Polls /\ a \in Nat /\ a + 1 \in 0..Polls /\ a + 1 <= Polls /\ a < Polls + Probes
        BY <1>0, <2>1, <2>2, LoopBounds
      <3>2. /\ requests' = Append(requests, Schedule("poll", poll_time)) /\ pc' = "polls"
            /\ poll_time' = PollEvery * (a + 1) + PollEvery
        BY <1>3, <2>1, <2>2 DEF SchedulePoll, Request
      <3>3. Job(a + 1) = Entry("poll", PollEvery * (a + 1))
        <4>1. a + 1 \in 1..Polls
          BY <3>1
        <4> QED BY <4>1, JobFacts
      <3>4. requests' = Append(requests, [typ |-> "SCHEDULE", entry |-> Job(a + 1)])
        BY <2>1, <3>2, <3>3 DEF Schedule
      <3>5. Asked(a + 1, now)'
        BY <1>0, <1>1, <2>1, <3>1, <3>4, AskMore
      <3>6. poll_time' = PollEvery * ((a + 1) + 1)
        BY <2>1, <3>2, LoopBounds
      <3> QED BY <1>1, <1>2, <3>1, <3>2, <3>5, <3>6 DEF JobsInv, Asking, Resting, Stopping
    <2>3. CASE ~(poll_time < Load)
      <3>1. a = Polls /\ 0 \in 0..Probes /\ Polls + 0 = Polls
        BY <1>0, <2>1, <2>3, LoopBounds
      <3>2. UNCHANGED requests /\ pc' = "probes" /\ poll_time' = ProbeEvery
        BY <1>3, <2>3 DEF SchedulePoll
      <3>3. Asked(Polls + 0, now)'
        BY <1>1, <2>1, <3>1, <3>2 DEF Asked, Left, Ran
      <3>4. poll_time' = ProbeEvery * (0 + 1)
        BY <3>2, ThroughputAssumption
      <3> QED BY <1>1, <1>2, <3>1, <3>2, <3>3, <3>4 DEF JobsInv, Asking, Resting, Stopping
    <2> QED BY <2>2, <2>3
  <1>4. CASE ScheduleProbe
    <2>1. PICK a \in 0..Probes : poll_time = ProbeEvery * (a + 1) /\ Asked(Polls + a, now)
      BY <1>1, <1>4 DEF JobsInv, ScheduleProbe
    <2>2. CASE poll_time < Load
      <3>1. a < Probes /\ a + 1 \in 0..Probes /\ Polls + a \in Nat /\ Polls + a < Polls + Probes
            /\ (Polls + a) + 1 = Polls + (a + 1)
        BY <1>0, <2>1, <2>2, LoopBounds
      <3>2. /\ requests' = Append(requests, Schedule("probe", poll_time)) /\ pc' = "probes"
            /\ poll_time' = ProbeEvery * (a + 1) + ProbeEvery
        BY <1>4, <2>1, <2>2 DEF ScheduleProbe, Request
      <3>3. Job(Polls + (a + 1)) = Entry("probe", ProbeEvery * (a + 1))
        <4>1. a + 1 \in 1..Probes
          BY <3>1
        <4> QED BY <4>1, JobFacts
      <3>4. requests' = Append(requests, [typ |-> "SCHEDULE", entry |-> Job((Polls + a) + 1)])
        BY <2>1, <3>1, <3>2, <3>3 DEF Schedule
      <3>5. Asked((Polls + a) + 1, now)'
        BY <1>0, <1>1, <2>1, <3>1, <3>4, AskMore
      <3>6. poll_time' = ProbeEvery * ((a + 1) + 1)
        BY <2>1, <3>2, LoopBounds
      <3>7. Asked(Polls + (a + 1), now)'
        BY <3>1, <3>5
      <3> QED BY <1>1, <1>2, <3>1, <3>2, <3>6, <3>7 DEF JobsInv, Asking, Resting, Stopping
    <2>3. CASE ~(poll_time < Load)
      <3>1. a = Probes
        BY <1>0, <2>1, <2>3, LoopBounds
      <3>2. UNCHANGED requests /\ pc' = "subscribe"
        BY <1>4, <2>3 DEF ScheduleProbe
      <3>3. Asked(Polls + Probes, now)'
        BY <1>1, <2>1, <3>1, <3>2 DEF Asked, Left, Ran
      <3> QED BY <1>1, <1>2, <3>2, <3>3 DEF JobsInv, Asking, Resting, Stopping
    <2> QED BY <2>2, <2>3
  <1>5. CASE Subscribe
    <2>1. /\ pc = "subscribe" /\ pc' = "load" /\ UNCHANGED requests /\ alarm' = now + Load
          /\ alarm' - Load = now /\ now <= alarm'
      BY <1>0, <1>5 DEF Subscribe
    <2>2. Asked(Polls + Probes, now)
      BY <1>1, <2>1 DEF JobsInv
    <2>3. Asked(Polls + Probes, now)'
      BY <1>1, <2>1, <2>2 DEF Asked, Left, Ran
    <2>4. Asked(Polls + Probes, alarm - Load)'
      BY <1>1, <2>1, <2>3
    <2>5. Len(rates') <= Polls /\ current_id' <= Probes /\ alarm' - Load <= now' /\ now' <= alarm'
      BY <1>0, <1>1, <1>2, <2>1
    <2> QED BY <1>1, <1>2, <2>1, <2>4, <2>5 DEF JobsInv, Asking, Resting, Stopping
  <1> QED BY <1>3, <1>4, <1>5

\* (At the end of a half all jobs have run.)
LEMMA JobsOver ==
    ASSUME Types, JobsInv, sched # "threw", pc = "load", now >= alarm
    PROVE  /\ heap = <<>> /\ requests = <<>> /\ Len(rates) = Polls /\ current_id = Probes
           /\ now = alarm
  <1>0. /\ now \in Nat /\ alarm \in Nat /\ heap \in Seq(Jobs) /\ requests \in Seq(Requests)
        /\ Polls \in Nat /\ Probes \in Nat /\ Load \in Nat \ {0}
        /\ rates \in Seq(Rates) /\ Len(rates) \in Nat /\ current_id \in Nat
    BY LoopBounds, ThroughputAssumption DEF Types, SchedTypes, RunTypes, FcTypes, ProbeTypes
  <1> PICK start \in Int : start = alarm - Load
    BY <1>0
  <1>1. /\ now = alarm /\ Asked(Polls + Probes, start) /\ Len(rates) <= Polls /\ current_id <= Probes
        /\ \A i \in DOMAIN heap : heap[i].when >= now
    BY <1>0 DEF JobsInv
  <1>2. requests = <<>> /\ Len(requests) = 0
    BY <1>0, <1>1 DEF JobsInv
  <1>3. Elements(heap) = {JobAt(start, k) : k \in Left(Polls + Probes)}
    <2>1. (Polls + Probes) - Len(requests) = Polls + Probes
      BY <1>0, <1>2
    <2> QED BY <1>1, <2>1 DEF Asked
  <1>4. Left(Polls + Probes) = {}
    <2> SUFFICES ASSUME NEW k \in Left(Polls + Probes) PROVE FALSE
      OBVIOUS
    <2>1. PICK i \in DOMAIN heap : heap[i] = JobAt(start, k)
      BY <1>3 DEF Elements
    <2>2. k \in Half
      BY DEF Left, Half
    <2>3. JobAt(start, k).when \in Int /\ JobAt(start, k).when < start + Load
      BY <2>2, JobAtFacts
    <2>4. start + Load = alarm
      BY <1>0
    <2> QED BY <1>0, <1>1, <2>1, <2>3, <2>4
  <1>5. heap = <<>>
    <2>1. Elements(heap) = {}
      BY <1>3, <1>4
    <2>2. DOMAIN heap = {}
      BY <2>1 DEF Elements
    <2> QED BY <1>0, <2>2
  <1>6. Len(rates) = Polls
    <2> SUFFICES ASSUME Polls > 0 PROVE Polls <= Len(rates)
      BY <1>0, <1>1
    <2>1. Polls \in 1..(Polls + Probes)
      BY <1>0
    <2>2. Ran(Polls)
      BY <1>4, <2>1 DEF Left
    <2> QED BY <1>0, <2>2 DEF Ran
  <1>7. current_id = Probes
    <2> SUFFICES ASSUME Probes > 0 PROVE Probes <= current_id
      BY <1>0, <1>1
    <2>1. Polls + Probes \in 1..(Polls + Probes) /\ ~(Polls + Probes <= Polls)
          /\ (Polls + Probes) - Polls = Probes
      BY <1>0
    <2>2. Ran(Polls + Probes)
      BY <1>4, <2>1 DEF Left
    <2> QED BY <1>0, <2>1, <2>2 DEF Ran
  <1> QED BY <1>1, <1>2, <1>5, <1>6, <1>7

\* ... by run() ...
LEMMA JobsRun ==
    ASSUME Types, JobsInv, RunThread
    PROVE  JobsInv'
  <1> USE DEF Go, SleepOver, Sleep, schedulerVars, runVars, countVars, probeVars
  <1> SUFFICES ASSUME sched' # "threw" PROVE JobsInv'
    BY DEF JobsInv
  <1>0. sched # "threw"
    BY DEF RunThread, Connect, SchedulePoll, ScheduleProbe, Subscribe, LoadOver, Collect,
        Harvest, ClearProbes, ClearBytes, ClearRates, RestOver, StopOnEmpty, WakeScheduler, StopFc,
        StopScheduler, Report
  <1>1. Polls \in Nat /\ Probes \in Nat /\ 0 \in 0..Polls /\ PollEvery = PollEvery * (0 + 1)
        /\ requests \in Seq(Requests)
    BY LoopBounds, ThroughputAssumption DEF Types, SchedTypes
  <1>2. ASSUME NEW t, heap = <<>>, requests = <<>>, heap' = <<>>, requests' = <<>>
        PROVE  Asked(0, t)'
    <2>1. Left(0 - 0)' = {}
      BY DEF Left
    <2>2. Len(requests') = 0 /\ DOMAIN requests' = {} /\ Elements(heap') = {} /\ Distinct(heap')
      BY <1>2 DEF Elements, Distinct
    <2> QED BY <2>1, <2>2 DEF Asked
  <1>3. CASE Connect
    <2>1. /\ heap = <<>> /\ requests = <<>> /\ UNCHANGED <<heap, requests, now, rates, current_id, empty_stop, sched>>
          /\ rates = <<>> /\ current_id = 0 /\ ~empty_stop /\ sched # "done"
      BY <1>0, <1>3 DEF JobsInv, Connect, Resting, Stopping
    <2>2. CASE pc' = "threw"
      BY <2>1, <2>2 DEF JobsInv, Asking, Resting, Stopping
    <2>3. CASE pc' = "polls" /\ poll_time' = PollEvery
      <3>1. Asked(0, now)'
        BY <1>2, <2>1
      <3> QED BY <1>1, <2>1, <2>3, <3>1 DEF JobsInv, Asking, Resting, Stopping
    <2> QED BY <1>3, <2>2, <2>3 DEF Connect
  <1>4. CASE SchedulePoll \/ ScheduleProbe \/ Subscribe
    BY <1>4, JobsAsking
  <1>5. CASE LoadOver
    <2>1. /\ pc = "load" /\ now >= alarm /\ pc' = "collect"
          /\ UNCHANGED <<heap, requests, now, rates, current_id, empty_stop, sched>>
      BY <1>5 DEF LoadOver
    <2>2. heap = <<>> /\ requests = <<>> /\ Len(rates) = Polls /\ current_id = Probes
      BY <1>0, <2>1, JobsOver
    <2>3. ~empty_stop /\ sched # "done"
      BY <1>0, <2>1 DEF JobsInv, Stopping
    <2> QED BY <2>1, <2>2, <2>3 DEF JobsInv, Asking, Resting, Stopping
  <1>6. CASE Collect \/ ClearProbes \/ ClearBytes \/ ClearRates
    <2>1. /\ heap = <<>> /\ requests = <<>> /\ ~empty_stop /\ sched # "done"
          /\ UNCHANGED <<heap, requests, now, empty_stop, sched>>
      BY <1>0, <1>6 DEF JobsInv, Resting, Stopping, Collect, ClearProbes, ClearBytes, ClearRates
    <2>2. CASE Collect
      BY <1>0, <2>1, <2>2 DEF JobsInv, Collect, Asking, Resting, Stopping
    <2>3. CASE ClearProbes
      BY <1>0, <2>1, <2>3 DEF JobsInv, ClearProbes, Asking, Resting, Stopping
    <2>4. CASE ClearBytes
      BY <1>0, <2>1, <2>4 DEF JobsInv, ClearBytes, Asking, Resting, Stopping
    <2>5. CASE ClearRates
      BY <1>0, <2>1, <2>5 DEF JobsInv, ClearRates, Asking, Resting, Stopping
    <2> QED BY <1>6, <2>2, <2>3, <2>4, <2>5
  <1>7. CASE Harvest
    <2>1. /\ heap = <<>> /\ requests = <<>> /\ ~empty_stop /\ sched # "done"
          /\ UNCHANGED <<heap, requests, now, empty_stop, sched, rates, current_id>>
          /\ pc' \in {"stopOnEmpty", "clearProbes"}
      BY <1>0, <1>7 DEF JobsInv, Resting, Stopping, Harvest
    <2> QED BY <2>1 DEF JobsInv, Asking, Resting, Stopping
  <1>8. CASE RestOver
    <2>1. /\ heap = <<>> /\ requests = <<>> /\ UNCHANGED <<heap, requests, now, rates, current_id, empty_stop, sched>>
          /\ rates = <<>> /\ current_id = 0 /\ ~empty_stop /\ sched # "done"
          /\ pc' = "polls" /\ poll_time' = PollEvery
      BY <1>0, <1>8 DEF JobsInv, RestOver, Resting, Stopping
    <2>2. Asked(0, now)'
      BY <1>2, <2>1
    <2> QED BY <1>1, <2>1, <2>2 DEF JobsInv, Asking, Resting, Stopping
  <1>9. CASE StopOnEmpty \/ WakeScheduler \/ StopFc \/ StopScheduler \/ Report
    <2>1. /\ heap = <<>> /\ \A i \in DOMAIN requests : requests[i].typ # "SCHEDULE"
      BY <1>0, <1>9 DEF JobsInv, Stopping, StopOnEmpty, WakeScheduler, StopFc, StopScheduler, Report
    <2>2. /\ heap' = heap /\ Stopping'
          /\ requests' = requests \/ requests' = Append(requests, Continue) \/ requests' = Append(requests, Exit)
      BY <1>9 DEF StopOnEmpty, WakeScheduler, StopFc, StopScheduler, Report, Stopping, Request
    <2>3. \A i \in DOMAIN requests' : requests'[i].typ # "SCHEDULE"
      <3>1. Continue.typ # "SCHEDULE" /\ Exit.typ # "SCHEDULE"
        BY DEF Continue, Exit
      <3> HIDE DEF Continue, Exit
      <3> QED BY <1>1, <2>1, <2>2, <3>1, AppendCommand
    <2>4. DOMAIN heap' = {}
      BY <2>1, <2>2
    <2> QED BY <2>1, <2>2, <2>3, <2>4 DEF JobsInv, Asking, Resting, Stopping
  <1> QED BY <1>3, <1>4, <1>5, <1>6, <1>7, <1>8, <1>9 DEF RunThread

\* ... and so by every step.
LEMMA JobsStep ==
    ASSUME Punctual, Types, JobsInv, Next
    PROVE  JobsInv'
  <1> USE DEF schedulerVars, runVars, countVars, probeVars
  <1>1. CASE SchedulerLoop
    <2>1. CASE LoopTest
      <3>1. /\ sched = "loop" /\ (sched' = "wait" \/ (sched' = "done" /\ empty_stop))
            /\ UNCHANGED <<requests, heap, empty_stop, now, pc, alarm, poll_time, rates, current_id>>
        BY <1>1, <2>1 DEF SchedulerLoop, LoopTest
      <3> QED BY <3>1, JobsElse
    <2>2. CASE TakeRequest
      BY <1>1, <2>2, JobsTaken DEF SchedulerLoop
    <2> QED BY <1>1, <2>1, <2>2 DEF SchedulerLoop
  <1>2. CASE Poll
    <2>1. Due /\ JobDone /\ UNCHANGED <<pc, now, alarm, poll_time>> /\ heap[1].to_run = "poll"
          /\ Len(rates') = Len(rates) + 1 /\ current_id' = current_id
      BY <1>2 DEF Poll, Types, FcTypes
    <2> QED BY <2>1, JobGone
  <1>3. CASE Probe
    <2>1. Due /\ JobDone /\ UNCHANGED <<pc, now, alarm, poll_time>> /\ heap[1].to_run = "probe"
          /\ rates' = rates /\ current_id' = current_id + 1
      BY <1>3 DEF Probe
    <2> QED BY <2>1, JobGone
  <1>4. CASE ProbeThrows \/ FcThread \/ Transfer \/ WriteThrows \/ \E p \in in_flight : Answer(p)
    <2>1. /\ UNCHANGED <<requests, heap, empty_stop, now, pc, alarm, poll_time, rates, current_id>>
          /\ sched' = sched \/ sched' = "threw"
      BY <1>4 DEF ProbeThrows, FcThread, FcCommand, CountBytes, Transfer, WriteThrows, Answer
    <2> QED BY <2>1, JobsElse
  <1> QED BY <1>1, <1>2, <1>3, <1>4, JobsRun, JobsTick DEF Next, SchedulerThread

-----------------------------------------------------------------------------
(* The identifiers, the report and the answers *)

\* No identifier exceeds the number of probes.
IdInv ==
    /\ current_id <= Probes
    /\ \A p \in in_flight : p.id < Probes
    /\ \A id \in DOMAIN latency : id < Probes

\* Where run() is after the rates of a half are collected and before it
\* counts as the next one.
Collected == {"harvest", "clearProbes", "clearBytes", "clearRates"}

\* What is in the report by now.
ResultsInv ==
    /\ pc \in {"connect", "threw", "clearProbes", "clearBytes", "clearRates"} => ~upload
    /\ Stopping \/ pc = "rest" => upload
    /\ Len(results) = (IF upload THEN 1 ELSE 0) + (IF Stopping \/ pc \in Collected THEN 1 ELSE 0)
    /\ sched # "threw" =>
        \A half \in DOMAIN results :
            /\ Len(results[half].rates) = Polls
            /\ \/ pc = "harvest" /\ half = Len(results)
               \/ Len(results[half].latencies) = Probes

\* The table has the probe under its identifier; it was sent longer ago than
\* the pause.
Own(p) == p.id \in DOMAIN sent_times /\ sent_times[p.id] = p.sent
Outstayed(p) == now > p.sent + Pause

\* What is on its way was sent by the probe it would be filed under, or has
\* outstayed the pause: when the table is reset, the pause is over that began
\* after the last probe.
AnswerInv ==
    /\ \A p \in in_flight : Own(p) \/ Outstayed(p)
    /\ Asking \/ Clearing \/ pc \in {"connect", "threw"} => \A p \in in_flight : Outstayed(p)
    /\ pc = "load" => \A p \in in_flight : p.sent < alarm
    /\ pc = "collect" => \A p \in in_flight : p.sent < now
    /\ pc = "harvest" => \A p \in in_flight : p.sent < alarm - Pause
    /\ AnswersMatched

\* IdInv is kept.
LEMMA IdStep ==
    ASSUME Types, JobsInv, JobsInv', IdInv, Next
    PROVE  IdInv'
  <1> USE DEF probeVars
  <1>0. current_id \in Nat /\ Probes \in Nat /\ in_flight \subseteq [id : Nat, sent : Nat]
    BY LoopBounds DEF Types, ProbeTypes
  <1>1. CASE ClearProbes
    BY <1>0, <1>1 DEF ClearProbes, IdInv
  <1>2. CASE Probe
    <2>1. /\ current_id' = current_id + 1 /\ latency' = latency /\ pc' = pc /\ sched' = "loop"
          /\ in_flight' = in_flight \cup {[id |-> current_id, sent |-> now]} /\ Due
      BY <1>2 DEF Probe, JobDone, runVars
    <2>2. current_id' <= Probes
      <3>1. pc' = "load"
        BY <2>1, JobRuns
      <3> QED BY <2>1, <3>1 DEF JobsInv
    <2>3. \A p \in in_flight' : p.id < Probes
      BY <1>0, <2>1, <2>2 DEF IdInv
    <2> QED BY <2>1, <2>2, <2>3 DEF IdInv
  <1>3. ASSUME NEW p \in in_flight, Answer(p) PROVE IdInv'
    <2>1. /\ DOMAIN latency' = DOMAIN latency \cup {p.id} /\ in_flight' = in_flight \ {p}
          /\ current_id' = current_id
      BY <1>3 DEF Answer, Put
    <2> QED BY <2>1 DEF IdInv
  <1>4. CASE Tick
    BY <1>4 DEF Tick, IdInv
  <1>5. CASE RunThread /\ ~ClearProbes
    BY <1>5
    DEF RunThread, Connect, SchedulePoll, ScheduleProbe, Subscribe, LoadOver, Collect,
        Harvest, ClearBytes, ClearRates, RestOver, StopOnEmpty, WakeScheduler, StopFc,
        StopScheduler, Report, IdInv
  <1>6. CASE SchedulerLoop \/ Poll \/ ProbeThrows \/ FcThread \/ Transfer \/ WriteThrows
    BY <1>6 DEF SchedulerLoop, Poll, ProbeThrows, FcThread, FcCommand, CountBytes, Transfer, WriteThrows, IdInv
  <1> QED BY <1>1, <1>2, <1>3, <1>4, <1>5, <1>6 DEF Next, SchedulerThread

\* ResultsInv is kept.
LEMMA ResultsStep ==
    ASSUME Types, JobsInv, ResultsInv, Next
    PROVE  ResultsInv'
  <1> USE DEF Go, SleepOver, Sleep, schedulerVars, runVars, countVars
  <1>0. /\ results \in Seq(Halves) /\ Len(results) \in Nat /\ DOMAIN results = 1..Len(results)
        /\ upload \in BOOLEAN /\ current_id \in Nat /\ Polls \in Nat /\ Probes \in Nat
    BY LoopBounds DEF Types, RunTypes, ProbeTypes
  <1>1. CASE Collect
    <2> DEFINE h == [rates |-> rates, latencies |-> <<>>]
    <2>1. /\ pc = "collect" /\ pc' = "harvest" /\ results' = Append(results, h)
          /\ UNCHANGED <<upload, sched>>
      BY <1>1 DEF Collect
    <2>2. sched # "threw" => Len(h.rates) = Polls
      BY <2>1 DEF JobsInv
    <2>3. /\ Len(results') = Len(results) + 1 /\ DOMAIN results' = 1..(Len(results) + 1)
          /\ \A i \in 1..Len(results) : results'[i] = results[i]
          /\ results'[Len(results) + 1] = h
      BY <1>0, <2>1, AppendCommand
    <2> HIDE DEF h
    <2>4. Len(results') = (IF upload THEN 1 ELSE 0) + 1
      BY <1>0, <2>1, <2>3 DEF ResultsInv, Stopping, Collected
    <2>5. ASSUME sched # "threw", NEW half \in DOMAIN results'
          PROVE  /\ Len(results'[half].rates) = Polls
                 /\ half = Len(results') \/ Len(results'[half].latencies) = Probes
      <3>1. CASE half = Len(results')
        BY <2>2, <2>3, <2>5, <3>1
      <3>2. CASE half # Len(results')
        <4>1. half \in 1..Len(results)
          BY <1>0, <2>3, <3>2
        <4> QED BY <1>0, <2>1, <2>3, <2>5, <4>1 DEF ResultsInv
      <3> QED BY <3>1, <3>2
    <2> QED BY <2>1, <2>4, <2>5 DEF ResultsInv, Stopping, Collected
  <1>2. CASE Harvest
    <2> DEFINE l == [i \in 1..current_id |-> IF i - 1 \in DOMAIN latency THEN "measured" ELSE "lost"]
    <2>1. /\ pc = "harvest" /\ pc' = IF upload THEN "stopOnEmpty" ELSE "clearProbes"
          /\ results' = [results EXCEPT ![Len(results)].latencies = l]
          /\ UNCHANGED <<upload, sched>>
      BY <1>2 DEF Harvest
    <2>2. Len(l) = current_id
      BY <1>0
    <2>3. sched # "threw" => Len(l) = Probes
      BY <2>1, <2>2 DEF JobsInv
    <2> HIDE DEF l
    <2>4. /\ Len(results') = Len(results) /\ DOMAIN results' = 1..Len(results)
          /\ \A i \in 1..Len(results) :
                /\ results'[i].rates = results[i].rates
                /\ results'[i].latencies = IF i = Len(results) THEN l ELSE results[i].latencies
      BY <1>0, <2>1 DEF Halves
    <2>5. Len(results') = (IF upload THEN 1 ELSE 0) + 1
      BY <1>0, <2>1, <2>4 DEF ResultsInv, Stopping, Collected
    <2>6. sched # "threw" => \A half \in DOMAIN results' :
            Len(results'[half].rates) = Polls /\ Len(results'[half].latencies) = Probes
      BY <1>0, <2>1, <2>3, <2>4 DEF ResultsInv
    <2> QED BY <1>0, <2>1, <2>5, <2>6 DEF ResultsInv, Stopping, Collected
  <1>3. CASE RunThread /\ ~Collect /\ ~Harvest
    <2>1. results' = results /\ sched' = sched /\ pc # "harvest" /\ pc' # "harvest"
      BY <1>3
      DEF RunThread, Connect, SchedulePoll, ScheduleProbe, Subscribe, LoadOver, ClearProbes,
        ClearBytes, ClearRates, RestOver, StopOnEmpty, WakeScheduler, StopFc, StopScheduler, Report
    <2>2. CASE ClearRates
      BY <2>1, <2>2 DEF ClearRates, ResultsInv, Stopping, Collected
    <2>3. CASE ClearProbes \/ ClearBytes
      BY <2>1, <2>3 DEF ClearProbes, ClearBytes, ResultsInv, Stopping, Collected
    <2>4. CASE Connect \/ SchedulePoll \/ ScheduleProbe \/ Subscribe \/ LoadOver \/ RestOver
      BY <2>1, <2>4
      DEF Connect, SchedulePoll, ScheduleProbe, Subscribe, LoadOver, RestOver, ResultsInv, Stopping,
          Collected
    <2>5. CASE StopOnEmpty \/ WakeScheduler \/ StopFc \/ StopScheduler \/ Report
      BY <2>1, <2>5
      DEF StopOnEmpty, WakeScheduler, StopFc, StopScheduler, Report, ResultsInv, Stopping, Collected
    <2> QED BY <1>3, <2>2, <2>3, <2>4, <2>5 DEF RunThread
  <1>4. CASE ~RunThread
    <2>1. /\ UNCHANGED <<pc, upload, results>> /\ (sched' # "threw" => sched # "threw")
      BY <1>4
      DEF Next, RunThread, SchedulerThread, SchedulerLoop, LoopTest, TakeRequest, Due, Poll, Probe,
          ProbeThrows, FcThread, FcCommand, CountBytes, Transfer, WriteThrows, Answer, Tick
    <2> QED BY <2>1 DEF ResultsInv, Stopping, Collected
  <1> QED BY <1>1, <1>2, <1>3, <1>4

\* AnswerInv is kept.
LEMMA AnswerStep ==
    ASSUME Punctual, Types, JobsInv, AnswerInv, Next
    PROVE  AnswerInv'
  <1> USE DEF Go, SleepOver, Sleep, schedulerVars, runVars, countVars, probeVars
  <1>0. /\ now \in Nat /\ alarm \in Nat /\ current_id \in Nat /\ in_flight \subseteq [id : Nat, sent : Nat]
        /\ DOMAIN sent_times = 0..(current_id - 1) /\ Pause \in Nat \ {0}
        /\ Load \in Nat \ {0}
    BY ThroughputAssumption DEF Types, SchedTypes, RunTypes, ProbeTypes
  <1>1. \A p \in in_flight : p.sent \in Nat /\ p.id \in Nat
    BY <1>0
  <1>2. CASE RunThread /\ ~ClearProbes /\ ~Subscribe /\ ~LoadOver /\ ~Collect /\ ~Harvest
    <2>1. UNCHANGED <<now, probeVars>>
      BY <1>2
      DEF RunThread, Connect, SchedulePoll, ScheduleProbe, ClearBytes, ClearRates, RestOver,
          StopOnEmpty, WakeScheduler, StopFc, StopScheduler, Report
    <2>2. /\ pc' \notin {"load", "collect", "harvest"}
          /\ Asking' \/ Clearing' \/ pc' \in {"connect", "threw"} =>
                Asking \/ Clearing \/ pc \in {"connect", "threw"}
      BY <1>2
      DEF RunThread, Connect, SchedulePoll, ScheduleProbe, ClearBytes, ClearRates, RestOver,
          StopOnEmpty, WakeScheduler, StopFc, StopScheduler, Report, Asking, Clearing
    <2> QED BY <2>1, <2>2 DEF AnswerInv, AnswersMatched, Own, Outstayed
  <1>3. CASE ClearProbes
    <2>1. /\ \A p \in in_flight : Outstayed(p)
          /\ UNCHANGED <<now, in_flight>> /\ DOMAIN latency' = {} /\ pc' = "clearBytes"
      BY <1>3 DEF ClearProbes, AnswerInv, Clearing
    <2> QED BY <2>1 DEF AnswerInv, AnswersMatched, Outstayed, Asking, Clearing
  <1>4. CASE Subscribe
    <2>1. /\ \A p \in in_flight : Outstayed(p)
          /\ UNCHANGED <<now, probeVars>> /\ pc' = "load" /\ alarm' = now + Load
      BY <1>4 DEF Subscribe, AnswerInv, Asking
    <2>2. \A p \in in_flight : p.sent < alarm'
      BY <1>0, <1>1, <2>1 DEF Outstayed
    <2> QED BY <2>1, <2>2 DEF AnswerInv, AnswersMatched, Own, Outstayed, Asking, Clearing
  <1>5. CASE LoadOver
    <2>1. /\ \A p \in in_flight : p.sent < alarm
          /\ now >= alarm /\ pc' = "collect" /\ UNCHANGED <<now, probeVars>>
      BY <1>5 DEF LoadOver, AnswerInv
    <2>2. \A p \in in_flight : p.sent < now
      BY <1>0, <1>1, <2>1
    <2> QED BY <2>1, <2>2 DEF AnswerInv, AnswersMatched, Own, Outstayed, Asking, Clearing
  <1>6. CASE Collect
    <2>1. /\ \A p \in in_flight : p.sent < now
          /\ alarm' = now + Pause /\ pc' = "harvest" /\ UNCHANGED <<now, probeVars>>
      BY <1>6 DEF Collect, AnswerInv
    <2>2. \A p \in in_flight : p.sent < alarm' - Pause
      BY <1>0, <1>1, <2>1
    <2> QED BY <2>1, <2>2 DEF AnswerInv, AnswersMatched, Own, Outstayed, Asking, Clearing
  <1>7. CASE Harvest
    <2>1. /\ \A p \in in_flight : p.sent < alarm - Pause
          /\ now >= alarm /\ pc' \in {"stopOnEmpty", "clearProbes"} /\ UNCHANGED <<now, probeVars>>
      BY <1>7 DEF Harvest, AnswerInv
    <2>2. \A p \in in_flight : Outstayed(p)
      BY <1>0, <1>1, <2>1 DEF Outstayed
    <2> QED BY <2>1, <2>2 DEF AnswerInv, AnswersMatched, Own, Outstayed, Asking, Clearing
  <1>8. CASE SchedulerLoop \/ Poll \/ ProbeThrows \/ FcThread \/ Transfer \/ WriteThrows
    BY <1>8
    DEF SchedulerLoop, Poll, ProbeThrows, FcThread, FcCommand, CountBytes, Transfer, WriteThrows,
        AnswerInv, AnswersMatched, Own, Outstayed, Asking, Clearing
  <1>9. CASE Probe
    <2> DEFINE q == [id |-> current_id, sent |-> now]
    <2>1. /\ sent_times' = Put(sent_times, current_id, now) /\ in_flight' = in_flight \cup {q}
          /\ UNCHANGED <<now, alarm, pc, latency>> /\ Due
      BY <1>9 DEF Probe
    <2>2. pc = "load" /\ now < alarm
      BY <2>1, JobRuns
    <2>3. /\ DOMAIN sent_times' = DOMAIN sent_times \cup {current_id} /\ sent_times'[current_id] = now
          /\ \A id \in DOMAIN sent_times : id # current_id => sent_times'[id] = sent_times[id]
      BY <2>1 DEF Put
    <2>4. ASSUME NEW p \in in_flight'
          PROVE  (Own(p)' \/ Outstayed(p)') /\ p.sent < alarm
      <3>1. CASE p = q
        BY <1>0, <2>2, <2>3, <3>1 DEF Own
      <3>2. CASE p \in in_flight
        <4>1. CASE Own(p)
          <5>1. p.id \in DOMAIN sent_times /\ p.id # current_id
            BY <1>0, <4>1 DEF Own
          <5> QED BY <2>2, <2>3, <3>2, <4>1, <5>1 DEF AnswerInv, Own
        <4>2. CASE Outstayed(p)
          BY <2>1, <2>2, <3>2, <4>2 DEF AnswerInv, Outstayed
        <4> QED BY <3>2, <4>1, <4>2 DEF AnswerInv
      <3> QED BY <2>1, <3>1, <3>2
    <2> QED BY <2>1, <2>2, <2>4 DEF AnswerInv, AnswersMatched, Asking, Clearing
  <1>10. ASSUME NEW p \in in_flight, Answer(p)
         PROVE  AnswerInv'
    <2>1. /\ in_flight' = in_flight \ {p} /\ UNCHANGED <<now, alarm, pc, sent_times>>
          /\ latency' = Put(latency, p.id, Filed(p))
      BY <1>10 DEF Answer
    <2>2. Filed(p) # "foreign"
      BY DEF AnswerInv, Filed, Own, Outstayed
    <2>3. AnswersMatched'
      <3>1. \A id \in DOMAIN latency : latency[id] # "foreign"
        BY DEF AnswerInv, AnswersMatched
      <3> QED BY <2>1, <2>2, <3>1 DEF AnswersMatched, Put
    <2> QED BY <2>1, <2>3 DEF AnswerInv, Own, Outstayed, Asking, Clearing
  <1>11. CASE Tick
    <2>1. /\ in_flight' \subseteq in_flight /\ now' = now + 1
          /\ UNCHANGED <<alarm, pc, sent_times, latency>> /\ ~RunBusy
      BY <1>11 DEF Tick
    <2>2. pc # "collect"
      BY <2>1 DEF RunBusy
    <2>3. \A p \in in_flight : /\ Own(p) => Own(p)'
                               /\ Outstayed(p) => Outstayed(p)'
      BY <1>0, <1>1, <2>1 DEF Own, Outstayed
    <2> QED BY <2>1, <2>2, <2>3 DEF AnswerInv, AnswersMatched, Asking, Clearing
  <1> QED
    BY <1>2, <1>3, <1>4, <1>5, <1>6, <1>7, <1>8, <1>9, <1>10, <1>11
    DEF Next, RunThread, SchedulerThread

-----------------------------------------------------------------------------
(* The theorems of ThroughputTest *)

\* All of them hold at the start.
LEMMA InitOthers == Init => StreamInv /\ JobsInv /\ CountInv /\ IdInv /\ ResultsInv /\ AnswerInv
  <1> SUFFICES ASSUME Init PROVE StreamInv /\ JobsInv /\ CountInv /\ IdInv /\ ResultsInv /\ AnswerInv
    OBVIOUS
  <1> USE DEF Init, SchedulerInit
  <1>1. StreamInv
    BY DEF StreamInv, StreamOff, Stopping, Asking, Clearing
  <1>2. JobsInv
    BY DEF JobsInv, Stopping, Asking, Resting
  <1>3. CountInv
    BY DEF CountInv, NoLess, None, Moved
  <1>4. IdInv
    BY LoopBounds DEF IdInv
  <1>5. ResultsInv
    BY DEF ResultsInv, Stopping, Collected
  <1>6. AnswerInv
    BY DEF AnswerInv, AnswersMatched, Outstayed, Asking, Clearing
  <1> QED BY <1>1, <1>2, <1>3, <1>4, <1>5, <1>6

\* The inductive invariant.
IInv == Types /\ StreamInv /\ JobsInv /\ CountInv /\ IdInv /\ ResultsInv

\* There is no job when the counters are reset.
LEMMA NoPoll == ASSUME Types, JobsInv PROVE NoPollAtClear
  <1> SUFFICES ASSUME pc = "clearRates", Poll PROVE FALSE
    BY DEF NoPollAtClear
  <1>1. Due
    BY DEF Poll
  <1> QED BY <1>1, JobRuns

\* It is kept by every step.
LEMMA IInvStep ==
    ASSUME Punctual, IInv, [Next]_vars
    PROVE  IInv'
  <1>1. CASE Next
    <2>1. Types'
      BY <1>1, SchedTypesStep, RunTypesStep, FcTypesStep, ProbeTypesStep DEF Types, IInv
    <2>2. StreamInv'
      BY <1>1, StreamStep DEF IInv
    <2>3. JobsInv'
      BY <1>1, JobsStep DEF IInv
    <2>4. CountInv'
      BY <1>1, NoPoll, CountStep DEF IInv
    <2>5. IdInv'
      BY <1>1, <2>3, IdStep DEF IInv
    <2>6. ResultsInv'
      BY <1>1, ResultsStep DEF IInv
    <2> QED BY <2>1, <2>2, <2>3, <2>4, <2>5, <2>6 DEF IInv
  <1>2. CASE UNCHANGED vars
    <2> USE <1>2 DEF vars, schedulerVars, runVars, countVars, probeVars, fcVars
    <2>1. Types'
      <3>1. SchedTypes' /\ RunTypes' /\ FcTypes' /\ ProbeTypes'
        BY DEF IInv, Types, SchedTypes, RunTypes, FcTypes, ProbeTypes
      <3> QED BY <3>1 DEF Types
    <2>2. StreamInv'
      BY DEF IInv, StreamInv, StreamOff, Stopping, Asking, Clearing
    <2>3. JobsInv'
      BY JobsElse DEF IInv
    <2>4. CountInv'
      BY DEF IInv, CountInv, NoLess, Moved
    <2>5. IdInv' /\ ResultsInv'
      BY DEF IInv, IdInv, ResultsInv, Stopping, Collected
    <2> QED BY <2>1, <2>2, <2>3, <2>4, <2>5 DEF IInv
  <1> QED BY <1>1, <1>2

\* The inductive invariant holds, if a thread that can run runs at once:
\* which jobs the scheduler has (JobsInv) is what keeps polls and resets
\* apart, as no lock does.
THEOREM ThroughputInductive == ASSUME Punctual PROVE Spec => []IInv
  <1>1. Init => IInv
    BY InitTypes, InitOthers DEF IInv
  <1>2. IInv /\ [Next]_vars => IInv'
    BY IInvStep
  <1> QED BY <1>1, <1>2, PTL DEF Spec

\* The types of TypeOK, the bounds of the identifiers and of the report
\* included.
THEOREM ThroughputTypeCorrect == ASSUME Punctual PROVE Spec => []TypeOK
  <1>1. IInv => TypeOK
    <2> SUFFICES ASSUME IInv PROVE TypeOK
      OBVIOUS
    <2>1. SchedulerTypeOK
      <3>1. /\ now \in Nat /\ requests \in Seq(Requests) /\ heap \in Seq(Jobs)
            /\ empty_stop \in BOOLEAN /\ sched \in {"loop", "wait", "done", "threw"}
        BY DEF IInv, Types, SchedTypes
      <3>2. \A r \in Requests : r.typ \in {"CONTINUE", "EXIT", "SCHEDULE"}
        BY DEF Requests, Continue, Exit
      <3>3. \A j \in Jobs : DOMAIN j = {"to_run", "when"} /\ j.when \in Nat
        BY DEF Jobs
      <3>4. \A i \in DOMAIN requests : requests[i] \in Requests
        BY <3>1
      <3>5. \A i \in DOMAIN heap : heap[i] \in Jobs
        BY <3>1
      <3> QED BY <3>1, <3>2, <3>3, <3>4, <3>5 DEF SchedulerTypeOK
    <2>2. Probes \in Nat /\ Probes <= Load /\ Load \in Nat
      BY ThroughputAssumption, Rounds DEF Probes
    <2>3. /\ DOMAIN sent_times \subseteq Ids /\ DOMAIN latency \subseteq Ids
          /\ in_flight \subseteq [id : Ids, sent : Nat]
      BY <2>2 DEF IInv, Types, ProbeTypes, IdInv, Ids
    <2>4. Len(results) \in 0..2
      BY DEF IInv, ResultsInv
    <2> QED BY <2>1, <2>3, <2>4 DEF IInv, Types, RunTypes, FcTypes, ProbeTypes, TypeOK, Places
  <1> QED BY <1>1, ThroughputInductive, PTL

\* The bytes of one direction are not counted for the other and no rate wraps
\* (CountersKept), although observe() may be at work when run() unsubscribes:
\* the pause is longer than that.
THEOREM ThroughputCountersKept == ASSUME Punctual PROVE Spec => []CountersKept
  <1>1. IInv => CountersKept
    BY DEF IInv, CountInv, CountersKept
  <1> QED BY <1>1, ThroughputInductive, PTL

\* The report has a rate for every poll and a latency for every probe of both
\* halves, unless a probe threw (ReportComplete).
THEOREM ThroughputReportComplete == ASSUME Punctual PROVE Spec => []ReportComplete
  <1>1. IInv => ReportComplete
    <2> SUFFICES ASSUME IInv, pc = "reported", sched # "threw", NEW half \in 1..2
                 PROVE  Len(results[half].rates) = Polls /\ Len(results[half].latencies) = Probes
      BY DEF ReportComplete, Polls, Probes
    <2>1. Len(results) = 2 /\ results \in Seq(Halves)
      BY DEF IInv, ResultsInv, Stopping, Collected, Types, RunTypes
    <2>2. half \in DOMAIN results
      BY <2>1
    <2> QED BY <2>2 DEF IInv, ResultsInv
  <1> QED BY <1>1, ThroughputInductive, PTL

\* The n-th poll of a half is made n times PollEvery after its beginning
\* (RatesCoverASecond), whatever PollEvery, ProbeEvery and Load are.
THEOREM ThroughputRatesCoverASecond == ASSUME Punctual PROVE Spec => RatesCoverASecond
  <1>1. ASSUME IInv, [Next]_vars, Len(rates') > Len(rates)
        PROVE  now = alarm - Load + PollEvery * Len(rates')
    <2>1. rates \in Seq(Rates) /\ Len(rates) \in Nat /\ alarm \in Nat /\ Load \in Nat
      BY <1>1, ThroughputAssumption DEF IInv, Types, FcTypes, RunTypes
    <2>2. Poll
      <3>1. rates' # rates /\ rates' # <<>>
        BY <1>1, <2>1
      <3>2. Next
        BY <1>1, <3>1 DEF vars, countVars
      <3> QED BY <3>1, <3>2
      DEF Next, RunThread, Connect, SchedulePoll, ScheduleProbe, Subscribe, LoadOver, Collect,
          Harvest, ClearProbes, ClearBytes, ClearRates, RestOver, StopOnEmpty, WakeScheduler, StopFc,
          StopScheduler, Report, SchedulerThread, SchedulerLoop, Probe, ProbeThrows, FcThread,
          FcCommand, CountBytes, Transfer, WriteThrows, Answer, Tick, countVars
    <2>3. Due /\ heap[1].to_run = "poll" /\ Len(rates') = Len(rates) + 1
      BY <2>1, <2>2 DEF Poll
    <2>4. PICK k \in Left(Polls + Probes) :
                 /\ heap[1] = JobAt(alarm - Load, k) /\ now = JobAt(alarm - Load, k).when
                 /\ IF k <= Polls THEN k = Len(rates) + 1 ELSE k - Polls = current_id + 1
      BY <1>1, <2>3, JobRuns DEF IInv
    <2>5. JobAt(alarm - Load, k).to_run = Job(k).to_run
          /\ JobAt(alarm - Load, k).when = (alarm - Load) + Job(k).when
      BY DEF JobAt, Entry
    <2>6. k <= Polls
      BY <2>3, <2>4, <2>5 DEF Job, Entry
    <2>7. Job(k).when = PollEvery * k /\ k = Len(rates')
      BY <2>3, <2>4, <2>6 DEF Job, Entry
    <2> QED BY <2>4, <2>5, <2>7
  <1>2. IInv /\ [Next]_vars =>
           [Len(rates') > Len(rates) => now = alarm - Load + PollEvery * Len(rates')]_vars
    BY <1>1
  <1> QED BY <1>2, ThroughputInductive, PTL DEF Spec, RatesCoverASecond

\* An answer is filed under another probe than its own only if it took longer
\* than the pause (AnswersMatched), however long answers may take.
THEOREM ThroughputAnswersMatched == ASSUME Punctual PROVE Spec => []AnswersMatched
  <1>1. Init => AnswerInv
    BY InitOthers
  <1>2. IInv /\ AnswerInv /\ [Next]_vars => AnswerInv'
    <2> SUFFICES ASSUME IInv, AnswerInv, [Next]_vars PROVE AnswerInv'
      OBVIOUS
    <2>1. CASE Next
      BY <2>1, AnswerStep DEF IInv
    <2>2. CASE UNCHANGED vars
      BY <2>2
      DEF vars, schedulerVars, runVars, countVars, probeVars, fcVars, AnswerInv, AnswersMatched,
          Own, Outstayed, Asking, Clearing
    <2> QED BY <2>1, <2>2
  <1>3. AnswerInv => AnswersMatched
    BY DEF AnswerInv
  <1> QED BY <1>1, <1>2, <1>3, ThroughputInductive, PTL DEF Spec
=============================================================================
