--------------------------- MODULE PendingHeapProofs ---------------------------
(***************************************************************************)
(* Facts about the operations of ScrubablePendingQueue, for queues of any  *)
(* length.                                                                 *)
(*                                                                         *)
(* The heap operations are recursive.  What they compute is shown by       *)
(* induction, in the form that a set of natural numbers, the positions     *)
(* where a claim fails, would have a least element.                        *)
(***************************************************************************)
EXTENDS PendingHeap, FiniteSetTheorems, FunctionTheorems, TLAPS

\* A set of natural numbers has a least element.
LEMMA Least ==
  ASSUME NEW S \in SUBSET Nat, S # {}
  PROVE  \E n \in S : \A m \in S : n <= m
<1> DEFINE R == OpToRel(<, Nat)
<1>1. PICK x \in S : \A y \in S : ~(<<y, x>> \in R)
  BY WFMin, NatLessThanWellFounded
<1>2. \A y \in S : y \in Nat /\ (y < x => <<y, x>> \in R)
  BY DEF OpToRel
<1> HIDE DEF R
<1>3. ASSUME NEW y \in S PROVE x <= y
  <2>1. ~(y < x)
    BY <1>1, <1>2
  <2> QED
    BY <2>1
<1> QED
  BY <1>3

\* Induction: a set that contains a number up to n whenever it contains all smaller
\* ones contains all numbers up to n.
LEMMA UpTo ==
  ASSUME NEW n \in Nat, NEW Good, \A m \in 0..n : (\A k \in 0..(m - 1) : k \in Good) => m \in Good
  PROVE  \A m \in 0..n : m \in Good
<1> DEFINE Bad == {m \in 0..n : m \notin Good}
<1> SUFFICES ASSUME Bad # {} PROVE FALSE
  OBVIOUS
<1>1. Bad \in SUBSET Nat
  OBVIOUS
<1> HIDE DEF Bad
<1>2. PICK m \in Bad : \A k \in Bad : m <= k
  BY <1>1, Least
<1>3. m \in 0..n /\ m \notin Good
  BY DEF Bad
<1>4. ASSUME NEW k \in 0..(m - 1) PROVE k \in Good
  <2>1. k \in 0..n /\ ~(m <= k)
    BY <1>3
  <2> QED
    BY <1>2, <2>1 DEF Bad
<1> QED
  BY <1>3, <1>4

-------------------------------------------------------------------------------
(* Selected(): the positions that are chosen, in their order. *)

\* One step of the recursion of Selected
SelectStep(q, positions, g, n) ==
    IF n = 0 THEN <<>>
    ELSE IF n \in positions THEN Append(g[n - 1], q[n]) ELSE g[n - 1]

Prefixes(q, positions) ==
    CHOOSE g : g = [n \in 0..Len(q) |-> SelectStep(q, positions, g, n)]

\* The recursion of Selected defines a function.
LEMMA PrefixesDefined ==
  ASSUME NEW q, Len(q) \in Nat, NEW positions
  PROVE  Prefixes(q, positions)
           = [n \in 0..Len(q) |-> SelectStep(q, positions, Prefixes(q, positions), n)]
<1> DEFINE Step(g, n) == SelectStep(q, positions, g, n)
           Defined(m) == \E g : g = [n \in 0..m |-> Step(g, n)]
           Good == {m \in 0..Len(q) : Defined(m)}
<1>0. ASSUME NEW g, NEW h, NEW n \in Nat, n # 0 => g[n - 1] = h[n - 1]
      PROVE  Step(g, n) = Step(h, n)
  BY <1>0 DEF SelectStep
<1> HIDE DEF Step
<1>1. Defined(0)
  <2> DEFINE a == [n \in 0..0 |-> n]
             g == [n \in 0..0 |-> Step(a, n)]
  <2>1. \A n \in 0..0 : Step(a, n) = Step(g, n)
    BY <1>0
  <2>2. g = [n \in 0..0 |-> Step(g, n)]
    BY <2>1
  <2> QED
    BY <2>2
<1>2. ASSUME NEW m \in 0..Len(q), m # 0, Defined(m - 1)
      PROVE  Defined(m)
  <2>1. PICK g : g = [n \in 0..(m - 1) |-> Step(g, n)]
    BY <1>2
  <2> DEFINE h == [n \in 0..m |-> IF n < m THEN g[n] ELSE Step(g, n)]
  <2>2. ASSUME NEW n \in 0..m PROVE h[n] = Step(h, n)
    <3>1. n # 0 => h[n - 1] = g[n - 1]
      BY <1>2
    <3>2. Step(h, n) = Step(g, n)
      BY <3>1, <1>0
    <3>3. h[n] = Step(g, n)
      BY <1>2, <2>1
    <3> QED
      BY <3>2, <3>3
  <2>3. h = [n \in 0..m |-> Step(h, n)]
    BY <2>2
  <2> QED
    BY <2>3
<1>3. \A m \in 0..Len(q) : m \in Good
  <2>1. ASSUME NEW m \in 0..Len(q), \A k \in 0..(m - 1) : k \in Good PROVE m \in Good
    <3>1. m # 0 => m - 1 \in 0..(m - 1)
      OBVIOUS
    <3> QED
      BY <1>1, <1>2, <2>1, <3>1
  <2> HIDE DEF Good
  <2> QED
    BY <2>1, UpTo
<1>4. Defined(Len(q))
  BY <1>3
<1> QED
  BY <1>4 DEF Prefixes, Step

\* What is in a queue
Items(s) == {s[i] : i \in 1..Len(s)}

\* push_back() adds one element.
LEMMA ItemsOfAppend ==
  ASSUME NEW T, NEW s \in Seq(T), NEW x \in T
  PROVE  Append(s, x) \in Seq(T) /\ Items(Append(s, x)) = Items(s) \union {x}
<1> DEFINE t == Append(s, x)
<1>1. /\ t \in Seq(T) /\ Len(t) = Len(s) + 1 /\ Len(s) \in Nat
      /\ t[Len(s) + 1] = x /\ \A i \in 1..Len(s) : t[i] = s[i]
  OBVIOUS
<1> HIDE DEF t
<1>2. 1..Len(t) = 1..Len(s) \union {Len(s) + 1}
  BY <1>1
<1> QED
  BY <1>1, <1>2 DEF Items, t

\* u consists of the elements of q at the positions S, each of them once.
DrawnBy(u, q, S, f) ==
    /\ f \in [1..Len(u) -> S]
    /\ \A i \in S : \E j \in 1..Len(u) : f[j] = i
    /\ \A i, j \in 1..Len(u) : f[i] = f[j] => i = j
    /\ \A j \in 1..Len(u) : u[j] = q[f[j]]

Drawn(u, q, S) == \E f : DrawnBy(u, q, S, f)

\* What is in the new queue was at the positions in the old one.
LEMMA DrawnItems ==
  ASSUME NEW u, NEW q, NEW S, Drawn(u, q, S)
  PROVE  Items(u) = {q[i] : i \in S}
<1>1. PICK f : DrawnBy(u, q, S, f)
  BY DEF Drawn
<1>2. ASSUME NEW i \in S PROVE q[i] \in Items(u)
  <2>1. PICK j \in 1..Len(u) : f[j] = i
    BY <1>1 DEF DrawnBy
  <2>2. u[j] = q[i]
    BY <1>1, <2>1 DEF DrawnBy
  <2> QED
    BY <2>2 DEF Items
<1>3. ASSUME NEW j \in 1..Len(u) PROVE f[j] \in S /\ u[j] = q[f[j]]
  BY <1>1 DEF DrawnBy
<1> QED
  BY <1>2, <1>3 DEF Items

\* Where, among some positions, a queue holds an element
Holding(q, S, e) == {i \in S : q[i] = e}

\* Every element is in the new queue as often as it was at the positions.
LEMMA DrawnCount ==
  ASSUME NEW u, NEW q, NEW S, Drawn(u, q, S), Len(u) \in Nat, NEW e
  PROVE  Cardinality(Holding(u, 1..Len(u), e)) = Cardinality(Holding(q, S, e))
<1> DEFINE U == Holding(u, 1..Len(u), e)
           W == Holding(q, S, e)
<1>1. PICK f : DrawnBy(u, q, S, f)
  BY DEF Drawn
<1> DEFINE g == [j \in U |-> f[j]]
<1>2. g \in [U -> W]
  BY <1>1 DEF DrawnBy, Holding
<1>3. \A i, j \in U : g[i] = g[j] => i = j
  BY <1>1 DEF DrawnBy, Holding
<1>4. ASSUME NEW i \in W PROVE \E j \in U : g[j] = i
  <2>1. PICK j \in 1..Len(u) : f[j] = i
    BY <1>1 DEF DrawnBy, Holding
  <2>2. j \in U
    BY <1>1, <2>1 DEF DrawnBy, Holding
  <2> QED
    BY <2>1, <2>2
<1> HIDE DEF g
<1>5. g \in Bijection(U, W)
  BY <1>2, <1>3, <1>4, Fun_IsBij
<1>6. ExistsBijection(U, W)
  BY <1>5 DEF ExistsBijection
<1>7. IsFiniteSet(U)
  <2>1. IsFiniteSet(1..Len(u)) /\ U \subseteq 1..Len(u)
    BY FS_Interval DEF Holding
  <2> QED
    BY <2>1, FS_Subset
<1> QED
  BY <1>6, <1>7, FS_Bijection

\* The elements of a queue that was drawn from another are elements of the other.
LEMMA DrawnTwice ==
  ASSUME NEW u, NEW w, NEW q, NEW S, Drawn(u, w, 1..Len(w)), Drawn(w, q, S)
  PROVE  Drawn(u, q, S)
<1>1. PICK f : DrawnBy(u, w, 1..Len(w), f)
  BY DEF Drawn
<1>2. PICK g : DrawnBy(w, q, S, g)
  BY DEF Drawn
<1> DEFINE h == [j \in 1..Len(u) |-> g[f[j]]]
<1>3. \A j \in 1..Len(u) : f[j] \in 1..Len(w) /\ h[j] = g[f[j]] /\ u[j] = w[f[j]]
  BY <1>1 DEF DrawnBy
<1>4. \A i \in 1..Len(w) : g[i] \in S /\ w[i] = q[g[i]]
  BY <1>2 DEF DrawnBy
<1>5. h \in [1..Len(u) -> S]
  BY <1>3, <1>4
<1>6. \A j \in 1..Len(u) : u[j] = q[h[j]]
  BY <1>3, <1>4
<1> HIDE DEF h
<1>7. ASSUME NEW i \in S PROVE \E j \in 1..Len(u) : h[j] = i
  <2>1. PICK m \in 1..Len(w) : g[m] = i
    BY <1>2 DEF DrawnBy
  <2>2. PICK j \in 1..Len(u) : f[j] = m
    BY <1>1 DEF DrawnBy
  <2> QED
    BY <2>1, <2>2, <1>3
<1>8. ASSUME NEW i \in 1..Len(u), NEW j \in 1..Len(u), h[i] = h[j] PROVE i = j
  <2>1. f[i] = f[j]
    BY <1>2, <1>3, <1>8 DEF DrawnBy
  <2> QED
    BY <1>1, <2>1 DEF DrawnBy
<1>9. DrawnBy(u, q, S, h)
  BY <1>5, <1>6, <1>7, <1>8 DEF DrawnBy
<1> QED
  BY <1>9 DEF Drawn

\* Selected() draws the elements at the positions.
LEMMA SelectedDrawn ==
  ASSUME NEW T, NEW q \in Seq(T), NEW positions
  PROVE  /\ Selected(q, positions) \in Seq(T) /\ Len(Selected(q, positions)) <= Len(q)
         /\ Drawn(Selected(q, positions), q, positions \intersect 1..Len(q))
<1> DEFINE f == Prefixes(q, positions)
           At(n) == positions \intersect 1..n
           Holds(n) == f[n] \in Seq(T) /\ Len(f[n]) <= n /\ Drawn(f[n], q, At(n))
           Good == {n \in 0..Len(q) : Holds(n)}
<1>1. Len(q) \in Nat /\ \A i \in 1..Len(q) : q[i] \in T
  OBVIOUS
<1>2. \A n \in 0..Len(q) : f[n] = SelectStep(q, positions, f, n)
  BY <1>1, PrefixesDefined
<1>3. Selected(q, positions) = f[Len(q)]
  BY DEF Selected, Prefixes, SelectStep
<1> HIDE DEF f
<1>4. ASSUME NEW n \in 0..Len(q), \A k \in 0..(n - 1) : k \in Good PROVE n \in Good
  <2> SUFFICES Holds(n)
    OBVIOUS
  <2>1. CASE n = 0
    <3>1. f[n] = <<>>
      BY <1>2, <2>1 DEF SelectStep
    <3>2. At(n) = {} /\ 1..Len(f[n]) = {} /\ Len(f[n]) = 0 /\ f[n] \in Seq(T)
      BY <2>1, <3>1
    <3>3. DrawnBy(f[n], q, At(n), [j \in {} |-> j])
      BY <3>2 DEF DrawnBy
    <3> QED
      BY <3>2, <3>3, <2>1 DEF Drawn
  <2>2. CASE n # 0
    <3>1. f[n - 1] \in Seq(T) /\ Drawn(f[n - 1], q, At(n - 1)) /\ Len(f[n - 1]) <= n - 1
      <4>1. n - 1 \in 0..(n - 1)
        BY <1>1, <2>2
      <4>2. Holds(n - 1)
        BY <1>4, <4>1
      <4> QED
        BY <4>2
    <3>2. 1..n = 1..(n - 1) \union {n} /\ n \in 1..Len(q) /\ q[n] \in T
      BY <1>1, <2>2
    <3>3. CASE n \in positions
      <4> DEFINE m == Len(f[n - 1])
      <4>1. PICK g : DrawnBy(f[n - 1], q, At(n - 1), g)
        BY <3>1 DEF Drawn
      <4>2. f[n] = Append(f[n - 1], q[n])
        BY <1>2, <2>2, <3>3 DEF SelectStep
      <4>3. /\ f[n] \in Seq(T) /\ Len(f[n]) = m + 1 /\ m \in Nat /\ m + 1 <= n
            /\ f[n][m + 1] = q[n] /\ \A j \in 1..m : f[n][j] = f[n - 1][j]
        BY <4>2, <3>1, <3>2
      <4>4. At(n) = At(n - 1) \union {n} /\ n \notin At(n - 1)
        BY <3>2, <3>3
      <4> DEFINE h == [j \in 1..(m + 1) |-> IF j = m + 1 THEN n ELSE g[j]]
      <4>5. h[m + 1] = n /\ \A j \in 1..m : h[j] = g[j]
        BY <4>3
      <4>6. h \in [1..(m + 1) -> At(n)]
        BY <4>1, <4>3, <4>4 DEF DrawnBy
      <4> HIDE DEF h
      <4>7. DrawnBy(f[n], q, At(n), h)
        <5> HIDE DEF m
        <5>0. 1..(m + 1) = 1..m \union {m + 1} /\ m + 1 \notin 1..m
          BY <4>3
        <5>g. /\ g \in [1..m -> At(n - 1)]
              /\ \A i \in At(n - 1) : \E j \in 1..m : g[j] = i
              /\ \A i, j \in 1..m : g[i] = g[j] => i = j
              /\ \A j \in 1..m : f[n - 1][j] = q[g[j]]
          BY <4>1 DEF DrawnBy, m
        <5> HIDE DEF At
        <5>1. \A i \in At(n) : \E j \in 1..(m + 1) : h[j] = i
          BY <5>g, <4>4, <4>5, <5>0
        <5>2. \A i, j \in 1..(m + 1) : h[i] = h[j] => i = j
          BY <5>g, <4>4, <4>5, <5>0
        <5>3. \A j \in 1..(m + 1) : f[n][j] = q[h[j]]
          BY <5>g, <4>3, <4>5, <5>0
        <5> QED
          BY <5>1, <5>2, <5>3, <4>3, <4>6 DEF DrawnBy
      <4> QED
        BY <4>3, <4>7 DEF Drawn
    <3>4. CASE n \notin positions
      <4>1. f[n] = f[n - 1]
        BY <1>2, <2>2, <3>4 DEF SelectStep
      <4>2. At(n) = At(n - 1)
        BY <3>2, <3>4
      <4>3. Len(f[n]) <= n
        BY <4>1, <3>1
      <4>4. Drawn(f[n], q, At(n))
        BY <4>1, <4>2, <3>1, Zenon
      <4> QED
        BY <4>1, <4>3, <4>4, <3>1
    <3> QED
      BY <3>3, <3>4
  <2> QED
    BY <2>1, <2>2
<1>5. Holds(Len(q))
  <2>1. Len(q) \in 0..Len(q)
    BY <1>1
  <2>2. Len(q) \in Good
    <3> HIDE DEF Good
    <3>1. \A n \in 0..Len(q) : n \in Good
      BY <1>1, <1>4, UpTo
    <3> QED
      BY <2>1, <3>1
  <2> QED
    BY <2>2
<1> QED
  BY <1>3, <1>5, Zenon

\* Selected() gives what is at the positions, and is no longer than the queue.
LEMMA SelectedItems ==
  ASSUME NEW T, NEW q \in Seq(T), NEW positions
  PROVE  /\ Selected(q, positions) \in Seq(T)
         /\ Items(Selected(q, positions)) = {q[i] : i \in positions \intersect 1..Len(q)}
         /\ Len(Selected(q, positions)) <= Len(q)
<1>1. /\ Selected(q, positions) \in Seq(T) /\ Len(Selected(q, positions)) <= Len(q)
      /\ Drawn(Selected(q, positions), q, positions \intersect 1..Len(q))
  BY SelectedDrawn
<1>2. Items(Selected(q, positions)) = {q[i] : i \in positions \intersect 1..Len(q)}
  BY <1>1, DrawnItems
<1> QED
  BY <1>1, <1>2

\* scrub() leaves the requests of the other instances, and returns those of its own.
LEMMA ScrubItems ==
  ASSUME NEW T, NEW q \in Seq(T), NEW k
  PROVE  /\ Scrub(q, k) \in Seq(T) /\ Len(Scrub(q, k)) <= Len(q)
         /\ Items(Scrub(q, k)) = {p \in Items(q) : p.instance # k}
         /\ AllExpired(q, k) \in Seq(T) /\ Len(AllExpired(q, k)) <= Len(q)
         /\ Items(AllExpired(q, k)) = {p \in Items(q) : p.instance = k}
<1>1. /\ Scrub(q, k) \in Seq(T) /\ Len(Scrub(q, k)) <= Len(q)
      /\ Items(Scrub(q, k)) = {q[i] : i \in {j \in 1..Len(q) : q[j].instance # k}
                                             \intersect 1..Len(q)}
  BY SelectedItems DEF Scrub
<1>2. /\ AllExpired(q, k) \in Seq(T) /\ Len(AllExpired(q, k)) <= Len(q)
      /\ Items(AllExpired(q, k)) = {q[i] : i \in {j \in 1..Len(q) : q[j].instance = k}
                                                  \intersect 1..Len(q)}
  BY SelectedItems DEF AllExpired
<1> QED
  BY <1>1, <1>2 DEF Items

\* Every request that scrub() removes was assigned over or is destroyed by erase().
LEMMA ErasedItems ==
  ASSUME NEW T, NEW q \in Seq(T), NEW k
  PROVE  /\ Erased(q, k) \in Seq(T)
         /\ Items(Erased(q, k)) \subseteq {p \in Items(q) : p.instance = k}
         /\ \A p \in Items(q) : p.instance = k =>
               p \in Overwritten(q, k) \/ p \in Items(Erased(q, k))
<1> DEFINE n == Len(Scrub(q, k))
           r == SubSeq(q, n + 1, Len(q))
<1>1. n \in Nat /\ n <= Len(q) /\ Len(q) \in Nat
  BY ScrubItems
<1>2. r \in Seq(T) /\ Len(r) = Len(q) - n /\ \A i \in 1..Len(r) : r[i] = q[i + n]
  BY <1>1
<1>3. Erased(q, k) = AllExpired(r, k)
  BY DEF Erased
<1>4. Overwritten(q, k) = {q[i] : i \in {j \in 1..n : q[j].instance = k}}
  BY DEF Overwritten
<1> HIDE DEF n, r
<1>5. Erased(q, k) \in Seq(T) /\ Items(Erased(q, k)) = {p \in Items(r) : p.instance = k}
  BY <1>2, <1>3, ScrubItems
<1>6. Items(r) \subseteq Items(q)
  BY <1>1, <1>2 DEF Items
<1>7. ASSUME NEW p \in Items(q), p.instance = k, p \notin Overwritten(q, k)
      PROVE  p \in Items(r)
  <2>1. PICK i \in 1..Len(q) : p = q[i]
    BY DEF Items
  <2>2. i > n
    BY <1>1, <1>4, <1>7, <2>1
  <2>3. i - n \in 1..Len(r) /\ r[i - n] = p
    BY <1>1, <1>2, <2>1, <2>2
  <2> QED
    BY <2>3 DEF Items
<1> QED
  BY <1>5, <1>6, <1>7

-------------------------------------------------------------------------------
(* SiftUp(): std::push_heap's loop. *)

\* One step of the recursion of SiftUp
ClimbStep(q, value, g, i) ==
    IF i = 1 \/ ~Later(q[i \div 2], value) THEN [q EXCEPT ![i] = value]
    ELSE [g[i \div 2] EXCEPT ![i] = q[i \div 2]]

Climbs(q, value) == CHOOSE g : g = [i \in 1..Len(q) |-> ClimbStep(q, value, g, i)]

\* The recursion of SiftUp defines a function.
LEMMA ClimbsDefined ==
  ASSUME NEW q, Len(q) \in Nat, NEW value
  PROVE  Climbs(q, value)
           = [i \in 1..Len(q) |-> ClimbStep(q, value, Climbs(q, value), i)]
<1> DEFINE Step(g, i) == ClimbStep(q, value, g, i)
           Defined(m) == \E g : g = [i \in 1..m |-> Step(g, i)]
           Good == {m \in 0..Len(q) : Defined(m)}
<1>0. ASSUME NEW g, NEW h, NEW i \in Nat \ {0}, i # 1 => g[i \div 2] = h[i \div 2]
      PROVE  Step(g, i) = Step(h, i)
  BY <1>0 DEF ClimbStep
<1> HIDE DEF Step
<1>1. Defined(0)
  <2> DEFINE g == [i \in 1..0 |-> i]
  <2>1. g = [i \in 1..0 |-> Step(g, i)]
    OBVIOUS
  <2> QED
    BY <2>1
<1>2. ASSUME NEW m \in 0..Len(q), m # 0, Defined(m - 1)
      PROVE  Defined(m)
  <2>1. PICK g : g = [i \in 1..(m - 1) |-> Step(g, i)]
    BY <1>2
  <2> DEFINE h == [i \in 1..m |-> IF i < m THEN g[i] ELSE Step(g, i)]
  <2>2. ASSUME NEW i \in 1..m PROVE h[i] = Step(h, i)
    <3>1. i # 1 => i \div 2 \in 1..m /\ i \div 2 < m
      BY <1>2
    <3>2. i # 1 => h[i \div 2] = g[i \div 2]
      BY <3>1
    <3>3. Step(h, i) = Step(g, i)
      BY <3>2, <1>0
    <3>4. h[i] = Step(g, i)
      BY <1>2, <2>1
    <3> QED
      BY <3>3, <3>4
  <2>3. h = [i \in 1..m |-> Step(h, i)]
    BY <2>2
  <2> QED
    BY <2>3
<1>3. \A m \in 0..Len(q) : m \in Good
  <2>1. ASSUME NEW m \in 0..Len(q), \A k \in 0..(m - 1) : k \in Good PROVE m \in Good
    <3>1. m # 0 => m - 1 \in 0..(m - 1)
      OBVIOUS
    <3> QED
      BY <1>1, <1>2, <2>1, <3>1
  <2> HIDE DEF Good
  <2> QED
    BY <2>1, UpTo
<1>4. Defined(Len(q))
  BY <1>3
<1> QED
  BY <1>4 DEF Climbs, Step

\* u is q with the value put in at s, after the elements at the positions A above the
\* hole, each later than the value, have moved down by one place.
Lifted(q, u, hole, value, A, s) ==
    /\ A \subseteq 1..hole /\ hole \in A /\ s \in A
    /\ \A j \in A : s <= j
    /\ u[s] = value
    /\ \A j \in 1..Len(q) : j \notin A => u[j] = q[j]
    /\ \A j \in A : j # s => j \div 2 \in A /\ u[j] = q[j \div 2] /\ Later(q[j \div 2], value)
    /\ s = 1 \/ ~Later(q[s \div 2], value)
    /\ \A j \in A : j # hole => \E c \in A : c # s /\ c \div 2 = j
    /\ \A c, d \in A : c # s /\ d # s /\ c \div 2 = d \div 2 => c = d

\* That is what SiftUp() computes.
LEMMA SiftUpLifts ==
  ASSUME NEW T, NEW q \in Seq(T), NEW hole \in 1..Len(q), NEW value \in T
  PROVE  LET u == SiftUp(q, hole, value)
         IN  /\ u \in Seq(T) /\ Len(u) = Len(q)
             /\ \E A, s : Lifted(q, u, hole, value, A, s)
<1> DEFINE f == Climbs(q, value)
           Holds(i) == /\ f[i] \in Seq(T) /\ Len(f[i]) = Len(q)
                       /\ \E A, s : Lifted(q, f[i], i, value, A, s)
           Good == {i \in 0..Len(q) : i = 0 \/ Holds(i)}
<1>1. Len(q) \in Nat /\ \A i \in 1..Len(q) : q[i] \in T
  OBVIOUS
<1>2. \A i \in 1..Len(q) : f[i] = ClimbStep(q, value, f, i)
  BY <1>1, ClimbsDefined
<1>3. SiftUp(q, hole, value) = f[hole]
  BY DEF SiftUp, Climbs, ClimbStep
<1> HIDE DEF f
<1>4. ASSUME NEW i \in 1..Len(q), \A k \in 1..(i - 1) : Holds(k) PROVE Holds(i)
  <2>1. CASE i = 1 \/ ~Later(q[i \div 2], value)
    <3>1. f[i] = [q EXCEPT ![i] = value]
      BY <1>2, <2>1 DEF ClimbStep
    <3>2. /\ f[i] \in Seq(T) /\ Len(f[i]) = Len(q)
          /\ f[i][i] = value /\ \A j \in 1..Len(q) : j # i => f[i][j] = q[j]
      BY <3>1, <1>1
    <3>3. Lifted(q, f[i], i, value, {i}, i)
      BY <3>2, <2>1 DEF Lifted
    <3> QED
      BY <3>2, <3>3
  <2>2. CASE i # 1 /\ Later(q[i \div 2], value)
    <3> DEFINE p == i \div 2
    <3>1. p \in 1..(i - 1) /\ p \in 1..Len(q)
      BY <1>1, <2>2
    <3>2. f[p] \in Seq(T) /\ Len(f[p]) = Len(q) /\ q[p] \in T
      BY <3>1, <1>1, <1>4
    <3>3. PICK A, s : Lifted(q, f[p], p, value, A, s)
      BY <3>1, <1>4
    <3>4. f[i] = [f[p] EXCEPT ![i] = q[p]]
      BY <1>2, <2>2 DEF ClimbStep
    <3>5. /\ f[i] \in Seq(T) /\ Len(f[i]) = Len(q)
          /\ f[i][i] = q[p] /\ \A j \in 1..Len(q) : j # i => f[i][j] = f[p][j]
      BY <3>4, <3>2, <1>1
    <3> DEFINE B == A \union {i}
    <3>6. B \subseteq 1..i /\ i \in B /\ s \in B /\ s # i /\ i \notin A /\ s < i
      BY <3>1, <3>3 DEF Lifted
    <3>7. \A j \in B : s <= j
      BY <3>1, <3>3, <3>6 DEF Lifted
    <3>8. f[i][s] = value
      <4>1. f[p][s] = value
        BY <3>3 DEF Lifted
      <4>2. s \in 1..Len(q)
        BY <3>6, <1>1
      <4> HIDE DEF p
      <4> QED
        BY <4>1, <4>2, <3>5, <3>6
    <3>9. \A j \in 1..Len(q) : j \notin B => f[i][j] = q[j]
      BY <3>3, <3>5 DEF Lifted
    <3>10. ASSUME NEW j \in B, j # s
           PROVE  j \div 2 \in B /\ f[i][j] = q[j \div 2] /\ Later(q[j \div 2], value)
      <4>1. CASE j = i
        BY <4>1, <2>2, <3>3, <3>5 DEF Lifted
      <4>2. CASE j \in A
        BY <4>2, <3>1, <3>3, <3>5, <3>6, <3>10 DEF Lifted
      <4> QED
        BY <4>1, <4>2
    <3>11. s = 1 \/ ~Later(q[s \div 2], value)
      BY <3>3 DEF Lifted
    <3>12. ASSUME NEW j \in B, j # i PROVE \E c \in B : c # s /\ c \div 2 = j
      <4>1. CASE j = p
        BY <4>1, <3>6
      <4>2. CASE j # p
        BY <4>2, <3>3, <3>12 DEF Lifted
      <4> QED
        BY <4>1, <4>2
    <3>13. ASSUME NEW c \in B, NEW d \in B, c # s, d # s, c \div 2 = d \div 2 PROVE c = d
      <4>1. \A e \in A : e \in 1..p /\ e \div 2 # p
        BY <3>1, <3>3 DEF Lifted
      <4>2. CASE c \in A /\ d \in A
        BY <4>2, <3>3, <3>13 DEF Lifted
      <4>3. CASE c = i \/ d = i
        BY <4>1, <4>3, <3>13
      <4> QED
        BY <4>2, <4>3
    <3> HIDE DEF B
    <3>14. Lifted(q, f[i], i, value, B, s)
      BY <3>6, <3>7, <3>8, <3>9, <3>10, <3>11, <3>12, <3>13 DEF Lifted
    <3> QED
      BY <3>5, <3>14
  <2> QED
    BY <2>1, <2>2
<1>5. Holds(hole)
  <2>1. ASSUME NEW m \in 0..Len(q), \A k \in 0..(m - 1) : k \in Good PROVE m \in Good
    <3>1. CASE m = 0
      BY <3>1
    <3>2. CASE m # 0
      <4>1. m \in 1..Len(q) /\ \A k \in 1..(m - 1) : k \in Good /\ k # 0
        BY <1>1, <2>1, <3>2
      <4>2. \A k \in 1..(m - 1) : Holds(k)
        BY <4>1
      <4> QED
        BY <1>4, <4>1, <4>2
    <3> QED
      BY <3>1, <3>2
  <2>2. hole \in Good
    <3> HIDE DEF Good
    <3>1. \A m \in 0..Len(q) : m \in Good
      BY <1>1, <2>1, UpTo
    <3> QED
      BY <1>1, <3>1
  <2> QED
    BY <2>2, <1>1
<1> QED
  BY <1>3, <1>5

\* A queue with another element at one position
Replaced(w, q, hole, value) ==
    /\ Len(w) = Len(q) /\ w[hole] = value
    /\ \A j \in 1..Len(q) : j # hole => w[j] = q[j]

\* SiftUp() rearranges the queue with the value in the hole.
LEMMA SiftUpDrawn ==
  ASSUME NEW T, NEW q \in Seq(T), NEW hole \in 1..Len(q), NEW value \in T,
         NEW w, Replaced(w, q, hole, value)
  PROVE  LET u == SiftUp(q, hole, value)
         IN  u \in Seq(T) /\ Len(u) = Len(q) /\ Drawn(u, w, 1..Len(q))
<1> DEFINE u == SiftUp(q, hole, value)
           n == Len(q)
<1>1. /\ u \in Seq(T) /\ Len(u) = n /\ n \in Nat
      /\ \E A, s : Lifted(q, u, hole, value, A, s)
  BY SiftUpLifts
<1> HIDE DEF u
<1>2. PICK A, s : Lifted(q, u, hole, value, A, s)
  BY <1>1
<1>3. /\ A \subseteq 1..n /\ A \subseteq 1..hole /\ hole \in A /\ s \in A
      /\ \A j \in A : s <= j
  BY <1>1, <1>2 DEF Lifted
<1> DEFINE f == [j \in 1..n |-> IF j \notin A THEN j ELSE IF j = s THEN hole ELSE j \div 2]
<1>4. /\ f[s] = hole
      /\ \A j \in 1..n : j \notin A => f[j] = j
      /\ \A j \in A : j # s => f[j] = j \div 2
  BY <1>3
<1>5. \A j \in A : j # s => j \div 2 \in A /\ j \div 2 # hole /\ f[j] = j \div 2
  <2>1. \A j \in A : j # s => j \div 2 \in A
    BY <1>2 DEF Lifted
  <2>2. \A j \in A : j \in 1..hole => j \div 2 # hole
    BY <1>1
  <2> QED
    BY <1>3, <1>4, <2>1, <2>2
<1>6. f \in [1..n -> 1..n]
  BY <1>3, <1>5
<1> HIDE DEF f
<1>7. ASSUME NEW i \in 1..n PROVE \E j \in 1..n : f[j] = i
  <2>1. CASE i \notin A
    BY <1>4, <2>1
  <2>2. CASE i = hole
    BY <1>3, <1>4, <2>2
  <2>3. CASE i \in A /\ i # hole
    <3>1. PICK c \in A : c # s /\ c \div 2 = i
      BY <1>2, <2>3 DEF Lifted
    <3> QED
      BY <1>3, <1>4, <3>1
  <2> QED
    BY <2>1, <2>2, <2>3
<1>8. ASSUME NEW i \in 1..n, NEW j \in 1..n, f[i] = f[j] PROVE i = j
  <2>1. \A c, d \in A : c # s /\ d # s /\ c \div 2 = d \div 2 => c = d
    BY <1>2 DEF Lifted
  <2>2. CASE i \in A /\ j \in A
    BY <1>4, <1>5, <1>8, <2>1, <2>2
  <2>3. CASE i \notin A \/ j \notin A
    BY <1>3, <1>4, <1>5, <1>8, <2>3
  <2> QED
    BY <2>2, <2>3
<1>9. ASSUME NEW j \in 1..n PROVE u[j] = w[f[j]]
  <2>1. CASE j \notin A
    <3>1. u[j] = q[j] /\ j # hole
      BY <1>2, <1>3, <2>1 DEF Lifted
    <3> QED
      BY <1>4, <2>1, <3>1 DEF Replaced
  <2>2. CASE j = s
    <3>1. u[j] = value
      BY <1>2, <2>2 DEF Lifted
    <3> QED
      BY <1>4, <2>2, <3>1 DEF Replaced
  <2>3. CASE j \in A /\ j # s
    <3>1. u[j] = q[j \div 2]
      BY <1>2, <2>3 DEF Lifted
    <3>2. j \div 2 \in 1..n /\ j \div 2 # hole /\ f[j] = j \div 2
      BY <1>3, <1>5, <2>3
    <3> QED
      BY <3>1, <3>2 DEF Replaced
  <2> QED
    BY <2>1, <2>2, <2>3
<1>10. DrawnBy(u, w, 1..n, f)
  BY <1>1, <1>6, <1>7, <1>8, <1>9 DEF DrawnBy
<1> QED
  BY <1>1, <1>10 DEF Drawn, u

\* No element of the queue is later than one below it.
IsHeap(q) == \A i \in 2..Len(q) : ~Later(q[i \div 2], q[i])

\* ... except where a position without children is concerned.
IsHeapBut(q, hole) ==
    /\ 2 * hole > Len(q)
    /\ \A i \in 2..Len(q) : i # hole => ~Later(q[i \div 2], q[i])

\* SiftUp() makes a heap of one with a hole.
LEMMA SiftUpHeap ==
  ASSUME NEW T, \A t \in T : t.when \in Int,
         NEW q \in Seq(T), NEW hole \in 1..Len(q), NEW value \in T, IsHeapBut(q, hole)
  PROVE  IsHeap(SiftUp(q, hole, value))
<1> DEFINE u == SiftUp(q, hole, value)
           n == Len(q)
<1>1. /\ u \in Seq(T) /\ Len(u) = n /\ n \in Nat
      /\ \E A, s : Lifted(q, u, hole, value, A, s)
  BY SiftUpLifts
<1> HIDE DEF u
<1>2. PICK A, s : Lifted(q, u, hole, value, A, s)
  BY <1>1
<1>3. /\ A \subseteq 1..n /\ A \subseteq 1..hole /\ hole \in A /\ s \in A
      /\ \A j \in A : s <= j
  BY <1>1, <1>2 DEF Lifted
<1>4. /\ u[s] = value
      /\ \A j \in 1..n : j \notin A => u[j] = q[j]
      /\ \A j \in A : j # s => j \div 2 \in A /\ u[j] = q[j \div 2] /\ Later(q[j \div 2], value)
      /\ s = 1 \/ ~Later(q[s \div 2], value)
      /\ \A j \in A : j # hole => \E c \in A : c # s /\ c \div 2 = j
  BY <1>2 DEF Lifted
<1>5. \A j \in 1..n : q[j].when \in Int
  OBVIOUS
<1>6. value.when \in Int
  OBVIOUS
<1>7. \A j \in 2..n : j # hole => q[j \div 2].when <= q[j].when
  <2>1. \A j \in 2..n : j \div 2 \in 1..n
    BY <1>1
  <2> QED
    BY <1>1, <1>5, <2>1 DEF IsHeapBut, Later
<1>8. 2 * hole > n
  BY DEF IsHeapBut
<1>9. ASSUME NEW i \in 2..n PROVE ~Later(u[i \div 2], u[i])
  <2> DEFINE p == i \div 2
  <2> SUFFICES ~Later(u[p], u[i])
    OBVIOUS
  <2>1. p \in 1..n /\ p < i /\ p # hole /\ i \in 1..n
    BY <1>1, <1>8
  <2>2. p # 1 => p \in 2..n /\ p \div 2 \in 1..n
    BY <2>1
  <2>i. i # hole => q[p].when <= q[i].when
    BY <1>7
  <2>p. p # 1 => q[p \div 2].when <= q[p].when
    BY <1>7, <2>1, <2>2
  <2>a. i \in A /\ i # s => p \in A /\ u[i] = q[p] /\ Later(q[p], value)
    BY <1>4
  <2>b. p \in A /\ p # s => u[p] = q[p \div 2] /\ p # 1
    BY <1>3, <1>4, <2>1
  <2>c. i = s => p \notin A /\ ~Later(q[p], value)
    BY <1>3, <1>4, <2>1
  <2>d. (p = s => u[p] = value) /\ (i \notin A => u[i] = q[i] /\ i # hole)
    BY <1>3, <1>4, <2>1
  <2>e. q[p].when \in Int /\ q[i].when \in Int /\ (p # 1 => q[p \div 2].when \in Int)
    BY <1>5, <2>1, <2>2
  <2> HIDE DEF p
  <2>3. CASE i = s
    BY <2>3, <2>1, <2>c, <1>4
  <2>4. CASE i \in A /\ i # s /\ p = s
    BY <2>4, <2>a, <2>d, <2>e, <1>6 DEF Later
  <2>5. CASE i \in A /\ i # s /\ p # s
    BY <2>5, <2>a, <2>b, <2>p, <2>e DEF Later
  <2>6. CASE i \notin A /\ p \notin A
    BY <2>6, <2>i, <1>3, <1>4, <1>5, <2>1 DEF Later
  <2>7. CASE i \notin A /\ p \in A /\ p = s
    <3>1. Later(q[p], value)
      BY <2>7, <1>4, <2>1
    <3> QED
      BY <3>1, <2>7, <2>i, <2>d, <2>e, <1>6 DEF Later
  <2>8. CASE i \notin A /\ p \in A /\ p # s
    BY <2>8, <2>i, <2>b, <2>p, <2>d, <2>e DEF Later
  <2> QED
    BY <2>3, <2>4, <2>5, <2>6, <2>7, <2>8
<1> QED
  BY <1>1, <1>9 DEF IsHeap, u

\* emplace() adds one element, and keeps the heap a heap.
LEMMA EmplaceDrawn ==
  ASSUME NEW T, NEW q \in Seq(T), NEW p \in T
  PROVE  /\ Emplace(q, p) \in Seq(T) /\ Len(Emplace(q, p)) = Len(q) + 1
         /\ Drawn(Emplace(q, p), Append(q, p), 1..(Len(q) + 1))
         /\ Items(Emplace(q, p)) = Items(q) \union {p}
         /\ (\A t \in T : t.when \in Int) /\ IsHeap(q) => IsHeap(Emplace(q, p))
<1> DEFINE w == Append(q, p)
           hole == Len(q) + 1
<1>1. /\ w \in Seq(T) /\ Len(w) = hole /\ hole \in 1..Len(w) /\ w[hole] = p
      /\ Len(q) \in Nat /\ \A i \in 1..Len(q) : w[i] = q[i]
  OBVIOUS
<1>2. Emplace(q, p) = SiftUp(w, hole, p)
  BY DEF Emplace
<1>3. Items(w) = Items(q) \union {p}
  BY ItemsOfAppend
<1> HIDE DEF w
<1>4. Replaced(w, w, hole, p)
  BY <1>1 DEF Replaced
<1>5. /\ Emplace(q, p) \in Seq(T) /\ Len(Emplace(q, p)) = hole
      /\ Drawn(Emplace(q, p), w, 1..hole)
  BY <1>1, <1>2, <1>4, SiftUpDrawn
<1>6. Items(Emplace(q, p)) = Items(q) \union {p}
  <2>1. Items(Emplace(q, p)) = {w[i] : i \in 1..hole}
    BY <1>5, DrawnItems
  <2> QED
    BY <1>1, <1>3, <2>1 DEF Items
<1>7. ASSUME \A t \in T : t.when \in Int, IsHeap(q) PROVE IsHeap(Emplace(q, p))
  <2>1. \A i \in 2..hole : i # hole => i \in 2..Len(q) /\ i \in 1..Len(q) /\ i \div 2 \in 1..Len(q)
    BY <1>1
  <2>2. IsHeapBut(w, hole)
    BY <1>1, <1>7, <2>1 DEF IsHeapBut, IsHeap
  <2> QED
    BY <1>1, <1>2, <1>7, <2>2, SiftUpHeap
<1> QED
  BY <1>5, <1>6, <1>7 DEF w

\* The top of a heap is its earliest element.
LEMMA TopEarliest ==
  ASSUME NEW T, \A t \in T : t.when \in Int, NEW q \in Seq(T), IsHeap(q)
  PROVE  \A i \in 1..Len(q) : ~Later(q[1], q[i])
<1> DEFINE Good == {i \in 0..Len(q) : i = 0 \/ q[1].when <= q[i].when}
<1>1. Len(q) \in Nat /\ \A i \in 1..Len(q) : q[i].when \in Int
  OBVIOUS
<1>2. ASSUME NEW m \in 0..Len(q), \A k \in 0..(m - 1) : k \in Good PROVE m \in Good
  <2>1. CASE m \in {0, 1}
    BY <2>1, <1>1
  <2>2. CASE m \notin {0, 1}
    <3>1. m \in 2..Len(q) /\ m \div 2 \in 0..(m - 1) /\ m \div 2 # 0
          /\ m \div 2 \in 1..Len(q) /\ m \in 1..Len(q) /\ 1 \in 1..Len(q)
      BY <2>2, <1>1
    <3>2. q[1].when <= q[m \div 2].when
      BY <3>1, <1>2
    <3>3. q[m \div 2].when <= q[m].when
      BY <3>1, <1>1 DEF IsHeap, Later
    <3> QED
      BY <3>1, <3>2, <3>3, <1>1
  <2> QED
    BY <2>1, <2>2
<1>3. \A m \in 0..Len(q) : m \in Good
  <2> HIDE DEF Good
  <2> QED
    BY <1>1, <1>2, UpTo
<1>4. ASSUME NEW i \in 1..Len(q) PROVE q[1].when <= q[i].when
  BY <1>1, <1>3
<1> QED
  BY <1>1, <1>4 DEF Later

-------------------------------------------------------------------------------
(* Pop(): std::pop_heap. *)

\* The child chosen is below i, and the other one is not earlier.
LEMMA EarlierChildIsChild ==
  ASSUME NEW r, Len(r) \in Nat, NEW i \in 1..Len(r), 2 * i <= Len(r)
  PROVE  LET c == EarlierChild(r, i)
         IN  /\ c \in 1..Len(r) /\ c > i /\ c \div 2 = i
             /\ (\A j \in 1..Len(r) : r[j].when \in Int) =>
                  \A j \in 1..Len(r) : j \div 2 = i => ~Later(r[c], r[j])
<1> DEFINE c == EarlierChild(r, i)
<1>1. CASE 2 * i = Len(r)
  <2>1. c = 2 * i
    BY <1>1 DEF EarlierChild
  <2>2. \A j \in 1..Len(r) : j \div 2 = i => j = 2 * i
    BY <1>1
  <2>3. (\A j \in 1..Len(r) : r[j].when \in Int) => ~Later(r[2 * i], r[2 * i])
    BY <1>1 DEF Later
  <2> HIDE DEF c
  <2>4. /\ c \in 1..Len(r) /\ c > i /\ c \div 2 = i
        /\ (\A j \in 1..Len(r) : r[j].when \in Int) =>
                  \A j \in 1..Len(r) : j \div 2 = i => ~Later(r[c], r[j])
    BY <2>1, <2>2, <2>3
  <2> QED
    BY <2>4 DEF c
<1>2. CASE 2 * i # Len(r)
  <2>1. 2 * i \in 1..Len(r) /\ 2 * i + 1 \in 1..Len(r)
    BY <1>2
  <2>2. c = IF Later(r[2 * i + 1], r[2 * i]) THEN 2 * i ELSE 2 * i + 1
    BY <1>2 DEF EarlierChild
  <2>3. \A j \in 1..Len(r) : j \div 2 = i => j = 2 * i \/ j = 2 * i + 1
    OBVIOUS
  <2> HIDE DEF c
  <2>4. c \in 1..Len(r) /\ c > i /\ c \div 2 = i
    BY <2>1, <2>2
  <2>5. ASSUME \A j \in 1..Len(r) : r[j].when \in Int
        PROVE  \A j \in 1..Len(r) : j \div 2 = i => ~Later(r[c], r[j])
    <3>1. ~Later(r[c], r[2 * i]) /\ ~Later(r[c], r[2 * i + 1])
      BY <2>1, <2>2, <2>5 DEF Later
    <3> QED
      BY <2>3, <3>1
  <2> QED
    BY <2>4, <2>5 DEF c
<1> QED
  BY <1>1, <1>2

\* One step of the recursions of leaf and shifted
LeafStep(r, g, i) == IF 2 * i > Len(r) THEN i ELSE g[EarlierChild(r, i)]

ShiftStep(r, g, i) ==
    IF 2 * i > Len(r) THEN r
    ELSE [g[EarlierChild(r, i)] EXCEPT ![i] = r[EarlierChild(r, i)]]

Leaves(r) == CHOOSE g : g = [i \in 1..Len(r) |-> LeafStep(r, g, i)]
Shifts(r) == CHOOSE g : g = [i \in 1..Len(r) |-> ShiftStep(r, g, i)]

\* The recursion of leaf in Pop defines a function.
LEMMA LeavesDefined ==
  ASSUME NEW r, Len(r) \in Nat
  PROVE  Leaves(r) = [i \in 1..Len(r) |-> LeafStep(r, Leaves(r), i)]
<1> DEFINE n == Len(r)
           Step(g, i) == LeafStep(r, g, i)
           Defined(m) == \E g : g = [i \in (n - m + 1)..n |-> Step(g, i)]
           Good == {m \in 0..n : Defined(m)}
<1>c. ASSUME NEW i \in 1..n, 2 * i <= n
      PROVE  EarlierChild(r, i) \in 1..n /\ EarlierChild(r, i) > i
  BY <1>c, EarlierChildIsChild
<1>0. ASSUME NEW g, NEW h, NEW i \in 1..n,
             2 * i <= n => g[EarlierChild(r, i)] = h[EarlierChild(r, i)]
      PROVE  Step(g, i) = Step(h, i)
  BY <1>0 DEF LeafStep
<1> HIDE DEF Step
<1>1. Defined(0)
  <2> DEFINE g == [i \in (n - 0 + 1)..n |-> i]
  <2>1. (n - 0 + 1)..n = {}
    OBVIOUS
  <2>2. g = [i \in (n - 0 + 1)..n |-> Step(g, i)]
    BY <2>1
  <2> QED
    BY <2>2
<1>2. ASSUME NEW m \in 0..n, m # 0, Defined(m - 1)
      PROVE  Defined(m)
  <2> DEFINE a == n - m + 1
  <2>0. a \in 1..n /\ n - (m - 1) + 1 = a + 1
    BY <1>2
  <2>1. PICK g : g = [i \in (a + 1)..n |-> Step(g, i)]
    BY <1>2, <2>0
  <2> HIDE DEF a
  <2> DEFINE h == [i \in a..n |-> IF i > a THEN g[i] ELSE Step(g, i)]
  <2>2. ASSUME NEW i \in a..n PROVE h[i] = Step(h, i)
    <3>1. i \in 1..n
      BY <2>0
    <3>2. 2 * i <= n => h[EarlierChild(r, i)] = g[EarlierChild(r, i)]
      <4>1. 2 * i <= n => EarlierChild(r, i) \in a..n /\ EarlierChild(r, i) > a
        BY <1>c, <2>0, <3>1
      <4> QED
        BY <4>1
    <3> HIDE DEF h
    <3>3. Step(h, i) = Step(g, i)
      BY <3>1, <3>2, <1>0
    <3>4. h[i] = Step(g, i)
      <4>1. CASE i = a
        BY <4>1 DEF h
      <4>2. CASE i # a
        <5>1. i \in (a + 1)..n /\ i > a
          BY <4>2, <2>0
        <5>2. h[i] = g[i] /\ g[i] = Step(g, i)
          BY <5>1, <2>1 DEF h
        <5> QED
          BY <5>2
      <4> QED
        BY <4>1, <4>2
    <3> QED
      BY <3>3, <3>4
  <2>3. h = [i \in a..n |-> Step(h, i)]
    BY <2>2
  <2> HIDE DEF h
  <2> QED
    BY <2>3 DEF a
<1>3. \A m \in 0..n : m \in Good
  <2>1. ASSUME NEW m \in 0..n, \A k \in 0..(m - 1) : k \in Good PROVE m \in Good
    <3>1. m # 0 => m - 1 \in 0..(m - 1)
      OBVIOUS
    <3>2. m # 0 => Defined(m - 1)
      BY <2>1, <3>1
    <3> HIDE DEF Defined
    <3> QED
      BY <1>1, <1>2, <3>2
  <2> HIDE DEF Good
  <2> QED
    BY <2>1, UpTo
<1>4. Defined(n)
  <2>1. n \in Good
    BY <1>3
  <2> QED
    BY <2>1
<1>5. n - n + 1 = 1
  OBVIOUS
<1>6. \E g : g = [i \in 1..n |-> Step(g, i)]
  BY <1>4, <1>5
<1> QED
  BY <1>6 DEF Leaves, Step

\* The recursion of shifted in Pop defines a function.
LEMMA ShiftsDefined ==
  ASSUME NEW r, Len(r) \in Nat
  PROVE  Shifts(r) = [i \in 1..Len(r) |-> ShiftStep(r, Shifts(r), i)]
<1> DEFINE n == Len(r)
           Step(g, i) == ShiftStep(r, g, i)
           Defined(m) == \E g : g = [i \in (n - m + 1)..n |-> Step(g, i)]
           Good == {m \in 0..n : Defined(m)}
<1>c. ASSUME NEW i \in 1..n, 2 * i <= n
      PROVE  EarlierChild(r, i) \in 1..n /\ EarlierChild(r, i) > i
  BY <1>c, EarlierChildIsChild
<1>0. ASSUME NEW g, NEW h, NEW i \in 1..n,
             2 * i <= n => g[EarlierChild(r, i)] = h[EarlierChild(r, i)]
      PROVE  Step(g, i) = Step(h, i)
  BY <1>0 DEF ShiftStep
<1> HIDE DEF Step
<1>1. Defined(0)
  <2> DEFINE g == [i \in (n - 0 + 1)..n |-> i]
  <2>1. (n - 0 + 1)..n = {}
    OBVIOUS
  <2>2. g = [i \in (n - 0 + 1)..n |-> Step(g, i)]
    BY <2>1
  <2> QED
    BY <2>2
<1>2. ASSUME NEW m \in 0..n, m # 0, Defined(m - 1)
      PROVE  Defined(m)
  <2> DEFINE a == n - m + 1
  <2>0. a \in 1..n /\ n - (m - 1) + 1 = a + 1
    BY <1>2
  <2>1. PICK g : g = [i \in (a + 1)..n |-> Step(g, i)]
    BY <1>2, <2>0
  <2> HIDE DEF a
  <2> DEFINE h == [i \in a..n |-> IF i > a THEN g[i] ELSE Step(g, i)]
  <2>2. ASSUME NEW i \in a..n PROVE h[i] = Step(h, i)
    <3>1. i \in 1..n
      BY <2>0
    <3>2. 2 * i <= n => h[EarlierChild(r, i)] = g[EarlierChild(r, i)]
      <4>1. 2 * i <= n => EarlierChild(r, i) \in a..n /\ EarlierChild(r, i) > a
        BY <1>c, <2>0, <3>1
      <4> QED
        BY <4>1
    <3> HIDE DEF h
    <3>3. Step(h, i) = Step(g, i)
      BY <3>1, <3>2, <1>0
    <3>4. h[i] = Step(g, i)
      <4>1. CASE i = a
        BY <4>1 DEF h
      <4>2. CASE i # a
        <5>1. i \in (a + 1)..n /\ i > a
          BY <4>2, <2>0
        <5>2. h[i] = g[i] /\ g[i] = Step(g, i)
          BY <5>1, <2>1 DEF h
        <5> QED
          BY <5>2
      <4> QED
        BY <4>1, <4>2
    <3> QED
      BY <3>3, <3>4
  <2>3. h = [i \in a..n |-> Step(h, i)]
    BY <2>2
  <2> HIDE DEF h
  <2> QED
    BY <2>3 DEF a
<1>3. \A m \in 0..n : m \in Good
  <2>1. ASSUME NEW m \in 0..n, \A k \in 0..(m - 1) : k \in Good PROVE m \in Good
    <3>1. m # 0 => m - 1 \in 0..(m - 1)
      OBVIOUS
    <3>2. m # 0 => Defined(m - 1)
      BY <2>1, <3>1
    <3> HIDE DEF Defined
    <3> QED
      BY <1>1, <1>2, <3>2
  <2> HIDE DEF Good
  <2> QED
    BY <2>1, UpTo
<1>4. Defined(n)
  <2>1. n \in Good
    BY <1>3
  <2> QED
    BY <2>1
<1>5. n - n + 1 = 1
  OBVIOUS
<1>6. \E g : g = [i \in 1..n |-> Step(g, i)]
  BY <1>4, <1>5
<1> QED
  BY <1>6 DEF Shifts, Step

\* Below i, the elements at the positions B except i have moved up by one place, and
\* the hole is now at the leaf.
Sunk(r, u, i, leaf, B) ==
    /\ B \subseteq i..Len(r) /\ i \in B /\ leaf \in B /\ 2 * leaf > Len(r)
    /\ \A j \in 1..Len(r) : j \notin B => u[j] = r[j]
    /\ \A j \in B : j # leaf => /\ 2 * j <= Len(r) /\ EarlierChild(r, j) \in B
                                /\ u[j] = r[EarlierChild(r, j)]
    /\ \A j \in B : j # i => j \div 2 \in B /\ j \div 2 # leaf /\ j = EarlierChild(r, j \div 2)

\* That is what the two recursions compute.
LEMMA ShiftsSink ==
  ASSUME NEW T, NEW r \in Seq(T), NEW top \in 1..Len(r)
  PROVE  LET u == Shifts(r)[top]
         IN  /\ u \in Seq(T) /\ Len(u) = Len(r)
             /\ \E B : Sunk(r, u, top, Leaves(r)[top], B)
<1> DEFINE n == Len(r)
           f == Shifts(r)
           l == Leaves(r)
           Holds(i) == /\ f[i] \in Seq(T) /\ Len(f[i]) = n
                       /\ \E B : Sunk(r, f[i], i, l[i], B)
           Good == {m \in 0..n : m = n \/ Holds(n - m)}
<1>1. n \in Nat /\ \A i \in 1..n : r[i] \in T
  OBVIOUS
<1>2. \A i \in 1..n : f[i] = ShiftStep(r, f, i) /\ l[i] = LeafStep(r, l, i)
  BY <1>1, LeavesDefined, ShiftsDefined
<1> HIDE DEF f, l
<1>3. ASSUME NEW i \in 1..n, \A k \in (i + 1)..n : Holds(k) PROVE Holds(i)
  <2>1. CASE 2 * i > n
    <3>1. f[i] = r /\ l[i] = i
      BY <1>2, <2>1 DEF ShiftStep, LeafStep
    <3>2. Sunk(r, f[i], i, l[i], {i})
      BY <1>1, <3>1, <2>1 DEF Sunk
    <3>3. f[i] \in Seq(T) /\ Len(f[i]) = n
      BY <3>1
    <3> QED
      BY <3>2, <3>3
  <2>2. CASE 2 * i <= n
    <3> DEFINE c == EarlierChild(r, i)
    <3>1. c \in 1..n /\ c > i /\ c \div 2 = i /\ c \in (i + 1)..n
      BY <1>1, <2>2, EarlierChildIsChild
    <3>2. f[i] = [f[c] EXCEPT ![i] = r[c]] /\ l[i] = l[c]
      <4>1. ~(2 * i > Len(r))
        BY <1>1, <2>2
      <4>2. f[i] = [f[c] EXCEPT ![i] = r[c]]
        BY <1>2, <4>1 DEF ShiftStep
      <4>3. l[i] = l[c]
        BY <1>2, <4>1 DEF LeafStep
      <4> QED
        BY <4>2, <4>3
    <3>3. c = EarlierChild(r, i)
      OBVIOUS
    <3> HIDE DEF c
    <3>4. f[c] \in Seq(T) /\ Len(f[c]) = n /\ r[c] \in T
      BY <3>1, <1>1, <1>3
    <3>5. PICK B : Sunk(r, f[c], c, l[c], B)
      BY <3>1, <1>3
    <3>6. /\ f[i] \in Seq(T) /\ Len(f[i]) = n
          /\ f[i][i] = r[c] /\ \A j \in 1..n : j # i => f[i][j] = f[c][j]
      BY <3>2, <3>4, <1>1
    <3> DEFINE D == B \union {i}
    <3>7. B \subseteq c..n /\ c \in B /\ l[i] \in B /\ 2 * l[i] > n
      BY <3>2, <3>5 DEF Sunk
    <3>8. /\ D \subseteq i..n /\ i \in D /\ c \in D /\ l[i] \in D /\ i \notin B /\ i # l[i]
          /\ \A j \in B : j \in 1..n
      BY <3>1, <3>7
    <3>9. ASSUME NEW j \in 1..n, j \notin D PROVE f[i][j] = r[j]
      BY <3>5, <3>6, <3>9 DEF Sunk
    <3>10. ASSUME NEW j \in D, j # l[i]
           PROVE  /\ 2 * j <= n /\ EarlierChild(r, j) \in D
                  /\ f[i][j] = r[EarlierChild(r, j)]
      <4>1. CASE j = i
        BY <4>1, <2>2, <3>3, <3>6, <3>8
      <4>2. CASE j \in B
        <5>1. /\ 2 * j <= n /\ EarlierChild(r, j) \in B
              /\ f[c][j] = r[EarlierChild(r, j)]
          BY <4>2, <3>2, <3>5, <3>10 DEF Sunk
        <5>2. f[i][j] = f[c][j]
          BY <4>2, <3>6, <3>8
        <5> QED
          BY <5>1, <5>2
      <4> QED
        BY <4>1, <4>2
    <3>11. ASSUME NEW j \in D, j # i
           PROVE  j \div 2 \in D /\ j \div 2 # l[i] /\ j = EarlierChild(r, j \div 2)
      <4>1. CASE j = c
        BY <4>1, <3>1, <3>3, <3>8
      <4>2. CASE j # c
        BY <4>2, <3>2, <3>5, <3>11 DEF Sunk
      <4> QED
        BY <4>1, <4>2
    <3> HIDE DEF D
    <3>12. Sunk(r, f[i], i, l[i], D)
      BY <3>7, <3>8, <3>9, <3>10, <3>11 DEF Sunk
    <3> QED
      BY <3>6, <3>12
  <2> QED
    BY <2>1, <2>2, <1>1
<1>4. Holds(top)
  <2>1. ASSUME NEW m \in 0..n, \A k \in 0..(m - 1) : k \in Good PROVE m \in Good
    <3>1. CASE m = n
      BY <3>1
    <3>2. CASE m # n
      <4>1. n - m \in 1..n
        BY <1>1, <3>2
      <4>2. ASSUME NEW k \in ((n - m) + 1)..n PROVE Holds(k)
        <5>1. n - k \in 0..(m - 1) /\ n - k # n /\ n - (n - k) = k
          BY <1>1, <4>2
        <5>2. Holds(n - (n - k))
          BY <5>1, <2>1
        <5> QED
          BY <5>1, <5>2
      <4>3. Holds(n - m)
        BY <1>3, <4>1, <4>2
      <4> QED
        BY <4>3
    <3> QED
      BY <3>1, <3>2
  <2>2. \A m \in 0..n : m \in Good
    <3> HIDE DEF Good
    <3> QED
      BY <1>1, <2>1, UpTo
  <2>3. n - top \in 0..n /\ n - top # n /\ n - (n - top) = top
    BY <1>1
  <2>4. Holds(n - (n - top))
    BY <2>2, <2>3
  <2> QED
    BY <2>3, <2>4
<1> QED
  BY <1>4 DEF f, l

\* pop() removes the first element and no other, and keeps the heap a heap.
LEMMA PopDrawn ==
  ASSUME NEW T, NEW q \in Seq(T), q # <<>>
  PROVE  /\ Pop(q) \in Seq(T) /\ Len(Pop(q)) = Len(q) - 1
         /\ Drawn(Pop(q), q, 2..Len(q))
         /\ (\A t \in T : t.when \in Int) /\ IsHeap(q) => IsHeap(Pop(q))
<1> DEFINE r == SubSeq(q, 1, Len(q) - 1)
           n == Len(r)
           last == q[Len(q)]
<1>1. /\ Len(q) \in Nat /\ Len(q) >= 1 /\ r \in Seq(T) /\ n = Len(q) - 1 /\ n \in Nat
      /\ last \in T /\ \A i \in 1..n : r[i] = q[i]
  <2>1. Len(q) \in Nat /\ Len(q) # 0
    OBVIOUS
  <2>2. Len(q) >= 1 /\ last \in T
    BY <2>1
  <2>3. r \in Seq(T) /\ n = Len(q) - 1 /\ n \in Nat
    <3>1. \A i \in 1..(Len(q) - 1) : q[i] \in T
      BY <2>1
    <3>2. r = [i \in 1..(Len(q) - 1) |-> q[i]]
      BY <2>1, <2>2
    <3>3. Len(q) - 1 \in Nat
      BY <2>1, <2>2
    <3> HIDE DEF r
    <3> QED
      BY <3>1, <3>2, <3>3
  <2>4. \A i \in 1..n : r[i] = q[i]
    BY <2>1, <2>2, <2>3
  <2> QED
    BY <2>1, <2>2, <2>3, <2>4
<1>2. Pop(q) = IF r = <<>> THEN <<>> ELSE SiftUp(Shifts(r)[1], Leaves(r)[1], last)
  BY DEF Pop, Leaves, LeafStep, Shifts, ShiftStep
<1>3. \A i \in 1..n : i \in 1..Len(q)
  BY <1>1
<1>4. last = q[n + 1] /\ Len(q) = n + 1
  BY <1>1
<1>5. r = <<>> <=> n = 0
  <2>1. r \in Seq(T)
    BY <1>1
  <2> HIDE DEF r
  <2> QED
    BY <2>1 DEF n
<1> HIDE DEF r, last, n
<1>6. CASE n = 0
  <2>1. Pop(q) = <<>>
    BY <1>2, <1>5, <1>6
  <2>2. Len(<<>>) = 0 /\ 1..0 = {} /\ 2..Len(q) = {} /\ <<>> \in Seq(T)
    BY <1>4, <1>6
  <2>3. DrawnBy(<<>>, q, 2..Len(q), [j \in {} |-> j])
    BY <2>2 DEF DrawnBy
  <2>4. IsHeap(<<>>)
    BY <2>2 DEF IsHeap
  <2>5. Drawn(<<>>, q, 2..Len(q))
    BY <2>3 DEF Drawn
  <2>6. Len(<<>>) = Len(q) - 1
    BY <2>2, <1>4, <1>6
  <2> QED
    BY <2>1, <2>2, <2>4, <2>5, <2>6
<1>7. CASE n # 0
  <2> DEFINE leaf == Leaves(r)[1]
             v == Shifts(r)[1]
  <2>0. 1 \in 1..n
    BY <1>1, <1>7
  <2>1. v \in Seq(T) /\ Len(v) = n /\ \E B : Sunk(r, v, 1, leaf, B)
    BY <1>1, <2>0, ShiftsSink DEF n
  <2>2. Pop(q) = SiftUp(v, leaf, last)
    BY <1>2, <1>5, <1>7
  <2> HIDE DEF leaf, v
  <2>3. PICK B : Sunk(r, v, 1, leaf, B)
    BY <2>1
  <2>4. B \subseteq 1..n /\ 1 \in B /\ leaf \in B /\ 2 * leaf > n /\ leaf \in 1..n
    BY <2>3 DEF Sunk, n
  <2>5. /\ \A j \in 1..n : j \notin B => v[j] = r[j]
        /\ \A j \in B : j # leaf => 2 * j <= n /\ EarlierChild(r, j) \in B
                                    /\ v[j] = r[EarlierChild(r, j)]
        /\ \A j \in B : j # 1 => j \div 2 \in B /\ j \div 2 # leaf
                                 /\ j = EarlierChild(r, j \div 2)
    BY <2>3 DEF Sunk, n
  <2>6. \A j \in B : j # leaf => /\ EarlierChild(r, j) \in 2..n
                                 /\ EarlierChild(r, j) \div 2 = j
    <3> TAKE j \in B
    <3> HAVE j # leaf
    <3>1. 2 * j <= n /\ j \in 1..n
      BY <2>4, <2>5
    <3>2. /\ EarlierChild(r, j) \in 1..n /\ EarlierChild(r, j) > j
          /\ EarlierChild(r, j) \div 2 = j
      BY <1>1, <3>1, EarlierChildIsChild DEF n
    <3> QED
      BY <1>1, <3>1, <3>2
  <2> DEFINE w == [j \in 1..n |-> IF j = leaf THEN last ELSE v[j]]
             f == [j \in 1..n |-> IF j \notin B THEN j
                                  ELSE IF j = leaf THEN n + 1 ELSE EarlierChild(r, j)]
  <2>7. w \in Seq(T) /\ Len(w) = n
    BY <1>1, <2>1
  <2>8. Replaced(w, v, leaf, last)
    BY <2>1, <2>4, <2>7 DEF Replaced
  <2>9. /\ f[leaf] = n + 1
        /\ \A j \in 1..n : j \notin B => f[j] = j /\ j \in 2..n
        /\ \A j \in B : j # leaf => f[j] = EarlierChild(r, j) /\ f[j] \in 2..n /\ f[j] \in B
                                    /\ f[j] \div 2 = j
    <3>1. f[leaf] = n + 1
      BY <2>4
    <3>2. \A j \in 1..n : j \notin B => f[j] = j /\ j \in 2..n
      BY <1>1, <2>4
    <3>3. \A j \in B : j # leaf => f[j] = EarlierChild(r, j)
      BY <2>4
    <3> HIDE DEF f
    <3> QED
      BY <3>1, <3>2, <3>3, <2>5, <2>6
  <2>10. w[leaf] = last /\ \A j \in 1..n : j # leaf => w[j] = v[j]
    BY <2>4
  <2>11. f \in [1..n -> 2..(n + 1)]
    <3>1. \A j \in 1..n : f[j] \in 2..(n + 1)
      <4> HIDE DEF f
      <4>1. n + 1 \in 2..(n + 1) /\ 2..n \subseteq 2..(n + 1)
        BY <1>1, <1>7
      <4> QED
        BY <2>9, <4>1
    <3> QED
      BY <3>1
  <2> HIDE DEF w, f
  <2>12. ASSUME NEW i \in 2..(n + 1) PROVE \E j \in 1..n : f[j] = i
    <3>1. CASE i = n + 1
      BY <3>1, <2>4, <2>9
    <3>2. CASE i # n + 1 /\ i \notin B
      BY <1>1, <3>2, <2>9
    <3>3. CASE i \in B
      <4>1. i # 1
        BY <1>1
      <4>2. i \div 2 \in B /\ i \div 2 # leaf /\ i = EarlierChild(r, i \div 2)
        BY <4>1, <3>3, <2>5
      <4>3. f[i \div 2] = i /\ i \div 2 \in 1..n
        BY <4>2, <2>4, <2>9
      <4> QED
        BY <4>3
    <3> QED
      BY <3>1, <3>2, <3>3
  <2>13. ASSUME NEW i \in 1..n, NEW j \in 1..n, f[i] = f[j] PROVE i = j
    <3>1. \A k \in 1..n : f[k] = n + 1 => k = leaf
      BY <1>1, <2>9
    <3>2. CASE i = leaf \/ j = leaf
      BY <3>1, <3>2, <2>9, <2>13
    <3>3. CASE i # leaf /\ j # leaf
      BY <3>3, <2>9, <2>13
    <3> QED
      BY <3>2, <3>3
  <2>14. ASSUME NEW j \in 1..n PROVE w[j] = q[f[j]]
    <3>1. CASE j = leaf
      BY <3>1, <1>4, <2>9, <2>10
    <3>2. CASE j \notin B
      BY <3>2, <1>1, <2>4, <2>5, <2>9, <2>10
    <3>3. CASE j \in B /\ j # leaf
      <4>1. w[j] = r[f[j]] /\ f[j] \in 2..n
        BY <3>3, <2>5, <2>9, <2>10
      <4>2. f[j] \in 1..n
        BY <4>1, <1>1
      <4>3. r[f[j]] = q[f[j]]
        BY <4>2, <1>1, Zenon
      <4> QED
        BY <4>1, <4>3
    <3> QED
      BY <3>1, <3>2, <3>3
  <2>15. DrawnBy(w, q, 2..(n + 1), f)
    BY <2>7, <2>11, <2>12, <2>13, <2>14 DEF DrawnBy
  <2>16. Pop(q) \in Seq(T) /\ Len(Pop(q)) = n /\ Drawn(Pop(q), w, 1..n)
    <3>1. leaf \in 1..Len(v)
      BY <2>1, <2>4
    <3>2. /\ SiftUp(v, leaf, last) \in Seq(T) /\ Len(SiftUp(v, leaf, last)) = Len(v)
          /\ Drawn(SiftUp(v, leaf, last), w, 1..Len(v))
      BY <1>1, <2>1, <2>8, <3>1, SiftUpDrawn
    <3>3. /\ Pop(q) \in Seq(T) /\ Len(Pop(q)) = Len(v)
          /\ Drawn(Pop(q), w, 1..Len(v))
      BY <2>2, <3>2, Zenon
    <3> QED
      BY <2>1, <3>3
  <2>17. Drawn(Pop(q), q, 2..Len(q))
    <3>1. Drawn(w, q, 2..Len(q)) /\ Drawn(Pop(q), w, 1..Len(w))
      BY <1>4, <2>7, <2>15, <2>16 DEF Drawn
    <3> QED
      BY <3>1, DrawnTwice
  <2>18. ASSUME \A t \in T : t.when \in Int, IsHeap(q) PROVE IsHeap(Pop(q))
    <3>1. \A i \in 2..n : i \in 1..n /\ i \div 2 \in 1..n /\ i \in 2..Len(q)
      BY <1>1
    <3>2. \A i \in 1..n : r[i].when \in Int
      <4>1. \A i \in 1..n : r[i] \in T
        BY <1>1
      <4> QED
        BY <4>1, <2>18
    <3>3. \A i \in 2..n : r[i \div 2].when <= r[i].when
      <4> TAKE i \in 2..n
      <4>1. ~Later(q[i \div 2], q[i])
        BY <3>1, <2>18 DEF IsHeap
      <4>2. q[i \div 2] = r[i \div 2] /\ q[i] = r[i]
        BY <1>1, <3>1
      <4>3. r[i \div 2].when \in Int /\ r[i].when \in Int
        BY <3>1, <3>2
      <4> QED
        BY <4>1, <4>2, <4>3 DEF Later
    <3>4. ASSUME NEW j \in B, j # leaf, NEW i \in 1..n, i \div 2 = j
          PROVE  v[j].when <= r[i].when
      <4>1. ~Later(r[EarlierChild(r, j)], r[i]) /\ EarlierChild(r, j) \in 1..n
        BY <3>2, <3>4, <1>1, <2>4, <2>5, EarlierChildIsChild DEF n
      <4> QED
        BY <4>1, <3>2, <3>4, <2>5 DEF Later
    <3>5. ASSUME NEW j \in B, j # leaf PROVE r[j].when <= v[j].when /\ v[j].when \in Int
      <4>1. EarlierChild(r, j) \in 2..n /\ EarlierChild(r, j) \div 2 = j
            /\ v[j] = r[EarlierChild(r, j)]
        BY <3>5, <2>5, <2>6
      <4> QED
        BY <4>1, <3>1, <3>2, <3>3
    <3>6. ASSUME NEW i \in 2..n, i # leaf PROVE ~Later(v[i \div 2], v[i])
      <4> DEFINE p == i \div 2
      <4> SUFFICES ~Later(v[p], v[i])
        OBVIOUS
      <4>1. i \in 1..n /\ p \in 1..n /\ r[p].when <= r[i].when /\ i # 1 /\ p # leaf
        <5>1. i \in 1..n /\ p \in 1..n /\ r[p].when <= r[i].when
          BY <3>1, <3>3
        <5>2. i # 1
          BY <1>1
        <5>3. p # leaf
          BY <2>4, <1>1, <5>1, <5>2
        <5> QED
          BY <5>1, <5>2, <5>3
      <4>2. i \in B => p \in B
        BY <4>1, <2>5
      <4>3. p \in B => v[p].when <= r[i].when /\ v[p].when \in Int
        BY <4>1, <3>4, <3>5
      <4>4. i \in B => r[i].when <= v[i].when /\ v[i].when \in Int
        BY <4>1, <3>5, <3>6
      <4>5. (p \notin B => v[p] = r[p]) /\ (i \notin B => v[i] = r[i])
        BY <4>1, <2>5
      <4>6. r[i].when \in Int /\ r[p].when \in Int
        BY <4>1, <3>2
      <4> HIDE DEF p
      <4> QED
        BY <4>1, <4>2, <4>3, <4>4, <4>5, <4>6 DEF Later
    <3>7. IsHeapBut(v, leaf)
      BY <2>1, <2>4, <3>6 DEF IsHeapBut
    <3> QED
      BY <1>1, <2>1, <2>2, <2>4, <2>18, <3>7, SiftUpHeap
  <2> QED
    BY <1>4, <1>1, <2>16, <2>17, <2>18
<1> QED
  BY <1>6, <1>7

\* What is in the queue after a pop() was there before, behind or beside the top.
LEMMA PopItems ==
  ASSUME NEW T, NEW q \in Seq(T), q # <<>>
  PROVE  /\ Items(Pop(q)) = {q[i] : i \in 2..Len(q)}
         /\ q[1] \in Items(q) /\ Items(q) = Items(Pop(q)) \union {q[1]}
<1>1. Items(Pop(q)) = {q[i] : i \in 2..Len(q)}
  BY PopDrawn, DrawnItems
<1>2. Len(q) \in Nat /\ Len(q) >= 1
  OBVIOUS
<1>3. 1..Len(q) = 2..Len(q) \union {1}
  BY <1>2
<1> QED
  BY <1>1, <1>3 DEF Items

===============================================================================
