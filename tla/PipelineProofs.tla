--------------------------- MODULE PipelineProofs ---------------------------
(***************************************************************************)
(* Proofs about Pipeline, for any requests and batches: where batches are  *)
(* cut does not show, windows partition a batch, excluded rows are a share *)
(* of it, and grades agree.                                                *)
(*                                                                         *)
(* The engines go through a batch with folds, which the library defines by *)
(* a choice of a recursive function on sets of positions.  The first part  *)
(* shows that there is such a function and that it takes the positions in  *)
(* order, so that what follows can argue row by row.                       *)
(***************************************************************************)
EXTENDS Pipeline, FiniteSetTheorems, WellFoundedInduction, TLAPS

-----------------------------------------------------------------------------
\* A set of natural numbers that is not empty has a smallest one.
LEMMA Smallest ==
  ASSUME NEW B \in SUBSET Nat, B # {}
  PROVE  \E m \in B : \A k \in B : m <= k
<1> DEFINE R == OpToRel(<, Nat)
<1>1. IsWellFoundedOn(R, Nat)
  BY NatLessThanWellFounded
<1>2. \A x, y \in Nat : x < y => <<x, y>> \in R
  BY DEF OpToRel
<1> HIDE DEF R
<1>3. \E m \in B : \A k \in B : ~(<<k, m>> \in R)
  BY ONLY <1>1, WFMin, B \subseteq Nat, B # {}
<1>4. PICK m \in B : \A k \in B : ~(<<k, m>> \in R)
  BY <1>3
<1>5. \A k \in B : ~(k < m)
  BY <1>2, <1>4
<1>6. \A k \in B : m <= k
  BY <1>5
<1> QED BY <1>6

\* A set of natural numbers that is not empty and has a bound has a largest one.
LEMMA Largest ==
  ASSUME NEW n \in Nat, NEW s \in SUBSET (1..n), s # {}
  PROVE  Max(s) \in s /\ \A x \in s : x <= Max(s)
<1> DEFINE Bounds == {u \in Nat : \A x \in s : x <= u}
<1>1. n \in Bounds
  OBVIOUS
<1>2. PICK u \in Bounds : \A w \in Bounds : u <= w
  BY <1>1, Smallest
<1>3. u \in s
  <2> SUFFICES ASSUME u \notin s PROVE FALSE
    OBVIOUS
  <2>1. \A x \in s : x <= u - 1 /\ x >= 1
    BY <1>2
  <2>2. u - 1 \in Nat
    <3>1. PICK x \in s : TRUE
      OBVIOUS
    <3>2. x \in 1..n /\ u \in Nat
      OBVIOUS
    <3> HIDE DEF Bounds
    <3> QED BY <2>1, <3>1, <3>2
  <2>3. u - 1 \in Bounds
    BY <2>1, <2>2
  <2> QED BY <2>3, <1>2
<1>4. \E x \in s : \A y \in s : x >= y
  BY <1>3
<1> QED BY <1>4 DEF Max

\* f folds step over the sets of numbers up to n, the largest number last.
Folding(f, n, T, base, step) ==
    /\ f \in [SUBSET (1..n) -> T]
    /\ \A s \in SUBSET (1..n) :
          f[s] = IF s = {} THEN base ELSE step[<<Max(s), f[s \ {Max(s)}]>>]

\* A fold over sets of numbers up to m - 1 extends to the sets of numbers up to m.
LEMMA FoldExtends ==
  ASSUME NEW T, NEW base \in T, NEW m \in Nat, m # 0, NEW step \in [(1..m) \X T -> T],
         NEW g, Folding(g, m - 1, T, base, step)
  PROVE  \E it : Folding(it, m, T, base, step)
<1>0. /\ g \in [SUBSET (1..(m - 1)) -> T]
      /\ \A s \in SUBSET (1..(m - 1)) :
            g[s] = IF s = {} THEN base ELSE step[<<Max(s), g[s \ {Max(s)}]>>]
  BY DEF Folding
<1> DEFINE it == [s \in SUBSET (1..m) |-> IF m \in s THEN step[<<m, g[s \ {m}]>>] ELSE g[s]]
<1>1. \A s \in SUBSET (1..m) : s \ {m} \in SUBSET (1..(m - 1)) /\ (m \notin s => s \in SUBSET (1..(m - 1)))
  OBVIOUS
<1>2. it \in [SUBSET (1..m) -> T]
  BY <1>0, <1>1
<1>3. ASSUME NEW s \in SUBSET (1..m)
      PROVE  it[s] = IF s = {} THEN base ELSE step[<<Max(s), it[s \ {Max(s)}]>>]
  <2>0. s # {} => Max(s) \in s /\ \A x \in s : x <= Max(s)
    BY Largest
  <2>1. CASE m \in s
    <3>1. Max(s) = m
      <4>1. Max(s) \in s /\ m <= Max(s)
        BY <2>0, <2>1
      <4>2. Max(s) \in 1..m
        BY <4>1
      <4> QED BY ONLY <4>1, <4>2, m \in Nat
    <3>2. it[s \ {m}] = g[s \ {m}] /\ it[s] = step[<<m, g[s \ {m}]>>]
      BY <2>1, <1>1
    <3> QED BY <3>1, <3>2, <2>1
  <2>2. CASE m \notin s /\ s # {}
    <3>1. s \ {Max(s)} \in SUBSET (1..m) /\ m \notin s \ {Max(s)}
      BY <2>2
    <3>2. it[s] = g[s] /\ it[s \ {Max(s)}] = g[s \ {Max(s)}]
      BY <2>2, <3>1
    <3> QED BY <2>2, <3>2, <1>0, <1>1
  <2>3. CASE s = {}
    <3>1. it[s] = g[s] /\ s \in SUBSET (1..(m - 1))
      BY <2>3
    <3> QED BY <3>1, <2>3, <1>0
  <2> QED BY <2>1, <2>2, <2>3
<1> HIDE DEF it
<1> QED BY <1>2, <1>3 DEF Folding

\* There is a fold over the positions 1..n, whatever its step.
LEMMA FoldExists ==
  ASSUME NEW T, NEW base \in T, NEW n \in Nat, NEW step \in [(1..n) \X T -> T]
  PROVE  \E it : Folding(it, n, T, base, step)
<1> DEFINE P(m) == \E it : Folding(it, m, T, base, step)
           Bad == {m \in 0..n : ~P(m)}
<1>1. P(0)
  <2> DEFINE h == [s \in SUBSET (1..0) |-> base]
  <2>1. h \in [SUBSET (1..0) -> T] /\ \A s \in SUBSET (1..0) : h[s] = base
    OBVIOUS
  <2>2. \A s \in SUBSET (1..0) : s = {}
    OBVIOUS
  <2> HIDE DEF h
  <2>3. Folding(h, 0, T, base, step)
    BY <2>1, <2>2 DEF Folding
  <2> QED BY <2>3
<1>2. ASSUME NEW m \in 1..n, P(m - 1) PROVE P(m)
  <2>1. PICK g : Folding(g, m - 1, T, base, step)
    BY <1>2
  <2> DEFINE upto == [p \in (1..m) \X T |-> step[p]]
  <2>2. upto \in [(1..m) \X T -> T]
    OBVIOUS
  <2>3. m \in Nat /\ m # 0
    OBVIOUS
  <2>4. \A s \in SUBSET (1..m) : s # {} => Max(s) \in s
    BY ONLY <2>3, Largest
  <2>5. SUBSET (1..(m - 1)) \subseteq SUBSET (1..m)
    OBVIOUS
  <2>6. ASSUME NEW s \in SUBSET (1..m), s # {}, NEW x \in T
        PROVE  upto[<<Max(s), x>>] = step[<<Max(s), x>>]
    BY <2>4, <2>6
  <2> HIDE DEF upto
  <2>7. Folding(g, m - 1, T, base, upto)
    <3>1. g \in [SUBSET (1..(m - 1)) -> T]
      BY <2>1 DEF Folding
    <3>2. ASSUME NEW s \in SUBSET (1..(m - 1)), s # {}
          PROVE  g[s] = upto[<<Max(s), g[s \ {Max(s)}]>>]
      <4>1. s \ {Max(s)} \in SUBSET (1..(m - 1)) /\ s \in SUBSET (1..m)
        BY <2>5
      <4>2. g[s \ {Max(s)}] \in T
        BY <4>1, <3>1
      <4>3. g[s] = step[<<Max(s), g[s \ {Max(s)}]>>]
        BY <3>2, <2>1 DEF Folding
      <4> QED BY <4>1, <4>2, <4>3, <3>2, <2>6
    <3>3. {} \in SUBSET (1..(m - 1)) => g[{}] = base
      BY <2>1 DEF Folding
    <3> QED BY <3>1, <3>2, <3>3 DEF Folding
  <2>8. PICK it : Folding(it, m, T, base, upto)
    BY ONLY <2>2, <2>3, <2>7, base \in T, FoldExtends
  <2>9. Folding(it, m, T, base, step)
    <3>1. it \in [SUBSET (1..m) -> T]
      BY <2>8 DEF Folding
    <3>2. ASSUME NEW s \in SUBSET (1..m), s # {}
          PROVE  it[s] = step[<<Max(s), it[s \ {Max(s)}]>>]
      <4>1. it[s \ {Max(s)}] \in T
        BY <3>1
      <4>2. it[s] = upto[<<Max(s), it[s \ {Max(s)}]>>]
        BY <3>2, <2>8 DEF Folding
      <4> QED BY <4>1, <4>2, <3>2, <2>6
    <3>3. {} \in SUBSET (1..m) => it[{}] = base
      BY <2>8 DEF Folding
    <3> QED BY <3>1, <3>2, <3>3 DEF Folding
  <2> QED BY <2>9
<1> HIDE DEF P
<1>3. ASSUME NEW m \in Bad, \A k \in Bad : m <= k PROVE FALSE
  <2>1. m # 0
    BY <1>1
  <2>2. m \in 1..n /\ m - 1 \in 0..n /\ m - 1 \notin Bad
    BY <2>1, <1>3
  <2> QED BY <1>2, <2>2
<1>4. Bad \in SUBSET Nat
  OBVIOUS
<1>5. Bad = {} => P(n)
  OBVIOUS
<1> HIDE DEF Bad
<1>6. P(n)
  BY <1>3, <1>4, <1>5, Smallest
<1> QED BY <1>6 DEF P

\* What a fold does with the positions up to i.
LEMMA LastPosition ==
  ASSUME NEW n \in Nat, NEW i \in 1..n
  PROVE  /\ 1..i \in SUBSET (1..n) /\ 1..i # {}
         /\ Max(1..i) = i /\ (1..i) \ {i} = 1..(i - 1)
<1>1. 1..i \in SUBSET (1..n) /\ i \in 1..i
  OBVIOUS
<1>2. Max(1..i) \in 1..i /\ \A x \in 1..i : x <= Max(1..i)
  BY <1>1, Largest
<1>3. Max(1..i) = i
  BY <1>1, <1>2
<1>4. (1..i) \ {i} = 1..(i - 1)
  OBVIOUS
<1> QED BY <1>1, <1>3, <1>4

\* As long as f yields values, it goes from 1..(i - 1) to 1..i by a step.
Stepping(f, n, T, base, step) ==
    /\ f[{}] = base
    /\ \A i \in 1..n : f[1..(i - 1)] \in T => f[1..i] = step[<<i, f[1..(i - 1)]>>]

\* acc[i] is what step has made of base after i positions.
Chain(acc, n, T, base, step) ==
    /\ acc \in [0..n -> T] /\ acc[0] = base
    /\ \A i \in 1..n : acc[i] = step[<<i, acc[i - 1]>>]

ResultsAfter(f, n) == [i \in 0..n |-> f[1..i]]

\* Such a fold takes the positions one by one, from the first to the last.
LEMMA FoldChain ==
  ASSUME NEW T, NEW base \in T, NEW n \in Nat, NEW step \in [(1..n) \X T -> T],
         NEW f, Stepping(f, n, T, base, step)
  PROVE  Chain(ResultsAfter(f, n), n, T, base, step)
<1> DEFINE acc == [i \in 0..n |-> f[1..i]]
           Bad == {i \in 0..n : f[1..i] \notin T}
<1>1. f[1..0] = base
  <2>1. 1..0 = {}
    OBVIOUS
  <2> QED BY <2>1 DEF Stepping
<1>2. ASSUME NEW i \in Bad, \A k \in Bad : i <= k PROVE FALSE
  <2>1. i # 0
    BY <1>1
  <2>2. i \in 1..n /\ i - 1 \in 0..n /\ i - 1 \notin Bad
    BY <2>1, <1>2
  <2>3. f[1..(i - 1)] \in T
    BY <2>2
  <2>4. step[<<i, f[1..(i - 1)]>>] \in T
    BY <2>2, <2>3
  <2>5. f[1..i] = step[<<i, f[1..(i - 1)]>>]
    BY <2>2, <2>3 DEF Stepping
  <2> QED BY <2>2, <2>4, <2>5
<1>3. Bad \in SUBSET Nat
  OBVIOUS
<1>4. Bad = {} => acc \in [0..n -> T] /\ \A i \in 0..n : f[1..i] \in T
  OBVIOUS
<1> HIDE DEF Bad
<1>5. acc \in [0..n -> T] /\ \A i \in 0..n : f[1..i] \in T
  BY <1>2, <1>3, <1>4, Smallest
<1>6. acc[0] = base /\ \A i \in 1..n : acc[i] = step[<<i, acc[i - 1]>>]
  BY <1>1, <1>5 DEF Stepping
<1>7. ResultsAfter(f, n) = acc
  BY DEF ResultsAfter
<1> HIDE DEF acc
<1> QED BY <1>5, <1>6, <1>7 DEF Chain

-----------------------------------------------------------------------------
\* The windows of all constraints are added up.
LEMMA TotalChain ==
  ASSUME NEW n \in Nat, NEW checked, DOMAIN checked = 1..n,
         \A k \in 1..n : checked[k].total \in Nat
  PROVE  \E acc \in [0..n -> Nat] :
            /\ acc[0] = 0 /\ acc[n] = Total(checked)
            /\ \A i \in 1..n : acc[i] = acc[i - 1] + checked[i].total
<1> DEFINE g(h) == [s \in SUBSET (1..n) |->
                      IF s = {} THEN 0 ELSE h[s \ {Max(s)}] + checked[Max(s)].total]
           f == CHOOSE h : h = g(h)
           step == [p \in (1..n) \X Nat |-> p[2] + checked[p[1]].total]
<1>0. \A i \in 1..n, x \in Nat : x + checked[i].total \in Nat
  OBVIOUS
<1>1. Total(checked) = f[1..n]
  BY DEF Total, FoldLeft, MapThenFoldSet
<1>2. step \in [(1..n) \X Nat -> Nat] /\ 0 \in Nat
  BY <1>0
<1>3. \A i \in 1..n, x \in Nat : step[<<i, x>>] = x + checked[i].total
  OBVIOUS
<1> HIDE DEF step
<1>4. PICK it : Folding(it, n, Nat, 0, step)
  BY <1>2, FoldExists
<1>5. it = g(it)
  <2>1. it \in [SUBSET (1..n) -> Nat]
    BY <1>4 DEF Folding
  <2>2. ASSUME NEW s \in SUBSET (1..n), s # {}
        PROVE  it[s] = it[s \ {Max(s)}] + checked[Max(s)].total
    <3>1. Max(s) \in 1..n /\ it[s \ {Max(s)}] \in Nat
      BY <2>1, <2>2, Largest
    <3>2. it[s] = step[<<Max(s), it[s \ {Max(s)}]>>]
      BY <1>4, <2>2 DEF Folding
    <3> QED BY <3>1, <3>2, <1>3
  <2>3. {} \in SUBSET (1..n) => it[{}] = 0
    BY <1>4 DEF Folding
  <2> QED BY <2>1, <2>2, <2>3
<1>6. f = g(f)
  BY <1>5
<1> HIDE DEF f
<1>7. f[{}] = 0
  BY <1>6
<1>8. ASSUME NEW i \in 1..n, f[1..(i - 1)] \in Nat
      PROVE  f[1..i] = step[<<i, f[1..(i - 1)]>>]
  <2>1. /\ 1..i \in SUBSET (1..n) /\ 1..i # {}
        /\ Max(1..i) = i /\ (1..i) \ {i} = 1..(i - 1)
    BY LastPosition
  <2>2. f[1..i] = f[1..(i - 1)] + checked[i].total
    BY <1>6, <2>1
  <2> QED BY <2>2, <1>3, <1>8
<1> DEFINE acc == ResultsAfter(f, n)
<1>9. Chain(acc, n, Nat, 0, step)
  <2>1. Stepping(f, n, Nat, 0, step)
    BY <1>7, <1>8 DEF Stepping
  <2> QED BY <1>2, <2>1, FoldChain
<1>10. acc[n] = f[1..n]
  BY DEF ResultsAfter
<1> HIDE DEF acc
<1>11. /\ acc \in [0..n -> Nat] /\ acc[0] = 0
       /\ \A i \in 1..n : acc[i] = step[<<i, acc[i - 1]>>]
  BY <1>9 DEF Chain
<1>12. ASSUME NEW i \in 1..n PROVE acc[i] = acc[i - 1] + checked[i].total
  <2>1. i - 1 \in 0..n
    OBVIOUS
  <2>2. acc[i - 1] \in Nat /\ acc[i] = step[<<i, acc[i - 1]>>]
    BY <2>1, <1>11
  <2> QED BY <2>2, <1>3
<1> QED BY <1>1, <1>10, <1>11, <1>12

\* And so are the violated ones.
LEMMA ViolatedChain ==
  ASSUME NEW n \in Nat, NEW checked, DOMAIN checked = 1..n,
         \A k \in 1..n : Cardinality(checked[k].violated) \in Nat
  PROVE  \E acc \in [0..n -> Nat] :
            /\ acc[0] = 0 /\ acc[n] = ViolatedWindows(checked)
            /\ \A i \in 1..n : acc[i] = acc[i - 1] + Cardinality(checked[i].violated)
<1> DEFINE g(h) == [s \in SUBSET (1..n) |->
                      IF s = {} THEN 0 ELSE h[s \ {Max(s)}] + Cardinality(checked[Max(s)].violated)]
           f == CHOOSE h : h = g(h)
           step == [p \in (1..n) \X Nat |-> p[2] + Cardinality(checked[p[1]].violated)]
<1>0. \A i \in 1..n, x \in Nat : x + Cardinality(checked[i].violated) \in Nat
  OBVIOUS
<1>1. ViolatedWindows(checked) = f[1..n]
  BY DEF ViolatedWindows, FoldLeft, MapThenFoldSet
<1>2. step \in [(1..n) \X Nat -> Nat] /\ 0 \in Nat
  BY <1>0
<1>3. \A i \in 1..n, x \in Nat : step[<<i, x>>] = x + Cardinality(checked[i].violated)
  OBVIOUS
<1> HIDE DEF step
<1>4. PICK it : Folding(it, n, Nat, 0, step)
  BY <1>2, FoldExists
<1>5. it = g(it)
  <2>1. it \in [SUBSET (1..n) -> Nat]
    BY <1>4 DEF Folding
  <2>2. ASSUME NEW s \in SUBSET (1..n), s # {}
        PROVE  it[s] = it[s \ {Max(s)}] + Cardinality(checked[Max(s)].violated)
    <3>1. Max(s) \in 1..n /\ it[s \ {Max(s)}] \in Nat
      BY <2>1, <2>2, Largest
    <3>2. it[s] = step[<<Max(s), it[s \ {Max(s)}]>>]
      BY <1>4, <2>2 DEF Folding
    <3> QED BY <3>1, <3>2, <1>3
  <2>3. {} \in SUBSET (1..n) => it[{}] = 0
    BY <1>4 DEF Folding
  <2> QED BY <2>1, <2>2, <2>3
<1>6. f = g(f)
  BY <1>5
<1> HIDE DEF f
<1>7. f[{}] = 0
  BY <1>6
<1>8. ASSUME NEW i \in 1..n, f[1..(i - 1)] \in Nat
      PROVE  f[1..i] = step[<<i, f[1..(i - 1)]>>]
  <2>1. /\ 1..i \in SUBSET (1..n) /\ 1..i # {}
        /\ Max(1..i) = i /\ (1..i) \ {i} = 1..(i - 1)
    BY LastPosition
  <2>2. f[1..i] = f[1..(i - 1)] + Cardinality(checked[i].violated)
    BY <1>6, <2>1
  <2> QED BY <2>2, <1>3, <1>8
<1> DEFINE acc == ResultsAfter(f, n)
<1>9. Chain(acc, n, Nat, 0, step)
  <2>1. Stepping(f, n, Nat, 0, step)
    BY <1>7, <1>8 DEF Stepping
  <2> QED BY <1>2, <2>1, FoldChain
<1>10. acc[n] = f[1..n]
  BY DEF ResultsAfter
<1> HIDE DEF acc
<1>11. /\ acc \in [0..n -> Nat] /\ acc[0] = 0
       /\ \A i \in 1..n : acc[i] = step[<<i, acc[i - 1]>>]
  BY <1>9 DEF Chain
<1>12. ASSUME NEW i \in 1..n PROVE acc[i] = acc[i - 1] + Cardinality(checked[i].violated)
  <2>1. i - 1 \in 0..n
    OBVIOUS
  <2>2. acc[i - 1] \in Nat /\ acc[i] = step[<<i, acc[i - 1]>>]
    BY <2>1, <1>11
  <2> QED BY <2>2, <1>3
<1> QED BY <1>1, <1>10, <1>11, <1>12

\* acc[i] are the starts of windows after i rows.
StartsUpTo(acc, n, batch, interval) ==
    /\ acc \in [0..n -> Seq(1..n)] /\ acc[0] = <<1>>
    /\ \A i \in 1..n : acc[i] = IF StartsWindow(batch, Last(acc[i - 1]), interval, i)
                               THEN Append(acc[i - 1], i) ELSE acc[i - 1]

\* A row starts a window or belongs to the last one.
LEMMA StartsChain ==
  ASSUME NEW n \in Nat, n > 0, NEW batch, DOMAIN batch = 1..n, Len(batch) = n, NEW interval
  PROVE  \E acc : StartsUpTo(acc, n, batch, interval) /\ acc[n] = WindowStarts(batch, interval)
<1> DEFINE ids == [i \in 1..Len(batch) |-> i]
           g(h) == [s \in SUBSET DOMAIN ids |->
                      IF s = {} THEN <<1>>
                      ELSE IF StartsWindow(batch, Last(h[s \ {Max(s)}]), interval, ids[Max(s)])
                           THEN Append(h[s \ {Max(s)}], ids[Max(s)]) ELSE h[s \ {Max(s)}]]
           f == CHOOSE h : h = g(h)
           step == [p \in (1..n) \X Seq(1..n) |-> (IF StartsWindow(batch, Last(p[2]), interval, p[1]) THEN Append(p[2], p[1]) ELSE p[2])]
<1>0. \A i \in 1..n, x \in Seq(1..n) : (IF StartsWindow(batch, Last(x), interval, i) THEN Append(x, i) ELSE x) \in Seq(1..n)
  <2>1. ASSUME NEW i \in 1..n, NEW x \in Seq(1..n) PROVE Append(x, i) \in Seq(1..n)
    OBVIOUS
  <2> QED BY <2>1
<1>1. WindowStarts(batch, interval) = f[1..n] /\ DOMAIN ids = 1..n
  <2>1. WindowStarts(batch, interval) = f[DOMAIN ids]
    BY DEF WindowStarts, FoldLeft, MapThenFoldSet
  <2> QED BY <2>1
<1>13. \A i \in 1..n : ids[i] = i
  OBVIOUS
<1> HIDE DEF ids
<1>2. step \in [(1..n) \X Seq(1..n) -> Seq(1..n)] /\ <<1>> \in Seq(1..n)
  <2>1. step \in [(1..n) \X Seq(1..n) -> Seq(1..n)]
    BY <1>0
  <2>2. <<1>> \in Seq(1..n)
    OBVIOUS
  <2> QED BY <2>1, <2>2
<1>3. \A i \in 1..n, x \in Seq(1..n) : step[<<i, x>>] = (IF StartsWindow(batch, Last(x), interval, i) THEN Append(x, i) ELSE x)
  OBVIOUS
<1> HIDE DEF step
<1>4. PICK it : Folding(it, n, Seq(1..n), <<1>>, step)
  BY <1>2, FoldExists
<1>5. it = g(it)
  <2>1. it \in [SUBSET (1..n) -> Seq(1..n)]
    BY <1>4 DEF Folding
  <2>2. ASSUME NEW s \in SUBSET (1..n), s # {}
        PROVE  it[s] = (IF StartsWindow(batch, Last(it[s \ {Max(s)}]), interval, Max(s)) THEN Append(it[s \ {Max(s)}], Max(s)) ELSE it[s \ {Max(s)}])
    <3>1. Max(s) \in 1..n /\ it[s \ {Max(s)}] \in Seq(1..n)
      BY <2>1, <2>2, Largest
    <3>2. it[s] = step[<<Max(s), it[s \ {Max(s)}]>>]
      BY <1>4, <2>2 DEF Folding
    <3> QED BY <3>1, <3>2, <1>3
  <2>3. {} \in SUBSET (1..n) => it[{}] = <<1>>
    BY <1>4 DEF Folding
  <2>4. ASSUME NEW s \in SUBSET (1..n), s # {} PROVE ids[Max(s)] = Max(s)
    BY <2>4, <1>13, Largest
  <2> QED BY <2>1, <2>2, <2>3, <2>4, <1>1
<1>6. f = g(f)
  BY <1>5
<1> HIDE DEF f
<1>7. f[{}] = <<1>>
  BY <1>6, <1>1
<1>8. ASSUME NEW i \in 1..n, f[1..(i - 1)] \in Seq(1..n)
      PROVE  f[1..i] = step[<<i, f[1..(i - 1)]>>]
  <2>1. /\ 1..i \in SUBSET (1..n) /\ 1..i # {}
        /\ Max(1..i) = i /\ (1..i) \ {i} = 1..(i - 1)
    BY LastPosition
  <2>2. f[1..i] = (IF StartsWindow(batch, Last(f[1..(i - 1)]), interval, i) THEN Append(f[1..(i - 1)], i) ELSE f[1..(i - 1)])
    <3>1. f[1..i] = g(f)[1..i] /\ 1..i \in SUBSET DOMAIN ids
      BY <1>6, <2>1, <1>1
    <3>2. ids[Max(1..i)] = i
      BY <2>1, <1>13
    <3> QED BY <3>1, <3>2, <2>1
  <2> QED BY <2>2, <1>3, <1>8
<1> DEFINE acc == ResultsAfter(f, n)
<1>9. Chain(acc, n, Seq(1..n), <<1>>, step)
  <2>1. Stepping(f, n, Seq(1..n), <<1>>, step)
    BY <1>7, <1>8 DEF Stepping
  <2> QED BY <1>2, <2>1, FoldChain
<1>10. acc[n] = f[1..n]
  BY DEF ResultsAfter
<1> HIDE DEF acc
<1>11. /\ acc \in [0..n -> Seq(1..n)] /\ acc[0] = <<1>>
       /\ \A i \in 1..n : acc[i] = step[<<i, acc[i - 1]>>]
  BY <1>9 DEF Chain
<1>12. ASSUME NEW i \in 1..n PROVE acc[i] = (IF StartsWindow(batch, Last(acc[i - 1]), interval, i) THEN Append(acc[i - 1], i) ELSE acc[i - 1])
  <2>1. i - 1 \in 0..n
    OBVIOUS
  <2>2. acc[i - 1] \in Seq(1..n) /\ acc[i] = step[<<i, acc[i - 1]>>]
    BY <2>1, <1>11
  <2> QED BY <2>2, <1>3
<1> QED BY <1>1, <1>10, <1>11, <1>12 DEF StartsUpTo

\* The rows that passed, after one more row.
PassRow(defs, incoming, passed, row) ==
    IF RowPasses(defs, incoming, passed, row) THEN Append(passed, row) ELSE passed

\* acc[i] are the rows that passed of the first i.
PassedUpTo(acc, defs, incoming, batch) ==
    /\ acc \in [0..Len(batch) -> Seq(Rows)] /\ acc[0] = <<>>
    /\ acc[Len(batch)] = PassingRows(defs, incoming, batch)
    /\ \A i \in 1..Len(batch) : acc[i] = PassRow(defs, incoming, acc[i - 1], batch[i])

\* A row passes or not, given the rows before it that passed.
LEMMA PassingChain ==
  ASSUME NEW batch \in Seq(Rows), NEW defs, NEW incoming
  PROVE  \E acc : PassedUpTo(acc, defs, incoming, batch)
<1>13. PICK n \in Nat : n = Len(batch) /\ DOMAIN batch = 1..n
  OBVIOUS
<1>14. \A i \in 1..n : batch[i] \in Rows
  BY <1>13
<1> DEFINE g(h) == [s \in SUBSET (1..n) |->
                      IF s = {} THEN <<>> ELSE PassRow(defs, incoming, h[s \ {Max(s)}], batch[Max(s)])]
           f == CHOOSE h : h = g(h)
           step == [p \in (1..n) \X Seq(Rows) |-> PassRow(defs, incoming, p[2], batch[p[1]])]
<1>0. \A i \in 1..n, x \in Seq(Rows) : PassRow(defs, incoming, x, batch[i]) \in Seq(Rows)
  BY <1>14 DEF PassRow
<1>1. PassingRows(defs, incoming, batch) = f[1..n]
  BY <1>13 DEF PassRow, PassingRows, FoldLeft, MapThenFoldSet
<1>2. step \in [(1..n) \X Seq(Rows) -> Seq(Rows)] /\ <<>> \in Seq(Rows)
  <2>1. step \in [(1..n) \X Seq(Rows) -> Seq(Rows)]
    <3>1. \A p \in (1..n) \X Seq(Rows) : PassRow(defs, incoming, p[2], batch[p[1]]) \in Seq(Rows)
      BY <1>0
    <3> QED BY <3>1
  <2>2. <<>> \in Seq(Rows)
    OBVIOUS
  <2> QED BY <2>1, <2>2
<1>3. \A i \in 1..n, x \in Seq(Rows) : step[<<i, x>>] = PassRow(defs, incoming, x, batch[i])
  OBVIOUS
<1> HIDE DEF step
<1>4. PICK it : Folding(it, n, Seq(Rows), <<>>, step)
  BY <1>2, FoldExists
<1>5. it = g(it)
  <2>1. it \in [SUBSET (1..n) -> Seq(Rows)]
    BY <1>4 DEF Folding
  <2>2. ASSUME NEW s \in SUBSET (1..n), s # {}
        PROVE  it[s] = PassRow(defs, incoming, it[s \ {Max(s)}], batch[Max(s)])
    <3>1. Max(s) \in 1..n /\ it[s \ {Max(s)}] \in Seq(Rows)
      BY <2>1, <2>2, Largest
    <3>2. it[s] = step[<<Max(s), it[s \ {Max(s)}]>>]
      BY <1>4, <2>2 DEF Folding
    <3> QED BY <3>1, <3>2, <1>3
  <2>3. {} \in SUBSET (1..n) => it[{}] = <<>>
    BY <1>4 DEF Folding
  <2> QED BY <2>1, <2>2, <2>3
<1>6. f = g(f)
  BY <1>5
<1> HIDE DEF f
<1>7. f[{}] = <<>>
  BY <1>6
<1>8. ASSUME NEW i \in 1..n, f[1..(i - 1)] \in Seq(Rows)
      PROVE  f[1..i] = step[<<i, f[1..(i - 1)]>>]
  <2>1. /\ 1..i \in SUBSET (1..n) /\ 1..i # {}
        /\ Max(1..i) = i /\ (1..i) \ {i} = 1..(i - 1)
    BY LastPosition
  <2>2. f[1..i] = PassRow(defs, incoming, f[1..(i - 1)], batch[i])
    BY <1>6, <2>1
  <2> QED BY <2>2, <1>3, <1>8
<1> DEFINE acc == ResultsAfter(f, n)
<1>9. Chain(acc, n, Seq(Rows), <<>>, step)
  <2>1. Stepping(f, n, Seq(Rows), <<>>, step)
    BY <1>7, <1>8 DEF Stepping
  <2> QED BY <1>2, <2>1, FoldChain
<1>10. acc[n] = f[1..n]
  BY DEF ResultsAfter
<1> HIDE DEF acc
<1>11. /\ acc \in [0..n -> Seq(Rows)] /\ acc[0] = <<>>
       /\ \A i \in 1..n : acc[i] = step[<<i, acc[i - 1]>>]
  BY <1>9 DEF Chain
<1>12. ASSUME NEW i \in 1..n PROVE acc[i] = PassRow(defs, incoming, acc[i - 1], batch[i])
  <2>1. i - 1 \in 0..n
    OBVIOUS
  <2>2. acc[i - 1] \in Seq(Rows) /\ acc[i] = step[<<i, acc[i - 1]>>]
    BY <2>1, <1>11
  <2> QED BY <2>2, <1>3
<1>15. PassedUpTo(acc, defs, incoming, batch)
  BY <1>1, <1>10, <1>11, <1>12, <1>13 DEF PassedUpTo
<1> QED BY <1>15

-----------------------------------------------------------------------------
BandRank(band) == CASE band = "low" -> 1 [] band = "medium" -> 2 [] band = "high" -> 3 [] band = "critical" -> 4

LEMMA RankOfGrade ==
  ASSUME NEW band \in {"low", "medium", "high", "critical"}
  PROVE  Rank(Grade(band)) = BandRank(band)
<1>1. CASE band = "low"
  BY <1>1 DEF Rank, Grade, BandRank
<1>2. CASE band = "medium"
  BY <1>2 DEF Rank, Grade, BandRank
<1>3. CASE band = "high"
  BY <1>3 DEF Rank, Grade, BandRank
<1>4. CASE band = "critical"
  BY <1>4 DEF Rank, Grade, BandRank
<1> QED BY <1>1, <1>2, <1>3, <1>4

\* Both ways of grading a rate put it between the same thresholds, and differ on one only.
LEMMA BandsAgree ==
  ASSUME NEW rate, rate.num \in Nat, rate.den \in Nat \ {0}, NEW side \in {-1, 0, 1}
  PROVE  LET filter == classify_exclusion_rate(rate, 90, side)
             tail   == exclusion_rate_to_band(rate, side)
         IN /\ filter \in {"low", "medium", "high", "critical"}
            /\ tail \in {"low", "medium", "high", "critical"}
            /\ filter # "critical" => BandRank(tail) \in {BandRank(filter), BandRank(filter) + 1}
            /\ filter # "critical" /\ BandRank(tail) # BandRank(filter) => AtThreshold(rate)
<1> DEFINE x == rate.num * 100
           d == rate.den
<1>1. x \in Nat /\ d \in Nat \ {0}
  OBVIOUS
<1> DEFINE filter == classify_exclusion_rate(rate, 90, side)
           tail   == exclusion_rate_to_band(rate, side)
<1>2. filter = IF x > 90 * d \/ (x = 90 * d /\ side = 1) THEN "critical"
               ELSE IF x > 70 * d \/ (x = 70 * d /\ side = 1) THEN "high"
               ELSE IF x > 30 * d \/ (x = 30 * d /\ side = 1) THEN "medium" ELSE "low"
  BY DEF classify_exclusion_rate, Above
<1>3. tail = IF x < 30 * d \/ (x = 30 * d /\ side = -1) THEN "low"
             ELSE IF x < 70 * d \/ (x = 70 * d /\ side = -1) THEN "medium"
             ELSE IF x < 90 * d \/ (x = 90 * d /\ side = -1) THEN "high" ELSE "critical"
  BY DEF exclusion_rate_to_band, Below
<1>4. AtThreshold(rate) <=> x = 30 * d \/ x = 70 * d \/ x = 90 * d
  BY DEF AtThreshold
<1>5. BandRank("low") = 1 /\ BandRank("medium") = 2 /\ BandRank("high") = 3 /\ BandRank("critical") = 4
  BY DEF BandRank
<1> HIDE DEF x, d, filter, tail
<1>6. CASE x < 30 * d
  BY <1>1, <1>2, <1>3, <1>5, <1>6 DEF filter, tail
<1>7. CASE x = 30 * d
  BY <1>1, <1>2, <1>3, <1>4, <1>5, <1>7 DEF filter, tail
<1>8. CASE x > 30 * d /\ x < 70 * d
  BY <1>1, <1>2, <1>3, <1>5, <1>8 DEF filter, tail
<1>9. CASE x > 30 * d /\ x = 70 * d
  BY <1>1, <1>2, <1>3, <1>4, <1>5, <1>9 DEF filter, tail
<1>10. CASE x > 70 * d /\ x < 90 * d
  BY <1>1, <1>2, <1>3, <1>5, <1>10 DEF filter, tail
<1>11. CASE x > 70 * d /\ x = 90 * d
  BY <1>1, <1>2, <1>3, <1>4, <1>5, <1>11 DEF filter, tail
<1>12. CASE x > 90 * d
  BY <1>1, <1>2, <1>3, <1>5, <1>12 DEF filter, tail
<1> QED BY <1>1, <1>6, <1>7, <1>8, <1>9, <1>10, <1>11, <1>12

(***************************************************************************)
(* For any row counts and targets: the tail report never grades a rate     *)
(* more leniently than the post filter, and the two differ, by one grade,  *)
(* at 30, 70 and 90 percent only (post_filter.cpp, tail_report_v3.cpp).    *)
(***************************************************************************)
THEOREM GradesAlwaysAgree == Spec => []GradesAgree
<1>1. Init => GradesAgree
  BY DEF Init, GradesAgree
<1>2. GradesAgree /\ [Next]_vars => GradesAgree'
  <2> SUFFICES ASSUME GradesAgree, [Next]_vars PROVE GradesAgree'
    OBVIOUS
  <2>1. CASE package' = package
    BY <2>1 DEF GradesAgree
  <2>2. ASSUME NEW n \in RowCounts, NEW target \in RowCounts, NEW side \in {-1, 0, 1},
               NEW was_degraded \in BOOLEAN,
               PostFilterAndBuild(n, target, side, was_degraded), Critical = 90
        PROVE  GradesAgree'
    <3> DEFINE result == post_filter(n, target, Critical, side)
               filter == classify_exclusion_rate(result.rate, 90, side)
               tail == exclusion_rate_to_band(result.rate, side)
    <3>1. n \in Nat /\ target \in Nat
      BY PipelineAssumption
    <3>2. result.rate.num \in Nat /\ result.rate.den \in Nat \ {0}
      BY <3>1 DEF post_filter, Kept
    <3>3. result.band = filter
      <4>1. CASE n = 0 \/ target <= 0
        <5>1. result.rate = [num |-> 0, den |-> 1] /\ result.band = "low"
          BY <4>1 DEF post_filter
        <5> QED BY <5>1 DEF classify_exclusion_rate, Above
      <4>2. CASE ~(n = 0 \/ target <= 0)
        BY <4>2, <2>2 DEF post_filter
      <4> QED BY <4>1, <4>2
    <3>4. /\ package'.evidence.data_grade = Grade(result.band)
          /\ package'.evidence.rate = result.rate
          /\ package'.tail.data_grade = Grade(tail)
      BY <2>2 DEF PostFilterAndBuild, build, build_tail_report_v3
    <3>5. filter # "critical"
      BY <3>3, <2>2 DEF PostFilterAndBuild
    <3> HIDE DEF result
    <3>6. /\ filter \in {"low", "medium", "high", "critical"}
          /\ tail \in {"low", "medium", "high", "critical"}
          /\ BandRank(tail) \in {BandRank(filter), BandRank(filter) + 1}
          /\ BandRank(tail) # BandRank(filter) => AtThreshold(result.rate)
      BY <3>2, <3>5, BandsAgree
    <3> HIDE DEF filter, tail
    <3>7. Rank(Grade(filter)) = BandRank(filter) /\ Rank(Grade(tail)) = BandRank(tail)
      BY <3>6, RankOfGrade
    <3> QED BY <3>3, <3>4, <3>6, <3>7 DEF GradesAgree
  <2>3. CASE Critical # 90
    BY <2>3 DEF GradesAgree
  <2> QED
    BY <2>1, <2>2, <2>3 DEF Next, vars, ClassifyAndRoute, execute_batch, Aggregate
<1> QED BY <1>1, <1>2, PTL DEF Spec

-----------------------------------------------------------------------------
LEMMA Elements ==
  ASSUME NEW S, NEW s \in Seq(S)
  PROVE  \A w \in 1..Len(s) : s[w] \in S
OBVIOUS

\* Position i lies in the window that starts at s[w].
In(s, w, i) == s[w] <= i /\ (w < Len(s) => i < s[w + 1])

\* s are the starts of the windows of the first k of n rows.
Starting(s, k, n, batch, interval) ==
    /\ s \in Seq(1..n) /\ s # <<>> /\ s[1] = 1
    /\ \A w \in 1..Len(s) : w <= s[w] /\ s[w] <= k
    /\ \A v, w \in 1..Len(s) : v < w => s[v] < s[w]
    /\ \A w \in 1..(Len(s) - 1) : batch[s[w + 1]].t >= batch[s[w]].t + interval
    /\ \A i \in 1..k : \E w \in 1..Len(s) : In(s, w, i)
    /\ \A i \in 1..k, w \in 1..Len(s) : In(s, w, i) => batch[i].t < batch[s[w]].t + interval

LEMMA FirstStart ==
  ASSUME NEW n \in Nat, n > 0, NEW batch, \A i \in 1..n : batch[i].t \in Int,
         NEW interval \in Int, interval > 0
  PROVE  Starting(<<1>>, 1, n, batch, interval) /\ ~StartsWindow(batch, 1, interval, 1)
<1> DEFINE s == <<1>>
<1>1. s \in Seq(1..n) /\ s # <<>> /\ s[1] = 1 /\ Len(s) = 1
  OBVIOUS
<1>2. batch[1].t \in Int
  OBVIOUS
<1> HIDE DEF s
<1>3. ~StartsWindow(batch, 1, interval, 1)
  BY <1>2 DEF StartsWindow
<1>4. Starting(s, 1, n, batch, interval)
  BY <1>1, <1>2 DEF Starting, In
<1> QED BY <1>3, <1>4 DEF s

\* The next row starts a window.
LEMMA NextStart ==
  ASSUME NEW n \in Nat, NEW batch, \A i \in 1..n : batch[i].t \in Int,
         NEW interval \in Int, interval > 0, NEW k \in 1..n, k < n, NEW s,
         Starting(s, k, n, batch, interval), StartsWindow(batch, Last(s), interval, k + 1)
  PROVE  Starting(Append(s, k + 1), k + 1, n, batch, interval)
<1> DEFINE z == Append(s, k + 1)
<1>0. PICK l \in Nat : l = Len(s)
  BY DEF Starting
<1>1. s \in Seq(1..n) /\ l > 0 /\ s[1] = 1
  BY <1>0 DEF Starting
<1>2. /\ z \in Seq(1..n) /\ Len(z) = l + 1 /\ z[l + 1] = k + 1
      /\ \A w \in 1..l : z[w] = s[w] /\ s[w] \in 1..n
  BY <1>0, <1>1
<1>3. Last(s) = s[l] /\ s[l] \in 1..n
  BY <1>0, <1>1 DEF Last
<1>4. batch[k + 1].t >= batch[s[l]].t + interval
  BY <1>3 DEF StartsWindow
<1> HIDE DEF z
<1>5. \A w \in 1..l : w <= s[w] /\ s[w] <= k
  BY <1>0 DEF Starting
<1>6. \A v, w \in 1..l : v < w => s[v] < s[w]
  BY <1>0 DEF Starting
<1>7. z # <<>> /\ z[1] = 1
  BY <1>1, <1>2
<1>8. \A w \in 1..Len(z) : w <= z[w] /\ z[w] <= k + 1
  <2>1. l <= s[l] /\ s[l] <= k
    BY <1>1, <1>5
  <2> QED BY <1>2, <1>5, <2>1, <1>3
<1>9. \A v, w \in 1..Len(z) : v < w => z[v] < z[w]
  BY <1>2, <1>5, <1>6
<1>10. \A w \in 1..(Len(z) - 1) : batch[z[w + 1]].t >= batch[z[w]].t + interval
  <2>1. \A w \in 1..(l - 1) : batch[s[w + 1]].t >= batch[s[w]].t + interval
    BY <1>0 DEF Starting
  <2>2. \A w \in 1..(l - 1) : z[w + 1] = s[w + 1] /\ z[w] = s[w]
    BY <1>2
  <2> TAKE w \in 1..(Len(z) - 1)
  <2>3. CASE w \in 1..(l - 1)
    BY <2>1, <2>2, <2>3
  <2>4. CASE w = l
    BY <2>4, <1>1, <1>2, <1>4
  <2> QED BY <2>3, <2>4, <1>1, <1>2
<1>11. \A i \in 1..k, w \in 1..l : In(z, w, i) <=> In(s, w, i)
  <2> TAKE i \in 1..k, w \in 1..l
  <2>1. CASE w < l
    <3>0. w + 1 \in 1..l /\ w \in 1..l
      BY <2>1
    <3>1. w + 1 \in 1..l /\ z[w + 1] = s[w + 1] /\ z[w] = s[w]
      BY ONLY <3>0, <1>2
    <3>2. Len(s) = l /\ Len(z) = l + 1 /\ w < l + 1
      BY <2>1, <1>0, <1>2
    <3> QED BY ONLY <2>1, <3>1, <3>2 DEF In
  <2>2. CASE w = l
    <3>1. z[l + 1] = k + 1 /\ z[w] = s[w] /\ i < k + 1
      BY <1>2
    <3> QED BY <2>2, <3>1, <1>0, <1>2 DEF In
  <2> QED BY <2>1, <2>2
<1>12. In(z, l + 1, k + 1) /\ \A w \in 1..l : ~In(z, w, k + 1)
  <2>1. In(z, l + 1, k + 1)
    BY <1>2 DEF In
  <2>2. ASSUME NEW w \in 1..l PROVE ~In(z, w, k + 1)
    <3>1. w < Len(z) /\ z[w + 1] <= k + 1 /\ z[w + 1] \in 1..n
      BY <1>2, <1>8
    <3> QED BY <3>1 DEF In
  <2> QED BY <2>1, <2>2
<1>13. \A i \in 1..k : ~In(z, l + 1, i)
  BY <1>2 DEF In
<1>14. \A i \in 1..(k + 1) : \E w \in 1..Len(z) : In(z, w, i)
  <2>1. \A i \in 1..k : \E w \in 1..l : In(s, w, i)
    BY <1>0 DEF Starting
  <2> QED BY <2>1, <1>2, <1>11, <1>12
<1>15. \A i \in 1..(k + 1), w \in 1..Len(z) : In(z, w, i) => batch[i].t < batch[z[w]].t + interval
  <2>1. \A i \in 1..k, w \in 1..l : In(s, w, i) => batch[i].t < batch[s[w]].t + interval
    BY <1>0 DEF Starting
  <2>2. batch[k + 1].t \in Int
    OBVIOUS
  <2> TAKE i \in 1..(k + 1), w \in 1..Len(z)
  <2>3. CASE i \in 1..k /\ w \in 1..l
    BY <2>1, <2>3, <1>2, <1>11
  <2>4. CASE i = k + 1 /\ w \in 1..l
    BY <2>4, <1>12
  <2>5. CASE i \in 1..k /\ w = l + 1
    BY <2>5, <1>13
  <2>6. CASE i = k + 1 /\ w = l + 1
    BY <2>2, <2>6, <1>2
  <2> QED BY <2>3, <2>4, <2>5, <2>6, <1>2
<1>16. Starting(z, k + 1, n, batch, interval)
  BY <1>2, <1>7, <1>8, <1>9, <1>10, <1>14, <1>15 DEF Starting
<1> QED BY <1>16 DEF z

\* The next row belongs to the last window.
LEMMA SameStart ==
  ASSUME NEW n \in Nat, NEW batch, \A i \in 1..n : batch[i].t \in Int,
         NEW interval \in Int, interval > 0, NEW k \in 1..n, k < n, NEW s,
         Starting(s, k, n, batch, interval), ~StartsWindow(batch, Last(s), interval, k + 1)
  PROVE  Starting(s, k + 1, n, batch, interval)
<1>0. PICK l \in Nat : l = Len(s)
  BY DEF Starting
<1>1. s \in Seq(1..n) /\ l > 0 /\ s[1] = 1 /\ s # <<>>
  BY <1>0 DEF Starting
<1>2. Last(s) = s[l] /\ \A w \in 1..l : s[w] \in 1..n
  BY <1>0, <1>1 DEF Last
<1>3. batch[k + 1].t < batch[s[l]].t + interval
  <2>1. batch[k + 1].t \in Int /\ batch[s[l]].t \in Int
    BY <1>1, <1>2
  <2> QED BY <2>1, <1>2 DEF StartsWindow
<1>4. \A w \in 1..l : w <= s[w] /\ s[w] <= k
  BY <1>0 DEF Starting
<1>5. \A w \in 1..l : In(s, w, k + 1) => w = l
  <2> SUFFICES ASSUME NEW w \in 1..l, w # l PROVE ~In(s, w, k + 1)
    OBVIOUS
  <2>1. w + 1 \in 1..l /\ w < Len(s)
    BY <1>0
  <2>2. s[w + 1] <= k /\ s[w + 1] \in Nat
    BY <2>1, <1>2, <1>4
  <2> QED BY <2>1, <2>2 DEF In
<1>6. In(s, l, k + 1)
  <2>1. s[l] <= k /\ s[l] \in Nat
    BY <1>1, <1>2, <1>4
  <2> QED BY <2>1, <1>0 DEF In
<1>7. \A i \in 1..(k + 1) : \E w \in 1..l : In(s, w, i)
  <2>1. \A i \in 1..k : \E w \in 1..l : In(s, w, i)
    BY <1>0 DEF Starting
  <2>2. \A i \in 1..(k + 1) : i \in 1..k \/ i = k + 1
    OBVIOUS
  <2> QED BY <2>1, <2>2, <1>1, <1>6
<1>8. \A i \in 1..(k + 1), w \in 1..l : In(s, w, i) => batch[i].t < batch[s[w]].t + interval
  <2>1. \A i \in 1..k, w \in 1..l : In(s, w, i) => batch[i].t < batch[s[w]].t + interval
    BY <1>0 DEF Starting
  <2> QED BY <2>1, <1>3, <1>5
<1>9. \A w \in 1..l : w <= s[w] /\ s[w] <= k + 1
  BY <1>2, <1>4
<1>10. /\ \A v, w \in 1..l : v < w => s[v] < s[w]
       /\ \A w \in 1..(l - 1) : batch[s[w + 1]].t >= batch[s[w]].t + interval
  BY <1>0 DEF Starting
<1> QED BY <1>0, <1>1, <1>7, <1>8, <1>9, <1>10 DEF Starting

LEMMA AllStarts ==
  ASSUME NEW batch, NEW n \in Nat, n > 0, DOMAIN batch = 1..n, Len(batch) = n,
         \A i \in 1..n : batch[i].t \in Int, NEW interval \in Int, interval > 0
  PROVE  Starting(WindowStarts(batch, interval), n, n, batch, interval)
<1>0. PICK acc : StartsUpTo(acc, n, batch, interval) /\ acc[n] = WindowStarts(batch, interval)
  BY StartsChain
<1>1. /\ acc[0] = <<1>>
      /\ \A i \in 1..n : acc[i] = IF StartsWindow(batch, Last(acc[i - 1]), interval, i)
                                 THEN Append(acc[i - 1], i) ELSE acc[i - 1]
  BY <1>0 DEF StartsUpTo
<1> DEFINE P(k) == Starting(acc[k], k, n, batch, interval)
           Bad == {k \in 1..n : ~P(k)}
<1>2. P(1)
  <2>1. Starting(<<1>>, 1, n, batch, interval) /\ ~StartsWindow(batch, 1, interval, 1)
    BY FirstStart
  <2>2. Last(<<1>>) = 1
    BY DEF Last
  <2>3. acc[1] = IF StartsWindow(batch, Last(acc[0]), interval, 1)
                 THEN Append(acc[0], 1) ELSE acc[0]
    <3>1. 1 \in 1..n /\ 1 - 1 = 0
      OBVIOUS
    <3> QED BY <3>1, <1>1
  <2>4. acc[1] = <<1>>
    BY <1>1, <2>1, <2>2, <2>3
  <2> QED BY <2>1, <2>4
<1>3. ASSUME NEW k \in 1..n, k < n, P(k) PROVE P(k + 1)
  <2>1. acc[k + 1] = (IF StartsWindow(batch, Last(acc[k]), interval, k + 1)
                      THEN Append(acc[k], k + 1) ELSE acc[k])
    <3>1. k + 1 \in 1..n /\ (k + 1) - 1 = k
      BY <1>3
    <3> QED BY <3>1, <1>1
  <2>2. CASE StartsWindow(batch, Last(acc[k]), interval, k + 1)
    BY <2>1, <2>2, <1>3, NextStart
  <2>3. CASE ~StartsWindow(batch, Last(acc[k]), interval, k + 1)
    BY <2>1, <2>3, <1>3, SameStart
  <2> QED BY <2>2, <2>3
<1> HIDE DEF P
<1>4. ASSUME NEW k \in Bad, \A j \in Bad : k <= j PROVE FALSE
  <2>1. k # 1
    BY <1>2
  <2>2. k - 1 \in 1..n /\ k - 1 < n /\ k - 1 \notin Bad /\ (k - 1) + 1 = k
    BY <2>1, <1>4
  <2>3. P(k)
    BY <2>2, <1>3
  <2> QED BY <2>3
<1>5. Bad \in SUBSET Nat
  OBVIOUS
<1>6. Bad = {} => P(n)
  <2>1. n \in 1..n
    OBVIOUS
  <2> QED BY <2>1
<1> HIDE DEF Bad
<1>7. P(n)
  BY <1>4, <1>5, <1>6, Smallest
<1> QED BY <1>0, <1>7 DEF P

\* The windows of a batch in terms of their starts.
LEMMA WindowsByStart ==
  ASSUME NEW batch \in Seq(Rows), batch # <<>>, NEW interval \in Int, interval > 0,
         NEW order, order # "none"
  PROVE  LET s       == WindowStarts(batch, interval)
             windows == compute_windows(batch, interval, order)
             n       == Len(batch)
         IN /\ Starting(s, n, n, batch, interval)
            /\ Len(windows) = Len(s) /\ DOMAIN windows = 1..Len(s)
            /\ \A w \in 1..Len(s) :
                  /\ \A i : i \in windows[w].rows <=> i \in 1..n /\ In(s, w, i)
                  /\ windows[w].window_start = batch[s[w]].t
                  /\ windows[w].window_end = batch[s[w]].t + interval
                  /\ windows[w].is_partial <=> w = Len(s)
<1> DEFINE s == WindowStarts(batch, interval)
           windows == compute_windows(batch, interval, order)
           n == Len(batch)
<1>1. n \in Nat /\ n > 0 /\ DOMAIN batch = 1..n /\ \A i \in 1..n : batch[i].t \in Int
  <2>1. n \in Nat /\ n > 0 /\ DOMAIN batch = 1..n /\ \A i \in 1..n : batch[i] \in Rows
    OBVIOUS
  <2> QED BY <2>1 DEF Rows
<1>2. Starting(s, n, n, batch, interval)
  BY <1>1, AllStarts
<1> DEFINE End(w) == IF w = Len(s) THEN n ELSE s[w + 1] - 1
<1>3. windows = [w \in 1..Len(s) |->
                   [rows |-> s[w]..End(w),
                    window_start |-> batch[s[w]].t,
                    window_end |-> batch[s[w]].t + interval,
                    is_partial |-> w = Len(s)]]
  BY DEF compute_windows
<1> HIDE DEF s, windows, n
<1>4. PICK l \in Nat : l = Len(s) /\ l > 0
  <2>1. s \in Seq(1..n) /\ s # <<>>
    BY <1>2 DEF Starting
  <2> QED BY <2>1
<1>5. Len(windows) = l /\ DOMAIN windows = 1..l
  BY <1>3, <1>4
<1>6. \A w \in 1..l : s[w] \in 1..n
  <2>1. s \in Seq(1..n)
    BY <1>2 DEF Starting
  <2>2. \A w \in 1..Len(s) : s[w] \in 1..n
    BY ONLY <2>1, Elements
  <2> QED BY <2>2, <1>4
<1>7. ASSUME NEW w \in 1..l
      PROVE  /\ windows[w].rows = s[w]..End(w)
             /\ windows[w].window_start = batch[s[w]].t
             /\ windows[w].window_end = batch[s[w]].t + interval
             /\ windows[w].is_partial <=> w = l
  BY <1>3, <1>4
<1>8. ASSUME NEW w \in 1..l, NEW i
      PROVE  i \in s[w]..End(w) <=> i \in 1..n /\ In(s, w, i)
  <2>1. CASE w = l
    BY <2>1, <1>1, <1>4, <1>6 DEF In
  <2>2. CASE w # l
    <3>1. w + 1 \in 1..l /\ w < l
      BY <2>2, <1>4
    <3>2. s[w + 1] \in 1..n /\ s[w] \in 1..n
      BY <3>1, <1>6
    <3> QED BY <2>2, <3>1, <3>2, <1>1, <1>4 DEF In
  <2> QED BY <2>1, <2>2
<1> HIDE DEF End
<1> QED BY <1>2, <1>4, <1>5, <1>7, <1>8 DEF s, windows, n

\* What WindowsPartition says of one constraint.
Partition(windows, batch) ==
    windows # <<>> =>
        /\ \A i \in DOMAIN batch : \E w \in DOMAIN windows :
              /\ i \in windows[w].rows
              /\ \A x \in DOMAIN windows : i \in windows[x].rows => x = w
              /\ batch[i].t < windows[w].window_end
        /\ \A w \in 1..(Len(windows) - 1) :
              /\ windows[w].window_end <= windows[w + 1].window_start
              /\ \A i \in windows[w].rows, j \in windows[w + 1].rows : i < j
        /\ \A w \in DOMAIN windows : windows[w].is_partial <=> w = Len(windows)

LEMMA WindowsArePartition ==
  ASSUME NEW batch \in Seq(Rows), NEW interval \in Int, interval > 0, NEW order
  PROVE  LET windows == compute_windows(batch, interval, order)
         IN /\ Partition(windows, batch)
            /\ Len(windows) \in Nat /\ Len(windows) <= Len(batch)
            /\ DOMAIN windows = 1..Len(windows)
<1> DEFINE windows == compute_windows(batch, interval, order)
           s == WindowStarts(batch, interval)
           n == Len(batch)
<1>1. CASE batch = <<>> \/ order = "none"
  <2>1. windows = <<>>
    BY <1>1 DEF compute_windows
  <2> QED BY <2>1 DEF Partition
<1>2. CASE batch # <<>> /\ order # "none"
  <2>1. /\ Starting(s, n, n, batch, interval)
        /\ Len(windows) = Len(s) /\ DOMAIN windows = 1..Len(s)
        /\ \A w \in 1..Len(s) :
              /\ \A i : i \in windows[w].rows <=> i \in 1..n /\ In(s, w, i)
              /\ windows[w].window_start = batch[s[w]].t
              /\ windows[w].window_end = batch[s[w]].t + interval
              /\ windows[w].is_partial <=> w = Len(s)
    BY <1>2, WindowsByStart
  <2>0. DOMAIN batch = 1..n /\ n \in Nat
    OBVIOUS
  <2> HIDE DEF windows, s, n
  <2>10. s \in Seq(1..n) /\ s # <<>> /\ \A w \in 1..Len(s) : w <= s[w]
    BY <2>1 DEF Starting
  <2>2. PICK l \in Nat : l = Len(s) /\ l > 0
    BY <2>10
  <2>3. \A w \in 1..l : w <= s[w] /\ s[w] \in 1..n
    <3>1. \A w \in 1..Len(s) : s[w] \in 1..n
      BY ONLY <2>10, Elements
    <3> QED BY <3>1, <2>2, <2>10
  <2>4. l <= n
    BY <2>0, <2>2, <2>3
  <2>5. \A v, w \in 1..l : v < w => s[v] < s[w]
    BY <2>1, <2>2 DEF Starting
  <2>6. ASSUME NEW v \in 1..l, NEW w \in 1..l, v < w, NEW i \in windows[v].rows,
               NEW j \in windows[w].rows
        PROVE  i < j
    <3>1. In(s, v, i) /\ In(s, w, j) /\ i \in 1..n /\ j \in 1..n
      BY <2>1, <2>2
    <3>2. i < s[v + 1] /\ s[w] <= j
      BY <3>1, <2>2, <2>6 DEF In
    <3>3. v + 1 \in 1..l /\ s[v + 1] <= s[w]
      BY <2>3, <2>5, <2>6
    <3> QED BY <3>1, <3>2, <3>3, <2>3
  <2>7. ASSUME NEW i \in 1..n
        PROVE  \E w \in 1..l : /\ i \in windows[w].rows
                               /\ \A x \in 1..l : i \in windows[x].rows => x = w
                               /\ batch[i].t < windows[w].window_end
    <3>1. PICK w \in 1..l : In(s, w, i)
      BY <2>1, <2>2 DEF Starting
    <3>2. i \in windows[w].rows
      BY <3>1, <2>1, <2>2
    <3>3. batch[i].t < windows[w].window_end
      BY <3>1, <2>1, <2>2 DEF Starting
    <3>4. ASSUME NEW x \in 1..l, i \in windows[x].rows PROVE x = w
      <4>1. ~(x < w) /\ ~(w < x)
        BY <3>2, <3>4, <2>6
      <4> QED BY <4>1
    <3> QED BY <3>2, <3>3, <3>4
  <2>8. ASSUME NEW w \in 1..(l - 1)
        PROVE  windows[w].window_end <= windows[w + 1].window_start
    <3>1. batch[s[w + 1]].t >= batch[s[w]].t + interval
      BY <2>1, <2>2 DEF Starting
    <3>2. w \in 1..l /\ w + 1 \in 1..l
      OBVIOUS
    <3>3. batch[s[w + 1]].t \in Int /\ batch[s[w]].t \in Int
      <4>1. batch[s[w + 1]] \in Rows /\ batch[s[w]] \in Rows
        BY <3>2, <2>0, <2>3
      <4> QED BY <4>1 DEF Rows
    <3> QED BY <3>1, <3>2, <3>3, <2>1, <2>2
  <2>11. \A w \in 1..(l - 1) : \A i \in windows[w].rows, j \in windows[w + 1].rows : i < j
    <3> TAKE w \in 1..(l - 1)
    <3>1. w \in 1..l /\ w + 1 \in 1..l /\ w < w + 1
      OBVIOUS
    <3> QED BY <3>1, <2>6
  <2>12. Len(windows) = l /\ DOMAIN windows = 1..l /\ \A w \in 1..l : windows[w].is_partial <=> w = l
    BY <2>1, <2>2
  <2>9. Partition(windows, batch)
    BY <2>0, <2>7, <2>8, <2>11, <2>12 DEF Partition
  <2> QED BY <2>1, <2>2, <2>4, <2>9 DEF windows, n
<1> QED BY <1>1, <1>2

LEMMA CheckedIsPartition ==
  ASSUME NEW batch \in Seq(Rows), NEW c \in AggregateConstraints, NEW order
  PROVE  LET checked == Checked(batch, c, order)
         IN /\ Partition(checked.windows, batch)
            /\ checked.total \in Nat /\ checked.total <= Len(batch)
            /\ Cardinality(checked.violated) \in Nat
            /\ Cardinality(checked.violated) <= checked.total
<1> DEFINE windows == IF c.interval <= 0 THEN <<>> ELSE compute_windows(batch, c.interval, order)
           checked == Checked(batch, c, order)
           known == c.column \in {"t", "v"}
<1>1. /\ Partition(windows, batch) /\ Len(windows) \in Nat /\ Len(windows) <= Len(batch)
      /\ DOMAIN windows = 1..Len(windows)
  <2>1. CASE c.interval <= 0
    <3>1. windows = <<>> /\ Len(batch) \in Nat
      BY <2>1
    <3> HIDE DEF windows
    <3> QED BY <3>1 DEF Partition
  <2>2. CASE c.interval > 0
    <3>1. c.interval \in Int
      BY DEF AggregateConstraints
    <3> QED BY <2>2, <3>1, WindowsArePartition
  <2> QED BY <2>1, <2>2 DEF AggregateConstraints
<1>2. /\ checked.windows = IF known THEN windows ELSE <<>>
      /\ checked.total = Len(windows) /\ checked.violated \in SUBSET DOMAIN windows
  BY DEF Checked
<1> HIDE DEF windows, checked, known
<1>3. Partition(checked.windows, batch)
  BY <1>1, <1>2 DEF Partition
<1>4. Cardinality(checked.violated) \in Nat /\ Cardinality(checked.violated) <= Len(windows)
  <2>1. IsFiniteSet(1..Len(windows)) /\ Cardinality(1..Len(windows)) = Len(windows)
    <3>1. 1 \in Int /\ Len(windows) \in Int /\ (IF 1 > Len(windows) THEN 0 ELSE Len(windows) - 1 + 1) = Len(windows)
      BY <1>1
    <3> QED BY <3>1, FS_Interval
  <2>2. IsFiniteSet(checked.violated) /\ Cardinality(checked.violated) <= Len(windows)
    BY <2>1, <1>1, <1>2, FS_Subset
  <2> QED BY <2>2, FS_CardinalityType
<1> QED BY <1>1, <1>2, <1>3, <1>4 DEF checked

LEMMA ProductMonotone ==
  ASSUME NEW a \in Nat, NEW b \in Nat, NEW c \in Nat, b <= c
  PROVE  a * b <= a * c
OBVIOUS

\* v of t windows exclude their share of n rows.
LEMMA Share ==
  ASSUME NEW n \in Nat, NEW t \in Nat, NEW v \in Nat, v <= t
  PROVE  LET q == n \div (IF t > 1 THEN t ELSE 1)
         IN /\ q \in Nat
            /\ (v * q) * t <= v * n
            /\ v * q <= n
            /\ t <= n /\ v > 0 => v * q > 0
<1> DEFINE d == IF t > 1 THEN t ELSE 1
           q == n \div d
<1>1. d \in Nat /\ d > 0 /\ t <= d /\ v <= d /\ (t <= n /\ v > 0 => d <= n)
  OBVIOUS
<1> HIDE DEF d
<1>2. q \in Nat /\ q * d <= n /\ n < (q + 1) * d
  BY <1>1
<1> HIDE DEF q
<1>3. q * t <= n
  <2>1. q * t <= q * d /\ q * t \in Nat /\ q * d \in Nat
    BY <1>1, <1>2, ProductMonotone
  <2> QED BY <2>1, <1>2
<1>4. v * (q * t) <= v * n
  <2>1. q * t \in Nat
    BY <1>2
  <2> QED BY <2>1, <1>3, ProductMonotone
<1>5. (v * q) * t = v * (q * t)
  BY <1>2
<1>6. v * q <= n
  <2>1. q * v <= q * d /\ q * v \in Nat /\ q * d \in Nat /\ q * v = v * q
    BY <1>1, <1>2, ProductMonotone
  <2> QED BY <2>1, <1>2
<1>7. ASSUME t <= n, v > 0 PROVE v * q > 0
  <2>1. q # 0
    BY <1>1, <1>2, <1>7
  <2> QED BY <2>1, <1>2, <1>7
<1> QED BY <1>2, <1>4, <1>5, <1>6, <1>7 DEF q, d

\* There are no more violated windows than windows, over all constraints.
LEMMA ViolatedAtMostTotal ==
  ASSUME NEW n \in Nat, NEW checked, DOMAIN checked = 1..n,
         \A k \in 1..n : /\ checked[k].total \in Nat
                         /\ Cardinality(checked[k].violated) \in Nat
                         /\ Cardinality(checked[k].violated) <= checked[k].total
  PROVE  /\ Total(checked) \in Nat /\ ViolatedWindows(checked) \in Nat
         /\ ViolatedWindows(checked) <= Total(checked)
         /\ n = 0 => ViolatedWindows(checked) = 0
         /\ n = 1 => Total(checked) = checked[1].total
<1>1. PICK t \in [0..n -> Nat] :
         /\ t[0] = 0 /\ t[n] = Total(checked)
         /\ \A i \in 1..n : t[i] = t[i - 1] + checked[i].total
  BY TotalChain
<1>2. PICK v \in [0..n -> Nat] :
         /\ v[0] = 0 /\ v[n] = ViolatedWindows(checked)
         /\ \A i \in 1..n : v[i] = v[i - 1] + Cardinality(checked[i].violated)
  BY ViolatedChain
<1> DEFINE Bad == {i \in 0..n : ~(v[i] <= t[i])}
<1>3. ASSUME NEW i \in Bad, \A j \in Bad : i <= j PROVE FALSE
  <2>1. i # 0
    BY <1>1, <1>2
  <2>2. i \in 1..n /\ i - 1 \in 0..n /\ i - 1 \notin Bad
    BY <2>1, <1>3
  <2>3. v[i - 1] <= t[i - 1] /\ v[i - 1] \in Nat /\ t[i - 1] \in Nat
    BY <2>2
  <2>4. v[i] <= t[i]
    <3>1. v[i] = v[i - 1] + Cardinality(checked[i].violated) /\ t[i] = t[i - 1] + checked[i].total
      BY <2>2, <1>1, <1>2
    <3>2. /\ checked[i].total \in Nat /\ Cardinality(checked[i].violated) \in Nat
          /\ Cardinality(checked[i].violated) <= checked[i].total
      BY <2>2
    <3> HIDE DEF Bad
    <3> QED BY ONLY <2>3, <3>1, <3>2
  <2> QED BY <2>4
<1>4. Bad \in SUBSET Nat /\ (Bad = {} => v[n] <= t[n])
  <2>1. n \in 0..n /\ Bad \in SUBSET Nat
    OBVIOUS
  <2> QED BY <2>1
<1> HIDE DEF Bad
<1>5. v[n] <= t[n]
  BY <1>3, <1>4, Smallest
<1>6. n = 1 => t[1] = checked[1].total
  <2> SUFFICES ASSUME n = 1 PROVE t[1] = checked[1].total
    OBVIOUS
  <2>1. 1 \in 1..n /\ 1 - 1 = 0
    OBVIOUS
  <2>2. t[1] = t[1 - 1] + checked[1].total
    BY <2>1, <1>1
  <2> QED BY <2>1, <2>2, <1>1
<1> QED BY <1>1, <1>2, <1>5, <1>6

\* What the aggregate engine returns for one batch.
LEMMA ExecuteShares ==
  ASSUME NEW batch \in Seq(Rows), NEW defs \in Seq(AggregateConstraints), NEW order
  PROVE  LET r == execute(batch, defs, order)
         IN /\ r.batch = batch
            /\ DOMAIN r.checked = DOMAIN defs
            /\ \A k \in DOMAIN defs : Partition(r.checked[k].windows, batch)
            /\ r.excluded_rows * r.total_windows <= r.windows_violated * Len(batch)
            /\ r.excluded_rows <= Len(batch)
            /\ Len(defs) = 1 /\ r.windows_violated > 0 => r.excluded_rows > 0
<1> DEFINE checked  == [k \in DOMAIN defs |-> Checked(batch, defs[k], order)]
           total    == IF defs = <<>> THEN 0 ELSE Total(checked)
           violated == ViolatedWindows(checked)
           q == Len(batch) \div (IF total > 1 THEN total ELSE 1)
           r == execute(batch, defs, order)
           n == Len(defs)
<1>1. /\ r.batch = batch /\ r.checked = checked /\ r.total_windows = total
      /\ r.windows_violated = violated /\ r.excluded_rows = violated * q
  BY DEF execute
<1>2. n \in Nat /\ DOMAIN checked = 1..n /\ DOMAIN defs = 1..n /\ Len(batch) \in Nat
      /\ (defs = <<>> <=> n = 0)
  OBVIOUS
<1>3. \A k \in 1..n : checked[k] = Checked(batch, defs[k], order) /\ defs[k] \in AggregateConstraints
  BY <1>2
<1> HIDE DEF checked, r, n
<1>4. ASSUME NEW k \in 1..n
      PROVE  /\ Partition(checked[k].windows, batch)
             /\ checked[k].total \in Nat /\ checked[k].total <= Len(batch)
             /\ Cardinality(checked[k].violated) \in Nat
             /\ Cardinality(checked[k].violated) <= checked[k].total
  BY <1>3, CheckedIsPartition
<1>5. /\ Total(checked) \in Nat /\ ViolatedWindows(checked) \in Nat
      /\ ViolatedWindows(checked) <= Total(checked)
      /\ n = 0 => ViolatedWindows(checked) = 0
      /\ n = 1 => Total(checked) = checked[1].total
  BY <1>2, <1>4, ViolatedAtMostTotal
<1>6. total \in Nat /\ violated \in Nat /\ violated <= total
  BY <1>2, <1>5
<1>7. n = 1 => total <= Len(batch)
  BY <1>2, <1>4, <1>5
<1> HIDE DEF total, violated
<1>8. /\ (violated * q) * total <= violated * Len(batch)
      /\ violated * q <= Len(batch)
      /\ total <= Len(batch) /\ violated > 0 => violated * q > 0
  BY <1>2, <1>6, Share
<1> HIDE DEF q
<1>9. \A k \in DOMAIN defs : Partition(r.checked[k].windows, batch)
  BY <1>1, <1>2, <1>4
<1>10. DOMAIN r.checked = DOMAIN defs
  BY <1>1, <1>2
<1>11. /\ r.excluded_rows * r.total_windows <= r.windows_violated * Len(batch)
       /\ r.excluded_rows <= Len(batch)
       /\ n = 1 /\ r.windows_violated > 0 => r.excluded_rows > 0
  BY <1>1, <1>7, <1>8
<1> QED BY <1>1, <1>9, <1>10, <1>11 DEF r, n

-----------------------------------------------------------------------------
Fits(defs, current, previous) ==
    \A k \in DOMAIN defs : check_constraint(defs[k], current, previous)

\* Of the values kept at positions e of a stream, that at e[w] is the last one before x.
LastBefore(e, l, w, x) == e[w] < x /\ (w < l => e[w + 1] >= x)

(***************************************************************************)
(* kept are the values of stream at the increasing positions e, and a      *)
(* position is one of them just if no value is kept before it or it fits   *)
(* the last one kept before it.                                            *)
(***************************************************************************)
GreedyBy(defs, stream, kept, e) ==
    /\ stream \in Seq(Int) /\ kept \in Seq(Int)
    /\ e \in [1..Len(kept) -> 1..Len(stream)]
    /\ \A i \in 1..Len(kept) : kept[i] = stream[e[i]]
    /\ \A i, j \in 1..Len(kept) : i < j => e[i] < e[j]
    /\ \A x \in 1..Len(stream) :
          (\E i \in 1..Len(kept) : e[i] = x) <=>
          (\A w \in 1..Len(kept) : LastBefore(e, Len(kept), w, x) => Fits(defs, stream[x], stream[e[w]]))

Greedy(defs, stream, kept) == \E e : GreedyBy(defs, stream, kept, e)

LEMMA GreedyKeeps ==
  ASSUME NEW defs, NEW stream, NEW kept, Greedy(defs, stream, kept), NEW v \in Int,
         kept = <<>> \/ Fits(defs, v, Last(kept))
  PROVE  Greedy(defs, Append(stream, v), Append(kept, v))
<1>1. PICK e : GreedyBy(defs, stream, kept, e)
  BY DEF Greedy
<1>2. /\ stream \in Seq(Int) /\ kept \in Seq(Int)
      /\ e \in [1..Len(kept) -> 1..Len(stream)]
  BY <1>1 DEF GreedyBy
<1>3. PICK l \in Nat, n \in Nat : l = Len(kept) /\ n = Len(stream)
  BY <1>2
<1> DEFINE f == Append(stream, v)
           o == Append(kept, v)
           d == [i \in 1..(l + 1) |-> IF i = l + 1 THEN n + 1 ELSE e[i]]
<1>4. /\ f \in Seq(Int) /\ Len(f) = n + 1 /\ f[n + 1] = v /\ \A x \in 1..n : f[x] = stream[x]
      /\ o \in Seq(Int) /\ Len(o) = l + 1 /\ o[l + 1] = v /\ \A i \in 1..l : o[i] = kept[i]
  BY <1>2, <1>3
<1>5. \A i \in 1..l : d[i] = e[i] /\ e[i] \in 1..n
  <2>1. \A i \in 1..l : d[i] = e[i]
    OBVIOUS
  <2> HIDE DEF d, f, o
  <2>2. \A i \in 1..l : e[i] \in 1..n
    BY <1>2, <1>3
  <2> QED BY <2>1, <2>2
<1>6. d[l + 1] = n + 1
  OBVIOUS
<1>7. d \in [1..(l + 1) -> 1..(n + 1)]
  <2>1. \A i \in 1..(l + 1) : i = l + 1 \/ i \in 1..l
    OBVIOUS
  <2>2. \A i \in 1..l : d[i] \in 1..(n + 1)
    <3>1. 1..n \subseteq 1..(n + 1)
      OBVIOUS
    <3> HIDE DEF d
    <3> QED BY <3>1, <1>5
  <2>3. d[l + 1] \in 1..(n + 1)
    BY <1>6
  <2>4. \A i \in 1..(l + 1) : d[i] \in 1..(n + 1)
    <3> HIDE DEF d
    <3> QED BY <2>1, <2>2, <2>3
  <2> QED BY <2>4
<1>8. l > 0 => Last(kept) = kept[l] /\ kept # <<>>
  BY <1>2, <1>3 DEF Last
<1> HIDE DEF f, o, d
<1>9. /\ \A i \in 1..l : kept[i] = stream[e[i]]
      /\ \A i, j \in 1..l : i < j => e[i] < e[j]
      /\ \A x \in 1..n :
          (\E i \in 1..l : e[i] = x) <=>
          (\A w \in 1..l : LastBefore(e, l, w, x) => Fits(defs, stream[x], stream[e[w]]))
  BY <1>1, <1>3 DEF GreedyBy
<1>10. \A i \in 1..(l + 1) : o[i] = f[d[i]]
  <2> TAKE i \in 1..(l + 1)
  <2>1. CASE i \in 1..l
    <3>1. o[i] = kept[i] /\ kept[i] = stream[e[i]] /\ d[i] = e[i] /\ e[i] \in 1..n
      BY <2>1, <1>4, <1>5, <1>9
    <3>2. f[e[i]] = stream[e[i]]
      BY <3>1, <1>4
    <3> QED BY <3>1, <3>2
  <2>2. CASE i = l + 1
    BY <2>2, <1>4, <1>6
  <2> QED BY <2>1, <2>2
<1>11. \A i, j \in 1..(l + 1) : i < j => d[i] < d[j]
  <2> TAKE i, j \in 1..(l + 1)
  <2>1. CASE j \in 1..l
    BY <2>1, <1>5, <1>9
  <2>2. CASE j = l + 1
    BY <2>2, <1>5, <1>6
  <2> QED BY <2>1, <2>2
<1>12. ASSUME NEW x \in 1..(n + 1)
       PROVE  (\E i \in 1..(l + 1) : d[i] = x) <=>
              (\A w \in 1..(l + 1) : LastBefore(d, l + 1, w, x) => Fits(defs, f[x], f[d[w]]))
  <2>1. ~LastBefore(d, l + 1, l + 1, x)
    BY <1>6 DEF LastBefore
  <2>2. CASE x \in 1..n
    <3>1. (\E i \in 1..(l + 1) : d[i] = x) <=> (\E i \in 1..l : e[i] = x)
      <4>1. d[l + 1] # x
        BY <2>2, <1>6
      <4>2. \A i \in 1..(l + 1) : i \in 1..l \/ i = l + 1
        OBVIOUS
      <4>3. \A i \in 1..l : i \in 1..(l + 1) /\ d[i] = e[i]
        BY <1>5
      <4> QED BY <4>1, <4>2, <4>3
    <3>2. ASSUME NEW w \in 1..l PROVE LastBefore(d, l + 1, w, x) <=> LastBefore(e, l, w, x)
      <4>1. CASE w < l
        <5>1. w + 1 \in 1..l
          BY <4>1
        <5> QED BY <4>1, <5>1, <1>5 DEF LastBefore
      <4>2. CASE w = l
        BY <4>2, <2>2, <1>5, <1>6 DEF LastBefore
      <4> QED BY <4>1, <4>2
    <3>3. \A w \in 1..l : f[d[w]] = stream[e[w]]
      BY <1>4, <1>5
    <3>4. f[x] = stream[x]
      BY <2>2, <1>4
    <3>5. \A w \in 1..(l + 1) : w \in 1..l \/ w = l + 1
      OBVIOUS
    <3>6. 1..l \subseteq 1..(l + 1)
      OBVIOUS
    <3>7. (\A w \in 1..(l + 1) : LastBefore(d, l + 1, w, x) => Fits(defs, f[x], f[d[w]]))
          <=> (\A w \in 1..l : LastBefore(e, l, w, x) => Fits(defs, stream[x], stream[e[w]]))
      BY <2>1, <3>2, <3>3, <3>4, <3>5, <3>6
    <3> QED BY <3>1, <3>7, <2>2, <1>9
  <2>3. CASE x = n + 1
    <3>1. l + 1 \in 1..(l + 1) /\ d[l + 1] = x
      BY <2>3, <1>6
    <3>2. ASSUME NEW w \in 1..(l + 1), LastBefore(d, l + 1, w, x)
          PROVE  Fits(defs, f[x], f[d[w]])
      <4>1. w # l + 1
        BY <2>1, <3>2
      <4>2. w = l
        <5>1. SUFFICES ASSUME w < l PROVE FALSE
          BY <4>1
        <5>2. w + 1 \in 1..l /\ d[w + 1] >= x
          BY <5>1, <3>2 DEF LastBefore
        <5>3. d[w + 1] \in 1..n
          BY <5>2, <1>5
        <5> QED BY <5>2, <5>3, <2>3
      <4>3. l > 0 /\ l \in 1..l
        BY <4>1, <4>2
      <4>4. f[d[w]] = kept[l]
        <5>1. kept[l] = stream[e[l]] /\ d[l] = e[l] /\ e[l] \in 1..n
          BY <4>3, <1>5, <1>9
        <5>2. f[e[l]] = stream[e[l]]
          BY <5>1, <1>4
        <5> QED BY <5>1, <5>2, <4>2
      <4>5. f[x] = v
        BY <2>3, <1>4
      <4> QED BY <4>3, <4>4, <4>5, <1>8
    <3> QED BY <3>1, <3>2
  <2> QED BY <2>2, <2>3
<1>13. GreedyBy(defs, f, o, d)
  BY <1>4, <1>7, <1>10, <1>11, <1>12 DEF GreedyBy
<1> QED BY <1>13 DEF Greedy, f, o

LEMMA GreedyDrops ==
  ASSUME NEW defs, NEW stream, NEW kept, Greedy(defs, stream, kept), NEW v \in Int,
         kept # <<>>, ~Fits(defs, v, Last(kept))
  PROVE  Greedy(defs, Append(stream, v), kept)
<1>1. PICK e : GreedyBy(defs, stream, kept, e)
  BY DEF Greedy
<1>2. /\ stream \in Seq(Int) /\ kept \in Seq(Int)
      /\ e \in [1..Len(kept) -> 1..Len(stream)]
  BY <1>1 DEF GreedyBy
<1>3. PICK l \in Nat, n \in Nat : l = Len(kept) /\ n = Len(stream)
  BY <1>2
<1> DEFINE f == Append(stream, v)
<1>4. f \in Seq(Int) /\ Len(f) = n + 1 /\ f[n + 1] = v /\ \A x \in 1..n : f[x] = stream[x]
  BY <1>2, <1>3
<1>5. \A i \in 1..l : e[i] \in 1..n
  BY <1>2, <1>3
<1>6. l > 0 /\ l \in 1..l /\ Last(kept) = kept[l]
  BY <1>2, <1>3 DEF Last
<1> HIDE DEF f
<1>7. /\ \A i \in 1..l : kept[i] = stream[e[i]]
      /\ \A i, j \in 1..l : i < j => e[i] < e[j]
      /\ \A x \in 1..n :
          (\E i \in 1..l : e[i] = x) <=>
          (\A w \in 1..l : LastBefore(e, l, w, x) => Fits(defs, stream[x], stream[e[w]]))
  BY <1>1, <1>3 DEF GreedyBy
<1>8. \A i \in 1..l : f[e[i]] = stream[e[i]]
  BY <1>4, <1>5
<1>9. ASSUME NEW x \in 1..(n + 1)
      PROVE  (\E i \in 1..l : e[i] = x) <=>
             (\A w \in 1..l : LastBefore(e, l, w, x) => Fits(defs, f[x], f[e[w]]))
  <2>1. CASE x \in 1..n
    <3>1. f[x] = stream[x]
      BY <2>1, <1>4
    <3> QED BY <2>1, <3>1, <1>7, <1>8
  <2>2. CASE x = n + 1
    <3>1. \A i \in 1..l : e[i] # x
      BY <2>2, <1>5
    <3>2. LastBefore(e, l, l, x)
      BY <2>2, <1>5, <1>6 DEF LastBefore
    <3>3. ~Fits(defs, f[x], f[e[l]])
      BY <2>2, <1>4, <1>6, <1>7, <1>8
    <3> QED BY <3>1, <3>2, <3>3, <1>6
  <2> QED BY <2>1, <2>2
<1>10. e \in [1..l -> 1..(n + 1)]
  <2>1. 1..n \subseteq 1..(n + 1)
    OBVIOUS
  <2> QED BY <2>1, <1>2, <1>3
<1>11. GreedyBy(defs, f, kept, e)
  BY <1>2, <1>3, <1>4, <1>7, <1>8, <1>9, <1>10 DEF GreedyBy
<1> QED BY <1>11 DEF Greedy, f

FirstPositions(e, i) == {e[j] : j \in 1..i}

\* The first i of increasing positions are i positions.
LEMMA IncreasingCount ==
  ASSUME NEW l \in Nat, NEW e \in [1..l -> Nat], \A i, j \in 1..l : i < j => e[i] < e[j],
         NEW i \in 0..l
  PROVE  Cardinality(FirstPositions(e, i)) = i
<1> DEFINE T == {e[j] : j \in 1..i}
           f == [j \in 1..i |-> e[j]]
<1>1. \A j \in 1..i : j \in 1..l
  OBVIOUS
<1>2. f \in Surjection(1..i, T)
  BY DEF Surjection
<1>3. \A a, b \in 1..i : a # b => f[a] # f[b]
  <2> TAKE a, b \in 1..i
  <2>1. e[a] \in Nat /\ e[b] \in Nat
    BY <1>1
  <2>2. a < b => e[a] < e[b]
    BY <1>1
  <2>3. b < a => e[b] < e[a]
    BY <1>1
  <2> QED BY <2>1, <2>2, <2>3
<1>4. f \in Injection(1..i, T)
  BY <1>3 DEF Injection, IsInjective
<1>5. ExistsBijection(1..i, T)
  BY <1>2, <1>4 DEF ExistsBijection, Bijection
<1>6. IsFiniteSet(1..i) /\ Cardinality(1..i) = i
  <2>1. 1 \in Int /\ i \in Int /\ (IF 1 > i THEN 0 ELSE i - 1 + 1) = i
    OBVIOUS
  <2> QED BY <2>1, FS_Interval
<1> HIDE DEF T
<1> QED BY <1>5, <1>6, FS_Bijection DEF T, FirstPositions

\* What greedy means in terms of the set of positions kept.
LEMMA GreedyIsOnePass ==
  ASSUME NEW defs, NEW stream, NEW kept, Greedy(defs, stream, kept)
  PROVE  \E K \in SUBSET DOMAIN stream :
            /\ kept = [i \in 1..Cardinality(K) |->
                         stream[CHOOSE j \in K : Cardinality({x \in K : x <= j}) = i]]
            /\ \A i \in DOMAIN stream :
                  LET before == {j \in K : j < i}
                  IN i \in K <=>
                        (before # {} =>
                            Fits(defs, stream[i], stream[CHOOSE j \in before : \A x \in before : x <= j]))
<1>1. PICK e : GreedyBy(defs, stream, kept, e)
  BY DEF Greedy
<1>2. /\ stream \in Seq(Int) /\ kept \in Seq(Int)
      /\ e \in [1..Len(kept) -> 1..Len(stream)]
  BY <1>1 DEF GreedyBy
<1>3. PICK l \in Nat, n \in Nat : l = Len(kept) /\ n = Len(stream)
  BY <1>2
<1>4. DOMAIN stream = 1..n /\ kept = [i \in 1..l |-> kept[i]]
  BY <1>2, <1>3
<1>5. e \in [1..l -> 1..n] /\ e \in [1..l -> Nat]
  BY <1>2, <1>3
<1>6. /\ \A i \in 1..l : kept[i] = stream[e[i]]
      /\ \A i, j \in 1..l : i < j => e[i] < e[j]
      /\ \A x \in 1..n :
          (\E i \in 1..l : e[i] = x) <=>
          (\A w \in 1..l : LastBefore(e, l, w, x) => Fits(defs, stream[x], stream[e[w]]))
  BY <1>1, <1>3 DEF GreedyBy
<1> DEFINE K == {e[i] : i \in 1..l}
<1>7. K \in SUBSET (1..n) /\ \A i \in 1..l : e[i] \in K /\ e[i] \in 1..n
  BY <1>5
<1>8. Cardinality(K) = l
  <2>1. l \in 0..l /\ K = FirstPositions(e, l)
    BY DEF FirstPositions
  <2> HIDE DEF K
  <2>2. \A i, j \in 1..l : i < j => e[i] < e[j]
    BY <1>6
  <2> QED BY ONLY <2>1, <2>2, <1>5, l \in Nat, IncreasingCount
<1>9. \A i \in 1..l : Cardinality({x \in K : x <= e[i]}) = i
  <2> TAKE i \in 1..l
  <2>1. {x \in K : x <= e[i]} = {e[j] : j \in 1..i}
    <3>1. ASSUME NEW j \in 1..i PROVE e[j] \in K /\ e[j] <= e[i]
      <4>1. j \in 1..l /\ (j = i \/ j < i)
        OBVIOUS
      <4>2. e[j] \in 1..n /\ e[i] \in 1..n /\ e[j] \in K
        BY <4>1, <1>7
      <4> HIDE DEF K
      <4> QED BY <4>1, <4>2, <1>6
    <3>2. ASSUME NEW j \in 1..l, e[j] <= e[i] PROVE j \in 1..i
      <4>1. ~(i < j)
        <5>1. e[j] \in 1..n /\ e[i] \in 1..n
          BY <1>5
        <5>2. i < j => e[i] < e[j]
          BY <1>6
        <5> QED BY <5>1, <5>2, <3>2
      <4> QED BY <4>1
    <3> QED BY <3>1, <3>2
  <2>2. i \in 0..l /\ {x \in K : x <= e[i]} = FirstPositions(e, i)
    BY <2>1 DEF FirstPositions
  <2>3. \A a, b \in 1..l : a < b => e[a] < e[b]
    BY <1>6
  <2>4. Cardinality(FirstPositions(e, i)) = i
    BY ONLY <2>2, <2>3, <1>5, l \in Nat, IncreasingCount
  <2> QED BY <2>2, <2>4
<1>10. ASSUME NEW i \in 1..l
       PROVE  (CHOOSE j \in K : Cardinality({x \in K : x <= j}) = i) = e[i]
  <2>1. ASSUME NEW j \in K, Cardinality({x \in K : x <= j}) = i PROVE j = e[i]
    <3>1. PICK m \in 1..l : j = e[m]
      OBVIOUS
    <3>2. m = i
      BY <3>1, <2>1, <1>9
    <3> QED BY <3>1, <3>2
  <2>2. e[i] \in K /\ Cardinality({x \in K : x <= e[i]}) = i
    BY <1>7, <1>9
  <2> HIDE DEF K
  <2> QED BY <2>1, <2>2
<1>11. kept = [i \in 1..l |-> stream[CHOOSE j \in K : Cardinality({x \in K : x <= j}) = i]]
  BY <1>4, <1>6, <1>10
<1>12. ASSUME NEW i \in 1..n
       PROVE  LET before == {j \in K : j < i}
              IN i \in K <=>
                    (before # {} =>
                        Fits(defs, stream[i], stream[CHOOSE j \in before : \A x \in before : x <= j]))
  <2> DEFINE before == {j \in K : j < i}
             last == CHOOSE j \in before : \A x \in before : x <= j
  <2>1. i \in K <=> \A w \in 1..l : LastBefore(e, l, w, i) => Fits(defs, stream[i], stream[e[w]])
    BY <1>6
  <2>2. ASSUME NEW w \in 1..l, LastBefore(e, l, w, i) PROVE before # {} /\ last = e[w]
    <3>1. e[w] < i
      BY <2>2 DEF LastBefore
    <3>2. e[w] \in before
      BY <3>1, <1>7
    <3>3. ASSUME NEW m \in 1..l, e[m] < i PROVE e[m] <= e[w]
      <4>1. e[m] \in 1..n /\ e[w] \in 1..n
        BY <1>5
      <4>2. CASE m <= w
        BY <4>1, <4>2, <1>6
      <4>3. CASE m > w
        <5>1. w < l /\ w + 1 \in 1..l /\ (w + 1 = m \/ w + 1 < m)
          BY <4>3
        <5>2. e[w + 1] >= i /\ e[w + 1] \in 1..n
          BY <5>1, <2>2, <1>5 DEF LastBefore
        <5>3. e[w + 1] <= e[m]
          BY <4>1, <5>1, <5>2, <1>6
        <5> QED BY <3>3, <4>1, <5>2, <5>3
      <4> QED BY <4>2, <4>3
    <3>4. \A x \in before : x <= e[w]
      BY <3>3
    <3>5. \A x \in before : x \in Nat
      BY <1>7
    <3> HIDE DEF before
    <3>6. last \in before /\ \A x \in before : x <= last
      BY <3>2, <3>4
    <3>7. last = e[w]
      BY <3>2, <3>4, <3>5, <3>6
    <3> QED BY <3>2, <3>7
  <2>3. ASSUME before # {} PROVE \E w \in 1..l : LastBefore(e, l, w, i)
    <3> DEFINE W == {w \in 1..l : e[w] < i}
    <3>1. W \in SUBSET (1..l) /\ W # {}
      BY <2>3
    <3>2. Max(W) \in W /\ \A w \in W : w <= Max(W)
      BY <3>1, Largest
    <3>3. Max(W) \in 1..l /\ e[Max(W)] < i
      BY <3>2
    <3>4. ASSUME Max(W) < l PROVE e[Max(W) + 1] >= i
      <4>1. Max(W) + 1 \in 1..l /\ Max(W) + 1 \notin W
        BY <3>2, <3>3, <3>4
      <4>2. ~(e[Max(W) + 1] < i) /\ e[Max(W) + 1] \in 1..n
        BY <4>1, <1>5
      <4> QED BY <4>2
    <3> QED BY <3>3, <3>4 DEF LastBefore
  <2> HIDE DEF before, last
  <2> HIDE DEF K
  <2>4. i \in K <=> (before # {} => Fits(defs, stream[i], stream[last]))
    BY <2>1, <2>2, <2>3
  <2> QED BY <2>4 DEF before, last
<1> HIDE DEF K
<1>13. K \in SUBSET DOMAIN stream
  BY <1>4, <1>7
<1> QED BY <1>4, <1>8, <1>11, <1>12, <1>13

LEMMA ConcatAppend ==
  ASSUME NEW s \in Seq(Int), NEW t \in Seq(Int), NEW v \in Int
  PROVE  s \o Append(t, v) = Append(s \o t, v) /\ Append(t, v) \in Seq(Int)
OBVIOUS

LEMMA ConcatNothing ==
  ASSUME NEW s \in Seq(Int)
  PROVE  s \o <<>> = s
OBVIOUS

LEMMA LastOfConcat ==
  ASSUME NEW s \in Seq(Int), NEW t \in Seq(Int), t # <<>>
  PROVE  s \o t # <<>> /\ Last(s \o t) = Last(t)
<1>1. PICK m \in Nat, n \in Nat : m = Len(s) /\ n = Len(t) /\ n > 0
  OBVIOUS
<1>2. s \o t \in Seq(Int) /\ Len(s \o t) = m + n /\ (s \o t)[m + n] = t[n]
  BY <1>1
<1> QED BY <1>1, <1>2 DEF Last

LEMMA ValuesOf ==
  ASSUME NEW rows \in Seq(Rows)
  PROVE  /\ Values(rows) \in Seq(Int) /\ (Values(rows) = <<>> <=> rows = <<>>)
         /\ rows # <<>> => Last(Values(rows)) = Last(rows).v /\ Last(rows).v \in Int
         /\ \A row \in Rows : /\ row.v \in Int
                              /\ Values(Append(rows, row)) = Append(Values(rows), row.v)
<1>1. PICK n \in Nat : n = Len(rows) /\ DOMAIN rows = 1..n
  OBVIOUS
<1>2. \A i \in 1..n : rows[i] \in Rows /\ rows[i].v \in Int
  <2>1. \A i \in 1..n : rows[i] \in Rows
    BY <1>1
  <2> QED BY <2>1 DEF Rows
<1>3. Values(rows) = [i \in 1..n |-> rows[i].v]
  BY <1>1 DEF Values
<1>4. Values(rows) \in Seq(Int) /\ Len(Values(rows)) = n /\ \A i \in 1..n : Values(rows)[i] = rows[i].v
  BY <1>2, <1>3
<1>5. rows # <<>> => n > 0 /\ Last(Values(rows)) = Last(rows).v /\ Last(rows).v \in Int
  BY <1>1, <1>2, <1>4 DEF Last
<1>6. ASSUME NEW row \in Rows
      PROVE  row.v \in Int /\ Values(Append(rows, row)) = Append(Values(rows), row.v)
  <2>1. row.v \in Int
    BY DEF Rows
  <2> DEFINE more == Append(rows, row)
  <2>2. DOMAIN more = 1..(n + 1) /\ more[n + 1] = row /\ \A i \in 1..n : more[i] = rows[i]
    BY <1>1
  <2> HIDE DEF more
  <2>3. Values(more) = [i \in 1..(n + 1) |-> more[i].v]
    BY <2>2 DEF Values
  <2>4. Append(Values(rows), row.v) = [i \in 1..(n + 1) |-> IF i = n + 1 THEN row.v ELSE rows[i].v]
    BY <1>4, <2>1
  <2>5. \A i \in 1..(n + 1) : more[i].v = IF i = n + 1 THEN row.v ELSE rows[i].v
    BY <2>2
  <2>6. Values(more) = Append(Values(rows), row.v)
    BY <2>3, <2>4, <2>5
  <2> QED BY <2>1, <2>6 DEF more
<1> QED BY <1>1, <1>4, <1>5, <1>6

\* The states that the engine expects: the last value kept, for every constraint.
StatesFor(defs, kept) == [k \in DOMAIN defs |-> IF kept = <<>> THEN None ELSE Last(kept)]

\* A row passes if it fits the last value kept in this batch or before.
LEMMA PassesIfFits ==
  ASSUME NEW defs \in Seq(InterRowConstraints), \A k \in DOMAIN defs : defs[k].column = "v",
         defs # <<>>, NEW kept \in Seq(Int), NEW passed \in Seq(Rows), NEW row
  PROVE  LET all == kept \o Values(passed)
         IN RowPasses(defs, StatesFor(defs, kept), passed, row) <=>
               (all = <<>> \/ Fits(defs, row.v, Last(all)))
<1> DEFINE all == kept \o Values(passed)
           expected == StatesFor(defs, kept)
<1>0. None \notin Int
  BY PipelineAssumption
<1>1. CASE passed # <<>>
  <2>1. Values(passed) \in Seq(Int) /\ Values(passed) # <<>> /\ Last(Values(passed)) = Last(passed).v
        /\ Last(passed).v \in Int
    BY <1>1, ValuesOf
  <2>2. all # <<>> /\ Last(all) = Last(passed).v
    BY <2>1, LastOfConcat
  <2> HIDE DEF all, expected
  <2>3. RowPasses(defs, expected, passed, row) <=>
           \A k \in DOMAIN defs : check_constraint(defs[k], row.v, Last(passed).v)
    BY <1>0, <1>1, <2>1 DEF RowPasses
  <2> QED BY <2>2, <2>3 DEF Fits, all, expected
<1>2. CASE passed = <<>>
  <2>1. all = kept
    <3>1. Values(passed) = <<>>
      BY <1>2, ValuesOf
    <3> QED BY <3>1, ConcatNothing
  <2>2. PICK n \in Nat : n = Len(defs) /\ DOMAIN defs = 1..n /\ n > 0
    OBVIOUS
  <2>3. DOMAIN expected = 1..n /\ \A j \in 1..n : expected[j] = IF kept = <<>> THEN None ELSE Last(kept)
    BY <2>2 DEF StatesFor
  <2>4. kept # <<>> => Last(kept) \in Int
    BY DEF Last
  <2> HIDE DEF expected
  <2>5. ASSUME NEW k \in 1..n
        PROVE  Incoming(defs, expected, k) = IF kept = <<>> THEN None ELSE Last(kept)
    <3> DEFINE of == {j \in DOMAIN expected : defs[j].column = defs[k].column /\ expected[j] # None}
               last == CHOOSE j \in of : \A i \in of : i <= j
    <3>1. Incoming(defs, expected, k) = IF of = {} THEN None ELSE expected[last]
      BY DEF Incoming
    <3>2. CASE kept = <<>>
      <4>1. of = {}
        BY <3>2, <2>3
      <4> QED BY <3>1, <3>2, <4>1
    <3>3. CASE kept # <<>>
      <4>1. of = 1..n
        BY <3>3, <1>0, <2>2, <2>3, <2>4
      <4>2. n \in of /\ \A i \in of : i <= n
        BY <4>1, <2>2
      <4> HIDE DEF of
      <4>3. last \in of
        BY <4>2
      <4> HIDE DEF last
      <4> QED BY <3>1, <3>3, <4>1, <4>2, <4>3, <2>3
    <3> QED BY <3>2, <3>3
  <2>6. RowPasses(defs, expected, passed, row) <=>
           \A k \in DOMAIN defs : Incoming(defs, expected, k) # None =>
              check_constraint(defs[k], row.v, Incoming(defs, expected, k))
    BY <1>2 DEF RowPasses
  <2>7. CASE kept = <<>>
    BY <2>1, <2>2, <2>5, <2>6, <2>7 DEF expected
  <2>8. CASE kept # <<>>
    <3>1. RowPasses(defs, expected, passed, row) <=>
             \A k \in DOMAIN defs : check_constraint(defs[k], row.v, Last(kept))
      BY <2>2, <2>4, <2>5, <2>6, <2>8, <1>0
    <3> QED BY <3>1, <2>1, <2>8 DEF Fits, expected
  <2> QED BY <2>7, <2>8
<1> QED BY <1>1, <1>2

\* The values of the first i rows.
FirstValues(batch, i) == [j \in 1..i |-> batch[j].v]

\* After each row of a batch, what was kept is what one pass over the rows would keep.
LEMMA GreedyBatch ==
  ASSUME NEW defs \in Seq(InterRowConstraints), \A k \in DOMAIN defs : defs[k].column = "v",
         defs # <<>>, NEW stream, NEW kept, Greedy(defs, stream, kept), NEW batch \in Seq(Rows)
  PROVE  LET passed == PassingRows(defs, StatesFor(defs, kept), batch)
         IN /\ passed \in Seq(Rows)
            /\ Greedy(defs, stream \o Values(batch), kept \o Values(passed))
<1> DEFINE incoming == StatesFor(defs, kept)
<1>1. PICK n \in Nat : n = Len(batch) /\ DOMAIN batch = 1..n
  OBVIOUS
<1>2. stream \in Seq(Int) /\ kept \in Seq(Int)
  BY DEF Greedy, GreedyBy
<1>3. \A i \in 1..n : batch[i] \in Rows /\ batch[i].v \in Int
  <2>1. \A i \in 1..n : batch[i] \in Rows
    BY <1>1
  <2> QED BY <2>1 DEF Rows
<1> HIDE DEF incoming
<1>4. PICK acc : PassedUpTo(acc, defs, incoming, batch)
  BY PassingChain
<1>5. /\ acc \in [0..n -> Seq(Rows)] /\ acc[0] = <<>> /\ acc[n] = PassingRows(defs, incoming, batch)
      /\ \A i \in 1..n : acc[i] = IF RowPasses(defs, incoming, acc[i - 1], batch[i])
                                 THEN Append(acc[i - 1], batch[i]) ELSE acc[i - 1]
  BY <1>1, <1>4 DEF PassedUpTo, PassRow
<1>6. ASSUME NEW i \in 0..n PROVE FirstValues(batch, i) \in Seq(Int)
  BY <1>3 DEF FirstValues
<1> DEFINE P(i) == Greedy(defs, stream \o FirstValues(batch, i), kept \o Values(acc[i]))
           Bad == {i \in 0..n : ~P(i)}
<1>7. P(0)
  <2>1. FirstValues(batch, 0) = <<>>
    BY DEF FirstValues
  <2>2. Values(acc[0]) = <<>>
    BY <1>5 DEF Values
  <2> QED BY <2>1, <2>2, <1>2, ConcatNothing
<1>8. ASSUME NEW i \in 1..n, P(i - 1) PROVE P(i)
  <2> DEFINE s == stream \o FirstValues(batch, i - 1)
             all == kept \o Values(acc[i - 1])
             row == batch[i]
  <2>0. i - 1 \in 0..n /\ acc[i - 1] \in Seq(Rows) /\ row \in Rows /\ row.v \in Int
    <3>1. i - 1 \in 0..n
      OBVIOUS
    <3> QED BY <3>1, <1>3, <1>5
  <2>1. stream \o FirstValues(batch, i) = Append(s, row.v)
    <3> DEFINE before == FirstValues(batch, i - 1)
    <3>1. before \in Seq(Int) /\ Len(before) = i - 1 /\ \A j \in 1..(i - 1) : before[j] = batch[j].v
      <4>1. before \in Seq(Int)
        BY <2>0, <1>6
      <4>2. before = [j \in 1..(i - 1) |-> batch[j].v]
        BY DEF FirstValues
      <4> HIDE DEF before
      <4> QED BY <4>1, <4>2, <2>0
    <3>2. Append(before, row.v) = [j \in 1..i |-> IF j = i THEN row.v ELSE before[j]]
      BY <3>1
    <3>3. \A j \in 1..i : batch[j].v = IF j = i THEN row.v ELSE before[j]
      BY <3>1
    <3> HIDE DEF before
    <3>4. FirstValues(batch, i) = Append(before, row.v)
      BY <3>2, <3>3 DEF FirstValues
    <3>5. stream \o Append(before, row.v) = Append(stream \o before, row.v)
      BY <3>1, <2>0, <1>2, ConcatAppend
    <3> QED BY <3>4, <3>5 DEF before
  <2>2. RowPasses(defs, incoming, acc[i - 1], row) <=> (all = <<>> \/ Fits(defs, row.v, Last(all)))
    BY <2>0, <1>2, PassesIfFits DEF incoming
  <2>3. /\ Values(acc[i - 1]) \in Seq(Int)
        /\ Values(Append(acc[i - 1], row)) = Append(Values(acc[i - 1]), row.v)
    BY <2>0, ValuesOf
  <2>4. kept \o Values(Append(acc[i - 1], row)) = Append(all, row.v)
    <3> DEFINE old == Values(acc[i - 1])
    <3>1. old \in Seq(Int) /\ Values(Append(acc[i - 1], row)) = Append(old, row.v)
      BY <2>3
    <3> HIDE DEF old, row
    <3>2. kept \o Append(old, row.v) = Append(kept \o old, row.v)
      BY ONLY <3>1, <2>0, <1>2, ConcatAppend
    <3> QED BY <3>1, <3>2 DEF old
  <2>5. Greedy(defs, s, all)
    BY <1>8
  <2>6. acc[i] = IF RowPasses(defs, incoming, acc[i - 1], row)
                 THEN Append(acc[i - 1], row) ELSE acc[i - 1]
    BY <1>5
  <2> HIDE DEF s, row
  <2>7. CASE RowPasses(defs, incoming, acc[i - 1], row)
    <3>1. kept \o Values(acc[i]) = Append(all, row.v)
      BY <2>4, <2>6, <2>7
    <3> HIDE DEF all
    <3>2. Greedy(defs, Append(s, row.v), Append(all, row.v))
      BY <2>0, <2>2, <2>5, <2>7, GreedyKeeps
    <3> QED BY <3>1, <3>2, <2>1
  <2>8. CASE ~RowPasses(defs, incoming, acc[i - 1], row)
    <3>1. kept \o Values(acc[i]) = all
      BY <2>6, <2>8
    <3> HIDE DEF all
    <3>2. Greedy(defs, Append(s, row.v), all)
      BY <2>0, <2>2, <2>5, <2>8, GreedyDrops
    <3> QED BY <3>1, <3>2, <2>1
  <2> QED BY <2>7, <2>8
<1> HIDE DEF P
<1>9. ASSUME NEW i \in Bad, \A j \in Bad : i <= j PROVE FALSE
  <2>1. i # 0
    BY <1>7
  <2>2. i \in 1..n /\ i - 1 \in 0..n /\ i - 1 \notin Bad
    BY <2>1, <1>9
  <2>3. P(i)
    BY <2>2, <1>8
  <2> QED BY <2>3
<1>10. Bad \in SUBSET Nat
  OBVIOUS
<1>11. Bad = {} => P(n)
  <2>1. n \in 0..n
    OBVIOUS
  <2> QED BY <2>1
<1> HIDE DEF Bad
<1>12. P(n)
  BY <1>9, <1>10, <1>11, Smallest
<1>13. FirstValues(batch, n) = Values(batch)
  BY <1>1 DEF FirstValues, Values
<1>14. acc[n] \in Seq(Rows)
  BY <1>5
<1> QED BY <1>5, <1>12, <1>13, <1>14 DEF P, incoming

LEMMA GreedyOnNothing ==
  ASSUME NEW defs
  PROVE  Greedy(defs, <<>>, <<>>)
<1> DEFINE none == <<>>
           e == [i \in 1..0 |-> 0]
<1>1. none \in Seq(Int) /\ Len(none) = 0
  OBVIOUS
<1>2. 1..0 = {}
  OBVIOUS
<1>3. e \in [1..0 -> 1..0]
  BY <1>2
<1> HIDE DEF none, e
<1>4. GreedyBy(defs, none, none, e)
  BY <1>1, <1>2, <1>3 DEF GreedyBy
<1> QED BY <1>4 DEF Greedy, none

LEMMA PassedAreRows ==
  ASSUME NEW batch \in Seq(Rows), NEW defs, NEW incoming
  PROVE  PassingRows(defs, incoming, batch) \in Seq(Rows)
<1>1. PICK acc : PassedUpTo(acc, defs, incoming, batch)
  BY PassingChain
<1>2. acc \in [0..Len(batch) -> Seq(Rows)] /\ Len(batch) \in 0..Len(batch)
  BY <1>1 DEF PassedUpTo
<1> QED BY <1>1, <1>2 DEF PassedUpTo

-----------------------------------------------------------------------------
RequestInv == request # None => request \in Requests

IdleInv == request = None => fed = <<>> /\ out = <<>> /\ filtered = None /\ phase_two = None

\* The caller's states hold the last value kept, and what was kept is one pass over
\* what was fed.
StreamInv ==
    request # None /\ request.inter_row # <<>> =>
        /\ states = StatesFor(request.inter_row, out)
        /\ Greedy(request.inter_row, fed, out)

FilteredInv == filtered # None => filtered \in Seq(Rows)

PhaseInv ==
    phase_two # None =>
        \E batch \in Seq(Rows) : phase_two = execute(batch, request.aggregate, request.order)

PipelineInv == RequestInv /\ IdleInv /\ StreamInv /\ FilteredInv /\ PhaseInv

LEMMA PipelineInvInit == Init => PipelineInv
  BY DEF Init, PipelineInv, RequestInv, IdleInv, StreamInv, FilteredInv, PhaseInv

LEMMA ClassifyKeeps ==
  ASSUME PipelineInv, NEW q \in Requests, NEW engine \in BOOLEAN, ClassifyAndRoute(q, engine)
  PROVE  PipelineInv'
<1>1. /\ request = None /\ request' = q /\ states' = Empty(q.inter_row)
      /\ fed' = fed /\ out' = out /\ filtered' = filtered /\ phase_two' = phase_two
  BY DEF ClassifyAndRoute
<1>2. fed = <<>> /\ out = <<>> /\ filtered = None /\ phase_two = None
  BY <1>1 DEF PipelineInv, IdleInv
<1>3. StreamInv'
  <2>1. Greedy(q.inter_row, <<>>, <<>>)
    BY GreedyOnNothing
  <2>2. Empty(q.inter_row) = StatesFor(q.inter_row, <<>>)
    BY DEF Empty, StatesFor
  <2> QED BY <1>1, <1>2, <2>1, <2>2 DEF StreamInv
<1> QED BY <1>1, <1>2, <1>3 DEF PipelineInv, RequestInv, IdleInv, FilteredInv, PhaseInv

LEMMA ExecuteBatchKeeps ==
  ASSUME PipelineInv, NEW batch \in Batches, execute_batch(batch)
  PROVE  PipelineInv'
<1> DEFINE defs   == request.inter_row
           passed == PassingRows(defs, states, batch)
           next   == Outgoing(defs, batch, passed)
<1>1. /\ request # None /\ request' = request /\ phase_two' = None /\ filtered' = passed
      /\ validate_constraints(defs, request.order) /\ states' = next
      /\ IF next = Empty(defs) THEN fed' = <<>> /\ out' = <<>>
         ELSE fed' = fed \o Values(batch) /\ out' = out \o Values(passed)
  BY DEF execute_batch
<1>2. batch \in Seq(Rows) /\ request \in Requests /\ defs \in Seq(InterRowConstraints) /\ None \notin Int
  BY <1>1, PipelineAssumption DEF PipelineInv, RequestInv
<1>3. passed \in Seq(Rows)
  BY <1>2, PassedAreRows
<1>4. ASSUME defs # <<>>
      PROVE  states' = StatesFor(defs, out') /\ Greedy(defs, fed', out')
  <2>1. \A k \in DOMAIN defs : defs[k].column = "v"
    BY <1>1, <1>4 DEF validate_constraints
  <2>2. states = StatesFor(defs, out) /\ Greedy(defs, fed, out) /\ out \in Seq(Int)
    <3>1. states = StatesFor(defs, out) /\ Greedy(defs, fed, out)
      BY <1>1, <1>4 DEF PipelineInv, StreamInv
    <3> QED BY <3>1 DEF Greedy, GreedyBy
  <2>3. next = [k \in DOMAIN defs |-> IF passed = <<>> THEN None ELSE Last(passed).v]
    BY DEF Outgoing
  <2>4. PICK n \in Nat : DOMAIN defs = 1..n /\ n > 0
    BY <1>2, <1>4
  <2>5. Greedy(defs, fed \o Values(batch), out \o Values(passed))
    BY <1>2, <1>4, <2>1, <2>2, GreedyBatch
  <2> HIDE DEF passed, next, defs
  <2>6. CASE passed = <<>>
    <3>1. next = Empty(defs) /\ next = StatesFor(defs, <<>>)
      BY <2>3, <2>6 DEF Empty, StatesFor
    <3> QED BY <1>1, <3>1, GreedyOnNothing
  <2>7. CASE passed # <<>>
    <3>1. /\ Values(passed) \in Seq(Int) /\ Values(passed) # <<>>
          /\ Last(Values(passed)) = Last(passed).v /\ Last(passed).v \in Int
      BY <1>3, <2>7, ValuesOf
    <3>2. next # Empty(defs)
      <4>1. 1 \in DOMAIN defs
        BY <2>4
      <4>2. next[1] = Last(passed).v
        BY <2>3, <2>7, <4>1
      <4>3. Empty(defs)[1] = None
        BY <4>1 DEF Empty
      <4> QED BY <1>2, <3>1, <4>2, <4>3
    <3>3. fed' = fed \o Values(batch) /\ out' = out \o Values(passed)
      BY <1>1, <3>2
    <3>4. out' # <<>> /\ Last(out') = Last(passed).v
      BY <2>2, <3>1, <3>3, LastOfConcat
    <3>5. next = StatesFor(defs, out')
      BY <2>3, <2>7, <3>4 DEF StatesFor
    <3> QED BY <1>1, <2>5, <3>3, <3>5
  <2> QED BY <2>6, <2>7
<1>5. RequestInv' /\ IdleInv'
  BY <1>1 DEF PipelineInv, RequestInv, IdleInv
<1>6. StreamInv'
  BY <1>1, <1>4 DEF StreamInv
<1>7. FilteredInv' /\ PhaseInv'
  BY <1>1, <1>3 DEF FilteredInv, PhaseInv
<1> QED BY <1>5, <1>6, <1>7 DEF PipelineInv

LEMMA AggregateKeeps ==
  ASSUME PipelineInv, Aggregate
  PROVE  PipelineInv'
<1>1. /\ filtered # None /\ filtered' = None
      /\ phase_two' = execute(filtered, request.aggregate, request.order)
      /\ UNCHANGED <<request, states, fed, out>>
  BY DEF Aggregate
<1>2. filtered \in Seq(Rows) /\ request # None
  BY <1>1 DEF PipelineInv, FilteredInv, IdleInv
<1>3. PhaseInv'
  BY <1>1, <1>2 DEF PhaseInv
<1>4. StreamInv'
  BY <1>1 DEF PipelineInv, StreamInv
<1> QED BY <1>1, <1>2, <1>3, <1>4 DEF PipelineInv, RequestInv, IdleInv, FilteredInv

LEMMA PipelineInvStep == PipelineInv /\ [Next]_vars => PipelineInv'
<1> SUFFICES ASSUME PipelineInv, [Next]_vars PROVE PipelineInv'
  OBVIOUS
<1>1. ASSUME NEW q \in Requests, NEW engine \in BOOLEAN, ClassifyAndRoute(q, engine)
      PROVE  PipelineInv'
  BY <1>1, ClassifyKeeps
<1>2. ASSUME NEW batch \in Batches, execute_batch(batch) PROVE PipelineInv'
  BY <1>2, ExecuteBatchKeeps
<1>3. CASE Aggregate
  BY <1>3, AggregateKeeps
<1>4. CASE UNCHANGED <<request, states, fed, out, filtered, phase_two>>
  BY <1>4 DEF PipelineInv, RequestInv, IdleInv, StreamInv, FilteredInv, PhaseInv
<1>5. ASSUME NEW n \in RowCounts, NEW target \in RowCounts, NEW side \in {-1, 0, 1},
             NEW was_degraded \in BOOLEAN, PostFilterAndBuild(n, target, side, was_degraded)
      PROVE  UNCHANGED <<request, states, fed, out, filtered, phase_two>>
  BY <1>5 DEF PostFilterAndBuild
<1>6. CASE UNCHANGED vars
  BY <1>4, <1>6 DEF vars
<1> QED BY <1>1, <1>2, <1>3, <1>4, <1>5, <1>6 DEF Next

LEMMA PipelineInvHolds == Spec => []PipelineInv
  BY PipelineInvInit, PipelineInvStep, PTL DEF Spec

(***************************************************************************)
(* For any constraints, batches and values: as long as the states are not  *)
(* lost, InterRowEngine::execute_batch lets through what one pass over all *)
(* rows would keep, wherever the batches are cut (inter_row_engine.cpp).   *)
(***************************************************************************)
THEOREM BatchingNeverShows == Spec => []BatchingInvisible
<1>1. PipelineInv => BatchingInvisible
  <2> SUFFICES ASSUME PipelineInv, request # None, request.inter_row # <<>>
               PROVE  BatchingInvisible
    BY DEF BatchingInvisible
  <2>1. Greedy(request.inter_row, fed, out)
    BY DEF PipelineInv, StreamInv
  <2>2. \E K \in SUBSET DOMAIN fed :
            /\ out = [i \in 1..Cardinality(K) |->
                         fed[CHOOSE j \in K : Cardinality({x \in K : x <= j}) = i]]
            /\ \A i \in DOMAIN fed :
                  LET before == {j \in K : j < i}
                  IN i \in K <=>
                        (before # {} =>
                            Fits(request.inter_row, fed[i],
                                 fed[CHOOSE j \in before : \A x \in before : x <= j]))
    BY <2>1, GreedyIsOnePass
  <2> QED BY <2>2 DEF BatchingInvisible, Holds, Fits
<1> QED BY <1>1, PipelineInvHolds, PTL

LEMMA PhaseTwoShares ==
  ASSUME PipelineInv, phase_two # None
  PROVE  /\ \A k \in DOMAIN phase_two.checked : Partition(phase_two.checked[k].windows, phase_two.batch)
         /\ phase_two.excluded_rows * phase_two.total_windows
               <= phase_two.windows_violated * Len(phase_two.batch)
         /\ phase_two.excluded_rows <= Len(phase_two.batch)
         /\ Len(request.aggregate) = 1 /\ phase_two.windows_violated > 0 =>
               phase_two.excluded_rows > 0
<1>1. PICK batch \in Seq(Rows) : phase_two = execute(batch, request.aggregate, request.order)
  BY DEF PipelineInv, PhaseInv
<1>2. request.aggregate \in Seq(AggregateConstraints)
  BY PipelineAssumption DEF PipelineInv, RequestInv, IdleInv
<1> QED BY <1>1, <1>2, ExecuteShares

(***************************************************************************)
(* For any batch and any interval: windows partition the rows in order, as *)
(* AggregateEngine::compute_windows builds them, rows out of order of time *)
(* included.                                                               *)
(***************************************************************************)
THEOREM WindowsAlwaysPartition == Spec => []WindowsPartition
<1>1. PipelineInv => WindowsPartition
  BY PhaseTwoShares DEF WindowsPartition, Partition
<1> QED BY <1>1, PipelineInvHolds, PTL

(***************************************************************************)
(* For any batch and any constraints: the rows that AggregateEngine counts *)
(* as excluded are at most the share of the violated windows, and with one *)
(* constraint a violated window always excludes a row.                     *)
(***************************************************************************)
THEOREM ExclusionIsAlwaysShare == Spec => []ExclusionIsShare
<1>1. PipelineInv => ExclusionIsShare
  BY PhaseTwoShares DEF ExclusionIsShare
<1> QED BY <1>1, PipelineInvHolds, PTL
=============================================================================
