------------------------------ MODULE FoldSums ------------------------------
(***************************************************************************)
(* What FoldLeft of the community modules computes when it adds up a weight *)
(* for every element of a sequence.  FoldLeft recurses over the subsets of  *)
(* the sequence's domain, taking the largest index first; SumsOver(g, w, n)    *)
(* says that g is that recursion for the weights w[1..n].                   *)
(*                                                                          *)
(* The provers cannot instantiate an induction theorem that has an operator *)
(* parameter, so induction over the length is done with LeastNat: the set   *)
(* of counterexamples is empty because it would have a least element.       *)
(***************************************************************************)
EXTENDS Integers, Sequences, FiniteSets, SequencesExt, FiniteSetTheorems,
        WellFoundedInduction, TLAPS

SumsOver(g, w, n) ==
    g = [s \in SUBSET (1..n) |->
            IF s = {} THEN 0 ELSE g[s \ {Max(s)}] + w[Max(s)]]

\* Every non-empty set of natural numbers has a least element.
LEMMA LeastNat ==
    ASSUME NEW T, T \subseteq Nat, T # {}
    PROVE  \E x \in T : \A y \in T : ~(y < x)
  <1>1. IsWellFoundedOn(OpToRel(<, Nat), Nat)
    BY NatLessThanWellFounded
  <1>2. \E x \in T : \A y \in T : ~(<<y, x>> \in OpToRel(<, Nat))
    BY <1>1, WFMin
  <1>3. QED
    BY <1>2 DEF OpToRel

\* Induction over 0..n: a set that holds 0 and with every k - 1 also k holds n.
LEMMA IntervalInduction ==
    ASSUME NEW n \in Nat, NEW T, 0 \in T,
           \A k \in 1..n : k - 1 \in T => k \in T
    PROVE  \A k \in 0..n : k \in T
  <1> DEFINE Bad == {k \in 0..n : k \notin T}
  <1> SUFFICES ASSUME Bad # {} PROVE FALSE
    OBVIOUS
  <1>1. Bad \subseteq Nat
    OBVIOUS
  <1>2. PICK k \in Bad : \A j \in Bad : ~(j < k)
    <2> HIDE DEF Bad
    <2> QED
      BY <1>1, LeastNat
  <1>3. k \in 1..n
    BY <1>2
  <1>4. k - 1 \in 0..n /\ k - 1 \notin Bad
    BY <1>2, <1>3
  <1> QED
    BY <1>2, <1>3, <1>4

\* The largest index is taken first.
LEMMA MaxIsTop ==
    ASSUME NEW k \in Nat, NEW s \in SUBSET (1..k), k \in s
    PROVE  Max(s) = k
  <1>1. \A y \in s : k >= y
    OBVIOUS
  <1>2. \A x \in s : (\A y \in s : x >= y) => x = k
    OBVIOUS
  <1>3. QED
    BY <1>1, <1>2 DEF Max

LEMMA MaxIsMember ==
    ASSUME NEW n \in Nat, NEW s \in SUBSET (1..n), s # {}
    PROVE  Max(s) \in s /\ \A y \in s : Max(s) >= y
  <1> DEFINE T == {n - x : x \in s}
  <1>1. T \subseteq Nat /\ T # {}
    <2>1. PICK x : x \in s
      OBVIOUS
    <2>2. n - x \in T
      BY <2>1
    <2>3. T \subseteq Nat
      OBVIOUS
    <2>4. QED
      BY <2>2, <2>3
  <1>2. PICK d \in T : \A e \in T : ~(e < d)
    <2> HIDE DEF T
    <2> QED
      BY <1>1, LeastNat
  <1>3. n - d \in s /\ \A y \in s : n - d >= y
    BY <1>2
  <1>4. QED
    BY <1>3 DEF Max

LEMMA SumOfNone ==
    ASSUME NEW n \in Nat, NEW w, NEW g, SumsOver(g, w, n)
    PROVE  g[{}] = 0
  <1>1. {} \in SUBSET (1..n)
    OBVIOUS
  <1>2. QED
    BY <1>1 DEF SumsOver

\* Two recursions over the same weights agree where both are defined.
LEMMA FoldsAgree ==
    ASSUME NEW n \in Nat, NEW w, NEW g, SumsOver(g, w, n),
           NEW k \in 0..n, NEW v, NEW h, SumsOver(h, v, k),
           \A i \in 1..k : w[i] = v[i]
    PROVE  \A s \in SUBSET (1..k) : g[s] = h[s]
  <1> DEFINE T == {j \in 0..k : \A s \in SUBSET (1..j) : g[s] = h[s]}
  <1>1. 0 \in T
    <2>1. \A s \in SUBSET (1..0) : s = {}
      OBVIOUS
    <2>2. g[{}] = h[{}]
      BY SumOfNone
    <2>3. \A s \in SUBSET (1..0) : g[s] = h[s]
      BY <2>1, <2>2
    <2>4. QED
      BY <2>3
  <1>2. ASSUME NEW j \in 1..k, j - 1 \in T PROVE j \in T
    <2> SUFFICES ASSUME NEW s \in SUBSET (1..j) PROVE g[s] = h[s]
      OBVIOUS
    <2>1. CASE j \notin s
      <3>1. s \in SUBSET (1..(j - 1))
        BY <2>1
      <3>2. QED
        BY <1>2, <3>1
    <2>2. CASE j \in s
      <3>1. Max(s) = j
        BY <2>2, MaxIsTop
      <3>2. s \ {j} \in SUBSET (1..(j - 1))
        OBVIOUS
      <3>3. g[s \ {j}] = h[s \ {j}]
        BY <1>2, <3>2
      <3>4. s \in SUBSET (1..n) /\ s \in SUBSET (1..k) /\ s # {}
        BY <2>2
      <3>5. g[s] = g[s \ {j}] + w[j] /\ h[s] = h[s \ {j}] + v[j]
        BY <3>1, <3>4 DEF SumsOver
      <3>6. QED
        BY <3>3, <3>5
    <2>3. QED
      BY <2>1, <2>2
  <1>3. k \in T
    <2> HIDE DEF T
    <2> QED
      BY <1>1, <1>2, IntervalInduction
  <1>4. QED
    BY <1>3

\* The recursion is well defined.
LEMMA FoldsExist ==
    ASSUME NEW n \in Nat, NEW w
    PROVE  \E g : SumsOver(g, w, n)
  <1> DEFINE T == {j \in 0..n : \E g : SumsOver(g, w, j)}
  <1>1. 0 \in T
    <2> DEFINE z == [s \in SUBSET (1..0) |-> 0]
    <2>1. \A s \in SUBSET (1..0) : s = {}
      OBVIOUS
    <2>2. SumsOver(z, w, 0)
      BY <2>1 DEF SumsOver
    <2>3. QED
      BY <2>2
  <1>2. ASSUME NEW j \in 1..n, j - 1 \in T PROVE j \in T
    <2>1. PICK g : SumsOver(g, w, j - 1)
      BY <1>2
    <2> DEFINE h == [s \in SUBSET (1..j) |->
                        IF j \in s THEN g[s \ {j}] + w[j] ELSE g[s]]
    <2>2. ASSUME NEW s \in SUBSET (1..j)
          PROVE  h[s] = IF s = {} THEN 0 ELSE h[s \ {Max(s)}] + w[Max(s)]
      <3>1. CASE j \in s
        <4>1. Max(s) = j /\ s # {}
          BY <3>1, MaxIsTop
        <4>2. s \ {j} \in SUBSET (1..j) /\ j \notin s \ {j}
          OBVIOUS
        <4>3. h[s \ {j}] = g[s \ {j}]
          BY <4>2
        <4>4. h[s] = g[s \ {j}] + w[j]
          BY <3>1
        <4>5. QED
          BY <4>1, <4>3, <4>4
      <3>2. CASE j \notin s
        <4>1. s \in SUBSET (1..(j - 1))
          BY <3>2
        <4>2. h[s] = g[s]
          BY <3>2
        <4>3. g[s] = IF s = {} THEN 0 ELSE g[s \ {Max(s)}] + w[Max(s)]
          BY <2>1, <4>1 DEF SumsOver
        <4>4. s \ {Max(s)} \in SUBSET (1..j) /\ j \notin s \ {Max(s)}
          BY <3>2
        <4>5. h[s \ {Max(s)}] = g[s \ {Max(s)}]
          BY <4>4
        <4>6. QED
          BY <4>2, <4>3, <4>5
      <3>3. QED
        BY <3>1, <3>2
    <2>3. h = [s \in SUBSET (1..j) |->
                  IF s = {} THEN 0 ELSE h[s \ {Max(s)}] + w[Max(s)]]
      BY <2>2
    <2>4. \E f : SumsOver(f, w, j)
      <3> HIDE DEF h
      <3> QED
        BY <2>3 DEF SumsOver
    <2>5. QED
      BY <2>4
  <1>3. n \in T
    <2> HIDE DEF T
    <2> QED
      BY <1>1, <1>2, IntervalInduction
  <1>4. QED
    BY <1>3

\* The sum of the first k weights, one weight at a time.
LEMMA FoldsStep ==
    ASSUME NEW n \in Nat, NEW w, \A i \in 1..n : w[i] \in Nat,
           NEW g, SumsOver(g, w, n)
    PROVE  /\ g[1..0] = 0
           /\ \A k \in 1..n : g[1..k] = g[1..(k - 1)] + w[k]
           /\ \A k \in 0..n : g[1..k] \in Nat
  <1>1. g[1..0] = 0
    <2>1. 1..0 = {}
      OBVIOUS
    <2>2. QED
      BY <2>1, SumOfNone
  <1>2. ASSUME NEW k \in 1..n PROVE g[1..k] = g[1..(k - 1)] + w[k]
    <2>1. Max(1..k) = k
      BY MaxIsTop
    <2>2. (1..k) \ {k} = 1..(k - 1)
      OBVIOUS
    <2>3. 1..k \in SUBSET (1..n)
      OBVIOUS
    <2>4. k \in 1..k
      OBVIOUS
    <2>5. QED
      BY <2>1, <2>2, <2>3, <2>4 DEF SumsOver
  <1> DEFINE T == {k \in 0..n : g[1..k] \in Nat}
  <1>3. 0 \in T
    BY <1>1
  <1>4. ASSUME NEW k \in 1..n, k - 1 \in T PROVE k \in T
    <2>1. g[1..(k - 1)] \in Nat /\ w[k] \in Nat
      BY <1>4
    <2>2. g[1..k] \in Nat
      BY <1>2, <2>1
    <2>3. QED
      BY <2>2
  <1>5. \A k \in 0..n : k \in T
    <2> HIDE DEF T
    <2> QED
      BY <1>3, <1>4, IntervalInduction
  <1>6. QED
    BY <1>1, <1>2, <1>5

\* A longer prefix weighs no less.
LEMMA FoldsGrow ==
    ASSUME NEW n \in Nat, NEW w, \A i \in 1..n : w[i] \in Nat,
           NEW g, SumsOver(g, w, n), NEW k \in 0..n
    PROVE  g[1..k] <= g[1..n]
  <1> DEFINE T == {j \in 0..(n - k) : g[1..k] <= g[1..(k + j)]}
  <1>0. \A j \in 0..n : g[1..j] \in Nat
    BY FoldsStep
  <1>1. 0 \in T
    BY <1>0
  <1>2. ASSUME NEW j \in 1..(n - k), j - 1 \in T PROVE j \in T
    <2>1. k + j \in 1..n /\ k + (j - 1) = (k + j) - 1
      OBVIOUS
    <2>2. g[1..(k + j)] = g[1..((k + j) - 1)] + w[k + j]
      BY <2>1, FoldsStep
    <2>3. g[1..k] <= g[1..((k + j) - 1)]
      BY <1>2, <2>1
    <2>4. g[1..k] \in Nat /\ g[1..((k + j) - 1)] \in Nat /\ w[k + j] \in Nat
      <3>1. k \in 0..n /\ (k + j) - 1 \in 0..n
        BY <2>1
      <3>2. QED
        BY <1>0, <2>1, <3>1
    <2>5. QED
      BY <2>2, <2>3, <2>4
  <1>3. n - k \in T
    <2>1. n - k \in Nat
      OBVIOUS
    <2> HIDE DEF T
    <2>2. \A j \in 0..(n - k) : j \in T
      BY <1>1, <1>2, <2>1, IntervalInduction
    <2>3. QED
      BY <2>1, <2>2
  <1>4. QED
    BY <1>3

\* One more element adds its weight to what the shorter sequence weighs.
LEMMA SumAppend ==
    ASSUME NEW n \in Nat, NEW w, NEW v, NEW g, NEW h,
           \A i \in 1..n : w[i] = v[i], \A i \in 1..(n + 1) : v[i] \in Nat,
           SumsOver(g, w, n), SumsOver(h, v, n + 1)
    PROVE  h[1..(n + 1)] = g[1..n] + v[n + 1]
  <1>1. h[1..n] = g[1..n]
    <2>1. n + 1 \in Nat /\ n \in 0..(n + 1) /\ \A i \in 1..n : v[i] = w[i]
      OBVIOUS
    <2>2. \A s \in SUBSET (1..n) : h[s] = g[s]
      BY <2>1, FoldsAgree
    <2>3. QED
      BY <2>2
  <1>2. n + 1 \in Nat /\ n + 1 \in 1..(n + 1) /\ (n + 1) - 1 = n
    OBVIOUS
  <1>3. h[1..(n + 1)] = h[1..((n + 1) - 1)] + v[n + 1]
    BY <1>2, FoldsStep
  <1>4. QED
    BY <1>1, <1>2, <1>3

\* A prefix weighs no more than the whole.
LEMMA SumPrefix ==
    ASSUME NEW n \in Nat, NEW k \in 0..n, NEW w, NEW v, NEW g, NEW h,
           \A i \in 1..k : w[i] = v[i], \A i \in 1..n : w[i] \in Nat,
           SumsOver(g, w, n), SumsOver(h, v, k)
    PROVE  h[1..k] <= g[1..n]
  <1>1. h[1..k] = g[1..k]
    <2>1. \A s \in SUBSET (1..k) : g[s] = h[s]
      BY FoldsAgree
    <2>2. QED
      BY <2>1
  <1>2. QED
    BY <1>1, FoldsGrow

-----------------------------------------------------------------------------
(* Sums over sets.  MapThenSumSet takes the elements in whatever order CHOOSE *)
(* gives them; a measure is the order-independent sum it must agree with.     *)

Measures(m, w, n) ==
    /\ m \in [SUBSET (1..n) -> Nat]
    /\ m[{}] = 0
    /\ \A T \in SUBSET (1..n) : \A x \in T : m[T] = w[x] + m[T \ {x}]

\* g adds the elements of a set in some order.
Descends(g, w, S) ==
    /\ g[{}] = 0
    /\ \A T \in SUBSET S : T # {} => \E x \in T : g[T] = w[x] + g[T \ {x}]

\* g is the recursion of MapThenSumSet over the subsets of S.
Picks(g, w, S) ==
    g = [T \in SUBSET S |->
            IF T = {} THEN 0
            ELSE w[CHOOSE x \in T : TRUE] + g[T \ {CHOOSE x \in T : TRUE}]]

LEMMA MeasuresExist ==
    ASSUME NEW n \in Nat, NEW w, \A i \in 1..n : w[i] \in Nat
    PROVE  \E m : Measures(m, w, n)
  <1> DEFINE A == {j \in 0..n : \E m : Measures(m, w, j)}
  <1>1. 0 \in A
    <2> DEFINE z == [T \in SUBSET (1..0) |-> 0]
    <2>1. \A T \in SUBSET (1..0) : T = {}
      OBVIOUS
    <2>2. Measures(z, w, 0)
      BY <2>1 DEF Measures
    <2>3. QED
      BY <2>2
  <1>2. ASSUME NEW j \in 1..n, j - 1 \in A PROVE j \in A
    <2>1. PICK m : Measures(m, w, j - 1)
      BY <1>2
    <2> DEFINE I == 1..(j - 1)
    <2>2. /\ \A T \in SUBSET I : m[T] \in Nat
          /\ m[{}] = 0
          /\ \A T \in SUBSET I : \A x \in T : m[T] = w[x] + m[T \ {x}]
      BY <2>1 DEF Measures
    <2>3. \A T \in SUBSET (1..j) : T \ {j} \in SUBSET I /\ (j \notin T => T \in SUBSET I)
      OBVIOUS
    <2>4. w[j] \in Nat /\ \A x \in I : w[x] \in Nat
      OBVIOUS
    <2> HIDE DEF I
    <2> DEFINE h == [T \in SUBSET (1..j) |->
                        IF j \in T THEN w[j] + m[T \ {j}] ELSE m[T]]
    <2>5. h \in [SUBSET (1..j) -> Nat]
      BY <2>2, <2>3, <2>4
    <2>6. h[{}] = 0
      BY <2>2
    <2>7. ASSUME NEW T \in SUBSET (1..j), NEW x \in T
          PROVE  h[T] = w[x] + h[T \ {x}]
      <3>1. T \ {x} \in SUBSET (1..j)
        OBVIOUS
      <3>2. CASE x = j
        <4>1. h[T \ {j}] = m[T \ {j}]
          BY <3>1, <3>2
        <4>2. h[T] = w[j] + m[T \ {j}]
          BY <3>2
        <4>3. QED
          BY <3>2, <4>1, <4>2
      <3>3. CASE x # j /\ j \in T
        <4>1. h[T] = w[j] + m[T \ {j}]
          BY <3>3
        <4>2. h[T \ {x}] = w[j] + m[(T \ {x}) \ {j}]
          BY <3>1, <3>3
        <4>3. T \ {j} \in SUBSET I /\ x \in T \ {j} /\ (T \ {j}) \ {x} = (T \ {x}) \ {j}
          BY <2>3, <3>3
        <4>4. m[T \ {j}] = w[x] + m[(T \ {x}) \ {j}]
          <5>1. PICK R : R = T \ {j}
            OBVIOUS
          <5>2. R \in SUBSET I /\ x \in R /\ R \ {x} = (T \ {x}) \ {j}
            BY <4>3, <5>1
          <5>3. m[R] = w[x] + m[R \ {x}]
            BY <2>2, <5>2
          <5>4. QED
            BY <5>1, <5>2, <5>3
        <4>5. m[(T \ {x}) \ {j}] \in Nat /\ w[x] \in Nat
          <5>1. (T \ {x}) \ {j} \in SUBSET I /\ x \in I
            BY <4>3
          <5>2. QED
            BY <2>2, <2>4, <5>1
        <4>6. QED
          BY <2>4, <4>1, <4>2, <4>4, <4>5
      <3>4. CASE j \notin T
        <4>1. h[T] = m[T] /\ h[T \ {x}] = m[T \ {x}]
          BY <3>1, <3>4
        <4>2. QED
          BY <2>2, <2>3, <3>4, <4>1
      <3>5. QED
        BY <3>2, <3>3, <3>4
    <2> HIDE DEF h
    <2>8. Measures(h, w, j)
      BY <2>5, <2>6, <2>7 DEF Measures
    <2>9. QED
      BY <2>8
  <1>3. n \in A
    <2> HIDE DEF A
    <2> QED
      BY <1>1, <1>2, IntervalInduction
  <1>4. QED
    BY <1>3

\* Every order gives the same sum.
LEMMA DescentMeets ==
    ASSUME NEW n \in Nat, NEW w, NEW m, Measures(m, w, n),
           NEW S \in SUBSET (1..n), NEW g, Descends(g, w, S)
    PROVE  \A T \in SUBSET S : g[T] = m[T]
  <1> DEFINE Bad == {T \in SUBSET S : g[T] # m[T]}
             Sizes == {Cardinality(T) : T \in Bad}
  <1> SUFFICES ASSUME Bad # {} PROVE FALSE
    OBVIOUS
  <1>1. \A T \in SUBSET S : IsFiniteSet(T) /\ Cardinality(T) \in Nat
    <2>1. IsFiniteSet(1..n)
      BY FS_Interval
    <2>2. QED
      BY <2>1, FS_Subset, FS_CardinalityType
  <1>2. Sizes \subseteq Nat /\ Sizes # {}
    BY <1>1
  <1>3. PICK c \in Sizes : \A d \in Sizes : ~(d < c)
    <2> HIDE DEF Sizes
    <2> QED
      BY <1>2, LeastNat
  <1>4. PICK T \in Bad : c = Cardinality(T)
    BY <1>3
  <1>5. T # {}
    BY <1>4 DEF Descends, Measures
  <1>6. PICK x \in T : g[T] = w[x] + g[T \ {x}]
    BY <1>5 DEF Descends
  <1>7. T \ {x} \in SUBSET S /\ Cardinality(T \ {x}) = Cardinality(T) - 1
    BY <1>1, FS_RemoveElement
  <1>8. T \ {x} \notin Bad
    BY <1>1, <1>3, <1>4, <1>7
  <1>9. g[T \ {x}] = m[T \ {x}]
    BY <1>7, <1>8
  <1>10. m[T] = w[x] + m[T \ {x}]
    BY DEF Measures
  <1>11. QED
    BY <1>6, <1>9, <1>10

\* MapThenSumSet's recursion exists and computes the measure.
LEMMA PicksMeasure ==
    ASSUME NEW n \in Nat, NEW w, NEW m, Measures(m, w, n), NEW S \in SUBSET (1..n)
    PROVE  /\ \E g : Picks(g, w, S)
           /\ \A g : Picks(g, w, S) => g[S] = m[S]
  <1>1. \E g : Picks(g, w, S)
    <2> DEFINE h == [T \in SUBSET S |-> m[T]]
    <2>1. ASSUME NEW T \in SUBSET S
          PROVE  h[T] = IF T = {} THEN 0
                        ELSE w[CHOOSE x \in T : TRUE] + h[T \ {CHOOSE x \in T : TRUE}]
      <3> DEFINE c == CHOOSE x \in T : TRUE
      <3>1. T # {} => c \in T
        OBVIOUS
      <3> HIDE DEF c
      <3>2. T # {} => m[T] = w[c] + m[T \ {c}]
        BY <3>1 DEF Measures
      <3>3. m[{}] = 0 /\ T \ {c} \in SUBSET S
        BY DEF Measures
      <3>4. h[T] = IF T = {} THEN 0 ELSE w[c] + h[T \ {c}]
        BY <3>2, <3>3
      <3>5. QED
        BY <3>4 DEF c
    <2>2. h = [T \in SUBSET S |->
                  IF T = {} THEN 0
                  ELSE w[CHOOSE x \in T : TRUE] + h[T \ {CHOOSE x \in T : TRUE}]]
      BY <2>1
    <2> HIDE DEF h
    <2>3. QED
      BY <2>2 DEF Picks
  <1>2. ASSUME NEW g, Picks(g, w, S) PROVE g[S] = m[S]
    <2>1. Descends(g, w, S)
      <3>1. g[{}] = 0
        <4>1. {} \in SUBSET S
          OBVIOUS
        <4>2. QED
          BY <1>2, <4>1 DEF Picks
      <3>2. ASSUME NEW T \in SUBSET S, T # {}
            PROVE  \E x \in T : g[T] = w[x] + g[T \ {x}]
        <4> DEFINE c == CHOOSE x \in T : TRUE
        <4>1. c \in T
          BY <3>2
        <4>2. g[T] = w[c] + g[T \ {c}]
          BY <1>2, <3>2 DEF Picks
        <4> HIDE DEF c
        <4>3. QED
          BY <4>1, <4>2
      <3>3. QED
        BY <3>1, <3>2 DEF Descends
    <2>2. QED
      BY <2>1, DescentMeets
  <1>3. QED
    BY <1>1, <1>2

\* A measure of fewer elements agrees with one of more.
LEMMA MeasuresAgree ==
    ASSUME NEW n \in Nat, NEW w, NEW m, Measures(m, w, n),
           NEW k \in 0..n, NEW v, NEW h, Measures(h, v, k),
           \A i \in 1..k : v[i] = w[i]
    PROVE  \A T \in SUBSET (1..k) : h[T] = m[T]
  <1> DEFINE I == 1..k
  <1>1. I \in SUBSET (1..n) /\ \A i \in I : v[i] = w[i]
    OBVIOUS
  <1>2. Descends(h, w, I)
    <2>1. \A T \in SUBSET I : \A x \in T : h[T] = w[x] + h[T \ {x}]
      BY <1>1 DEF Measures
    <2>2. QED
      BY <2>1 DEF Descends, Measures
  <1>3. \A T \in SUBSET I : h[T] = m[T]
    <2> HIDE DEF I
    <2> QED
      BY <1>1, <1>2, DescentMeets
  <1>4. QED
    BY <1>3
=============================================================================
