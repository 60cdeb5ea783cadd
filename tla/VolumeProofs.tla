---------------------------- MODULE VolumeProofs ----------------------------
(* Machine-checked proofs about Volume: what pack lays out is accepted, an  *)
(* accepted index is a tree whose files tile the data region, the names     *)
(* shown in Windows lead back, and listings go through a directory in       *)
(* order, for every walk, every authenticated index and any buffer sizes.   *)
(*                                                                          *)
(* Folds and recursive functions are opened by Recursion and FoldRecursion, *)
(* sorts by InOrderSorts; induction is over sets of naturals (Induct).      *)
EXTENDS Volume, FiniteSetTheorems, FunctionTheorems, SequenceTheorems,
        WellFoundedInduction, TLAPS

(***************************************************************************)
(* Numbers, recursion and sorting.                                         *)
(***************************************************************************)

(* A set of naturals has a least member. *)
LEMMA Least1 ==
  ASSUME NEW S \in SUBSET Nat, S # {}
  PROVE  \E n \in S : \A m \in S : n <= m
<1> DEFINE R == {ss \in Nat \X Nat : ss[1] < ss[2]}
<1>1. IsWellFoundedOn(R, Nat)
  BY NatLessThanWellFounded DEF OpToRel
<1>2. \E x \in S : \A y \in S : <<y, x>> \notin R
  <2> HIDE DEF R
  <2>1. QED
    BY <1>1, WFMin
<1>3. PICK x \in S : \A y \in S : <<y, x>> \notin R
  BY <1>2
<1>4. ASSUME NEW y \in S
      PROVE  x <= y
  <2>1. x \in Nat /\ y \in Nat
    OBVIOUS
  <2>2. ~(y < x)
    BY <1>3, <2>1
  <2>3. QED
    BY <2>1, <2>2
<1>5. QED
  BY <1>4

(* Induction up to a bound. *)
LEMMA Induct ==
  ASSUME NEW T, NEW N \in Nat, 0 \in T, \A n \in 0..(N - 1) : n \in T => n + 1 \in T
  PROVE  \A n \in 0..N : n \in T
<1> DEFINE S == {n \in 0..N : n \notin T}
<1>1. SUFFICES ASSUME S # {} PROVE FALSE
  OBVIOUS
<1>2. S \in SUBSET Nat
  OBVIOUS
<1>3. PICK n \in S : \A m \in S : n <= m
  <2> HIDE DEF S
  <2>1. QED
    BY <1>1, <1>2, Least1
<1>4. n # 0 /\ n \in 1..N
  BY <1>3
<1>5. n - 1 \in 0..(N - 1) /\ n - 1 \in 0..N /\ ~(n <= n - 1)
  BY <1>4
<1>6. n - 1 \in T
  BY <1>3, <1>5
<1>7. (n - 1) + 1 \in T /\ (n - 1) + 1 = n
  BY <1>4, <1>5, <1>6
<1>8. QED
  BY <1>3, <1>7

(* The largest member of a set of naturals up to a bound. *)
LEMMA MaxMember ==
  ASSUME NEW n \in Nat, NEW s \in SUBSET (1..n), s # {}
  PROVE  Max(s) \in s /\ \A y \in s : Max(s) >= y
<1> DEFINE T == {m \in 0..n : s \cap (1..m) # {} =>
                   \E x \in s : \A y \in s \cap (1..m) : x >= y}
<1>1. 0 \in T
  OBVIOUS
<1>2. ASSUME NEW m \in 0..(n - 1), m \in T
      PROVE  m + 1 \in T
  <2>1. CASE m + 1 \in s
    <3>1. \A y \in s \cap (1..(m + 1)) : m + 1 >= y
      OBVIOUS
    <3>2. QED
      BY <2>1, <3>1
  <2>2. CASE m + 1 \notin s
    <3>1. s \cap (1..(m + 1)) = s \cap (1..m)
      BY <2>2
    <3>2. QED
      BY <1>2, <3>1
  <2>3. QED
    BY <2>1, <2>2
<1>3. \A m \in 0..n : m \in T
  <2> HIDE DEF T
  <2>1. QED
    BY <1>1, <1>2, Induct
<1>4. n \in T /\ s \cap (1..n) = s
  <2>1. n \in 0..n
    OBVIOUS
  <2>2. n \in T
    BY <1>3, <2>1
  <2>3. QED
    BY <2>2
<1>5. \E x \in s : \A y \in s : x >= y
  BY <1>4
<1>6. QED
  BY <1>5 DEF Max

(* A function defined by recursion on 0..n exists. *)
Recursive(f, n, base, step) ==
  f = [k \in 0..n |-> IF k = 0 THEN base ELSE step[k][f[k - 1]]]

(* A function defined by recursion over 0..n exists.                        *)
LEMMA Recursion ==
  ASSUME NEW n \in Nat, NEW A, NEW base \in A, NEW step \in [1..n -> [A -> A]]
  PROVE  \E f \in [0..n -> A] : Recursive(f, n, base, step)
<1> DEFINE Is(f, m) == f = [k \in 0..m |-> IF k = 0 THEN base ELSE step[k][f[k - 1]]]
           T == {m \in 0..n : \E f \in [0..m -> A] : Is(f, m)}
<1>1. 0 \in T
  <2>1. [k \in 0..0 |-> base] \in [0..0 -> A]
    OBVIOUS
  <2>2. Is([k \in 0..0 |-> base], 0)
    OBVIOUS
  <2>3. 0 \in 0..n /\ \E f \in [0..0 -> A] : Is(f, 0)
    <3> HIDE DEF Is
    <3>1. QED
      BY <2>1, <2>2
  <2>4. QED
    BY <2>3
<1>2. ASSUME NEW m \in 0..(n - 1), m \in T
      PROVE  m + 1 \in T
  <2>1. PICK f \in [0..m -> A] : Is(f, m)
    BY <1>2
  <2> DEFINE g == [k \in 0..(m + 1) |-> IF k = m + 1 THEN step[m + 1][f[m]] ELSE f[k]]
  <2>2. m + 1 \in 1..n /\ m + 1 \in 0..n /\ m \in 0..m
    OBVIOUS
  <2>3. step[m + 1][f[m]] \in A
    BY <2>2
  <2>4. g \in [0..(m + 1) -> A]
    <3>1. ASSUME NEW k \in 0..(m + 1)
          PROVE  g[k] \in A
      BY <2>3
    <3>2. QED
      BY <3>1
  <2>5. ASSUME NEW k \in 0..(m + 1)
        PROVE  g[k] = IF k = 0 THEN base ELSE step[k][g[k - 1]]
    <3>1. CASE k = m + 1
      <4>1. k # 0 /\ k - 1 = m /\ m \in 0..(m + 1) /\ m # m + 1
        BY <3>1
      <4>2. g[k - 1] = f[m]
        BY <4>1
      <4>3. g[k] = step[k][f[m]]
        BY <3>1
      <4>4. QED
        BY <4>1, <4>2, <4>3
    <3>2. CASE k = 0
      <4>1. g[0] = f[0] /\ f[0] = base
        BY <2>1
      <4>2. QED
        BY <3>2, <4>1
    <3>3. CASE k \in 1..m
      <4>1. k # 0 /\ k # m + 1 /\ k \in 0..m /\ k - 1 \in 0..m /\ k - 1 # m + 1 /\ k - 1 \in 0..(m + 1)
        BY <3>3
      <4>2. g[k] = f[k] /\ g[k - 1] = f[k - 1]
        BY <4>1
      <4>3. f[k] = step[k][f[k - 1]]
        BY <2>1, <4>1
      <4>4. QED
        BY <4>1, <4>2, <4>3
    <3>4. QED
      BY <3>1, <3>2, <3>3
  <2>6. Is(g, m + 1)
    <3> HIDE DEF g
    <3>1. DOMAIN g = 0..(m + 1)
      BY <2>4
    <3>2. QED
      BY <2>4, <2>5
  <2>7. QED
    BY <2>2, <2>4, <2>6
<1>3. \A m \in 0..n : m \in T
  <2> HIDE DEF T
  <2>1. QED
    BY <1>1, <1>2, Induct
<1>4. n \in 0..n
  OBVIOUS
<1>5. QED
  BY <1>3, <1>4 DEF Recursive

(* The function MapThenFoldSet computes a fold over 1..n with exists.      *)
Folding(g, n, base, step) ==
  g = [s \in SUBSET (1..n) |-> IF s = {} THEN base ELSE step[Max(s)][g[s \ {Max(s)}]]]

(* So does one over the subsets of 1..n that takes off the largest member,  *)
(* as a fold over a sequence does.                                          *)
LEMMA FoldRecursion ==
  ASSUME NEW n \in Nat, NEW A, NEW base \in A, NEW step \in [1..n -> [A -> A]]
  PROVE  \E g \in [SUBSET (1..n) -> A] : Folding(g, n, base, step)
<1> DEFINE D == SUBSET (1..n)
           B == [D -> A]
           Turn(h) == [s \in D |-> IF s = {} THEN base ELSE step[Max(s)][h[s \ {Max(s)}]]]
           turn == [m \in 1..n |-> [h \in B |-> Turn(h)]]
           none == [s \in D |-> base]
<1>1. ASSUME NEW s \in D, s # {}
      PROVE  /\ Max(s) \in s /\ Max(s) \in 1..n /\ s \ {Max(s)} \in D
             /\ \A m \in 1..n : s \in SUBSET (1..m) => s \ {Max(s)} \in SUBSET (1..(m - 1))
  <2>1. Max(s) \in s /\ \A y \in s : Max(s) >= y
    BY <1>1, MaxMember
  <2>2. ASSUME NEW m \in 1..n, s \in SUBSET (1..m), NEW y \in s \ {Max(s)}
        PROVE  y \in 1..(m - 1)
    <3>1. y \in 1..m /\ Max(s) \in 1..m /\ Max(s) >= y /\ Max(s) # y
      BY <2>1, <2>2
    <3>2. QED
      BY <3>1
  <2>3. QED
    BY <2>1, <2>2
<1>2. ASSUME NEW h \in B
      PROVE  Turn(h) \in B
  <2>1. ASSUME NEW s \in D
        PROVE  (IF s = {} THEN base ELSE step[Max(s)][h[s \ {Max(s)}]]) \in A
    <3>1. CASE s = {}
      BY <3>1
    <3>2. CASE s # {}
      <4>1. Max(s) \in 1..n /\ s \ {Max(s)} \in D
        BY <3>2, <1>1
      <4>2. h[s \ {Max(s)}] \in A
        BY <4>1
      <4>3. step[Max(s)] \in [A -> A]
        BY <4>1
      <4>4. QED
        BY <3>2, <4>2, <4>3
    <3>3. QED
      BY <3>1, <3>2
  <2>2. QED
    BY <2>1
<1>3. turn \in [1..n -> [B -> B]] /\ none \in B
  <2> HIDE DEF Turn
  <2>1. QED
    BY <1>2
<1>4. PICK f \in [0..n -> B] : Recursive(f, n, none, turn)
  <2> HIDE DEF turn, none, B
  <2>1. QED
    BY <1>3, Recursion
<1>5. f[0] = none
  <2> HIDE DEF none, turn
  <2>1. QED
    BY <1>4 DEF Recursive
<1>6. ASSUME NEW k \in 1..n, NEW s \in D
      PROVE  f[k][s] = IF s = {} THEN base ELSE step[Max(s)][f[k - 1][s \ {Max(s)}]]
  <2>1. k \in 0..n /\ k # 0 /\ k - 1 \in 0..n
    OBVIOUS
  <2>2. f[k] = turn[k][f[k - 1]] /\ f[k - 1] \in B
    <3> HIDE DEF turn, none, B
    <3>1. QED
      BY <1>4, <2>1 DEF Recursive
  <2>3. turn[k][f[k - 1]] = Turn(f[k - 1])
    <3> HIDE DEF Turn, B
    <3>1. QED
      BY <2>2
  <2>4. QED
    BY <2>2, <2>3
<1> DEFINE Same(m) == \A s \in SUBSET (1..m) : f[m + 1][s] = f[m][s]
           T == {m \in 0..(n - 1) : Same(m)}
<1> HIDE DEF turn, none
<1>7. n # 0 => 0 \in T
  <2> SUFFICES ASSUME n # 0 PROVE Same(0) /\ 0 \in 0..(n - 1)
    OBVIOUS
  <2>1. 0 \in 0..(n - 1) /\ 1 \in 1..n /\ {} \in D
    OBVIOUS
  <2>2. f[1][{}] = base
    BY <1>6, <2>1
  <2>3. f[0][{}] = base
    BY <1>5, <2>1 DEF none
  <2>4. \A s \in SUBSET (1..0) : s = {}
    OBVIOUS
  <2>5. Same(0)
    <3>1. 0 + 1 = 1
      OBVIOUS
    <3>2. ASSUME NEW s \in SUBSET (1..0)
          PROVE  f[0 + 1][s] = f[0][s]
      <4>1. s = {}
        BY <2>4
      <4>2. QED
        BY <2>2, <2>3, <3>1, <4>1
    <3>3. QED
      BY <3>2
  <2>6. QED
    BY <2>1, <2>5
<1>8. ASSUME NEW m \in 0..(n - 1 - 1), m \in T
      PROVE  m + 1 \in T
  <2>1. m + 1 \in 0..(n - 1) /\ m + 1 \in 1..n /\ m + 1 + 1 \in 1..n
        /\ (m + 1) - 1 = m /\ (m + 1 + 1) - 1 = m + 1
    OBVIOUS
  <2>2. ASSUME NEW s \in SUBSET (1..(m + 1))
        PROVE  f[m + 1 + 1][s] = f[m + 1][s]
    <3>1. s \in D
      BY <2>1
    <3>2. CASE s = {}
      <4>1. f[m + 1 + 1][s] = base /\ f[m + 1][s] = base
        BY <1>6, <2>1, <3>1, <3>2
      <4>2. QED
        BY <4>1
    <3>3. CASE s # {}
      <4>1. s \ {Max(s)} \in SUBSET (1..m)
        BY <1>1, <2>1, <3>1, <3>3
      <4>2. f[m + 1][s \ {Max(s)}] = f[m][s \ {Max(s)}]
        BY <4>1, <1>8
      <4>3. f[m + 1 + 1][s] = step[Max(s)][f[(m + 1 + 1) - 1][s \ {Max(s)}]]
        BY <1>6, <2>1, <3>1, <3>3
      <4>4. f[m + 1][s] = step[Max(s)][f[(m + 1) - 1][s \ {Max(s)}]]
        BY <1>6, <2>1, <3>1, <3>3
      <4>5. QED
        BY <2>1, <4>2, <4>3, <4>4
    <3>4. QED
      BY <3>2, <3>3
  <2>3. Same(m + 1)
    BY <2>2
  <2>4. QED
    BY <2>1, <2>3
<1>9. ASSUME NEW s \in D
      PROVE  f[n][s] = IF s = {} THEN base ELSE step[Max(s)][f[n][s \ {Max(s)}]]
  <2>1. CASE s = {}
    <3>1. CASE n = 0
      BY <2>1, <3>1, <1>5 DEF none
    <3>2. CASE n # 0
      <4>1. n \in 1..n
        BY <3>2
      <4>2. QED
        BY <2>1, <4>1, <1>6
    <3>3. QED
      BY <3>1, <3>2
  <2>2. CASE s # {}
    <3>1. n \in 1..n /\ n - 1 \in 0..(n - 1) /\ n - 1 \in Nat /\ (n - 1) + 1 = n
      <4>1. Max(s) \in 1..n
        BY <1>1, <2>2
      <4>2. QED
        BY <4>1
    <3>2. s \ {Max(s)} \in SUBSET (1..(n - 1))
      BY <1>1, <2>2, <3>1
    <3>3. n - 1 \in T
      <4> HIDE DEF T
      <4>1. 0 \in T
        BY <1>7, <3>1
      <4>2. QED
        BY <1>8, <3>1, <4>1, Induct
    <3>4. f[n][s \ {Max(s)}] = f[n - 1][s \ {Max(s)}]
      <4>1. Same(n - 1)
        BY <3>3
      <4>2. f[(n - 1) + 1][s \ {Max(s)}] = f[n - 1][s \ {Max(s)}]
        BY <4>1, <3>2
      <4>3. QED
        BY <4>2, <3>1
    <3>5. f[n][s] = step[Max(s)][f[n - 1][s \ {Max(s)}]]
      BY <1>6, <2>2, <3>1
    <3>6. QED
      BY <2>2, <3>4, <3>5
  <2>3. QED
    BY <2>1, <2>2
<1>10. f[n] \in B
  <2> HIDE DEF B
  <2>1. n \in 0..n
    OBVIOUS
  <2>2. QED
    BY <1>4, <2>1
<1>11. QED
  <2>1. f[n] = [s \in D |-> IF s = {} THEN base ELSE step[Max(s)][f[n][s \ {Max(s)}]]]
    BY <1>9, <1>10
  <2>2. QED
    BY <1>10, <2>1 DEF Folding

(* A function that satisfies the equation of a fold, taken step by step.    *)
FoldsIn(h, n, A, base, step) ==
  /\ h[{}] = base
  /\ \A s \in SUBSET (1..n) : s # {} /\ h[s \ {Max(s)}] \in A =>
       h[s] = step[Max(s)][h[s \ {Max(s)}]]

StepByStep(h, n, A, base, step) ==
  /\ h[1..0] = base
  /\ \A k \in 1..n : h[1..k] = step[k][h[1..(k - 1)]]
  /\ \A k \in 0..n : h[1..k] \in A

(* Such a fold over 1..k is one step on from the fold over 1..(k - 1).      *)
LEMMA FoldSteps ==
  ASSUME NEW n \in Nat, NEW A, NEW base \in A, NEW step \in [1..n -> [A -> A]], NEW h,
         FoldsIn(h, n, A, base, step)
  PROVE  StepByStep(h, n, A, base, step)
<1> DEFINE T == {k \in 0..n : h[1..k] \in A}
<1>1. h[1..0] = base
  <2>1. 1..0 = {}
    OBVIOUS
  <2>2. QED
    BY <2>1 DEF FoldsIn
<1>2. 0 \in T
  BY <1>1
<1>3. ASSUME NEW k \in 1..n, h[1..(k - 1)] \in A
      PROVE  h[1..k] = step[k][h[1..(k - 1)]] /\ h[1..k] \in A
  <2>1. k \in Nat /\ k \in 1..k /\ 1..k \in SUBSET (1..n) /\ 1..k \in SUBSET (1..k) /\ 1..k # {}
    <3>1. k \in Nat /\ k \in 1..k /\ k <= n
      OBVIOUS
    <3>2. \A y \in 1..k : y \in 1..n
      BY <3>1
    <3>3. QED
      BY <3>1, <3>2
  <2>2. Max(1..k) = k
    <3>1. Max(1..k) \in 1..k /\ \A y \in 1..k : Max(1..k) >= y
      BY <2>1, MaxMember
    <3>2. QED
      BY <2>1, <3>1
  <2>3. (1..k) \ {k} = 1..(k - 1)
    BY <2>1
  <2>4. h[1..k] = step[k][h[1..(k - 1)]]
    BY <1>3, <2>1, <2>2, <2>3 DEF FoldsIn
  <2>5. QED
    BY <1>3, <2>4
<1>4. ASSUME NEW m \in 0..(n - 1), m \in T
      PROVE  m + 1 \in T
  <2>1. m + 1 \in 1..n /\ (m + 1) - 1 = m /\ m + 1 \in 0..n
    OBVIOUS
  <2>2. QED
    BY <1>3, <1>4, <2>1
<1>5. \A k \in 0..n : k \in T
  <2> HIDE DEF T
  <2>1. QED
    BY <1>2, <1>4, Induct
<1>6. ASSUME NEW k \in 1..n
      PROVE  h[1..k] = step[k][h[1..(k - 1)]]
  <2>1. k - 1 \in 0..n
    OBVIOUS
  <2>2. QED
    BY <1>3, <1>5, <2>1
<1>7. QED
  BY <1>1, <1>5, <1>6 DEF StepByStep

(* The orders InOrder is given. *)
StrictOrder(S, before) ==
  /\ \A x \in S : <<x, x>> \notin before
  /\ \A x, y \in S : x # y => <<x, y>> \in before \/ <<y, x>> \in before
  /\ \A x, y, z \in S : <<x, y>> \in before /\ <<y, z>> \in before => <<x, z>> \in before

(* A finite set has a last member. *)
HasLast(U, before) == \E m \in U : \A y \in U : y # m => <<y, m>> \in before

(* Every finite set that is not empty has a last member in a strict order.  *)
LEMMA LastMember ==
  ASSUME NEW S, IsFiniteSet(S), NEW before, StrictOrder(S, before), NEW U \in SUBSET S, U # {}
  PROVE  HasLast(U, before)
<1> DEFINE Ends(V) == \E m \in V : \A y \in V : y # m => <<y, m>> \in before
           N == Cardinality(S)
           T == {n \in 0..N : \A V \in SUBSET S : Cardinality(V) = n /\ V # {} => Ends(V)}
<1>1. N \in Nat
  BY FS_CardinalityType
<1>2. \A V \in SUBSET S : IsFiniteSet(V) /\ Cardinality(V) \in Nat /\ Cardinality(V) <= N
  BY FS_Subset, FS_CardinalityType
<1>3. 0 \in T
  <2>1. \A V \in SUBSET S : Cardinality(V) = 0 => V = {}
    BY <1>2, FS_EmptySet
  <2>2. 0 \in 0..N
    BY <1>1
  <2>3. QED
    BY <2>1, <2>2
<1>4. ASSUME NEW n \in 0..(N - 1), n \in T
      PROVE  n + 1 \in T
  <2>1. ASSUME NEW V \in SUBSET S, Cardinality(V) = n + 1, V # {}
        PROVE  Ends(V)
    <3>1. PICK x \in V : TRUE
      BY <2>1
    <3>2. Cardinality(V \ {x}) = n
      <4>1. Cardinality(V \ {x}) = Cardinality(V) - 1
        BY <1>2, <3>1, FS_RemoveElement
      <4>2. QED
        BY <2>1, <4>1
    <3>3. CASE V \ {x} = {}
      BY <3>1, <3>3
    <3>4. CASE V \ {x} # {}
      <4>1. Ends(V \ {x})
        BY <1>4, <3>2, <3>4
      <4>2. PICK m \in V \ {x} : \A y \in V \ {x} : y # m => <<y, m>> \in before
        BY <4>1
      <4>3. CASE <<x, m>> \in before
        BY <4>2, <4>3
      <4>4. CASE <<x, m>> \notin before
        <5>1. x \in S /\ m \in S /\ x # m
          BY <3>1
        <5>2. <<m, x>> \in before
          BY <4>4, <5>1 DEF StrictOrder
        <5>3. ASSUME NEW y \in V, y # x
              PROVE  <<y, x>> \in before
          <6>1. y \in S /\ y \in V \ {x}
            BY <5>3
          <6>2. y = m \/ <<y, m>> \in before
            BY <4>2, <6>1
          <6>3. QED
            BY <5>1, <5>2, <6>1, <6>2 DEF StrictOrder
        <5>4. QED
          BY <3>1, <5>3
      <4>5. QED
        BY <4>3, <4>4
    <3>5. QED
      BY <3>3, <3>4
  <2>2. n + 1 \in 0..N
    BY <1>1
  <2>3. QED
    BY <2>1, <2>2
<1>5. \A n \in 0..N : n \in T
  <2> HIDE DEF T, N
  <2>1. QED
    BY <1>1, <1>3, <1>4, Induct
<1>6. Cardinality(U) \in 0..N
  BY <1>1, <1>2
<1>7. QED
  BY <1>5, <1>6 DEF HasLast

(* s lists U in the order. *)
Sorts(s, n, U, before) ==
  /\ s \in [1..n -> U]
  /\ \A i, j \in 1..n : i < j => <<s[i], s[j]>> \in before

(* InOrder lists every member once and in the order. *)
LEMMA InOrderSorts ==
  ASSUME NEW S, IsFiniteSet(S), NEW before, StrictOrder(S, before)
  PROVE  /\ Cardinality(S) \in Nat
         /\ Sorts(InOrder(S, before), Cardinality(S), S, before)
         /\ \A i, j \in 1..Cardinality(S) : InOrder(S, before)[i] = InOrder(S, before)[j] => i = j
         /\ \A x \in S : \E i \in 1..Cardinality(S) : InOrder(S, before)[i] = x
<1> DEFINE N == Cardinality(S)
           T == {n \in 0..N : \A V \in SUBSET S : Cardinality(V) = n => \E s : Sorts(s, n, V, before)}
<1>1. N \in Nat
  BY FS_CardinalityType
<1>2. \A V \in SUBSET S : IsFiniteSet(V) /\ Cardinality(V) \in Nat
  BY FS_Subset, FS_CardinalityType
<1>3. 0 \in T
  <2>1. ASSUME NEW V \in SUBSET S, Cardinality(V) = 0
        PROVE  \E s : Sorts(s, 0, V, before)
    <3>1. Sorts([i \in 1..0 |-> i], 0, V, before)
      BY DEF Sorts
    <3>2. QED
      BY <3>1
  <2>2. 0 \in 0..N
    BY <1>1
  <2>3. QED
    BY <2>1, <2>2
<1>4. ASSUME NEW n \in 0..(N - 1), n \in T
      PROVE  n + 1 \in T
  <2>1. ASSUME NEW V \in SUBSET S, Cardinality(V) = n + 1
        PROVE  \E s : Sorts(s, n + 1, V, before)
    <3>1. V # {}
      BY <2>1, FS_EmptySet
    <3>2. PICK m \in V : \A y \in V : y # m => <<y, m>> \in before
      <4>1. HasLast(V, before)
        BY <3>1, LastMember
      <4>2. QED
        BY <4>1 DEF HasLast
    <3>3. Cardinality(V \ {m}) = n
      <4>1. Cardinality(V \ {m}) = Cardinality(V) - 1
        BY <1>2, FS_RemoveElement
      <4>2. QED
        BY <2>1, <4>1
    <3>4. PICK s : Sorts(s, n, V \ {m}, before)
      <4>1. V \ {m} \in SUBSET S
        OBVIOUS
      <4>2. QED
        BY <1>4, <3>3, <4>1
    <3> DEFINE t == [i \in 1..(n + 1) |-> IF i = n + 1 THEN m ELSE s[i]]
    <3>5. ASSUME NEW i \in 1..n
          PROVE  i \in 1..(n + 1) /\ i # n + 1 /\ s[i] \in V /\ s[i] # m
      BY <3>4 DEF Sorts
    <3>6. ASSUME NEW i \in 1..(n + 1), i # n + 1
          PROVE  i \in 1..n
      BY <3>6
    <3>7. t \in [1..(n + 1) -> V]
      BY <3>5, <3>6
    <3>8. ASSUME NEW i \in 1..(n + 1), NEW j \in 1..(n + 1), i < j
          PROVE  <<t[i], t[j]>> \in before
      <4>1. i \in 1..n /\ t[i] = s[i]
        BY <3>8
      <4>2. CASE j = n + 1
        <5>1. t[j] = m
          BY <4>2
        <5>2. QED
          BY <3>2, <3>5, <4>1, <5>1
      <4>3. CASE j # n + 1
        <5>1. j \in 1..n /\ t[j] = s[j]
          BY <3>6, <4>3
        <5>2. QED
          BY <3>4, <3>8, <4>1, <5>1 DEF Sorts
      <4>4. QED
        BY <4>2, <4>3
    <3>9. Sorts(t, n + 1, V, before)
      <4> HIDE DEF t
      <4>1. QED
        BY <3>7, <3>8 DEF Sorts
    <3>10. QED
      BY <3>9
  <2>2. n + 1 \in 0..N
    BY <1>1
  <2>3. QED
    BY <2>1, <2>2
<1>5. \A n \in 0..N : n \in T
  <2> HIDE DEF T, N
  <2>1. QED
    BY <1>1, <1>3, <1>4, Induct
<1>6. \E s : Sorts(s, N, S, before)
  <2>1. N \in 0..N
    BY <1>1
  <2>2. QED
    BY <1>5, <2>1
<1> DEFINE w == InOrder(S, before)
<1>7. Sorts(w, N, S, before)
  <2>1. \E s \in [1..N -> S] : \A i, j \in DOMAIN s : i < j => <<s[i], s[j]>> \in before
    BY <1>6 DEF Sorts
  <2>2. w \in [1..N -> S] /\ \A i, j \in DOMAIN w : i < j => <<w[i], w[j]>> \in before
    BY <2>1 DEF InOrder
  <2>3. QED
    BY <2>2 DEF Sorts
<1> HIDE DEF w
<1>8. ASSUME NEW i \in 1..N, NEW j \in 1..N, w[i] = w[j]
      PROVE  i = j
  <2>1. ~(i < j) /\ ~(j < i)
    BY <1>7, <1>8 DEF Sorts, StrictOrder
  <2>2. i \in Nat /\ j \in Nat
    BY <1>1
  <2>3. QED
    BY <2>1, <2>2
<1>9. \A x \in S : \E i \in 1..N : w[i] = x
  <2>1. w \in Injection(1..N, S)
    BY <1>7, <1>8 DEF Sorts, Injection, IsInjective
  <2>2. Cardinality(1..N) = N
    <3>1. 1 \in Int /\ N \in Int
      BY <1>1
    <3>2. Cardinality(1..N) = IF 1 > N THEN 0 ELSE N - 1 + 1
      BY <3>1, FS_Interval
    <3>3. QED
      BY <1>1, <3>2
  <2>3. w \in Surjection(1..N, S)
    <3> HIDE DEF N
    <3>1. Cardinality(1..N) = Cardinality(S)
      BY <2>2 DEF N
    <3>2. QED
      BY <2>1, <3>1, FS_Injection
  <2>4. QED
    BY <2>3 DEF Surjection
<1>10. QED
  BY <1>1, <1>7, <1>8, <1>9 DEF w

(***************************************************************************)
(* What pack lays out is accepted.                                         *)
(***************************************************************************)

(* The fold of scan_source, opened: what has been scanned after k items.   *)
ScanBase == [ok |-> TRUE, entries |-> <<Root>>, plaintext |-> 0, data_offset |-> 0]
IsScan(where, items, g) ==
  g = [s \in SUBSET DOMAIN items |->
         IF s = {} THEN ScanBase ELSE ScanItem(where, g[s \ {Max(s)}], items[Max(s)])]
ScanFold(where, items) == CHOOSE g : IsScan(where, items, g)
Scanned(where, items, k) == ScanFold(where, items)[1..k]

(* scan_source folds ScanItem over the items.                               *)
LEMMA ScanIsFold ==
  ASSUME NEW where, NEW items
  PROVE  scan_source(where, items) = ScanFold(where, items)[DOMAIN items]
  BY DEF scan_source, ScanFold, IsScan, FoldLeft, MapThenFoldSet, ScanBase

(* The function of the fold exists. *)
LEMMA ScanFoldExists ==
  ASSUME NEW where, NEW X, NEW items \in Seq(X)
  PROVE  IsScan(where, items, ScanFold(where, items))
<1> DEFINE n == Len(items)
           Is(g, m) == g = [s \in SUBSET (1..m) |->
                              IF s = {} THEN ScanBase ELSE ScanItem(where, g[s \ {Max(s)}], items[Max(s)])]
           T == {m \in 0..n : \E g : Is(g, m)}
<1>1. n \in Nat /\ DOMAIN items = 1..n
  OBVIOUS
<1>2. 0 \in T
  <2> DEFINE g == [s \in SUBSET (1..0) |-> ScanBase]
  <2>1. Is(g, 0)
    <3>1. \A s \in SUBSET (1..0) : s = {}
      OBVIOUS
    <3>2. QED
      BY <3>1
  <2>2. 0 \in 0..n
    BY <1>1
  <2>3. QED
    <3> HIDE DEF Is, g
    <3>1. QED
      BY <2>1, <2>2
<1>3. ASSUME NEW m \in 0..(n - 1), m \in T
      PROVE  m + 1 \in T
  <2>1. PICK h : Is(h, m)
    BY <1>3
  <2> DEFINE g == [s \in SUBSET (1..(m + 1)) |->
                     IF s \in SUBSET (1..m) THEN h[s] ELSE ScanItem(where, h[s \ {Max(s)}], items[Max(s)])]
  <2>2. m \in Nat /\ m + 1 \in 0..n /\ m + 1 \in Nat
    BY <1>1
  <2>3. ASSUME NEW s \in SUBSET (1..(m + 1)), s # {}
        PROVE  Max(s) \in s /\ s \ {Max(s)} \in SUBSET (1..m) /\ s \ {Max(s)} \in SUBSET (1..(m + 1))
    <3>1. Max(s) \in s /\ \A y \in s : Max(s) >= y
      BY <2>2, <2>3, MaxMember
    <3>2. ASSUME NEW y \in s \ {Max(s)}
          PROVE  y \in 1..m
      <4>1. y \in 1..(m + 1) /\ Max(s) \in 1..(m + 1) /\ Max(s) >= y /\ Max(s) # y
        BY <3>1
      <4>2. QED
        BY <2>2, <4>1
    <3>3. QED
      BY <3>1, <3>2
  <2>4. ASSUME NEW s \in SUBSET (1..(m + 1))
        PROVE  g[s] = IF s = {} THEN ScanBase ELSE ScanItem(where, g[s \ {Max(s)}], items[Max(s)])
    <3>1. ASSUME NEW u \in SUBSET (1..m)
          PROVE  g[u] = h[u]
      <4>1. u \in SUBSET (1..(m + 1))
        BY <2>2
      <4>2. QED
        BY <4>1
    <3>2. CASE s = {}
      <4>1. g[s] = h[{}]
        BY <3>1, <3>2
      <4>2. h[{}] = ScanBase
        BY <2>1
      <4>3. QED
        BY <3>2, <4>1, <4>2
    <3>3. CASE s # {} /\ s \in SUBSET (1..m)
      <4>1. h[s] = ScanItem(where, h[s \ {Max(s)}], items[Max(s)])
        BY <2>1, <3>3
      <4>2. g[s \ {Max(s)}] = h[s \ {Max(s)}]
        BY <2>3, <3>1, <3>3
      <4> HIDE DEF g
      <4>3. QED
        BY <3>1, <3>3, <4>1, <4>2
    <3>4. CASE s # {} /\ s \notin SUBSET (1..m)
      <4>1. g[s] = ScanItem(where, h[s \ {Max(s)}], items[Max(s)])
        BY <3>4
      <4>2. g[s \ {Max(s)}] = h[s \ {Max(s)}]
        BY <2>3, <3>1, <3>4
      <4> HIDE DEF g
      <4>3. QED
        BY <3>4, <4>1, <4>2
    <3>5. QED
      BY <3>2, <3>3, <3>4
  <2>5. Is(g, m + 1)
    <3>1. DOMAIN g = SUBSET (1..(m + 1))
      OBVIOUS
    <3>2. g = [s \in SUBSET (1..(m + 1)) |-> g[s]]
      OBVIOUS
    <3> HIDE DEF g
    <3>3. QED
      BY <2>4, <3>2
  <2>6. QED
    <3> HIDE DEF Is, g
    <3>1. QED
      BY <2>2, <2>5
<1>4. \A m \in 0..n : m \in T
  <2> HIDE DEF T, n
  <2>1. QED
    BY <1>1, <1>2, <1>3, Induct
<1>5. \E g : Is(g, n)
  <2>1. n \in 0..n
    BY <1>1
  <2>2. QED
    BY <1>4, <2>1
<1>6. QED
  <2>1. \E g : IsScan(where, items, g)
    BY <1>1, <1>5 DEF IsScan
  <2>2. QED
    BY <2>1 DEF ScanFold

(* Item by item. *)
LEMMA ScannedStep ==
  ASSUME NEW where, NEW X, NEW items \in Seq(X)
  PROVE  /\ scan_source(where, items) = Scanned(where, items, Len(items))
         /\ Scanned(where, items, 0) = ScanBase
         /\ \A k \in 1..Len(items) :
              Scanned(where, items, k) = ScanItem(where, Scanned(where, items, k - 1), items[k])
<1>1. Len(items) \in Nat /\ DOMAIN items = 1..Len(items)
  OBVIOUS
<1>2. 1..0 = {} /\ {} \in SUBSET DOMAIN items
  OBVIOUS
<1>3. Scanned(where, items, 0) = ScanBase
  <2>1. IsScan(where, items, ScanFold(where, items))
    BY ScanFoldExists
  <2>2. QED
    BY <1>2, <2>1 DEF Scanned, IsScan
<1>4. ASSUME NEW k \in 1..Len(items)
      PROVE  Scanned(where, items, k) = ScanItem(where, Scanned(where, items, k - 1), items[k])
  <2>1. 1..k \in SUBSET DOMAIN items /\ 1..k # {} /\ k \in Nat
    <3>1. k \in Nat /\ k \in 1..k
      BY <1>1
    <3>2. 1..k \in SUBSET DOMAIN items
      BY <1>1
    <3>3. QED
      BY <3>1, <3>2
  <2>2. Max(1..k) = k
    <3>1. Max(1..k) \in 1..k /\ \A y \in 1..k : Max(1..k) >= y
      <4>1. 1..k \in SUBSET (1..k)
        OBVIOUS
      <4>2. QED
        BY <2>1, <4>1, MaxMember
    <3>2. k \in 1..k
      BY <2>1
    <3>3. QED
      BY <3>1, <3>2
  <2>3. (1..k) \ {k} = 1..(k - 1)
    BY <2>1
  <2>4. ScanFold(where, items)[1..k]
          = ScanItem(where, ScanFold(where, items)[(1..k) \ {Max(1..k)}], items[Max(1..k)])
    <3> DEFINE F == ScanFold(where, items)
    <3>1. IsScan(where, items, F)
      BY ScanFoldExists
    <3> HIDE DEF F
    <3>2. \A s \in SUBSET DOMAIN items :
            s # {} => F[s] = ScanItem(where, F[s \ {Max(s)}], items[Max(s)])
      BY <3>1 DEF IsScan
    <3>3. F[1..k] = ScanItem(where, F[(1..k) \ {Max(1..k)}], items[Max(1..k)])
      BY <2>1, <3>2
    <3>4. QED
      BY <3>3 DEF F
  <2>5. QED
    BY <2>2, <2>3, <2>4 DEF Scanned
<1>5. QED
  BY <1>1, <1>3, <1>4, ScanIsFold DEF Scanned

(* Sizes in chunks and bytes. *)
LEMMA EncryptedSize ==
  ASSUME NEW size \in Nat
  PROVE  /\ encrypted_file_size(size).chunks \in Nat
         /\ encrypted_file_size(size).encrypted \in Nat
         /\ encrypted_file_size(size).ok \in BOOLEAN
         /\ encrypted_file_size(size).chunks * CHUNK_SIZE >= size
         /\ encrypted_file_size(size).encrypted
              = size + encrypted_file_size(size).chunks * TAG_SIZE
<1> DEFINE q == (size + CHUNK_SIZE - 1) \div CHUNK_SIZE
<1>1. CHUNK_SIZE \in Nat \ {0} /\ TAG_SIZE \in Nat
  BY IndexAssumption
<1>2. size + CHUNK_SIZE - 1 \in Nat
  BY <1>1
<1>3. q \in Nat /\ q * CHUNK_SIZE >= size
  <2>1. q \in Nat /\ size + CHUNK_SIZE - 1 < q * CHUNK_SIZE + CHUNK_SIZE
    BY <1>1, <1>2
  <2>2. q * CHUNK_SIZE \in Nat
    BY <1>1, <2>1
  <2>3. QED
    <3> HIDE DEF q
    <3>1. QED
      BY <1>1, <2>1, <2>2
<1> HIDE DEF q
<1>4. q * TAG_SIZE \in Nat
  BY <1>1, <1>3
<1>5. QED
  BY <1>1, <1>3, <1>4 DEF encrypted_file_size, q

(* The root is an entry validate_index accepts.                             *)
LEMMA RootIsEntry == Root \in Entry /\ Root.id = 1 /\ RootOk(Root) /\ DirectoryOk(Root)
<1>1. Root.name \in Names
  <2>1. "" \in Range(Stems)
    <3>1. 1 \in DOMAIN Stems /\ Stems[1] = ""
      BY DEF Stems
    <3>2. QED
      BY <3>1 DEF Range
  <2>2. <<>> \in Seq(Nat \X Nat)
    OBVIOUS
  <2>3. QED
    BY <2>1, <2>2 DEF Root, Names
<1>2. QED
  BY <1>1 DEF Root, Entry, Kinds, NoFile, RootOk, DirectoryOk

(* How an item of the walk is laid out at an offset. *)
Laid(e, i, item, offset) ==
  /\ e.id = i + 1 /\ e.parent_id = item.parent /\ e.name = item.name /\ e.kind = item.kind
  /\ item.kind = "Directory" => DirectoryOk(e)
  /\ item.kind = "File" =>
       /\ e.file_id = i + 1 /\ e.size = item.size /\ e.data_offset = offset
       /\ e.encrypted_size = encrypted_file_size(item.size).encrypted
       /\ e.chunk_count = encrypted_file_size(item.size).chunks

Within(where, e, item, a, b) ==
  /\ validate_name(where, item.name) /\ e.depth <= MAX_DEPTH
  /\ Len(b.entries) <= MAX_ENTRIES
  /\ item.kind = "File" => encrypted_file_size(item.size).ok /\ Fits(b.data_offset)

(* What one item adds to a scan. *)
Adds(where, a, b, i, item) ==
  /\ b.data_offset = a.data_offset
       + IF item.kind = "File" THEN encrypted_file_size(item.size).encrypted ELSE 0
  /\ b.data_offset \in Nat /\ b.ok \in BOOLEAN /\ b.plaintext \in Nat
  /\ b.entries \in Seq(Entry) /\ Len(b.entries) = Len(a.entries) + 1
  /\ \A j \in 1..Len(a.entries) : b.entries[j] = a.entries[j]
  /\ Laid(b.entries[i + 1], i, item, a.data_offset)
  /\ b.entries[i + 1].depth = a.entries[item.parent].depth + 1
  /\ b.ok => a.ok /\ Within(where, b.entries[i + 1], item, a, b)

ScanOf(a, i) ==
  /\ a.ok \in BOOLEAN /\ a.entries \in Seq(Entry) /\ Len(a.entries) = i
  /\ a.plaintext \in Nat /\ a.data_offset \in Nat
  /\ a = [ok |-> a.ok, entries |-> a.entries, plaintext |-> a.plaintext, data_offset |-> a.data_offset]

(* A file's entry is a directory's with five fields set. *)
EntryOf(id, p, m, d, k, f, z, o, y, c) ==
  [id |-> id, parent_id |-> p, name |-> m, depth |-> d, kind |-> k,
   file_id |-> f, size |-> z, data_offset |-> o, encrypted_size |-> y, chunk_count |-> c]

WithFile(e, id, z, o, y, c) ==
  [e EXCEPT !.file_id = id, !.size = z, !.data_offset = o, !.encrypted_size = y, !.chunk_count = c]

(* With its five fields set a directory's entry is the file's.              *)
LEMMA FileEntry ==
  ASSUME NEW id, NEW p, NEW m, NEW d, NEW k, NEW z, NEW o, NEW y, NEW c, NEW f, NEW e,
         e = EntryOf(id, p, m, d, k, f, 0, 0, 0, 0)
  PROVE  WithFile(e, id, z, o, y, c) = EntryOf(id, p, m, d, k, id, z, o, y, c)
<1>1. PICK e1 : e1 = [e EXCEPT !.file_id = id]
  OBVIOUS
<1>2. PICK e2 : e2 = [e1 EXCEPT !.size = z]
  OBVIOUS
<1>3. PICK e3 : e3 = [e2 EXCEPT !.data_offset = o]
  OBVIOUS
<1>4. PICK e4 : e4 = [e3 EXCEPT !.encrypted_size = y]
  OBVIOUS
<1>5. PICK e5 : e5 = [e4 EXCEPT !.chunk_count = c]
  OBVIOUS
<1>6. e1 = EntryOf(id, p, m, d, k, id, 0, 0, 0, 0)
  BY <1>1 DEF EntryOf
<1>7. e2 = EntryOf(id, p, m, d, k, id, z, 0, 0, 0)
  BY <1>2, <1>6 DEF EntryOf
<1>8. e3 = EntryOf(id, p, m, d, k, id, z, o, 0, 0)
  BY <1>3, <1>7 DEF EntryOf
<1>9. e4 = EntryOf(id, p, m, d, k, id, z, o, y, 0)
  BY <1>4, <1>8 DEF EntryOf
<1>10. e5 = EntryOf(id, p, m, d, k, id, z, o, y, c)
  BY <1>5, <1>9 DEF EntryOf
<1>11. QED
  BY <1>1, <1>2, <1>3, <1>4, <1>5, <1>10 DEF WithFile

(* One item of the walk appends one entry and moves the data offset on by   *)
(* its encrypted size.                                                      *)
LEMMA ScanItemAdds ==
  ASSUME NEW where, NEW a, NEW i \in Nat \ {0}, ScanOf(a, i),
         NEW item \in [parent : Nat, kind : Kinds, name : Names, size : Nat],
         item.parent \in 1..i
  PROVE  Adds(where, a, ScanItem(where, a, item), i, item) /\ ScanOf(ScanItem(where, a, item), i + 1)
<1> DEFINE layout == encrypted_file_size(item.size)
           parent == a.entries[item.parent]
           entry == [id |-> i + 1, parent_id |-> item.parent, name |-> item.name,
                     depth |-> parent.depth + 1, kind |-> item.kind,
                     file_id |-> NoFile, size |-> 0, data_offset |-> 0,
                     encrypted_size |-> 0, chunk_count |-> 0]
           file == [id |-> i + 1, parent_id |-> item.parent, name |-> item.name,
                    depth |-> parent.depth + 1, kind |-> item.kind,
                    file_id |-> i + 1, size |-> item.size, data_offset |-> a.data_offset,
                    encrypted_size |-> layout.encrypted, chunk_count |-> layout.chunks]
           limits == validate_name(where, item.name) /\ entry.depth <= MAX_DEPTH /\ i < MAX_ENTRIES
           fits == /\ layout.ok
                   /\ Fits(a.plaintext + item.size) /\ Fits(a.data_offset + layout.encrypted)
           b == ScanItem(where, a, item)
<1>1. /\ item.size \in Nat /\ item.kind \in Kinds /\ item.parent \in Nat /\ item.name \in Names
      /\ layout.encrypted \in Nat /\ layout.chunks \in Nat
  BY EncryptedSize
<1>2. parent \in Entry
  BY DEF ScanOf
<1>3. parent.depth + 1 \in Nat
  BY <1>2 DEF Entry
<1>4. entry \in Entry /\ file \in Entry
  <2> HIDE DEF layout, parent
  <2>1. i + 1 \in Nat /\ a.data_offset \in Nat
    BY DEF ScanOf
  <2>2. entry \in Entry
    BY <1>1, <1>3, <2>1 DEF Entry, NoFile
  <2>3. file \in Entry
    BY <1>1, <1>3, <2>1 DEF Entry
  <2>4. QED
    BY <2>2, <2>3
<1>5. CASE item.kind = "Directory"
  <2>1. b = [ok |-> a.ok /\ limits, entries |-> Append(a.entries, entry),
             plaintext |-> a.plaintext, data_offset |-> a.data_offset]
    BY <1>5 DEF ScanItem, ScanOf
  <2>2. Laid(entry, i, item, a.data_offset)
    BY <1>5 DEF Laid, DirectoryOk
  <2> HIDE DEF b, entry
  <2>3. /\ Append(a.entries, entry) \in Seq(Entry) /\ Len(Append(a.entries, entry)) = i + 1
        /\ \A j \in 1..Len(a.entries) : Append(a.entries, entry)[j] = a.entries[j]
        /\ Append(a.entries, entry)[i + 1] = entry
    BY <1>4 DEF ScanOf
  <2>4. limits => Within(where, entry, item, a, b)
    <3>1. i < MAX_ENTRIES => i + 1 <= MAX_ENTRIES
      BY IndexAssumption
    <3>2. b.entries = Append(a.entries, entry)
      BY <2>1
    <3> HIDE DEF parent
    <3>3. QED
      BY <1>5, <2>3, <3>1, <3>2 DEF Within
  <2>5. entry.depth = parent.depth + 1
    BY DEF entry
  <2>6. Adds(where, a, b, i, item)
    <3>1. /\ b.ok = (a.ok /\ limits) /\ b.entries = Append(a.entries, entry)
          /\ b.plaintext = a.plaintext /\ b.data_offset = a.data_offset
      BY <2>1
    <3>2. b.ok \in BOOLEAN
      BY <2>1
    <3>3. b.data_offset = a.data_offset + 0
      BY <3>1 DEF ScanOf
    <3> HIDE DEF parent, limits, layout
    <3>4. b.ok => a.ok /\ Within(where, b.entries[i + 1], item, a, b)
      BY <2>3, <2>4, <3>1 DEF ScanOf
    <3>5. b.entries[i + 1].depth = a.entries[item.parent].depth + 1
      BY <2>3, <2>5, <3>1 DEF parent
    <3>6. Laid(b.entries[i + 1], i, item, a.data_offset)
      BY <2>2, <2>3, <3>1
    <3>7. QED
      BY <1>5, <2>3, <3>1, <3>2, <3>3, <3>4, <3>5, <3>6 DEF Adds, ScanOf
  <2>7. ScanOf(b, i + 1)
    BY <2>1, <2>3 DEF ScanOf
  <2>8. QED
    BY <2>6, <2>7 DEF b
<1>6. CASE item.kind = "File"
  <2>1. b = [ok |-> a.ok /\ limits /\ fits, entries |-> Append(a.entries, file),
             plaintext |-> a.plaintext + item.size, data_offset |-> a.data_offset + layout.encrypted]
    <3>1. Len(a.entries) = i /\ item.kind # "Directory"
          /\ a = [ok |-> a.ok, entries |-> a.entries, plaintext |-> a.plaintext, data_offset |-> a.data_offset]
      BY <1>6 DEF ScanOf
    <3>2. file = WithFile(entry, i + 1, item.size, a.data_offset, layout.encrypted, layout.chunks)
      <4>1. entry = EntryOf(i + 1, item.parent, item.name, parent.depth + 1, item.kind, NoFile, 0, 0, 0, 0)
        BY DEF EntryOf
      <4>2. file = EntryOf(i + 1, item.parent, item.name, parent.depth + 1, item.kind, i + 1,
                           item.size, a.data_offset, layout.encrypted, layout.chunks)
        BY DEF EntryOf
      <4> HIDE DEF layout, parent, entry, file
      <4>3. QED
        BY <4>1, <4>2, FileEntry
    <3>3. ScanItem(where, a, item) =
            [a EXCEPT !.ok = a.ok /\ limits /\ fits, !.entries = Append(a.entries, file),
                      !.plaintext = a.plaintext + item.size,
                      !.data_offset = a.data_offset + layout.encrypted]
      BY <3>1, <3>2 DEF ScanItem, WithFile
    <3> HIDE DEF b, file, entry, layout, parent, limits, fits
    <3>4. QED
      BY <3>1, <3>3 DEF b
  <2>2. Laid(file, i, item, a.data_offset)
    BY <1>6 DEF Laid
  <2> HIDE DEF b, file, layout
  <2>3. /\ Append(a.entries, file) \in Seq(Entry) /\ Len(Append(a.entries, file)) = i + 1
        /\ \A j \in 1..Len(a.entries) : Append(a.entries, file)[j] = a.entries[j]
        /\ Append(a.entries, file)[i + 1] = file
    BY <1>4 DEF ScanOf
  <2>4. limits /\ fits => Within(where, file, item, a, b)
    <3>1. i < MAX_ENTRIES => i + 1 <= MAX_ENTRIES
      BY IndexAssumption
    <3>2. b.entries = Append(a.entries, file) /\ b.data_offset = a.data_offset + layout.encrypted
      BY <2>1
    <3>3. file.depth = entry.depth
      BY DEF file
    <3> HIDE DEF parent, entry
    <3>4. QED
      BY <1>6, <2>3, <3>1, <3>2, <3>3 DEF Within, layout
  <2>5. file.depth = parent.depth + 1
    BY DEF file
  <2>6. Adds(where, a, b, i, item)
    <3>1. /\ b.ok = (a.ok /\ limits /\ fits) /\ b.entries = Append(a.entries, file)
          /\ b.plaintext = a.plaintext + item.size /\ b.data_offset = a.data_offset + layout.encrypted
      BY <2>1
    <3>2. b.ok \in BOOLEAN /\ b.data_offset \in Nat /\ b.plaintext \in Nat
      <4> HIDE DEF limits, fits
      <4>1. QED
        BY <1>1, <2>1 DEF ScanOf
    <3> HIDE DEF parent, limits, fits
    <3>3. b.ok => a.ok /\ Within(where, b.entries[i + 1], item, a, b)
      BY <2>3, <2>4, <3>1 DEF ScanOf
    <3>4. b.entries[i + 1].depth = a.entries[item.parent].depth + 1
      BY <2>3, <2>5, <3>1 DEF parent
    <3>5. Laid(b.entries[i + 1], i, item, a.data_offset)
      BY <2>2, <2>3, <3>1
    <3>6. QED
      BY <1>6, <2>3, <3>1, <3>2, <3>3, <3>4, <3>5 DEF Adds, ScanOf, layout
  <2>7. ScanOf(b, i + 1)
    <3>1. b.ok \in BOOLEAN /\ b.entries = Append(a.entries, file)
          /\ b.data_offset = a.data_offset + layout.encrypted /\ b.plaintext = a.plaintext + item.size
      <4> HIDE DEF limits, fits
      <4>1. QED
        BY <1>1, <2>1 DEF ScanOf
    <3>2. b.data_offset \in Nat /\ b.plaintext \in Nat
      BY <1>1, <3>1 DEF ScanOf
    <3>3. b.entries \in Seq(Entry) /\ Len(b.entries) = i + 1
      BY <2>3, <3>1
    <3>4. b.ok \in BOOLEAN
      BY <3>1
    <3>5. b = [ok |-> b.ok, entries |-> b.entries, plaintext |-> b.plaintext,
               data_offset |-> b.data_offset]
      BY <2>1
    <3>6. QED
      BY <3>2, <3>3, <3>4, <3>5 DEF ScanOf
  <2>8. QED
    BY <2>6, <2>7 DEF b
<1>7. QED
  BY <1>1, <1>5, <1>6 DEF Kinds

(* The parent of an item has been scanned before. *)
LEMMA WalkItem ==
  ASSUME NEW items, IsWalk(items), NEW k \in 1..Len(items)
  PROVE  /\ items[k] \in [parent : Nat, kind : Kinds, name : Names, size : Nat]
         /\ items[k].parent \in 1..k
<1>1. items \in Seq([parent : Nat, kind : Kinds, name : Names, size : Nat])
  BY DEF IsWalk
<1>2. k \in DOMAIN items
  BY <1>1
<1>3. items[k].parent = 1 \/ \E j \in 1..(k - 1) : items[k].parent = j + 1
  BY <1>2 DEF IsWalk
<1>4. k \in Nat /\ 1 \in 1..k /\ \A j \in 1..(k - 1) : j + 1 \in 1..k
  BY <1>1
<1>5. items[k].parent \in 1..k
  BY <1>3, <1>4
<1>6. items[k] \in [parent : Nat, kind : Kinds, name : Names, size : Nat]
  <2> DEFINE X == [parent : Nat, kind : Kinds, name : Names, size : Nat]
  <2>1. items \in Seq(X)
    BY <1>1
  <2> HIDE DEF X
  <2>2. items[k] \in X
    BY <2>1
  <2>3. QED
    BY <2>2 DEF X
<1>7. QED
  BY <1>5, <1>6

(* Every item is added to what was scanned before it. *)
LEMMA ScanAll ==
  ASSUME NEW where, NEW items, IsWalk(items)
  PROVE  /\ Len(items) \in Nat
         /\ \A k \in 0..Len(items) : ScanOf(Scanned(where, items, k), k + 1)
         /\ \A k \in 1..Len(items) :
              Adds(where, Scanned(where, items, k - 1), Scanned(where, items, k), k, items[k])
<1> DEFINE n == Len(items)
           T == {k \in 0..n : ScanOf(Scanned(where, items, k), k + 1)}
<1>1. items \in Seq([parent : Nat, kind : Kinds, name : Names, size : Nat]) /\ n \in Nat
  BY DEF IsWalk
<1>2. /\ Scanned(where, items, 0) = ScanBase
      /\ \A k \in 1..n :
           Scanned(where, items, k) = ScanItem(where, Scanned(where, items, k - 1), items[k])
  BY <1>1, ScannedStep
<1>3. 0 \in T
  <2>1. <<Root>> \in Seq(Entry) /\ Len(<<Root>>) = 1
    BY RootIsEntry
  <2>2. ScanOf(ScanBase, 0 + 1)
    BY <2>1 DEF ScanOf, ScanBase
  <2>3. 0 \in 0..n
    BY <1>1
  <2>4. QED
    BY <1>2, <2>2, <2>3
<1>4. ASSUME NEW k \in 1..n, ScanOf(Scanned(where, items, k - 1), k)
      PROVE  /\ Adds(where, Scanned(where, items, k - 1), Scanned(where, items, k), k, items[k])
             /\ ScanOf(Scanned(where, items, k), k + 1)
  <2>1. /\ items[k] \in [parent : Nat, kind : Kinds, name : Names, size : Nat]
        /\ items[k].parent \in 1..k
    BY WalkItem
  <2>2. k \in Nat \ {0}
    BY <1>1
  <2>3. QED
    BY <1>2, <1>4, <2>1, <2>2, ScanItemAdds
<1>5. ASSUME NEW m \in 0..(n - 1), m \in T
      PROVE  m + 1 \in T
  <2>1. m + 1 \in 1..n /\ (m + 1) - 1 = m /\ m + 1 \in 0..n
    BY <1>1
  <2>2. ScanOf(Scanned(where, items, (m + 1) - 1), m + 1)
    BY <1>5, <2>1
  <2>3. QED
    BY <1>4, <2>1, <2>2
<1>6. \A k \in 0..n : k \in T
  <2> HIDE DEF T, n
  <2>1. QED
    BY <1>1, <1>3, <1>5, Induct
<1>7. ASSUME NEW k \in 1..n
      PROVE  Adds(where, Scanned(where, items, k - 1), Scanned(where, items, k), k, items[k])
  <2>1. k - 1 \in 0..n /\ (k - 1) + 1 = k
    BY <1>1
  <2>2. ScanOf(Scanned(where, items, k - 1), (k - 1) + 1)
    BY <1>6, <2>1
  <2>3. QED
    BY <1>4, <2>1, <2>2
<1>8. QED
  BY <1>1, <1>6, <1>7

(* What scanning a walk comes to: the entries, and the offsets reached.    *)
Scans(where, E, off, items, ok) ==
  /\ Len(items) \in Nat
  /\ E \in Seq(Entry) /\ Len(E) = Len(items) + 1 /\ E[1] = Root
  /\ off \in [0..Len(items) -> Nat] /\ off[0] = 0
  /\ \A i \in 1..Len(items) :
       /\ off[i] = off[i - 1]
            + IF items[i].kind = "File" THEN encrypted_file_size(items[i].size).encrypted ELSE 0
       /\ Laid(E[i + 1], i, items[i], off[i - 1])
       /\ E[i + 1].depth = E[items[i].parent].depth + 1
       /\ ok => /\ validate_name(where, items[i].name) /\ E[i + 1].depth <= MAX_DEPTH
                /\ i + 1 <= MAX_ENTRIES
                /\ items[i].kind = "File" => encrypted_file_size(items[i].size).ok /\ Fits(off[i])

(* Item by item scan_source gives each entry its id, its depth and its place*)
(* in the data region.                                                      *)
LEMMA ScanScans ==
  ASSUME NEW where, NEW items, IsWalk(items)
  PROVE  \E off : /\ Scans(where, scan_source(where, items).entries, off, items,
                           scan_source(where, items).ok)
                  /\ off[Len(items)] = scan_source(where, items).data_offset
<1> DEFINE n == Len(items)
           off == [k \in 0..n |-> Scanned(where, items, k).data_offset]
           E == Scanned(where, items, n).entries
           ok == Scanned(where, items, n).ok
<1>1. n \in Nat /\ \A k \in 0..n : ScanOf(Scanned(where, items, k), k + 1)
  BY ScanAll
<1>2. \A k \in 1..n : Adds(where, Scanned(where, items, k - 1), Scanned(where, items, k), k, items[k])
  BY ScanAll
<1>3. scan_source(where, items) = Scanned(where, items, n) /\ Scanned(where, items, 0) = ScanBase
  BY ScannedStep DEF IsWalk
<1> DEFINE Keeps(k, m) == \A j \in 1..(k + 1) :
             Scanned(where, items, m).entries[j] = Scanned(where, items, k).entries[j]
           Kept1(k, m) == Keeps(k, m) /\ (Scanned(where, items, m).ok => Scanned(where, items, k).ok)
           T == {m \in 0..n : \A k \in 0..m : Kept1(k, m)}
<1>4. 0 \in T
  <2>1. Kept1(0, 0)
    OBVIOUS
  <2>2. 0 \in 0..n /\ \A k \in 0..0 : k = 0
    BY <1>1
  <2>3. QED
    <3> HIDE DEF Kept1
    <3>1. QED
      BY <2>1, <2>2
<1>5. ASSUME NEW m \in 0..(n - 1), m \in T
      PROVE  m + 1 \in T
  <2>1. m + 1 \in 1..n /\ m + 1 \in 0..n /\ (m + 1) - 1 = m /\ m \in 0..n
    BY <1>1
  <2>2. Adds(where, Scanned(where, items, m), Scanned(where, items, m + 1), m + 1, items[m + 1])
    BY <1>2, <2>1
  <2>3. Len(Scanned(where, items, m).entries) = m + 1
    BY <1>1, <2>1 DEF ScanOf
  <2>4. Kept1(m, m + 1)
    BY <2>2, <2>3 DEF Adds
  <2>5. ASSUME NEW k \in 0..(m + 1)
        PROVE  Kept1(k, m + 1)
    <3>1. CASE k = m + 1
      BY <3>1
    <3>2. CASE k \in 0..m
      <4>1. Kept1(k, m)
        BY <1>5, <3>2
      <4>2. \A j \in 1..(k + 1) : j \in 1..(m + 1)
        BY <3>2
      <4>3. QED
        BY <2>4, <4>1, <4>2
    <3>3. QED
      BY <3>1, <3>2
  <2>6. QED
    <3> HIDE DEF Kept1
    <3>1. QED
      BY <2>1, <2>5
<1>6. \A m \in 0..n : m \in T
  <2> HIDE DEF T, n
  <2>1. QED
    BY <1>1, <1>4, <1>5, Induct
<1>7. \A k \in 0..n : Kept1(k, n)
  <2>1. n \in 0..n
    BY <1>1
  <2>2. QED
    <3> HIDE DEF Kept1
    <3>1. QED
      BY <1>6, <2>1
<1>8. off \in [0..n -> Nat] /\ off[0] = 0
  <2>1. \A k \in 0..n : Scanned(where, items, k).data_offset \in Nat
    BY <1>1 DEF ScanOf
  <2>2. 0 \in 0..n
    BY <1>1
  <2>3. QED
    BY <1>3, <2>1, <2>2 DEF ScanBase
<1>9. E \in Seq(Entry) /\ Len(E) = n + 1 /\ E[1] = Root
  <2>1. n \in 0..n /\ 0 \in 0..n /\ 1 \in 1..(0 + 1)
    BY <1>1
  <2>2. E[1] = Scanned(where, items, 0).entries[1]
    BY <1>7, <2>1
  <2>3. QED
    BY <1>1, <1>3, <2>1, <2>2 DEF ScanOf, ScanBase
<1>10. ASSUME NEW i \in 1..n
       PROVE  /\ off[i] = off[i - 1]
                   + IF items[i].kind = "File" THEN encrypted_file_size(items[i].size).encrypted ELSE 0
              /\ Laid(E[i + 1], i, items[i], off[i - 1])
              /\ E[i + 1].depth = E[items[i].parent].depth + 1
              /\ ok => /\ validate_name(where, items[i].name) /\ E[i + 1].depth <= MAX_DEPTH
                       /\ i + 1 <= MAX_ENTRIES
                       /\ items[i].kind = "File" => encrypted_file_size(items[i].size).ok /\ Fits(off[i])
  <2>1. i \in 0..n /\ i - 1 \in 0..n /\ i + 1 \in 1..(i + 1)
    BY <1>1
  <2> DEFINE a == Scanned(where, items, i - 1)
             b == Scanned(where, items, i)
  <2>2. Adds(where, a, b, i, items[i])
    BY <1>2
  <2>3. off[i] = b.data_offset /\ off[i - 1] = a.data_offset
    BY <2>1
  <2>4. E[i + 1] = b.entries[i + 1]
    BY <1>7, <2>1
  <2>5. E[items[i].parent] = a.entries[items[i].parent]
    <3>1. items[i].parent \in 1..((i - 1) + 1)
      BY WalkItem
    <3>2. QED
      BY <1>7, <2>1, <3>1
  <2>6. ok => b.ok
    BY <1>7, <2>1
  <2>7. Len(b.entries) = i + 1
    BY <1>1, <2>1 DEF ScanOf
  <2> HIDE DEF off, E, ok, a, b
  <2>8. QED
    BY <2>2, <2>3, <2>4, <2>5, <2>6, <2>7 DEF Adds, Within
<1>11. Scans(where, E, off, items, ok)
  <2> HIDE DEF E, off, ok
  <2>1. QED
    BY <1>1, <1>8, <1>9, <1>10 DEF Scans
<1>12. off[n] = Scanned(where, items, n).data_offset
  BY <1>1
<1>13. QED
  <2> HIDE DEF off
  <2>1. QED
    BY <1>3, <1>11, <1>12

(* Offsets only move at files. *)
NoFileIn(items, a, b) == \A i \in (a + 1)..b : items[i].kind # "File"

(* Where the walk meets no file the data offset stands still.               *)
LEMMA OffsetGap ==
  ASSUME NEW where, NEW E, NEW off, NEW items, NEW ok, Scans(where, E, off, items, ok)
  PROVE  \A a, b \in 0..Len(items) : a <= b /\ NoFileIn(items, a, b) => off[b] = off[a]
<1> SUFFICES ASSUME NEW a \in 0..Len(items), NEW b \in 0..Len(items), a <= b, NoFileIn(items, a, b)
             PROVE  off[b] = off[a]
  OBVIOUS
<1> DEFINE n == Len(items)
           T == {d \in 0..(b - a) : off[a + d] = off[a]}
<1>1. n \in Nat /\ off \in [0..n -> Nat]
  BY DEF Scans
<1>2. b - a \in Nat /\ a + (b - a) = b /\ a \in Nat /\ b \in Nat /\ a + 0 = a
  BY <1>1
<1>3. 0 \in T
  BY <1>2
<1>4. ASSUME NEW d \in 0..((b - a) - 1), d \in T
      PROVE  d + 1 \in T
  <2>1. a + (d + 1) \in (a + 1)..b /\ a + (d + 1) \in 1..n /\ (a + (d + 1)) - 1 = a + d
        /\ a + d \in 0..n /\ d + 1 \in 0..(b - a)
    BY <1>1, <1>2
  <2>2. items[a + (d + 1)].kind # "File"
    BY <2>1 DEF NoFileIn
  <2>3. off[a + (d + 1)] = off[(a + (d + 1)) - 1] + 0
    BY <2>1, <2>2 DEF Scans
  <2>4. off[a + d] \in Nat
    BY <1>1, <2>1
  <2>5. off[a + (d + 1)] = off[a + d]
    BY <2>1, <2>3, <2>4
  <2>6. off[a + d] = off[a]
    BY <1>4
  <2>7. QED
    BY <2>1, <2>5, <2>6
<1>5. \A d \in 0..(b - a) : d \in T
  <2> HIDE DEF T
  <2>1. QED
    BY <1>2, <1>3, <1>4, Induct
<1>6. b - a \in T
  <2>1. b - a \in 0..(b - a)
    BY <1>2
  <2>2. QED
    BY <1>5, <2>1
<1>7. QED
  BY <1>2, <1>6

(* Offsets never go back. *)
LEMMA OffsetMonotone ==
  ASSUME NEW where, NEW E, NEW off, NEW items, NEW ok, Scans(where, E, off, items, ok), IsWalk(items),
         NEW a \in 0..Len(items), NEW b \in 0..Len(items), a <= b
  PROVE  off[a] <= off[b]
<1> DEFINE n == Len(items)
           T == {d \in 0..(b - a) : off[a] <= off[a + d]}
<1>1. n \in Nat /\ off \in [0..n -> Nat]
  BY DEF Scans
<1>2. b - a \in Nat /\ a + (b - a) = b /\ a \in Nat /\ b \in Nat /\ a + 0 = a
  BY <1>1
<1>3. 0 \in T
  BY <1>1, <1>2
<1>4. ASSUME NEW d \in 0..((b - a) - 1), d \in T
      PROVE  d + 1 \in T
  <2>1. a + (d + 1) \in 1..n /\ (a + (d + 1)) - 1 = a + d
        /\ a + d \in 0..n /\ d + 1 \in 0..(b - a)
    BY <1>1, <1>2
  <2>2. items[a + (d + 1)] \in [parent : Nat, kind : Kinds, name : Names, size : Nat]
    BY <2>1, WalkItem
  <2>3. PICK y \in Nat : off[a + (d + 1)] = off[(a + (d + 1)) - 1] + y
    <3>1. encrypted_file_size(items[a + (d + 1)].size).encrypted \in Nat
      BY <2>2, EncryptedSize
    <3>2. QED
      BY <2>1, <3>1 DEF Scans
  <2>4. off[a] \in Nat /\ off[a + d] \in Nat
    BY <1>1, <2>1
  <2>5. off[a] <= off[a + d]
    BY <1>4
  <2>6. off[a] <= off[a + (d + 1)]
    BY <2>1, <2>3, <2>4, <2>5
  <2>7. QED
    BY <2>1, <2>6
<1>5. \A d \in 0..(b - a) : d \in T
  <2> HIDE DEF T
  <2>1. QED
    BY <1>2, <1>3, <1>4, Induct
<1>6. b - a \in T
  <2>1. b - a \in 0..(b - a)
    BY <1>2
  <2>2. QED
    BY <1>5, <2>1
<1>7. QED
  BY <1>2, <1>6

(* The order of the files is strict. *)
OffsetOrder(E) == {p \in FilesOf(E) \X FilesOf(E) : ByOffset(p[1], p[2], E)}

(* The order of the offsets, with the position for equal ones, is strict.   *)
LEMMA OffsetOrderStrict ==
  ASSUME NEW E \in Seq(Entry)
  PROVE  /\ IsFiniteSet(FilesOf(E)) /\ FilesOf(E) \subseteq 1..Len(E)
         /\ StrictOrder(FilesOf(E), OffsetOrder(E))
         /\ Sorted(E) = InOrder(FilesOf(E), OffsetOrder(E))
<1>1. Len(E) \in Nat /\ FilesOf(E) \subseteq 1..Len(E)
  BY DEF FilesOf
<1>2. IsFiniteSet(FilesOf(E))
  <2>1. IsFiniteSet(1..Len(E))
    <3>1. 1 \in Int /\ Len(E) \in Int
      BY <1>1
    <3>2. QED
      BY <3>1, FS_Interval
  <2>2. QED
    BY <1>1, <2>1, FS_Subset
<1>3. \A i \in FilesOf(E) : i \in Nat /\ E[i].data_offset \in Nat
  <2>1. \A i \in 1..Len(E) : E[i] \in Entry
    OBVIOUS
  <2>2. \A i \in 1..Len(E) : E[i].data_offset \in Nat
    BY <2>1 DEF Entry
  <2>3. QED
    BY <1>1, <2>2
<1>4. \A i, j \in FilesOf(E) : <<i, j>> \in OffsetOrder(E) <=> ByOffset(i, j, E)
  BY DEF OffsetOrder
<1>5. \A i \in FilesOf(E) : ~ByOffset(i, i, E)
  BY <1>3 DEF ByOffset
<1>6. \A i, j \in FilesOf(E) : i # j => ByOffset(i, j, E) \/ ByOffset(j, i, E)
  BY <1>3 DEF ByOffset
<1>7. \A i, j, k \in FilesOf(E) : ByOffset(i, j, E) /\ ByOffset(j, k, E) => ByOffset(i, k, E)
  BY <1>3 DEF ByOffset
<1>8. StrictOrder(FilesOf(E), OffsetOrder(E))
  BY <1>4, <1>5, <1>6, <1>7 DEF StrictOrder
<1>9. QED
  BY <1>1, <1>2, <1>8 DEF Sorted, OffsetOrder

(* What Sorted lists: every file once, by offset. *)
SortedFiles(s, N, E) ==
  /\ N \in Nat /\ s \in [1..N -> FilesOf(E)] /\ s \in Seq(FilesOf(E)) /\ Len(s) = N /\ DOMAIN s = 1..N
  /\ \A k, l \in 1..N : k < l => ByOffset(s[k], s[l], E)
  /\ \A k, l \in 1..N : s[k] = s[l] => k = l
  /\ \A i \in FilesOf(E) : \E k \in 1..N : s[k] = i

(* Sorted lists every file once, in the order of the offsets.               *)
LEMMA SortedLists ==
  ASSUME NEW E \in Seq(Entry)
  PROVE  SortedFiles(Sorted(E), Cardinality(FilesOf(E)), E)
<1> DEFINE s == Sorted(E)
           N == Cardinality(FilesOf(E))
<1>1. /\ N \in Nat /\ Sorts(s, N, FilesOf(E), OffsetOrder(E))
      /\ \A k, l \in 1..N : s[k] = s[l] => k = l
      /\ \A i \in FilesOf(E) : \E k \in 1..N : s[k] = i
  BY OffsetOrderStrict, InOrderSorts
<1> HIDE DEF s, N
<1>2. s \in [1..N -> FilesOf(E)] /\ DOMAIN s = 1..N
  BY <1>1 DEF Sorts
<1>3. s \in Seq(FilesOf(E))
  BY <1>1, <1>2, SeqDef
<1>4. Len(s) = N
  <2>1. Len(s) \in Nat /\ DOMAIN s = 1..Len(s)
    BY <1>3, LenProperties
  <2>2. QED
    BY <1>1, <1>2, <2>1
<1>5. \A k, l \in 1..N : k < l => ByOffset(s[k], s[l], E)
  BY <1>1 DEF Sorts, OffsetOrder
<1>6. QED
  BY <1>1, <1>2, <1>3, <1>4, <1>5 DEF SortedFiles, s, N

(* Where the file of entry i begins and ends. *)
FileAt(E, off, items, i) ==
  /\ i \in 2..(Len(items) + 1) /\ i - 2 \in 0..Len(items) /\ i - 1 \in 1..Len(items)
  /\ items[i - 1].kind = "File"
  /\ E[i].data_offset = off[i - 2]
  /\ E[i].data_offset + E[i].encrypted_size = off[i - 1]
  /\ Fits(off[i - 1])

(* The files of a scan, where they lie. *)
LEMMA ScannedFile ==
  ASSUME NEW where, NEW E, NEW off, NEW items, NEW ok, ok = TRUE, Scans(where, E, off, items, ok), IsWalk(items),
         NEW i \in FilesOf(E)
  PROVE  FileAt(E, off, items, i)
<1> DEFINE n == Len(items)
<1>1. n \in Nat /\ Len(E) = n + 1 /\ E \in Seq(Entry) /\ E[1] = Root
  BY DEF Scans
<1>2. i \in 1..(n + 1) /\ E[i].kind = "File"
  BY <1>1 DEF FilesOf
<1>3. i # 1
  <2>1. Root.kind # "File"
    BY RootIsEntry DEF RootOk
  <2>2. QED
    BY <1>1, <1>2, <2>1
<1>4. i \in 2..(n + 1) /\ i - 1 \in 1..n /\ (i - 1) + 1 = i /\ (i - 1) - 1 = i - 2 /\ i - 2 \in 0..n
  BY <1>1, <1>2, <1>3
<1>5. Laid(E[(i - 1) + 1], i - 1, items[i - 1], off[(i - 1) - 1])
  BY <1>4 DEF Scans
<1>6. items[i - 1].kind = "File"
  BY <1>2, <1>4, <1>5 DEF Laid
<1>7. /\ E[i].data_offset = off[i - 2]
      /\ E[i].encrypted_size = encrypted_file_size(items[i - 1].size).encrypted
  BY <1>4, <1>5, <1>6 DEF Laid
<1>8. off[i - 1] = off[(i - 1) - 1] + encrypted_file_size(items[i - 1].size).encrypted /\ Fits(off[i - 1])
  BY <1>4, <1>6 DEF Scans
<1>9. QED
  BY <1>4, <1>6, <1>7, <1>8 DEF FileAt

(* Its files are contiguous, in the order of the entries. *)
LEMMA ScannedLayout ==
  ASSUME NEW where, NEW E, NEW off, NEW items, Scans(where, E, off, items, TRUE), IsWalk(items)
  PROVE  LayoutOk(E, off[Len(items)])
<1> DEFINE n == Len(items)
           s == Sorted(E)
           N == Cardinality(FilesOf(E))
           End(k) == IF k = 0 THEN 0 ELSE E[s[k]].data_offset + E[s[k]].encrypted_size
<1>1. n \in Nat /\ Len(E) = n + 1 /\ E \in Seq(Entry) /\ off \in [0..n -> Nat] /\ off[0] = 0
  BY DEF Scans
<1>2. \A a, b \in 0..n : a <= b /\ NoFileIn(items, a, b) => off[b] = off[a]
  <2>1. PICK ok : ok = TRUE
    OBVIOUS
  <2>2. Scans(where, E, off, items, ok)
    BY <2>1
  <2>3. QED
    BY <2>2, OffsetGap
<1>3. ASSUME NEW i \in FilesOf(E)
      PROVE  /\ i \in 2..(n + 1) /\ i - 2 \in 0..n /\ i - 1 \in 1..n
             /\ E[i].data_offset = off[i - 2]
             /\ E[i].data_offset + E[i].encrypted_size = off[i - 1] /\ Fits(off[i - 1])
  <2>1. PICK ok : ok = TRUE
    OBVIOUS
  <2>2. Scans(where, E, off, items, ok)
    BY <2>1
  <2>3. FileAt(E, off, items, i)
    BY <2>1, <2>2, ScannedFile
  <2>4. QED
    BY <2>3 DEF FileAt
<1>4. SortedFiles(s, N, E)
  BY <1>1, SortedLists
<1> HIDE DEF s, N
<1>5. N \in Nat
  BY <1>4 DEF SortedFiles
<1>6. ASSUME NEW k \in 1..N
      PROVE  /\ s[k] \in FilesOf(E)
             /\ s[k] \in 2..(n + 1) /\ s[k] - 2 \in 0..n /\ s[k] - 1 \in 1..n
             /\ E[s[k]].data_offset = off[s[k] - 2]
             /\ End(k) = off[s[k] - 1] /\ Fits(End(k))
  <2>1. s[k] \in FilesOf(E)
    BY <1>4 DEF SortedFiles
  <2>2. End(k) = E[s[k]].data_offset + E[s[k]].encrypted_size
    BY <1>5
  <2>3. PICK i : i = s[k]
    OBVIOUS
  <2> HIDE DEF End
  <2>4. /\ i \in 2..(n + 1) /\ i - 2 \in 0..n /\ i - 1 \in 1..n
        /\ E[i].data_offset = off[i - 2]
        /\ E[i].data_offset + E[i].encrypted_size = off[i - 1] /\ Fits(off[i - 1])
    BY <2>1, <2>3, <1>3
  <2>5. QED
    BY <2>1, <2>2, <2>3, <2>4
<1>7. \A k \in 1..N : s[k] \in 2..(n + 1) /\ s[k] \in Nat
  BY <1>1, <1>6
<1>8. ASSUME NEW k \in 1..N, NEW l \in 1..N, k < l
      PROVE  s[k] < s[l]
  <2>1. ByOffset(s[k], s[l], E) /\ s[k] # s[l]
    BY <1>4, <1>8 DEF SortedFiles
  <2>2. s[k] \in Nat /\ s[l] \in Nat
    BY <1>7
  <2>3. SUFFICES ASSUME s[l] < s[k] PROVE FALSE
    BY <2>1, <2>2
  <2>4. s[l] - 2 <= s[k] - 2
    BY <2>2, <2>3
  <2>5. off[s[l] - 2] <= off[s[k] - 2]
    BY <1>6, <2>4, OffsetMonotone
  <2>6. E[s[l]].data_offset <= E[s[k]].data_offset
    BY <1>6, <2>5
  <2>7. E[s[l]].data_offset \in Nat /\ E[s[k]].data_offset \in Nat
    BY <1>1, <1>6
  <2>8. ~(E[s[k]].data_offset < E[s[l]].data_offset)
    BY <2>6, <2>7
  <2>9. ~(s[k] < s[l])
    BY <2>2, <2>3
  <2>10. QED
    BY <2>1, <2>8, <2>9 DEF ByOffset
<1>9. ASSUME NEW i \in 1..n, items[i].kind = "File"
      PROVE  \E m \in 1..N : s[m] = i + 1
  <2>1. Laid(E[i + 1], i, items[i], off[i - 1])
    BY DEF Scans
  <2>2. i + 1 \in FilesOf(E)
    <3>1. i + 1 \in DOMAIN E
      BY <1>1
    <3>2. QED
      BY <1>9, <2>1, <3>1 DEF Laid, FilesOf
  <2>3. QED
    BY <1>4, <2>2 DEF SortedFiles
<1>10. ASSUME NEW k \in 1..N
      PROVE  E[s[k]].data_offset = End(k - 1)
  <2>1. CASE k = 1
    <3>1. ASSUME NEW i \in (0 + 1)..(s[1] - 2), items[i].kind = "File"
          PROVE  FALSE
      <4>1. i \in 1..n /\ i + 1 < s[1]
        BY <1>1, <1>6, <2>1
      <4>2. PICK m \in 1..N : s[m] = i + 1
        BY <1>9, <3>1, <4>1
      <4>3. m = 1 \/ 1 < m
        BY <1>5
      <4>4. s[1] <= s[m]
        BY <1>6, <1>8, <2>1, <4>3
      <4>5. QED
        BY <1>7, <2>1, <4>1, <4>2, <4>4
    <3>2. s[1] - 2 \in 0..n /\ 0 \in 0..n /\ 0 <= s[1] - 2
      BY <1>1, <1>6, <2>1
    <3>3. NoFileIn(items, 0, s[1] - 2)
      BY <3>1 DEF NoFileIn
    <3>4. off[s[1] - 2] = off[0]
      BY <3>2, <3>3, <1>2
    <3>5. QED
      BY <1>1, <1>6, <2>1, <3>4
  <2>2. CASE k # 1
    <3>1. k - 1 \in 1..N /\ k - 1 < k
      BY <1>5, <2>2
    <3>2. s[k - 1] < s[k]
      BY <1>8, <3>1
    <3>3. s[k - 1] - 1 \in 0..n /\ s[k] - 2 \in 0..n /\ s[k - 1] - 1 <= s[k] - 2
      <4>1. PICK u, v : u = s[k - 1] /\ v = s[k]
        OBVIOUS
      <4>2. u \in 2..(n + 1) /\ v \in 2..(n + 1) /\ u < v
        BY <1>7, <3>1, <3>2, <4>1
      <4>3. n \in Nat
        BY <1>1
      <4>4. PICK m : m = n
        OBVIOUS
      <4>5. u - 1 \in 0..m /\ v - 2 \in 0..m /\ u - 1 <= v - 2
        <5> HIDE DEF n
        <5>1. QED
          BY <4>2, <4>3, <4>4
      <4>6. QED
        BY <4>1, <4>4, <4>5
    <3>4. ASSUME NEW i \in ((s[k - 1] - 1) + 1)..(s[k] - 2), items[i].kind = "File"
          PROVE  FALSE
      <4>1. i \in 1..n /\ s[k - 1] < i + 1 /\ i + 1 < s[k]
        <5>1. s[k - 1] \in 2..(n + 1) /\ s[k] \in 2..(n + 1)
          BY <1>6, <3>1
        <5>2. QED
          BY <1>1, <5>1
      <4>2. PICK m \in 1..N : s[m] = i + 1
        BY <1>9, <3>4, <4>1
      <4>3. m < k - 1 \/ m = k - 1 \/ m = k \/ k < m
        BY <1>5
      <4>4. s[m] <= s[k - 1] \/ s[m] >= s[k]
        <5>1. s[m] \in Nat /\ s[k - 1] \in Nat /\ s[k] \in Nat
          BY <1>7, <3>1
        <5>2. CASE m < k - 1
          BY <1>8, <3>1, <5>1, <5>2
        <5>3. CASE k < m
          BY <1>8, <5>1, <5>3
        <5>4. QED
          BY <4>3, <5>1, <5>2, <5>3
      <4>5. s[m] \in Nat /\ s[k - 1] \in Nat /\ s[k] \in Nat
        BY <1>7, <3>1
      <4>6. QED
        BY <4>1, <4>2, <4>4, <4>5
    <3>5. NoFileIn(items, s[k - 1] - 1, s[k] - 2)
      BY <3>4 DEF NoFileIn
    <3>6. off[s[k] - 2] = off[s[k - 1] - 1]
      BY <3>3, <3>5, <1>2
    <3>7. E[s[k]].data_offset = off[s[k] - 2] /\ End(k - 1) = off[s[k - 1] - 1]
      <4> HIDE DEF End
      <4>1. QED
        BY <1>6, <3>1
    <3>8. QED
      BY <3>6, <3>7
  <2>3. QED
    BY <2>1, <2>2
<1>11. End(N) = off[n]
  <2>1. CASE N = 0
    <3>1. ASSUME NEW i \in (0 + 1)..n, items[i].kind = "File"
          PROVE  FALSE
      BY <1>9, <2>1, <3>1
    <3>2. 0 \in 0..n /\ n \in 0..n /\ 0 <= n
      BY <1>1
    <3>3. NoFileIn(items, 0, n)
      BY <3>1 DEF NoFileIn
    <3>4. off[n] = off[0]
      BY <3>2, <3>3, <1>2
    <3>5. QED
      BY <1>1, <2>1, <3>4
  <2>2. CASE N # 0
    <3>1. N \in 1..N
      BY <1>5, <2>2
    <3>2. s[N] - 1 \in 0..n /\ n \in 0..n /\ s[N] - 1 <= n
      BY <1>1, <1>6, <3>1
    <3>3. ASSUME NEW i \in ((s[N] - 1) + 1)..n, items[i].kind = "File"
          PROVE  FALSE
      <4>1. i \in 1..n /\ s[N] < i + 1
        <5>1. s[N] \in 2..(n + 1)
          BY <1>6, <3>1
        <5>2. QED
          BY <1>1, <5>1
      <4>2. PICK m \in 1..N : s[m] = i + 1
        BY <1>9, <3>3, <4>1
      <4>3. m < N \/ m = N
        BY <1>5
      <4>4. s[m] \in Nat /\ s[N] \in Nat
        BY <1>7, <3>1
      <4>5. s[m] <= s[N]
        BY <1>8, <3>1, <4>3, <4>4
      <4>6. QED
        BY <4>1, <4>2, <4>4, <4>5
    <3>4. NoFileIn(items, s[N] - 1, n)
      BY <3>3 DEF NoFileIn
    <3>5. off[n] = off[s[N] - 1]
      BY <3>2, <3>4, <1>2
    <3>6. QED
      BY <1>6, <3>1, <3>5
  <2>3. QED
    BY <2>1, <2>2
<1>12. Len(s) = N /\ DOMAIN s = 1..N
  BY <1>4 DEF SortedFiles
<1>13. \A k \in DOMAIN s : E[s[k]].data_offset = End(k - 1) /\ Fits(End(k))
  <2> HIDE DEF End
  <2>1. QED
    BY <1>6, <1>10, <1>12
<1>14. End(Len(s)) = off[n]
  <2> HIDE DEF End
  <2>1. QED
    BY <1>11, <1>12
<1>15. QED
  BY <1>13, <1>14 DEF LayoutOk, s

(* The ids of a scan count up. *)
CountUp(E, items) ==
  /\ Len(items) \in Nat /\ E \in Seq(Entry) /\ Len(E) = Len(items) + 1 /\ E[1] = Root
  /\ DOMAIN E = 1..Len(E)
  /\ \A i \in DOMAIN E : i \in Nat /\ E[i].id = i /\ (i # 1 => i - 1 \in 1..Len(items))
  /\ \A i \in DOMAIN E : i # 1 =>
       /\ E[i].parent_id = items[i - 1].parent /\ E[i].name = items[i - 1].name
       /\ E[i].kind = items[i - 1].kind
       /\ E[i].depth = E[items[i - 1].parent].depth + 1
  /\ \A i \in FilesOf(E) : i \in DOMAIN E /\ i # 1 /\ E[i].file_id = i

(* A scan made on one platform is a scan of any that accepts its names.     *)
LEMMA ScansElsewhere ==
  ASSUME NEW from, NEW where, NEW E, NEW off, NEW items, Scans(from, E, off, items, TRUE),
         \A i \in 1..Len(items) : validate_name(where, items[i].name)
  PROVE  Scans(where, E, off, items, TRUE)
  BY DEF Scans

(* The entries of a scan count up, and their fields are those of their      *)
(* items.                                                                   *)
LEMMA ScannedEntries ==
  ASSUME NEW where, NEW E, NEW off, NEW items, Scans(where, E, off, items, TRUE), IsWalk(items)
  PROVE  CountUp(E, items)
<1> DEFINE n == Len(items)
<1>1. n \in Nat /\ E \in Seq(Entry) /\ Len(E) = n + 1 /\ E[1] = Root /\ DOMAIN E = 1..(n + 1)
  BY DEF Scans
<1>2. ASSUME NEW i \in DOMAIN E, i # 1
      PROVE  /\ i \in Nat /\ i - 1 \in 1..n
             /\ Laid(E[i], i - 1, items[i - 1], off[(i - 1) - 1]) /\ (i - 1) + 1 = i
             /\ E[i].depth = E[items[i - 1].parent].depth + 1
  <2>1. i \in Nat /\ i - 1 \in 1..n /\ (i - 1) + 1 = i
    BY <1>1, <1>2
  <2>2. /\ Laid(E[(i - 1) + 1], i - 1, items[i - 1], off[(i - 1) - 1])
        /\ E[(i - 1) + 1].depth = E[items[i - 1].parent].depth + 1
    BY <2>1 DEF Scans
  <2>3. QED
    BY <2>1, <2>2
<1>3. ASSUME NEW i \in DOMAIN E
      PROVE  i \in Nat /\ E[i].id = i /\ (i # 1 => i - 1 \in 1..n)
  <2>1. CASE i = 1
    BY <1>1, <2>1, RootIsEntry
  <2>2. CASE i # 1
    BY <1>2, <2>2 DEF Laid
  <2>3. QED
    BY <2>1, <2>2
<1>4. ASSUME NEW i \in DOMAIN E, i # 1
      PROVE  /\ E[i].parent_id = items[i - 1].parent /\ E[i].name = items[i - 1].name
             /\ E[i].kind = items[i - 1].kind
             /\ E[i].depth = E[items[i - 1].parent].depth + 1
  BY <1>2, <1>4 DEF Laid
<1>5. ASSUME NEW i \in FilesOf(E)
      PROVE  i \in DOMAIN E /\ i # 1 /\ E[i].file_id = i
  <2>1. i \in DOMAIN E /\ E[i].kind = "File"
    BY DEF FilesOf
  <2>2. i # 1
    <3>1. Root.kind # "File"
      BY RootIsEntry DEF RootOk
    <3>2. QED
      BY <1>1, <2>1, <3>1
  <2>3. QED
    BY <1>2, <2>1, <2>2 DEF Laid
<1>6. QED
  BY <1>1, <1>3, <1>4, <1>5 DEF CountUp

(* validate_index accepts what scan_source made of a walk. *)
LEMMA ScannedAccepted ==
  ASSUME NEW where, NEW E, NEW off, NEW items, Scans(where, E, off, items, TRUE), IsWalk(items),
         NEW h, h.entry_count = Len(E), h.data_size = off[Len(items)]
  PROVE  validate_index(where, h, E)
<1> DEFINE n == Len(items)
<1>1. CountUp(E, items)
  BY ScannedEntries
<1>2. /\ n \in Nat /\ E \in Seq(Entry) /\ Len(E) = n + 1 /\ E[1] = Root /\ DOMAIN E = 1..(n + 1)
      /\ \A i \in DOMAIN E : i \in Nat /\ E[i].id = i /\ (i # 1 => i - 1 \in 1..n)
  BY <1>1 DEF CountUp
<1>3. \A i \in DOMAIN E : i # 1 =>
         /\ E[i].parent_id = items[i - 1].parent /\ E[i].name = items[i - 1].name
         /\ E[i].kind = items[i - 1].kind
         /\ E[i].depth = E[items[i - 1].parent].depth + 1
  BY <1>1 DEF CountUp
<1>4. \A i \in FilesOf(E) : i \in DOMAIN E /\ i # 1 /\ E[i].file_id = i
  BY <1>1 DEF CountUp
<1>5. Len(E) <= MAX_ENTRIES
  <2>1. CASE n = 0
    BY <1>2, <2>1, IndexAssumption
  <2>2. CASE n # 0
    <3>1. n \in 1..n
      BY <1>2, <2>2
    <3>2. n + 1 <= MAX_ENTRIES
      BY <3>1 DEF Scans
    <3>3. QED
      BY <1>2, <3>2
  <2>3. QED
    BY <2>1, <2>2
<1>6. ASSUME NEW i \in DOMAIN E
      PROVE  EntryOk(where, E[i])
  <2>1. CASE i = 1
    <3>1. Root.id # 0 /\ Root.depth <= MAX_DEPTH /\ Root.kind = "Directory"
      BY IndexAssumption DEF Root
    <3>2. QED
      BY <1>2, <2>1, <3>1, RootIsEntry DEF EntryOk
  <2>2. CASE i # 1
    <3>1. i \in Nat /\ i - 1 \in 1..n /\ (i - 1) + 1 = i /\ E[i].id = i /\ i # 0
      BY <1>2, <2>2
    <3>2. PICK o : Laid(E[i], i - 1, items[i - 1], o)
      <4>1. Laid(E[(i - 1) + 1], i - 1, items[i - 1], off[(i - 1) - 1])
        BY <3>1 DEF Scans
      <4>2. QED
        BY <3>1, <4>1
    <3>3. /\ validate_name(where, items[i - 1].name) /\ E[i].depth <= MAX_DEPTH
          /\ items[i - 1].kind = "File" => encrypted_file_size(items[i - 1].size).ok
      <4>1. /\ validate_name(where, items[i - 1].name) /\ E[(i - 1) + 1].depth <= MAX_DEPTH
            /\ items[i - 1].kind = "File" => encrypted_file_size(items[i - 1].size).ok
        BY <3>1 DEF Scans
      <4>2. QED
        BY <3>1, <4>1
    <3>4. items[i - 1].kind \in Kinds
      BY <3>1, WalkItem
    <3>5. CASE items[i - 1].kind = "Directory"
      BY <2>2, <3>1, <3>2, <3>3, <3>5 DEF EntryOk, Laid
    <3>6. CASE items[i - 1].kind = "File"
      <4>1. E[i].kind = "File" /\ E[i].name = items[i - 1].name
        BY <3>2, <3>6 DEF Laid
      <4>2. FileOk(E[i])
        BY <3>1, <3>2, <3>3, <3>6 DEF Laid, FileOk, NoFile
      <4>3. QED
        BY <2>2, <3>1, <3>3, <4>1, <4>2 DEF EntryOk
    <3>7. QED
      BY <3>4, <3>5, <3>6 DEF Kinds
  <2>3. QED
    BY <2>1, <2>2
<1>7. IsInjective([i \in DOMAIN E |-> E[i].id])
  BY <1>2 DEF IsInjective
<1>8. IsInjective([i \in FilesOf(E) |-> E[i].file_id])
  BY <1>4 DEF IsInjective
<1>9. \E i \in DOMAIN E : E[i].id = 1
  <2>1. 1 \in DOMAIN E
    BY <1>2
  <2>2. QED
    BY <1>2, <2>1
<1>10. ASSUME NEW i \in Below(E)
      PROVE  i \in DOMAIN E /\ i # 1 /\ i - 1 \in 1..n
  BY <1>2 DEF Below
<1>11. ASSUME NEW i \in Below(E)
       PROVE  LinkOk(E[i], E)
  <2>1. i \in DOMAIN E /\ i # 1 /\ i - 1 \in 1..n
    BY <1>10
  <2> DEFINE p == items[i - 1].parent
  <2>2. p \in 1..(i - 1) /\ p \in DOMAIN E
    <3>1. p \in 1..(i - 1)
      BY <2>1, WalkItem
    <3>2. QED
      BY <1>2, <2>1, <3>1
  <2>3. E[p].kind = "Directory"
    <3>1. i - 1 \in DOMAIN items
      BY <2>1 DEF IsWalk
    <3>2. CASE p = 1
      BY <1>2, <3>2, RootIsEntry DEF RootOk
    <3>3. ASSUME NEW j \in 1..((i - 1) - 1), p = j + 1, items[j].kind = "Directory"
          PROVE  E[p].kind = "Directory"
      <4>1. j \in Nat /\ p # 1 /\ p - 1 = j
        BY <1>2, <2>1, <3>3
      <4>2. QED
        BY <1>3, <2>2, <3>3, <4>1
    <3>4. QED
      BY <3>1, <3>2, <3>3 DEF IsWalk
  <2>4. E[p] \in Range(E)
    BY <2>2 DEF Range
  <2>5. E[p].id = E[i].parent_id /\ E[p].depth + 1 = E[i].depth
    BY <1>2, <1>3, <2>1, <2>2
  <2>6. QED
    BY <2>3, <2>4, <2>5 DEF LinkOk
<1>12. IsInjective([i \in Below(E) |-> <<E[i].parent_id, E[i].name>>])
  <2>1. ASSUME NEW i \in Below(E), NEW j \in Below(E),
               E[i].parent_id = E[j].parent_id, E[i].name = E[j].name
        PROVE  i = j
    <3>1. i \in Nat /\ j \in Nat /\ i - 1 \in DOMAIN items /\ j - 1 \in DOMAIN items
      <4>1. DOMAIN items = 1..n
        BY DEF IsWalk
      <4>2. i \in DOMAIN E /\ j \in DOMAIN E /\ i - 1 \in 1..n /\ j - 1 \in 1..n
        BY <1>10
      <4>3. QED
        BY <1>2, <4>1, <4>2
    <3>2. items[i - 1].parent = items[j - 1].parent /\ items[i - 1].name = items[j - 1].name
      BY <1>3, <1>10, <2>1
    <3>3. i - 1 = j - 1
      <4> DEFINE a == i - 1
                 b == j - 1
      <4>1. a \in DOMAIN items /\ b \in DOMAIN items
            /\ items[a].parent = items[b].parent /\ items[a].name = items[b].name
        BY <3>1, <3>2
      <4> HIDE DEF a, b
      <4>2. a = b
        BY <4>1 DEF IsWalk, IsInjective
      <4>3. QED
        BY <4>2 DEF a, b
    <3>4. QED
      BY <3>1, <3>3
  <2>2. QED
    BY <2>1 DEF IsInjective
<1>13. LayoutOk(E, h.data_size)
  BY ScannedLayout
<1>14. QED
  BY <1>5, <1>6, <1>7, <1>8, <1>9, <1>11, <1>12, <1>13 DEF validate_index

(***************************************************************************)
(* An accepted index is a tree, and its files tile the data region.        *)
(***************************************************************************)

Good == index \in Seq(Entry) /\ validate_index(Platform, header, index) /\ header.data_size \in Nat

(* The entries: ids and siblings' names are unique, parents are one level  *)
(* higher, and only the root is at depth 0.                                *)
EntriesOk ==
  /\ \A e \in Range(index) : e \in Entry /\ EntryOk(Platform, e)
  /\ \A d, e \in Range(index) : d.id = e.id => d = e
  /\ \E e \in Range(index) : e.id = 1
  /\ \A e \in Range(index) : e.id = 1 => e.depth = 0 /\ e.parent_id = 1 /\ e.kind = "Directory" /\ e.name = Root.name
  /\ \A e \in Range(index) : e.id # 1 =>
       \E p \in Range(index) : p.id = e.parent_id /\ p.kind = "Directory" /\ p.depth + 1 = e.depth
  /\ \A d, e \in Range(index) :
       d.id # 1 /\ e.id # 1 /\ d.parent_id = e.parent_id /\ d.name = e.name => d = e

(* What validate_index has checked, entry by entry and pair by pair.        *)
LEMMA GoodEntries ==
  ASSUME Good
  PROVE  EntriesOk
<1>1. Range(index) = {index[i] : i \in DOMAIN index}
  BY DEF Range
<1>2. \A i \in DOMAIN index : index[i] \in Entry
  <2>1. index \in Seq(Entry)
    BY DEF Good
  <2> HIDE DEF Entry
  <2>2. QED
    BY <2>1
<1>3. /\ \A i \in DOMAIN index : EntryOk(Platform, index[i])
      /\ IsInjective([i \in DOMAIN index |-> index[i].id])
      /\ \E i \in DOMAIN index : index[i].id = 1
      /\ \A i \in Below(index) : LinkOk(index[i], index)
      /\ IsInjective([i \in Below(index) |-> <<index[i].parent_id, index[i].name>>])
  BY DEF Good, validate_index
<1>4. \A e \in Range(index) : e \in Entry /\ EntryOk(Platform, e)
  BY <1>1, <1>2, <1>3
<1>5. \A d, e \in Range(index) : d.id = e.id => d = e
  BY <1>1, <1>3 DEF IsInjective
<1>6. \E e \in Range(index) : e.id = 1
  BY <1>1, <1>3
<1>7. \A e \in Range(index) : e.id = 1 => e.depth = 0 /\ e.parent_id = 1 /\ e.kind = "Directory" /\ e.name = Root.name
  BY <1>4 DEF EntryOk, RootOk
<1>8. \A e \in Range(index) : e.id # 1 => LinkOk(e, index)
  BY <1>1, <1>3 DEF Below
<1>9. ASSUME NEW d \in Range(index), NEW e \in Range(index),
             d.id # 1, e.id # 1, d.parent_id = e.parent_id, d.name = e.name
      PROVE  d = e
  <2>1. PICK i \in DOMAIN index, j \in DOMAIN index : d = index[i] /\ e = index[j]
    BY <1>1
  <2>2. i \in Below(index) /\ j \in Below(index)
    BY <1>9, <2>1 DEF Below
  <2>3. \A a, b \in Below(index) :
          <<index[a].parent_id, index[a].name>> = <<index[b].parent_id, index[b].name>> => a = b
    BY <1>3 DEF IsInjective
  <2>4. i = j
    BY <1>9, <2>1, <2>2, <2>3
  <2>5. QED
    BY <2>1, <2>4
<1>10. QED
  BY <1>4, <1>5, <1>6, <1>7, <1>8, <1>9 DEF EntriesOk, LinkOk

(* Nodes and their entries. *)
LEMMA Nodes ==
  ASSUME EntriesOk
  PROVE  /\ \A e \in Range(index) : e.id \in NodeIds /\ Node(e.id) = e
         /\ \A id \in NodeIds : Node(id) \in Range(index) /\ Node(id).id = id
         /\ \A e \in Range(index) : e.depth \in 0..MAX_DEPTH /\ e.id \in Nat \ {0} /\ e.name \in Names
         /\ \A e \in Range(index) : (e.id = 1 <=> e.depth = 0)
         /\ \A e \in Range(index) : e.id # 1 =>
              e.parent_id \in NodeIds /\ Node(e.parent_id).depth + 1 = e.depth
         /\ 1 \in NodeIds
<1>1. \A e \in Range(index) : e.depth \in 0..MAX_DEPTH /\ e.id \in Nat \ {0} /\ e.name \in Names
  BY IndexAssumption DEF EntriesOk, Entry, EntryOk
<1>2. ASSUME NEW e \in Range(index)
      PROVE  e.id \in NodeIds /\ Node(e.id) = e
  BY DEF NodeIds, Node, EntriesOk
<1>3. ASSUME NEW id \in NodeIds
      PROVE  Node(id) \in Range(index) /\ Node(id).id = id
  BY DEF NodeIds, Node, EntriesOk
<1>4. ASSUME NEW e \in Range(index), e.id # 1
      PROVE  /\ e.depth # 0 /\ e.parent_id \in NodeIds /\ Node(e.parent_id).depth + 1 = e.depth
  <2>1. PICK p \in Range(index) : p.id = e.parent_id /\ p.depth + 1 = e.depth
    BY <1>4 DEF EntriesOk
  <2>2. Node(e.parent_id) = p /\ e.parent_id \in NodeIds
    BY <1>2, <2>1
  <2>3. p.depth \in Nat /\ p.depth + 1 # 0
    BY <1>1
  <2>4. QED
    BY <2>1, <2>2, <2>3
<1>5. \A e \in Range(index) : (e.id = 1 <=> e.depth = 0)
  BY <1>4 DEF EntriesOk
<1>6. 1 \in NodeIds
  BY DEF EntriesOk, NodeIds
<1>7. QED
  BY <1>1, <1>2, <1>3, <1>4, <1>5, <1>6

(* What is reached from the root in so many steps is what lies so deep.    *)
ReachedIn ==
  CHOOSE Reached : Reached = [d \in 0..MAX_DEPTH |->
    IF d = 0 THEN {1}
    ELSE Reached[d - 1] \cup {e.id : e \in UNION {Children(id) : id \in Reached[d - 1]}}]

(* All nodes of depth at most d are reached from the root in d levels, by   *)
(* induction on d.                                                          *)
LEMMA ReachedLevels ==
  ASSUME EntriesOk
  PROVE  ReachedIn[MAX_DEPTH] = NodeIds
<1> DEFINE A == SUBSET NodeIds
           Grown(S) == S \cup {e.id : e \in UNION {Children(id) : id \in S}}
           step == [d \in 1..MAX_DEPTH |-> [S \in A |-> Grown(S)]]
           Level(d) == {e.id : e \in {x \in Range(index) : x.depth <= d}}
<1>1. MAX_DEPTH \in Nat
  BY IndexAssumption
<1>2. ASSUME NEW S \in A
      PROVE  Grown(S) \in A
  BY DEF Children, NodeIds
<1>3. {1} \in A
  BY Nodes
<1>4. step \in [1..MAX_DEPTH -> [A -> A]]
  <2> HIDE DEF Grown, A
  <2>1. QED
    BY <1>2
<1>5. PICK f \in [0..MAX_DEPTH -> A] : Recursive(f, MAX_DEPTH, {1}, step)
  <2> HIDE DEF step, A
  <2>1. QED
    BY <1>1, <1>3, <1>4, Recursion
<1>6. ASSUME NEW d \in 0..MAX_DEPTH
      PROVE  f[d] = IF d = 0 THEN {1} ELSE Grown(f[d - 1])
  <2>1. f[d] = IF d = 0 THEN {1} ELSE step[d][f[d - 1]]
    <3> HIDE DEF step, A
    <3>1. QED
      BY <1>5 DEF Recursive
  <2>2. CASE d # 0
    <3>1. d \in 1..MAX_DEPTH /\ d - 1 \in 0..MAX_DEPTH
      BY <1>1, <2>2
    <3>2. f[d - 1] \in A
      <4> HIDE DEF A
      <4>1. QED
        BY <3>1
    <3>3. step[d][f[d - 1]] = Grown(f[d - 1])
      <4> HIDE DEF A, Grown
      <4>1. QED
        BY <3>1, <3>2
    <3>4. QED
      BY <2>1, <2>2, <3>3
  <2>3. QED
    BY <2>1, <2>2
<1>7. f = [d \in 0..MAX_DEPTH |-> IF d = 0 THEN {1} ELSE Grown(f[d - 1])]
  <2>1. f = [d \in 0..MAX_DEPTH |-> f[d]]
    OBVIOUS
  <2> HIDE DEF Grown
  <2>2. QED
    BY <1>6, <2>1
<1>8. PICK R : R = ReachedIn
  OBVIOUS
<1>9. R = [d \in 0..MAX_DEPTH |-> IF d = 0 THEN {1} ELSE Grown(R[d - 1])]
  BY <1>7, <1>8 DEF ReachedIn
<1> DEFINE T == {d \in 0..MAX_DEPTH : R[d] = Level(d)}
<1>10. 0 \in T
  <2>1. 0 \in 0..MAX_DEPTH /\ R[0] = {1}
    BY <1>1, <1>9
  <2>2. \A e \in Range(index) : e.depth <= 0 <=> e.id = 1
    BY Nodes
  <2>3. \E e \in Range(index) : e.id = 1
    BY DEF EntriesOk
  <2>4. Level(0) = {1}
    BY <2>2, <2>3
  <2>5. QED
    BY <2>1, <2>4
<1>11. ASSUME NEW d \in 0..(MAX_DEPTH - 1), d \in T
       PROVE  d + 1 \in T
  <2>1. d + 1 \in 0..MAX_DEPTH /\ d + 1 # 0 /\ (d + 1) - 1 = d /\ d \in Nat
    BY <1>1
  <2>2. R[d + 1] = Grown(Level(d))
    <3>1. R[d + 1] = Grown(R[(d + 1) - 1])
      <4> HIDE DEF Grown
      <4>1. QED
        BY <1>9, <2>1
    <3>2. QED
      BY <1>11, <2>1, <3>1
  <2>3. ASSUME NEW e \in Range(index), e.depth <= d + 1
        PROVE  e.id \in Grown(Level(d))
    <3>1. CASE e.id = 1
      <4>1. e.depth <= d
        BY <2>1, <3>1, Nodes
      <4>2. QED
        BY <4>1
    <3>2. CASE e.id # 1
      <4> DEFINE p == Node(e.parent_id)
      <4>1. p \in Range(index) /\ p.id = e.parent_id /\ p.depth + 1 = e.depth
        BY <3>2, Nodes
      <4>2. p.depth <= d
        BY <2>1, <2>3, <4>1, Nodes
      <4>3. p.id \in Level(d)
        BY <4>1, <4>2
      <4>4. e \in Children(p.id)
        BY <3>2, <4>1 DEF Children
      <4>5. QED
        BY <4>3, <4>4
    <3>3. QED
      BY <3>1, <3>2
  <2>4. ASSUME NEW i \in Grown(Level(d))
        PROVE  i \in Level(d + 1)
    <3>1. CASE i \in Level(d)
      <4>1. \A x \in Range(index) : x.depth <= d => x.depth <= d + 1
        BY <2>1, Nodes
      <4>2. QED
        BY <3>1, <4>1
    <3>2. CASE i \notin Level(d)
      <4>1. PICK j \in Level(d), e \in Range(index) : e \in Children(j) /\ i = e.id
        BY <2>4, <3>2 DEF Children
      <4>2. PICK x \in Range(index) : x.id = j /\ x.depth <= d
        BY <4>1
      <4>3. e \in Range(index) /\ e.id # 1 /\ e.parent_id = j
        BY <4>1 DEF Children
      <4>4. Node(j) = x /\ Node(j).depth + 1 = e.depth
        BY <4>2, <4>3, Nodes
      <4>5. e.depth <= d + 1
        BY <2>1, <4>2, <4>4, Nodes
      <4>6. QED
        BY <4>1, <4>3, <4>5
    <3>3. QED
      BY <3>1, <3>2
  <2>5. Level(d + 1) \subseteq Grown(Level(d))
    <3> HIDE DEF Grown
    <3>1. QED
      BY <2>3
  <2>6. R[d + 1] = Level(d + 1)
    <3> HIDE DEF Grown, Level
    <3>1. QED
      BY <2>2, <2>4, <2>5
  <2>7. QED
    BY <2>1, <2>6
<1>12. MAX_DEPTH \in T
  <2>1. MAX_DEPTH \in 0..MAX_DEPTH
    BY <1>1
  <2> HIDE DEF T
  <2>2. QED
    BY <1>1, <1>10, <1>11, <2>1, Induct
<1>13. Level(MAX_DEPTH) = NodeIds
  <2>1. \A e \in Range(index) : e.depth <= MAX_DEPTH
    BY <1>1, Nodes
  <2>2. QED
    BY <2>1 DEF NodeIds
<1>14. QED
  BY <1>8, <1>12, <1>13

(* Every node once. *)
LEMMA NodeCount ==
  ASSUME index \in Seq(Entry), IsInjective([i \in DOMAIN index |-> index[i].id])
  PROVE  Cardinality(NodeIds) = Len(index) /\ IsFiniteSet(NodeIds)
<1> DEFINE n == Len(index)
           f == [i \in 1..n |-> index[i].id]
<1>1. n \in Nat /\ DOMAIN index = 1..n
  OBVIOUS
<1>2. f \in Surjection(1..n, NodeIds)
  <2>1. NodeIds = {index[i].id : i \in 1..n}
    BY <1>1 DEF NodeIds, Range
  <2>2. QED
    BY <2>1 DEF Surjection
<1>3. IsInjective(f)
  BY <1>1
<1>4. f \in Bijection(1..n, NodeIds)
  BY <1>2, <1>3 DEF Bijection, Injection, Surjection
<1>5. IsFiniteSet(1..n) /\ Cardinality(1..n) = n
  <2>1. 1 \in Int /\ n \in Int
    BY <1>1
  <2>2. IsFiniteSet(1..n) /\ Cardinality(1..n) = IF 1 > n THEN 0 ELSE n - 1 + 1
    <3> HIDE DEF n
    <3>1. QED
      BY <2>1, FS_Interval
  <2>3. QED
    BY <1>1, <2>2
<1>6. ExistsBijection(1..n, NodeIds)
  BY <1>4 DEF ExistsBijection
<1>7. QED
  <2> HIDE DEF n, f
  <2>1. IsFiniteSet(NodeIds) /\ Cardinality(NodeIds) = Cardinality(1..n)
    BY <1>5, <1>6, FS_Bijection
  <2>2. QED
    BY <1>5, <2>1 DEF n

(* Ends that only grow leave no gap. *)
Growing(en, N) ==
  /\ N \in Nat /\ en \in [0..N -> Nat] /\ en[0] = 0
  /\ \A k \in 1..N : en[k - 1] <= en[k]

(* Intervals that begin where the one before ends cover everything up to the*)
(* last end.                                                                *)
LEMMA Tiles ==
  ASSUME NEW N, NEW en, Growing(en, N)
  PROVE  /\ \A k, l \in 0..N : k <= l => en[k] <= en[l]
         /\ \A y \in 1..en[N] : \E k \in 1..N : y \in (en[k - 1] + 1)..en[k]
<1>1. N \in Nat /\ en \in [0..N -> Nat] /\ en[0] = 0 /\ \A k \in 1..N : en[k - 1] <= en[k]
  BY DEF Growing
<1>2. ASSUME NEW k \in 0..N
      PROVE  \A l \in 0..N : k <= l => en[k] <= en[l]
  <2> DEFINE T == {l \in 0..N : k <= l => en[k] <= en[l]}
  <2>1. 0 \in T
    BY <1>1
  <2>2. ASSUME NEW l \in 0..(N - 1), l \in T
        PROVE  l + 1 \in T
    <3>1. l + 1 \in 1..N /\ l + 1 \in 0..N /\ (l + 1) - 1 = l /\ l \in 0..N
      BY <1>1
    <3>2. en[l] <= en[l + 1] /\ en[l] \in Nat /\ en[l + 1] \in Nat /\ en[k] \in Nat
      BY <1>1, <3>1
    <3>3. k <= l + 1 => k = l + 1 \/ k <= l
      BY <1>1
    <3>4. k <= l => en[k] <= en[l]
      BY <2>2
    <3>5. k <= l + 1 => en[k] <= en[l + 1]
      BY <3>2, <3>3, <3>4
    <3>6. QED
      BY <3>1, <3>5
  <2>3. \A l \in 0..N : l \in T
    <3> HIDE DEF T
    <3>1. QED
      BY <1>1, <2>1, <2>2, Induct
  <2>4. QED
    BY <2>3
<1>3. ASSUME NEW y \in 1..en[N]
      PROVE  \E k \in 1..N : y \in (en[k - 1] + 1)..en[k]
  <2> DEFINE S == {k \in 0..N : y <= en[k]}
  <2>1. N \in S /\ S \in SUBSET Nat
    BY <1>1
  <2>2. PICK k \in S : \A m \in S : k <= m
    <3> HIDE DEF S
    <3>1. QED
      BY <2>1, Least1
  <2>3. k # 0
    BY <1>1, <2>2
  <2>4. k \in 1..N /\ k - 1 \in 0..N /\ ~(k <= k - 1)
    BY <1>1, <2>2, <2>3
  <2>5. ~(y <= en[k - 1])
    BY <2>2, <2>4
  <2>6. en[k - 1] \in Nat /\ en[k] \in Nat /\ y \in Nat /\ y <= en[k]
    BY <1>1, <2>2, <2>4
  <2>7. y \in (en[k - 1] + 1)..en[k]
    BY <2>5, <2>6
  <2>8. QED
    BY <2>4, <2>7
<1>4. QED
  BY <1>2, <1>3

(* The records of the files, in the order of their offsets. *)
BytesOf(e) == (e.data_offset + 1)..(e.data_offset + e.encrypted_size)

(* The files' records cover the data region, and no two of them overlap.    *)
LEMMA FilesTile ==
  ASSUME Good
  PROVE  LET files == {e \in Range(index) : e.kind = "File"}
         IN  /\ UNION {BytesOf(e) : e \in files} = 1..header.data_size
             /\ \A e, f \in files : e.id # f.id => BytesOf(e) \cap BytesOf(f) = {}
<1> DEFINE s == Sorted(index)
           N == Cardinality(FilesOf(index))
           End(k) == IF k = 0 THEN 0 ELSE index[s[k]].data_offset + index[s[k]].encrypted_size
           en == [k \in 0..N |-> End(k)]
           files == {e \in Range(index) : e.kind = "File"}
<1>1. index \in Seq(Entry) /\ LayoutOk(index, header.data_size) /\ header.data_size \in Nat
  BY DEF Good, validate_index
<1>2. SortedFiles(s, N, index)
  BY <1>1, SortedLists
<1>3. DOMAIN s = 1..N /\ Len(s) = N /\ N \in Nat
  <2> HIDE DEF s, N
  <2>1. QED
    BY <1>2 DEF SortedFiles
<1>4. /\ \A k \in 1..N : index[s[k]].data_offset = End(k - 1)
      /\ End(N) = header.data_size
  <2>1. /\ \A k \in DOMAIN s : index[s[k]].data_offset = End(k - 1)
        /\ End(Len(s)) = header.data_size
    BY <1>1 DEF LayoutOk
  <2> HIDE DEF s, N, End
  <2>2. QED
    BY <1>3, <2>1
<1> HIDE DEF s, N
<1>5. ASSUME NEW i \in DOMAIN index
      PROVE  index[i].data_offset \in Nat /\ index[i].encrypted_size \in Nat
  <2>1. index[i] \in Entry
    <3> HIDE DEF Entry
    <3>1. QED
      BY <1>1, <1>5
  <2>2. QED
    BY <2>1 DEF Entry
<1>6. ASSUME NEW k \in 1..N
      PROVE  /\ s[k] \in FilesOf(index) /\ s[k] \in DOMAIN index /\ index[s[k]] \in files
             /\ index[s[k]].data_offset \in Nat /\ index[s[k]].encrypted_size \in Nat
             /\ End(k) = index[s[k]].data_offset + index[s[k]].encrypted_size
  <2>1. s[k] \in FilesOf(index)
    BY <1>2 DEF SortedFiles
  <2>2. s[k] \in DOMAIN index /\ index[s[k]] \in files
    BY <2>1 DEF FilesOf, Range
  <2>3. QED
    BY <1>3, <1>5, <2>1, <2>2
<1>7. Growing(en, N)
  <2>1. \A k \in 0..N : End(k) \in Nat
    BY <1>3, <1>6
  <2>2. ASSUME NEW k \in 1..N
        PROVE  k - 1 \in 0..N /\ k \in 0..N /\ End(k - 1) <= End(k)
    <3>1. k - 1 \in 0..N /\ k \in 0..N
      BY <1>3
    <3>2. PICK o \in Nat, z \in Nat : End(k - 1) = o /\ End(k) = o + z
      <4> HIDE DEF End
      <4>1. QED
        BY <1>4, <1>6
    <3>3. QED
      <4> HIDE DEF End
      <4>1. QED
        BY <3>1, <3>2
  <2>3. End(0) = 0 /\ 0 \in 0..N
    BY <1>3
  <2> HIDE DEF End
  <2>4. QED
    BY <1>3, <2>1, <2>2, <2>3 DEF Growing
<1>8. ASSUME NEW k \in 1..N
      PROVE  BytesOf(index[s[k]]) = (en[k - 1] + 1)..en[k]
  <2>1. k \in 0..N /\ k - 1 \in 0..N
    BY <1>3
  <2>2. en[k] = End(k) /\ en[k - 1] = End(k - 1)
    <3> HIDE DEF End
    <3>1. QED
      BY <2>1
  <2> HIDE DEF End, en
  <2>3. QED
    BY <1>4, <1>6, <2>2 DEF BytesOf
<1>9. ASSUME NEW e \in files
      PROVE  \E k \in 1..N : e = index[s[k]]
  <2>1. PICK i \in DOMAIN index : e = index[i]
    BY DEF Range
  <2>2. i \in FilesOf(index)
    BY <2>1 DEF FilesOf
  <2>3. QED
    BY <1>2, <2>1, <2>2 DEF SortedFiles
<1>10. en[N] = header.data_size /\ en \in [0..N -> Nat] /\ en[0] = 0
  <2>1. N \in 0..N
    BY <1>3
  <2>2. en[N] = End(N)
    <3> HIDE DEF End
    <3>1. QED
      BY <2>1
  <2> HIDE DEF End, en
  <2>3. QED
    BY <1>4, <1>7, <2>2 DEF Growing
<1> HIDE DEF en, End, files
<1>11. \A k, l \in 0..N : k <= l => en[k] <= en[l]
  BY <1>7, Tiles
<1>12. \A y \in 1..en[N] : \E k \in 1..N : y \in (en[k - 1] + 1)..en[k]
  BY <1>7, Tiles
<1>13. ASSUME NEW y \in 1..header.data_size
       PROVE  \E e \in files : y \in BytesOf(e)
  <2>1. PICK k \in 1..N : y \in (en[k - 1] + 1)..en[k]
    BY <1>10, <1>12
  <2>2. QED
    BY <1>6, <1>8, <2>1
<1>14. ASSUME NEW e \in files, NEW y \in BytesOf(e)
       PROVE  y \in 1..header.data_size
  <2>1. PICK k \in 1..N : e = index[s[k]]
    BY <1>9
  <2>2. y \in (en[k - 1] + 1)..en[k]
    BY <1>8, <2>1
  <2>3. k \in 0..N /\ k - 1 \in 0..N /\ N \in 0..N /\ k <= N
    BY <1>3
  <2>4. en[k] <= en[N] /\ en[k] \in Nat /\ en[k - 1] \in Nat /\ en[N] \in Nat
    BY <1>10, <1>11, <2>3
  <2>5. QED
    BY <1>10, <2>2, <2>4
<1>15. ASSUME NEW k \in 1..N, NEW l \in 1..N, k < l
       PROVE  BytesOf(index[s[k]]) \cap BytesOf(index[s[l]]) = {}
  <2>1. k \in 0..N /\ l - 1 \in 0..N /\ k <= l - 1 /\ l \in 0..N /\ k - 1 \in 0..N
    BY <1>3, <1>15
  <2>2. en[k] <= en[l - 1] /\ en[k] \in Nat /\ en[l - 1] \in Nat /\ en[l] \in Nat /\ en[k - 1] \in Nat
    BY <1>10, <1>11, <2>1
  <2>3. PICK a, b, c, d : a = en[k - 1] /\ b = en[k] /\ c = en[l - 1] /\ d = en[l]
    OBVIOUS
  <2>4. ((a + 1)..b) \cap ((c + 1)..d) = {}
    BY <2>2, <2>3
  <2>5. QED
    BY <1>8, <2>3, <2>4
<1>16. ASSUME NEW e \in files, NEW f \in files, e.id # f.id
       PROVE  BytesOf(e) \cap BytesOf(f) = {}
  <2>1. PICK k \in 1..N : e = index[s[k]]
    BY <1>9
  <2>2. PICK l \in 1..N : f = index[s[l]]
    BY <1>9
  <2>3. k < l \/ l < k
    BY <1>3, <1>16, <2>1, <2>2
  <2>4. QED
    BY <1>15, <2>1, <2>2, <2>3
<1>17. UNION {BytesOf(e) : e \in files} = 1..header.data_size
  BY <1>13, <1>14
<1>18. QED
  BY <1>16, <1>17 DEF files

(* OpenedIsSound, of a volume that is open on a good index. *)
LEMMA GoodIsSound ==
  ASSUME Good
  PROVE  OpenedIsSound
<1>1. EntriesOk
  BY GoodEntries
<1>2. ReachedIn[MAX_DEPTH] = NodeIds
  BY <1>1, ReachedLevels
<1>3. Cardinality(NodeIds) = Len(index)
  BY NodeCount DEF Good, validate_index
<1>4. ASSUME NEW d \in Range(index), NEW e \in Range(index), d.id # e.id
      PROVE  d.parent_id # e.parent_id \/ d.name # e.name
  <2>1. \A x \in Range(index) : x.id # 1 => x.name # Root.name
    <3>1. \A x \in Range(index) : x.id # 1 => validate_name(Platform, x.name)
      BY <1>1 DEF EntriesOk, EntryOk
    <3>2. ~validate_name(Platform, Root.name)
      <4>1. Root.name[1] \in Special
        BY DEF Root, Special
      <4>2. Root.name[3] = <<>>
        BY DEF Root
      <4>3. QED
        BY <4>1, <4>2 DEF validate_name
    <3>3. QED
      BY <3>1, <3>2
  <2>2. QED
    BY <1>1, <1>4, <2>1 DEF EntriesOk
<1>5. LET files == {e \in Range(index) : e.kind = "File"}
      IN  /\ UNION {BytesOf(e) : e \in files} = 1..header.data_size
          /\ \A e, f \in files : e.id # f.id => BytesOf(e) \cap BytesOf(f) = {}
  BY FilesTile
<1>6. ASSUME NEW e \in Range(index), e.kind = "File"
      PROVE  /\ e.chunk_count * CHUNK_SIZE >= e.size
             /\ e.encrypted_size = e.size + e.chunk_count * TAG_SIZE
  <2>1. FileOk(e) /\ e.size \in Nat
    BY <1>1, <1>6 DEF EntriesOk, EntryOk, Entry
  <2>2. /\ e.chunk_count = encrypted_file_size(e.size).chunks
        /\ e.encrypted_size = encrypted_file_size(e.size).encrypted
    BY <2>1 DEF FileOk
  <2>3. QED
    BY <2>1, <2>2, EncryptedSize
<1>7. QED
  BY <1>2, <1>3, <1>4, <1>5, <1>6 DEF OpenedIsSound, ReachedIn, BytesOf

(***************************************************************************)
(* The names of a directory are told apart by Windows.                     *)
(***************************************************************************)

SuffixLists == Seq(Nat \X Nat)
Ordinals == Range(Stems) \X SuffixLists

(* The stems, spelled out.                                                  *)
LEMMA StemsOf ==
  /\ Range(Stems) = {"", "..", "a", "con", "con.x", "q", "q/", "q:", "q?", "q_", "t", "t."}
  /\ \A x \in Range(Stems) : Cleaned(x) \in Range(Stems) /\ Rank(x) \in Nat
<1>1. Range(Stems) = {"", "..", "a", "con", "con.x", "q", "q/", "q:", "q?", "q_", "t", "t."}
  <2>1. DOMAIN Stems = 1..12
    BY DEF Stems
  <2>2. 1..12 = {1, 2, 3, 4, 5, 6, 7, 8, 9, 10, 11, 12}
    OBVIOUS
  <2>3. /\ Stems[1] = "" /\ Stems[2] = ".." /\ Stems[3] = "a" /\ Stems[4] = "con" /\ Stems[5] = "con.x"
        /\ Stems[6] = "q" /\ Stems[7] = "q/" /\ Stems[8] = "q:" /\ Stems[9] = "q?"
        /\ Stems[10] = "q_" /\ Stems[11] = "t" /\ Stems[12] = "t."
    BY DEF Stems
  <2>4. Range(Stems) = {Stems[x] : x \in {1, 2, 3, 4, 5, 6, 7, 8, 9, 10, 11, 12}}
    BY <2>1, <2>2 DEF Range
  <2>5. \A x \in Range(Stems) : x \in {"", "..", "a", "con", "con.x", "q", "q/", "q:", "q?", "q_", "t", "t."}
    <3>1. PICK e : e = ""
      OBVIOUS
    <3>2. Stems[1] = e
      BY <2>3, <3>1
    <3>3. \A x \in Range(Stems) : x \in {e, "..", "a", "con", "con.x", "q", "q/", "q:", "q?", "q_", "t", "t."}
      <4>1. /\ Stems[2] = ".." /\ Stems[3] = "a" /\ Stems[4] = "con" /\ Stems[5] = "con.x"
            /\ Stems[6] = "q" /\ Stems[7] = "q/" /\ Stems[8] = "q:" /\ Stems[9] = "q?"
            /\ Stems[10] = "q_" /\ Stems[11] = "t" /\ Stems[12] = "t."
        BY <2>3
      <4>2. QED
        BY <2>4, <3>2, <4>1
    <3>4. QED
      BY <3>1, <3>3
  <2>6. \A x \in {"", "..", "a", "con", "con.x", "q", "q/", "q:", "q?", "q_", "t", "t."} : x \in Range(Stems)
    <3>1. PICK e : e = ""
      OBVIOUS
    <3>2. Stems[1] = e
      BY <2>3, <3>1
    <3>3. \A x \in {e, "..", "a", "con", "con.x", "q", "q/", "q:", "q?", "q_", "t", "t."} : x \in Range(Stems)
      <4>1. \A i \in 1..12 : Stems[i] \in Range(Stems)
        BY <2>1 DEF Range
      <4>2. /\ Stems[2] = ".." /\ Stems[3] = "a" /\ Stems[4] = "con" /\ Stems[5] = "con.x"
            /\ Stems[6] = "q" /\ Stems[7] = "q/" /\ Stems[8] = "q:" /\ Stems[9] = "q?"
            /\ Stems[10] = "q_" /\ Stems[11] = "t" /\ Stems[12] = "t."
        BY <2>3
      <4> HIDE DEF Stems
      <4>3. QED
        BY <3>2, <4>1, <4>2
    <3>4. QED
      BY <3>1, <3>3
  <2>7. QED
    BY <2>5, <2>6
<1>2. \A x \in Range(Stems) : Cleaned(x) \in Range(Stems)
  BY <1>1 DEF Cleaned, Invalid, Trailing
<1>3. \A x \in Range(Stems) : Rank(x) \in Nat
  <2>1. DOMAIN Stems \subseteq Nat
    BY DEF Stems
  <2>2. \A x \in Range(Stems) : Rank(x) \in DOMAIN Stems
    BY DEF Rank, Range
  <2>3. QED
    BY <2>1, <2>2
<1>4. QED
  BY <1>1, <1>2, <1>3

(* A name and its ordinal key have the parts they should have.              *)
LEMMA NameParts ==
  ASSUME NEW m \in Names
  PROVE  m[1] \in Range(Stems) /\ m[2] \in Nat /\ m[3] \in SuffixLists /\ OrdinalName(m) \in Ordinals
  BY DEF Names, SuffixLists, Ordinals, OrdinalName

(* A generated name is the cleaned stem with one more suffix, which tells   *)
(* the id and the attempt.                                                  *)
LEMMA MappedName ==
  ASSUME NEW m \in Names, NEW id \in Nat, NEW a \in Nat
  PROVE  /\ mapped_name(m, id, a) \in Names
         /\ OrdinalName(mapped_name(m, id, a)) = <<Cleaned(m[1]), Append(m[3], <<id, a>>)>>
<1>1. Append(m[3], <<id, a>>) \in SuffixLists
  <2>1. <<id, a>> \in Nat \X Nat
    OBVIOUS
  <2>2. QED
    BY <2>1, NameParts DEF SuffixLists
<1>2. QED
  BY <1>1, NameParts, StemsOf DEF mapped_name, Names, OrdinalName, SuffixLists

(* There is always a free attempt, and the name made up is not in use.     *)
LEMMA FreeNameIsFree ==
  ASSUME NEW used, IsFiniteSet(used), NEW node, node.name \in Names, node.id \in Nat
  PROVE  FreeName(node, used) \in Names /\ OrdinalName(FreeName(node, used)) \notin used
<1> DEFINE N == Cardinality(used)
           O(a) == OrdinalName(mapped_name(node.name, node.id, a))
           f == [a \in 0..N |-> O(a)]
           Free == {a \in 0..N : O(a) \notin used}
<1>1. N \in Nat
  BY FS_CardinalityType
<1>2. ASSUME NEW a \in 0..N, NEW b \in 0..N, O(a) = O(b)
      PROVE  a = b
  <2>1. a \in Nat /\ b \in Nat
    BY <1>1
  <2> DEFINE s == node.name[3]
  <2>2. s \in Seq(Nat \X Nat)
    BY NameParts DEF SuffixLists
  <2>3. O(a) = <<Cleaned(node.name[1]), Append(s, <<node.id, a>>)>>
    BY <2>1, MappedName
  <2>4. O(b) = <<Cleaned(node.name[1]), Append(s, <<node.id, b>>)>>
    BY <2>1, MappedName
  <2> HIDE DEF s, O
  <2>5. Append(s, <<node.id, a>>) = Append(s, <<node.id, b>>)
    <3>1. PICK c, u, v : c = Cleaned(node.name[1]) /\ u = Append(s, <<node.id, a>>) /\ v = Append(s, <<node.id, b>>)
      OBVIOUS
    <3>2. <<c, u>> = <<c, v>>
      BY <1>2, <2>3, <2>4, <3>1
    <3>3. u = v
      BY <3>2
    <3>4. QED
      BY <3>1, <3>3
  <2>6. <<node.id, a>> \in Nat \X Nat /\ <<node.id, b>> \in Nat \X Nat
    BY <2>1
  <2>7. /\ Append(s, <<node.id, a>>)[Len(s) + 1] = <<node.id, a>>
        /\ Append(s, <<node.id, b>>)[Len(s) + 1] = <<node.id, b>>
    BY <2>2, <2>6
  <2>8. <<node.id, a>> = <<node.id, b>>
    BY <2>5, <2>7
  <2>9. QED
    BY <2>8
<1>3. Free # {}
  <2>1. SUFFICES ASSUME \A a \in 0..N : O(a) \in used PROVE FALSE
    OBVIOUS
  <2>2. f \in [0..N -> used]
    <3> HIDE DEF O
    <3>1. QED
      BY <2>1
  <2>3. IsFiniteSet(0..N) /\ Cardinality(0..N) = N + 1
    <3>1. 0 \in Int /\ N \in Int
      BY <1>1
    <3>2. IsFiniteSet(0..N) /\ Cardinality(0..N) = IF 0 > N THEN 0 ELSE N - 0 + 1
      <4> HIDE DEF N
      <4>1. QED
        BY <3>1, FS_Interval
    <3>3. QED
      BY <1>1, <3>2
  <2>4. \E a, b \in 0..N : a # b /\ f[a] = f[b]
    <3>1. Cardinality(used) < Cardinality(0..N)
      BY <1>1, <2>3
    <3> HIDE DEF f, N
    <3>2. QED
      BY <2>2, <2>3, <3>1, FS_PigeonHole
  <2>5. QED
    <3> HIDE DEF O
    <3>1. QED
      BY <1>2, <2>4
<1>4. Free \in SUBSET Nat
  BY <1>1
<1>5. PICK a \in Free : \A b \in Free : a <= b
  <2> HIDE DEF Free
  <2>1. QED
    BY <1>3, <1>4, Least1
<1>6. a \in 0..N /\ O(a) \notin used /\ \A b \in 0..(a - 1) : O(b) \in used
  <2>1. a \in 0..N /\ O(a) \notin used
    OBVIOUS
  <2>2. ASSUME NEW b \in 0..(a - 1)
        PROVE  O(b) \in used
    <3>1. b \in 0..N /\ ~(a <= b)
      BY <1>1, <2>1
    <3> HIDE DEF O
    <3>2. QED
      BY <1>5, <3>1
  <2>3. QED
    BY <2>1, <2>2
<1> DEFINE c == CHOOSE x \in 0..Cardinality(used) :
                  /\ OrdinalName(mapped_name(node.name, node.id, x)) \notin used
                  /\ \A y \in 0..(x - 1) : OrdinalName(mapped_name(node.name, node.id, y)) \in used
<1>7. c \in 0..N /\ O(c) \notin used
  BY <1>6
<1>8. FreeName(node, used) = mapped_name(node.name, node.id, c)
  BY DEF FreeName
<1>9. c \in Nat
  BY <1>1, <1>7
<1> HIDE DEF c
<1>10. QED
  BY <1>7, <1>8, <1>9, MappedName

(* Nodes that are told apart by their ids. *)
Family(S) ==
  /\ IsFiniteSet(S)
  /\ \A n \in S : n.id \in Nat /\ n.name \in Names
  /\ \A m, n \in S : m.id = n.id => m = n

Ids(S) == {n.id : n \in S}

(* OwnNames gives every sibling its own name.                               *)
LEMMA OwnNamesAre ==
  ASSUME NEW S, Family(S)
  PROVE  OwnNames(S) \in [Ids(S) -> Names] /\ \A n \in S : OwnNames(S)[n.id] = n.name
<1>1. ASSUME NEW n \in S
      PROVE  (CHOOSE m \in S : m.id = n.id) = n /\ n.name \in Names
  BY DEF Family
<1>2. ASSUME NEW n \in S
      PROVE  OwnNames(S)[n.id] = n.name
  BY <1>1 DEF OwnNames
<1>3. DOMAIN OwnNames(S) = Ids(S) /\ OwnNames(S) = [i \in Ids(S) |-> OwnNames(S)[i]]
  BY DEF OwnNames, Ids
<1>4. \A i \in Ids(S) : OwnNames(S)[i] \in Names
  BY <1>1, <1>2 DEF Ids
<1>5. QED
  BY <1>2, <1>3, <1>4

(* The fold of DisplayNames, opened. *)
KeptOf(S) == {n \in S : Kept(n, S)}
RestOf(S) == InOrder(S \ KeptOf(S), ById(S))
NameStep(acc, n) ==
  LET name == FreeName(n, acc.used)
  IN  [used |-> acc.used \cup {OrdinalName(name)}, names |-> [acc.names EXCEPT ![n.id] = name]]
NameBase(S) == [used |-> UsedByKept(KeptOf(S)), names |-> OwnNames(S)]
NameFold(S) ==
  CHOOSE g : g = [s \in SUBSET DOMAIN RestOf(S) |->
                    IF s = {} THEN NameBase(S) ELSE NameStep(g[s \ {Max(s)}], RestOf(S)[Max(s)])]
Named(S, k) == NameFold(S)[1..k]

(* DisplayNames folds Name over the siblings that cannot keep their names.  *)
LEMMA DisplayIsFold ==
  ASSUME NEW S
  PROVE  DisplayNames(S) = NameFold(S)[DOMAIN RestOf(S)].names
  BY DEF DisplayNames, NameFold, FoldLeft, MapThenFoldSet, NameStep, NameBase, RestOf, KeptOf

(* Who is renamed, in the order of the ids. *)
LEMMA RestIs ==
  ASSUME NEW S, Family(S)
  PROVE  /\ Cardinality(S \ KeptOf(S)) \in Nat
         /\ RestOf(S) \in [1..Cardinality(S \ KeptOf(S)) -> S \ KeptOf(S)]
         /\ \A i, j \in 1..Cardinality(S \ KeptOf(S)) : RestOf(S)[i] = RestOf(S)[j] => i = j
         /\ \A n \in S \ KeptOf(S) : \E i \in 1..Cardinality(S \ KeptOf(S)) : RestOf(S)[i] = n
<1> DEFINE R == S \ KeptOf(S)
<1>1. IsFiniteSet(R)
  BY FS_Subset DEF Family
<1>2. \A m, n \in R : <<m, n>> \in ById(S) <=> m.id < n.id
  BY DEF ById
<1>3. \A m \in R : m.id \in Nat
  BY DEF Family
<1>4. \A m, n \in R : m.id = n.id => m = n
  BY DEF Family
<1>5. StrictOrder(R, ById(S))
  <2> HIDE DEF R
  <2>1. \A x \in R : <<x, x>> \notin ById(S)
    BY <1>2, <1>3
  <2>2. \A x, y \in R : x # y => <<x, y>> \in ById(S) \/ <<y, x>> \in ById(S)
    BY <1>2, <1>3, <1>4
  <2>3. \A x, y, z \in R : <<x, y>> \in ById(S) /\ <<y, z>> \in ById(S) => <<x, z>> \in ById(S)
    BY <1>2, <1>3
  <2>4. QED
    BY <2>1, <2>2, <2>3 DEF StrictOrder
<1>6. RestOf(S) = InOrder(R, ById(S))
  BY DEF RestOf
<1> HIDE DEF R
<1>7. /\ Cardinality(R) \in Nat
      /\ Sorts(RestOf(S), Cardinality(R), R, ById(S))
      /\ \A i, j \in 1..Cardinality(R) : RestOf(S)[i] = RestOf(S)[j] => i = j
      /\ \A n \in R : \E i \in 1..Cardinality(R) : RestOf(S)[i] = n
  BY <1>1, <1>5, <1>6, InOrderSorts
<1>8. QED
  BY <1>7 DEF R, Sorts

(* What the fold carries. *)
Acc(S) == [used : {u \in SUBSET Ordinals : IsFiniteSet(u)}, names : [Ids(S) -> Names]]

(* A step of that fold gives a name that no sibling has yet.                *)
LEMMA NameStepIn ==
  ASSUME NEW S, Family(S), NEW acc \in Acc(S), NEW n \in S
  PROVE  /\ NameStep(acc, n) \in Acc(S)
         /\ FreeName(n, acc.used) \in Names /\ OrdinalName(FreeName(n, acc.used)) \notin acc.used
<1>1. IsFiniteSet(acc.used) /\ acc.used \in SUBSET Ordinals /\ acc.names \in [Ids(S) -> Names]
  BY DEF Acc
<1>2. n.id \in Nat /\ n.name \in Names /\ n.id \in Ids(S)
  BY DEF Family, Ids
<1> DEFINE name == FreeName(n, acc.used)
<1>3. name \in Names /\ OrdinalName(name) \notin acc.used
  BY <1>1, <1>2, FreeNameIsFree
<1> HIDE DEF name
<1>4. OrdinalName(name) \in Ordinals
  BY <1>3, NameParts
<1>5. IsFiniteSet(acc.used \cup {OrdinalName(name)}) /\ acc.used \cup {OrdinalName(name)} \in SUBSET Ordinals
  BY <1>1, <1>4, FS_AddElement
<1>6. [acc.names EXCEPT ![n.id] = name] \in [Ids(S) -> Names]
  BY <1>1, <1>3
<1>7. NameStep(acc, n) = [used |-> acc.used \cup {OrdinalName(name)},
                          names |-> [acc.names EXCEPT ![n.id] = name]]
  BY DEF NameStep, name
<1>8. NameStep(acc, n) \in Acc(S)
  BY <1>5, <1>6, <1>7 DEF Acc
<1>9. QED
  BY <1>3, <1>8 DEF name

(* The fold begins with the names that are kept.                            *)
LEMMA NameBaseIn ==
  ASSUME NEW S, Family(S)
  PROVE  NameBase(S) \in Acc(S)
<1> DEFINE K == KeptOf(S)
           u == UsedByKept(K)
<1>1. IsFiniteSet(K) /\ K \subseteq S
  BY FS_Subset DEF Family, KeptOf
<1>2. u \in SUBSET Ordinals
  BY <1>1, NameParts DEF UsedByKept, Family
<1>3. IsFiniteSet(u)
  <2> DEFINE f == [n \in K |-> OrdinalName(n.name)]
  <2>1. f \in Surjection(K, u)
    BY DEF Surjection, UsedByKept
  <2>2. QED
    <3> HIDE DEF f, K, u
    <3>1. QED
      BY <1>1, <2>1, FS_Surjection
<1>4. OwnNames(S) \in [Ids(S) -> Names]
  BY OwnNamesAre
<1> HIDE DEF u
<1>5. [used |-> u, names |-> OwnNames(S)] \in Acc(S)
  BY <1>2, <1>3, <1>4 DEF Acc
<1>6. QED
  BY <1>5 DEF NameBase, u

(* Name by name. *)
LEMMA NamedSteps ==
  ASSUME NEW S, Family(S), NEW N, N = Cardinality(S \ KeptOf(S))
  PROVE  /\ DisplayNames(S) = Named(S, N).names
         /\ Named(S, 0) = NameBase(S)
         /\ \A k \in 1..N : Named(S, k) = NameStep(Named(S, k - 1), RestOf(S)[k])
         /\ \A k \in 0..N : Named(S, k) \in Acc(S)
<1> DEFINE R == RestOf(S)
           A == Acc(S)
           base == NameBase(S)
           step == [k \in 1..N |-> [a \in A |-> NameStep(a, R[k])]]
           Is(g) == g = [s \in SUBSET DOMAIN R |->
                           IF s = {} THEN base ELSE NameStep(g[s \ {Max(s)}], R[Max(s)])]
<1>1. N \in Nat /\ DOMAIN R = 1..N /\ \A k \in 1..N : R[k] \in S
  BY RestIs
<1>2. base \in A
  BY NameBaseIn
<1>3. step \in [1..N -> [A -> A]]
  <2>1. \A k \in 1..N : \A a \in A : NameStep(a, R[k]) \in A
    BY <1>1, NameStepIn
  <2> HIDE DEF A, R
  <2>2. QED
    BY <2>1
<1>4. ASSUME NEW k \in 1..N, NEW a \in A
      PROVE  step[k][a] = NameStep(a, R[k])
  <2> HIDE DEF A, R
  <2>1. QED
    OBVIOUS
<1>5. ASSUME NEW s \in SUBSET (1..N), s # {}
      PROVE  Max(s) \in 1..N /\ s \ {Max(s)} \in SUBSET (1..N)
  <2>1. Max(s) \in s
    BY <1>1, <1>5, MaxMember
  <2>2. QED
    BY <2>1
<1> HIDE DEF step, A, base, R
<1>6. \E g : Is(g)
  <2>1. PICK g \in [SUBSET (1..N) -> A] : Folding(g, N, base, step)
    BY <1>1, <1>2, <1>3, FoldRecursion
  <2>2. g = [s \in SUBSET (1..N) |-> IF s = {} THEN base ELSE step[Max(s)][g[s \ {Max(s)}]]]
    BY <2>1 DEF Folding
  <2>3. ASSUME NEW s \in SUBSET (1..N)
        PROVE  g[s] = IF s = {} THEN base ELSE NameStep(g[s \ {Max(s)}], R[Max(s)])
    <3>1. CASE s = {}
      BY <2>2, <3>1
    <3>2. CASE s # {}
      <4>1. g[s] = step[Max(s)][g[s \ {Max(s)}]]
        BY <2>2, <3>2
      <4>2. g[s \ {Max(s)}] \in A
        BY <1>5, <2>2, <3>2
      <4>3. QED
        BY <1>4, <1>5, <3>2, <4>1, <4>2
    <3>3. QED
      BY <3>1, <3>2
  <2>4. g = [s \in SUBSET (1..N) |-> g[s]]
    BY <2>2
  <2>5. Is(g)
    BY <1>1, <2>3, <2>4
  <2>6. QED
    BY <2>5
<1>7. PICK h : h = NameFold(S)
  OBVIOUS
<1>8. h = [s \in SUBSET (1..N) |-> IF s = {} THEN base ELSE NameStep(h[s \ {Max(s)}], R[Max(s)])]
  <2>1. Is(NameFold(S))
    BY <1>6 DEF NameFold, R, base
  <2>2. QED
    BY <1>1, <1>7, <2>1
<1>9. h[{}] = base
  BY <1>8
<1>10. ASSUME NEW s \in SUBSET (1..N), s # {}, h[s \ {Max(s)}] \in A
       PROVE  h[s] = step[Max(s)][h[s \ {Max(s)}]]
  <2>1. h[s] = NameStep(h[s \ {Max(s)}], R[Max(s)])
    BY <1>8, <1>10
  <2>2. QED
    BY <1>4, <1>5, <1>10, <2>1
<1>11. /\ h[1..0] = base
       /\ \A k \in 1..N : h[1..k] = step[k][h[1..(k - 1)]]
       /\ \A k \in 0..N : h[1..k] \in A
  <2>1. FoldsIn(h, N, A, base, step)
    BY <1>9, <1>10 DEF FoldsIn
  <2>2. StepByStep(h, N, A, base, step)
    BY <1>1, <1>2, <1>3, <2>1, FoldSteps
  <2>3. QED
    BY <2>2 DEF StepByStep
<1>12. ASSUME NEW k \in 1..N
       PROVE  h[1..k] = NameStep(h[1..(k - 1)], R[k])
  <2>1. k - 1 \in 0..N
    BY <1>1
  <2>2. h[1..(k - 1)] \in A
    BY <1>11, <2>1
  <2>3. QED
    BY <1>4, <1>11, <2>2
<1>13. DisplayNames(S) = h[1..N].names
  BY <1>1, <1>7, DisplayIsFold DEF R
<1>14. QED
  BY <1>7, <1>11, <1>12, <1>13 DEF Named, base, A, R

(* After k names: those kept and those made up so far are in use, and no   *)
(* two of them are the same.                                               *)
NamedApart(S, k) ==
  LET O(n) == OrdinalName(Named(S, k).names[n.id])
      R == RestOf(S)
  IN  /\ UsedByKept(KeptOf(S)) \subseteq Named(S, k).used
      /\ \A n \in KeptOf(S) : Named(S, k).names[n.id] = n.name
      /\ \A i \in 1..k : O(R[i]) \in Named(S, k).used /\ O(R[i]) \notin UsedByKept(KeptOf(S))
      /\ \A i, j \in 1..k : O(R[i]) = O(R[j]) => i = j

(* After n steps the kept names and the n generated ones are pairwise       *)
(* different, by induction on n.                                            *)
LEMMA NamedApartHolds ==
  ASSUME NEW S, Family(S), NEW N, N = Cardinality(S \ KeptOf(S))
  PROVE  NamedApart(S, N)
<1> DEFINE R == RestOf(S)
           K == KeptOf(S)
           T == {k \in 0..N : NamedApart(S, k)}
<1>1. /\ N \in Nat
      /\ \A k \in 1..N : R[k] \in S /\ R[k] \notin K
      /\ \A i, j \in 1..N : R[i] = R[j] => i = j
  BY RestIs
<1>2. /\ Named(S, 0) = NameBase(S)
      /\ \A k \in 1..N : Named(S, k) = NameStep(Named(S, k - 1), R[k])
      /\ \A k \in 0..N : Named(S, k) \in Acc(S)
  BY NamedSteps
<1>3. K \subseteq S /\ \A m, n \in S : m.id = n.id => m = n
  BY DEF KeptOf, Family
<1>4. 0 \in T
  <2>1. Named(S, 0).used = UsedByKept(K) /\ Named(S, 0).names = OwnNames(S)
    BY <1>2 DEF NameBase
  <2>2. \A n \in K : OwnNames(S)[n.id] = n.name
    BY <1>3, OwnNamesAre
  <2>3. \A i \in 1..0 : FALSE
    OBVIOUS
  <2>4. NamedApart(S, 0)
    BY <2>1, <2>2, <2>3 DEF NamedApart
  <2>5. 0 \in 0..N
    BY <1>1
  <2>6. QED
    BY <2>4, <2>5
<1>5. ASSUME NEW k \in 0..(N - 1), k \in T
      PROVE  k + 1 \in T
  <2>1. k + 1 \in 1..N /\ (k + 1) - 1 = k /\ k + 1 \in 0..N /\ k \in 0..N
    BY <1>1
  <2> DEFINE a == Named(S, k)
             b == Named(S, k + 1)
             r == R[k + 1]
             name == FreeName(r, a.used)
  <2>2. NamedApart(S, k)
    BY <1>5
  <2>3. a \in Acc(S) /\ b = NameStep(a, r) /\ r \in S /\ r \notin K
    <3>1. b = NameStep(Named(S, (k + 1) - 1), R[k + 1])
      BY <1>2, <2>1
    <3>2. QED
      BY <1>1, <1>2, <2>1, <3>1
  <2>4. OrdinalName(name) \notin a.used
    BY <2>3, NameStepIn
  <2>5. b.used = a.used \cup {OrdinalName(name)} /\ b.names = [a.names EXCEPT ![r.id] = name]
    BY <2>3 DEF NameStep
  <2>6. a.names \in [Ids(S) -> Names] /\ r.id \in Ids(S)
    BY <2>3 DEF Acc, Ids
  <2> HIDE DEF name, b
  <2>7. b.names[r.id] = name
    BY <2>5, <2>6
  <2>8. ASSUME NEW n \in S, n # r
        PROVE  b.names[n.id] = a.names[n.id]
    <3>1. n.id # r.id
      BY <1>3, <2>3, <2>8
    <3>2. QED
      BY <2>5, <2>6, <3>1
  <2> HIDE DEF a
  <2> DEFINE Oa(n) == OrdinalName(a.names[n.id])
             Ob(n) == OrdinalName(b.names[n.id])
             U == UsedByKept(K)
  <2>9. /\ U \subseteq a.used
        /\ \A n \in K : a.names[n.id] = n.name
        /\ \A i \in 1..k : Oa(R[i]) \in a.used /\ Oa(R[i]) \notin U
        /\ \A i, j \in 1..k : Oa(R[i]) = Oa(R[j]) => i = j
    BY <2>2 DEF NamedApart, a
  <2>10. ASSUME NEW i \in 1..k
         PROVE  Ob(R[i]) = Oa(R[i]) /\ i # k + 1
    <3>1. i \in 1..N /\ i # k + 1
      BY <1>1, <2>1
    <3>2. R[i] \in S /\ R[i] # r
      BY <1>1, <2>1, <3>1
    <3>3. QED
      BY <2>8, <3>1, <3>2
  <2>11. Ob(r) = OrdinalName(name)
    BY <2>7
  <2>12. \A n \in K : b.names[n.id] = n.name
    BY <1>3, <2>3, <2>8, <2>9
  <2>13. ASSUME NEW i \in 1..(k + 1)
         PROVE  i = k + 1 \/ i \in 1..k
    BY <2>1
  <2> HIDE DEF Oa, Ob, U, R, K
  <2>14. U \subseteq b.used
    BY <2>5, <2>9
  <2>15. ASSUME NEW i \in 1..(k + 1)
         PROVE  Ob(R[i]) \in b.used /\ Ob(R[i]) \notin U
    <3>1. CASE i = k + 1
      BY <2>4, <2>5, <2>9, <2>11, <3>1
    <3>2. CASE i \in 1..k
      BY <2>5, <2>9, <2>10, <3>2
    <3>3. QED
      BY <2>13, <3>1, <3>2
  <2>16. ASSUME NEW i \in 1..(k + 1), NEW j \in 1..(k + 1), Ob(R[i]) = Ob(R[j])
         PROVE  i = j
    <3>1. CASE i \in 1..k /\ j \in 1..k
      BY <2>9, <2>10, <2>16, <3>1
    <3>2. CASE i = k + 1 /\ j \in 1..k
      <4>1. Ob(R[j]) \in a.used /\ Ob(R[i]) \notin a.used
        BY <2>4, <2>9, <2>10, <2>11, <3>2
      <4>2. QED
        BY <2>16, <4>1
    <3>3. CASE j = k + 1 /\ i \in 1..k
      <4>1. Ob(R[i]) \in a.used /\ Ob(R[j]) \notin a.used
        BY <2>4, <2>9, <2>10, <2>11, <3>3
      <4>2. QED
        BY <2>16, <4>1
    <3>4. QED
      BY <2>13, <3>1, <3>2, <3>3
  <2>17. NamedApart(S, k + 1)
    BY <2>12, <2>14, <2>15, <2>16 DEF NamedApart, b, Ob, U, R, K
  <2>18. QED
    BY <2>1, <2>17
<1>6. \A k \in 0..N : k \in T
  <2> HIDE DEF T
  <2>1. QED
    BY <1>1, <1>4, <1>5, Induct
<1>7. N \in 0..N
  BY <1>1
<1>8. QED
  BY <1>6, <1>7

(* No two names of a directory are equivalent. *)
LEMMA DisplayNamesDiffer ==
  ASSUME NEW S, Family(S)
  PROVE  /\ DisplayNames(S) \in [Ids(S) -> Names]
         /\ \A m, n \in S : equivalent(DisplayNames(S)[m.id], DisplayNames(S)[n.id]) => m = n
<1> DEFINE N == Cardinality(S \ KeptOf(S))
           K == KeptOf(S)
           R == RestOf(S)
           d == DisplayNames(S)
           O(n) == OrdinalName(d[n.id])
           U == UsedByKept(K)
<1>1. d = Named(S, N).names /\ \A k \in 0..N : Named(S, k) \in Acc(S)
  BY NamedSteps
<1>2. /\ N \in Nat
      /\ \A n \in S \ K : \E i \in 1..N : R[i] = n
  BY RestIs
<1>3. NamedApart(S, N)
  BY NamedApartHolds
<1>4. d \in [Ids(S) -> Names]
  <2>1. N \in 0..N
    BY <1>2
  <2> HIDE DEF N, d
  <2>2. QED
    BY <1>1, <2>1 DEF Acc
<1>5. /\ \A n \in K : d[n.id] = n.name
      /\ \A i \in 1..N : O(R[i]) \notin U
      /\ \A i, j \in 1..N : O(R[i]) = O(R[j]) => i = j
  BY <1>1, <1>3 DEF NamedApart
<1>6. ASSUME NEW n \in K
      PROVE  O(n) = OrdinalName(n.name) /\ O(n) \in U /\ ~Collides(n, S) /\ n \in S
  <2>1. O(n) = OrdinalName(n.name)
    BY <1>5
  <2>2. O(n) \in U
    BY <2>1 DEF UsedByKept
  <2>3. QED
    BY <2>1, <2>2 DEF KeptOf, Kept
<1> HIDE DEF d, O, N, K, R, U
<1>7. ASSUME NEW m \in S, NEW n \in S, O(m) = O(n)
      PROVE  m = n
  <2>1. CASE m \in K /\ n \in K
    <3>1. equivalent(n.name, m.name)
      BY <1>6, <1>7, <2>1 DEF equivalent
    <3>2. n.id = m.id
      BY <1>6, <2>1, <3>1 DEF Collides
    <3>3. QED
      BY <3>2 DEF Family
  <2>2. CASE m \in K /\ n \notin K
    BY <1>2, <1>5, <1>6, <1>7, <2>2
  <2>3. CASE m \notin K /\ n \in K
    BY <1>2, <1>5, <1>6, <1>7, <2>3
  <2>4. CASE m \notin K /\ n \notin K
    BY <1>2, <1>5, <1>7, <2>4
  <2>5. QED
    BY <2>1, <2>2, <2>3, <2>4
<1>8. QED
  BY <1>4, <1>7 DEF equivalent, d, O

(***************************************************************************)
(* Paths lead back.                                                        *)
(***************************************************************************)

(* A finite set of naturals has a largest member. *)
LEMMA MaxFinite ==
  ASSUME NEW S \in SUBSET Nat, IsFiniteSet(S), S # {}
  PROVE  Max(S) \in S /\ \A y \in S : Max(S) >= y
<1> DEFINE before == {p \in S \X S : p[1] < p[2]}
<1>1. \A x, y \in S : <<x, y>> \in before <=> x < y
  OBVIOUS
<1> HIDE DEF before
<1>2. StrictOrder(S, before)
  <2>1. \A x \in S : <<x, x>> \notin before
    BY <1>1
  <2>2. \A x, y \in S : x # y => <<x, y>> \in before \/ <<y, x>> \in before
    BY <1>1
  <2>3. \A x, y, z \in S : <<x, y>> \in before /\ <<y, z>> \in before => <<x, z>> \in before
    BY <1>1
  <2>4. QED
    BY <2>1, <2>2, <2>3 DEF StrictOrder
<1>3. PICK m \in S : \A y \in S : y # m => <<y, m>> \in before
  <2>1. S \in SUBSET S
    OBVIOUS
  <2>2. HasLast(S, before)
    BY <1>2, <2>1, LastMember
  <2>3. QED
    BY <2>2 DEF HasLast
<1>4. ASSUME NEW y \in S
      PROVE  m >= y
  <2>1. m \in Nat /\ y \in Nat
    OBVIOUS
  <2>2. y = m \/ y < m
    BY <1>1, <1>3
  <2>3. QED
    BY <2>1, <2>2
<1>5. QED
  BY <1>4 DEF Max

(* Windows tells siblings apart by the names nm. *)
Apart(E, nm) ==
  \A d, e \in Range(E) :
    d.id # 1 /\ e.id # 1 /\ d.parent_id = e.parent_id /\ equivalent(nm[d.id], nm[e.id]) => d = e

(* What a component of a path is looked up with finds. *)
CanStep == adapter = "fuse" \/ (adapter = "winfsp" /\ Apart(index, names))

(* There are finitely many nodes.                                           *)
LEMMA NodesFinite ==
  ASSUME Good
  PROVE  IsFiniteSet(NodeIds) /\ IsFiniteSet(Range(index))
<1>1. IsFiniteSet(NodeIds)
  BY NodeCount DEF Good, validate_index
<1>2. IsFiniteSet(Range(index))
  <2> DEFINE f == [i \in 1..Len(index) |-> index[i]]
  <2>1. Len(index) \in Nat /\ DOMAIN index = 1..Len(index)
    BY DEF Good
  <2>2. f \in Surjection(1..Len(index), Range(index))
    BY <2>1 DEF Surjection, Range
  <2>3. IsFiniteSet(1..Len(index))
    <3>1. 1 \in Int /\ Len(index) \in Int
      BY <2>1
    <3>2. QED
      BY <3>1, FS_Interval
  <2> HIDE DEF f
  <2>4. QED
    BY <2>2, <2>3, FS_Surjection
<1>3. QED
  BY <1>1, <1>2

(* From the parent to the child, unless fuse is asked for another name.     *)
LEMMA StepFinds ==
  ASSUME EntriesOk, CanStep, NEW id \in NodeIds, id # 1,
         adapter = "fuse" => Node(id).name[1] \notin Slashed
  PROVE  Step(Node(id).parent_id, id) = id
<1> DEFINE e == Node(id)
           p == e.parent_id
<1>1. e \in Range(index) /\ e.id = id /\ id \in Nat
  BY Nodes
<1>2. e \in Children(p) /\ \A x \in Children(p) : x \in Range(index) /\ x.id # 1 /\ x.parent_id = p
  BY <1>1 DEF Children
<1> HIDE DEF e, p
<1>3. CASE adapter = "fuse"
  <2> DEFINE same == {x \in Children(p) : x.name = e.name}
  <2>1. same = {e}
    BY <1>1, <1>2 DEF EntriesOk
  <2>2. Step(p, id) = IF same = {} THEN 0 ELSE (CHOOSE x \in same : TRUE).id
    <3>1. Component(e.name) = e.name
      BY <1>3 DEF Component, e
    <3>2. QED
      BY <1>3, <3>1 DEF Step, e
  <2> HIDE DEF same
  <2>3. QED
    BY <1>1, <2>1, <2>2 DEF p, e
<1>4. CASE adapter = "winfsp" /\ Apart(index, names)
  <2> DEFINE hit == {x \in Children(p) : equivalent(names[x.id], names[id])}
  <2>1. hit = {e}
    <3>1. equivalent(names[e.id], names[id])
      BY <1>1 DEF equivalent
    <3>2. ASSUME NEW x \in hit
          PROVE  x = e
      BY <1>1, <1>2, <1>4 DEF Apart
    <3>3. QED
      BY <1>2, <3>1, <3>2
  <2>2. Step(p, id) = Max({0} \cup {n.id : n \in hit})
    BY <1>4 DEF Step, lookup
  <2> HIDE DEF hit
  <2>3. {0} \cup {n.id : n \in hit} = {0, id}
    BY <1>1, <2>1
  <2>4. Max({0, id}) = id
    <3>1. id \in {0, id} /\ \A y \in {0, id} : id >= y
      BY <1>1
    <3>2. \A x \in {0, id} : (\A y \in {0, id} : x >= y) => x = id
      BY <1>1
    <3>3. QED
      BY <3>1, <3>2 DEF Max
  <2>5. QED
    BY <2>2, <2>3, <2>4 DEF p, e
<1>5. QED
  BY <1>3, <1>4 DEF CanStep

(* Whatever is looked up, a node is found or none. *)
LEMMA StepIn ==
  ASSUME Good, EntriesOk, CanStep, NEW parent, NEW id
  PROVE  Step(parent, id) \in {0} \cup NodeIds
<1>1. CASE adapter = "fuse"
  <2> DEFINE same == {x \in Children(parent) : x.name = Component(Node(id).name)}
  <2>1. Step(parent, id) = IF same = {} THEN 0 ELSE (CHOOSE x \in same : TRUE).id
    BY <1>1 DEF Step
  <2>2. \A x \in same : x.id \in NodeIds
    BY DEF Children, NodeIds
  <2> HIDE DEF same
  <2>3. QED
    BY <2>1, <2>2
<1>2. CASE adapter = "winfsp"
  <2> DEFINE hit == {x \in Children(parent) : equivalent(names[x.id], names[id])}
             F == {0} \cup {n.id : n \in hit}
  <2>1. adapter # "fuse"
    BY <1>2
  <2>2. Step(parent, id) = Max(F)
    BY <2>1 DEF Step, lookup
  <2>3. F \subseteq {0} \cup NodeIds
    BY DEF Children, NodeIds
  <2>4. F \in SUBSET Nat /\ F # {}
    <3>1. \A x \in NodeIds : x \in Nat
      BY Nodes DEF NodeIds
    <3>2. 0 \in F
      OBVIOUS
    <3> HIDE DEF F
    <3>3. QED
      BY <2>3, <3>1, <3>2
  <2>5. IsFiniteSet(F)
    <3>1. IsFiniteSet(NodeIds \cup {0})
      BY NodesFinite, FS_AddElement
    <3>2. F \in SUBSET (NodeIds \cup {0})
      BY <2>3
    <3> HIDE DEF F
    <3>3. QED
      BY <3>1, <3>2, FS_Subset
  <2> HIDE DEF F
  <2>6. QED
    BY <2>2, <2>3, <2>4, <2>5, MaxFinite
<1>3. QED
  BY <1>1, <1>2 DEF CanStep

(* PathOf, opened: the nodes from one up to the root. *)
UpFrom(id) ==
  CHOOSE up : up = [k \in 0..Node(id).depth |-> IF k = 0 THEN id ELSE Node(up[k - 1]).parent_id]

(* The path of a node, read from the node upwards.                          *)
LEMMA PathIs ==
  ASSUME NEW id
  PROVE  PathOf(id) = [k \in 1..Node(id).depth |-> UpFrom(id)[Node(id).depth - k]]
  BY DEF PathOf, UpFrom

(* Going up from a node one comes to the root after as many steps as the    *)
(* node is deep.                                                            *)
LEMMA UpIs ==
  ASSUME EntriesOk, NEW id \in NodeIds, NEW n, n = Node(id).depth
  PROVE  /\ n \in Nat
         /\ UpFrom(id)[0] = id /\ UpFrom(id)[n] = 1
         /\ \A k \in 1..n : UpFrom(id)[k] = Node(UpFrom(id)[k - 1]).parent_id
         /\ \A k \in 0..n : UpFrom(id)[k] \in NodeIds /\ Node(UpFrom(id)[k]).depth + k = n
<1> DEFINE A == NodeIds
           step == [k \in 1..n |-> [x \in A |-> Node(x).parent_id]]
<1>1. n \in Nat
  BY Nodes
<1>2. ASSUME NEW x \in A
      PROVE  Node(x).parent_id \in A
  <2>1. Node(x) \in Range(index) /\ Node(x).id = x
    BY Nodes
  <2>2. CASE x = 1
    BY <2>1, <2>2, Nodes DEF EntriesOk
  <2>3. CASE x # 1
    BY <2>1, <2>3, Nodes
  <2>4. QED
    BY <2>2, <2>3
<1>3. step \in [1..n -> [A -> A]]
  BY <1>2
<1>4. PICK f \in [0..n -> A] : Recursive(f, n, id, step)
  <2> HIDE DEF step, A
  <2>1. id \in A
    BY DEF A
  <2>2. QED
    BY <1>1, <1>3, <2>1, Recursion
<1>5. f = [k \in 0..n |-> IF k = 0 THEN id ELSE Node(f[k - 1]).parent_id]
  <2>1. ASSUME NEW k \in 0..n
        PROVE  f[k] = IF k = 0 THEN id ELSE Node(f[k - 1]).parent_id
    <3>1. f[k] = IF k = 0 THEN id ELSE step[k][f[k - 1]]
      <4> HIDE DEF step, A
      <4>1. QED
        BY <1>4 DEF Recursive
    <3>2. CASE k # 0
      <4>1. k \in 1..n /\ k - 1 \in 0..n
        BY <1>1, <3>2
      <4>2. f[k - 1] \in A
        <5> HIDE DEF A
        <5>1. QED
          BY <4>1
      <4>3. step[k][f[k - 1]] = Node(f[k - 1]).parent_id
        <5> HIDE DEF A
        <5>1. QED
          BY <4>1, <4>2
      <4>4. QED
        BY <3>1, <3>2, <4>3
    <3>3. QED
      BY <3>1, <3>2
  <2>2. f = [k \in 0..n |-> f[k]]
    OBVIOUS
  <2>3. QED
    BY <2>1, <2>2
<1>6. PICK up : up = UpFrom(id)
  OBVIOUS
<1>7. up = [k \in 0..n |-> IF k = 0 THEN id ELSE Node(up[k - 1]).parent_id]
  BY <1>5, <1>6 DEF UpFrom
<1>8. up[0] = id /\ \A k \in 1..n : up[k] = Node(up[k - 1]).parent_id
  <2>1. 0 \in 0..n /\ \A k \in 1..n : k \in 0..n /\ k # 0
    BY <1>1
  <2>2. QED
    BY <1>7, <2>1
<1> DEFINE T == {k \in 0..n : up[k] \in NodeIds /\ Node(up[k]).depth + k = n}
<1>9. 0 \in T
  <2>1. 0 \in 0..n /\ n + 0 = n
    BY <1>1
  <2>2. QED
    BY <1>8, <2>1
<1>10. ASSUME NEW k \in 0..(n - 1), k \in T
       PROVE  k + 1 \in T
  <2>1. k + 1 \in 1..n /\ k + 1 \in 0..n /\ (k + 1) - 1 = k
    BY <1>1
  <2> DEFINE e == Node(up[k])
  <2>2. up[k] \in NodeIds /\ e.depth + k = n
    BY <1>10
  <2>3. e \in Range(index) /\ e.id = up[k] /\ e.depth \in Nat /\ e.depth # 0
    <3>1. e \in Range(index) /\ e.id = up[k]
      BY <2>2, Nodes
    <3>2. e.depth \in Nat
      BY <3>1, Nodes
    <3> HIDE DEF e
    <3>3. QED
      BY <1>1, <2>2, <3>1, <3>2
  <2>4. up[k + 1] = e.parent_id
    BY <1>8, <2>1
  <2>5. e.id # 1
    BY <2>3, Nodes
  <2>6. e.parent_id \in NodeIds /\ Node(e.parent_id).depth + 1 = e.depth
    BY <2>3, <2>5, Nodes
  <2>7. Node(e.parent_id).depth \in Nat
    BY <2>6, Nodes
  <2> HIDE DEF e
  <2>8. Node(up[k + 1]).depth + (k + 1) = n
    <3>1. PICK a \in Nat, d \in Nat : a = Node(e.parent_id).depth /\ d = e.depth
      BY <2>3, <2>7
    <3>2. a + 1 = d /\ d + k = n /\ k \in Nat
      BY <2>2, <2>6, <3>1
    <3>3. a + (k + 1) = n
      BY <1>1, <3>2
    <3>4. QED
      BY <2>4, <3>1, <3>3
  <2>9. QED
    BY <2>1, <2>4, <2>6, <2>8
<1>11. \A k \in 0..n : k \in T
  <2> HIDE DEF T
  <2>1. QED
    BY <1>1, <1>9, <1>10, Induct
<1>12. up[n] = 1
  <2>1. n \in T
    <3>1. n \in 0..n
      BY <1>1
    <3>2. QED
      BY <1>11, <3>1
  <2>2. up[n] \in NodeIds /\ Node(up[n]).depth + n = n
    BY <2>1
  <2>3. Node(up[n]) \in Range(index) /\ Node(up[n]).id = up[n] /\ Node(up[n]).depth \in Nat
    BY <2>2, Nodes
  <2>4. Node(up[n]).depth = 0
    BY <1>1, <2>2, <2>3
  <2>5. QED
    BY <2>3, <2>4, Nodes
<1>13. QED
  BY <1>1, <1>6, <1>8, <1>11, <1>12

(* Resolve, opened. *)
FindStep(at, id) == IF at = 0 THEN 0 ELSE Step(at, id)
ResolveFold(path) ==
  CHOOSE g : g = [s \in SUBSET DOMAIN path |->
                    IF s = {} THEN 1 ELSE FindStep(g[s \ {Max(s)}], path[Max(s)])]

(* resolve folds Step over the path.                                        *)
LEMMA ResolveIsFold ==
  ASSUME NEW path
  PROVE  Resolve(path) = ResolveFold(path)[DOMAIN path]
  BY DEF Resolve, ResolveFold, FindStep, FoldLeft, MapThenFoldSet

(* resolve takes the components of the path one by one.                     *)
LEMMA ResolveSteps ==
  ASSUME Good, EntriesOk, CanStep, NEW n \in Nat, NEW path, DOMAIN path = 1..n
  PROVE  /\ Resolve(path) = ResolveFold(path)[1..n]
         /\ ResolveFold(path)[1..0] = 1
         /\ \A k \in 1..n : ResolveFold(path)[1..k] = FindStep(ResolveFold(path)[1..(k - 1)], path[k])
         /\ Resolve(path) \in {0} \cup NodeIds
<1> DEFINE A == {0} \cup NodeIds
           step == [k \in 1..n |-> [a \in A |-> FindStep(a, path[k])]]
           Is(g) == g = [s \in SUBSET DOMAIN path |->
                           IF s = {} THEN 1 ELSE FindStep(g[s \ {Max(s)}], path[Max(s)])]
<1>1. 1 \in A
  BY Nodes
<1>2. step \in [1..n -> [A -> A]]
  <2>1. \A k \in 1..n : \A a \in A : FindStep(a, path[k]) \in A
    BY StepIn DEF FindStep
  <2> HIDE DEF A
  <2>2. QED
    BY <2>1
<1>3. ASSUME NEW k \in 1..n, NEW a \in A
      PROVE  step[k][a] = FindStep(a, path[k])
  <2> HIDE DEF A
  <2>1. QED
    OBVIOUS
<1>4. ASSUME NEW s \in SUBSET (1..n), s # {}
      PROVE  Max(s) \in 1..n /\ s \ {Max(s)} \in SUBSET (1..n)
  <2>1. Max(s) \in s
    BY <1>4, MaxMember
  <2>2. QED
    BY <2>1
<1> HIDE DEF step, A
<1>5. \E g : Is(g)
  <2>1. PICK g \in [SUBSET (1..n) -> A] : Folding(g, n, 1, step)
    BY <1>1, <1>2, FoldRecursion
  <2>2. g = [s \in SUBSET (1..n) |-> IF s = {} THEN 1 ELSE step[Max(s)][g[s \ {Max(s)}]]]
    BY <2>1 DEF Folding
  <2>3. ASSUME NEW s \in SUBSET (1..n)
        PROVE  g[s] = IF s = {} THEN 1 ELSE FindStep(g[s \ {Max(s)}], path[Max(s)])
    <3>1. CASE s = {}
      BY <2>2, <3>1
    <3>2. CASE s # {}
      <4>1. g[s] = step[Max(s)][g[s \ {Max(s)}]]
        BY <2>2, <3>2
      <4>2. g[s \ {Max(s)}] \in A
        BY <1>4, <2>1, <3>2
      <4>3. QED
        BY <1>3, <1>4, <3>2, <4>1, <4>2
    <3>3. QED
      BY <3>1, <3>2
  <2>4. g = [s \in SUBSET (1..n) |-> g[s]]
    BY <2>1
  <2>5. Is(g)
    BY <2>3, <2>4
  <2>6. QED
    BY <2>5
<1>6. PICK h : h = ResolveFold(path)
  OBVIOUS
<1>7. h = [s \in SUBSET (1..n) |-> IF s = {} THEN 1 ELSE FindStep(h[s \ {Max(s)}], path[Max(s)])]
  <2>1. Is(ResolveFold(path))
    BY <1>5 DEF ResolveFold
  <2>2. QED
    BY <1>6, <2>1
<1>8. FoldsIn(h, n, A, 1, step)
  <2>1. h[{}] = 1
    BY <1>7
  <2>2. ASSUME NEW s \in SUBSET (1..n), s # {}, h[s \ {Max(s)}] \in A
        PROVE  h[s] = step[Max(s)][h[s \ {Max(s)}]]
    <3>1. h[s] = FindStep(h[s \ {Max(s)}], path[Max(s)])
      BY <1>7, <2>2
    <3>2. QED
      BY <1>3, <1>4, <2>2, <3>1
  <2>3. QED
    BY <2>1, <2>2 DEF FoldsIn
<1>9. StepByStep(h, n, A, 1, step)
  BY <1>1, <1>2, <1>8, FoldSteps
<1>10. ASSUME NEW k \in 1..n
       PROVE  h[1..k] = FindStep(h[1..(k - 1)], path[k])
  <2>1. k - 1 \in 0..n
    OBVIOUS
  <2>2. h[1..(k - 1)] \in A
    BY <1>9, <2>1 DEF StepByStep
  <2>3. QED
    BY <1>3, <1>9, <2>2 DEF StepByStep
<1>11. h[1..0] = 1
  BY <1>9 DEF StepByStep
<1>12. h[1..n] \in {0} \cup NodeIds
  <2>1. n \in 0..n
    OBVIOUS
  <2>2. QED
    BY <1>9, <2>1 DEF StepByStep, A
<1>13. QED
  BY <1>6, <1>10, <1>11, <1>12, ResolveIsFold

(* A path leads to a node or to none. *)
LEMMA PathLeads ==
  ASSUME Good, CanStep, NEW id \in NodeIds
  PROVE  Resolve(PathOf(id)) \in {0} \cup NodeIds
<1>1. EntriesOk
  BY GoodEntries
<1>2. Node(id).depth \in Nat
  BY <1>1, UpIs
<1>3. DOMAIN PathOf(id) = 1..Node(id).depth
  BY PathIs
<1>4. QED
  BY <1>1, <1>2, <1>3, ResolveSteps

(* The path of a node of the entries E has a name that ends with a          *)
(* separator.                                                               *)
NodeOf(E, id) == CHOOSE e \in Range(E) : e.id = id
PathIn(E, id) ==
  LET depth == NodeOf(E, id).depth
      up[k \in 0..depth] == IF k = 0 THEN id ELSE NodeOf(E, up[k - 1]).parent_id
  IN  [k \in 1..depth |-> up[depth - k]]
Slashes(E, id) == \E k \in DOMAIN PathIn(E, id) : NodeOf(E, PathIn(E, id)[k]).name[1] \in Slashed

(* Slashes speaks of the path that the kernel opens.                        *)
LEMMA SlashesIs ==
  ASSUME NEW id
  PROVE  Slashes(index, id) <=>
           \E k \in DOMAIN PathOf(id) : Node(PathOf(id)[k]).name[1] \in Slashed
<1>1. PathIn(index, id) = PathOf(id)
  BY DEF PathIn, PathOf, NodeOf, Node
<1>2. QED
  BY <1>1 DEF Slashes, NodeOf, Node

(* No path has such a name where no entry has one.                          *)
LEMMA NoSlashes ==
  ASSUME EntriesOk, NEW id \in NodeIds, \A e \in Range(index) : e.name[1] \notin Slashed
  PROVE  ~Slashes(index, id)
<1> DEFINE n == Node(id).depth
           up == UpFrom(id)
<1>1. n \in Nat /\ \A k \in 0..n : up[k] \in NodeIds
  BY UpIs
<1>2. PathOf(id) = [k \in 1..n |-> up[n - k]]
  BY PathIs
<1> HIDE DEF n, up
<1>3. ASSUME NEW k \in DOMAIN PathOf(id)
      PROVE  Node(PathOf(id)[k]).name[1] \notin Slashed
  <2>1. k \in 1..n /\ n - k \in 0..n /\ PathOf(id)[k] = up[n - k]
    BY <1>1, <1>2
  <2>2. Node(PathOf(id)[k]) \in Range(index)
    BY <1>1, <2>1, Nodes
  <2>3. QED
    BY <2>2
<1>4. QED
  BY <1>3, SlashesIs

(* The path of a node leads back to it. *)
LEMMA PathLeadsBack ==
  ASSUME Good, CanStep, NEW id \in NodeIds, adapter = "fuse" => ~Slashes(index, id)
  PROVE  Resolve(PathOf(id)) = id
<1> DEFINE n == Node(id).depth
           path == PathOf(id)
           up == UpFrom(id)
           R(k) == ResolveFold(path)[1..k]
           T == {k \in 0..n : R(k) = up[n - k]}
<1>1. EntriesOk
  BY GoodEntries
<1>2. /\ n \in Nat
      /\ up[0] = id /\ up[n] = 1
      /\ \A k \in 1..n : up[k] = Node(up[k - 1]).parent_id
      /\ \A k \in 0..n : up[k] \in NodeIds /\ Node(up[k]).depth + k = n
  BY <1>1, UpIs
<1>3. path = [k \in 1..n |-> up[n - k]]
  BY PathIs
<1>3a. adapter = "fuse" => \A k \in DOMAIN path : Node(path[k]).name[1] \notin Slashed
  BY SlashesIs
<1> HIDE DEF up, n, path
<1>4. DOMAIN path = 1..n /\ \A k \in 1..n : path[k] = up[n - k]
  BY <1>3
<1>5. /\ Resolve(path) = R(n) /\ R(0) = 1
      /\ \A k \in 1..n : R(k) = FindStep(R(k - 1), path[k])
  BY <1>1, <1>2, <1>4, ResolveSteps
<1>6. 0 \in T
  <2>1. n - 0 = n /\ 0 \in 0..n
    BY <1>2
  <2>2. QED
    BY <1>2, <1>5, <2>1
<1>7. ASSUME NEW k \in 0..(n - 1), k \in T
      PROVE  k + 1 \in T
  <2>1. /\ k + 1 \in 1..n /\ k + 1 \in 0..n /\ (k + 1) - 1 = k
        /\ n - k \in 1..n /\ n - (k + 1) \in 0..n /\ (n - k) - 1 = n - (k + 1)
    BY <1>2
  <2> DEFINE j == n - (k + 1)
             x == up[j]
  <2>2. R(k + 1) = FindStep(R(k), path[k + 1])
    <3>1. R(k + 1) = FindStep(R((k + 1) - 1), path[k + 1])
      BY <1>5, <2>1
    <3>2. QED
      BY <2>1, <3>1
  <2>3. R(k) = up[n - k] /\ path[k + 1] = x
    BY <1>4, <1>7, <2>1
  <2>4. up[n - k] = Node(x).parent_id
    <3>1. up[n - k] = Node(up[(n - k) - 1]).parent_id
      BY <1>2, <2>1
    <3>2. QED
      BY <2>1, <3>1
  <2>5. x \in NodeIds /\ Node(x).depth + j = n
    BY <1>2, <2>1
  <2>6. x # 1
    <3>1. Node(x) \in Range(index) /\ Node(x).id = x /\ Node(x).depth \in Nat
      BY <1>1, <2>5, Nodes
    <3>2. Node(x).depth # 0
      <4>1. j \in 0..n /\ j # n
        BY <1>2, <2>1
      <4> HIDE DEF j, x
      <4>2. QED
        BY <1>2, <2>5, <4>1
    <3>3. QED
      BY <1>1, <3>1, <3>2, Nodes
  <2>7. up[n - k] # 0
    <3>1. up[n - k] \in NodeIds
      <4>1. n - k \in 0..n
        BY <1>2, <2>1
      <4>2. QED
        BY <1>2, <4>1
    <3>2. \A y \in NodeIds : y # 0
      BY <1>1, Nodes DEF NodeIds
    <3>3. QED
      BY <3>1, <3>2
  <2>8. Step(Node(x).parent_id, x) = x
    <3>1. adapter = "fuse" => Node(x).name[1] \notin Slashed
      BY <1>3a, <1>4, <2>1, <2>3
    <3>2. QED
      BY <1>1, <2>5, <2>6, <3>1, StepFinds
  <2>9. R(k + 1) = x
    <3> HIDE DEF R, x
    <3>1. QED
      BY <2>2, <2>3, <2>4, <2>7, <2>8 DEF FindStep
  <2>10. QED
    BY <2>1, <2>9
<1>8. \A k \in 0..n : k \in T
  <2> HIDE DEF T
  <2>1. QED
    BY <1>2, <1>6, <1>7, Induct
<1>9. n \in T /\ n - n = 0
  <2>1. n \in 0..n /\ n - n = 0
    BY <1>2
  <2>2. QED
    BY <1>8, <2>1
<1>10. QED
  BY <1>2, <1>5, <1>9 DEF path

(* Windows' names, once the map has been made. *)
Shown(E, nm) == \A e \in Range(E) : e.id # 1 => nm[e.id] \in Names

(* The children of a directory have different ids and names.                *)
LEMMA ChildrenFamily ==
  ASSUME Good, EntriesOk, NEW id
  PROVE  Family(Children(id))
<1>1. Children(id) \in SUBSET Range(index)
  BY DEF Children
<1>2. IsFiniteSet(Children(id))
  BY <1>1, NodesFinite, FS_Subset
<1>3. \A e \in Range(index) : e.id \in Nat /\ e.name \in Names
  BY Nodes
<1>4. QED
  BY <1>1, <1>2, <1>3 DEF Family, EntriesOk

(* WindowsNameMap gives the nodes of an accepted index names that lookup    *)
(* tells apart.                                                             *)
LEMMA NamesAreApart ==
  ASSUME Good
  PROVE  Apart(index, NameMap) /\ Shown(index, NameMap)
<1>1. EntriesOk
  BY GoodEntries
<1>2. ASSUME NEW e \in Range(index), e.id # 1
      PROVE  /\ NameMap[e.id] = DisplayNames(Children(e.parent_id))[e.id]
             /\ e \in Children(e.parent_id)
  <2>1. e.id \in NodeIds \ {1} /\ Node(e.id) = e
    BY <1>1, <1>2, Nodes
  <2>2. NameMap[e.id] = DisplayNames(Children(Node(e.id).parent_id))[e.id]
    BY <2>1 DEF NameMap
  <2>3. QED
    BY <1>2, <2>1, <2>2 DEF Children
<1>3. \A id : /\ DisplayNames(Children(id)) \in [Ids(Children(id)) -> Names]
              /\ \A m, n \in Children(id) :
                   equivalent(DisplayNames(Children(id))[m.id], DisplayNames(Children(id))[n.id]) => m = n
  BY <1>1, ChildrenFamily, DisplayNamesDiffer
<1>4. Apart(index, NameMap)
  BY <1>2, <1>3 DEF Apart
<1>5. ASSUME NEW e \in Range(index), e.id # 1
      PROVE  NameMap[e.id] \in Names
  <2>1. e.id \in Ids(Children(e.parent_id))
    BY <1>2, <1>5 DEF Ids
  <2>2. QED
    BY <1>2, <1>3, <1>5, <2>1
<1>6. QED
  BY <1>4, <1>5 DEF Shown

(***************************************************************************)
(* Listings.                                                               *)
(***************************************************************************)

(* The numbers that stand for the order of names. *)
CodeStep(acc, s) == acc * 100 + s[1] * 10 + s[2] + 1
CodeFold(suffixes) ==
  CHOOSE g : g = [s \in SUBSET DOMAIN suffixes |->
                    IF s = {} THEN 0 ELSE CodeStep(g[s \ {Max(s)}], suffixes[Max(s)])]

(* The number that stands for the order of suffixes, as a fold.             *)
LEMMA CodeIsFold ==
  ASSUME NEW suffixes
  PROVE  Code(suffixes) = CodeFold(suffixes)[DOMAIN suffixes]
  BY DEF Code, CodeFold, CodeStep, FoldLeft, MapThenFoldSet

(* That number is a natural.                                                *)
LEMMA CodeIn ==
  ASSUME NEW suffixes \in SuffixLists
  PROVE  Code(suffixes) \in Nat
<1> DEFINE n == Len(suffixes)
           step == [k \in 1..n |-> [a \in Nat |-> CodeStep(a, suffixes[k])]]
           Is(g) == g = [s \in SUBSET DOMAIN suffixes |->
                           IF s = {} THEN 0 ELSE CodeStep(g[s \ {Max(s)}], suffixes[Max(s)])]
<1>1. n \in Nat /\ DOMAIN suffixes = 1..n /\ \A k \in 1..n : suffixes[k] \in Nat \X Nat
  BY DEF SuffixLists
<1>2. step \in [1..n -> [Nat -> Nat]]
  <2>1. ASSUME NEW k \in 1..n, NEW a \in Nat
        PROVE  CodeStep(a, suffixes[k]) \in Nat
    <3>1. suffixes[k][1] \in Nat /\ suffixes[k][2] \in Nat
      BY <1>1
    <3>2. PICK u \in Nat, v \in Nat : u = suffixes[k][1] /\ v = suffixes[k][2]
      BY <3>1
    <3>3. a * 100 + u * 10 + v + 1 \in Nat
      OBVIOUS
    <3>4. QED
      BY <3>2, <3>3 DEF CodeStep
  <2> HIDE DEF n
  <2>2. QED
    BY <2>1
<1> HIDE DEF n
<1>3. ASSUME NEW k \in 1..n, NEW a \in Nat
      PROVE  step[k][a] = CodeStep(a, suffixes[k])
  OBVIOUS
<1>4. ASSUME NEW s \in SUBSET (1..n), s # {}
      PROVE  Max(s) \in 1..n /\ s \ {Max(s)} \in SUBSET (1..n)
  <2>1. Max(s) \in s
    BY <1>1, <1>4, MaxMember
  <2>2. QED
    BY <2>1
<1> HIDE DEF step
<1>5. \E g : Is(g)
  <2>1. PICK g \in [SUBSET (1..n) -> Nat] : Folding(g, n, 0, step)
    BY <1>1, <1>2, FoldRecursion
  <2>2. g = [s \in SUBSET (1..n) |-> IF s = {} THEN 0 ELSE step[Max(s)][g[s \ {Max(s)}]]]
    BY <2>1 DEF Folding
  <2>3. ASSUME NEW s \in SUBSET (1..n)
        PROVE  g[s] = IF s = {} THEN 0 ELSE CodeStep(g[s \ {Max(s)}], suffixes[Max(s)])
    <3>1. CASE s = {}
      BY <2>2, <3>1
    <3>2. CASE s # {}
      <4>1. g[s] = step[Max(s)][g[s \ {Max(s)}]]
        BY <2>2, <3>2
      <4>2. g[s \ {Max(s)}] \in Nat
        BY <1>4, <2>1, <3>2
      <4>3. QED
        BY <1>3, <1>4, <3>2, <4>1, <4>2
    <3>3. QED
      BY <3>1, <3>2
  <2>4. g = [s \in SUBSET (1..n) |-> g[s]]
    BY <2>1
  <2>5. Is(g)
    BY <1>1, <2>3, <2>4
  <2>6. QED
    BY <2>5
<1>6. PICK h : h = CodeFold(suffixes)
  OBVIOUS
<1>7. h = [s \in SUBSET (1..n) |-> IF s = {} THEN 0 ELSE CodeStep(h[s \ {Max(s)}], suffixes[Max(s)])]
  <2>1. Is(CodeFold(suffixes))
    BY <1>5 DEF CodeFold
  <2>2. QED
    BY <1>1, <1>6, <2>1
<1>8. FoldsIn(h, n, Nat, 0, step)
  <2>1. h[{}] = 0
    BY <1>7
  <2>2. ASSUME NEW s \in SUBSET (1..n), s # {}, h[s \ {Max(s)}] \in Nat
        PROVE  h[s] = step[Max(s)][h[s \ {Max(s)}]]
    <3>1. h[s] = CodeStep(h[s \ {Max(s)}], suffixes[Max(s)])
      BY <1>7, <2>2
    <3>2. QED
      BY <1>3, <1>4, <2>2, <3>1
  <2>3. QED
    BY <2>1, <2>2 DEF FoldsIn
<1>9. StepByStep(h, n, Nat, 0, step)
  BY <1>1, <1>2, <1>8, FoldSteps
<1>10. h[1..n] \in Nat
  <2>1. n \in 0..n
    BY <1>1
  <2>2. QED
    BY <1>9, <2>1 DEF StepByStep
<1>11. QED
  BY <1>1, <1>6, <1>10, CodeIsFold

(* Both orders of names are by naturals.                                    *)
LEMMA OrdersIn ==
  ASSUME NEW m \in Names
  PROVE  ByteOrder(m) \in Nat /\ compare_display_names(m) \in Nat
<1>1. Rank(m[1]) \in Nat /\ m[2] \in Nat /\ Code(m[3]) \in Nat
  BY NameParts, StemsOf, CodeIn
<1>2. QED
  BY <1>1 DEF ByteOrder, compare_display_names

(* The order of SortedIds. *)
Sooner(x, y, key) == key[x] < key[y] \/ (key[x] = key[y] /\ x.id < y.id)

(* To sort by a key, and by id where it is equal, is a strict order.        *)
LEMMA SoonerStrict ==
  ASSUME NEW S, Family(S), NEW key \in [S -> Nat], NEW before,
         \A x, y \in S : <<x, y>> \in before <=> Sooner(x, y, key)
  PROVE  StrictOrder(S, before)
<1>1. \A x \in S : x.id \in Nat /\ key[x] \in Nat
  BY DEF Family
<1>2. \A x \in S : ~Sooner(x, x, key)
  BY <1>1 DEF Sooner
<1>3. ASSUME NEW x \in S, NEW y \in S, x # y
      PROVE  Sooner(x, y, key) \/ Sooner(y, x, key)
  <2>1. x.id # y.id
    BY <1>3 DEF Family
  <2>2. QED
    BY <1>1, <2>1 DEF Sooner
<1>4. \A x, y, z \in S : Sooner(x, y, key) /\ Sooner(y, z, key) => Sooner(x, z, key)
  BY <1>1 DEF Sooner
<1>5. QED
  BY <1>2, <1>3, <1>4 DEF StrictOrder

(* A listing of a family: ids of its members, none twice. *)
Lists(l, S) ==
  /\ l \in Seq(Nat) /\ Len(l) \in Nat /\ DOMAIN l = 1..Len(l)
  /\ \A k \in 1..Len(l) : \E e \in S : l[k] = e.id
  /\ \A i, j \in 1..Len(l) : l[i] = l[j] => i = j

(* Sorting siblings gives the list of their ids, each once.                 *)
LEMMA ListOfIds ==
  ASSUME NEW S, Family(S), NEW before, StrictOrder(S, before),
         NEW s, s = InOrder(S, before)
  PROVE  Lists([k \in DOMAIN s |-> s[k].id], S)
<1> DEFINE N == Cardinality(S)
           l == [k \in DOMAIN s |-> s[k].id]
<1>1. /\ N \in Nat /\ Sorts(s, N, S, before)
      /\ \A i, j \in 1..N : s[i] = s[j] => i = j
  BY InOrderSorts DEF Family
<1> HIDE DEF N
<1>2. DOMAIN s = 1..N /\ \A k \in 1..N : s[k] \in S
  BY <1>1 DEF Sorts
<1>3. DOMAIN l = 1..N /\ \A k \in 1..N : l[k] = s[k].id /\ l[k] \in Nat
  BY <1>2 DEF Family
<1>4. l = [k \in 1..N |-> l[k]]
  BY <1>3
<1>5. \A i, j \in 1..N : l[i] = l[j] => i = j
  BY <1>1, <1>2, <1>3 DEF Family
<1> HIDE DEF l
<1>6. l \in [1..N -> Nat]
  BY <1>3, <1>4
<1>7. l \in Seq(Nat)
  BY <1>1, <1>6, SeqDef
<1>8. Len(l) = N
  <2>1. Len(l) \in Nat /\ DOMAIN l = 1..Len(l)
    BY <1>7, LenProperties
  <2>2. QED
    BY <1>1, <1>3, <2>1
<1>9. QED
  BY <1>1, <1>2, <1>3, <1>5, <1>7, <1>8 DEF Lists, l

(* SortedIds lists the ids of children, each once, whatever the key.        *)
LEMMA SortedIdsLists ==
  ASSUME NEW S, Family(S), NEW key \in [S -> Nat]
  PROVE  Lists(SortedIds(S, key), S)
<1> DEFINE before == {p \in S \X S : \/ key[p[1]] < key[p[2]]
                                     \/ key[p[1]] = key[p[2]] /\ p[1].id < p[2].id}
           s == InOrder(S, before)
<1>1. SortedIds(S, key) = [k \in DOMAIN s |-> s[k].id]
  BY DEF SortedIds
<1>2. \A x, y \in S : <<x, y>> \in before <=> Sooner(x, y, key)
  BY DEF Sooner
<1> HIDE DEF before
<1>3. StrictOrder(S, before)
  BY <1>2, SoonerStrict
<1>4. Lists([k \in DOMAIN s |-> s[k].id], S)
  BY <1>3, ListOfIds
<1>5. QED
  BY <1>1, <1>4

(* read_dir lists the children of a directory, each once.                   *)
LEMMA ReadDirLists ==
  ASSUME Good, EntriesOk, NEW id
  PROVE  Lists(ReadDir(id), Children(id))
<1> DEFINE S == Children(id)
           key == [e \in S |-> ByteOrder(e.name)]
<1>1. Family(S)
  BY ChildrenFamily
<1>2. key \in [S -> Nat]
  <2>1. \A e \in S : ByteOrder(e.name) \in Nat
    BY <1>1, OrdersIn DEF Family
  <2> HIDE DEF S
  <2>2. QED
    BY <2>1
<1>3. ReadDir(id) = SortedIds(S, key)
  BY DEF ReadDir
<1> HIDE DEF S, key
<1>4. Lists(SortedIds(S, key), S)
  BY <1>1, <1>2, SortedIdsLists
<1>5. QED
  BY <1>3, <1>4 DEF S

(* So does the order of read_directory.                                     *)
LEMMA WinListingLists ==
  ASSUME Good, EntriesOk, Shown(index, names), NEW id
  PROVE  Lists(WinListing(id), Children(id))
<1> DEFINE S == Children(id)
           C(e) == compare_display_names(names[e.id])
           key == [e \in S |-> C(e)]
<1>1. Family(S)
  BY ChildrenFamily
<1>2. key \in [S -> Nat]
  <2>1. \A e \in S : names[e.id] \in Names
    BY DEF Shown, Children
  <2>2. \A e \in S : C(e) \in Nat
    BY <2>1, OrdersIn
  <2> HIDE DEF S, C
  <2>3. QED
    BY <2>2
<1>3. WinListing(id) = SortedIds(S, key)
  BY DEF WinListing
<1> HIDE DEF S, key
<1>4. Lists(SortedIds(S, key), S)
  BY <1>1, <1>2, SortedIdsLists
<1>5. QED
  BY <1>3, <1>4 DEF S

(***************************************************************************)
(* The invariant.                                                          *)
(***************************************************************************)

(* What the names of a packed index are. *)
PackedNames(E) ==
  /\ \A e \in Range(E) : e.name[1] \notin Slashed
  /\ \A e \in Range(E) : e.id # 1 => validate_name("unix", e.name)
ValidNames(where, E) == \A e \in Range(E) : e.id # 1 => validate_name(where, e.name)

IndexInv ==
  /\ origin \in {"packed", "raw"}
  /\ index \in Seq(Entry) /\ header.data_size \in Nat
  /\ vol \in {"closed", "open", "refused"} /\ adapter \in {"fuse", "winfsp"}
  /\ origin = "packed" =>
       PackedNames(index) /\ (ValidNames(Platform, index) => validate_index(Platform, header, index))
  /\ vol = "open" => validate_index(Platform, header, index)
  /\ vol = "refused" => ~validate_index(Platform, header, index)

NamesInv == vol = "open" /\ adapter = "winfsp" => Apart(index, names) /\ Shown(index, names)

HandleInv ==
  /\ handle # asked => origin = "raw" /\ adapter = "fuse" /\ Slashes(index, asked)
  /\ asked # 0 => vol = "open"
  /\ asked = 0 => handle = 0 /\ listing = <<>> /\ got = <<>> /\ cursor = 0 /\ ~done

(* fuse counts what it has listed; winfsp knows it by the last name.       *)
Counted(l, c, g) == c \in Nat /\ c <= Len(l) /\ g = SubSeq(l, 1, c)
MarkedBy(l, c, g) ==
  /\ Len(g) \in Nat /\ Len(g) <= Len(l) /\ g = SubSeq(l, 1, Len(g))
  /\ c = IF Len(g) = 0 THEN 0 ELSE l[Len(g)]

(* No two names of a listing could be taken for one another.               *)
Marks(l, nm) ==
  \A i, j \in 1..Len(l) : l[i] # 0 /\ (equivalent(nm[l[i]], nm[l[j]]) => i = j)

ListingInv ==
  /\ listing \in Seq(Nat)
  /\ adapter = "fuse" => Counted(listing, cursor, got) /\ (done => cursor = Len(listing))
  /\ adapter = "winfsp" => MarkedBy(listing, cursor, got) /\ Marks(listing, names)

VolumeInv == IndexInv /\ NamesInv /\ HandleInv /\ ListingInv

(* A listing that goes on. *)
LEMMA ListingGrows ==
  ASSUME NEW l \in Seq(Nat), NEW a \in Nat, NEW b \in Nat, a <= b, b <= Len(l)
  PROVE  /\ SubSeq(l, 1, a) \o SubSeq(l, a + 1, b) = SubSeq(l, 1, b)
         /\ SubSeq(l, 1, b) \in Seq(Nat) /\ Len(SubSeq(l, 1, b)) = b
<1>1. Len(l) \in Nat
  OBVIOUS
<1>2. SubSeq(l, 1, a) \o SubSeq(l, a + 1, b) = SubSeq(l, 1, b)
  <2>1. 1 \in 1..(Len(l) + 1) /\ a \in (1 - 1)..Len(l) /\ b \in a..Len(l)
    BY <1>1
  <2>2. QED
    BY <2>1, ConcatAdjacentSubSeq
<1>3. SubSeq(l, 1, b) \in Seq(Nat) /\ Len(SubSeq(l, 1, b)) = b
  <2>1. \A i \in 1..b : l[i] \in Nat
    BY <1>1
  <2>2. 1 \in Int /\ b \in Int
    OBVIOUS
  <2>3. /\ SubSeq(l, 1, b) \in Seq(Nat)
        /\ Len(SubSeq(l, 1, b)) = IF 1 <= b THEN b - 1 + 1 ELSE 0
    BY <2>1, <2>2, SubSeqProperties
  <2>4. (IF 1 <= b THEN b - 1 + 1 ELSE 0) = b
    OBVIOUS
  <2>5. QED
    BY <2>3, <2>4
<1>4. QED
  BY <1>2, <1>3

(* The smaller of two naturals.                                             *)
LEMMA LeastIs ==
  ASSUME NEW m \in Nat, NEW n \in Nat
  PROVE  Least(m, n) = IF m <= n THEN m ELSE n
<1> DEFINE r == IF m <= n THEN m ELSE n
<1>1. r \in {m, n} /\ \A y \in {m, n} : r <= y
  OBVIOUS
<1>2. \A x \in {m, n} : (\A y \in {m, n} : x <= y) => x = r
  OBVIOUS
<1> HIDE DEF r
<1>3. Min({m, n}) = r
  BY <1>1, <1>2 DEF Min
<1>4. QED
  BY <1>3 DEF Least, r

(* The least of one number.                                                 *)
LEMMA MarkOnly ==
  ASSUME NEW m \in Nat
  PROVE  Min({m}) = m
<1>1. m \in {m} /\ \A y \in {m} : m <= y
  OBVIOUS
<1>2. QED
  BY <1>1 DEF Min

(* The names of a scan are those of the walk, which its platform accepts.   *)
LEMMA ScannedNames ==
  ASSUME NEW from \in Platforms, NEW off, NEW E, NEW items, Scans(from, E, off, items, TRUE), IsWalk(items)
  PROVE  /\ PackedNames(E)
         /\ \A where : ValidNames(where, E) =>
              \A i \in 1..Len(items) : validate_name(where, items[i].name)
<1>1. CountUp(E, items)
  BY ScannedEntries
<1>2. /\ Len(items) \in Nat /\ E \in Seq(Entry) /\ Len(E) = Len(items) + 1 /\ E[1] = Root
      /\ DOMAIN E = 1..(Len(items) + 1)
      /\ \A i \in DOMAIN E : i \in Nat /\ E[i].id = i /\ (i # 1 => i - 1 \in 1..Len(items))
      /\ \A i \in DOMAIN E : i # 1 => E[i].name = items[i - 1].name
  BY <1>1 DEF CountUp
<1>3. ASSUME NEW i \in 1..Len(items)
      PROVE  validate_name("unix", items[i].name) /\ items[i].name[1] \notin Slashed
  <2>1. validate_name(from, items[i].name)
    BY DEF Scans
  <2>2. validate_name("unix", items[i].name)
    BY <2>1 DEF validate_name
  <2>3. i \in DOMAIN items
    BY <1>2 DEF IsWalk
  <2>4. QED
    BY <2>2, <2>3 DEF IsWalk
<1>4. Root.name[1] \notin Slashed
  BY DEF Root, Slashed
<1>5. ASSUME NEW e \in Range(E)
      PROVE  e.name[1] \notin Slashed /\ (e.id # 1 => validate_name("unix", e.name))
  <2>1. PICK i \in DOMAIN E : e = E[i]
    BY DEF Range
  <2>2. CASE i = 1
    <3>1. e = Root /\ e.id = 1
      BY <1>2, <2>1, <2>2
    <3>2. QED
      BY <1>4, <3>1
  <2>3. CASE i # 1
    <3>1. i - 1 \in 1..Len(items) /\ e.name = items[i - 1].name
      BY <1>2, <2>1, <2>3
    <3>2. QED
      BY <1>3, <3>1
  <2>4. QED
    BY <2>2, <2>3
<1>6. ASSUME NEW where, ValidNames(where, E), NEW i \in 1..Len(items)
      PROVE  validate_name(where, items[i].name)
  <2>1. i + 1 \in DOMAIN E /\ i + 1 # 1 /\ (i + 1) - 1 = i
    BY <1>2
  <2>2. E[i + 1] \in Range(E) /\ E[i + 1].id # 1 /\ E[i + 1].name = items[i].name
    BY <1>2, <2>1 DEF Range
  <2>3. QED
    BY <1>6, <2>2 DEF ValidNames
<1>7. QED
  BY <1>5, <1>6 DEF PackedNames

(* What pack laid out, or some writer authenticated. *)
LEMMA VolumeInit ==
  ASSUME Init
  PROVE  VolumeInv
<1>1. /\ vol = "closed" /\ adapter \in {"fuse", "winfsp"}
      /\ names = <<>> /\ asked = 0 /\ handle = 0 /\ listing = <<>> /\ cursor = 0 /\ got = <<>> /\ done = FALSE
  BY DEF Init
<1>2. ASSUME origin = "packed",
             \E p \in {q \in Packed : q.ok} :
               /\ index = p.entries
               /\ header = [entry_count |-> Len(p.entries), data_size |-> p.data_offset]
      PROVE  IndexInv
  <2>1. PICK from \in Platforms, items \in Sources :
          /\ scan_source(from, items).ok
          /\ index = scan_source(from, items).entries
          /\ header = [entry_count |-> Len(index), data_size |-> scan_source(from, items).data_offset]
    BY <1>2 DEF Packed
  <2>2. IsWalk(items)
    BY VolumeAssumption
  <2>3. PICK off : /\ Scans(from, index, off, items, scan_source(from, items).ok)
                   /\ off[Len(items)] = scan_source(from, items).data_offset
    BY <2>1, <2>2, ScanScans
  <2>4. Scans(from, index, off, items, TRUE)
    BY <2>1, <2>3 DEF Scans
  <2>5. header.entry_count = Len(index) /\ header.data_size = off[Len(items)]
    BY <2>1, <2>3
  <2>6. PackedNames(index)
    BY <2>2, <2>4, ScannedNames
  <2>7. ASSUME ValidNames(Platform, index)
        PROVE  validate_index(Platform, header, index)
    <3>1. \A i \in 1..Len(items) : validate_name(Platform, items[i].name)
      BY <2>2, <2>4, <2>7, ScannedNames
    <3>2. Scans(Platform, index, off, items, TRUE)
      BY <2>4, <3>1, ScansElsewhere
    <3>3. QED
      BY <2>2, <2>5, <3>2, ScannedAccepted
  <2>8. index \in Seq(Entry) /\ header.data_size \in Nat
    <3>1. Len(items) \in Nat /\ off \in [0..Len(items) -> Nat] /\ index \in Seq(Entry)
      BY <2>4 DEF Scans
    <3>2. Len(items) \in 0..Len(items)
      BY <3>1
    <3>3. QED
      BY <2>5, <3>1, <3>2
  <2>9. QED
    BY <1>1, <1>2, <2>6, <2>7, <2>8 DEF IndexInv
<1>3. ASSUME origin = "raw", \E r \in RawIndexes : index = r.entries /\ header = r.header
      PROVE  IndexInv
  BY <1>1, <1>3, VolumeAssumption DEF IndexInv
<1>4. IndexInv
  BY <1>2, <1>3 DEF Init
<1>5. ListingInv
  <2>1. <<>> \in Seq(Nat) /\ Len(<<>>) = 0
    OBVIOUS
  <2>2. SubSeq(<<>>, 1, 0) = <<>>
    <3>1. 1 \in Int /\ 0 \in Int /\ 0 < 1
      OBVIOUS
    <3>2. QED
      BY <3>1, SubSeqEmpty
  <2>3. Counted(listing, cursor, got) /\ MarkedBy(listing, cursor, got)
    BY <1>1, <2>1, <2>2 DEF Counted, MarkedBy
  <2>4. Marks(listing, names)
    BY <1>1, <2>1 DEF Marks
  <2>5. QED
    BY <1>1, <2>1, <2>3, <2>4 DEF ListingInv
<1>6. QED
  BY <1>1, <1>4, <1>5 DEF VolumeInv, NamesInv, HandleInv

(* open keeps the invariant: an accepted volume has its names, a refused one*)
(* was not packed.                                                          *)
LEMMA OpenStep ==
  ASSUME VolumeInv, Open
  PROVE  VolumeInv'
<1>1. /\ vol = "closed" /\ asked = 0
      /\ UNCHANGED <<origin, header, index, adapter, asked, handle, listing, cursor, got, done>>
  BY DEF Open, volumeVars, VolumeInv, HandleInv
<1>2. \/ validate_index(Platform, header, index) /\ vol' = "open"
         /\ names' = IF adapter = "winfsp" THEN NameMap ELSE names
      \/ ~validate_index(Platform, header, index) /\ vol' = "refused"
  BY DEF Open
<1>3. IndexInv'
  <2>1. Platform' = Platform
    BY <1>1 DEF Platform
  <2>2. QED
    BY <1>1, <1>2, <2>1 DEF VolumeInv, IndexInv
<1>4. NamesInv'
  <2>1. SUFFICES ASSUME vol' = "open", adapter = "winfsp"
                 PROVE  Apart(index, names') /\ Shown(index, names')
    BY <1>1 DEF NamesInv, Apart, Shown
  <2>2. validate_index(Platform, header, index) /\ names' = NameMap
    BY <1>2, <2>1
  <2>3. Good
    BY <2>2 DEF Good, VolumeInv, IndexInv
  <2>4. QED
    BY <2>2, <2>3, NamesAreApart
<1>5. HandleInv'
  BY <1>1 DEF VolumeInv, HandleInv
<1>6. ListingInv'
  <2>1. listing = <<>>
    BY <1>1 DEF VolumeInv, HandleInv
  <2>2. Len(listing) = 0
    BY <2>1
  <2>3. Marks(listing, names')
    BY <2>2 DEF Marks
  <2>4. QED
    BY <1>1, <2>3 DEF VolumeInv, ListingInv
<1>7. QED
  BY <1>3, <1>4, <1>5, <1>6 DEF VolumeInv

(* Opening a node keeps it: the path leads back, and the new listing has not*)
(* begun.                                                                   *)
LEMMA OpenNodeStep ==
  ASSUME VolumeInv, NEW id \in NodeIds, OpenNode(id)
  PROVE  VolumeInv'
<1>1. /\ vol = "open" /\ asked = 0 /\ asked' = id /\ handle' = Resolve(PathOf(id))
      /\ UNCHANGED <<origin, header, index, adapter, vol, names, cursor, got>>
  BY DEF OpenNode, volumeVars
<1>2. listing = <<>> /\ got = <<>> /\ cursor = 0
  BY <1>1 DEF VolumeInv, HandleInv
<1>3. Good
  BY <1>1 DEF VolumeInv, IndexInv, Good
<1>4. EntriesOk
  BY <1>3, GoodEntries
<1>5. CanStep
  BY <1>1 DEF VolumeInv, IndexInv, NamesInv, CanStep
<1>6. handle' \in {0} \cup NodeIds
  BY <1>1, <1>3, <1>5, PathLeads
<1>7. handle' # id => origin = "raw" /\ adapter = "fuse" /\ Slashes(index, id)
  <2>1. handle' # id => adapter = "fuse" /\ Slashes(index, id)
    BY <1>1, <1>3, <1>5, PathLeadsBack
  <2>2. origin = "packed" => ~Slashes(index, id)
    BY <1>4, NoSlashes DEF VolumeInv, IndexInv, PackedNames
  <2>3. QED
    BY <2>1, <2>2 DEF VolumeInv, IndexInv
<1>8. \/ done' = TRUE /\ listing' = listing
      \/ \E h \in NodeIds :
           /\ done' = done
           /\ listing' = IF adapter = "fuse" THEN FuseListing(h) ELSE WinListing(h)
  <2>1. PICK h : h = handle'
    OBVIOUS
  <2>2. \/ done' = TRUE /\ listing' = listing
        \/ /\ h # 0 /\ done' = done
           /\ listing' = IF adapter = "fuse" THEN FuseListing(h) ELSE WinListing(h)
    BY <2>1 DEF OpenNode
  <2>3. QED
    BY <1>6, <2>1, <2>2
<1>9. IndexInv'
  <2>1. Platform' = Platform
    BY <1>1 DEF Platform
  <2>2. QED
    BY <1>1, <2>1 DEF VolumeInv, IndexInv
<1>10. NamesInv'
  BY <1>1 DEF VolumeInv, NamesInv
<1>11. HandleInv'
  <2>1. id # 0
    BY <1>4, Nodes DEF NodeIds
  <2>2. QED
    BY <1>1, <1>7, <2>1 DEF HandleInv
<1>12. \A l : Len(l) \in Nat => Counted(l, 0, <<>>) /\ MarkedBy(l, 0, <<>>)
  <2>1. TAKE l
  <2>2. HAVE Len(l) \in Nat
  <2>3. SubSeq(l, 1, 0) = <<>>
    <3>1. 1 \in Int /\ 0 \in Int /\ 0 < 1
      OBVIOUS
    <3>2. QED
      BY <3>1, SubSeqEmpty
  <2>4. Len(<<>>) = 0
    OBVIOUS
  <2>5. QED
    BY <2>2, <2>3, <2>4 DEF Counted, MarkedBy
<1>13. CASE done' = TRUE /\ listing' = listing
  <2>1. listing' = <<>> /\ Len(listing') = 0 /\ listing' \in Seq(Nat)
    BY <1>2, <1>13
  <2>2. Marks(listing', names')
    BY <2>1 DEF Marks
  <2>3. Counted(listing', cursor', got') /\ MarkedBy(listing', cursor', got')
    BY <1>1, <1>2, <1>12, <2>1
  <2>4. ListingInv'
    BY <1>1, <1>2, <2>1, <2>2, <2>3 DEF ListingInv
  <2>5. QED
    BY <1>9, <1>10, <1>11, <2>4 DEF VolumeInv
<1>14. ASSUME NEW h \in NodeIds, done' = done, adapter = "fuse", listing' = FuseListing(h)
       PROVE  VolumeInv'
  <2>0. h \in Nat
    BY <1>4, Nodes DEF NodeIds
  <2>1. listing' \in Seq(Nat)
    <3>1. ReadDir(h) \in Seq(Nat)
      BY <1>3, <1>4, ReadDirLists DEF Lists
    <3>2. Node(h).parent_id \in Nat
      <4>1. Node(h) \in Entry
        BY <1>4, Nodes DEF EntriesOk
      <4>2. QED
        BY <4>1 DEF Entry
    <3>3. <<h, Node(h).parent_id>> \in Seq(Nat)
      BY <2>0, <3>2
    <3>4. QED
      BY <1>14, <3>1, <3>3 DEF FuseListing
  <2>2. ~done' /\ Len(listing') \in Nat
    BY <1>1, <1>14, <2>1 DEF VolumeInv, HandleInv
  <2>3. Counted(listing', cursor', got')
    BY <1>1, <1>2, <1>12, <2>2
  <2>4. adapter' = "fuse" /\ adapter' # "winfsp"
    BY <1>1, <1>14
  <2>5. ListingInv'
    BY <2>1, <2>2, <2>3, <2>4 DEF ListingInv
  <2>6. QED
    BY <1>9, <1>10, <1>11, <2>5 DEF VolumeInv
<1>15. ASSUME NEW h \in NodeIds, done' = done, adapter = "winfsp", listing' = WinListing(h)
       PROVE  VolumeInv'
  <2>1. Apart(index, names) /\ Shown(index, names)
    BY <1>1, <1>15 DEF VolumeInv, NamesInv
  <2>2. PICK l : l = WinListing(h)
    OBVIOUS
  <2>3. Lists(l, Children(h))
    BY <1>3, <1>4, <2>1, <2>2, WinListingLists
  <2>4. l \in Seq(Nat) /\ Len(l) \in Nat
    BY <2>3 DEF Lists
  <2>5. \A e \in Children(h) : e \in Range(index) /\ e.id # 1 /\ e.parent_id = h /\ e.id # 0
    BY <1>4, Nodes DEF Children
  <2>6. Marks(l, names)
    <3>1. ASSUME NEW i \in 1..Len(l)
          PROVE  l[i] # 0
      BY <2>3, <2>5 DEF Lists
    <3>2. ASSUME NEW i \in 1..Len(l), NEW j \in 1..Len(l), equivalent(names[l[i]], names[l[j]])
          PROVE  i = j
      <4>1. PICK d \in Children(h) : l[i] = d.id
        BY <2>3 DEF Lists
      <4>2. PICK e \in Children(h) : l[j] = e.id
        BY <2>3 DEF Lists
      <4>3. d = e
        BY <2>1, <2>5, <3>2, <4>1, <4>2 DEF Apart
      <4>4. QED
        BY <2>3, <4>1, <4>2, <4>3 DEF Lists
    <3>3. QED
      BY <3>1, <3>2 DEF Marks
  <2>7. MarkedBy(l, 0, <<>>)
    BY <1>12, <2>4
  <2>8. listing' = l /\ names' = names /\ cursor' = 0 /\ got' = <<>> /\ adapter' = "winfsp"
    BY <1>1, <1>2, <1>15, <2>2
  <2>9. ListingInv'
    BY <2>4, <2>6, <2>7, <2>8 DEF ListingInv
  <2>10. QED
    BY <1>9, <1>10, <1>11, <2>9 DEF VolumeInv
<1>16. QED
  BY <1>8, <1>13, <1>14, <1>15 DEF VolumeInv, IndexInv

(* A call of readdir keeps it: the offset counts what was listed.           *)
LEMMA FuseReaddirStep ==
  ASSUME VolumeInv, NEW n \in 1..MaxBuffer, FuseReaddir(n)
  PROVE  VolumeInv'
<1> DEFINE L == Len(listing)
           last == Least(L, cursor + n)
<1>1. /\ adapter = "fuse" /\ handle # 0
      /\ UNCHANGED <<origin, header, index, adapter, vol, names, asked, handle, listing>>
      /\ got' = got \o SubSeq(listing, cursor + 1, last)
      /\ cursor' = IF last > cursor THEN OffsetAfter(last - 1) ELSE cursor
      /\ done' = (last <= cursor)
  BY DEF FuseReaddir, volumeVars
<1>2. /\ listing \in Seq(Nat) /\ L \in Nat
      /\ cursor \in Nat /\ cursor <= L /\ got = SubSeq(listing, 1, cursor)
  BY <1>1 DEF VolumeInv, ListingInv, Counted
<1>3. n \in Nat /\ 1 <= n
  BY VolumeAssumption
<1>4. last = IF L <= cursor + n THEN L ELSE cursor + n
  <2>1. cursor + n \in Nat
    BY <1>2, <1>3
  <2>2. QED
    BY <1>2, <2>1, LeastIs
<1>5. last \in Nat /\ cursor <= last /\ last <= L /\ (last <= cursor => cursor = L)
  <2> HIDE DEF L, last
  <2>1. QED
    BY <1>2, <1>3, <1>4
<1> HIDE DEF last
<1>6. cursor' = last
  <2>1. OffsetAfter(last - 1) = last
    BY <1>5 DEF OffsetAfter
  <2>2. QED
    BY <1>1, <1>2, <1>5, <2>1
<1>7. got' = SubSeq(listing, 1, last)
  BY <1>1, <1>2, <1>5, ListingGrows
<1>8. done' => cursor' = L
  <2>1. done' => last <= cursor
    BY <1>1
  <2>2. last <= cursor => last = L
    BY <1>2, <1>5
  <2>3. QED
    BY <1>6, <2>1, <2>2
<1>9. ListingInv'
  <2>1. Counted(listing', cursor', got')
    BY <1>1, <1>5, <1>6, <1>7 DEF Counted
  <2>2. adapter' = "fuse" /\ adapter' # "winfsp"
    BY <1>1
  <2>3. QED
    BY <1>1, <1>2, <1>8, <2>1, <2>2 DEF ListingInv
<1>10. HandleInv'
  BY <1>1 DEF VolumeInv, HandleInv
<1>11. Platform' = Platform
  BY <1>1 DEF Platform
<1>12. QED
  BY <1>1, <1>9, <1>10, <1>11 DEF VolumeInv, IndexInv, NamesInv

(* The marker names the last child returned, and only that one.             *)
LEMMA StartIs ==
  ASSUME listing \in Seq(Nat), MarkedBy(listing, cursor, got), Marks(listing, names)
  PROVE  Start = Len(got)
<1> DEFINE hits == {k \in DOMAIN listing : cursor # 0 /\ Marked(listing[k], names[cursor])}
           m == Len(got)
<1>1. /\ m \in Nat /\ m <= Len(listing) /\ cursor = IF m = 0 THEN 0 ELSE listing[m]
      /\ DOMAIN listing = 1..Len(listing) /\ Len(listing) \in Nat
  BY DEF MarkedBy
<1>2. Start = IF hits = {} THEN 0 ELSE Min(hits)
  BY DEF Start
<1>3. CASE m = 0
  BY <1>1, <1>2, <1>3
<1>4. CASE m # 0
  <2>1. m \in 1..Len(listing) /\ cursor = listing[m]
    BY <1>1, <1>4
  <2>2. cursor # 0
    BY <2>1 DEF Marks
  <2>3. hits = {m}
    <3>1. m \in hits
      BY <1>1, <2>1, <2>2 DEF Marked, equivalent
    <3>2. ASSUME NEW k \in hits
          PROVE  k = m
      <4>1. k \in 1..Len(listing) /\ equivalent(names[listing[k]], names[listing[m]])
        BY <1>1, <2>1 DEF Marked
      <4>2. QED
        BY <2>1, <4>1 DEF Marks
    <3> HIDE DEF hits
    <3>3. QED
      BY <3>1, <3>2
  <2> HIDE DEF hits
  <2>4. Min(hits) = m
    BY <1>1, <2>3, MarkOnly
  <2>5. QED
    BY <1>2, <2>3, <2>4
<1>5. QED
  BY <1>3, <1>4

(* A call of read_directory keeps it: the marker is the last child listed.  *)
LEMMA WinReadDirectoryStep ==
  ASSUME VolumeInv, NEW n \in 1..MaxBuffer, NEW spare, WinReadDirectory(n, spare)
  PROVE  VolumeInv'
<1> DEFINE L == Len(listing)
           m == Len(got)
           last == Least(L, m + n)
<1>1. adapter = "winfsp" /\ handle # 0
      /\ UNCHANGED <<origin, header, index, adapter, vol, names, asked, handle, listing>>
  BY DEF WinReadDirectory, volumeVars
<1>2. /\ listing \in Seq(Nat) /\ L \in Nat
      /\ MarkedBy(listing, cursor, got) /\ Marks(listing, names)
  BY <1>1 DEF VolumeInv, ListingInv
<1>3. m \in Nat /\ m <= L /\ got = SubSeq(listing, 1, m) /\ cursor = IF m = 0 THEN 0 ELSE listing[m]
  BY <1>2 DEF MarkedBy
<1>4. Start = m
  BY <1>2, StartIs
<1>5. /\ got' = got \o SubSeq(listing, m + 1, last)
      /\ cursor' = IF last > m THEN listing[last] ELSE cursor
  BY <1>4 DEF WinReadDirectory
<1>6. n \in Nat /\ 1 <= n
  BY VolumeAssumption
<1>7. last = IF L <= m + n THEN L ELSE m + n
  <2>1. m + n \in Nat
    BY <1>3, <1>6
  <2>2. QED
    BY <1>2, <2>1, LeastIs
<1>8. last \in Nat /\ m <= last /\ last <= L
  <2> HIDE DEF L, m, last
  <2>1. QED
    BY <1>2, <1>3, <1>6, <1>7
<1> HIDE DEF last, m
<1>9. got' = SubSeq(listing, 1, last) /\ Len(got') = last
  BY <1>2, <1>3, <1>5, <1>8, ListingGrows
<1>10. cursor' = IF last = 0 THEN 0 ELSE listing[last]
  BY <1>3, <1>5, <1>8
<1>11. MarkedBy(listing, cursor', got')
  BY <1>8, <1>9, <1>10 DEF MarkedBy
<1>12. ListingInv'
  <2>1. MarkedBy(listing', cursor', got') /\ Marks(listing', names')
    BY <1>1, <1>2, <1>11
  <2>2. adapter' = "winfsp" /\ adapter' # "fuse"
    BY <1>1
  <2>3. QED
    BY <1>1, <1>2, <2>1, <2>2 DEF ListingInv
<1>13. HandleInv'
  BY <1>1 DEF VolumeInv, HandleInv
<1>14. Platform' = Platform
  BY <1>1 DEF Platform
<1>15. QED
  BY <1>1, <1>12, <1>13, <1>14 DEF VolumeInv, IndexInv, NamesInv

(* Every step keeps the invariant.                                          *)
LEMMA VolumeStep ==
  ASSUME VolumeInv, [Next]_vars
  PROVE  VolumeInv'
<1>1. CASE Open
  BY <1>1, OpenStep
<1>2. ASSUME NEW id \in NodeIds, OpenNode(id)
      PROVE  VolumeInv'
  BY <1>2, OpenNodeStep
<1>3. ASSUME NEW n \in 1..MaxBuffer, FuseReaddir(n)
      PROVE  VolumeInv'
  BY <1>3, FuseReaddirStep
<1>4. ASSUME NEW n \in 1..MaxBuffer, NEW spare \in BOOLEAN, WinReadDirectory(n, spare)
      PROVE  VolumeInv'
  BY <1>4, WinReadDirectoryStep
<1>5. CASE UNCHANGED vars
  BY <1>5 DEF vars, Platform, VolumeInv, IndexInv, NamesInv, HandleInv, ListingInv
<1>6. QED
  BY <1>1, <1>2, <1>3, <1>4, <1>5 DEF Next, List, Done

(* What VolumeInv names is kept by every step of the volume.                *)
THEOREM VolumeInvariance == Spec => []VolumeInv
<1>1. Init => VolumeInv
  BY VolumeInit
<1>2. VolumeInv /\ [Next]_vars => VolumeInv'
  BY VolumeStep
<1>3. QED
  BY <1>1, <1>2, PTL DEF Spec

(* Open accepts every container that pack lays out, of any tree: the check  *)
(* of contiguous offsets (validate_index) sorts the files as scan_source    *)
(* counted them, empty ones included.  Only a mount on Windows may refuse   *)
(* one, for a name that is a single component on Unix alone.                *)
THEOREM VolumePackedIsAccepted == Spec => []PackedIsAccepted
<1>1. VolumeInv => PackedIsAccepted
  <2>1. SUFFICES ASSUME VolumeInv, origin = "packed", vol = "refused"
                 PROVE  /\ adapter = "winfsp"
                        /\ \E e \in Range(index) : e.id # 1 /\ ~validate_name("windows", e.name)
    BY DEF PackedIsAccepted
  <2>2. PackedNames(index) /\ ~ValidNames(Platform, index)
    BY <2>1 DEF VolumeInv, IndexInv
  <2>3. PICK e \in Range(index) : e.id # 1 /\ ~validate_name(Platform, e.name)
    BY <2>2 DEF ValidNames
  <2>4. validate_name("unix", e.name)
    BY <2>2, <2>3 DEF PackedNames
  <2>5. adapter # "fuse" /\ Platform = "windows"
    BY <2>3, <2>4 DEF Platform
  <2>6. QED
    BY <2>1, <2>3, <2>5 DEF VolumeInv, IndexInv
<1>2. QED
  BY <1>1, VolumeInvariance, PTL

(* What validate_index accepts is one tree whose files tile the data        *)
(* region, whoever wrote it and however deep it is.                         *)
THEOREM VolumeOpenedIsSound == Spec => []OpenedIsSound
<1>1. VolumeInv => OpenedIsSound
  <2>1. CASE vol = "open"
    BY <2>1, GoodIsSound DEF VolumeInv, IndexInv, Good
  <2>2. CASE vol # "open"
    BY <2>2 DEF OpenedIsSound
  <2>3. QED
    BY <2>1, <2>2
<1>2. QED
  BY <1>1, VolumeInvariance, PTL

(* Every path leads back to the node it was shown for, in both adapters:    *)
(* WindowsNameMap tells all children of a directory apart, and fuse finds   *)
(* every name but one that ends with a separator, which pack never writes   *)
(* and validate_name lets through.                                          *)
THEOREM VolumeShownPathResolves == Spec => []ShownPathResolves
<1>1. VolumeInv => ShownPathResolves
  BY SlashesIs DEF VolumeInv, HandleInv, ShownPathResolves
<1>2. QED
  BY <1>1, VolumeInvariance, PTL

(* A directory is listed in order, without a gap and without repetition,    *)
(* whatever the sizes of the buffers: readdir's offset and read_directory's *)
(* marker both say where the last reply ended.                              *)
THEOREM VolumeListedInOrder == Spec => []ListedInOrder
<1>1. VolumeInv => ListedInOrder
  <2>1. SUFFICES ASSUME VolumeInv, handle # 0
                 PROVE  IsPrefix(got, listing) /\ (adapter = "fuse" /\ done => got = listing)
    BY DEF ListedInOrder
  <2>2. listing \in Seq(Nat) /\ Len(listing) \in Nat
    BY <2>1 DEF VolumeInv, ListingInv
  <2>3. PICK m \in Nat : m <= Len(listing) /\ got = SubSeq(listing, 1, m)
                         /\ (adapter = "fuse" /\ done => m = Len(listing))
    <3>1. CASE adapter = "fuse"
      BY <2>1, <3>1 DEF VolumeInv, ListingInv, Counted
    <3>2. CASE adapter = "winfsp"
      BY <2>1, <3>2 DEF VolumeInv, ListingInv, MarkedBy
    <3>3. QED
      BY <2>1, <3>1, <3>2 DEF VolumeInv, IndexInv
  <2>4. got \in Seq(Nat) /\ Len(got) = m
    BY <2>2, <2>3, ListingGrows
  <2>5. SubSeq(got, 1, Len(got)) = got
    BY <2>4, SubSeqFull
  <2>6. IsPrefix(got, listing)
    BY <2>3, <2>4, <2>5 DEF IsPrefix
  <2>7. SubSeq(listing, 1, Len(listing)) = listing
    BY <2>2, SubSeqFull
  <2>8. QED
    BY <2>1, <2>3, <2>6, <2>7
<1>2. QED
  BY <1>1, VolumeInvariance, PTL

(* A reply from offset m on.                                                *)
LEMMA FuseMoves ==
  ASSUME VolumeInv, NEW n \in 1..MaxBuffer, FuseReaddir(n)
  PROVE  done' \/ Len(got) < Len(got')
<1> DEFINE last == Least(Len(listing), cursor + n)
<1>1. /\ adapter = "fuse" /\ adapter' = "fuse" /\ listing' = listing
      /\ cursor' = IF last > cursor THEN OffsetAfter(last - 1) ELSE cursor
      /\ done' = (last <= cursor)
  BY DEF FuseReaddir, volumeVars
<1>2. /\ listing \in Seq(Nat) /\ Len(listing) \in Nat
      /\ cursor \in Nat /\ cursor <= Len(listing) /\ got = SubSeq(listing, 1, cursor)
  BY <1>1 DEF VolumeInv, ListingInv, Counted
<1>3. cursor' \in Nat /\ cursor' <= Len(listing) /\ got' = SubSeq(listing, 1, cursor')
  <2>1. VolumeInv'
    BY FuseReaddirStep
  <2>2. Counted(listing', cursor', got')
    BY <1>1, <2>1 DEF VolumeInv, ListingInv
  <2>3. QED
    BY <1>1, <2>2 DEF Counted
<1>4. last \in Nat
  <2>1. n \in Nat /\ cursor + n \in Nat
    BY <1>2, VolumeAssumption
  <2>2. QED
    BY <1>2, <2>1, LeastIs
<1> HIDE DEF last
<1>5. Len(got) = cursor /\ Len(got') = cursor'
  <2>1. ASSUME NEW b \in Nat, b <= Len(listing)
        PROVE  Len(SubSeq(listing, 1, b)) = b
    BY <1>2, <2>1, ListingGrows
  <2>2. PICK c : c = cursor'
    OBVIOUS
  <2>3. Len(SubSeq(listing, 1, c)) = c
    BY <1>3, <2>1, <2>2
  <2>4. QED
    BY <1>2, <1>3, <2>1, <2>2, <2>3
<1>6. ~(last <= cursor) => cursor < cursor'
  BY <1>1, <1>2, <1>4 DEF OffsetAfter
<1>7. (last <= cursor) => done'
  BY <1>1
<1>8. QED
  BY <1>5, <1>6, <1>7

(* A reply from the marker on: it is found where the last reply ended.      *)
LEMMA WinMoves ==
  ASSUME VolumeInv, NEW n \in 1..MaxBuffer, NEW spare \in BOOLEAN, WinReadDirectory(n, spare)
  PROVE  done' \/ Len(got) < Len(got')
<1> DEFINE L == Len(listing)
           m == Len(got)
           last == Least(L, m + n)
<1>1. adapter = "winfsp"
  BY DEF WinReadDirectory
<1>2. /\ listing \in Seq(Nat) /\ L \in Nat
      /\ MarkedBy(listing, cursor, got) /\ Marks(listing, names)
  BY <1>1 DEF VolumeInv, ListingInv
<1>3. m \in Nat /\ m <= L /\ got = SubSeq(listing, 1, m)
  BY <1>2 DEF MarkedBy
<1>4. Start = m
  BY <1>2, StartIs
<1>5. /\ got' = got \o SubSeq(listing, m + 1, last)
      /\ done' = Finalized(spare, last = m)
  BY <1>4 DEF WinReadDirectory
<1>6. n \in Nat /\ 1 <= n
  BY VolumeAssumption
<1>7. last = IF L <= m + n THEN L ELSE m + n
  <2>1. m + n \in Nat
    BY <1>3, <1>6
  <2>2. QED
    BY <1>2, <2>1, LeastIs
<1>8. last \in Nat /\ m <= last /\ last <= L
  <2> HIDE DEF L, m, last
  <2>1. QED
    BY <1>2, <1>3, <1>6, <1>7
<1> HIDE DEF last, m
<1>9. Len(got') = last
  BY <1>2, <1>3, <1>5, <1>8, ListingGrows
<1>10. last = m => done'
  BY <1>5 DEF Finalized
<1>11. last # m => m < last
  BY <1>3, <1>8
<1>12. QED
  BY <1>9, <1>10, <1>11 DEF m

(* A call returns at least one entry that was not returned before, or ends  *)
(* the listing; and there are no more entries than the directory has.       *)
ListingMoves ==
  List => /\ Len(got') <= Len(listing) /\ listing' = listing
          /\ done' \/ Len(got) < Len(got')

(* No directory is listed for ever: each call of readdir or read_directory  *)
(* goes on where the last one ended, so that a kernel which asks on is      *)
(* answered with the end after at most one call more than there are         *)
(* entries.  (That it asks on is fairness: see ListingEnds.)                *)
THEOREM VolumeListingProgresses == Spec => [][ListingMoves]_vars
<1>1. VolumeInv /\ [Next]_vars => [ListingMoves]_vars
  <2>1. SUFFICES ASSUME VolumeInv, List
                 PROVE  /\ Len(got') <= Len(listing) /\ listing' = listing
                        /\ done' \/ Len(got) < Len(got')
    BY DEF ListingMoves
  <2>2. VolumeInv'
    BY <2>1, VolumeStep DEF Next
  <2>3. PICK n \in 1..MaxBuffer :
          FuseReaddir(n) \/ \E spare \in BOOLEAN : WinReadDirectory(n, spare)
    BY <2>1 DEF List
  <2>4. CASE FuseReaddir(n)
    <3>1. listing' = listing /\ adapter' = "fuse"
      BY <2>4 DEF FuseReaddir, volumeVars
    <3>2. Counted(listing', cursor', got') /\ listing' \in Seq(Nat)
      BY <2>2, <3>1 DEF VolumeInv, ListingInv
    <3>3. Len(got') <= Len(listing)
      BY <3>1, <3>2, ListingGrows DEF Counted
    <3>4. QED
      BY <2>1, <2>4, <3>1, <3>3, FuseMoves
  <2>5. ASSUME NEW spare \in BOOLEAN, WinReadDirectory(n, spare)
        PROVE  /\ Len(got') <= Len(listing) /\ listing' = listing
               /\ done' \/ Len(got) < Len(got')
    <3>1. listing' = listing /\ adapter' = "winfsp"
      BY <2>5 DEF WinReadDirectory, volumeVars
    <3>2. MarkedBy(listing', cursor', got')
      BY <2>2, <3>1 DEF VolumeInv, ListingInv
    <3>3. Len(got') <= Len(listing)
      BY <3>1, <3>2 DEF MarkedBy
    <3>4. QED
      BY <2>1, <2>5, <3>1, <3>3, WinMoves
  <2>6. QED
    BY <2>3, <2>4, <2>5
<1>2. QED
  BY <1>1, VolumeInvariance, PTL DEF Spec
=============================================================================
