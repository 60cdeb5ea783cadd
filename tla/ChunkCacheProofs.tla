-------------------------- MODULE ChunkCacheProofs --------------------------
(***************************************************************************)
(* Proofs about ChunkCache, for any threads, files, sizes, requests, cache *)
(* sizes and damage: what is held stays within the limit and can be        *)
(* evicted, and a read returns exactly its range or reports damage.        *)
(*                                                                         *)
(* What is held is a sum over the cached chunks (MapThenSumSet).  It is    *)
(* shown to be the size of a set, by induction over sets of keys: a        *)
(* smallest set with another sum would have a smaller one (WFMin).         *)
(***************************************************************************)
EXTENDS ChunkCache, FiniteSetTheorems, SequenceTheorems, WellFoundedInduction, TLAPS

----------------------------------------------------------------------------
(* The sum. *)

(* The bytes a map v holds under the keys S. *)
Held(v, S) == UNION {{k} \X (1..Len(v[k])) : k \in S}

(* The bytes of one key. *)
LEMMA RowSize ==
  ASSUME NEW k, NEW n \in Nat
  PROVE  IsFiniteSet({k} \X (1..n)) /\ Cardinality({k} \X (1..n)) = n
<1>1. IsFiniteSet(1..n) /\ Cardinality(1..n) = IF 1 > n THEN 0 ELSE n - 1 + 1
  <2>1. 1 \in Int /\ n \in Int
    OBVIOUS
  <2>2. QED
    BY <2>1, FS_Interval, Zenon
<1>2. IsFiniteSet(1..n) /\ Cardinality(1..n) = n
  BY <1>1
<1>3. IsFiniteSet({k}) /\ Cardinality({k}) = 1
  BY FS_Singleton
<1>4. /\ IsFiniteSet({k} \X (1..n))
      /\ Cardinality({k} \X (1..n)) = Cardinality({k}) * Cardinality(1..n)
  BY <1>2, <1>3, FS_Product, Zenon
<1>5. Cardinality({k} \X (1..n)) = 1 * n
  BY <1>2, <1>3, <1>4, Zenon
<1>6. QED
  BY <1>4, <1>5

LEMMA HeldFinite ==
  ASSUME NEW v, NEW S, IsFiniteSet(S), \A k \in S : Len(v[k]) \in Nat
  PROVE  IsFiniteSet(Held(v, S)) /\ Cardinality(Held(v, S)) \in Nat
<1> DEFINE P == {{k} \X (1..Len(v[k])) : k \in S}
<1>1. IsFiniteSet(P)
  <2> DEFINE h == [k \in S |-> {k} \X (1..Len(v[k]))]
  <2>1. h \in Surjection(S, P)
    BY DEF Surjection
  <2>2. QED
    BY <2>1, FS_Surjection
<1>2. ASSUME NEW p \in P
      PROVE  IsFiniteSet(p)
  <2>1. PICK k \in S : p = {k} \X (1..Len(v[k]))
    OBVIOUS
  <2>2. QED
    BY <2>1, RowSize
<1>3. IsFiniteSet(Held(v, S))
  BY <1>1, <1>2, FS_UNION DEF Held
<1>4. QED
  BY <1>3, FS_CardinalityType

(* One key more adds the length of its chunk. *)
LEMMA HeldStep ==
  ASSUME NEW v, NEW S, IsFiniteSet(S), \A k \in S : Len(v[k]) \in Nat, NEW k \in S
  PROVE  Cardinality(Held(v, S)) = Len(v[k]) + Cardinality(Held(v, S \ {k}))
<1> DEFINE F == {k} \X (1..Len(v[k]))
           R == Held(v, S \ {k})
<1>1. Held(v, S) = F \cup R /\ F \cap R = {}
  BY DEF Held
<1>2. IsFiniteSet(F) /\ Cardinality(F) = Len(v[k])
  BY RowSize
<1>3. IsFiniteSet(R) /\ Cardinality(R) \in Nat
  <2>1. IsFiniteSet(S \ {k})
    BY FS_Subset
  <2>2. QED
    BY <2>1, HeldFinite
<1> HIDE DEF F, R
<1>4. Cardinality(F \cup R) = Cardinality(F) + Cardinality(R) - Cardinality(F \cap R)
  BY <1>2, <1>3, FS_Union
<1>5. Cardinality(F \cap R) = 0
  BY <1>1, FS_EmptySet
<1>6. Cardinality(Held(v, S)) = Len(v[k]) + Cardinality(R) - 0
  BY <1>1, <1>2, <1>4, <1>5, Zenon
<1>7. QED
  BY <1>3, <1>6 DEF R

(* Fewer keys hold no more.                                                 *)
LEMMA HeldFewer ==
  ASSUME NEW v, NEW S, IsFiniteSet(S), \A k \in S : Len(v[k]) \in Nat, NEW T \in SUBSET S
  PROVE  Cardinality(Held(v, T)) <= Cardinality(Held(v, S))
<1>1. Held(v, T) \subseteq Held(v, S)
  BY DEF Held
<1>2. IsFiniteSet(Held(v, S))
  BY HeldFinite
<1>3. QED
  BY <1>1, <1>2, FS_Subset

(* A map without a key, and a map with one more.                            *)
Without(v, S, h) == [k \in S \ {h} |-> v[k]]
With(v, S, h, c) == [k \in S \cup {h} |-> IF k = h THEN c ELSE v[k]]

(* The evicted key takes the length of its chunk along.                     *)
LEMMA HeldEvict ==
  ASSUME NEW v, NEW S, IsFiniteSet(S), \A k \in S : Len(v[k]) \in Nat, NEW h \in S
  PROVE  /\ Cardinality(Held(v, S)) = Len(v[h]) + Cardinality(Held(Without(v, S, h), S \ {h}))
         /\ Cardinality(Held(Without(v, S, h), S \ {h})) \in Nat
<1>1. Held(Without(v, S, h), S \ {h}) = Held(v, S \ {h})
  BY DEF Held, Without
<1>2. Cardinality(Held(v, S)) = Len(v[h]) + Cardinality(Held(v, S \ {h}))
  BY HeldStep
<1>3. IsFiniteSet(S \ {h})
  BY FS_Subset
<1>4. Cardinality(Held(v, S \ {h})) \in Nat
  BY <1>3, HeldFinite
<1>5. QED
  BY <1>1, <1>2, <1>4, Zenon

(* An inserted chunk adds no more than its length.                          *)
LEMMA HeldInsert ==
  ASSUME NEW v, NEW S, IsFiniteSet(S), \A k \in S : Len(v[k]) \in Nat,
         NEW h, NEW c, Len(c) \in Nat
  PROVE  /\ IsFiniteSet(S \cup {h})
         /\ Cardinality(Held(With(v, S, h, c), S \cup {h})) <= Len(c) + Cardinality(Held(v, S))
         /\ Cardinality(Held(With(v, S, h, c), S \cup {h})) \in Nat
<1> DEFINE N == S \cup {h}
           w == With(v, S, h, c)
<1>1. IsFiniteSet(N)
  BY FS_AddElement
<1>2. w[h] = c /\ \A k \in N : Len(w[k]) \in Nat
  BY DEF With
<1>3. Cardinality(Held(w, N)) = Len(w[h]) + Cardinality(Held(w, N \ {h}))
  BY <1>1, <1>2, HeldStep
<1>4. Held(w, N \ {h}) = Held(v, S \ {h})
  BY DEF Held, With
<1> HIDE DEF w
<1>5. Cardinality(Held(v, S \ {h})) <= Cardinality(Held(v, S))
  BY HeldFewer
<1>6. Cardinality(Held(w, N)) \in Nat /\ Cardinality(Held(v, S)) \in Nat
  BY <1>1, <1>2, HeldFinite
<1>7. IsFiniteSet(S \ {h})
  BY FS_Subset
<1>8. Cardinality(Held(v, S \ {h})) \in Nat
  BY <1>7, HeldFinite
<1>9. Cardinality(Held(w, N)) = Len(c) + Cardinality(Held(v, S \ {h}))
  BY <1>2, <1>3, <1>4, Zenon
<1>10. QED
  BY <1>1, <1>5, <1>6, <1>8, <1>9 DEF w

Pick(s) == CHOOSE x \in s : TRUE

(* The function MapThenSumSet computes the sum with. *)
Sum(v, D) == CHOOSE g : g = [s \in SUBSET D |->
               IF s = {} THEN 0 ELSE Len(v[Pick(s)]) + g[s \ {Pick(s)}]]

LEMMA SumIsHeld ==
  ASSUME NEW v, NEW D, IsFiniteSet(D), \A k \in D : Len(v[k]) \in Nat
  PROVE  Sum(v, D)[D] = Cardinality(Held(v, D))
<1> DEFINE E(g) == g = [s \in SUBSET D |->
             IF s = {} THEN 0 ELSE Len(v[Pick(s)]) + g[s \ {Pick(s)}]]
           G == [s \in SUBSET D |-> Cardinality(Held(v, s))]
           f == Sum(v, D)
<1>1. ASSUME NEW s \in SUBSET D, s # {}
      PROVE  Pick(s) \in s
  BY <1>1 DEF Pick
<1>2. Cardinality(Held(v, {})) = 0
  <2>1. Held(v, {}) = {}
    BY DEF Held
  <2>2. QED
    BY <2>1, FS_EmptySet
<1>3. ASSUME NEW s \in SUBSET D, s # {}
      PROVE  Cardinality(Held(v, s)) = Len(v[Pick(s)]) + Cardinality(Held(v, s \ {Pick(s)}))
  <2>1. IsFiniteSet(s)
    BY FS_Subset
  <2>2. QED
    BY <1>1, <1>3, <2>1, HeldStep
<1>4. E(G)
  <2>1. ASSUME NEW s \in SUBSET D
        PROVE  G[s] = IF s = {} THEN 0 ELSE Len(v[Pick(s)]) + G[s \ {Pick(s)}]
    BY <1>1, <1>2, <1>3
  <2>2. QED
    BY <2>1
<1>5. E(f)
  <2> HIDE DEF G
  <2>1. \E g : E(g)
    BY <1>4
  <2>2. QED
    BY <2>1 DEF Sum
<1> HIDE DEF f
<1>6. ASSUME NEW s \in SUBSET D
      PROVE  f[s] = IF s = {} THEN 0 ELSE Len(v[Pick(s)]) + f[s \ {Pick(s)}]
  BY <1>5
<1> DEFINE T == {s \in SUBSET D : f[s] # Cardinality(Held(v, s))}
<1>7. SUFFICES ASSUME T # {}
               PROVE  FALSE
  BY DEF f
<1>8. IsWellFoundedOn(StrictSubsetOrdering(D), SUBSET D)
  BY FS_StrictSubsetOrderingWellFounded, FS_FiniteSubsetsOfFinite
<1>9. PICK s \in T : \A u \in T : <<u, s>> \notin StrictSubsetOrdering(D)
  <2> HIDE DEF T
  <2>1. T \subseteq SUBSET D
    BY DEF T
  <2>2. QED
    BY <1>7, <1>8, <2>1, WFMin
<1>10. s # {}
  BY <1>2, <1>6
<1>11. Pick(s) \in s
  BY <1>1, <1>10
<1>12. <<s \ {Pick(s)}, s>> \in StrictSubsetOrdering(D)
  BY <1>11 DEF StrictSubsetOrdering
<1>13. f[s \ {Pick(s)}] = Cardinality(Held(v, s \ {Pick(s)}))
  BY <1>9, <1>12
<1>14. f[s] = Cardinality(Held(v, s))
  BY <1>3, <1>6, <1>10, <1>11, <1>13
<1>15. QED
  BY <1>14

----------------------------------------------------------------------------
(* The order of eviction. *)

(* The smallest member of a set of naturals is a member. *)
LEMMA MinMember ==
  ASSUME NEW S \in SUBSET Nat, S # {}
  PROVE  Min(S) \in S
<1> DEFINE R == {ss \in Nat \X Nat : ss[1] < ss[2]}
<1>1. IsWellFoundedOn(R, Nat)
  BY NatLessThanWellFounded DEF OpToRel
<1>2. \E x \in S : \A y \in S : <<y, x>> \notin R
  <2> HIDE DEF R
  <2>1. QED
    BY <1>1, WFMin
<1>3. \E x \in S : \A y \in S : x <= y
  <2>1. PICK x \in S : \A y \in S : <<y, x>> \notin R
    BY <1>2
  <2>2. ASSUME NEW y \in S
        PROVE  x <= y
    <3>1. x \in Nat /\ y \in Nat
      OBVIOUS
    <3>2. ~(y < x)
      BY <2>1, <3>1
    <3>3. QED
      BY <3>1, <3>2
  <2>3. QED
    BY <2>2
<1>4. QED
  BY <1>3 DEF Min

LEMMA MemberOfRange ==
  ASSUME NEW S, NEW s \in Seq(S), NEW i \in 1..Len(s)
  PROVE  s[i] \in Range(s)
  BY DEF Range

(* Removing the first e leaves every other member in the sequence.          *)
LEMMA RemoveFirstKeeps ==
  ASSUME NEW S, NEW s \in Seq(S), NEW e \in Range(s)
  PROVE  /\ RemoveFirst(s, e) \in Seq(S)
         /\ Range(s) \subseteq Range(RemoveFirst(s, e)) \cup {e}
<1> DEFINE I == {i \in 1..Len(s) : s[i] = e}
<1>0. Len(s) \in Nat /\ DOMAIN s = 1..Len(s)
  OBVIOUS
<1>1. I \in SUBSET Nat /\ I # {}
  BY <1>0 DEF Range
<1>2. PICK i \in 1..Len(s) : i = Min(I) /\ s[i] = e
  BY <1>1, MinMember
<1>3. RemoveFirst(s, e) = SubSeq(s, 1, i - 1) \o SubSeq(s, i + 1, Len(s))
  BY <1>1, <1>2 DEF RemoveFirst, RemoveAt, SelectInSeq
<1> DEFINE a == SubSeq(s, 1, i - 1)
           b == SubSeq(s, i + 1, Len(s))
<1>4. /\ a \in Seq(S) /\ Len(a) = i - 1
      /\ \A j \in 1..(i - 1) : a[j] = s[j]
  OBVIOUS
<1>5. /\ b \in Seq(S) /\ Len(b) = Len(s) - i
      /\ \A j \in 1..(Len(s) - i) : b[j] = s[i + j]
  OBVIOUS
<1> HIDE DEF a, b
<1>6. /\ a \o b \in Seq(S) /\ Len(a \o b) = Len(s) - 1
      /\ \A j \in 1..(Len(s) - 1) : (a \o b)[j] = IF j <= i - 1 THEN a[j] ELSE b[j - (i - 1)]
  <2>1. Len(a) + Len(b) = Len(s) - 1
    BY <1>0, <1>4, <1>5
  <2>2. /\ a \o b \in Seq(S) /\ Len(a \o b) = Len(a) + Len(b)
        /\ \A j \in 1..(Len(a) + Len(b)) : (a \o b)[j] = IF j <= Len(a) THEN a[j] ELSE b[j - Len(a)]
    BY <1>4, <1>5, ConcatProperties, Zenon
  <2>3. QED
    BY <1>4, <2>1, <2>2, Zenon
<1>7. ASSUME NEW x \in Range(s), x # e
      PROVE  x \in Range(a \o b)
  <2>1. PICK j \in 1..Len(s) : x = s[j]
    BY <1>0 DEF Range
  <2>2. j # i
    BY <1>2, <1>7, <2>1
  <2>3. CASE j < i
    <3>1. j \in 1..(Len(s) - 1) /\ (a \o b)[j] = s[j]
      BY <1>0, <1>4, <1>6, <2>3
    <3>2. QED
      BY <1>6, <2>1, <3>1, MemberOfRange
  <2>4. CASE j > i
    <3>1. j - 1 \in 1..(Len(s) - 1) /\ ~(j - 1 <= i - 1) /\ j - i \in 1..(Len(s) - i)
      BY <1>0, <2>4
    <3>2. (j - 1) - (i - 1) = j - i /\ i + (j - i) = j
      OBVIOUS
    <3>3. (a \o b)[j - 1] = s[j]
      BY <1>5, <1>6, <3>1, <3>2
    <3>4. QED
      BY <1>6, <2>1, <3>1, <3>3, MemberOfRange
  <2>5. QED
    BY <2>2, <2>3, <2>4
<1>8. QED
  BY <1>3, <1>6, <1>7 DEF a, b

LEMMA AppendRange ==
  ASSUME NEW S, NEW s \in Seq(S), NEW e \in S
  PROVE  Append(s, e) \in Seq(S) /\ Range(Append(s, e)) = Range(s) \cup {e}
<1>1. /\ Append(s, e) \in Seq(S) /\ Len(Append(s, e)) = Len(s) + 1
      /\ \A i \in 1..Len(s) : Append(s, e)[i] = s[i]
      /\ Append(s, e)[Len(s) + 1] = e
  BY AppendProperties
<1>2. QED
  BY <1>1 DEF Range

(* A hit loses no key of the order. *)
LEMMA TouchedKeeps ==
  ASSUME NEW S, order \in Seq(S), NEW k \in S
  PROVE  Touched(k) \in Seq(S) /\ Range(order) \subseteq Range(Touched(k))
<1>1. CASE k \in Range(order)
  BY <1>1, RemoveFirstKeeps, AppendRange DEF Touched
<1>2. CASE k \notin Range(order)
  BY <1>2, AppendRange DEF Touched
<1>3. QED
  BY <1>1, <1>2

(* Dropping the head loses only the head. *)
LEMMA TailRange ==
  ASSUME NEW S, NEW s \in Seq(S), s # <<>>
  PROVE  Tail(s) \in Seq(S) /\ Range(s) \subseteq Range(Tail(s)) \cup {Head(s)}
<1>1. /\ Tail(s) \in Seq(S) /\ Len(Tail(s)) = Len(s) - 1 /\ Len(s) \in Nat
      /\ \A i \in 1..Len(Tail(s)) : Tail(s)[i] = s[i + 1]
  BY HeadTailProperties
<1>2. Head(s) = s[1]
  OBVIOUS
<1>3. ASSUME NEW x \in Range(s), x # Head(s)
      PROVE  x \in Range(Tail(s))
  <2>1. PICK j \in 1..Len(s) : x = s[j]
    BY DEF Range
  <2>2. j - 1 \in 1..Len(Tail(s)) /\ (j - 1) + 1 = j
    BY <1>1, <1>2, <1>3, <2>1
  <2>3. Tail(s)[j - 1] = x
    BY <1>1, <2>1, <2>2
  <2>4. QED
    BY <1>1, <2>2, <2>3, MemberOfRange
<1>4. QED
  BY <1>1, <1>3

----------------------------------------------------------------------------
(* Ranges and chunks. *)

LEMMA DivRange ==
  ASSUME NEW a \in Nat, NEW b \in Nat \ {0}
  PROVE  a \div b \in Nat /\ (a \div b) * b <= a /\ a < (a \div b) * b + b
  OBVIOUS

LEMMA DivUnique ==
  ASSUME NEW a \in Nat, NEW b \in Nat \ {0}, NEW k \in Nat, k * b <= a, a < k * b + b
  PROVE  a \div b = k
  OBVIOUS

(* A chunk that starts within the file is one of its chunks. *)
LEMMA DivBelow ==
  ASSUME NEW k \in Nat, NEW n \in Nat \ {0}, NEW b \in Nat \ {0}, k * b < n
  PROVE  k <= ((n + b - 1) \div b) - 1
  OBVIOUS

LEMMA DivStart ==
  ASSUME NEW k \in Nat, NEW n \in Nat \ {0}, NEW b \in Nat \ {0},
         k <= ((n + b - 1) \div b) - 1
  PROVE  k * b < n
  OBVIOUS

LEMMA MultMono ==
  ASSUME NEW a \in Nat, NEW c \in Nat, NEW b \in Nat \ {0}, a <= c
  PROVE  a * b <= c * b
  OBVIOUS

(* The bytes of a row. *)
LEMMA BytesSeq ==
  ASSUME NEW f \in Files, NEW a \in Nat, NEW n \in Nat
  PROVE  /\ Bytes(f, a, n) \in Seq(Files \X Nat) /\ Len(Bytes(f, a, n)) = n
         /\ \A i \in 1..n : Bytes(f, a, n)[i] = <<f, a + i - 1>>
<1>1. Bytes(f, a, n) \in [1..n -> Files \X Nat]
  BY DEF Bytes
<1>2. QED
  BY <1>1 DEF Bytes

LEMMA BytesNone ==
  ASSUME NEW f, NEW a
  PROVE  Bytes(f, a, 0) = <<>>
  BY DEF Bytes

(* A sequence and a slice of another one. *)
LEMMA SliceJoin ==
  ASSUME NEW S, NEW s1 \in Seq(S), NEW s2 \in Seq(S), NEW p \in Nat, NEW k \in Nat,
         p + k <= Len(s2), NEW s, s = s1 \o SubSeq(s2, p + 1, p + k)
  PROVE  /\ s \in Seq(S) /\ Len(s) = Len(s1) + k
         /\ \A i \in 1..Len(s1) : s[i] = s1[i]
         /\ \A i \in 1..k : s[Len(s1) + i] = s2[p + i]
<1> DEFINE y == SubSeq(s2, p + 1, p + k)
<1>1. y \in Seq(S) /\ Len(y) = k /\ Len(s1) \in Nat
  OBVIOUS
<1>2. ASSUME NEW i \in 1..k
      PROVE  y[i] = s2[p + i]
  OBVIOUS
<1>3. s = s1 \o y
  OBVIOUS
<1> HIDE DEF y
<1>4. /\ s \in Seq(S) /\ Len(s) = Len(s1) + Len(y)
      /\ \A i \in 1..(Len(s1) + Len(y)) : s[i] = IF i <= Len(s1) THEN s1[i] ELSE y[i - Len(s1)]
  BY <1>1, <1>3, ConcatProperties
<1>5. ASSUME NEW i \in 1..Len(s1)
      PROVE  s[i] = s1[i]
  BY <1>1, <1>4
<1>6. ASSUME NEW i \in 1..k
      PROVE  s[Len(s1) + i] = s2[p + i]
  <2>1. /\ Len(s1) + i \in 1..(Len(s1) + Len(y)) /\ ~(Len(s1) + i <= Len(s1))
        /\ (Len(s1) + i) - Len(s1) = i
    BY <1>1
  <2>2. QED
    BY <1>2, <1>4, <2>1
<1>7. QED
  BY <1>1, <1>4, <1>5, <1>6

(* The slice of n bytes behind the first `skip' of a row of len bytes from  *)
(* b continues the row of m bytes from a.                                   *)
Joins(f, a, m, b, len, skip, n) ==
  Bytes(f, a, m) \o SubSeq(Bytes(f, b, len), skip + 1, skip + n) = Bytes(f, a, m + n)

(* It does if it begins where the row ends.                                 *)
LEMMA BytesJoin ==
  ASSUME NEW f \in Files, NEW a \in Nat, NEW m \in Nat, NEW b \in Nat, NEW len \in Nat,
         NEW skip \in Nat, NEW n \in Nat, skip + n <= len, b + skip = a + m
  PROVE  Joins(f, a, m, b, len, skip, n)
<1> DEFINE K == Files \X Nat
           x == Bytes(f, a, m)
           v == Bytes(f, b, len)
           w == x \o SubSeq(v, skip + 1, skip + n)
           z == Bytes(f, a, m + n)
<1>1. x \in Seq(K) /\ Len(x) = m /\ \A i \in 1..m : x[i] = <<f, a + i - 1>>
  BY BytesSeq
<1>2. v \in Seq(K) /\ Len(v) = len /\ \A i \in 1..len : v[i] = <<f, b + i - 1>>
  BY BytesSeq
<1>3. z \in Seq(K) /\ Len(z) = m + n /\ \A i \in 1..(m + n) : z[i] = <<f, a + i - 1>>
  <2>1. m + n \in Nat
    OBVIOUS
  <2>2. QED
    BY <2>1, BytesSeq
<1> HIDE DEF K, x, v, z
<1>4. /\ w \in Seq(K) /\ Len(w) = m + n
      /\ \A i \in 1..m : w[i] = x[i]
      /\ \A i \in 1..n : w[m + i] = v[skip + i]
  <2>1. skip + n <= Len(v) /\ w = x \o SubSeq(v, skip + 1, skip + n)
    BY <1>2
  <2> HIDE DEF w
  <2>2. /\ w \in Seq(K) /\ Len(w) = Len(x) + n
        /\ \A i \in 1..Len(x) : w[i] = x[i]
        /\ \A i \in 1..n : w[Len(x) + i] = v[skip + i]
    <3>1. x \in Seq(K) /\ v \in Seq(K) /\ skip \in Nat /\ n \in Nat
      BY <1>1, <1>2
    <3>2. ASSUME NEW S, NEW s1 \in Seq(S), NEW s2 \in Seq(S), NEW p \in Nat, NEW k \in Nat,
                 p + k <= Len(s2), NEW s, s = s1 \o SubSeq(s2, p + 1, p + k)
          PROVE  /\ s \in Seq(S) /\ Len(s) = Len(s1) + k
                 /\ \A i \in 1..Len(s1) : s[i] = s1[i]
                 /\ \A i \in 1..k : s[Len(s1) + i] = s2[p + i]
      BY <3>2, SliceJoin
    <3>3. QED
      BY <2>1, <3>1, <3>2
  <2>3. QED
    BY <1>1, <2>2, Zenon
<1> HIDE DEF w
<1>5. ASSUME NEW i \in 1..(m + n)
      PROVE  w[i] = z[i]
  <2>1. CASE i \in 1..m
    BY <1>1, <1>3, <1>4, <2>1
  <2>2. CASE i \notin 1..m
    <3>1. PICK j \in 1..n : i = m + j
      <4>1. i - m \in 1..n /\ i = m + (i - m)
        BY <2>2
      <4>2. QED
        BY <4>1
    <3>2. skip + j \in 1..len /\ b + (skip + j) - 1 = a + i - 1
      BY <3>1
    <3>3. w[i] = v[skip + j]
      BY <1>4, <3>1
    <3>4. v[skip + j] = <<f, b + (skip + j) - 1>>
      BY <1>2, <3>2
    <3>5. QED
      BY <1>3, <3>2, <3>3, <3>4
  <2>3. QED
    BY <2>1, <2>2
<1>6. w = z
  BY <1>3, <1>4, <1>5, SeqEqual
<1>7. QED
  BY <1>6 DEF w, x, v, z, Joins

(* How far a read is when it comes to chunk i. *)
Gathered(r, i) == Lesser(ReadLen(r), SatSub(i * CHUNK_SIZE, r.offset))

(* What a read takes from a chunk that starts at `start'. *)
LEMMA SliceArithmetic ==
  ASSUME NEW cs \in Nat \ {0}, NEW size \in Nat, NEW off \in Nat, NEW len \in Nat,
         NEW start \in Nat, off < size, off + len <= size,
         start <= off + len - 1, off < start + cs
  PROVE  LET skip == SatSub(off, start)
             full == Lesser(cs, size - start)
             done == Lesser(len, SatSub(start, off))
             n == Lesser(full - skip, SatSub(len, done))
         IN  /\ start < size /\ full \in Nat /\ skip \in Nat /\ skip <= full
             /\ done \in Nat /\ n \in Nat /\ skip + n <= full
             /\ start + skip = off + done
             /\ Lesser(len, SatSub(start + cs, off)) = done + n
             /\ start <= off + done /\ off + done + n <= start + cs
  BY DEF SatSub, Lesser

LEMMA RequestShape ==
  ASSUME NEW r \in Requests
  PROVE  /\ r.file \in Files /\ r.offset \in Nat /\ r.size \in Nat
         /\ FileSize[r.file] \in Nat /\ CHUNK_SIZE \in Nat \ {0}
         /\ r.offset < FileSize[r.file] =>
              ReadLen(r) \in Nat /\ r.offset + ReadLen(r) <= FileSize[r.file]
<1>1. r.file \in Files /\ r.offset \in Nat /\ r.size \in Nat
  BY ChunkCacheAssumption DEF Requests
<1>2. FileSize[r.file] \in Nat /\ CHUNK_SIZE \in Nat \ {0}
  BY <1>1, ChunkCacheAssumption
<1>3. QED
  BY <1>1, <1>2 DEF ReadLen, Lesser

(* A read that is about to take chunk i. *)
LEMMA SliceOfRead ==
  ASSUME NEW r \in Requests, NEW i \in Nat,
         r.offset < FileSize[r.file], r.offset + ReadLen(r) > 0,
         StartChunk(r) <= i, i <= EndChunk(r)
  PROVE  LET start == i * CHUNK_SIZE
             skip == SatSub(r.offset, start)
             full == Lesser(CHUNK_SIZE, FileSize[r.file] - start)
             done == Gathered(r, i)
             n == Lesser(full - skip, SatSub(ReadLen(r), done))
         IN  /\ start \in Nat /\ full \in Nat /\ skip \in Nat /\ skip <= full
             /\ done \in Nat /\ n \in Nat /\ skip + n <= full
             /\ start + skip = r.offset + done
             /\ Gathered(r, i + 1) = done + n
             /\ \A j \in done..(done + n - 1) : (r.offset + j) \div CHUNK_SIZE = i
             /\ <<r.file, i>> \in Keys
<1> DEFINE start == i * CHUNK_SIZE
           off == r.offset
           len == ReadLen(r)
           size == FileSize[r.file]
<1>1. /\ r.file \in Files /\ off \in Nat /\ size \in Nat /\ CHUNK_SIZE \in Nat \ {0}
      /\ len \in Nat /\ off + len <= size /\ off < size /\ off + len > 0
  BY RequestShape
<1>2. start \in Nat /\ (i + 1) * CHUNK_SIZE = start + CHUNK_SIZE
  BY <1>1
<1>3. start <= off + len - 1
  <2> DEFINE e == EndChunk(r)
  <2>1. PICK last \in Nat : last = off + len - 1
    BY <1>1
  <2>2. e = last \div CHUNK_SIZE
    BY <2>1 DEF EndChunk, LastByte
  <2>3. e \in Nat /\ e * CHUNK_SIZE <= last
    BY <1>1, <2>2, DivRange
  <2>4. start <= e * CHUNK_SIZE
    BY <1>1, <2>3, MultMono
  <2>5. e * CHUNK_SIZE \in Nat
    BY <1>1, <2>3
  <2> HIDE DEF e, start
  <2>6. QED
    BY <1>1, <1>2, <2>1, <2>3, <2>4, <2>5
<1>4. off < start + CHUNK_SIZE
  <2> DEFINE b == StartChunk(r)
  <2>1. b \in Nat /\ off < b * CHUNK_SIZE + CHUNK_SIZE
    BY <1>1, DivRange DEF StartChunk
  <2>2. b * CHUNK_SIZE <= start /\ b * CHUNK_SIZE \in Nat
    BY <1>1, <2>1, MultMono
  <2> HIDE DEF b, start
  <2>3. QED
    BY <1>1, <1>2, <2>1, <2>2
<1> DEFINE skip == SatSub(off, start)
           full == Lesser(CHUNK_SIZE, size - start)
           done == Lesser(len, SatSub(start, off))
           n == Lesser(full - skip, SatSub(len, done))
<1> HIDE DEF start, off, len, size
<1>5. /\ start < size /\ full \in Nat /\ skip \in Nat /\ skip <= full
      /\ done \in Nat /\ n \in Nat /\ skip + n <= full
      /\ start + skip = off + done
      /\ Lesser(len, SatSub(start + CHUNK_SIZE, off)) = done + n
      /\ start <= off + done /\ off + done + n <= start + CHUNK_SIZE
  BY <1>1, <1>2, <1>3, <1>4, SliceArithmetic
<1>6. done = Gathered(r, i) /\ Gathered(r, i + 1) = done + n
  BY <1>2, <1>5 DEF Gathered, start, off, len
<1> HIDE DEF skip, full, done, n
<1>7. ASSUME NEW j \in done..(done + n - 1)
      PROVE  (off + j) \div CHUNK_SIZE = i
  <2>1. off + j \in Nat /\ start <= off + j /\ off + j < start + CHUNK_SIZE
    BY <1>1, <1>2, <1>5
  <2>2. QED
    BY <1>1, <2>1, DivUnique DEF start
<1>8. <<r.file, i>> \in Keys
  <2>1. size \in Nat \ {0} /\ i * CHUNK_SIZE < size
    BY <1>1, <1>2, <1>5 DEF start
  <2>2. i <= ((size + CHUNK_SIZE - 1) \div CHUNK_SIZE) - 1
    BY <1>1, <2>1, DivBelow
  <2>3. i <= ChunkCount(r.file) - 1
    BY <2>2 DEF ChunkCount, CeilDiv, size
  <2>4. ChunkCount(r.file) \in Nat
    BY <1>1 DEF ChunkCount, CeilDiv, size
  <2>5. i \in 0..(ChunkCount(r.file) - 1)
    BY <2>3, <2>4
  <2>6. r.file \in {g \in Files : FileSize[g] > 0}
    BY <1>1 DEF size
  <2>7. QED
    BY <2>5, <2>6 DEF Keys
<1>9. QED
  BY <1>2, <1>5, <1>6, <1>7, <1>8 DEF start, off, len, size, skip, full, n

(* Behind the last chunk the whole range is gathered, before the first one  *)
(* nothing is.                                                              *)
LEMMA GatheredAll ==
  ASSUME NEW r \in Requests, NEW i \in Nat,
         r.offset < FileSize[r.file], r.offset + ReadLen(r) > 0, EndChunk(r) < i
  PROVE  Gathered(r, i) = ReadLen(r)
<1> DEFINE start == i * CHUNK_SIZE
           off == r.offset
           len == ReadLen(r)
           e == EndChunk(r)
<1>1. off \in Nat /\ CHUNK_SIZE \in Nat \ {0} /\ len \in Nat /\ off + len > 0
  BY RequestShape
<1>2. PICK last \in Nat : last = off + len - 1
  BY <1>1
<1>3. e \in Nat /\ last < e * CHUNK_SIZE + CHUNK_SIZE
  BY <1>1, <1>2, DivRange DEF EndChunk, LastByte
<1>4. e * CHUNK_SIZE + CHUNK_SIZE <= start /\ e * CHUNK_SIZE \in Nat /\ start \in Nat
  <2>1. (e + 1) * CHUNK_SIZE <= i * CHUNK_SIZE
    BY <1>1, <1>3, MultMono
  <2>2. (e + 1) * CHUNK_SIZE = e * CHUNK_SIZE + CHUNK_SIZE
    BY <1>1, <1>3
  <2>3. QED
    BY <1>1, <1>3, <2>1, <2>2
<1> HIDE DEF start, off, len, e
<1>5. Lesser(len, SatSub(start, off)) = len
  BY <1>1, <1>2, <1>3, <1>4 DEF Lesser, SatSub
<1>6. QED
  BY <1>5 DEF Gathered, start, off, len

LEMMA GatheredNone ==
  ASSUME NEW r \in Requests, r.offset < FileSize[r.file]
  PROVE  StartChunk(r) \in Nat /\ Gathered(r, StartChunk(r)) = 0
<1> DEFINE off == r.offset
           len == ReadLen(r)
           start == StartChunk(r) * CHUNK_SIZE
<1>1. off \in Nat /\ CHUNK_SIZE \in Nat \ {0} /\ len \in Nat
  BY RequestShape
<1>2. StartChunk(r) \in Nat /\ start <= off /\ start \in Nat
  BY <1>1, DivRange DEF StartChunk
<1> HIDE DEF off, len, start
<1>3. Lesser(len, SatSub(start, off)) = 0
  BY <1>1, <1>2 DEF Lesser, SatSub
<1>4. QED
  BY <1>2, <1>3 DEF Gathered, off, len, start

----------------------------------------------------------------------------
(* The inductive invariant. *)

AtWork == {"loop", "lookup", "decrypt", "insert", "evict"}
InLoop == AtWork \ {"loop"}

CacheTypes ==
  /\ max_bytes \in Nat /\ bytes \in Nat
  /\ order \in Seq(Files \X Nat)
  /\ IsFiniteSet(DOMAIN values)
  /\ pc \in [Threads -> AtWork \cup {"idle", "ok", "error"}]
  /\ index \in [Threads -> Nat]
  /\ DOMAIN req = Threads /\ DOMAIN chunk = Threads /\ DOMAIN output = Threads
  /\ unreadable \in [Threads -> BOOLEAN]
  /\ \A t \in Threads : pc[t] # "idle" => req[t] \in Requests

(* A decrypted chunk is the plaintext that was authenticated under its key. *)
Sound(k, v) == k \in Keys /\ k \notin corrupt /\ v = decrypt_chunk(k)

SoundInv == \A k \in DOMAIN values : Sound(k, values[k])

LockInv == \A t \in Threads : pc[t] = "evict" => lock = t

(* The account may exceed what is held, never the other way round, and      *)
(* every key that is held can be evicted.                                   *)
AccountInv ==
  /\ Cardinality(Held(values, DOMAIN values)) <= bytes
  /\ Cardinality(Held(values, DOMAIN values)) <= max_bytes
  /\ DOMAIN values \subseteq Range(order)

(* The bytes from..to-1 of a request come from undamaged chunks.            *)
Clean(r, from, to) ==
  \A j \in from..(to - 1) : <<r.file, (r.offset + j) \div CHUNK_SIZE>> \notin corrupt

(* A chunk on its way into the cache is sound, and fits before any is       *)
(* evicted for it.                                                          *)
Holding(t) ==
  /\ pc[t] \in {"insert", "evict"} => Sound(KeyOf(t), chunk[t])
  /\ pc[t] = "evict" => Cacheable(chunk[t])

(* A read in progress has gathered the bytes in front of the next chunk.    *)
Reading(t) ==
  pc[t] \in AtWork =>
    LET r == req[t]
    IN  /\ r.offset < FileSize[r.file] /\ r.offset + ReadLen(r) > 0
        /\ StartChunk(r) <= index[t]
        /\ pc[t] \in InLoop => index[t] <= EndChunk(r)
        /\ output[t] = Bytes(r.file, r.offset, Gathered(r, index[t]))
        /\ Clean(r, 0, Gathered(r, index[t]))

(* A read that asks for no byte at the beginning of a file.                 *)
Nothing(r) == r.offset < FileSize[r.file] /\ r.offset + ReadLen(r) = 0

Damaged(r) == \E c \in StartChunk(r)..EndChunk(r) : <<r.file, c>> \in corrupt

(* What a finished read returns, and what a failed one has met.             *)
Returned(t) ==
  LET r == req[t]
  IN  /\ pc[t] = "ok" =>
           \/ r.offset >= FileSize[r.file] /\ output[t] = Bytes(r.file, r.offset, 0)
           \/ /\ r.offset < FileSize[r.file]
              /\ output[t] = Bytes(r.file, r.offset, ReadLen(r)) /\ Clean(r, 0, ReadLen(r))
      /\ pc[t] = "error" => Nothing(r) \/ Damaged(r) \/ unreadable[t] = TRUE

ThreadInv == \A t \in Threads : Holding(t) /\ Reading(t) /\ Returned(t)

CacheInv == CacheTypes /\ SoundInv /\ LockInv /\ AccountInv /\ ThreadInv

----------------------------------------------------------------------------

(* A chunk is a row of bytes. *)
LEMMA ChunkLength ==
  ASSUME NEW k \in Keys
  PROVE  /\ k \in Files \X Nat /\ k = <<k[1], k[2]>>
         /\ Len(decrypt_chunk(k)) \in Nat
<1>1. PICK f \in {g \in Files : FileSize[g] > 0} : k \in {<<f, c>> : c \in 0..(ChunkCount(f) - 1)}
  BY DEF Keys
<1>2. PICK c \in 0..(ChunkCount(f) - 1) : k = <<f, c>>
  BY <1>1
<1>3. FileSize[f] \in Nat \ {0} /\ CHUNK_SIZE \in Nat \ {0}
  BY ChunkCacheAssumption
<1>4. ChunkCount(f) \in Nat
  BY <1>3 DEF ChunkCount, CeilDiv
<1>5. c \in Nat /\ c <= ChunkCount(f) - 1
  BY <1>4
<1>6. c * CHUNK_SIZE < FileSize[f]
  BY <1>3, <1>5, DivStart DEF ChunkCount, CeilDiv
<1> DEFINE start == c * CHUNK_SIZE
           n == Lesser(CHUNK_SIZE, FileSize[f] - start)
<1>7. start \in Nat
  BY <1>3, <1>5
<1>8. n \in Nat
  <2> HIDE DEF start
  <2>1. QED
    BY <1>3, <1>6, <1>7 DEF Lesser, start
<1> HIDE DEF start, n
<1>9. Len(Bytes(f, start, n)) = n
  BY <1>7, <1>8, BytesSeq
<1>10. decrypt_chunk(k) = Bytes(f, start, n)
  BY <1>2 DEF decrypt_chunk, start, n
<1>11. QED
  BY <1>2, <1>5, <1>8, <1>9, <1>10

LEMMA KeyAttributes ==
  ASSUME CacheTypes, NEW t \in Threads, pc[t] # "idle"
  PROVE  KeyOf(t) \in Files \X Nat /\ KeyOf(t) = <<req[t].file, index[t]>>
<1>1. req[t] \in Requests /\ index[t] \in Nat
  BY DEF CacheTypes
<1>2. QED
  BY <1>1, RequestShape DEF KeyOf, CacheKey

LEMMA ValuesHeld ==
  ASSUME CacheTypes, SoundInv
  PROVE  /\ \A k \in DOMAIN values : Len(values[k]) \in Nat
         /\ Cardinality(Held(values, DOMAIN values)) \in Nat
<1>1. \A k \in DOMAIN values : Len(values[k]) \in Nat
  BY ChunkLength DEF SoundInv, Sound
<1>2. QED
  BY <1>1, HeldFinite DEF CacheTypes

(* load_chunk has returned the chunk of the key: the read goes on with one  *)
(* chunk more, and it is never too short.                                   *)
LEMMA TakeStep ==
  ASSUME CacheInv, NEW t \in Threads, pc[t] \in InLoop,
         NEW value, Sound(KeyOf(t), value), Take(t, value),
         req' = req, corrupt' = corrupt
  PROVE  /\ pc' = [pc EXCEPT ![t] = "loop"]
         /\ index' = [index EXCEPT ![t] = @ + 1]
         /\ DOMAIN output' = DOMAIN output
         /\ \A u \in Threads : u # t => output'[u] = output[u]
         /\ LET r == req[t]
                i == index[t] + 1
            IN  /\ StartChunk(r) <= i /\ StartChunk(r) \in Nat
                /\ output'[t] = Bytes(r.file, r.offset, Gathered(r, i))
                /\ Clean(r, 0, Gathered(r, i))
<1> DEFINE q == req[t]
           at == index[t]
           first == at * CHUNK_SIZE
           drop == SatSub(q.offset, first)
           full == Lesser(CHUNK_SIZE, FileSize[q.file] - first)
           done == Gathered(q, at)
           step == Lesser(full - drop, SatSub(ReadLen(q), done))
<1>1. q \in Requests /\ at \in Nat
  BY DEF CacheInv, CacheTypes, InLoop, AtWork
<1>2. /\ q.offset < FileSize[q.file] /\ q.offset + ReadLen(q) > 0
      /\ StartChunk(q) <= at /\ at <= EndChunk(q)
      /\ output[t] = Bytes(q.file, q.offset, done) /\ Clean(q, 0, done)
  BY DEF CacheInv, ThreadInv, Reading, InLoop
<1> HIDE DEF q, at
<1>3. /\ first \in Nat /\ full \in Nat /\ drop \in Nat /\ drop <= full
      /\ done \in Nat /\ step \in Nat /\ drop + step <= full
      /\ first + drop = q.offset + done
      /\ Gathered(q, at + 1) = done + step
      /\ \A j \in done..(done + step - 1) : (q.offset + j) \div CHUNK_SIZE = at
  BY <1>1, <1>2, SliceOfRead
<1>4. KeyOf(t) = <<q.file, at>> /\ q.file \in Files /\ q.offset \in Nat
  BY <1>1, RequestShape DEF KeyOf, CacheKey, q, at
<1>5. value = Bytes(q.file, first, full) /\ <<q.file, at>> \notin corrupt
  BY <1>4 DEF Sound, decrypt_chunk
<1> HIDE DEF first, full, drop, done, step
<1>6. Len(value) = full
  BY <1>3, <1>4, <1>5, BytesSeq
<1>7. Len(output[t]) = done
  <2>1. Len(Bytes(q.file, q.offset, done)) = done
    BY <1>3, <1>4, BytesSeq
  <2>2. QED
    BY <1>2, <2>1, Zenon
<1>8. Slice(t, value) = SubSeq(value, drop + 1, drop + step)
  BY <1>6, <1>7 DEF Slice, q, at, first, drop, step
<1>9. pc' = [pc EXCEPT ![t] = "loop"]
  <2>1. ~(drop > Len(value))
    BY <1>3, <1>6
  <2>2. QED
    BY <2>1 DEF Take, Goto, q, at, first, drop
<1>10. /\ index' = [index EXCEPT ![t] = @ + 1]
       /\ output' = [output EXCEPT ![t] = @ \o Slice(t, value)]
  BY DEF Take
<1>11. DOMAIN output = Threads
  BY DEF CacheInv, CacheTypes
<1>12. output'[t] = Bytes(q.file, q.offset, done + step)
  <2>1. output'[t] = output[t] \o Slice(t, value)
    BY <1>10, <1>11
  <2>2. Bytes(q.file, q.offset, done) \o SubSeq(Bytes(q.file, first, full), drop + 1, drop + step)
          = Bytes(q.file, q.offset, done + step)
    <3>1. /\ q.file \in Files /\ q.offset \in Nat /\ done \in Nat /\ first \in Nat
          /\ full \in Nat /\ drop \in Nat /\ step \in Nat
          /\ drop + step <= full /\ first + drop = q.offset + done
      BY <1>3, <1>4
    <3>2. Joins(q.file, q.offset, done, first, full, drop, step)
      BY <3>1, BytesJoin
    <3>3. QED
      BY <3>2 DEF Joins
  <2>3. QED
    BY <1>2, <1>5, <1>8, <2>1, <2>2
<1>13. Clean(q, 0, done + step)
  <2>1. ASSUME NEW j \in 0..(done + step - 1)
        PROVE  <<q.file, (q.offset + j) \div CHUNK_SIZE>> \notin corrupt
    <3>1. CASE j \in 0..(done - 1)
      BY <1>2, <3>1 DEF Clean
    <3>2. CASE j \notin 0..(done - 1)
      <4>1. j \in done..(done + step - 1)
        BY <1>3, <3>2
      <4>2. QED
        BY <1>3, <1>5, <4>1
    <3>3. QED
      BY <3>1, <3>2
  <2>2. QED
    BY <1>3, <2>1 DEF Clean
<1>14. StartChunk(q) \in Nat /\ StartChunk(q) <= at + 1
  BY <1>1, <1>2, GatheredNone
<1>15. QED
  BY <1>3, <1>9, <1>10, <1>11, <1>12, <1>13, <1>14 DEF q, at

----------------------------------------------------------------------------
(* What the steps of one thread leave to the others. *)

LEMMA Untouched ==
  ASSUME ThreadInv, NEW u \in Threads, UNCHANGED <<max_bytes, corrupt>>,
         pc'[u] = pc[u], req'[u] = req[u], index'[u] = index[u],
         chunk'[u] = chunk[u], output'[u] = output[u], unreadable'[u] = unreadable[u]
  PROVE  Holding(u)' /\ Reading(u)' /\ Returned(u)'
<1>1. Holding(u) /\ Reading(u) /\ Returned(u)
  BY DEF ThreadInv
<1>2. Holding(u)'
  BY <1>1 DEF Holding, Sound, Cacheable, KeyOf
<1>3. Reading(u)'
  BY <1>1 DEF Reading, Clean
<1>4. Returned(u)'
  BY <1>1 DEF Returned, Clean, Damaged
<1>5. QED
  BY <1>2, <1>3, <1>4

(* The thread that takes a chunk is at the loop head again.                 *)
LEMMA TakeThread ==
  ASSUME CacheInv, NEW t \in Threads, pc[t] \in InLoop,
         NEW value, Sound(KeyOf(t), value), Take(t, value),
         req' = req, corrupt' = corrupt
  PROVE  /\ pc' \in [Threads -> AtWork \cup {"idle", "ok", "error"}]
         /\ index' \in [Threads -> Nat] /\ DOMAIN output' = Threads
         /\ pc' = [pc EXCEPT ![t] = "loop"]
         /\ \A u \in Threads \ {t} :
              pc'[u] = pc[u] /\ index'[u] = index[u] /\ output'[u] = output[u]
         /\ Holding(t)' /\ Reading(t)' /\ Returned(t)'
<1>1. /\ pc \in [Threads -> AtWork \cup {"idle", "ok", "error"}]
      /\ index \in [Threads -> Nat] /\ DOMAIN output = Threads
  BY DEF CacheInv, CacheTypes
<1>2. /\ pc' = [pc EXCEPT ![t] = "loop"]
      /\ index' = [index EXCEPT ![t] = @ + 1]
      /\ DOMAIN output' = DOMAIN output
      /\ \A u \in Threads : u # t => output'[u] = output[u]
      /\ StartChunk(req[t]) <= index[t] + 1
      /\ output'[t] = Bytes(req[t].file, req[t].offset, Gathered(req[t], index[t] + 1))
      /\ Clean(req[t], 0, Gathered(req[t], index[t] + 1))
  BY TakeStep
<1>3. req[t].offset < FileSize[req[t].file] /\ req[t].offset + ReadLen(req[t]) > 0
  BY DEF CacheInv, ThreadInv, Reading, InLoop
<1>4. pc'[t] = "loop" /\ index'[t] = index[t] + 1
  BY <1>1, <1>2
<1>5. Holding(t)' /\ Returned(t)'
  BY <1>4 DEF Holding, Returned
<1>6. Reading(t)'
  BY <1>2, <1>3, <1>4 DEF Reading, Clean, InLoop
<1>7. pc' \in [Threads -> AtWork \cup {"idle", "ok", "error"}] /\ index' \in [Threads -> Nat]
  BY <1>1, <1>2 DEF AtWork
<1>8. \A u \in Threads \ {t} : pc'[u] = pc[u] /\ index'[u] = index[u] /\ output'[u] = output[u]
  BY <1>1, <1>2
<1>9. QED
  BY <1>1, <1>2, <1>5, <1>6, <1>7, <1>8

----------------------------------------------------------------------------
(* The steps. *)

LEMMA InitInv ==
  ASSUME Init
  PROVE  CacheInv
<1>1. DOMAIN values = {} /\ order = <<>>
  BY DEF Init
<1>2. IsFiniteSet({}) /\ Held(values, {}) = {}
  BY FS_EmptySet DEF Held
<1>3. CacheTypes
  BY <1>1, <1>2, ChunkCacheAssumption DEF Init, CacheTypes
<1>4. AccountInv
  <2>1. Cardinality(Held(values, DOMAIN values)) = 0
    BY <1>1, <1>2, FS_EmptySet
  <2>2. 0 <= bytes /\ 0 <= max_bytes
    BY <1>3 DEF CacheTypes
  <2>3. QED
    BY <1>1, <2>1, <2>2 DEF AccountInv
<1>5. SoundInv /\ LockInv
  BY <1>1 DEF Init, SoundInv, LockInv
<1>6. ThreadInv
  BY DEF Init, ThreadInv, Holding, Reading, Returned, AtWork
<1>7. QED
  BY <1>3, <1>4, <1>5, <1>6 DEF CacheInv

(* The cache is as it was.                                                  *)
LEMMA CacheKept ==
  ASSUME CacheInv, UNCHANGED <<max_bytes, bytes, values, order, corrupt>>
  PROVE  SoundInv' /\ AccountInv'
<1>1. SoundInv'
  BY DEF CacheInv, SoundInv, Sound
<1>2. AccountInv'
  BY DEF CacheInv, AccountInv
<1>3. QED
  BY <1>1, <1>2

LEMMA ReadInv ==
  ASSUME CacheInv, NEW t \in Threads, NEW r \in Requests, Read(t, r)
  PROVE  CacheInv'
<1>1. /\ pc[t] \notin AtWork
      /\ req' = [req EXCEPT ![t] = r]
      /\ output' = [output EXCEPT ![t] = <<>>]
      /\ unreadable' = [unreadable EXCEPT ![t] = FALSE]
      /\ UNCHANGED <<max_bytes, bytes, values, order, lock, corrupt, chunk>>
  BY DEF Read, AtWork, cacheVars
<1>2. CacheTypes /\ ThreadInv /\ LockInv
  BY DEF CacheInv
<1>3. req'[t] = r /\ output'[t] = <<>>
  BY <1>1, <1>2 DEF CacheTypes
<1>4. \/ /\ r.offset >= FileSize[r.file] /\ pc' = [pc EXCEPT ![t] = "ok"] /\ index' = index
      \/ /\ Nothing(r) /\ pc' = [pc EXCEPT ![t] = "error"] /\ index' = index
      \/ /\ r.offset < FileSize[r.file] /\ r.offset + ReadLen(r) > 0
         /\ pc' = [pc EXCEPT ![t] = "loop"]
         /\ index' = [index EXCEPT ![t] = StartChunk(r)]
  BY DEF Read, Goto, Nothing
<1>5. r.offset < FileSize[r.file] => StartChunk(r) \in Nat /\ Gathered(r, StartChunk(r)) = 0
  BY GatheredNone
<1>6. /\ pc' \in [Threads -> AtWork \cup {"idle", "ok", "error"}] /\ index' \in [Threads -> Nat]
      /\ pc'[t] \in {"ok", "error", "loop"}
      /\ pc'[t] = "ok" => r.offset >= FileSize[r.file]
      /\ pc'[t] = "error" => Nothing(r)
      /\ pc'[t] = "loop" => /\ r.offset < FileSize[r.file] /\ r.offset + ReadLen(r) > 0
                            /\ index'[t] = StartChunk(r)
      /\ \A u \in Threads \ {t} : pc'[u] = pc[u] /\ index'[u] = index[u]
  BY <1>2, <1>4, <1>5 DEF CacheTypes, AtWork
<1>7. CacheTypes'
  BY <1>1, <1>2, <1>6 DEF CacheTypes
<1>8. LockInv'
  BY <1>1, <1>2, <1>6 DEF LockInv
<1>9. ThreadInv'
  <2>1. ASSUME NEW u \in Threads, u # t
        PROVE  Holding(u)' /\ Reading(u)' /\ Returned(u)'
    <3>1. /\ req'[u] = req[u] /\ output'[u] = output[u] /\ chunk'[u] = chunk[u]
          /\ unreadable'[u] = unreadable[u]
      BY <1>1, <1>2, <2>1 DEF CacheTypes
    <3>2. pc'[u] = pc[u] /\ index'[u] = index[u]
      BY <1>6, <2>1
    <3>3. QED
      BY <1>1, <1>2, <3>1, <3>2, Untouched
  <2>2. Holding(t)'
    BY <1>6 DEF Holding
  <2>3. Reading(t)'
    <3>1. CASE pc'[t] = "loop"
      <4>1. output'[t] = Bytes(r.file, r.offset, Gathered(r, StartChunk(r)))
        BY <1>3, <1>5, <1>6, <3>1, BytesNone
      <4>2. Clean(r, 0, Gathered(r, StartChunk(r)))'
        BY <1>5, <1>6, <3>1 DEF Clean
      <4>3. StartChunk(r) <= index'[t]
        BY <1>5, <1>6, <3>1
      <4>4. QED
        BY <1>3, <1>6, <3>1, <4>1, <4>2, <4>3 DEF Reading, InLoop
    <3>2. CASE pc'[t] # "loop"
      BY <1>6, <3>2 DEF Reading, AtWork
    <3>3. QED
      BY <3>1, <3>2
  <2>4. Returned(t)'
    BY <1>3, <1>6, BytesNone DEF Returned
  <2>5. QED
    BY <2>1, <2>2, <2>3, <2>4 DEF ThreadInv
<1>10. QED
  BY <1>1, <1>7, <1>8, <1>9, CacheKept DEF CacheInv

(* The thread of a step is at another place, everything else is as it was.  *)
LEMMA ThreadMoved ==
  ASSUME CacheInv, NEW t \in Threads, pc[t] \in AtWork, UNCHANGED <<max_bytes, req, corrupt>>,
         NEW l, pc' = [pc EXCEPT ![t] = l],
         \A u \in Threads \ {t} :
           /\ index'[u] = index[u] /\ chunk'[u] = chunk[u] /\ output'[u] = output[u]
           /\ unreadable'[u] = unreadable[u],
         Holding(t)' /\ Reading(t)' /\ Returned(t)'
  PROVE  ThreadInv'
<1>1. ASSUME NEW u \in Threads, u # t
      PROVE  Holding(u)' /\ Reading(u)' /\ Returned(u)'
  <2>1. pc'[u] = pc[u]
    BY <1>1 DEF CacheInv, CacheTypes
  <2>2. QED
    BY <1>1, <2>1, Untouched DEF CacheInv
<1>2. QED
  BY <1>1 DEF ThreadInv

LEMMA LoopHeadInv ==
  ASSUME CacheInv, NEW t \in Threads, LoopHead(t)
  PROVE  CacheInv'
<1>1. /\ pc[t] = "loop" /\ CacheTypes /\ LockInv
      /\ UNCHANGED <<max_bytes, bytes, values, order, lock, corrupt, req, chunk, output, unreadable>>
  BY DEF LoopHead, cacheVars, CacheInv
<1>2. req[t] \in Requests /\ index[t] \in Nat
  BY <1>1 DEF CacheTypes
<1> DEFINE r == req[t]
<1>3. /\ r.offset < FileSize[r.file] /\ r.offset + ReadLen(r) > 0
      /\ StartChunk(r) <= index[t]
      /\ output[t] = Bytes(r.file, r.offset, Gathered(r, index[t]))
      /\ Clean(r, 0, Gathered(r, index[t]))
  BY <1>1 DEF CacheInv, ThreadInv, Reading, AtWork
<1>4. CASE index[t] <= EndChunk(r)
  <2>1. pc' = [pc EXCEPT ![t] = "lookup"] /\ index' = index
    <3>1. ~(index[t] > EndChunk(r))
      <4>1. EndChunk(r) \in Int
        BY <1>2, RequestShape, <1>3 DEF EndChunk, LastByte
      <4>2. QED
        BY <1>2, <1>4, <4>1
    <3>2. QED
      BY <3>1 DEF LoopHead, Goto
  <2>2. pc'[t] = "lookup"
    BY <1>1, <2>1 DEF CacheTypes
  <2>3. Holding(t)' /\ Reading(t)' /\ Returned(t)'
    BY <1>1, <1>3, <1>4, <2>1, <2>2 DEF Holding, Reading, Returned, Clean
  <2>4. ThreadInv'
    BY <1>1, <2>1, <2>3, ThreadMoved DEF AtWork
  <2>5. CacheTypes' /\ LockInv'
    BY <1>1, <2>1 DEF CacheTypes, LockInv, AtWork
  <2>6. QED
    BY <1>1, <2>4, <2>5, CacheKept DEF CacheInv
<1>5. CASE ~(index[t] <= EndChunk(r))
  <2>1. EndChunk(r) < index[t]
    <3>1. EndChunk(r) \in Int
      BY <1>2, RequestShape, <1>3 DEF EndChunk, LastByte
    <3>2. QED
      BY <1>2, <1>5, <3>1
  <2>2. Gathered(r, index[t]) = ReadLen(r)
    BY <1>2, <1>3, <2>1, GatheredAll
  <2>3. output[t] = Bytes(r.file, r.offset, ReadLen(r)) /\ Clean(r, 0, ReadLen(r))
    BY <1>3, <2>2
  <2>4. Len(output[t]) = ReadLen(r)
    <3>1. r.file \in Files /\ r.offset \in Nat /\ ReadLen(r) \in Nat
      BY <1>2, <1>3, RequestShape
    <3>2. Len(Bytes(r.file, r.offset, ReadLen(r))) = ReadLen(r)
      BY <3>1, BytesSeq
    <3>3. QED
      BY <2>3, <3>2
  <2>5. pc' = [pc EXCEPT ![t] = "ok"] /\ index' = [index EXCEPT ![t] = 0]
    BY <1>5, <2>4 DEF LoopHead, Goto
  <2>6. pc'[t] = "ok" /\ \A u \in Threads \ {t} : index'[u] = index[u]
    BY <1>1, <2>5 DEF CacheTypes
  <2>7. Holding(t)' /\ Reading(t)'
    BY <2>6 DEF Holding, Reading, AtWork
  <2>8. Returned(t)'
    BY <1>1, <1>3, <2>3, <2>6 DEF Returned, Clean
  <2>9. ThreadInv'
    BY <1>1, <2>5, <2>6, <2>7, <2>8, ThreadMoved DEF AtWork
  <2>10. CacheTypes' /\ LockInv'
    BY <1>1, <2>5 DEF CacheTypes, LockInv, AtWork
  <2>11. QED
    BY <1>1, <2>9, <2>10, CacheKept DEF CacheInv
<1>6. QED
  BY <1>4, <1>5

(* A hit appends the cached chunk, a miss goes on to decrypt.               *)
LEMMA LookupInv ==
  ASSUME CacheInv, NEW t \in Threads, Lookup(t)
  PROVE  CacheInv'
<1>1. /\ pc[t] = "lookup" /\ CacheTypes /\ LockInv /\ SoundInv
      /\ UNCHANGED <<max_bytes, bytes, values, lock, corrupt, req, chunk, unreadable>>
  BY DEF Lookup, cacheVars, CacheInv
<1>2. CASE KeyOf(t) \in DOMAIN values
  <2>1. order' = Touched(KeyOf(t)) /\ Take(t, values[KeyOf(t)])
    BY <1>2 DEF Lookup
  <2>2. Sound(KeyOf(t), values[KeyOf(t)])
    BY <1>1, <1>2 DEF SoundInv
  <2>3. /\ pc' \in [Threads -> AtWork \cup {"idle", "ok", "error"}]
        /\ index' \in [Threads -> Nat] /\ DOMAIN output' = Threads
        /\ pc' = [pc EXCEPT ![t] = "loop"]
        /\ \A u \in Threads \ {t} :
             pc'[u] = pc[u] /\ index'[u] = index[u] /\ output'[u] = output[u]
        /\ Holding(t)' /\ Reading(t)' /\ Returned(t)'
    BY <1>1, <2>1, <2>2, TakeThread DEF InLoop, AtWork
  <2>4. ThreadInv'
    BY <1>1, <2>3, ThreadMoved DEF AtWork
  <2>5. order' \in Seq(Files \X Nat) /\ Range(order) \subseteq Range(order')
    <3>1. KeyOf(t) \in Files \X Nat
      BY <1>1, KeyAttributes
    <3>2. QED
      BY <1>1, <2>1, <3>1, TouchedKeeps DEF CacheTypes
  <2>6. CacheTypes'
    BY <1>1, <2>3, <2>5 DEF CacheTypes
  <2>7. LockInv'
    BY <1>1, <2>3 DEF LockInv, CacheTypes
  <2>8. AccountInv'
    BY <1>1, <2>5 DEF CacheInv, AccountInv
  <2>9. SoundInv'
    BY <1>1 DEF SoundInv, Sound
  <2>10. QED
    BY <2>4, <2>6, <2>7, <2>8, <2>9 DEF CacheInv
<1>3. CASE KeyOf(t) \notin DOMAIN values
  <2>1. /\ pc' = [pc EXCEPT ![t] = "decrypt"]
        /\ UNCHANGED <<order, output, index>>
    BY <1>3 DEF Lookup, Goto, cacheVars
  <2>2. pc'[t] = "decrypt"
    BY <1>1, <2>1 DEF CacheTypes
  <2>3. Reading(t)
    BY DEF CacheInv, ThreadInv
  <2>4. Holding(t)' /\ Reading(t)' /\ Returned(t)'
    BY <1>1, <2>1, <2>2, <2>3 DEF Holding, Reading, Returned, Clean, InLoop, AtWork
  <2>5. ThreadInv'
    BY <1>1, <2>1, <2>4, ThreadMoved DEF AtWork
  <2>6. CacheTypes' /\ LockInv'
    BY <1>1, <2>1 DEF CacheTypes, LockInv, AtWork
  <2>7. QED
    BY <1>1, <2>1, <2>5, <2>6, CacheKept DEF CacheInv
<1>4. QED
  BY <1>2, <1>3

LEMMA DecryptInv ==
  ASSUME CacheInv, NEW t \in Threads, Decrypt(t)
  PROVE  CacheInv'
<1> DEFINE r == req[t]
           key == <<r.file, index[t]>>
<1>1. /\ pc[t] = "decrypt" /\ CacheTypes /\ LockInv /\ Reading(t)
      /\ UNCHANGED <<max_bytes, bytes, values, order, lock, corrupt, req, index, output>>
  BY DEF Decrypt, cacheVars, CacheInv, ThreadInv
<1>2. r \in Requests /\ index[t] \in Nat
  BY <1>1 DEF CacheTypes
<1>3. key \in Keys
  BY <1>1, <1>2, SliceOfRead DEF Reading, InLoop, AtWork
<1>4. CASE pc' = [pc EXCEPT ![t] = "error"] /\ chunk' = chunk
  <2>1. pc'[t] = "error"
    BY <1>1, <1>4 DEF CacheTypes
  <2>2. \/ unreadable' = [unreadable EXCEPT ![t] = TRUE]
        \/ key \in corrupt /\ unreadable' = unreadable
    BY <1>1, <1>3, <1>4, <2>1 DEF Decrypt, Goto, Authentic, CacheTypes
  <2>3. /\ unreadable' \in [Threads -> BOOLEAN]
        /\ \A u \in Threads \ {t} : unreadable'[u] = unreadable[u]
        /\ key \in corrupt \/ unreadable'[t] = TRUE
    BY <1>1, <2>2 DEF CacheTypes
  <2>4. index[t] \in StartChunk(r)..EndChunk(r)
    <3>1. StartChunk(r) <= index[t] /\ index[t] <= EndChunk(r) /\ r.offset < FileSize[r.file]
          /\ r.offset + ReadLen(r) > 0
      BY <1>1 DEF Reading, InLoop, AtWork
    <3>2. StartChunk(r) \in Int /\ EndChunk(r) \in Int
      BY <1>2, <3>1, RequestShape, GatheredNone DEF EndChunk, LastByte
    <3>3. QED
      BY <1>2, <3>1, <3>2
  <2>5. Damaged(r) \/ unreadable'[t] = TRUE
    BY <2>3, <2>4 DEF Damaged
  <2>6. Holding(t)' /\ Reading(t)' /\ Returned(t)'
    BY <1>1, <2>1, <2>5 DEF Holding, Reading, Returned, Damaged, AtWork
  <2>7. ThreadInv'
    BY <1>1, <1>4, <2>3, <2>6, ThreadMoved DEF AtWork
  <2>8. CacheTypes' /\ LockInv'
    BY <1>1, <1>4, <2>3 DEF CacheTypes, LockInv, AtWork
  <2>9. QED
    BY <1>1, <2>7, <2>8, CacheKept DEF CacheInv
<1>5. CASE ~(pc' = [pc EXCEPT ![t] = "error"] /\ chunk' = chunk)
  <2>1. /\ Authentic(key) /\ unreadable' = unreadable
        /\ pc' = [pc EXCEPT ![t] = "insert"] /\ chunk' = [chunk EXCEPT ![t] = decrypt_chunk(key)]
    BY <1>5 DEF Decrypt, Goto
  <2>2. pc'[t] = "insert" /\ chunk'[t] = decrypt_chunk(key) /\ KeyOf(t)' = key
    BY <1>1, <2>1 DEF CacheTypes, KeyOf, CacheKey
  <2>3. Holding(t)'
    BY <1>1, <2>1, <2>2 DEF Holding, Sound, Authentic
  <2>4. Reading(t)' /\ Returned(t)'
    BY <1>1, <2>2 DEF Reading, Returned, Clean, InLoop, AtWork
  <2>5. \A u \in Threads \ {t} : chunk'[u] = chunk[u]
    BY <1>1, <2>1 DEF CacheTypes
  <2>6. ThreadInv'
    BY <1>1, <2>1, <2>3, <2>4, <2>5, ThreadMoved DEF AtWork
  <2>7. CacheTypes' /\ LockInv'
    BY <1>1, <2>1 DEF CacheTypes, LockInv, AtWork
  <2>8. QED
    BY <1>1, <2>6, <2>7, CacheKept DEF CacheInv
<1>6. QED
  BY <1>4, <1>5

LEMMA BeginInsertInv ==
  ASSUME CacheInv, NEW t \in Threads, BeginInsert(t)
  PROVE  CacheInv'
<1>1. /\ pc[t] = "insert" /\ lock = Nobody /\ CacheTypes /\ LockInv
      /\ Holding(t) /\ Reading(t)
      /\ UNCHANGED <<max_bytes, bytes, values, order, corrupt, req, unreadable>>
  BY DEF BeginInsert, cacheVars, CacheInv, ThreadInv
<1>2. Sound(KeyOf(t), chunk[t])
  BY <1>1 DEF Holding
<1>3. CASE ~Cacheable(chunk[t])
  <2>1. Take(t, chunk[t]) /\ chunk' = [chunk EXCEPT ![t] = NoChunk] /\ lock' = lock
    BY <1>3 DEF BeginInsert
  <2>2. /\ pc' \in [Threads -> AtWork \cup {"idle", "ok", "error"}]
        /\ index' \in [Threads -> Nat] /\ DOMAIN output' = Threads
        /\ pc' = [pc EXCEPT ![t] = "loop"]
        /\ \A u \in Threads \ {t} :
             pc'[u] = pc[u] /\ index'[u] = index[u] /\ output'[u] = output[u]
        /\ Holding(t)' /\ Reading(t)' /\ Returned(t)'
    BY <1>1, <1>2, <2>1, TakeThread DEF InLoop, AtWork
  <2>3. \A u \in Threads \ {t} : chunk'[u] = chunk[u]
    BY <1>1, <2>1 DEF CacheTypes
  <2>4. ThreadInv'
    BY <1>1, <2>2, <2>3, ThreadMoved DEF AtWork
  <2>5. CacheTypes'
    BY <1>1, <2>1, <2>2 DEF CacheTypes
  <2>6. LockInv'
    BY <1>1, <2>1, <2>2 DEF LockInv, CacheTypes
  <2>7. QED
    BY <1>1, <2>4, <2>5, <2>6, CacheKept DEF CacheInv
<1>4. CASE Cacheable(chunk[t])
  <2>1. pc' = [pc EXCEPT ![t] = "evict"] /\ lock' = t /\ UNCHANGED <<chunk, output, index>>
    BY <1>4 DEF BeginInsert, Goto
  <2>2. pc'[t] = "evict"
    BY <1>1, <2>1 DEF CacheTypes
  <2>3. Holding(t)'
    BY <1>1, <1>2, <1>4, <2>1 DEF Holding, Sound, KeyOf, Cacheable
  <2>4. Reading(t)' /\ Returned(t)'
    BY <1>1, <2>1, <2>2 DEF Reading, Returned, Clean, InLoop, AtWork
  <2>5. ThreadInv'
    BY <1>1, <2>1, <2>3, <2>4, ThreadMoved DEF AtWork
  <2>6. LockInv'
    BY <1>1, <2>1, ChunkCacheAssumption DEF LockInv, CacheTypes
  <2>7. CacheTypes'
    BY <1>1, <2>1 DEF CacheTypes, AtWork
  <2>8. QED
    BY <1>1, <2>5, <2>6, <2>7, CacheKept DEF CacheInv
<1>5. QED
  BY <1>3, <1>4

(* The account drops by what the evicted chunk held, or by nothing.         *)
LEMMA EvictOldestInv ==
  ASSUME CacheInv, NEW t \in Threads, EvictOldest(t)
  PROVE  CacheInv'
<1> DEFINE D == DOMAIN values
           h == Head(order)
<1>1. /\ CacheTypes /\ LockInv /\ SoundInv /\ AccountInv /\ ThreadInv
      /\ order # <<>> /\ order' = Tail(order)
      /\ UNCHANGED <<max_bytes, lock, corrupt, pc, req, index, chunk, output, unreadable>>
  BY DEF EvictOldest, CacheInv
<1>2. ThreadInv'
  BY <1>1, Untouched DEF ThreadInv
<1>3. LockInv'
  BY <1>1 DEF LockInv
<1>4. order' \in Seq(Files \X Nat) /\ Range(order) \subseteq Range(order') \cup {h}
  BY <1>1, TailRange DEF CacheTypes
<1>5. \A k \in D : Len(values[k]) \in Nat
  BY <1>1, ValuesHeld
<1>6. CASE h \in D
  <2>1. bytes' = SatSub(bytes, Len(values[h])) /\ values' = [k \in D \ {h} |-> values[k]]
    BY <1>6 DEF EvictOldest
  <2>2. DOMAIN values' = D \ {h} /\ \A k \in D \ {h} : values'[k] = values[k]
    BY <2>1
  <2>3. IsFiniteSet(D) /\ IsFiniteSet(D \ {h})
    BY <1>1, FS_Subset DEF CacheTypes
  <2>4. /\ Cardinality(Held(values, D)) = Len(values[h]) + Cardinality(Held(values', D \ {h}))
        /\ Cardinality(Held(values', D \ {h})) \in Nat
    <3>1. values' = Without(values, D, h)
      BY <2>1 DEF Without
    <3>2. /\ Cardinality(Held(values, D)) = Len(values[h]) + Cardinality(Held(Without(values, D, h), D \ {h}))
          /\ Cardinality(Held(Without(values, D, h), D \ {h})) \in Nat
      BY <1>5, <1>6, <2>3, HeldEvict
    <3>3. QED
      BY <3>1, <3>2
  <2>5. PICK held \in Nat : held = Cardinality(Held(values', DOMAIN values'))
    BY <2>2, <2>4
  <2>6. Cardinality(Held(values, D)) = Len(values[h]) + held
    BY <2>2, <2>4, <2>5, Zenon
  <2>7. /\ Len(values[h]) \in Nat /\ bytes \in Nat /\ max_bytes \in Nat
        /\ Len(values[h]) + held <= bytes /\ Len(values[h]) + held <= max_bytes
    BY <1>1, <1>5, <1>6, <2>6 DEF AccountInv, CacheTypes
  <2>8. bytes' \in Nat /\ held <= bytes' /\ held <= max_bytes
    BY <2>1, <2>7 DEF SatSub
  <2>9. DOMAIN values' \subseteq Range(order')
    BY <1>1, <1>4, <2>2 DEF AccountInv
  <2>10. AccountInv'
    <3>1. /\ Cardinality(Held(values', DOMAIN values')) <= bytes'
          /\ Cardinality(Held(values', DOMAIN values')) <= max_bytes'
      BY <1>1, <2>5, <2>8
    <3>2. QED
      BY <2>9, <3>1 DEF AccountInv
  <2>11. SoundInv'
    BY <1>1, <2>2 DEF SoundInv, Sound
  <2>12. CacheTypes'
    BY <1>1, <1>4, <2>2, <2>3, <2>8 DEF CacheTypes
  <2>13. QED
    BY <1>2, <1>3, <2>10, <2>11, <2>12 DEF CacheInv
<1>7. CASE h \notin D
  <2>1. UNCHANGED <<bytes, values>>
    BY <1>7 DEF EvictOldest
  <2>2. D \subseteq Range(order')
    BY <1>1, <1>4, <1>7 DEF AccountInv
  <2>3. AccountInv'
    BY <1>1, <2>1, <2>2 DEF AccountInv
  <2>4. SoundInv' /\ CacheTypes'
    BY <1>1, <1>4, <2>1 DEF SoundInv, Sound, CacheTypes
  <2>5. QED
    BY <1>2, <1>3, <2>3, <2>4 DEF CacheInv
<1>8. QED
  BY <1>6, <1>7

(* The chunk fits beside what is left: the account says so, or nothing is.  *)
LEMMA InsertInv ==
  ASSUME CacheInv, NEW t \in Threads, Insert(t)
  PROVE  CacheInv'
<1> DEFINE D == DOMAIN values
           key == KeyOf(t)
           c == chunk[t]
<1>1. /\ pc[t] = "evict" /\ CacheTypes /\ LockInv /\ SoundInv /\ AccountInv /\ Holding(t)
      /\ EvictionDone(t) /\ Take(t, c)
      /\ bytes' = bytes + Len(c) /\ order' = Append(order, key)
      /\ values' = [k \in D \cup {key} |-> IF k = key THEN c ELSE values[k]]
      /\ lock' = Nobody /\ chunk' = [chunk EXCEPT ![t] = NoChunk]
      /\ UNCHANGED <<max_bytes, corrupt, req, unreadable>>
  BY DEF Insert, CacheInv, ThreadInv
<1>2. Sound(key, c) /\ Cacheable(c)
  BY <1>1 DEF Holding
<1>3. /\ pc' \in [Threads -> AtWork \cup {"idle", "ok", "error"}]
      /\ index' \in [Threads -> Nat] /\ DOMAIN output' = Threads
      /\ pc' = [pc EXCEPT ![t] = "loop"]
      /\ \A u \in Threads \ {t} :
           pc'[u] = pc[u] /\ index'[u] = index[u] /\ output'[u] = output[u]
      /\ Holding(t)' /\ Reading(t)' /\ Returned(t)'
  BY <1>1, <1>2, TakeThread DEF InLoop, AtWork
<1>4. \A u \in Threads \ {t} : chunk'[u] = chunk[u]
  BY <1>1 DEF CacheTypes
<1>5. ThreadInv'
  BY <1>1, <1>3, <1>4, ThreadMoved DEF AtWork
<1>6. LockInv'
  BY <1>1, <1>3 DEF LockInv, CacheTypes
<1>7. DOMAIN values' = D \cup {key} /\ values'[key] = c /\ \A k \in D \ {key} : values'[k] = values[k]
  BY <1>1
<1>8. SoundInv'
  BY <1>1, <1>2, <1>7 DEF SoundInv, Sound
<1>9. /\ \A k \in D : Len(values[k]) \in Nat
      /\ Cardinality(Held(values, D)) \in Nat
  BY <1>1, ValuesHeld
<1>10. key \in Files \X Nat /\ Len(c) \in Nat /\ Len(c) <= max_bytes
  BY <1>2, ChunkLength DEF Sound, Cacheable
<1>11. order' \in Seq(Files \X Nat) /\ Range(order') = Range(order) \cup {key}
  <2>1. order \in Seq(Files \X Nat) /\ order' = Append(order, key)
    BY <1>1 DEF CacheTypes
  <2> HIDE DEF key
  <2>2. QED
    BY <1>10, <2>1, AppendRange
<1>12. /\ IsFiniteSet(D \cup {key})
       /\ Cardinality(Held(values', D \cup {key})) <= Len(c) + Cardinality(Held(values, D))
       /\ Cardinality(Held(values', D \cup {key})) \in Nat
  <2> HIDE DEF c, key
  <2>1. IsFiniteSet(D)
    BY <1>1 DEF CacheTypes
  <2>2. QED
    <3>1. values' = With(values, D, key, c)
      BY <1>1 DEF With
    <3>2. /\ IsFiniteSet(D \cup {key})
          /\ Cardinality(Held(With(values, D, key, c), D \cup {key}))
               <= Len(c) + Cardinality(Held(values, D))
          /\ Cardinality(Held(With(values, D, key, c), D \cup {key})) \in Nat
      BY <1>9, <1>10, <2>1, HeldInsert
    <3>3. QED
      BY <3>1, <3>2
<1>13. CacheTypes'
  BY <1>1, <1>3, <1>7, <1>10, <1>11, <1>12 DEF CacheTypes
<1>14. AccountInv'
  <2>1. PICK old \in Nat : old = Cardinality(Held(values, D))
    BY <1>9
  <2>2. PICK new \in Nat : new = Cardinality(Held(values', DOMAIN values'))
    BY <1>7, <1>12
  <2>3. new <= Len(c) + old
    BY <1>7, <1>12, <2>1, <2>2
  <2>4. old <= bytes /\ bytes \in Nat /\ max_bytes \in Nat
    BY <1>1, <2>1 DEF AccountInv, CacheTypes
  <2>5. new <= bytes'
    BY <1>1, <1>10, <2>3, <2>4
  <2>6. new <= max_bytes
    <3>1. CASE ~Full(t)
      BY <1>10, <2>3, <2>4, <3>1 DEF Full
    <3>2. CASE order = <<>>
      <4>1. D = {}
        <5>1. Range(order) = {}
          BY <3>2 DEF Range
        <5>2. QED
          BY <1>1, <5>1 DEF AccountInv
      <4>2. Held(values, D) = {}
        BY <4>1 DEF Held
      <4>3. old = 0
        BY <2>1, <4>2, FS_EmptySet
      <4>4. QED
        BY <1>10, <2>3, <2>4, <4>3
    <3>3. QED
      BY <1>1, <3>1, <3>2 DEF EvictionDone
  <2>7. DOMAIN values' \subseteq Range(order')
    BY <1>1, <1>7, <1>11 DEF AccountInv
  <2>8. /\ Cardinality(Held(values', DOMAIN values')) <= bytes'
        /\ Cardinality(Held(values', DOMAIN values')) <= max_bytes'
    BY <1>1, <2>2, <2>5, <2>6
  <2>9. QED
    BY <2>7, <2>8 DEF AccountInv
<1>15. QED
  BY <1>5, <1>6, <1>8, <1>13, <1>14 DEF CacheInv

LEMMA StutterInv ==
  ASSUME CacheInv, UNCHANGED vars
  PROVE  CacheInv'
<1>1. /\ CacheTypes /\ LockInv /\ ThreadInv
      /\ UNCHANGED <<max_bytes, bytes, values, order, lock, corrupt, pc, req, index, chunk, output, unreadable>>
  BY DEF CacheInv, vars, cacheVars
<1>2. ThreadInv'
  BY <1>1, Untouched DEF ThreadInv
<1>3. CacheTypes' /\ LockInv'
  BY <1>1 DEF CacheTypes, LockInv
<1>4. QED
  BY <1>1, <1>2, <1>3, CacheKept DEF CacheInv

(* The invariant holds in every reachable state, for every number of threads, *)
(* every layout of files and every set of requests and damaged chunks.      *)
THEOREM CacheInvariance == Spec => []CacheInv
<1>1. Init => CacheInv
  BY InitInv
<1>2. CacheInv /\ [Next]_vars => CacheInv'
  <2> SUFFICES ASSUME CacheInv, [Next]_vars
               PROVE  CacheInv'
    OBVIOUS
  <2>1. ASSUME NEW t \in Threads, NEW r \in Requests, Read(t, r)
        PROVE  CacheInv'
    BY <2>1, ReadInv
  <2>2. ASSUME NEW t \in Threads, Step(t)
        PROVE  CacheInv'
    BY <2>2, LoopHeadInv, LookupInv, DecryptInv, BeginInsertInv, EvictOldestInv, InsertInv
       DEF Step
  <2>3. CASE UNCHANGED vars
    BY <2>3, StutterInv
  <2>4. QED
    BY <2>1, <2>2, <2>3 DEF Next
<1>3. QED
  BY <1>1, <1>2, PTL DEF Spec

----------------------------------------------------------------------------
(* What a reader of the cache relies on. *)

(* What Resident adds up is the number of bytes held.                       *)
LEMMA ResidentIs ==
  ASSUME CacheTypes, SoundInv
  PROVE  Resident = Cardinality(Held(values, DOMAIN values))
<1>1. Resident = Sum(values, DOMAIN values)[DOMAIN values]
  BY DEF Resident, MapThenSumSet, MapThenFoldSet, Sum, Pick
<1>2. QED
  BY <1>1, ValuesHeld, SumIsHeld DEF CacheTypes

(* However far the byte account has drifted, the decrypted chunks held never *)
(* exceed the configured size, and each of them can still be evicted        *)
(* (readonly_fs.rs, load_chunk).                                            *)
THEOREM CacheResidentBounded == Spec => []ResidentBounded
<1>1. CacheInv => ResidentBounded
  BY ResidentIs DEF CacheInv, AccountInv, ResidentBounded
<1>2. QED
  BY <1>1, CacheInvariance, PTL

(* A read that succeeds returns its range, byte for byte and from undamaged *)
(* chunks only.  One that fails has met a damaged chunk within its range,   *)
(* could not read the container, or asked for no bytes at offset 0: neither *)
(* the cache nor another reader is ever the cause (readonly_fs.rs, read).   *)
THEOREM CacheReadReturnsRange == Spec => []ReadReturnsRange
<1>1. ASSUME CacheInv
      PROVE  ReadReturnsRange
  <2> SUFFICES ASSUME NEW t \in Threads
               PROVE  LET r == req[t]
                          touched == {c \in 0..ChunkCount(r.file) :
                             \E b \in 1..Len(output[t]) : output[t][b][2] \div CHUNK_SIZE = c}
                      IN  /\ pc[t] = "ok" =>
                               /\ output[t] = Bytes(r.file, r.offset,
                                    IF r.offset < FileSize[r.file] THEN ReadLen(r) ELSE 0)
                               /\ \A c \in touched : <<r.file, c>> \notin corrupt
                          /\ pc[t] = "error" =>
                               \/ \E c \in StartChunk(r)..EndChunk(r) : <<r.file, c>> \in corrupt
                               \/ unreadable[t]
                               \/ r.offset = 0 /\ r.size = 0
    BY DEF ReadReturnsRange
  <2> DEFINE r == req[t]
             touched == {c \in 0..ChunkCount(r.file) :
                           \E b \in 1..Len(output[t]) : output[t][b][2] \div CHUNK_SIZE = c}
             n == IF r.offset < FileSize[r.file] THEN ReadLen(r) ELSE 0
  <2>1. Returned(t) /\ (pc[t] # "idle" => r \in Requests)
    BY <1>1 DEF CacheInv, ThreadInv, CacheTypes
  <2>2. ASSUME pc[t] = "ok"
        PROVE  /\ output[t] = Bytes(r.file, r.offset, n)
               /\ \A c \in touched : <<r.file, c>> \notin corrupt
    <3>1. r.file \in Files /\ r.offset \in Nat /\ FileSize[r.file] \in Nat /\ n \in Nat
      BY <2>1, <2>2, RequestShape
    <3>2. output[t] = Bytes(r.file, r.offset, n) /\ Clean(r, 0, n)
      BY <2>1, <2>2, <3>1 DEF Returned, Clean
    <3>3. Len(output[t]) = n /\ \A i \in 1..n : output[t][i] = <<r.file, r.offset + i - 1>>
      <4> HIDE DEF n
      <4>1. /\ Len(Bytes(r.file, r.offset, n)) = n
            /\ \A i \in 1..n : Bytes(r.file, r.offset, n)[i] = <<r.file, r.offset + i - 1>>
        BY <3>1, BytesSeq
      <4>2. QED
        BY <3>2, <4>1
    <3>4. ASSUME NEW c \in touched
          PROVE  <<r.file, c>> \notin corrupt
      <4>1. PICK b \in 1..n : output[t][b][2] \div CHUNK_SIZE = c
        BY <3>3
      <4>2. output[t][b][2] = r.offset + (b - 1) /\ b - 1 \in 0..(n - 1)
        BY <3>1, <3>3
      <4>3. QED
        BY <3>2, <4>1, <4>2 DEF Clean
    <3>5. QED
      BY <3>2, <3>4
  <2>3. ASSUME pc[t] = "error"
        PROVE  \/ \E c \in StartChunk(r)..EndChunk(r) : <<r.file, c>> \in corrupt
               \/ unreadable[t]
               \/ r.offset = 0 /\ r.size = 0
    <3>1. Nothing(r) => r.offset = 0 /\ r.size = 0
      <4>1. r.offset \in Nat /\ r.size \in Nat /\ FileSize[r.file] \in Nat
        BY <2>1, <2>3, RequestShape DEF Requests
      <4>2. QED
        BY <4>1 DEF Nothing, ReadLen, Lesser
    <3>2. Nothing(r) \/ Damaged(r) \/ unreadable[t] = TRUE
      BY <2>1, <2>3 DEF Returned
    <3>3. QED
      BY <3>1, <3>2 DEF Damaged
  <2>4. QED
    BY <2>2, <2>3
<1>2. CacheInv => ReadReturnsRange
  BY <1>1
<1>3. QED
  BY <1>2, CacheInvariance, PTL
=============================================================================
