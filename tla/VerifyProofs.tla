---------------------------- MODULE VerifyProofs ----------------------------
(***************************************************************************)
(* Proofs about Verify, for any pool, any files and sizes and any chunk    *)
(* size: the count is that of the bytes whose chunks are done, the bar     *)
(* never goes back, success is complete and cancellation is prompt.        *)
(*                                                                         *)
(* The total is a sum over the files (MapThenSumSet).  That it is the      *)
(* number of plaintext bytes is shown by induction over sets of files: a   *)
(* smallest set with another sum would have a smaller one (WFMin).         *)
(***************************************************************************)
EXTENDS Verify, FiniteSetTheorems, SequenceTheorems, WellFoundedInduction, TLAPS

(* The plaintext bytes of the files S, and those of the chunks C.           *)
ByteSet(S) == UNION {{f} \X (0..(Size[f] - 1)) : f \in S}
BytesOf(C) == {x \in ByteSet(Files) : <<x[1], x[2] \div CHUNK_SIZE>> \in C}

----------------------------------------------------------------------------
(* Arithmetic. *)

(* The smaller of two numbers. *)
LEMMA MinOfTwo ==
  ASSUME NEW a \in Int, NEW b \in Int
  PROVE  Min({a, b}) = IF a <= b THEN a ELSE b
  BY DEF Min

(* The quotient is the index of the chunk that holds a byte ...             *)
LEMMA DivRange ==
  ASSUME NEW a \in Nat, NEW b \in Nat \ {0}
  PROVE  a \div b \in Nat /\ (a \div b) * b <= a /\ a < (a \div b) * b + b
  OBVIOUS

(* ... and of no other. *)
LEMMA DivUnique ==
  ASSUME NEW a \in Nat, NEW b \in Nat \ {0}, NEW k \in Nat, k * b <= a, a < k * b + b
  PROVE  a \div b = k
  OBVIOUS

(* A byte of a file lies in a chunk below div_ceil of the size ...          *)
LEMMA DivBelow ==
  ASSUME NEW a \in Nat, NEW n \in Nat, NEW b \in Nat \ {0}, a < n
  PROVE  a \div b <= ((n + b - 1) \div b) - 1
  OBVIOUS

(* ... and each of these chunks has a byte. *)
LEMMA DivStart ==
  ASSUME NEW k \in Nat, NEW n \in Nat \ {0}, NEW b \in Nat \ {0},
         k <= ((n + b - 1) \div b) - 1
  PROVE  k * b < n
  OBVIOUS

----------------------------------------------------------------------------
(* The total. *)

(* The size of an interval. *)
LEMMA IntervalSize ==
  ASSUME NEW a \in Int, NEW b \in Int, a <= b + 1
  PROVE  /\ IsFiniteSet(a..b)
         /\ Cardinality(a..b) = b + 1 - a
<1>1. /\ IsFiniteSet(a..b)
      /\ Cardinality(a..b) = IF a > b THEN 0 ELSE b - a + 1
  BY FS_Interval, Zenon
<1>2. QED
  BY <1>1

(* A row of n bytes of one file. *)
LEMMA RowSize ==
  ASSUME NEW f, NEW a \in Int, NEW b \in Int, a <= b + 1
  PROVE  /\ IsFiniteSet({f} \X (a..b))
         /\ Cardinality({f} \X (a..b)) = b + 1 - a
<1>1. IsFiniteSet(a..b) /\ Cardinality(a..b) = b + 1 - a
  BY IntervalSize
<1>2. IsFiniteSet({f}) /\ Cardinality({f}) = 1
  BY FS_Singleton
<1>3. /\ IsFiniteSet({f} \X (a..b))
      /\ Cardinality({f} \X (a..b)) = Cardinality({f}) * Cardinality(a..b)
  BY <1>1, <1>2, FS_Product, Zenon
<1>4. Cardinality({f} \X (a..b)) = 1 * (b + 1 - a)
  BY <1>1, <1>2, <1>3, Zenon
<1>5. QED
  BY <1>3, <1>4

(* A file has as many bytes as its size says. *)
LEMMA FileBytes ==
  ASSUME NEW f \in Files
  PROVE  /\ IsFiniteSet({f} \X (0..(Size[f] - 1)))
         /\ Cardinality({f} \X (0..(Size[f] - 1))) = Size[f]
<1>1. Size[f] \in Nat
  BY VerifyAssumption
<1>2. 0 \in Int /\ Size[f] - 1 \in Int /\ 0 <= (Size[f] - 1) + 1
  BY <1>1
<1>3. /\ IsFiniteSet({f} \X (0..(Size[f] - 1)))
      /\ Cardinality({f} \X (0..(Size[f] - 1))) = (Size[f] - 1) + 1 - 0
  BY <1>2, RowSize, Zenon
<1>4. QED
  BY <1>1, <1>3

LEMMA ByteSetFinite ==
  ASSUME NEW S \in SUBSET Files
  PROVE  IsFiniteSet(ByteSet(S))
<1>1. IsFiniteSet(S)
  BY VerifyAssumption, FS_Subset
<1> DEFINE P == {{f} \X (0..(Size[f] - 1)) : f \in S}
<1>2. IsFiniteSet(P)
  <2> DEFINE h == [f \in S |-> {f} \X (0..(Size[f] - 1))]
  <2>1. h \in Surjection(S, P)
    BY DEF Surjection
  <2>2. QED
    BY <1>1, <2>1, FS_Surjection
<1>3. \A p \in P : IsFiniteSet(p)
  BY FileBytes
<1>4. QED
  BY <1>2, <1>3, FS_UNION DEF ByteSet

(* One file more adds its size. *)
LEMMA ByteSetStep ==
  ASSUME NEW S \in SUBSET Files, NEW f \in S
  PROVE  Cardinality(ByteSet(S)) = Size[f] + Cardinality(ByteSet(S \ {f}))
<1> DEFINE F == {f} \X (0..(Size[f] - 1))
<1> DEFINE R == ByteSet(S \ {f})
<1>1. ByteSet(S) = F \cup R
  BY DEF ByteSet
<1>2. F \cap R = {}
  BY DEF ByteSet
<1>3. IsFiniteSet(F) /\ Cardinality(F) = Size[f]
  BY FileBytes
<1>4. IsFiniteSet(R)
  BY ByteSetFinite
<1>5. Cardinality(R) \in Nat /\ Size[f] \in Nat
  BY <1>4, FS_CardinalityType, VerifyAssumption
<1> HIDE DEF F, R
<1>6. Cardinality(F \cup R) = Cardinality(F) + Cardinality(R) - Cardinality(F \cap R)
  BY <1>3, <1>4, FS_Union
<1>7. Cardinality(F \cap R) = 0
  BY <1>2, FS_EmptySet
<1>8. QED
  BY <1>1, <1>3, <1>5, <1>6, <1>7 DEF R

Pick(s) == CHOOSE x \in s : TRUE

(* The function MapThenSumSet computes the total with. *)
Sum == CHOOSE g : g = [s \in SUBSET Files |->
         IF s = {} THEN 0 ELSE Size[Pick(s)] + g[s \ {Pick(s)}]]

LEMMA TotalIsSum == Total = Sum[Files]
  BY DEF Total, MapThenSumSet, MapThenFoldSet, Sum, Pick

(* The total, a sum over the files, is the number of plaintext bytes.       *)
LEMMA TotalIsBytes == Total = Cardinality(ByteSet(Files))
<1> DEFINE E(g) == g = [s \in SUBSET Files |->
             IF s = {} THEN 0 ELSE Size[Pick(s)] + g[s \ {Pick(s)}]]
           G == [s \in SUBSET Files |-> Cardinality(ByteSet(s))]
<1>1. ASSUME NEW s \in SUBSET Files, s # {}
      PROVE  Pick(s) \in s
  BY <1>1 DEF Pick
<1>2. Cardinality(ByteSet({})) = 0
  <2>1. ByteSet({}) = {}
    BY DEF ByteSet
  <2>2. QED
    BY <2>1, FS_EmptySet
<1>3. E(G)
  <2>1. ASSUME NEW s \in SUBSET Files
        PROVE  G[s] = IF s = {} THEN 0 ELSE Size[Pick(s)] + G[s \ {Pick(s)}]
    BY <1>1, <1>2, ByteSetStep
  <2>2. QED
    BY <2>1
<1>4. E(Sum)
  <2> HIDE DEF G
  <2>1. \E g : E(g)
    BY <1>3
  <2>2. QED
    BY <2>1 DEF Sum
<1>5. ASSUME NEW s \in SUBSET Files
      PROVE  Sum[s] = IF s = {} THEN 0 ELSE Size[Pick(s)] + Sum[s \ {Pick(s)}]
  BY <1>4
<1> DEFINE T == {s \in SUBSET Files : Sum[s] # Cardinality(ByteSet(s))}
<1>6. SUFFICES ASSUME T # {}
               PROVE  FALSE
  BY TotalIsSum
<1>7. IsWellFoundedOn(StrictSubsetOrdering(Files), SUBSET Files)
  BY FS_StrictSubsetOrderingWellFounded, FS_FiniteSubsetsOfFinite, VerifyAssumption
<1>8. PICK s \in T : \A u \in T : <<u, s>> \notin StrictSubsetOrdering(Files)
  <2> HIDE DEF T
  <2>1. T \subseteq SUBSET Files
    BY DEF T
  <2>2. QED
    BY <1>6, <1>7, <2>1, WFMin
<1>9. s # {}
  BY <1>2, <1>5
<1>10. Pick(s) \in s
  BY <1>1, <1>9
<1>11. <<s \ {Pick(s)}, s>> \in StrictSubsetOrdering(Files)
  BY <1>10 DEF StrictSubsetOrdering
<1>12. Sum[s \ {Pick(s)}] = Cardinality(ByteSet(s \ {Pick(s)}))
  BY <1>8, <1>11
<1>13. Sum[s] = Cardinality(ByteSet(s))
  BY <1>5, <1>9, <1>10, <1>12, ByteSetStep
<1>14. QED
  BY <1>13
----------------------------------------------------------------------------
(* The chunks. *)

(* A chunk is the place of a file and an index below its chunk count.       *)
LEMMA ChunkShape ==
  ASSUME NEW c \in Chunks
  PROVE  /\ c = <<c[1], c[2]>> /\ c[1] \in Files /\ c[2] \in Nat
         /\ Size[c[1]] \in Nat \ {0} /\ c[2] * CHUNK_SIZE < Size[c[1]]
<1>1. PICK f \in {g \in Files : Size[g] > 0} : c \in {f} \X (0..(ChunkCount(f) - 1))
  BY DEF Chunks
<1>2. PICK k \in 0..(ChunkCount(f) - 1) : c = <<f, k>>
  BY <1>1
<1>3. Size[f] \in Nat \ {0} /\ CHUNK_SIZE \in Nat \ {0}
  BY VerifyAssumption
<1>4. ChunkCount(f) \in Nat
  BY <1>3 DEF ChunkCount
<1>5. k \in Nat /\ k <= ChunkCount(f) - 1
  BY <1>4
<1>6. k * CHUNK_SIZE < Size[f]
  BY <1>3, <1>5, DivStart DEF ChunkCount
<1>7. QED
  BY <1>2, <1>3, <1>5, <1>6

(* A chunk has as many bytes as it adds to the count, short last chunks     *)
(* included.                                                                *)
LEMMA ChunkBytes ==
  ASSUME NEW c \in Chunks
  PROVE  /\ IsFiniteSet(BytesOf({c})) /\ Amount(c) \in Nat
         /\ Cardinality(BytesOf({c})) = Amount(c)
<1> DEFINE f == c[1]  k == c[2]
<1> DEFINE start == k * CHUNK_SIZE
<1> DEFINE end == IF CHUNK_SIZE <= Size[f] - start THEN start + CHUNK_SIZE ELSE Size[f]
<1>1. /\ c = <<f, k>> /\ f \in Files /\ k \in Nat /\ CHUNK_SIZE \in Nat \ {0}
      /\ Size[f] \in Nat \ {0} /\ start < Size[f]
  BY ChunkShape, VerifyAssumption
<1>2. start \in Nat
  BY <1>1
<1> HIDE DEF f, k
<1>3. end \in Nat /\ start < end
  <2> HIDE DEF start
  <2>1. QED
    BY <1>1, <1>2
<1>4. Amount(c) = end - start
  <2>1. Amount(c) = Min({CHUNK_SIZE, Size[f] - start})
    BY DEF Amount, f, k
  <2> HIDE DEF start
  <2>2. QED
    BY <1>1, <1>2, <2>1, MinOfTwo
<1>5. ASSUME NEW i \in 0..(Size[f] - 1)
      PROVE  (i \div CHUNK_SIZE = k) <=> (start <= i /\ i < end)
  <2>1. i \in Nat /\ i < Size[f]
    BY <1>1
  <2>2. ASSUME i \div CHUNK_SIZE = k
        PROVE  start <= i /\ i < start + CHUNK_SIZE
    BY <1>1, <2>1, <2>2, DivRange
  <2>3. ASSUME start <= i, i < start + CHUNK_SIZE
        PROVE  i \div CHUNK_SIZE = k
    BY <1>1, <2>1, <2>3, DivUnique
  <2>4. i < end <=> i < start + CHUNK_SIZE
    <3> HIDE DEF start
    <3>1. QED
      BY <1>1, <1>2, <2>1
  <2>5. QED
    BY <2>2, <2>3, <2>4
<1>6. BytesOf({c}) = {f} \X (start..(end - 1))
  <2>1. ASSUME NEW x \in BytesOf({c})
        PROVE  x \in {f} \X (start..(end - 1))
    <3>1. PICK g \in Files : \E i \in 0..(Size[g] - 1) : x = <<g, i>>
      BY DEF BytesOf, ByteSet
    <3> PICK i \in 0..(Size[g] - 1) : x = <<g, i>>
      BY <3>1
    <3>2. g = f /\ i \div CHUNK_SIZE = k
      BY <1>1 DEF BytesOf
    <3>3. start <= i /\ i < end /\ i \in Nat
      BY <1>1, <1>5, <3>2
    <3> HIDE DEF start, end
    <3>4. QED
      BY <1>2, <1>3, <3>1, <3>2, <3>3
  <2>2. ASSUME NEW x \in {f} \X (start..(end - 1))
        PROVE  x \in BytesOf({c})
    <3>1. PICK i \in start..(end - 1) : x = <<f, i>>
      OBVIOUS
    <3>2. end <= Size[f]
      <4> HIDE DEF start
      <4>1. QED
        BY <1>1, <1>2
    <3>3. i \in Nat /\ start <= i /\ i < end /\ i \in 0..(Size[f] - 1)
      <4> HIDE DEF start, end
      <4>1. QED
        BY <1>1, <1>2, <1>3, <3>2
    <3>4. i \div CHUNK_SIZE = k
      BY <1>5, <3>3
    <3>5. x \in ByteSet(Files)
      BY <1>1, <3>1, <3>3 DEF ByteSet
    <3>6. QED
      BY <1>1, <3>1, <3>4, <3>5 DEF BytesOf
  <2>3. QED
    BY <2>1, <2>2
<1>7. QED
  <2> HIDE DEF start, end
  <2>1. end - 1 \in Int /\ start \in Int /\ start <= (end - 1) + 1
    BY <1>2, <1>3
  <2>2. /\ IsFiniteSet({f} \X (start..(end - 1)))
        /\ Cardinality({f} \X (start..(end - 1))) = (end - 1) + 1 - start
    BY <2>1, RowSize, Zenon
  <2>3. /\ IsFiniteSet(BytesOf({c}))
        /\ Cardinality(BytesOf({c})) = (end - 1) + 1 - start
    BY <1>6, <2>2, Zenon
  <2>4. QED
    BY <1>2, <1>3, <1>4, <2>3

(* The bytes of any chunks are finitely many, at most the total.            *)
LEMMA BytesOfBound ==
  ASSUME NEW C
  PROVE  /\ IsFiniteSet(BytesOf(C)) /\ Cardinality(BytesOf(C)) \in Nat
         /\ Total \in Nat /\ Cardinality(BytesOf(C)) <= Total
<1>1. IsFiniteSet(ByteSet(Files))
  BY ByteSetFinite
<1>2. BytesOf(C) \subseteq ByteSet(Files)
  BY DEF BytesOf
<1>3. IsFiniteSet(BytesOf(C)) /\ Cardinality(BytesOf(C)) <= Cardinality(ByteSet(Files))
  BY <1>1, <1>2, FS_Subset
<1>4. QED
  BY <1>1, <1>3, FS_CardinalityType, TotalIsBytes

(* A chunk that was not counted adds its amount.                            *)
LEMMA BytesOfStep ==
  ASSUME NEW C, NEW c \in Chunks, c \notin C
  PROVE  Cardinality(BytesOf(C \cup {c})) = Cardinality(BytesOf(C)) + Amount(c)
<1>1. BytesOf(C \cup {c}) = BytesOf(C) \cup BytesOf({c})
  BY DEF BytesOf
<1>2. BytesOf(C) \cap BytesOf({c}) = {}
  BY DEF BytesOf
<1>3. /\ IsFiniteSet(BytesOf(C)) /\ Cardinality(BytesOf(C)) \in Nat
      /\ IsFiniteSet(BytesOf({c})) /\ Cardinality(BytesOf({c})) = Amount(c)
      /\ Amount(c) \in Nat
  BY BytesOfBound, ChunkBytes
<1>4. Cardinality(BytesOf(C) \cup BytesOf({c}))
        = Cardinality(BytesOf(C)) + Cardinality(BytesOf({c})) - Cardinality(BytesOf(C) \cap BytesOf({c}))
  BY <1>3, FS_Union
<1>5. Cardinality(BytesOf(C) \cap BytesOf({c})) = 0
  BY <1>2, FS_EmptySet
<1>6. Cardinality(BytesOf(C \cup {c})) = Cardinality(BytesOf(C)) + Amount(c) - 0
  BY <1>1, <1>3, <1>4, <1>5, Zenon
<1>7. QED
  BY <1>3, <1>6

(* All chunks together have all the bytes.                                  *)
LEMMA AllBytes ==
  ASSUME NEW C, Chunks \subseteq C
  PROVE  Cardinality(BytesOf(C)) = Total
<1>1. ASSUME NEW x \in ByteSet(Files)
      PROVE  <<x[1], x[2] \div CHUNK_SIZE>> \in Chunks
  <2>1. PICK f \in Files : \E i \in 0..(Size[f] - 1) : x = <<f, i>>
    BY DEF ByteSet
  <2> PICK i \in 0..(Size[f] - 1) : x = <<f, i>>
    BY <2>1
  <2>2. Size[f] \in Nat /\ CHUNK_SIZE \in Nat \ {0} /\ i \in Nat /\ i < Size[f]
    BY VerifyAssumption
  <2>3. i \div CHUNK_SIZE \in Nat /\ i \div CHUNK_SIZE <= ChunkCount(f) - 1
    BY <2>2, DivRange, DivBelow DEF ChunkCount
  <2>4. i \div CHUNK_SIZE \in 0..(ChunkCount(f) - 1)
    <3>1. ChunkCount(f) \in Nat
      BY <2>2 DEF ChunkCount
    <3>2. QED
      BY <2>3, <3>1
  <2>5. f \in {g \in Files : Size[g] > 0}
    BY <2>2
  <2>6. QED
    BY <2>1, <2>4, <2>5 DEF Chunks
<1>2. BytesOf(C) = ByteSet(Files)
  BY <1>1 DEF BytesOf
<1>3. QED
  BY <1>2, TotalIsBytes
----------------------------------------------------------------------------
(* The inductive invariant. *)

Tasks ==
  {Idle} \cup [step : {"work", "advance"}, chunk : Chunks] \cup [step : {"report"}, value : Nat]

VerifyTypes ==
  /\ operation \in {"verify", "pack"}
  /\ phase \in {0, 1, 2} /\ (operation = "verify" => phase # 2)
  /\ damaged \subseteq Chunks /\ pending \subseteq Chunks /\ counted \subseteq Chunks
  /\ task \in [Threads -> Tasks] /\ outcome \subseteq {"cancelled", "failed"}
  /\ completed \in Nat /\ late \in Nat
  /\ cancelled \in BOOLEAN /\ bar.position \in Nat

(* A thread with a chunk that is not counted yet. *)
Holds(t) == task[t].step \in {"work", "advance"}

(* Outside a pass no thread has a chunk or can take one. *)
RestInv ==
  /\ phase = 0 \/ result # "none" => \A t \in Threads : task[t] = Idle
  /\ phase = 0 => pending = {}

(* A chunk is pending, in one hand, or counted, and only one of these.      *)
OwnInv ==
  /\ pending \cap counted = {}
  /\ \A t \in Threads : Holds(t) => task[t].chunk \notin pending \cup counted
  /\ \A t, u \in Threads :
       Holds(t) /\ Holds(u) /\ task[t].chunk = task[u].chunk => t = u

(* Until a thread fails no chunk is lost. *)
CoverInv ==
  phase # 0 /\ outcome = {} =>
    \A c \in Chunks : \/ c \in pending \cup counted
                       \/ \E t \in Threads : Holds(t) /\ task[t].chunk = c

(* Outside the encryption a chunk that is done has authenticated.           *)
AuthenticInv ==
  phase # 0 /\ Phases[phase] # "Encrypt" =>
    /\ counted \cap damaged = {}
    /\ \A t \in Threads : task[t].step = "advance" => task[t].chunk \notin damaged

CountInv == completed = Cardinality(BytesOf(counted))

(* One thread reports at a time, and what it reports is the count. *)
LockInv ==
  /\ \A t \in Threads : task[t].step = "report" => lock = TRUE /\ task[t].value = completed
  /\ \A t, u \in Threads : task[t].step = "report" /\ task[u].step = "report" => t = u

(* The bar is behind the count only while a thread is about to report.      *)
BarInv ==
  /\ phase = 0 \/ result = "ok" => bar = NoBar
  /\ phase # 0 /\ result # "ok" =>
       /\ bar = [phase |-> Phases[phase], position |-> bar.position]
       /\ bar.position <= completed
       /\ (\A t \in Threads : task[t].step # "report") => bar.position = completed

FinishedInv ==
  /\ phase # 2 /\ result # "ok" => finished = <<>>
  /\ phase = 2 /\ result # "ok" => finished = <<[phase |-> "Encrypt", position |-> Total]>>
  /\ SuccessIsComplete

(* The threads past their look at the token. *)
Working == {t \in Threads : task[t].step = "work"}

LateInv ==
  /\ cancelled = FALSE => late = 0
  /\ cancelled = TRUE => late + Cardinality(Working) <= Cardinality(Threads)

ChunkInv == OwnInv /\ CoverInv /\ AuthenticInv
ReportInv == CountInv /\ LockInv /\ BarInv /\ FinishedInv

VerifyInv == VerifyTypes /\ RestInv /\ ChunkInv /\ ReportInv /\ LateInv

----------------------------------------------------------------------------

(* The kinds of task. *)
LEMMA TaskShape ==
  ASSUME VerifyTypes, NEW t \in Threads
  PROVE  /\ task[t].step \in {"idle", "work", "advance", "report"}
         /\ task[t].step = "idle" <=> task[t] = Idle
         /\ Holds(t) => task[t].chunk \in Chunks
         /\ task[t].step = "report" => task[t].value \in Nat
<1>1. task[t] \in Tasks
  BY DEF VerifyTypes
<1>2. QED
  BY <1>1 DEF Tasks, Idle, Holds

LEMMA WorkingBound ==
  /\ IsFiniteSet(Working) /\ Cardinality(Working) \in Nat
  /\ Cardinality(Threads) \in Nat /\ Cardinality(Working) <= Cardinality(Threads)
<1>1. Working \subseteq Threads
  BY DEF Working
<1>2. QED
  BY <1>1, FS_Subset, FS_CardinalityType, VerifyAssumption

LEMMA PhaseNames ==
  ASSUME operation \in {"verify", "pack"}
  PROVE  /\ operation = "verify" => Len(Phases) = 1 /\ Phases[1] = "Verify" /\ DOMAIN Phases = {1}
         /\ operation = "pack" => /\ Len(Phases) = 2 /\ DOMAIN Phases = {1, 2}
                                  /\ Phases[1] = "Encrypt" /\ Phases[2] = "SelfVerify"
  BY DEF Phases

LEMMA AppendToOne ==
  ASSUME NEW S, NEW a \in S, NEW b \in S
  PROVE  Append(<<a>>, b) = <<a, b>>
<1>1. <<a>> \in Seq(S) /\ Len(<<a>>) = 1 /\ <<a>>[1] = a
  OBVIOUS
<1>2. ASSUME NEW s \in Seq(S), Len(s) = 1
      PROVE  /\ Append(s, b) \in Seq(S) /\ Len(Append(s, b)) = 2
             /\ Append(s, b)[1] = s[1] /\ Append(s, b)[2] = b
  <2>1. 1 \in 1..Len(s)
    BY <1>2
  <2>2. /\ Append(s, b) \in Seq(S) /\ Len(Append(s, b)) = Len(s) + 1
        /\ Append(s, b)[1] = s[1] /\ Append(s, b)[Len(s) + 1] = b
    BY <2>1, AppendProperties
  <2>3. Len(s) + 1 = 2
    BY <1>2
  <2>4. QED
    BY <2>2, <2>3, Zenon
<1>3. /\ Append(<<a>>, b) \in Seq(S) /\ Len(Append(<<a>>, b)) = 2
      /\ Append(<<a>>, b)[1] = <<a>>[1] /\ Append(<<a>>, b)[2] = b
  BY <1>1, <1>2, Zenon
<1>4. ASSUME NEW r \in Seq(S), Len(r) = 2, r[1] = a, r[2] = b
      PROVE  r = <<a, b>>
  BY <1>4
<1>5. QED
  BY <1>1, <1>3, <1>4, Zenon

LEMMA VerifyInitially == Init => VerifyInv
<1> SUFFICES ASSUME Init
             PROVE  VerifyInv
  OBVIOUS
<1>1. VerifyTypes
  <2>1. task \in [Threads -> Tasks] /\ bar.position = 0
    BY DEF Init, Tasks, NoBar
  <2>2. damaged \subseteq Chunks /\ cancelled = FALSE
    BY DEF Init
  <2>3. cancelled \in BOOLEAN
    BY <2>2, Zenon
  <2>4. /\ operation \in {"verify", "pack"} /\ phase = 0 /\ pending = {} /\ counted = {}
        /\ outcome = {} /\ completed = 0 /\ late = 0
    BY DEF Init
  <2>5. QED
    BY <2>1, <2>2, <2>3, <2>4 DEF VerifyTypes
<1>2. RestInv /\ ChunkInv
  BY DEF Init, RestInv, ChunkInv, OwnInv, CoverInv, AuthenticInv, Holds, Idle
<1>3. CountInv
  <2>1. BytesOf({}) = {}
    BY DEF BytesOf
  <2>2. QED
    BY <2>1, FS_EmptySet DEF CountInv, Init
<1>4. LockInv /\ BarInv
  BY DEF Init, LockInv, BarInv, Idle, NoBar
<1>5. FinishedInv
  BY DEF Init, FinishedInv, SuccessIsComplete
<1>6. LateInv
  BY DEF Init, LateInv
<1>7. QED
  BY <1>1, <1>2, <1>3, <1>4, <1>5, <1>6 DEF VerifyInv, ReportInv

(* A pass begins: every chunk is pending, none is counted. *)
LEMMA StartStep ==
  ASSUME VerifyInv, result = "none", \A t \in Threads : task[t] = Idle,
         NEW k, StartPhase(k),
         \/ k = 1 /\ phase = 0
         \/ k = 2 /\ phase = 1 /\ operation = "pack" /\ Chunks \subseteq counted,
         UNCHANGED <<operation, damaged, task, outcome, lock, cancelled, late>>
  PROVE  VerifyInv'
<1> USE DEF VerifyInv
<1>1. /\ operation' = operation /\ damaged' = damaged /\ task' = task /\ outcome' = outcome
      /\ cancelled' = cancelled /\ late' = late /\ Phases' = Phases
      /\ phase' = k /\ pending' = Chunks /\ completed' = 0 /\ counted' = {}
      /\ result' = result /\ bar' = [phase |-> Phases[k], position |-> 0]
      /\ finished' = IF Phases[k] = "SelfVerify" THEN FinishActive(bar, finished) ELSE finished
  BY DEF StartPhase, Phases, Reported
<1>2. VerifyTypes'
  BY <1>1 DEF VerifyTypes
<1>3. \A t \in Threads : ~Holds(t) /\ ~Holds(t)' /\ task[t].step = "idle" /\ task'[t].step = "idle"
  BY <1>1 DEF Holds, Idle
<1>4. RestInv'
  BY <1>1 DEF RestInv
<1>5. OwnInv' /\ CoverInv'
  BY <1>1, <1>3 DEF OwnInv, CoverInv
<1>6. AuthenticInv'
  BY <1>1, <1>3 DEF AuthenticInv
<1>7. CountInv'
  <2>1. BytesOf({}) = {}
    BY DEF BytesOf
  <2>2. QED
    BY <1>1, <2>1, FS_EmptySet DEF CountInv
<1>8. LockInv'
  BY <1>1, <1>3 DEF LockInv
<1>9. BarInv'
  BY <1>1 DEF BarInv
<1>10. FinishedInv'
  <2>1. SuccessIsComplete'
    BY <1>1 DEF SuccessIsComplete
  <2>2. CASE k = 1
    <3>1. Phases[1] # "SelfVerify" /\ finished = <<>>
      BY <2>2, PhaseNames DEF VerifyTypes, ReportInv, FinishedInv
    <3>2. QED
      BY <1>1, <2>1, <2>2, <3>1 DEF FinishedInv
  <2>3. CASE k = 2
    <3>1. Phases[2] = "SelfVerify" /\ Phases[1] = "Encrypt" /\ phase = 1 /\ finished = <<>>
      BY <2>3, PhaseNames DEF VerifyTypes, ReportInv, FinishedInv
    <3>2. bar = [phase |-> "Encrypt", position |-> completed]
      BY <1>3, <3>1 DEF ReportInv, BarInv
    <3>3. completed = Total
      BY <2>3, AllBytes DEF ReportInv, CountInv
    <3>4. bar # NoBar
      BY <3>2 DEF NoBar
    <3>5. finished' = <<[phase |-> "Encrypt", position |-> Total]>>
      BY <1>1, <2>3, <3>1, <3>2, <3>3, <3>4 DEF FinishActive
    <3>6. QED
      BY <1>1, <2>1, <2>3, <3>5 DEF FinishedInv
  <2>4. QED
    BY <2>2, <2>3
<1>11. LateInv'
  BY <1>1 DEF LateInv, Working
<1>12. QED
  BY <1>2, <1>4, <1>5, <1>6, <1>7, <1>8, <1>9, <1>10, <1>11 DEF ChunkInv, ReportInv

(* A pass, or the opening, ends without success. *)
LEMMA EndStep ==
  ASSUME VerifyInv, result = "none", \A t \in Threads : task[t] = Idle,
         NEW r \in {"cancelled", "failed"}, End(r),
         UNCHANGED <<operation, damaged, task, outcome, lock, cancelled, late>>
  PROVE  VerifyInv'
<1> USE DEF VerifyInv
<1>1. /\ operation' = operation /\ damaged' = damaged /\ task' = task /\ outcome' = outcome
      /\ cancelled' = cancelled /\ late' = late /\ Phases' = Phases /\ lock' = lock
      /\ phase' = phase /\ pending' = pending /\ completed' = completed /\ counted' = counted
      /\ result' = r /\ bar' = bar /\ finished' = finished
  BY DEF End, Phases
<1>2. VerifyTypes'
  BY <1>1 DEF VerifyTypes
<1>3. RestInv'
  BY <1>1 DEF RestInv
<1>4. ChunkInv'
  BY <1>1 DEF ChunkInv, OwnInv, CoverInv, AuthenticInv, Holds
<1>5. CountInv' /\ LockInv'
  BY <1>1 DEF ReportInv, CountInv, LockInv
<1>6. BarInv' /\ FinishedInv'
  BY <1>1 DEF ReportInv, BarInv, FinishedInv, SuccessIsComplete
<1>7. LateInv'
  BY <1>1 DEF LateInv, Working
<1>8. QED
  BY <1>2, <1>3, <1>4, <1>5, <1>6, <1>7 DEF ReportInv

LEMMA OpenStep ==
  ASSUME VerifyInv, OpenContainer
  PROVE  VerifyInv'
<1>1. \A t \in Threads : task[t] = Idle
  BY DEF VerifyInv, RestInv, OpenContainer
<1>2. CASE \E r \in {"cancelled", "failed"} : End(r)
  BY <1>1, <1>2, EndStep DEF OpenContainer
<1>3. CASE StartPhase(1)
  BY <1>1, <1>3, StartStep DEF OpenContainer
<1>4. QED
  BY <1>2, <1>3 DEF OpenContainer

(* The pass has ended with every chunk counted and authentic. *)
LEMMA PassComplete ==
  ASSUME VerifyInv, phase # 0, outcome = {}, pending = {}, \A t \in Threads : task[t] = Idle
  PROVE  /\ Chunks \subseteq counted /\ completed = Total
         /\ Phases[phase] # "Encrypt" => damaged = {}
<1>1. \A t \in Threads : ~Holds(t)
  BY DEF Holds, Idle
<1>2. Chunks \subseteq counted
  BY <1>1 DEF VerifyInv, ChunkInv, CoverInv
<1>3. completed = Total
  BY <1>2, AllBytes DEF VerifyInv, ReportInv, CountInv
<1>4. Phases[phase] # "Encrypt" => damaged = {}
  BY <1>2 DEF VerifyInv, VerifyTypes, ChunkInv, AuthenticInv
<1>5. QED
  BY <1>2, <1>3, <1>4

LEMMA PhaseEndsStep ==
  ASSUME VerifyInv, PhaseEnds
  PROVE  VerifyInv'
<1>1. /\ phase # 0 /\ result = "none" /\ pending = {}
      /\ \A t \in Threads : task[t] = Idle
      /\ UNCHANGED <<operation, damaged, task, outcome, lock, cancelled, late>>
  BY DEF PhaseEnds
<1>2. CASE \E r \in {"cancelled", "failed"} : End(r)
  BY <1>1, <1>2, EndStep
<1>3. CASE outcome = {} /\ phase < Len(Phases) /\ StartPhase(phase + 1)
  <2>1. phase = 1 /\ operation = "pack"
    <3>1. operation \in {"verify", "pack"} /\ phase \in {1, 2} /\ phase < Len(Phases)
      BY <1>1, <1>3 DEF VerifyInv, VerifyTypes
    <3>2. \/ operation = "verify" /\ Len(Phases) = 1
          \/ operation = "pack" /\ Len(Phases) = 2
      BY <3>1, PhaseNames, Zenon
    <3>3. QED
      BY <3>1, <3>2
  <2>2. Chunks \subseteq counted
    BY <1>1, <1>3, PassComplete
  <2>3. StartPhase(2)
    BY <1>3, <2>1
  <2>4. QED
    BY <1>1, <2>1, <2>2, <2>3, StartStep
<1>4. CASE /\ outcome = {} /\ phase = Len(Phases)
           /\ result' = "ok" /\ finished' = FinishActive(bar, finished) /\ bar' = NoBar
           /\ UNCHANGED <<phase, pending, completed, counted>>
  <2> USE DEF VerifyInv
  <2>1. /\ operation' = operation /\ damaged' = damaged /\ task' = task /\ outcome' = outcome
        /\ cancelled' = cancelled /\ late' = late /\ Phases' = Phases /\ lock' = lock
        /\ phase' = phase /\ pending' = pending /\ completed' = completed /\ counted' = counted
        /\ result' = "ok" /\ bar' = NoBar /\ finished' = FinishActive(bar, finished)
    BY <1>1, <1>4 DEF Phases
  <2>2. \A t \in Threads : task[t].step = "idle"
    BY <1>1 DEF Idle
  <2>3. Phases[phase] # "Encrypt" /\ Phases[phase] # "none"
    BY <1>1, <1>4, PhaseNames DEF VerifyTypes
  <2>4. damaged = {} /\ completed = Total
    BY <1>1, <1>4, <2>3, PassComplete
  <2>5. VerifyTypes'
    BY <2>1 DEF VerifyTypes, NoBar
  <2>6. RestInv' /\ ChunkInv'
    BY <1>1, <2>1 DEF RestInv, ChunkInv, OwnInv, CoverInv, AuthenticInv, Holds
  <2>7. CountInv' /\ LockInv' /\ BarInv'
    BY <2>1 DEF ReportInv, CountInv, LockInv, BarInv
  <2>8. SuccessIsComplete'
    <3>1. bar = [phase |-> Phases[phase], position |-> Total]
      BY <1>1, <2>2, <2>4 DEF ReportInv, BarInv
    <3>2. finished' = Append(finished, bar)
      BY <2>1, <2>3, <3>1 DEF FinishActive, NoBar
    <3>3. CASE operation = "verify"
      <4>1. phase = 1 /\ finished = <<>> /\ Phases[1] = "Verify" /\ DOMAIN Phases = {1}
        BY <1>1, <3>3, PhaseNames DEF VerifyTypes, ReportInv, FinishedInv
      <4>2. finished' = <<[phase |-> Phases[1], position |-> Total]>>
        BY <3>1, <3>2, <4>1
      <4>3. finished' = [k \in DOMAIN Phases |-> [phase |-> Phases[k], position |-> Total]]
        BY <4>1, <4>2
      <4>4. QED
        BY <2>1, <2>4, <4>3, TotalIsBytes DEF SuccessIsComplete
    <3>4. CASE operation = "pack"
      <4>1. /\ phase = 2 /\ finished = <<[phase |-> "Encrypt", position |-> Total]>>
            /\ Phases[1] = "Encrypt" /\ DOMAIN Phases = {1, 2}
        BY <1>1, <1>4, <3>4, PhaseNames DEF VerifyTypes, ReportInv, FinishedInv
      <4>2. finished' = <<[phase |-> Phases[1], position |-> Total],
                          [phase |-> Phases[2], position |-> Total]>>
        <5>1. finished = <<[phase |-> Phases[1], position |-> Total]>>
          BY <4>1
        <5>2. bar = [phase |-> Phases[2], position |-> Total]
          BY <3>1, <4>1
        <5>3. QED
          <6> DEFINE S == {[phase |-> p, position |-> Total] : p \in {Phases[1], Phases[2]}}
          <6>1. [phase |-> Phases[1], position |-> Total] \in S
            OBVIOUS
          <6>2. [phase |-> Phases[2], position |-> Total] \in S
            OBVIOUS
          <6> HIDE DEF S
          <6>3. QED
            BY <3>2, <5>1, <5>2, <6>1, <6>2, AppendToOne, Zenon
      <4>3. finished' = [k \in DOMAIN Phases |-> [phase |-> Phases[k], position |-> Total]]
        BY <4>1, <4>2
      <4>4. QED
        BY <2>1, <2>4, <4>3, TotalIsBytes DEF SuccessIsComplete
    <3>5. QED
      BY <3>3, <3>4 DEF VerifyTypes
  <2>9. FinishedInv' /\ LateInv'
    BY <2>1, <2>8 DEF FinishedInv, LateInv, Working
  <2>10. QED
    BY <2>5, <2>6, <2>7, <2>9 DEF ReportInv
<1>5. CASE \E e \in outcome : End(e)
  BY <1>2, <1>5 DEF VerifyInv, VerifyTypes
<1>6. QED
  BY <1>2, <1>3, <1>4, <1>5 DEF PhaseEnds

(* A thread is given the task s. *)
LEMMA SetTask ==
  ASSUME VerifyTypes, NEW t \in Threads, NEW s \in Tasks, Set(t, s)
  PROVE  /\ task' \in [Threads -> Tasks] /\ task'[t] = s
         /\ \A u \in Threads : u # t => task'[u] = task[u]
  BY DEF VerifyTypes, Set

LEMMA TakeStep ==
  ASSUME VerifyInv, NEW t \in Threads, Take(t)
  PROVE  VerifyInv'
<1> USE DEF VerifyInv
<1>1. /\ task[t] = Idle /\ result = "none"
      /\ operation' = operation /\ damaged' = damaged /\ phase' = phase /\ completed' = completed
      /\ lock' = lock /\ counted' = counted /\ bar' = bar /\ finished' = finished
      /\ cancelled' = cancelled /\ late' = late /\ result' = result /\ Phases' = Phases
  BY DEF Take, Phases
<1>2. PICK c \in pending :
        /\ pending' = pending \ {c}
        /\ IF cancelled
           THEN Set(t, Idle) /\ outcome' = outcome \cup {"cancelled"}
           ELSE Set(t, [step |-> "work", chunk |-> c]) /\ outcome' = outcome
  BY DEF Take, Polled, Return
<1>3. c \in Chunks /\ c \notin counted /\ phase # 0
  BY DEF VerifyTypes, ChunkInv, OwnInv, RestInv
<1>4. task[t].step = "idle" /\ ~Holds(t)
  BY <1>1 DEF Idle, Holds
<1>5. CountInv' /\ FinishedInv'
  BY <1>1 DEF ReportInv, CountInv, FinishedInv, SuccessIsComplete
<1>6. CASE cancelled
  <2>1. task' = task
    BY <1>1, <1>2, <1>6 DEF Set, VerifyTypes
  <2>2. outcome' = outcome \cup {"cancelled"}
    BY <1>2, <1>6
  <2>3. VerifyTypes' /\ RestInv'
    BY <1>1, <1>2, <1>3, <2>1, <2>2 DEF VerifyTypes, RestInv
  <2>4. ChunkInv'
    BY <1>1, <1>2, <2>1, <2>2 DEF ChunkInv, OwnInv, CoverInv, AuthenticInv, Holds
  <2>5. LockInv' /\ BarInv' /\ LateInv'
    BY <1>1, <2>1 DEF ReportInv, LockInv, BarInv, LateInv, Working
  <2>6. QED
    BY <1>5, <2>3, <2>4, <2>5 DEF ReportInv
<1>7. CASE ~cancelled
  <2> DEFINE s == [step |-> "work", chunk |-> c]
  <2>1. s \in Tasks /\ s.step = "work" /\ s.chunk = c
    BY <1>3 DEF Tasks
  <2> HIDE DEF s
  <2>2. Set(t, s) /\ outcome' = outcome
    BY <1>2, <1>7 DEF s
  <2>3. /\ task' \in [Threads -> Tasks] /\ task'[t] = s
        /\ \A u \in Threads : u # t => task'[u] = task[u]
    BY <2>1, <2>2, SetTask
  <2>4. VerifyTypes' /\ RestInv'
    BY <1>1, <1>2, <1>3, <2>2, <2>3 DEF VerifyTypes, RestInv
  <2>5. Holds(t)' /\ \A u \in Threads : u # t => (Holds(u)' <=> Holds(u))
    BY <2>1, <2>3 DEF Holds
  <2>6. OwnInv'
    BY <1>1, <1>2, <1>3, <1>4, <2>1, <2>3, <2>5 DEF ChunkInv, OwnInv
  <2>7. CoverInv'
    <3>1. SUFFICES ASSUME outcome = {}, NEW d \in Chunks
                   PROVE  (\/ d \in pending \cup counted
                           \/ \E u \in Threads : Holds(u) /\ task[u].chunk = d)'
      BY <1>1, <2>2 DEF CoverInv
    <3>2. CASE d = c
      BY <2>1, <2>3, <2>5, <3>2
    <3>3. CASE d \in pending \cup counted /\ d # c
      BY <1>1, <1>2, <3>3
    <3>4. CASE \E u \in Threads : Holds(u) /\ task[u].chunk = d
      BY <1>4, <2>3, <2>5, <3>4
    <3>5. QED
      BY <1>3, <3>1, <3>2, <3>3, <3>4 DEF ChunkInv, CoverInv
  <2>8. AuthenticInv'
    BY <1>1, <2>1, <2>3 DEF ChunkInv, AuthenticInv
  <2>9. LockInv' /\ BarInv'
    BY <1>1, <1>4, <2>1, <2>3 DEF ReportInv, LockInv, BarInv
  <2>10. LateInv'
    BY <1>1, <1>7 DEF LateInv
  <2>11. QED
    BY <1>5, <2>4, <2>6, <2>7, <2>8, <2>9, <2>10 DEF ReportInv, ChunkInv
<1>8. QED
  BY <1>6, <1>7

(* A thread that is done with its cryptography no longer counts as one that *)
(* was past its look at the token.                                          *)
LEMMA LateStep ==
  ASSUME VerifyTypes, LateInv, NEW t \in Threads, task[t].step = "work",
         Working' = Working \ {t}, cancelled' = cancelled,
         late' = IF cancelled THEN late + 1 ELSE late
  PROVE  LateInv'
<1>1. t \in Working
  BY DEF Working
<1>2. PICK n \in Nat : n = Cardinality(Working)
  BY WorkingBound
<1>3. Cardinality(Working \ {t}) = n - 1
  BY <1>1, <1>2, WorkingBound, FS_RemoveElement
<1>4. PICK m \in Nat : m = Cardinality(Threads)
  BY WorkingBound
<1>5. CASE cancelled = FALSE
  BY <1>5 DEF LateInv
<1>6. CASE cancelled = TRUE
  <2>1. late + n <= m /\ late' = late + 1 /\ late \in Nat
    BY <1>2, <1>4, <1>6 DEF LateInv, VerifyTypes
  <2>2. late' + (n - 1) <= m
    BY <2>1
  <2>3. QED
    BY <1>3, <1>4, <1>6, <2>2 DEF LateInv
<1>7. QED
  BY <1>5, <1>6 DEF VerifyTypes

LEMMA WorkStep ==
  ASSUME VerifyInv, NEW t \in Threads, Work(t)
  PROVE  VerifyInv'
<1> USE DEF VerifyInv
<1>1. /\ operation' = operation /\ damaged' = damaged /\ phase' = phase /\ completed' = completed
      /\ pending' = pending /\ lock' = lock /\ counted' = counted /\ bar' = bar
      /\ finished' = finished /\ cancelled' = cancelled /\ result' = result /\ Phases' = Phases
      /\ late' = IF cancelled THEN late + 1 ELSE late
  BY DEF Work, Phases
<1> DEFINE c == task[t].chunk
<1>2. task[t].step = "work" /\ Holds(t) /\ c \in Chunks /\ task[t] # Idle
  BY TaskShape DEF Work, Holds
<1>3. phase # 0 /\ result = "none"
  BY <1>2 DEF RestInv
<1>4. PICK s \in {Idle, [step |-> "advance", chunk |-> c]} :
        /\ Set(t, s)
        /\ s = Idle => outcome' = outcome \cup {"failed"}
        /\ s # Idle => outcome' = outcome /\ Authentic(c)
  BY DEF Work, Return, Idle
<1>5. /\ s \in Tasks /\ s.step \in {"idle", "advance"}
      /\ s # Idle => s.step = "advance" /\ s.chunk = c
      /\ s = Idle => s.step = "idle"
  BY <1>2 DEF Tasks, Idle
<1>6. /\ task' \in [Threads -> Tasks] /\ task'[t] = s
      /\ \A u \in Threads : u # t => task'[u] = task[u]
  BY <1>4, <1>5, SetTask
<1> HIDE DEF c
<1>7. VerifyTypes' /\ RestInv'
  <2>1. outcome' \subseteq {"cancelled", "failed"}
    BY <1>4 DEF VerifyTypes
  <2>2. late' \in Nat
    BY <1>1 DEF VerifyTypes
  <2>3. VerifyTypes'
    BY <1>1, <1>6, <2>1, <2>2 DEF VerifyTypes
  <2>4. RestInv'
    BY <1>1, <1>3 DEF RestInv
  <2>5. QED
    BY <2>3, <2>4
<1>8. /\ Holds(t)' => s # Idle
      /\ \A u \in Threads : u # t => (Holds(u)' <=> Holds(u))
      /\ s # Idle => Holds(t)'
  BY <1>5, <1>6 DEF Holds
<1>9. OwnInv'
  BY <1>1, <1>2, <1>5, <1>6, <1>8 DEF ChunkInv, OwnInv, c
<1>10. CoverInv'
  <2>1. CASE s = Idle
    BY <1>4, <2>1 DEF CoverInv
  <2>2. CASE s # Idle
    <3>1. \A u \in Threads : (Holds(u)' <=> Holds(u)) /\ (Holds(u) => task'[u].chunk = task[u].chunk)
      BY <1>2, <1>5, <1>6, <1>8, <2>2 DEF c
    <3>2. QED
      BY <1>1, <1>4, <2>2, <3>1 DEF ChunkInv, CoverInv
  <2>3. QED
    BY <2>1, <2>2
<1>11. AuthenticInv'
  BY <1>1, <1>4, <1>5, <1>6 DEF ChunkInv, AuthenticInv, Authentic
<1>12. CountInv' /\ FinishedInv'
  BY <1>1 DEF ReportInv, CountInv, FinishedInv, SuccessIsComplete
<1>13. LockInv' /\ BarInv'
  BY <1>1, <1>2, <1>5, <1>6 DEF ReportInv, LockInv, BarInv
<1>14. LateInv'
  <2>1. Working' = Working \ {t}
    BY <1>5, <1>6 DEF Working
  <2>2. QED
    BY <1>1, <1>2, <2>1, LateStep
<1>15. QED
  BY <1>7, <1>9, <1>10, <1>11, <1>12, <1>13, <1>14 DEF ReportInv, ChunkInv

LEMMA AdvanceStep ==
  ASSUME VerifyInv, NEW t \in Threads, Advance(t)
  PROVE  VerifyInv'
<1> USE DEF VerifyInv
<1> DEFINE c == task[t].chunk
<1> DEFINE s == [step |-> "report", value |-> completed']
<1>1. /\ operation' = operation /\ damaged' = damaged /\ phase' = phase /\ pending' = pending
      /\ outcome' = outcome /\ bar' = bar /\ finished' = finished
      /\ cancelled' = cancelled /\ late' = late /\ result' = result /\ Phases' = Phases
      /\ lock # TRUE /\ lock' = TRUE /\ counted' = counted \cup {c} /\ Set(t, s)
      /\ completed' = Min({Total, completed + Amount(c)})
  BY DEF Advance, Locked, Phases
<1>2. task[t].step = "advance" /\ Holds(t) /\ c \in Chunks /\ task[t] # Idle /\ ~(task[t].step = "work")
  BY TaskShape DEF Advance, Holds
<1>3. phase # 0 /\ result = "none"
  BY <1>2 DEF RestInv
<1>4. c \notin counted /\ c \notin pending
  BY <1>2 DEF ChunkInv, OwnInv
<1> HIDE DEF c
<1>5. completed' = completed + Amount(c) /\ completed' \in Nat /\ completed <= completed'
      /\ CountInv'
  <2>1. Cardinality(BytesOf(counted')) = completed + Amount(c)
    BY <1>1, <1>2, <1>4, BytesOfStep DEF ReportInv, CountInv
  <2>2. Total \in Nat /\ completed + Amount(c) <= Total /\ Amount(c) \in Nat /\ completed \in Nat
    BY <1>2, <2>1, BytesOfBound, ChunkBytes DEF VerifyTypes
  <2>3. completed' = completed + Amount(c)
    <3>1. PICK m \in Int : m = completed + Amount(c)
      BY <2>2
    <3>2. Min({Total, m}) = m
      BY <2>2, <3>1, MinOfTwo
    <3>3. QED
      BY <1>1, <3>1, <3>2
  <2>4. QED
    BY <2>1, <2>2, <2>3 DEF CountInv
<1>6. s \in Tasks /\ s.step = "report" /\ s.value = completed'
  BY <1>5 DEF Tasks
<1> HIDE DEF s
<1>7. /\ task' \in [Threads -> Tasks] /\ task'[t] = s
      /\ \A u \in Threads : u # t => task'[u] = task[u]
  BY <1>1, <1>6, SetTask
<1>8. VerifyTypes' /\ RestInv'
  BY <1>1, <1>2, <1>3, <1>5, <1>7 DEF VerifyTypes, RestInv
<1>9. ~Holds(t)' /\ \A u \in Threads : u # t => (Holds(u)' <=> Holds(u))
  BY <1>6, <1>7 DEF Holds
<1>10. OwnInv'
  BY <1>1, <1>2, <1>4, <1>7, <1>9 DEF ChunkInv, OwnInv, c
<1>11. CoverInv'
  <2>1. SUFFICES ASSUME outcome = {}, NEW d \in Chunks
                 PROVE  (\/ d \in pending \cup counted
                         \/ \E u \in Threads : Holds(u) /\ task[u].chunk = d)'
    BY <1>1 DEF CoverInv
  <2>2. CASE d \in pending \cup counted \cup {c}
    BY <1>1, <2>2
  <2>3. CASE \E u \in Threads : u # t /\ Holds(u) /\ task[u].chunk = d
    BY <1>7, <1>9, <2>3
  <2>4. QED
    BY <1>3, <2>1, <2>2, <2>3 DEF ChunkInv, CoverInv, c
<1>12. AuthenticInv'
  BY <1>1, <1>2, <1>6, <1>7 DEF ChunkInv, AuthenticInv, c
<1>13. \A u \in Threads : task[u].step # "report"
  BY <1>1 DEF ReportInv, LockInv
<1>14. LockInv'
  BY <1>1, <1>6, <1>7, <1>13 DEF LockInv
<1>15. BarInv'
  <2>1. bar = [phase |-> Phases[phase], position |-> bar.position] /\ bar.position = completed
    BY <1>3, <1>13 DEF ReportInv, BarInv
  <2>2. QED
    BY <1>1, <1>3, <1>5, <1>6, <1>7, <2>1 DEF BarInv, VerifyTypes
<1>16. FinishedInv'
  BY <1>1 DEF ReportInv, FinishedInv, SuccessIsComplete
<1>17. LateInv'
  <2>1. Working' = Working
    BY <1>2, <1>6, <1>7 DEF Working
  <2>2. QED
    BY <1>1, <2>1 DEF LateInv
<1>18. QED
  BY <1>5, <1>8, <1>10, <1>11, <1>12, <1>14, <1>15, <1>16, <1>17 DEF ReportInv, ChunkInv

LEMMA ReportStep ==
  ASSUME VerifyInv, NEW t \in Threads, Report(t)
  PROVE  VerifyInv' /\ bar.position <= bar'.position
<1> USE DEF VerifyInv
<1>1. /\ operation' = operation /\ damaged' = damaged /\ phase' = phase /\ pending' = pending
      /\ outcome' = outcome /\ completed' = completed /\ counted' = counted /\ finished' = finished
      /\ cancelled' = cancelled /\ late' = late /\ result' = result /\ Phases' = Phases
      /\ Set(t, Idle) /\ bar' = [phase |-> Phases[phase], position |-> task[t].value]
  BY DEF Report, Reported, Phases
<1>2. task[t].step = "report" /\ ~Holds(t) /\ task[t] # Idle /\ task[t].value = completed
  BY TaskShape DEF Report, Holds, ReportInv, LockInv
<1>3. phase # 0 /\ result = "none"
  BY <1>2 DEF RestInv
<1>4. Idle \in Tasks /\ Idle.step = "idle"
  BY DEF Tasks, Idle
<1>5. /\ task' \in [Threads -> Tasks] /\ task'[t] = Idle
      /\ \A u \in Threads : u # t => task'[u] = task[u]
  BY <1>1, <1>4, SetTask
<1>6. bar'.position = completed /\ bar.position <= completed
  BY <1>1, <1>2, <1>3 DEF ReportInv, BarInv
<1>7. VerifyTypes' /\ RestInv'
  BY <1>1, <1>3, <1>5, <1>6 DEF VerifyTypes, RestInv
<1>8. \A u \in Threads : (Holds(u)' <=> Holds(u)) /\ (Holds(u) => task'[u] = task[u])
  BY <1>2, <1>4, <1>5 DEF Holds
<1>9. OwnInv' /\ CoverInv'
  BY <1>1, <1>8 DEF ChunkInv, OwnInv, CoverInv
<1>10. AuthenticInv'
  BY <1>1, <1>4, <1>5 DEF ChunkInv, AuthenticInv
<1>11. \A u \in Threads : task'[u].step # "report"
  BY <1>2, <1>4, <1>5 DEF ReportInv, LockInv
<1>12. CountInv' /\ LockInv' /\ FinishedInv'
  BY <1>1, <1>11 DEF ReportInv, CountInv, LockInv, FinishedInv, SuccessIsComplete
<1>13. BarInv'
  BY <1>1, <1>2, <1>3 DEF BarInv, VerifyTypes
<1>14. LateInv'
  <2>1. Working' = Working
    BY <1>2, <1>4, <1>5 DEF Working
  <2>2. QED
    BY <1>1, <2>1 DEF LateInv
<1>15. QED
  BY <1>6, <1>7, <1>9, <1>10, <1>12, <1>13, <1>14 DEF ReportInv, ChunkInv

LEMMA AbandonStep ==
  ASSUME VerifyInv, Abandon
  PROVE  VerifyInv'
<1> USE DEF VerifyInv
<1>1. /\ operation' = operation /\ damaged' = damaged /\ phase' = phase /\ task' = task
      /\ outcome' = outcome /\ outcome # {} /\ pending' = {} /\ completed' = completed
      /\ lock' = lock /\ counted' = counted /\ bar' = bar /\ finished' = finished
      /\ cancelled' = cancelled /\ late' = late /\ result' = result /\ Phases' = Phases
  BY DEF Abandon, Phases
<1>2. VerifyTypes' /\ RestInv'
  BY <1>1 DEF VerifyTypes, RestInv
<1>3. ChunkInv'
  BY <1>1 DEF ChunkInv, OwnInv, CoverInv, AuthenticInv, Holds
<1>4. ReportInv' /\ LateInv'
  BY <1>1 DEF ReportInv, CountInv, LockInv, BarInv, FinishedInv, SuccessIsComplete, LateInv, Working
<1>5. QED
  BY <1>2, <1>3, <1>4

LEMMA CancelStep ==
  ASSUME VerifyInv, Cancel
  PROVE  VerifyInv'
<1> USE DEF VerifyInv
<1>1. /\ operation' = operation /\ damaged' = damaged /\ phase' = phase /\ task' = task
      /\ outcome' = outcome /\ pending' = pending /\ completed' = completed
      /\ lock' = lock /\ counted' = counted /\ bar' = bar /\ finished' = finished
      /\ cancelled' = TRUE /\ late' = late /\ result' = result /\ Phases' = Phases
  BY DEF Cancel, poolVars, Phases
<1>2. VerifyTypes' /\ RestInv' /\ ChunkInv'
  BY <1>1 DEF VerifyTypes, RestInv, ChunkInv, OwnInv, CoverInv, AuthenticInv, Holds
<1>3. ReportInv'
  BY <1>1 DEF ReportInv, CountInv, LockInv, BarInv, FinishedInv, SuccessIsComplete
<1>4. LateInv'
  <2>1. Working' = Working
    BY <1>1 DEF Working
  <2>2. CASE cancelled = FALSE
    BY <1>1, <2>1, <2>2, WorkingBound DEF LateInv
  <2>3. CASE cancelled = TRUE
    BY <1>1, <2>1, <2>3 DEF LateInv
  <2>4. QED
    BY <2>2, <2>3 DEF VerifyTypes
<1>5. QED
  BY <1>2, <1>3, <1>4

LEMMA StutterStep ==
  ASSUME VerifyInv, UNCHANGED vars
  PROVE  VerifyInv'
<1> USE DEF VerifyInv
<1>1. /\ operation' = operation /\ damaged' = damaged /\ phase' = phase /\ task' = task
      /\ outcome' = outcome /\ pending' = pending /\ completed' = completed
      /\ lock' = lock /\ counted' = counted /\ bar' = bar /\ finished' = finished
      /\ cancelled' = cancelled /\ late' = late /\ result' = result /\ Phases' = Phases
  BY DEF vars, poolVars, Phases
<1>2. VerifyTypes' /\ RestInv' /\ ChunkInv'
  BY <1>1 DEF VerifyTypes, RestInv, ChunkInv, OwnInv, CoverInv, AuthenticInv, Holds
<1>3. ReportInv' /\ LateInv'
  BY <1>1 DEF ReportInv, CountInv, LockInv, BarInv, FinishedInv, SuccessIsComplete, LateInv, Working
<1>4. QED
  BY <1>2, <1>3

LEMMA VerifyInductive == VerifyInv /\ [Next]_vars => VerifyInv'
<1> SUFFICES ASSUME VerifyInv, [Next]_vars
             PROVE  VerifyInv'
  OBVIOUS
<1>1. CASE OpenContainer
  BY <1>1, OpenStep
<1>2. CASE Pool
  BY <1>2, TakeStep, WorkStep, AdvanceStep, ReportStep DEF Pool
<1>3. CASE Abandon
  BY <1>3, AbandonStep
<1>4. CASE PhaseEnds
  BY <1>4, PhaseEndsStep
<1>5. CASE Cancel
  BY <1>5, CancelStep
<1>6. CASE Done \/ UNCHANGED vars
  BY <1>6, StutterStep DEF Done
<1>7. QED
  BY <1>1, <1>2, <1>3, <1>4, <1>5, <1>6 DEF Next, Progress

(* The inductive invariant holds in every state of the pass. *)
THEOREM VerifyInvariance == Spec => []VerifyInv
<1>1. QED
  BY VerifyInitially, VerifyInductive, PTL DEF Spec

(* The count is that of the plaintext bytes whose chunks are done, and the  *)
(* bar is never ahead of it (verify_all_with_control, advance).             *)
THEOREM VerifyCountIsHonest == Spec => []CountIsHonest
<1>1. VerifyInv => CountIsHonest
  <2>1. SUFFICES ASSUME VerifyInv
                 PROVE  CountIsHonest
    OBVIOUS
  <2>2. completed = Cardinality({x \in UNION {{f} \X (0..(Size[f] - 1)) : f \in Files} :
                                   <<x[1], x[2] \div CHUNK_SIZE>> \in counted})
    BY <2>1 DEF VerifyInv, ReportInv, CountInv, BytesOf, ByteSet
  <2>3. bar.position <= completed
    BY <2>1 DEF VerifyInv, VerifyTypes, ReportInv, BarInv, NoBar
  <2>4. QED
    BY <2>2, <2>3 DEF CountIsHonest
<1>2. QED
  BY <1>1, VerifyInvariance, PTL

(* Success means that every chunk authenticated and that every phase had    *)
(* its bar finished at the total.                                           *)
THEOREM VerifySuccessIsComplete == Spec => []SuccessIsComplete
<1>1. VerifyInv => SuccessIsComplete
  BY DEF VerifyInv, ReportInv, FinishedInv
<1>2. QED
  BY <1>1, VerifyInvariance, PTL

(* After a cancellation at most one chunk per thread is still decrypted.    *)
THEOREM VerifyCancelStopsWork == Spec => []CancelStopsWork
<1>1. VerifyInv => CancelStopsWork
  <2>1. SUFFICES ASSUME VerifyInv
                 PROVE  CancelStopsWork
    OBVIOUS
  <2>2. late \in Nat /\ cancelled \in BOOLEAN
    BY <2>1 DEF VerifyInv, VerifyTypes
  <2>3. QED
    BY <2>1, <2>2, WorkingBound DEF VerifyInv, LateInv, CancelStopsWork
<1>2. QED
  BY <1>1, VerifyInvariance, PTL

(* The bar of a phase never goes back, however the threads interleave       *)
(* (ProgressTracker::advance reports while it holds the lock).              *)
THEOREM VerifyBarNeverBack == Spec => BarNeverBack
<1>1. ASSUME VerifyInv, [Next]_vars
      PROVE  [bar'.phase = bar.phase => bar'.position >= bar.position]_vars
  <2>1. bar.position \in Nat /\ bar'.position \in Nat
    BY <1>1, VerifyInductive DEF VerifyInv, VerifyTypes
  <2>2. CASE bar' = bar
    BY <2>1, <2>2
  <2>3. CASE \E t \in Threads : Report(t)
    BY <1>1, <2>1, <2>3, ReportStep
  <2>4. CASE OpenContainer /\ StartPhase(1)
    <3>1. bar.phase = "none" /\ bar'.phase = Phases[1]
      BY <1>1, <2>4 DEF OpenContainer, StartPhase, Reported, VerifyInv, ReportInv, BarInv, NoBar
    <3>2. Phases[1] # "none"
      BY <1>1, PhaseNames DEF VerifyInv, VerifyTypes
    <3>3. QED
      BY <3>1, <3>2
  <2>5. CASE PhaseEnds
    <3>1. phase \in {1, 2} /\ result = "none"
      BY <1>1, <2>5 DEF PhaseEnds, VerifyInv, VerifyTypes
    <3>2. bar.phase = Phases[phase]
      BY <1>1, <3>1 DEF VerifyInv, ReportInv, BarInv
    <3>3. \/ bar' = bar \/ bar' = NoBar
          \/ phase < Len(Phases) /\ bar'.phase = Phases[phase + 1]
      BY <2>5 DEF PhaseEnds, End, StartPhase, Reported
    <3>4. /\ Phases[phase] # "none"
          /\ phase < Len(Phases) => Phases[phase] # Phases[phase + 1]
      <4>1. \/ operation = "verify" /\ phase = 1 /\ Len(Phases) = 1 /\ Phases[1] = "Verify"
            \/ /\ operation = "pack" /\ Len(Phases) = 2
               /\ Phases[1] = "Encrypt" /\ Phases[2] = "SelfVerify"
        BY <1>1, <3>1, PhaseNames DEF VerifyInv, VerifyTypes
      <4>2. QED
        BY <3>1, <4>1
    <3>5. QED
      BY <2>1, <3>2, <3>3, <3>4 DEF NoBar
  <2>6. QED
    BY <1>1, <2>2, <2>3, <2>4, <2>5
       DEF Next, Progress, Pool, OpenContainer, End, Take, Work, Advance, Abandon, Cancel, Done, vars
<1>2. QED
  BY <1>1, VerifyInvariance, PTL DEF Spec, BarNeverBack
=============================================================================
