------------------------------ MODULE Lemmas -------------------------------
(***************************************************************************)
(* Facts that the proofs about several components rest on: numbers, sorted *)
(* sets, and buffers with their messages and scans.                        *)
(***************************************************************************)
EXTENDS FixBuffer, Order, SequenceTheorems, FiniteSetTheorems, WellFoundedInduction, TLAPS

LessThan == {ss \in Nat \X Nat : ss[1] < ss[2]}

(* Every nonempty set of natural numbers has a least element.              *)
LEMMA NatMinimum ==
  ASSUME NEW T, T \subseteq Nat, T # {}
  PROVE  \E x \in T : \A y \in T : x <= y
<1>1. IsWellFoundedOn(LessThan, Nat)
  BY NatLessThanWellFounded DEF OpToRel, LessThan
<1>2. PICK x \in T : \A y \in T : ~ (<<y, x>> \in LessThan)
  BY <1>1, WFMin
<1>3. \A y \in T : ~ (y < x)
  BY <1>2 DEF LessThan
<1> QED  BY <1>3

-----------------------------------------------------------------------------
(* Orders and ranks.                                                       *)
Totally(less, S) ==
  /\ \A a \in S : <<a, a>> \notin less
  /\ \A a, b, c \in S : <<a, b>> \in less /\ <<b, c>> \in less => <<a, c>> \in less
  /\ \A a, b \in S : a # b => <<a, b>> \in less \/ <<b, a>> \in less

Below(less, S, a) == {b \in S : <<b, a>> \in less}

LEMMA FewerAreBelow ==
  ASSUME NEW S, IsFiniteSet(S), NEW less, Totally(less, S)
  PROVE  /\ Cardinality(S) \in Nat
         /\ \A a \in S : Cardinality(Below(less, S, a)) \in 0 .. Cardinality(S) - 1
         /\ \A a, b \in S : <<a, b>> \in less =>
              Cardinality(Below(less, S, a)) < Cardinality(Below(less, S, b))
<1> DEFINE n == Cardinality(S)
<1>1. n \in Nat
  BY FS_CardinalityType
<1>2. ASSUME NEW a \in S
      PROVE  IsFiniteSet(Below(less, S, a)) /\ Cardinality(Below(less, S, a)) \in 0 .. n - 1
  <2>1. Below(less, S, a) \in SUBSET S /\ Below(less, S, a) # S
    BY DEF Totally, Below
  <2>2. /\ IsFiniteSet(Below(less, S, a)) /\ Cardinality(Below(less, S, a)) <= n
        /\ Cardinality(Below(less, S, a)) # n
    BY <2>1, FS_Subset
  <2>3. Cardinality(Below(less, S, a)) \in Nat
    BY <2>2, FS_CardinalityType
  <2> HIDE DEF n
  <2> QED  BY <1>1, <2>2, <2>3
<1>3. ASSUME NEW a \in S, NEW b \in S, <<a, b>> \in less
      PROVE  Cardinality(Below(less, S, a)) < Cardinality(Below(less, S, b))
  <2> DEFINE A == Below(less, S, a)
             B == Below(less, S, b)
  <2>1. A \in SUBSET B /\ A # B
    BY <1>3 DEF Totally, Below
  <2>2. IsFiniteSet(A) /\ IsFiniteSet(B)
    BY <1>2
  <2> HIDE DEF A, B
  <2>3. Cardinality(A) <= Cardinality(B) /\ Cardinality(A) # Cardinality(B)
    BY <2>1, <2>2, FS_Subset
  <2>4. Cardinality(A) \in Nat /\ Cardinality(B) \in Nat
    BY <2>2, FS_CardinalityType
  <2>5. Cardinality(A) < Cardinality(B)
    BY <2>3, <2>4
  <2> QED  BY <2>5 DEF A, B
<1> QED  BY <1>1, <1>2, <1>3

(* As many are below the k-th one as come before it.                       *)
LEMMA RanksArePlaces ==
  ASSUME NEW S, IsFiniteSet(S), NEW less, Totally(less, S)
  PROVE  /\ \A k \in 1 .. Cardinality(S) : \E a \in S : Cardinality(Below(less, S, a)) = k - 1
         /\ \A a, b \in S : Cardinality(Below(less, S, a)) < Cardinality(Below(less, S, b))
                              => <<a, b>> \in less
         /\ \A a, b \in S : Cardinality(Below(less, S, a)) = Cardinality(Below(less, S, b)) => a = b
<1> DEFINE n == Cardinality(S)
           T == 0 .. n - 1
           rank == [a \in S |-> Cardinality(Below(less, S, a))]
<1>1. n \in Nat /\ rank \in [S -> T] /\ \A a, b \in S : <<a, b>> \in less => rank[a] < rank[b]
  BY FewerAreBelow
<1>2. IsFiniteSet(T) /\ Cardinality(T) = n
  <2> HIDE DEF n
  <2>1. IsFiniteSet(0 .. n - 1) /\ Cardinality(0 .. n - 1) = IF 0 > n - 1 THEN 0 ELSE n - 1 - 0 + 1
    BY <1>1, FS_Interval
  <2> QED  BY <1>1, <2>1
<1>3. \A a, b \in S : a = b \/ rank[a] < rank[b] \/ rank[b] < rank[a]
  BY <1>1 DEF Totally
<1>4. \A a \in S : rank[a] = Cardinality(Below(less, S, a)) /\ rank[a] \in Int
  BY <1>1
<1> HIDE DEF rank, n, T
<1>5. \A a, b \in S : rank[a] = rank[b] => a = b
  BY <1>3, <1>4
<1>6. \A a, b \in S : rank[a] < rank[b] => <<a, b>> \in less
  <2> SUFFICES ASSUME NEW a \in S, NEW b \in S, rank[a] < rank[b], <<a, b>> \notin less
               PROVE  FALSE
    OBVIOUS
  <2>1. a = b \/ <<b, a>> \in less
    BY DEF Totally
  <2> QED  BY <1>1, <1>4, <2>1
<1>7. rank \in Injection(S, T)
  BY <1>1, <1>5 DEF Injection, IsInjective
<1>8. rank \in Surjection(S, T)
  BY <1>2, <1>7, FS_Injection DEF n
<1>9. \A k \in 1 .. n : \E a \in S : rank[a] = k - 1
  <2>1. \A k \in T : \E a \in S : rank[a] = k
    BY <1>8 DEF Surjection
  <2>2. \A k \in 1 .. n : k - 1 \in T
    BY <1>1 DEF T
  <2> QED  BY <2>1, <2>2
<1> QED  BY <1>4, <1>5, <1>6, <1>9 DEF n

(* A ranked set: each member once, in the order.                           *)
LEMMA RankedIsSorted ==
  ASSUME NEW S, IsFiniteSet(S), NEW less, Totally(less, S), NEW w, w = Ranked(S, less)
  PROVE  /\ w \in Seq(S) /\ ToSet(w) = S /\ IsInjective(w)
         /\ DOMAIN w = 1 .. Len(w) /\ Len(w) \in Nat
         /\ \A i, j \in 1 .. Len(w) : i < j => <<w[i], w[j]>> \in less
<1> DEFINE n == Cardinality(S)
           rank(a) == Cardinality(Below(less, S, a))
<1>1. /\ n \in Nat /\ \A a \in S : rank(a) \in 0 .. n - 1
  BY FewerAreBelow
<1>2. w = [k \in 1 .. n |-> CHOOSE a \in S : rank(a) = k - 1]
  BY DEF Ranked, Below
<1>3. ASSUME NEW k \in 1 .. n PROVE w[k] \in S /\ rank(w[k]) = k - 1
  <2>1. \E a \in S : rank(a) = k - 1
    BY RanksArePlaces
  <2> QED  BY <1>2, <2>1
<1>4. w \in [1 .. n -> S]
  BY <1>2, <1>3
<1>5. w \in Seq(S) /\ Len(w) = n /\ DOMAIN w = 1 .. n
  <2> HIDE DEF n
  <2> QED  BY <1>1, <1>4
<1>6. \A a \in S : \E k \in 1 .. n : w[k] = a
  <2> TAKE a \in S
  <2> DEFINE k == rank(a) + 1
  <2>1. rank(a) \in 0 .. n - 1
    BY <1>1
  <2>2. k \in 1 .. n /\ k - 1 = rank(a)
    <3> HIDE DEF n, rank
    <3> QED  BY <1>1, <2>1
  <2>3. w[k] \in S /\ rank(w[k]) = rank(a)
    <3> HIDE DEF k
    <3> QED  BY <1>3, <2>2
  <2>4. w[k] = a
    BY <2>3, RanksArePlaces
  <2> QED  BY <2>2, <2>4
<1>7. ToSet(w) = S
  BY <1>4, <1>5, <1>6 DEF ToSet
<1>8. IsInjective(w)
  <2> SUFFICES ASSUME NEW i \in 1 .. n, NEW j \in 1 .. n, w[i] = w[j]
               PROVE  i = j
    BY <1>5 DEF IsInjective
  <2>1. i - 1 = j - 1
    BY <1>3
  <2> QED  BY <1>1, <2>1
<1>9. ASSUME NEW i \in 1 .. n, NEW j \in 1 .. n, i < j
      PROVE  <<w[i], w[j]>> \in less
  <2>1. w[i] \in S /\ w[j] \in S /\ rank(w[i]) = i - 1 /\ rank(w[j]) = j - 1
    BY <1>3
  <2>2. i - 1 < j - 1
    BY <1>1, <1>9
  <2>3. rank(w[i]) < rank(w[j])
    BY <2>1, <2>2
  <2> QED  BY <2>1, <2>3, RanksArePlaces
<1> QED  BY <1>1, <1>5, <1>7, <1>8, <1>9

LEMMA SeqOfNats ==
  ASSUME NEW S \in SUBSET Nat, NEW w \in Seq(S)
  PROVE  w \in Seq(Nat)
<1>1. Len(w) \in Nat /\ w \in [1 .. Len(w) -> S]
  OBVIOUS
<1>2. w \in [1 .. Len(w) -> Nat]
  BY <1>1
<1> QED  BY <1>1, <1>2

(* The numbers of a set in order, and the least and the greatest of them.  *)
LEMMA PlaceIs ==
  ASSUME NEW S, IsFiniteSet(S), NEW less, Totally(less, S), NEW k \in 1 .. Cardinality(S)
  PROVE  \E a \in S : Cardinality(Below(less, S, a)) = k - 1
BY RanksArePlaces

LEMMA AscendingIs ==
  ASSUME NEW S, IsFiniteSet(S), S \subseteq Nat
  PROVE  /\ Ascending(S) \in Seq(S) /\ Len(Ascending(S)) = Cardinality(S)
         /\ Cardinality(S) \in Nat /\ ToSet(Ascending(S)) = S
         /\ \A i, j \in 1 .. Len(Ascending(S)) : i < j => Ascending(S)[i] < Ascending(S)[j]
<1> DEFINE less == {p \in S \X S : p[1] < p[2]}
           n == Cardinality(S)
           r == Ranked(S, less)
           w == Ascending(S)
           Good(v) == v \in [1 .. n -> S] /\ \A i, j \in DOMAIN v : i < j => v[i] < v[j]
<1>1. Totally(less, S)
  BY DEF Totally
<1>2. n \in Nat
  BY FS_CardinalityType
<1>3. /\ r \in Seq(S) /\ DOMAIN r = 1 .. Len(r) /\ Len(r) \in Nat
      /\ \A i, j \in 1 .. Len(r) : i < j => <<r[i], r[j]>> \in less
  <2> HIDE DEF less
  <2> QED  BY <1>1, RankedIsSorted
<1>4. DOMAIN r = 1 .. n
  BY DEF Ranked
<1>5. Good(r)
  <2>1. r \in [1 .. n -> S]
    <3> HIDE DEF r
    <3>1. r \in [DOMAIN r -> S]
      BY <1>3
    <3> QED  BY <1>4, <3>1
  <2>2. \A i, j \in 1 .. Len(r) : i < j => r[i] < r[j]
    BY <1>3
  <2> HIDE DEF r, n, less
  <2> QED  BY <1>3, <1>4, <2>1, <2>2
<1>6. w = CHOOSE v \in [1 .. n -> S] : \A i, j \in DOMAIN v : i < j => v[i] < v[j]
  BY DEF Ascending
<1>7. Good(w)
  <2> HIDE DEF w, r, n
  <2> QED  BY <1>5, <1>6
<1> HIDE DEF r, less, w
<1>8. w \in Seq(S) /\ Len(w) = n /\ DOMAIN w = 1 .. n
  <2> HIDE DEF n
  <2> QED  BY <1>2, <1>7
<1>9. \A i, j \in 1 .. n : i < j => w[i] < w[j]
  BY <1>7, <1>8
<1>10. \A i, j \in 1 .. n : w[i] = w[j] => i = j
  <2> SUFFICES ASSUME NEW i \in 1 .. n, NEW j \in 1 .. n, w[i] = w[j], i # j PROVE FALSE
    OBVIOUS
  <2>1. i < j \/ j < i
    OBVIOUS
  <2>2. w[i] \in Nat /\ w[j] \in Nat
    BY <1>7
  <2> QED  BY <1>9, <2>1, <2>2
<1>11. ToSet(w) = S
  <2>1. IsFiniteSet(1 .. n) /\ Cardinality(1 .. n) = n
    <3>1. Cardinality(1 .. n) = (IF 1 > n THEN 0 ELSE n - 1 + 1) /\ IsFiniteSet(1 .. n)
      <4> HIDE DEF n
      <4> QED  BY <1>2, FS_Interval
    <3> HIDE DEF n
    <3> QED  BY <1>2, <3>1
  <2>2. w \in Injection(1 .. n, S)
    BY <1>7, <1>10 DEF Injection, IsInjective
  <2>3. w \in Surjection(1 .. n, S)
    BY <2>1, <2>2, FS_Injection
  <2> HIDE DEF n
  <2> QED  BY <1>7, <1>8, <2>3 DEF Surjection, ToSet
<1> QED  BY <1>2, <1>8, <1>9, <1>11 DEF w

(* The elements at some positions, in the order of the positions.          *)
PickedOnce(c, s, P) ==
  \A k, m \in 1 .. Len(c) : k # m => \E i, j \in P : i # j /\ c[k] = s[i] /\ c[m] = s[j]

LEMMA ChosenIs ==
  ASSUME NEW T, NEW s \in Seq(T), NEW P \in SUBSET DOMAIN s, NEW c, c = Chosen(s, P)
  PROVE  /\ c \in Seq(T) /\ ToSet(c) = {s[i] : i \in P}
         /\ \A k \in 1 .. Len(c) : \E i \in P : c[k] = s[i]
         /\ PickedOnce(c, s, P)
<1> DEFINE at == Ascending(P)
<1>1. IsFiniteSet(P) /\ P \subseteq Nat
  <2>1. DOMAIN s = 1 .. Len(s) /\ Len(s) \in Nat
    OBVIOUS
  <2>2. IsFiniteSet(1 .. Len(s))
    BY <2>1, FS_Interval
  <2>3. P \subseteq 1 .. Len(s)
    BY <2>1
  <2> QED  BY <2>1, <2>2, <2>3, FS_Subset
<1>2. /\ at \in Seq(P) /\ ToSet(at) = P
      /\ \A i, j \in 1 .. Len(at) : i < j => at[i] < at[j]
  BY <1>1, AscendingIs
<1>3. c = [k \in DOMAIN at |-> s[at[k]]]
  BY DEF Chosen
<1> HIDE DEF at
<1>4. DOMAIN at = 1 .. Len(at) /\ Len(at) \in Nat /\ \A k \in 1 .. Len(at) : at[k] \in P
  BY <1>2
<1>5. \A i \in P : s[i] \in T
  BY <1>1
<1>6. c \in [1 .. Len(at) -> T] /\ \A k \in 1 .. Len(at) : c[k] = s[at[k]]
  BY <1>3, <1>4, <1>5
<1>7. c \in Seq(T) /\ Len(c) = Len(at) /\ DOMAIN c = 1 .. Len(at)
  BY <1>4, <1>6
<1>8. ToSet(c) = {s[i] : i \in P}
  <2>1. \A i \in P : \E k \in 1 .. Len(at) : at[k] = i
    BY <1>2, <1>4 DEF ToSet
  <2>2. ToSet(c) = {c[k] : k \in 1 .. Len(at)}
    BY <1>7 DEF ToSet
  <2>3. \A k \in 1 .. Len(at) : c[k] = s[at[k]] /\ at[k] \in P
    BY <1>4, <1>6
  <2>4. {c[k] : k \in 1 .. Len(at)} \subseteq {s[i] : i \in P}
    BY <2>3
  <2>5. {s[i] : i \in P} \subseteq {c[k] : k \in 1 .. Len(at)}
    BY <2>1, <2>3
  <2> QED  BY <2>2, <2>4, <2>5
<1>9. \A k, m \in 1 .. Len(at) : k # m => at[k] # at[m]
  <2> SUFFICES ASSUME NEW k \in 1 .. Len(at), NEW m \in 1 .. Len(at), k # m PROVE at[k] # at[m]
    OBVIOUS
  <2>1. k < m \/ m < k
    BY <1>4
  <2>2. at[k] \in Nat /\ at[m] \in Nat
    BY <1>1, <1>4
  <2> QED  BY <1>2, <2>1, <2>2
<1>10. PickedOnce(c, s, P)
  BY <1>4, <1>6, <1>7, <1>9 DEF PickedOnce
<1> QED  BY <1>4, <1>6, <1>7, <1>8, <1>10

(* SetToSeq: there is an order of any finite set.                          *)
LEMMA AnyOrderIs ==
  ASSUME NEW S, IsFiniteSet(S)
  PROVE  SetToSeq(S) \in Seq(S)
<1>1. PICK n \in Nat : ExistsBijection(1 .. n, S)
  BY FS_NatBijection
<1>2. Cardinality(S) = n
  BY <1>1, FS_CountingElements
<1>3. \E f \in [1 .. Cardinality(S) -> S] : IsInjective(f)
  BY <1>1, <1>2 DEF ExistsBijection, Bijection, Injection, IsInjective
<1>4. SetToSeq(S) \in [1 .. Cardinality(S) -> S]
  BY <1>3 DEF SetToSeq, IsInjective
<1> QED  BY <1>1, <1>2, <1>4

LEMMA FirstIs ==
  ASSUME NEW S, IsFiniteSet(S), S # {}, NEW less, Totally(less, S)
  PROVE  \E a \in S : Below(less, S, a) = {}
<1>1. Cardinality(S) \in Nat /\ Cardinality(S) # 0
  BY FS_CardinalityType, FS_EmptySet
<1>2. 1 \in 1 .. Cardinality(S)
  BY <1>1
<1>3. PICK a \in S : Cardinality(Below(less, S, a)) = 1 - 1
  BY <1>2, RanksArePlaces
<1>4. Below(less, S, a) \in SUBSET S
  BY DEF Below
<1>5. IsFiniteSet(Below(less, S, a))
  BY <1>4, FS_Subset
<1>6. Below(less, S, a) = {}
  BY <1>3, <1>5, FS_EmptySet
<1> QED  BY <1>6

LEMMA LeastIs ==
  ASSUME NEW S \in SUBSET Int, IsFiniteSet(S), S # {}
  PROVE  Min(S) \in S /\ \A x \in S : Min(S) <= x
<1> DEFINE less == {p \in S \X S : p[1] < p[2]}
<1>1. Totally(less, S)
  BY DEF Totally
<1>2. \A a \in S : Below(less, S, a) = {b \in S : b < a}
  BY DEF Below
<1>3. \E a \in S : Below(less, S, a) = {}
  <2> HIDE DEF less
  <2> QED  BY <1>1, FirstIs
<1>4. PICK x \in S : {b \in S : b < x} = {}
  BY <1>2, <1>3
<1>5. \A y \in S : x <= y
  BY <1>4
<1> QED  BY <1>5 DEF Min

LEMMA GreatestIs ==
  ASSUME NEW S \in SUBSET Int, IsFiniteSet(S), S # {}
  PROVE  Max(S) \in S /\ \A x \in S : Max(S) >= x
<1> DEFINE less == {p \in S \X S : p[2] < p[1]}
<1>1. Totally(less, S)
  BY DEF Totally
<1>2. \A a \in S : Below(less, S, a) = {b \in S : b > a}
  BY DEF Below
<1>3. \E a \in S : Below(less, S, a) = {}
  <2> HIDE DEF less
  <2> QED  BY <1>1, FirstIs
<1>4. PICK x \in S : {b \in S : b > x} = {}
  BY <1>2, <1>3
<1>5. \A y \in S : x >= y
  BY <1>4
<1> QED  BY <1>5 DEF Max

LEMMA OfTwo ==
  ASSUME NEW x \in Int, NEW y \in Int
  PROVE  /\ Min({x, y}) = IF x <= y THEN x ELSE y
         /\ Max({x, y}) = IF x <= y THEN y ELSE x
<1>1. \E z \in {x, y} : \A w \in {x, y} : z <= w
  OBVIOUS
<1>2. \E z \in {x, y} : \A w \in {x, y} : z >= w
  OBVIOUS
<1>3. Min({x, y}) \in {x, y} /\ \A w \in {x, y} : Min({x, y}) <= w
  BY <1>1 DEF Min
<1>4. Max({x, y}) \in {x, y} /\ \A w \in {x, y} : Max({x, y}) >= w
  BY <1>2 DEF Max
<1> QED  BY <1>3, <1>4

-----------------------------------------------------------------------------
(* Buffers.                                                                *)

(* A prefix of a buffer is a buffer with the same cells.                   *)
LEMMA PrefixCells ==
  ASSUME NEW f \in Seq(Cell), NEW n \in 0 .. Len(f)
  PROVE  /\ SubSeq(f, 1, n) \in Seq(Cell)
         /\ Len(SubSeq(f, 1, n)) = n
         /\ \A i \in 1 .. n : SubSeq(f, 1, n)[i] = f[i]
<1>1. \A i \in 1 .. n : f[i] \in Cell
  OBVIOUS
<1>2. /\ SubSeq(f, 1, n) \in Seq(Cell)
      /\ Len(SubSeq(f, 1, n)) = IF 1 <= n THEN n - 1 + 1 ELSE 0
      /\ \A i \in 1 .. n - 1 + 1 : SubSeq(f, 1, n)[i] = f[1 + i - 1]
  BY <1>1, SubSeqProperties
<1> QED  BY <1>2

(* Appending to the file leaves every prefix of it as it was.              *)
LEMMA PrefixOfAppend ==
  ASSUME NEW f \in Seq(Cell), NEW c \in Cell, NEW n \in 0 .. Len(f)
  PROVE  SubSeq(Append(f, c), 1, n) = SubSeq(f, 1, n)
<1>1. /\ Append(f, c) \in Seq(Cell)
      /\ Len(Append(f, c)) = Len(f) + 1
      /\ \A i \in 1 .. Len(f) : Append(f, c)[i] = f[i]
  OBVIOUS
<1>2. /\ SubSeq(Append(f, c), 1, n) \in Seq(Cell)
      /\ Len(SubSeq(Append(f, c), 1, n)) = n
      /\ \A i \in 1 .. n : SubSeq(Append(f, c), 1, n)[i] = f[i]
  BY <1>1, PrefixCells
<1>3. /\ SubSeq(f, 1, n) \in Seq(Cell)
      /\ Len(SubSeq(f, 1, n)) = n
      /\ \A i \in 1 .. n : SubSeq(f, 1, n)[i] = f[i]
  BY PrefixCells
<1> QED  BY <1>2, <1>3, SeqEqual

(* A complete message has at least its header and its CheckSum, and ends   *)
(* inside the buffer.                                                      *)
LEMMA MessageBounds ==
  ASSUME NEW b \in Seq(Cell), NEW o, ParseOk(b, o)
  PROVE  /\ o \in Nat
         /\ EndOf(b, o) \in Nat
         /\ o + 2 <= EndOf(b, o)
         /\ EndOf(b, o) <= Len(b)
<1>1. o \in 0 .. Len(b) - 1 /\ BodyEnd(b, o) < Len(b)
  BY DEF ParseOk, IsBegin
<1>2. b[o + 1] \in Cell
  BY <1>1
<1>3. b[o + 1].arg \in Nat
  BY <1>2 DEF Cell
<1> QED  BY <1>1, <1>3 DEF BodyEnd, EndOf

(* A message that is complete in one prefix of a file is complete, with the*)
(* same end, in every prefix that reaches its end.                         *)
LEMMA CompleteInPrefix ==
  ASSUME NEW f \in Seq(Cell), NEW m \in 0 .. Len(f), NEW n \in 0 .. Len(f), NEW o,
         ParseOk(SubSeq(f, 1, m), o), EndOf(SubSeq(f, 1, m), o) <= n
  PROVE  /\ ParseOk(SubSeq(f, 1, n), o)
         /\ EndOf(SubSeq(f, 1, n), o) = EndOf(SubSeq(f, 1, m), o)
<1> DEFINE a == SubSeq(f, 1, m)
           b == SubSeq(f, 1, n)
<1>1. /\ a \in Seq(Cell) /\ Len(a) = m /\ (\A i \in 1 .. m : a[i] = f[i])
      /\ b \in Seq(Cell) /\ Len(b) = n /\ (\A i \in 1 .. n : b[i] = f[i])
  BY PrefixCells
<1> HIDE DEF a, b
<1>2. /\ ParseOk(a, o) /\ EndOf(a, o) <= n
  BY DEF a
<1>3. o \in Nat /\ EndOf(a, o) \in Nat /\ o + 2 <= EndOf(a, o) /\ EndOf(a, o) <= m
  BY <1>1, <1>2, MessageBounds
<1>4. \A i \in o .. EndOf(a, o) - 1 : a[i + 1] = b[i + 1]
  BY <1>1, <1>2, <1>3
<1>5. a[o + 1] = b[o + 1]
  BY <1>4, <1>3
<1>6. BodyEnd(b, o) = BodyEnd(a, o) /\ EndOf(b, o) = EndOf(a, o)
  BY <1>5 DEF BodyEnd, EndOf
<1>7. BodyEnd(a, o) \in Nat /\ BodyEnd(a, o) = EndOf(a, o) - 1
  <2>1. a[o + 1] \in Cell
    BY <1>1, <1>3
  <2>2. a[o + 1].arg \in Nat
    BY <2>1 DEF Cell
  <2> QED  BY <2>2, <1>3 DEF BodyEnd, EndOf
<1>8. IsBegin(b, o)
  BY <1>1, <1>2, <1>3, <1>5 DEF ParseOk, IsBegin
<1>9. BodyEnd(b, o) < Len(b) /\ b[BodyEnd(b, o) + 1].kind = "end"
  <2>1. a[BodyEnd(a, o) + 1] = b[BodyEnd(a, o) + 1]
    BY <1>4, <1>7, <1>3
  <2> QED  BY <2>1, <1>1, <1>2, <1>6, <1>7, <1>3 DEF ParseOk
<1>10. \A i \in o + 1 .. BodyEnd(b, o) - 1 : b[i + 1].kind # "noise"
  <2> SUFFICES ASSUME NEW i \in o + 1 .. BodyEnd(b, o) - 1
               PROVE  b[i + 1].kind # "noise"
    OBVIOUS
  <2>1. i \in o .. EndOf(a, o) - 1
    BY <1>3, <1>6, <1>7
  <2>2. a[i + 1] = b[i + 1]
    BY <1>4, <2>1
  <2> QED  BY <2>2, <1>2, <1>6 DEF ParseOk
<1>11. ParseOk(b, o) /\ EndOf(b, o) = EndOf(a, o)
  BY <1>6, <1>8, <1>9, <1>10 DEF ParseOk
<1> QED  BY <1>11 DEF a, b

(* ... and it mentions the same pairs.                                     *)
LEMMA PairsInPrefix ==
  ASSUME NEW f \in Seq(Cell), NEW m \in 0 .. Len(f), NEW n \in 0 .. Len(f), NEW o,
         ParseOk(SubSeq(f, 1, m), o), EndOf(SubSeq(f, 1, m), o) <= n
  PROVE  PairsAt(SubSeq(f, 1, n), o) = PairsAt(SubSeq(f, 1, m), o)
<1> DEFINE a == SubSeq(f, 1, m)
           b == SubSeq(f, 1, n)
<1>1. /\ a \in Seq(Cell) /\ Len(a) = m /\ (\A i \in 1 .. m : a[i] = f[i])
      /\ b \in Seq(Cell) /\ Len(b) = n /\ (\A i \in 1 .. n : b[i] = f[i])
  BY PrefixCells
<1>2. EndOf(b, o) = EndOf(a, o)
  BY CompleteInPrefix
<1> HIDE DEF a, b
<1>3. ParseOk(a, o) /\ EndOf(a, o) <= n
  BY DEF a
<1>4. o \in Nat /\ EndOf(a, o) \in Nat /\ o + 2 <= EndOf(a, o) /\ EndOf(a, o) <= m
  BY <1>1, <1>3, MessageBounds
<1>5. \A i \in o .. EndOf(a, o) - 1 : a[i + 1] = b[i + 1]
  BY <1>1, <1>3, <1>4
<1>6. a[o + 1] = b[o + 1]
  BY <1>4, <1>5
<1>7. a[o + 1] \in Cell
  BY <1>1, <1>4
<1>8. BodyEnd(a, o) = BodyEnd(b, o) /\ BodyEnd(a, o) = EndOf(a, o) - 1
  <2>1. a[o + 1].arg \in Nat
    BY <1>7 DEF Cell
  <2> QED  BY <2>1, <1>4, <1>6 DEF BodyEnd, EndOf
<1>9. \A i \in o .. BodyEnd(a, o) : a[i + 1] = b[i + 1]
  BY <1>5, <1>8, <1>4
<1>10. PairsAt(a, o) = PairsAt(b, o)
  BY <1>8, <1>9 DEF PairsAt
<1> QED  BY <1>10 DEF a, b

(* A buffer has only one scan: two sets of starts that both answer the     *)
(* description of a left to right scan are equal.                          *)
LEMMA ScanIsUnique ==
  ASSUME NEW b \in Seq(Cell), NEW S, NEW T, IsScan(b, S), IsScan(b, T)
  PROVE  S = T
<1> DEFINE D == (S \ T) \cup (T \ S)
<1>1. S \subseteq CompleteIn(b) /\ T \subseteq CompleteIn(b)
  BY DEF IsScan
<1>2. D \subseteq Nat
  BY <1>1 DEF CompleteIn
<1> SUFFICES ASSUME D # {} PROVE FALSE
  OBVIOUS
<1>3. PICK d \in D : \A y \in D : d <= y
  <2> HIDE DEF D
  <2> QED  BY <1>2, NatMinimum
<1>4. \A p \in Nat : p < d => (p \in S <=> p \in T)
  <2> SUFFICES ASSUME NEW p \in Nat, p < d, p \in D PROVE FALSE
    OBVIOUS
  <2>1. d <= p
    BY <1>3
  <2> QED  BY <2>1, <1>2
<1>5. S \subseteq Nat /\ T \subseteq Nat
  BY <1>1 DEF CompleteIn
<1>6. d \in CompleteIn(b)
  BY <1>1
<1>7. (\E p \in S : p < d /\ d < EndOf(b, p)) <=> (\E p \in T : p < d /\ d < EndOf(b, p))
  BY <1>4, <1>5
<1>8. d \in S <=> d \in T
  BY <1>6, <1>7 DEF IsScan
<1> QED  BY <1>8

-----------------------------------------------------------------------------
MentionedBy(b, offsets, k) ==
  {n \in 0 .. Len(offsets) - 1 : k \in PairsAt(b, offsets[n + 1].start)}

ListedIn(l) == {l[i] : i \in 1 .. Len(l)}

Increasing(l) == \A i, j \in 1 .. Len(l) : i < j => l[i] < l[j]

LEMMA ListsExactlyParts ==
  ASSUME NEW K, NEW sec \in [K -> Seq(Nat)], NEW b, NEW offsets
  PROVE  ListsExactly(sec, b, offsets) <=>
           \A k \in K : ListedIn(sec[k]) = MentionedBy(b, offsets, k) /\ Increasing(sec[k])
BY DEF ListsExactly, ListedIn, MentionedBy, Increasing

LEMMA RecordType ==
  ASSUME NEW K, NEW sec \in [K -> Seq(Nat)], NEW pairs, NEW n \in Nat
  PROVE  record(sec, pairs, n) \in [K -> Seq(Nat)]
BY DEF record

(* An ordinal above all those of a list goes to its end.                   *)
LEMMA AppendAbove ==
  ASSUME NEW l \in Seq(Nat), NEW n \in Nat, Increasing(l),
         \A x \in ListedIn(l) : x < n
  PROVE  /\ ListedIn(Append(l, n)) = ListedIn(l) \cup {n}
         /\ Increasing(Append(l, n))
<1> DEFINE a == Append(l, n)
<1>1. /\ Len(a) = Len(l) + 1 /\ a[Len(l) + 1] = n /\ Len(l) \in Nat
      /\ \A i \in 1 .. Len(l) : a[i] = l[i]
  OBVIOUS
<1> HIDE DEF a
<1>2. ListedIn(a) = ListedIn(l) \cup {n}
  <2>1. ASSUME NEW x \in ListedIn(a) PROVE x \in ListedIn(l) \cup {n}
    BY <1>1 DEF ListedIn
  <2>2. ASSUME NEW x \in ListedIn(l) PROVE x \in ListedIn(a)
    <3>1. PICK i \in 1 .. Len(l) : x = l[i]
      BY DEF ListedIn
    <3>2. i \in 1 .. Len(a) /\ x = a[i]
      BY <3>1, <1>1
    <3> QED  BY <3>2 DEF ListedIn
  <2>3. n \in ListedIn(a)
    <3>1. Len(l) + 1 \in 1 .. Len(a)
      BY <1>1
    <3> QED  BY <3>1, <1>1 DEF ListedIn
  <2> QED  BY <2>1, <2>2, <2>3
<1>3. ASSUME NEW i \in 1 .. Len(a), NEW j \in 1 .. Len(a), i < j
      PROVE  a[i] < a[j]
  <2>1. i \in 1 .. Len(l)
    BY <1>1, <1>3
  <2>2. CASE j = Len(l) + 1
    <3>1. l[i] \in ListedIn(l)
      BY <2>1 DEF ListedIn
    <3> QED  BY <1>1, <2>1, <2>2, <3>1
  <2>3. CASE j \in 1 .. Len(l)
    BY <1>1, <1>3, <2>1, <2>3 DEF Increasing
  <2> QED  BY <1>1, <2>2, <2>3
<1> QED  BY <1>2, <1>3 DEF a, Increasing

(* record keeps the lists exact when the offset is added at the end.       *)
LEMMA RecordExact ==
  ASSUME NEW K, NEW sec \in [K -> Seq(Nat)], NEW b,
         NEW offsets \in Seq(MessageOffset), NEW m \in MessageOffset,
         ListsExactly(sec, b, offsets)
  PROVE  ListsExactly(record(sec, PairsAt(b, m.start), Len(offsets)), b, Append(offsets, m))
<1> DEFINE n == Len(offsets)
           r == record(sec, PairsAt(b, m.start), n)
           app == Append(offsets, m)
<1>1. /\ n \in Nat /\ Len(app) = n + 1 /\ app[n + 1] = m
      /\ \A i \in 1 .. n : app[i] = offsets[i]
  OBVIOUS
<1>2. r \in [K -> Seq(Nat)]
  BY <1>1, RecordType
<1> SUFFICES ASSUME NEW k \in K
             PROVE  ListedIn(r[k]) = MentionedBy(b, app, k) /\ Increasing(r[k])
  BY <1>2, ListsExactlyParts
<1>3. ListedIn(sec[k]) = MentionedBy(b, offsets, k) /\ Increasing(sec[k]) /\ sec[k] \in Seq(Nat)
  BY ListsExactlyParts
<1>4. r[k] = IF k \in PairsAt(b, m.start) THEN Append(sec[k], n) ELSE sec[k]
  BY DEF record
<1> HIDE DEF r, app, n
<1>5. /\ Len(offsets) = n /\ 0 .. Len(app) - 1 = (0 .. n - 1) \cup {n}
      /\ \A x \in 0 .. n - 1 : app[x + 1] = offsets[x + 1]
  BY <1>1 DEF n
<1>6. CASE k \in PairsAt(b, m.start)
  <2>1. MentionedBy(b, app, k) = MentionedBy(b, offsets, k) \cup {n}
    BY <1>1, <1>5, <1>6 DEF MentionedBy
  <2>2. \A x \in ListedIn(sec[k]) : x < n
    BY <1>1, <1>3, <1>5 DEF MentionedBy
  <2> QED  BY <1>1, <1>3, <1>4, <1>6, <2>1, <2>2, AppendAbove
<1>7. CASE k \notin PairsAt(b, m.start)
  <2>1. MentionedBy(b, app, k) = MentionedBy(b, offsets, k)
    BY <1>1, <1>5, <1>7 DEF MentionedBy
  <2> QED  BY <1>3, <1>4, <1>7, <2>1
<1> QED  BY <1>6, <1>7
=============================================================================
