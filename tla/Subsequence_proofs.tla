-------------------------- MODULE Subsequence_proofs --------------------------
(***************************************************************************)
(* Facts about sets of numbers and about sequences that the proofs of the  *)
(* components share.  Least elements come from the well-foundedness of the *)
(* naturals, and stand in for induction.                                   *)
(***************************************************************************)
EXTENDS Subsequence, Functions, FiniteSetTheorems, SequenceTheorems,
        WellFoundedInduction, TLAPS

(* Every inhabited set of naturals has a least element. *)
LEMMA LeastExists ==
  ASSUME NEW T \in SUBSET Nat, T # {}
  PROVE  \E x \in T : \A y \in T : x <= y
<1> DEFINE R == OpToRel(<, Nat)
<1>1. \E x \in T : \A y \in T : ~(<<y, x>> \in R)
  BY NatLessThanWellFounded, WFMin, Zenon
<1>2. \A x, y \in Nat : <<y, x>> \in R <=> y < x
  BY DEF OpToRel
<1> HIDE DEF R
<1>3. \A x, y \in Nat : ~(y < x) => x <= y OBVIOUS
<1>4. \A x \in T : x \in Nat OBVIOUS
<1> QED BY <1>1, <1>2, <1>3, <1>4, Zenon

(* Every inhabited, bounded set of naturals has a largest element. *)
LEMMA LargestExists ==
  ASSUME NEW n \in Nat, NEW T \in SUBSET (0..n), T # {}
  PROVE  \E x \in T : \A y \in T : y <= x
<1> DEFINE D == {d \in 0..n : n - d \in T}
<1>1. D \in SUBSET Nat OBVIOUS
<1>2. D # {}
  <2>1. PICK x \in T : TRUE OBVIOUS
  <2>2. x \in 0..n BY <2>1
  <2>3. n - x \in 0..n /\ n - (n - x) = x BY <2>2
  <2> QED BY <2>1, <2>3
<1>3. PICK d \in D : \A e \in D : d <= e BY <1>1, <1>2, LeastExists
<1>4. ASSUME NEW y \in T PROVE y <= n - d
  <2>1. y \in 0..n /\ n - y \in 0..n /\ n - (n - y) = y OBVIOUS
  <2>2. n - y \in D BY <2>1
  <2>3. d <= n - y /\ d \in 0..n BY <1>3, <2>2
  <2> QED BY <2>1, <2>3
<1>5. n - d \in T BY <1>3
<1> QED BY <1>4, <1>5

(* Every rank of a finite set of indexes is taken. *)
LEMMA RankTaken ==
  ASSUME NEW n \in Nat, NEW I \in SUBSET (1..n), NEW k \in 1..Cardinality(I)
  PROVE  \E i \in I : Cardinality({j \in I : j <= i}) = k
<1> DEFINE Below(i) == {j \in I : j <= i}
           T == {i \in I : Cardinality(Below(i)) >= k}
<1>1. IsFiniteSet(I) /\ Cardinality(I) \in Nat
  <2>1. IsFiniteSet(1..n) BY FS_Interval
  <2> QED BY <2>1, FS_Subset, FS_CardinalityType
<1>2. \A i : IsFiniteSet(Below(i)) /\ Cardinality(Below(i)) \in Nat
  BY <1>1, FS_Subset, FS_CardinalityType
<1>3. T # {}
  <2>1. I # {} BY <1>1, FS_EmptySet
  <2>2. I \in SUBSET (0..n) OBVIOUS
  <2>3. PICK m \in I : \A y \in I : y <= m BY <2>1, <2>2, LargestExists
  <2>4. Below(m) = I BY <2>3
  <2> QED BY <2>3, <2>4
<1>4. T \in SUBSET Nat
  <2>1. T \subseteq I /\ I \subseteq Nat OBVIOUS
  <2> QED BY <2>1
<1>5. PICK i \in T : \A y \in T : i <= y BY <1>3, <1>4, LeastExists
<1>6. i \in I /\ Cardinality(Below(i)) >= k BY <1>5
<1>7. ASSUME Cardinality(Below(i)) # k PROVE FALSE
  <2> DEFINE L == Below(i) \ {i}
  <2>1. i \in Below(i) BY <1>6
  <2>2. IsFiniteSet(L) /\ Cardinality(L) = Cardinality(Below(i)) - 1
    BY <1>2, <2>1, FS_RemoveElement
  <2>3. Cardinality(L) >= k BY <1>2, <1>6, <1>7, <2>2
  <2>4. L # {} BY <2>3, FS_EmptySet
  <2>5. L \in SUBSET (0..n)
    <3>1. L \subseteq I /\ I \subseteq 0..n OBVIOUS
    <3> QED BY <3>1
  <2>6. PICK m \in L : \A y \in L : y <= m BY <2>4, <2>5, LargestExists
  <2>7. m \in I /\ m < i BY <1>6, <2>6
  <2>8. Below(m) = L
    <3>1. ASSUME NEW j \in I PROVE j <= m <=> j <= i /\ j # i
      <4>1. j \in Nat /\ m \in Nat /\ i \in Nat BY <1>6, <2>7
      <4>2. j <= i /\ j # i => j \in L OBVIOUS
      <4> QED BY <2>6, <2>7, <4>1, <4>2
    <3> QED BY <3>1
  <2>9. m \in T BY <2>3, <2>7, <2>8
  <2> QED BY <1>5, <1>6, <2>7, <2>9
<1> QED BY <1>6, <1>7

(* What is selected from a sequence over S is a sequence over S, as long as *)
(* the selection.                                                           *)
LEMMA SelectedType ==
  ASSUME NEW S, NEW s \in Seq(S), NEW I \in SUBSET (1..Len(s))
  PROVE  Selected(s, I) \in Seq(S) /\ Len(Selected(s, I)) = Cardinality(I)
<1>1. Len(s) \in Nat /\ IsFiniteSet(I) /\ Cardinality(I) \in Nat
  <2>1. Len(s) \in Nat OBVIOUS
  <2>2. IsFiniteSet(1..Len(s)) BY <2>1, FS_Interval
  <2> QED BY <2>1, <2>2, FS_Subset, FS_CardinalityType
<1>2. ASSUME NEW k \in 1..Cardinality(I)
      PROVE  s[CHOOSE i \in I : Cardinality({j \in I : j <= i}) = k] \in S
  <2>1. \E i \in I : Cardinality({j \in I : j <= i}) = k
    BY <1>1, RankTaken
  <2> DEFINE c == CHOOSE i \in I : Cardinality({j \in I : j <= i}) = k
  <2>2. c \in I BY <2>1
  <2> HIDE DEF c
  <2>3. s[c] \in S BY <2>2
  <2> QED BY <2>3 DEF c
<1>3. Selected(s, I) \in [1..Cardinality(I) -> S]
  BY <1>2 DEF Selected
<1> QED BY <1>1, <1>3

(* Appending adds one element to the range. *)
LEMMA RangeAppend ==
  ASSUME NEW S, NEW s \in Seq(S), NEW x \in S
  PROVE  Range(Append(s, x)) = Range(s) \cup {x}
<1>1. /\ DOMAIN s = 1..Len(s) /\ Len(s) \in Nat
      /\ DOMAIN Append(s, x) = 1..(Len(s) + 1)
  OBVIOUS
<1>2. /\ \A i \in 1..Len(s) : Append(s, x)[i] = s[i]
      /\ Append(s, x)[Len(s) + 1] = x
  OBVIOUS
<1>3. \A y : y \in Range(Append(s, x)) <=> y \in Range(s) \cup {x}
  BY <1>1, <1>2 DEF Range
<1> QED BY <1>3

(* The empty sequence has no element. *)
LEMMA RangeEmpty == Range(<<>>) = {}
BY DEF Range

(* The rank of an index in a set of indexes. *)
RankIn(I, i) == Cardinality({x \in I : x <= i})

(* A larger index of a set has a larger rank. *)
LEMMA RankGrows ==
  ASSUME NEW n \in Nat, NEW I \in SUBSET (1..n), NEW i \in I, NEW j \in I, i < j
  PROVE  /\ RankIn(I, i) \in 1..Cardinality(I) /\ RankIn(I, j) \in 1..Cardinality(I)
         /\ RankIn(I, i) < RankIn(I, j)
<1> DEFINE B(k) == {x \in I : x <= k}
<1>1. IsFiniteSet(I) /\ Cardinality(I) \in Nat
  <2>1. IsFiniteSet(1..n) BY FS_Interval
  <2> QED BY <2>1, FS_Subset, FS_CardinalityType
<1>2. B(i) \in SUBSET I /\ B(j) \in SUBSET I OBVIOUS
<1>3. /\ IsFiniteSet(B(i)) /\ Cardinality(B(i)) \in Nat /\ Cardinality(B(i)) <= Cardinality(I)
      /\ IsFiniteSet(B(j)) /\ Cardinality(B(j)) \in Nat /\ Cardinality(B(j)) <= Cardinality(I)
  BY <1>1, <1>2, FS_Subset, FS_CardinalityType
<1>4. i \in Nat /\ j \in Nat OBVIOUS
<1>5. i \in B(i) /\ j \in B(j) /\ j \notin B(i) BY <1>4
<1>6. B(i) \in SUBSET B(j)
  <2>1. \A x \in I : x <= i => x <= j BY <1>4
  <2> QED BY <2>1
<1> HIDE DEF B
<1>7. Cardinality(B(i)) <= Cardinality(B(j)) /\ Cardinality(B(i)) # Cardinality(B(j))
  BY <1>3, <1>5, <1>6, FS_Subset
<1>8. Cardinality(B(i)) # 0 /\ Cardinality(B(j)) # 0
  BY <1>3, <1>5, FS_EmptySet
<1>9. RankIn(I, i) = Cardinality(B(i)) /\ RankIn(I, j) = Cardinality(B(j)) BY DEF B, RankIn
<1> QED BY <1>1, <1>3, <1>7, <1>8, <1>9

(* Every rank is taken. *)
LEMMA RankReached ==
  ASSUME NEW n \in Nat, NEW I \in SUBSET (1..n), NEW k \in 1..Cardinality(I)
  PROVE  \E i \in I : RankIn(I, i) = k
<1>1. PICK i \in I : Cardinality({j \in I : j <= i}) = k BY RankTaken
<1>2. RankIn(I, i) = k BY <1>1 DEF RankIn
<1> QED BY <1>2

(* The element of a selection at the rank of an index is the one at that    *)
(* index.                                                                   *)
LEMMA SelectedAt ==
  ASSUME NEW n \in Nat, NEW s, NEW I \in SUBSET (1..n), NEW i \in I
  PROVE  RankIn(I, i) \in 1..Cardinality(I) /\ Selected(s, I)[RankIn(I, i)] = s[i]
<1> DEFINE r == RankIn(I, i)
           c == CHOOSE k \in I : Cardinality({j \in I : j <= k}) = r
<1>1. r \in 1..Cardinality(I)
  <2> DEFINE B == {x \in I : x <= i}
  <2>1. IsFiniteSet(1..n) BY FS_Interval
  <2>2. IsFiniteSet(I) /\ Cardinality(I) \in Nat BY <2>1, FS_Subset, FS_CardinalityType
  <2>3. B \in SUBSET I /\ i \in Nat OBVIOUS
  <2>4. IsFiniteSet(B) /\ Cardinality(B) \in Nat /\ Cardinality(B) <= Cardinality(I)
    BY <2>2, <2>3, FS_Subset, FS_CardinalityType
  <2>5. i \in B BY <2>3
  <2>6. Cardinality(B) # 0 BY <2>4, <2>5, FS_EmptySet
  <2>7. r = Cardinality(B) BY DEF RankIn
  <2> QED BY <2>2, <2>4, <2>6, <2>7
<1>2. c \in I /\ RankIn(I, c) = r
  <2>1. \A k \in I : RankIn(I, k) = Cardinality({j \in I : j <= k}) BY DEF RankIn
  <2>2. \E k \in I : Cardinality({j \in I : j <= k}) = r BY <2>1
  <2>3. c \in I /\ Cardinality({j \in I : j <= c}) = r BY <2>2
  <2> QED BY <2>1, <2>3
<1>3. c = i
  <2> HIDE DEF c
  <2>1. i \in Nat /\ c \in Nat
    <3>1. i \in 1..n /\ c \in 1..n BY <1>2
    <3> QED BY <3>1
  <2>2. CASE c < i
    <3>1. RankIn(I, c) < RankIn(I, i) BY <1>2, <2>2, RankGrows
    <3> QED BY <1>1, <1>2, <3>1
  <2>3. CASE i < c
    <3>1. RankIn(I, i) < RankIn(I, c) BY <1>2, <2>3, RankGrows
    <3> QED BY <1>1, <1>2, <3>1
  <2> QED BY <2>1, <2>2, <2>3
<1>4. Selected(s, I)[r] = s[c] BY <1>1 DEF Selected
<1> QED BY <1>1, <1>3, <1>4

(* The same, as one statement about the selection and the index. *)
AtRank(s, I, i) == RankIn(I, i) \in 1..Cardinality(I) /\ Selected(s, I)[RankIn(I, i)] = s[i]

(* It holds of every index of the selection. *)
LEMMA SelectedAtRank ==
  ASSUME NEW n \in Nat, NEW s, NEW I \in SUBSET (1..n), NEW i \in I
  PROVE  AtRank(s, I, i)
BY SelectedAt DEF AtRank

(* Selecting nothing. *)
LEMMA SelectedNone ==
  ASSUME NEW s
  PROVE  Selected(s, {}) = <<>>
<1>1. Cardinality({}) = 0 BY FS_EmptySet
<1>2. 1..0 = {} OBVIOUS
<1> QED BY <1>1, <1>2 DEF Selected

(* A selection reads only the selected indexes. *)
LEMMA SelectedSame ==
  ASSUME NEW n \in Nat, NEW s, NEW t, NEW I \in SUBSET (1..n), \A i \in I : s[i] = t[i]
  PROVE  Selected(s, I) = Selected(t, I)
<1>1. ASSUME NEW k \in 1..Cardinality(I)
      PROVE  s[CHOOSE i \in I : Cardinality({j \in I : j <= i}) = k]
               = t[CHOOSE i \in I : Cardinality({j \in I : j <= i}) = k]
  <2> DEFINE c == CHOOSE i \in I : Cardinality({j \in I : j <= i}) = k
  <2>1. \E i \in I : Cardinality({j \in I : j <= i}) = k BY RankTaken
  <2>2. c \in I BY <2>1
  <2> HIDE DEF c
  <2>3. s[c] = t[c] BY <2>2
  <2> QED BY <2>3 DEF c
<1> DEFINE f(k) == s[CHOOSE i \in I : Cardinality({j \in I : j <= i}) = k]
           g(k) == t[CHOOSE i \in I : Cardinality({j \in I : j <= i}) = k]
<1>2. \A k \in 1..Cardinality(I) : f(k) = g(k) BY <1>1
<1>3. Selected(s, I) = [k \in 1..Cardinality(I) |-> f(k)] BY DEF Selected
<1>4. Selected(t, I) = [k \in 1..Cardinality(I) |-> g(k)] BY DEF Selected
<1> HIDE DEF f, g
<1> QED BY <1>2, <1>3, <1>4

(* Selecting the appended element too appends it to the selection. *)
LEMMA SelectedAppend ==
  ASSUME NEW S, NEW s \in Seq(S), NEW x \in S, NEW I \in SUBSET (1..Len(s))
  PROVE  Selected(Append(s, x), I \cup {Len(s) + 1}) = Append(Selected(s, I), x)
<1> DEFINE n == Len(s)
           t == Append(s, x)
           J == I \cup {n + 1}
           a == Selected(t, J)
           b == Append(Selected(s, I), x)
<1>1. n \in Nat /\ t \in Seq(S) /\ Len(t) = n + 1 /\ t[n + 1] = x /\ \A i \in 1..n : t[i] = s[i]
  OBVIOUS
<1>2. IsFiniteSet(I) /\ Cardinality(I) \in Nat
  <2>1. IsFiniteSet(1..n) BY <1>1, FS_Interval
  <2> QED BY <2>1, FS_Subset, FS_CardinalityType
<1>3. n + 1 \notin I BY <1>1
<1>4. Cardinality(J) = Cardinality(I) + 1 BY <1>2, <1>3, FS_AddElement
<1>5. J \in SUBSET (1..(n + 1)) /\ n + 1 \in J /\ n + 1 \in Nat
  <2>1. \A i \in 1..n : i \in 1..(n + 1) BY <1>1
  <2>2. n + 1 \in 1..(n + 1) /\ n + 1 \in Nat BY <1>1
  <2>3. \A i \in I : i \in 1..n OBVIOUS
  <2>4. \A i \in J : i \in 1..(n + 1) BY <2>1, <2>2, <2>3
  <2> QED BY <2>2, <2>4
<1>6. a \in Seq(S) /\ Len(a) = Cardinality(I) + 1
  BY <1>1, <1>4, <1>5, SelectedType
<1>7. Selected(s, I) \in Seq(S) /\ Len(Selected(s, I)) = Cardinality(I) BY SelectedType
<1>8. b \in Seq(S) /\ Len(b) = Cardinality(I) + 1 BY <1>7
<1>9. ASSUME NEW k \in 1..(Cardinality(I) + 1) PROVE a[k] = b[k]
  <2>1. CASE k = Cardinality(I) + 1
    <3>1. RankIn(J, n + 1) = Cardinality(J)
      <4>1. \A j \in 1..(n + 1) : j <= n + 1 BY <1>5
      <4>2. {j \in J : j <= n + 1} = J BY <1>5, <4>1
      <4> QED BY <4>2 DEF RankIn
    <3>2. a[RankIn(J, n + 1)] = t[n + 1]
      <4> HIDE DEF J, t, n
      <4> QED BY <1>5, SelectedAt
    <3>3. a[k] = t[n + 1] BY <1>4, <2>1, <3>1, <3>2
    <3>4. b[k] = x BY <1>7, <2>1
    <3> QED BY <1>1, <3>3, <3>4
  <2>2. CASE k # Cardinality(I) + 1
    <3>1. k \in 1..Cardinality(I) BY <1>2, <2>2
    <3>2. PICK i \in I : RankIn(I, i) = k BY <1>1, <3>1, RankReached
    <3>3. RankIn(J, i) = k
      <4>1. i \in 1..n BY <3>2
      <4>2. ~(n + 1 <= i) BY <1>1, <4>1
      <4>3. {j \in J : j <= i} = {j \in I : j <= i} BY <4>2
      <4> QED BY <3>2, <4>3 DEF RankIn
    <3>4. i \in J BY <3>2
    <3>5. a[RankIn(J, i)] = t[i]
      <4> HIDE DEF J, t, n
      <4> QED BY <1>5, <3>4, SelectedAt
    <3>6. a[k] = t[i] BY <3>3, <3>5
    <3>7. Selected(s, I)[RankIn(I, i)] = s[i] BY <1>1, <3>2, SelectedAt
    <3>8. b[k] = Selected(s, I)[k] BY <1>7, <3>1
    <3> QED BY <1>1, <3>2, <3>6, <3>7, <3>8
  <2> QED BY <2>1, <2>2
<1> HIDE DEF a, b
<1>10. a = b BY <1>6, <1>8, <1>9, SeqEqual
<1> QED BY <1>10 DEF a, b

=============================================================================
