---------------------------- MODULE IngressProofs ----------------------------
(***************************************************************************)
(* What happens to a Play at the two ends of its life: that it is found in *)
(* lists without dates, whatever the lists are, how much of them is looked *)
(* at and how many are remembered; what the transforms make of it, whatever *)
(* the hooks and their stages are and whatever the caches remember of other *)
(* Plays; and when the retention task compacts and deletes it, whatever the *)
(* policies of the components are.                                         *)
(***************************************************************************)
EXTENDS MCIngress, SequenceTheorems, FiniteSetTheorems, WellFoundedInduction, TLAPS

(* A set of numbers has a least one.                                       *)
LEMMA LeastNatural ==
  ASSUME NEW S, S \subseteq Nat, S # {}
  PROVE  \E m \in S : \A n \in S : m <= n
<1> DEFINE R == {ss \in Nat \X Nat : ss[1] < ss[2]}
<1>1. IsWellFoundedOn(R, Nat)
  BY NatLessThanWellFounded DEF OpToRel
<1>2. \A x, y \in Nat : x < y => <<x, y>> \in R
  OBVIOUS
<1> HIDE DEF R
<1>3. PICK m \in S : \A n \in S : ~(<<n, m>> \in R)
  BY <1>1, WFMin
<1>4. \A n \in S : m <= n
  <2> TAKE n \in S
  <2>1. ~(n < m)
    BY <1>2, <1>3
  <2> QED BY <2>1
<1> QED BY <1>4

(***************************************************************************)
(* Lists.  An entry is compared by its track and by which occurrence of it  *)
(* it is.  What a Source then takes for a listen was put on top of the list *)
(* it has: either a run of tracks the list has not, or one entry that moved *)
(* there.  What remains is to know that the history is its list with just   *)
(* the listens since on top.                                                *)
(***************************************************************************)

-----------------------------------------------------------------------------
(* Sequences. *)

(* What holds of the empty sequence and of a sequence with one more at its  *)
(* end holds of all: the shortest without it would have one that is shorter. *)
LEMMA OnAllSequences ==
  ASSUME NEW A, NEW Good, <<>> \in Good,
         \A s \in Seq(A), x \in A : s \in Good => Append(s, x) \in Good
  PROVE  Seq(A) \subseteq Good
<1> DEFINE Bad == { m \in Nat : \E s \in Seq(A) : Len(s) = m /\ s \notin Good }
<1> SUFFICES ASSUME NEW r \in Seq(A), r \notin Good PROVE FALSE
  OBVIOUS
<1>1. Len(r) \in Bad
  OBVIOUS
<1>2. PICK m \in Bad : \A k \in Bad : m <= k
  <2>1. Bad \subseteq Nat /\ Bad # {}
    BY <1>1
  <2> QED BY <2>1, LeastNatural
<1>3. PICK s \in Seq(A) : Len(s) = m /\ s \notin Good
  BY <1>2
<1>4. s # <<>>
  BY <1>3
<1>5. PICK t \in Seq(A), x \in A : s = Append(t, x)
  BY <1>4, SequenceEmptyOrAppend
<1>6. Len(t) = m - 1 /\ t \notin Good /\ m \in Nat
  BY <1>3, <1>5
<1>7. m - 1 \in Bad
  BY <1>6
<1> QED BY <1>2, <1>6, <1>7

(* How many of a set of numbers there are up to one of them.                *)
Rank(P, i) == Cardinality({ j \in P : j <= i })

LEMMA RankGrows ==
  ASSUME NEW n \in Nat, NEW P \in SUBSET (1..n)
  PROVE  /\ IsFiniteSet(P) /\ Cardinality(P) \in Nat /\ Cardinality(P) <= n
         /\ \A i \in P : /\ Rank(P, i) \in Nat
                         /\ 1 <= Rank(P, i) /\ Rank(P, i) <= Cardinality(P)
         /\ \A i, j \in P : i < j => Rank(P, i) < Rank(P, j)
<1> DEFINE upto(i) == { j \in P : j <= i }
<1>1. IsFiniteSet(1..n) /\ Cardinality(1..n) = n
  BY FS_Interval
<1>2. IsFiniteSet(P) /\ Cardinality(P) \in Nat /\ Cardinality(P) <= n
  BY <1>1, FS_Subset, FS_CardinalityType
<1>3. \A i \in P : upto(i) \in SUBSET P /\ i \in upto(i)
  OBVIOUS
<1>4. \A i : Rank(P, i) = Cardinality(upto(i))
  BY DEF Rank
<1>5. \A i, j \in P : i < j => upto(i) \in SUBSET upto(j) /\ j \notin upto(i)
  <2> SUFFICES ASSUME NEW i \in P, NEW j \in P, i < j
               PROVE  upto(i) \in SUBSET upto(j) /\ j \notin upto(i)
    OBVIOUS
  <2>1. i \in Int /\ j \in Int /\ \A k \in P : k \in Int
    OBVIOUS
  <2>2. \A k \in P : k <= i => k <= j
    BY <2>1
  <2>3. ~(j <= i)
    BY <2>1
  <2> QED BY <2>2, <2>3
<1> HIDE DEF upto
<1>6. \A i \in P : /\ IsFiniteSet(upto(i)) /\ Cardinality(upto(i)) \in Nat
                  /\ Cardinality(upto(i)) <= Cardinality(P)
  BY <1>2, <1>3, FS_Subset, FS_CardinalityType
<1>7. \A i \in P : Cardinality(upto(i)) # 0
  BY <1>3, <1>6, FS_EmptySet
<1>8. \A i, j \in P : i < j => Cardinality(upto(i)) < Cardinality(upto(j))
  <2> SUFFICES ASSUME NEW i \in P, NEW j \in P, i < j
               PROVE  Cardinality(upto(i)) < Cardinality(upto(j))
    OBVIOUS
  <2>1. /\ Cardinality(upto(i)) <= Cardinality(upto(j))
        /\ Cardinality(upto(j)) = Cardinality(upto(i)) => upto(i) = upto(j)
    BY <1>5, <1>6, FS_Subset
  <2>2. upto(i) # upto(j)
    BY <1>3, <1>5
  <2> QED BY <2>1, <2>2, <1>6
<1>9. \A i \in P : /\ Rank(P, i) \in Nat
                  /\ 1 <= Rank(P, i) /\ Rank(P, i) <= Cardinality(P)
  BY <1>2, <1>4, <1>6, <1>7
<1>10. \A i, j \in P : i < j => Rank(P, i) < Rank(P, j)
  BY <1>4, <1>8
<1> QED BY <1>2, <1>9, <1>10

LEMMA RankIsOnto ==
  ASSUME NEW n \in Nat, NEW P \in SUBSET (1..n)
  PROVE  \A k \in 1..Cardinality(P) : \E i \in P : Rank(P, i) = k
<1> DEFINE c == Cardinality(P)
           rank == [i \in P |-> Rank(P, i)]
<1>1. /\ IsFiniteSet(P) /\ c \in Nat
      /\ \A i \in P : Rank(P, i) \in Nat /\ 1 <= Rank(P, i) /\ Rank(P, i) <= c
      /\ \A i, j \in P : i < j => Rank(P, i) < Rank(P, j)
  BY RankGrows
<1>2. IsFiniteSet(1..c) /\ Cardinality(1..c) = c
  BY <1>1, FS_Interval
<1> HIDE DEF c
<1>3. rank \in Injection(P, 1..c)
  <2>1. rank \in [P -> 1..c]
    BY <1>1
  <2>2. \A i, j \in P : rank[i] = rank[j] => i = j
    <3> TAKE i, j \in P
    <3>1. i \in Int /\ j \in Int /\ (i < j \/ j < i \/ i = j)
      OBVIOUS
    <3>2. Rank(P, i) \in Int /\ Rank(P, j) \in Int
      BY <1>1
    <3> QED BY <3>1, <3>2, <1>1
  <2> QED BY <2>1, <2>2 DEF Injection, IsInjective
<1>4. rank \in Surjection(P, 1..c)
  BY <1>2, <1>3, FS_Injection DEF c
<1>5. \A k \in 1..c : \E i \in P : rank[i] = k
  BY <1>4 DEF Surjection
<1> QED BY <1>5 DEF c

LEMMA IndexOfIs ==
  ASSUME NEW n \in Nat, NEW P \in SUBSET (1..n), NEW k \in 1..Cardinality(P)
  PROVE  IndexOf(P, k) \in P /\ Rank(P, IndexOf(P, k)) = k
<1>1. \E i \in P : Cardinality({ j \in P : j <= i }) = k
  BY RankIsOnto DEF Rank
<1> QED BY <1>1 DEF IndexOf, Rank

LEMMA IndexOfRank ==
  ASSUME NEW n \in Nat, NEW P \in SUBSET (1..n), NEW i \in P
  PROVE  IndexOf(P, Rank(P, i)) = i
<1> DEFINE k == Rank(P, i)
           j == IndexOf(P, k)
<1>1. k \in 1..Cardinality(P)
  BY RankGrows
<1>2. j \in P /\ Rank(P, j) = k
  BY <1>1, IndexOfIs
<1> HIDE DEF j
<1>3. i \in Int /\ j \in Int /\ Rank(P, i) \in Int /\ Rank(P, j) \in Int
  BY <1>1, <1>2
<1>4. ~(i < j) /\ ~(j < i)
  BY <1>2, <1>3, RankGrows
<1> QED BY <1>3, <1>4 DEF j

-----------------------------------------------------------------------------
(* What is selected of a sequence. *)

LEMMA SelectedType ==
  ASSUME NEW A, NEW s \in Seq(A), NEW D
  PROVE  /\ Selected(s, D) \in Seq(A) /\ Selected(s, D) \in Seq(A \cap D)
         /\ Len(Selected(s, D)) <= Len(s)
         /\ Len(Selected(s, D)) = Len(s) => Selected(s, D) = s
<1> DEFINE P == { i \in DOMAIN s : s[i] \in D }
           n == Len(s)
           c == Cardinality(P)
<1>1. n \in Nat /\ P \in SUBSET (1..n) /\ DOMAIN s = 1..n
  OBVIOUS
<1>2. IsFiniteSet(P) /\ c \in Nat /\ c <= n
  BY <1>1, RankGrows
<1>3. \A k \in 1..c : IndexOf(P, k) \in P /\ Rank(P, IndexOf(P, k)) = k
  BY <1>1, IndexOfIs
<1>4. Selected(s, D) = [k \in 1..c |-> s[IndexOf(P, k)]]
  BY DEF Selected
<1>5. \A k \in 1..c : s[IndexOf(P, k)] \in A \cap D
  BY <1>3
<1>6. Selected(s, D) \in [1..c -> A \cap D]
  BY <1>4, <1>5
<1>7. Selected(s, D) \in Seq(A \cap D) /\ Len(Selected(s, D)) = c
  <2> HIDE DEF c
  <2>1. \A f \in [1..c -> A \cap D] : f \in Seq(A \cap D) /\ Len(f) = c
    BY <1>2
  <2> QED BY <2>1, <1>6
<1>8. ASSUME c = n PROVE Selected(s, D) = s
  <2>1. P = 1..n
    <3>1. IsFiniteSet(1..n) /\ Cardinality(1..n) = n
      <4>1. \A m \in Nat : IsFiniteSet(1..m) /\ Cardinality(1..m) = m
        BY FS_Interval
      <4> QED BY <4>1, <1>1
    <3> HIDE DEF P
    <3> QED BY <3>1, <1>1, <1>8, FS_Subset
  <2>2. \A i \in 1..n : Rank(P, i) = i
    <3> TAKE i \in 1..n
    <3>1. { j \in P : j <= i } = 1..i
      BY <2>1
    <3>2. Cardinality(1..i) = i
      BY FS_Interval
    <3> QED BY <3>1, <3>2 DEF Rank
  <2>3. \A i \in 1..n : IndexOf(P, i) = i
    <3> TAKE i \in 1..n
    <3>1. i \in P /\ Rank(P, i) = i
      BY <2>1, <2>2
    <3> QED BY <3>1, <1>1, IndexOfRank
  <2> HIDE DEF P, n
  <2>4. Selected(s, D) = [k \in 1..n |-> s[k]]
    BY <2>3, <1>4, <1>8
  <2> QED BY <2>4, <1>1 DEF n
<1>9. Selected(s, D) \in Seq(A)
  BY <1>7, SeqMonotonic
<1> QED BY <1>2, <1>7, <1>8, <1>9

LEMMA SelectedEmpty ==
  ASSUME NEW D
  PROVE  Selected(<<>>, D) = <<>>
<1>1. { i \in DOMAIN <<>> : <<>>[i] \in D } = {}
  OBVIOUS
<1>2. Cardinality({}) = 0
  BY FS_EmptySet
<1> QED BY <1>1, <1>2 DEF Selected

LEMMA SelectedAppend ==
  ASSUME NEW A, NEW s \in Seq(A), NEW x \in A, NEW D
  PROVE  Selected(Append(s, x), D) =
           IF x \in D THEN Append(Selected(s, D), x) ELSE Selected(s, D)
<1> DEFINE P == { i \in DOMAIN s : s[i] \in D }
           n == Len(s)
           c == Cardinality(P)
           more == Append(s, x)
           Q == { i \in DOMAIN more : more[i] \in D }
<1>1. /\ n \in Nat /\ P \in SUBSET (1..n) /\ DOMAIN s = 1..n /\ DOMAIN more = 1..(n + 1)
      /\ \A i \in 1..n : more[i] = s[i]
      /\ more[n + 1] = x
  OBVIOUS
<1>2. Selected(s, D) = [k \in 1..c |-> s[IndexOf(P, k)]]
  BY DEF Selected
<1>3. Selected(more, D) = [k \in 1..Cardinality(Q) |-> more[IndexOf(Q, k)]]
  BY DEF Selected
<1>4. Q = IF x \in D THEN P \cup {n + 1} ELSE P
  BY <1>1
<1>5. IsFiniteSet(P) /\ c \in Nat /\ c <= n
  BY <1>1, RankGrows
<1> HIDE DEF more, Q
<1>6. CASE x \notin D
  <2>1. Q = P
    BY <1>4, <1>6
  <2>2. \A k \in 1..c : IndexOf(P, k) \in 1..n
    BY <1>1, IndexOfIs
  <2>3. Selected(more, D) = Selected(s, D)
    BY <1>1, <1>2, <1>3, <2>1, <2>2
  <2> QED BY <1>6, <2>3 DEF more
<1>7. CASE x \in D
  <2>1. Q = P \cup {n + 1} /\ n + 1 \notin P /\ Q \in SUBSET (1..(n + 1))
    BY <1>4, <1>1, <1>7
  <2>2. Cardinality(Q) = c + 1
    BY <2>1, <1>5, FS_AddElement
  <2>3. \A i \in P : Rank(Q, i) = Rank(P, i)
    <3> TAKE i \in P
    <3>1. { j \in Q : j <= i } = { j \in P : j <= i }
      BY <2>1, <1>1
    <3> QED BY <3>1 DEF Rank
  <2>4. Rank(Q, n + 1) = c + 1
    <3>1. { j \in Q : j <= n + 1 } = Q
      BY <2>1, <1>1
    <3> QED BY <3>1, <2>2 DEF Rank
  <2>5. \A k \in 1..c : IndexOf(Q, k) = IndexOf(P, k) /\ IndexOf(P, k) \in 1..n
    <3> TAKE k \in 1..c
    <3>1. IndexOf(P, k) \in P /\ Rank(P, IndexOf(P, k)) = k
      BY <1>1, IndexOfIs
    <3>2. IndexOf(P, k) \in Q /\ Rank(Q, IndexOf(P, k)) = k
      BY <3>1, <2>1, <2>3
    <3>3. IndexOf(Q, k) = IndexOf(P, k)
      <4>1. n + 1 \in Nat /\ Q \in SUBSET (1..(n + 1))
        BY <2>1, <1>1
      <4> QED BY <3>2, <4>1, IndexOfRank
    <3> QED BY <3>1, <3>3, <1>1
  <2>6. IndexOf(Q, c + 1) = n + 1
    <3>1. n + 1 \in Nat /\ Q \in SUBSET (1..(n + 1)) /\ n + 1 \in Q
      BY <2>1, <1>1
    <3> QED BY <3>1, <2>4, IndexOfRank
  <2>7. Selected(s, D) \in Seq(A) /\ Len(Selected(s, D)) = c
    <3>1. Selected(s, D) \in Seq(A)
      BY SelectedType
    <3> HIDE DEF P, c
    <3>2. DOMAIN Selected(s, D) = 1..c
      BY <1>2
    <3> QED BY <3>1, <3>2, <1>5
  <2> DEFINE new == Append(Selected(s, D), x)
  <2>8. /\ new = [k \in 1..(c + 1) |-> new[k]]
        /\ \A k \in 1..c : new[k] = Selected(s, D)[k]
        /\ new[c + 1] = x
    <3> HIDE DEF P, c
    <3>1. c \in Nat
      BY <1>5
    <3>2. \A t \in Seq(A) : Len(t) = c =>
            /\ Append(t, x) \in Seq(A) /\ Len(Append(t, x)) = c + 1
            /\ \A k \in 1..c : Append(t, x)[k] = t[k]
            /\ Append(t, x)[c + 1] = x
      BY <3>1, AppendProperties
    <3>3. \A t \in Seq(A) : t = [k \in 1..Len(t) |-> t[k]]
      OBVIOUS
    <3> QED BY <2>7, <3>2, <3>3
  <2>9. \A k \in 1..(c + 1) : new[k] = more[IndexOf(Q, k)]
    <3> TAKE k \in 1..(c + 1)
    <3>1. CASE k = c + 1  BY <3>1, <2>8, <2>6, <1>1
    <3>2. CASE k \in 1..c
      BY <3>2, <2>8, <2>5, <1>2, <1>1
    <3> HIDE DEF c
    <3>3. k = c + 1 \/ k \in 1..c
      BY <1>5
    <3> QED BY <3>1, <3>2, <3>3
  <2> HIDE DEF new
  <2>10. Selected(more, D) = new
    BY <2>8, <2>9, <1>3, <2>2
  <2> QED BY <1>7, <2>10 DEF new, more
<1> QED BY <1>6, <1>7

LEMMA ConcatAppend ==
  ASSUME NEW A, NEW s \in Seq(A), NEW t \in Seq(A), NEW x \in A
  PROVE  s \o Append(t, x) = Append(s \o t, x)
<1>1. Append(t, x) = t \o <<x>> /\ Append(s \o t, x) = (s \o t) \o <<x>>
  BY AppendIsConcat, ConcatProperties
<1>2. <<x>> \in Seq(A)
  OBVIOUS
<1> QED BY <1>1, <1>2, ConcatAssociative

LEMMA SelectedConcat ==
  ASSUME NEW A, NEW s \in Seq(A), NEW t \in Seq(A), NEW D
  PROVE  Selected(s \o t, D) = Selected(s, D) \o Selected(t, D)
<1> DEFINE Good == { u \in Seq(A) : Selected(s \o u, D) = Selected(s, D) \o Selected(u, D) }
<1>1. Selected(s, D) \in Seq(A) /\ \A u \in Seq(A) : Selected(u, D) \in Seq(A)
  BY SelectedType
<1>2. <<>> \in Good
  <2>1. s \o <<>> = s /\ Selected(s, D) \o <<>> = Selected(s, D) /\ <<>> \in Seq(A)
    BY <1>1, ConcatEmptySeq
  <2> QED BY <2>1, SelectedEmpty
<1>3. \A u \in Seq(A), x \in A : u \in Good => Append(u, x) \in Good
  <2> SUFFICES ASSUME NEW u \in Seq(A), NEW x \in A,
                      Selected(s \o u, D) = Selected(s, D) \o Selected(u, D)
               PROVE  Selected(s \o Append(u, x), D) = Selected(s, D) \o Selected(Append(u, x), D)
    BY AppendProperties
  <2>1. s \o Append(u, x) = Append(s \o u, x) /\ s \o u \in Seq(A)
    BY ConcatAppend, ConcatProperties
  <2>2. Selected(Append(s \o u, x), D) =
          IF x \in D THEN Append(Selected(s \o u, D), x) ELSE Selected(s \o u, D)
    <3>1. \A v \in Seq(A) :
            Selected(Append(v, x), D) = IF x \in D THEN Append(Selected(v, D), x) ELSE Selected(v, D)
      BY SelectedAppend
    <3> QED BY <3>1, <2>1
  <2>3. Selected(Append(u, x), D) =
          IF x \in D THEN Append(Selected(u, D), x) ELSE Selected(u, D)
    BY SelectedAppend
  <2>4. Selected(s, D) \o Append(Selected(u, D), x) = Append(Selected(s, D) \o Selected(u, D), x)
    BY <1>1, ConcatAppend
  <2> QED BY <2>1, <2>2, <2>3, <2>4
<1>4. Seq(A) \subseteq Good
  <2> HIDE DEF Good
  <2> QED BY <1>2, <1>3, OnAllSequences
<1> QED BY <1>4

LEMMA SelectedTwice ==
  ASSUME NEW A, NEW s \in Seq(A), NEW D, NEW E
  PROVE  Selected(Selected(s, D), E) = Selected(s, D \cap E)
<1> DEFINE Good == { u \in Seq(A) : Selected(Selected(u, D), E) = Selected(u, D \cap E) }
<1>1. \A u \in Seq(A) : Selected(u, D) \in Seq(A)
  BY SelectedType
<1>2. <<>> \in Good
  BY SelectedEmpty
<1>3. \A u \in Seq(A), x \in A : u \in Good => Append(u, x) \in Good
  <2> SUFFICES ASSUME NEW u \in Seq(A), NEW x \in A,
                      Selected(Selected(u, D), E) = Selected(u, D \cap E)
               PROVE  Selected(Selected(Append(u, x), D), E) = Selected(Append(u, x), D \cap E)
    BY AppendProperties
  <2>1. Selected(Append(u, x), D) = IF x \in D THEN Append(Selected(u, D), x) ELSE Selected(u, D)
    BY SelectedAppend
  <2>2. Selected(Append(u, x), D \cap E) =
          IF x \in D \cap E THEN Append(Selected(u, D \cap E), x) ELSE Selected(u, D \cap E)
    BY SelectedAppend
  <2>3. Selected(Append(Selected(u, D), x), E) =
          IF x \in E THEN Append(Selected(Selected(u, D), E), x) ELSE Selected(Selected(u, D), E)
    <3>1. \A v \in Seq(A) :
            Selected(Append(v, x), E) = IF x \in E THEN Append(Selected(v, E), x) ELSE Selected(v, E)
      BY SelectedAppend
    <3> QED BY <3>1, <1>1
  <2>4. CASE x \notin D  BY <2>1, <2>2, <2>4
  <2>5. CASE x \in D /\ x \in E  BY <2>1, <2>2, <2>3, <2>5
  <2>6. CASE x \in D /\ x \notin E  BY <2>1, <2>2, <2>3, <2>6
  <2> QED BY <2>4, <2>5, <2>6
<1>4. Seq(A) \subseteq Good
  <2> HIDE DEF Good
  <2> QED BY <1>2, <1>3, OnAllSequences
<1> QED BY <1>4

LEMMA SelectedEntries ==
  ASSUME NEW A, NEW s \in Seq(A), NEW D
  PROVE  ToSet(Selected(s, D)) = ToSet(s) \cap D
<1> DEFINE P == { i \in DOMAIN s : s[i] \in D }
           c == Cardinality(P)
<1>1. Len(s) \in Nat /\ P \in SUBSET (1..Len(s))
  OBVIOUS
<1>2. Selected(s, D) = [k \in 1..c |-> s[IndexOf(P, k)]]
  BY DEF Selected
<1>3. \A k \in 1..c : IndexOf(P, k) \in P
  BY <1>1, IndexOfIs
<1>4. \A i \in P : Rank(P, i) \in 1..c /\ IndexOf(P, Rank(P, i)) = i
  <2>1. \A i \in P : IndexOf(P, Rank(P, i)) = i
    BY <1>1, IndexOfRank
  <2>2. \A i \in P : Rank(P, i) \in Nat /\ 1 <= Rank(P, i) /\ Rank(P, i) <= c
    BY <1>1, RankGrows
  <2>3. c \in Nat
    BY <1>1, RankGrows
  <2> HIDE DEF P, c
  <2> QED BY <2>1, <2>2, <2>3
<1>5. ToSet(Selected(s, D)) \subseteq ToSet(s) \cap D
  <2>1. \A k \in 1..c : s[IndexOf(P, k)] \in ToSet(s) \cap D
    BY <1>3 DEF ToSet
  <2> HIDE DEF P, c
  <2> QED BY <1>2, <2>1 DEF ToSet
<1>6. ToSet(s) \cap D \subseteq ToSet(Selected(s, D))
  <2>1. ToSet(s) \cap D = { s[i] : i \in P }
    BY DEF ToSet
  <2> HIDE DEF P, c
  <2>2. \A i \in P : Rank(P, i) \in DOMAIN Selected(s, D) /\ Selected(s, D)[Rank(P, i)] = s[i]
    BY <1>2, <1>4
  <2> QED BY <2>1, <2>2 DEF ToSet
<1> QED BY <1>5, <1>6

LEMMA SelectedAll ==
  ASSUME NEW A, NEW s \in Seq(A), NEW D, ToSet(s) \subseteq D
  PROVE  Selected(s, D) = s
<1>1. { i \in DOMAIN s : s[i] \in D } = 1..Len(s)
  BY DEF ToSet
<1>2. Cardinality(1..Len(s)) = Len(s)
  <2>1. \A m \in Nat : Cardinality(1..m) = m
    BY FS_Interval
  <2> QED BY <2>1
<1>3. DOMAIN Selected(s, D) = 1..Len(s)
  BY <1>1, <1>2 DEF Selected
<1>4. Len(Selected(s, D)) = Len(s)
  <2>1. Selected(s, D) \in Seq(A)
    BY SelectedType
  <2>2. \A t \in Seq(A) : DOMAIN t = 1..Len(s) => Len(t) = Len(s)
    OBVIOUS
  <2> QED BY <1>3, <2>1, <2>2
<1> QED BY <1>4, SelectedType

LEMMA SelectedNone ==
  ASSUME NEW A, NEW s \in Seq(A), NEW D, ToSet(s) \cap D = {}
  PROVE  Selected(s, D) = <<>>
<1>1. { i \in DOMAIN s : s[i] \in D } = {}
  BY DEF ToSet
<1>2. Cardinality({}) = 0
  BY FS_EmptySet
<1>3. Selected(s, D) = [k \in 1..0 |-> s[IndexOf({}, k)]]
  BY <1>1, <1>2 DEF Selected
<1> QED BY <1>3

LEMMA SelectedOne ==
  ASSUME NEW x, NEW D
  PROVE  Selected(<<x>>, D) = IF x \in D THEN <<x>> ELSE <<>>
<1>1. <<x>> \in Seq({x}) /\ ToSet(<<x>>) = {x}
  BY DEF ToSet
<1> QED BY <1>1, SelectedAll, SelectedNone

-----------------------------------------------------------------------------
(* Parts of a sequence. *)

LEMMA PartOfBasics ==
  ASSUME NEW A, NEW s \in Seq(A)
  PROVE  /\ PartOf(<<>>, s) /\ PartOf(s, s)
         /\ \A k \in 0..Len(s) : PartOf(SubSeq(s, 1, k), s)
<1>1. \A k \in 0..Len(s) : PartOf(SubSeq(s, 1, k), s)
  <2> TAKE k \in 0..Len(s)
  <2> DEFINE place == [i \in 1..k |-> i]
  <2>1. /\ DOMAIN SubSeq(s, 1, k) = 1..k /\ DOMAIN s = 1..Len(s)
        /\ \A i \in 1..k : SubSeq(s, 1, k)[i] = s[i]
    OBVIOUS
  <2>2. place \in [DOMAIN SubSeq(s, 1, k) -> DOMAIN s]
    BY <2>1
  <2> QED BY <2>1, <2>2 DEF PartOf
<1>2. 0 \in 0..Len(s) /\ SubSeq(s, 1, 0) = <<>>
  OBVIOUS
<1>3. Len(s) \in 0..Len(s) /\ SubSeq(s, 1, Len(s)) = s
  BY SubSeqFull
<1> QED BY <1>1, <1>2, <1>3

LEMMA PartOfTransitive ==
  ASSUME NEW A, NEW r \in Seq(A), NEW s \in Seq(A), NEW t \in Seq(A),
         PartOf(r, s), PartOf(s, t)
  PROVE  PartOf(r, t)
<1>1. PICK f \in [DOMAIN r -> DOMAIN s] :
        /\ \A i, j \in DOMAIN r : i < j => f[i] < f[j]
        /\ \A i \in DOMAIN r : r[i] = s[f[i]]
  BY DEF PartOf
<1>2. PICK g \in [DOMAIN s -> DOMAIN t] :
        /\ \A i, j \in DOMAIN s : i < j => g[i] < g[j]
        /\ \A i \in DOMAIN s : s[i] = t[g[i]]
  BY DEF PartOf
<1> DEFINE h == [i \in DOMAIN r |-> g[f[i]]]
<1>3. h \in [DOMAIN r -> DOMAIN t]
  BY <1>1, <1>2
<1>4. \A i, j \in DOMAIN r : i < j => h[i] < h[j]
  BY <1>1, <1>2
<1>5. \A i \in DOMAIN r : r[i] = t[h[i]]
  BY <1>1, <1>2
<1> HIDE DEF h
<1> QED BY <1>3, <1>4, <1>5 DEF PartOf

LEMMA PartOfAppend ==
  ASSUME NEW A, NEW r \in Seq(A), NEW s \in Seq(A), NEW x \in A, PartOf(r, s)
  PROVE  PartOf(r, Append(s, x)) /\ PartOf(Append(r, x), Append(s, x))
<1>1. PICK f \in [DOMAIN r -> DOMAIN s] :
        /\ \A i, j \in DOMAIN r : i < j => f[i] < f[j]
        /\ \A i \in DOMAIN r : r[i] = s[f[i]]
  BY DEF PartOf
<1> DEFINE n == Len(r)
           m == Len(s)
           h == [i \in 1..(n + 1) |-> IF i = n + 1 THEN m + 1 ELSE f[i]]
<1>2. /\ n \in Nat /\ m \in Nat /\ DOMAIN r = 1..n /\ DOMAIN s = 1..m
      /\ DOMAIN Append(r, x) = 1..(n + 1) /\ DOMAIN Append(s, x) = 1..(m + 1)
      /\ \A i \in 1..n : Append(r, x)[i] = r[i]
      /\ \A i \in 1..m : Append(s, x)[i] = s[i]
      /\ Append(r, x)[n + 1] = x /\ Append(s, x)[m + 1] = x
  OBVIOUS
<1> HIDE DEF n, m
<1>3. /\ h \in [1..(n + 1) -> 1..(m + 1)] /\ h[n + 1] = m + 1
      /\ \A i \in 1..n : h[i] = f[i] /\ f[i] \in 1..m
  BY <1>1, <1>2
<1> HIDE DEF h
<1>4. \A i, j \in 1..(n + 1) : i < j => h[i] < h[j]
  <2> SUFFICES ASSUME NEW i \in 1..(n + 1), NEW j \in 1..(n + 1), i < j
               PROVE  h[i] < h[j]
    OBVIOUS
  <2>1. i \in 1..n /\ (j \in 1..n \/ j = n + 1)
    BY <1>2
  <2>2. h[i] = f[i] /\ f[i] \in 1..m
    BY <2>1, <1>3
  <2>3. CASE j = n + 1
    BY <2>2, <2>3, <1>2, <1>3
  <2>4. CASE j \in 1..n
    BY <2>1, <2>2, <2>4, <1>1, <1>2, <1>3
  <2> QED BY <2>1, <2>3, <2>4
<1>5. \A i \in 1..(n + 1) : Append(r, x)[i] = Append(s, x)[h[i]]
  <2> TAKE i \in 1..(n + 1)
  <2>1. i \in 1..n \/ i = n + 1
    BY <1>2
  <2>2. CASE i = n + 1
    BY <2>2, <1>2, <1>3
  <2>3. CASE i \in 1..n
    <3>1. Append(r, x)[i] = r[i] /\ h[i] = f[i] /\ f[i] \in 1..m /\ r[i] = s[f[i]]
      BY <2>3, <1>1, <1>2, <1>3
    <3> QED BY <3>1, <1>2
  <2> QED BY <2>1, <2>2, <2>3
<1>6. PartOf(Append(r, x), Append(s, x))
  BY <1>2, <1>3, <1>4, <1>5 DEF PartOf
<1>7. PartOf(r, Append(s, x))
  <2>1. f \in [DOMAIN r -> DOMAIN Append(s, x)]
    BY <1>2
  <2>2. \A i \in DOMAIN r : r[i] = Append(s, x)[f[i]]
    BY <1>1, <1>2
  <2> QED BY <2>1, <2>2, <1>1 DEF PartOf
<1> QED BY <1>6, <1>7

LEMMA ReverseIs ==
  ASSUME NEW A, NEW s \in Seq(A)
  PROVE  /\ Reverse(s) \in Seq(A) /\ Len(Reverse(s)) = Len(s)
         /\ DOMAIN Reverse(s) = 1..Len(s)
         /\ \A i \in 1..Len(s) : Reverse(s)[i] = s[Len(s) - i + 1]
         /\ ToSet(Reverse(s)) = ToSet(s)
<1>1. \A n \in Nat : \A f \in [1..n -> A] : f \in Seq(A) /\ Len(f) = n
  OBVIOUS
<1>2. Reverse(s) \in [1..Len(s) -> A] /\ Len(s) \in Nat
  BY DEF Reverse
<1>3. \A i \in 1..Len(s) : Reverse(s)[i] = s[Len(s) - i + 1]
  BY DEF Reverse
<1>4. \A i \in 1..Len(s) : s[i] = Reverse(s)[Len(s) - i + 1] /\ Len(s) - i + 1 \in 1..Len(s)
  BY <1>3
<1>5. ToSet(Reverse(s)) = ToSet(s)
  <2>1. DOMAIN s = 1..Len(s) /\ DOMAIN Reverse(s) = 1..Len(s)
    BY <1>2
  <2> QED BY <2>1, <1>3, <1>4 DEF ToSet
<1> QED BY <1>1, <1>2, <1>3, <1>5

LEMMA PartOfReverse ==
  ASSUME NEW A, NEW r \in Seq(A), NEW s \in Seq(A), PartOf(r, s)
  PROVE  PartOf(Reverse(r), Reverse(s))
<1>1. PICK f \in [DOMAIN r -> DOMAIN s] :
        /\ \A i, j \in DOMAIN r : i < j => f[i] < f[j]
        /\ \A i \in DOMAIN r : r[i] = s[f[i]]
  BY DEF PartOf
<1> DEFINE n == Len(r)
           m == Len(s)
           h == [i \in 1..n |-> m - f[n - i + 1] + 1]
<1>2. /\ n \in Nat /\ m \in Nat /\ DOMAIN r = 1..n /\ DOMAIN s = 1..m
      /\ DOMAIN Reverse(r) = 1..n /\ DOMAIN Reverse(s) = 1..m
      /\ \A i \in 1..n : Reverse(r)[i] = r[n - i + 1]
      /\ \A i \in 1..m : Reverse(s)[i] = s[m - i + 1]
  BY ReverseIs
<1> HIDE DEF n, m
<1>3. \A i \in 1..n : n - i + 1 \in 1..n /\ f[n - i + 1] \in 1..m
  BY <1>1, <1>2
<1>4. h \in [1..n -> 1..m] /\ \A i \in 1..n : h[i] = m - f[n - i + 1] + 1
  BY <1>2, <1>3
<1> HIDE DEF h
<1>5. \A i, j \in 1..n : i < j => h[i] < h[j]
  <2> SUFFICES ASSUME NEW i \in 1..n, NEW j \in 1..n, i < j PROVE h[i] < h[j]
    OBVIOUS
  <2>1. n - j + 1 < n - i + 1
    BY <1>2
  <2>2. f[n - j + 1] < f[n - i + 1]
    BY <2>1, <1>1, <1>2, <1>3
  <2>3. h[i] = m - f[n - i + 1] + 1 /\ h[j] = m - f[n - j + 1] + 1
    BY <1>4
  <2>4. f[n - i + 1] \in Int /\ f[n - j + 1] \in Int
    BY <1>3
  <2> QED BY <2>2, <2>3, <2>4, <1>2
<1>6. \A i \in 1..n : Reverse(r)[i] = Reverse(s)[h[i]]
  <2> TAKE i \in 1..n
  <2>1. Reverse(s)[h[i]] = s[m - h[i] + 1]
    BY <1>2, <1>4
  <2>2. m - h[i] + 1 = f[n - i + 1]
    BY <1>2, <1>3, <1>4
  <2> QED BY <2>1, <2>2, <1>1, <1>2, <1>3
<1> QED BY <1>2, <1>4, <1>5, <1>6 DEF PartOf

LEMMA SelectedPart ==
  ASSUME NEW A, NEW s \in Seq(A), NEW D
  PROVE  PartOf(Selected(s, D), s)
<1> DEFINE P == { i \in DOMAIN s : s[i] \in D }
           c == Cardinality(P)
           f == [k \in 1..c |-> IndexOf(P, k)]
<1>1. Len(s) \in Nat /\ P \in SUBSET (1..Len(s)) /\ DOMAIN s = 1..Len(s)
  OBVIOUS
<1>2. Selected(s, D) = [k \in 1..c |-> s[IndexOf(P, k)]]
  BY DEF Selected
<1>3. \A k \in 1..c : IndexOf(P, k) \in P /\ Rank(P, IndexOf(P, k)) = k
  BY <1>1, IndexOfIs
<1>4. \A i, j \in P : i < j => Rank(P, i) < Rank(P, j)
  BY <1>1, RankGrows
<1> HIDE DEF P, c
<1>5. \A i, j \in 1..c : i < j => IndexOf(P, i) < IndexOf(P, j)
  <2> SUFFICES ASSUME NEW i \in 1..c, NEW j \in 1..c, i < j
               PROVE  IndexOf(P, i) < IndexOf(P, j)
    OBVIOUS
  <2>1. IndexOf(P, i) \in Int /\ IndexOf(P, j) \in Int
    <3>1. \A i0 \in P : i0 \in Int
      BY <1>1
    <3> QED BY <3>1, <1>3
  <2>2. ~(IndexOf(P, j) < IndexOf(P, i)) /\ IndexOf(P, i) # IndexOf(P, j)
    BY <1>3, <1>4
  <2> QED BY <2>1, <2>2
<1>6. f \in [DOMAIN Selected(s, D) -> DOMAIN s]
  BY <1>1, <1>2, <1>3
<1> QED BY <1>2, <1>5, <1>6 DEF PartOf

LEMMA PartIsInjective ==
  ASSUME NEW A, NEW r \in Seq(A), NEW s \in Seq(A), PartOf(r, s), IsInjective(s)
  PROVE  IsInjective(r)
<1>1. PICK f \in [DOMAIN r -> DOMAIN s] :
        /\ \A i, j \in DOMAIN r : i < j => f[i] < f[j]
        /\ \A i \in DOMAIN r : r[i] = s[f[i]]
  BY DEF PartOf
<1>2. DOMAIN r = 1..Len(r) /\ DOMAIN s = 1..Len(s)
  OBVIOUS
<1> SUFFICES ASSUME NEW i \in DOMAIN r, NEW j \in DOMAIN r, r[i] = r[j]
             PROVE  i = j
  BY DEF IsInjective
<1>3. f[i] = f[j] /\ f[i] \in Int
  BY <1>1, <1>2 DEF IsInjective
<1>4. i \in Int /\ j \in Int /\ ~(i < j) /\ ~(j < i)
  BY <1>1, <1>2, <1>3
<1> QED BY <1>4

-----------------------------------------------------------------------------
(* Comparing two lists. *)

LEMMA OccurrenceGrows ==
  ASSUME NEW A, NEW s \in Seq(A)
  PROVE  /\ \A i \in DOMAIN s : Occurrence(s, i) \in Nat /\ Occurrence(s, i) >= 1
         /\ \A i, j \in DOMAIN s : s[i] = s[j] /\ i < j => Occurrence(s, i) < Occurrence(s, j)
<1> DEFINE of(x) == { k \in DOMAIN s : s[k] = x }
<1>1. \A x : of(x) \in SUBSET (1..Len(s)) /\ Len(s) \in Nat
  OBVIOUS
<1>2. \A i \in DOMAIN s : i \in of(s[i]) /\ Occurrence(s, i) = Rank(of(s[i]), i)
  <2> TAKE i \in DOMAIN s
  <2>1. { j \in of(s[i]) : j <= i } = { j \in 1..i : s[j] = s[i] }
    OBVIOUS
  <2> QED BY <2>1 DEF Occurrence, Rank
<1> HIDE DEF of
<1>3. \A x : \A i \in of(x) : Rank(of(x), i) \in Nat /\ 1 <= Rank(of(x), i)
  BY <1>1, RankGrows
<1>4. \A x : \A i, j \in of(x) : i < j => Rank(of(x), i) < Rank(of(x), j)
  BY <1>1, RankGrows
<1>5. \A i \in DOMAIN s : Occurrence(s, i) \in Nat /\ Occurrence(s, i) >= 1
  BY <1>2, <1>3
<1>6. \A i, j \in DOMAIN s : s[i] = s[j] /\ i < j => Occurrence(s, i) < Occurrence(s, j)
  BY <1>2, <1>4
<1> QED BY <1>5, <1>6

(* An entry is paired with one entry at most, and no other is paired with   *)
(* the same.                                                                *)
LEMMA PairsAreUnique ==
  ASSUME NEW A, NEW prev \in Seq(A), NEW next \in Seq(A)
  PROVE  /\ \A i \in DOMAIN next : \A j, k \in Paired(prev, next, i) : j = k
         /\ \A i, k \in DOMAIN next :
              Paired(prev, next, i) \cap Paired(prev, next, k) # {} => i = k
<1>1. /\ \A i \in DOMAIN prev : Occurrence(prev, i) \in Nat
      /\ \A i, j \in DOMAIN prev :
           prev[i] = prev[j] /\ i < j => Occurrence(prev, i) < Occurrence(prev, j)
      /\ \A i \in DOMAIN next : Occurrence(next, i) \in Nat
      /\ \A i, j \in DOMAIN next :
           next[i] = next[j] /\ i < j => Occurrence(next, i) < Occurrence(next, j)
  BY OccurrenceGrows
<1>2. (\A i \in DOMAIN prev : i \in Int) /\ (\A i \in DOMAIN next : i \in Int)
  OBVIOUS
<1>3. \A i, j \in DOMAIN prev :
        prev[i] = prev[j] /\ Occurrence(prev, i) = Occurrence(prev, j) => i = j
  BY <1>1, <1>2
<1>4. \A i, j \in DOMAIN next :
        next[i] = next[j] /\ Occurrence(next, i) = Occurrence(next, j) => i = j
  BY <1>1, <1>2
<1>5. \A i : \A j \in Paired(prev, next, i) :
        j \in DOMAIN prev /\ prev[j] = next[i] /\ Occurrence(prev, j) = Occurrence(next, i)
  BY DEF Paired
<1> QED BY <1>3, <1>4, <1>5

(* One pair tells the status of an entry.                                   *)
LEMMA StatusOfPair ==
  ASSUME NEW A, NEW prev \in Seq(A), NEW next \in Seq(A), NEW i \in DOMAIN next,
         NEW j \in Paired(prev, next, i)
  PROVE  /\ Paired(prev, next, i) = {j}
         /\ Shift(prev, next, i) = i - j
         /\ Status(prev, next, i) = IF i = j THEN "equal" ELSE "moved"
<1>1. Paired(prev, next, i) = {j}
  BY PairsAreUnique
<1>2. (CHOOSE k \in {j} : TRUE) = j
  OBVIOUS
<1> QED BY <1>1, <1>2 DEF Shift, Status

LEMMA StatusOfNew ==
  ASSUME NEW A, NEW prev \in Seq(A), NEW next \in Seq(A), NEW i \in DOMAIN next
  PROVE  /\ Status(prev, next, i) = "added" <=> Paired(prev, next, i) = {}
         /\ next[i] \notin ToSet(prev) => Status(prev, next, i) = "added"
<1>1. Status(prev, next, i) = "added" <=> Paired(prev, next, i) = {}
  BY DEF Status
<1>2. ASSUME next[i] \notin ToSet(prev) PROVE Paired(prev, next, i) = {}
  BY <1>2 DEF Paired, ToSet
<1> QED BY <1>1, <1>2

(* The first entry of a track is the first there is of it.                  *)
LEMMA FirstOccurrence ==
  ASSUME NEW A, NEW s \in Seq(A), NEW x \in ToSet(s)
  PROVE  \E i \in DOMAIN s : s[i] = x /\ Occurrence(s, i) = 1 /\ \A j \in DOMAIN s : s[j] = x => i <= j
<1> DEFINE of == { k \in DOMAIN s : s[k] = x }
<1>1. of \subseteq Nat /\ of # {}
  BY DEF ToSet
<1>2. PICK i \in of : \A j \in of : i <= j
  BY <1>1, LeastNatural
<1>3. { j \in 1..i : s[j] = s[i] } = {i}
  <2>1. i \in DOMAIN s /\ s[i] = x /\ DOMAIN s = 1..Len(s)
    BY <1>2
  <2>2. \A j \in 1..i : s[j] = x => j = i
    <3> TAKE j \in 1..i
    <3>1. j \in DOMAIN s
      BY <2>1
    <3> QED BY <3>1, <1>2, <2>1
  <2> QED BY <2>1, <2>2
<1>4. Occurrence(s, i) = 1
  BY <1>3, FS_Singleton DEF Occurrence
<1> QED BY <1>2, <1>4

(* A track of the list before is not new everywhere: where it comes first   *)
(* it is not.                                                               *)
LEMMA FirstIsPaired ==
  ASSUME NEW A, NEW prev \in Seq(A), NEW next \in Seq(A), NEW i \in DOMAIN next,
         next[i] \in ToSet(prev)
  PROVE  \E j \in 1..i : j \in DOMAIN next /\ Status(prev, next, j) # "added"
<1>1. next[i] \in ToSet(next)
  BY DEF ToSet
<1>2. PICK j \in DOMAIN next : /\ next[j] = next[i] /\ Occurrence(next, j) = 1
                               /\ \A k \in DOMAIN next : next[k] = next[i] => j <= k
  BY <1>1, FirstOccurrence
<1>3. PICK p \in DOMAIN prev : prev[p] = next[i] /\ Occurrence(prev, p) = 1
  BY FirstOccurrence
<1>4. p \in Paired(prev, next, j)
  BY <1>2, <1>3 DEF Paired
<1>5. Status(prev, next, j) # "added"
  BY <1>4, StatusOfNew
<1>6. j \in 1..i
  BY <1>2
<1> QED BY <1>2, <1>5, <1>6

(* A list with the same entries in another order.                           *)
LEMMA BumpedKeepsTracks ==
  ASSUME NEW A, NEW prev \in Seq(A), NEW next \in Seq(A), Bumped(prev, next)
  PROVE  /\ next # <<>> /\ prev # next /\ Len(prev) = Len(next)
         /\ ToSet(prev) = ToSet(next)
         /\ PlaysAreBumpedOnly(prev, next) = [type |-> "prepend", plays |-> <<next[1]>>]
<1> DEFINE n == Len(next)
<1>1. /\ prev # next /\ Len(prev) = n /\ \A i \in 1..n : Status(prev, next, i) # "added"
      /\ PlaysAreBumpedOnly(prev, next) = [type |-> "prepend", plays |-> <<next[1]>>]
  <2>1. Unexplained.type # "prepend"
    BY DEF Unexplained
  <2> QED BY <2>1 DEF Bumped, PlaysAreBumpedOnly
<1>2. next # <<>>
  BY <1>1
<1>3. \A i \in 1..n : Paired(prev, next, i) # {}
  BY <1>1 DEF Status
<1> DEFINE pair == [i \in 1..n |-> CHOOSE j \in Paired(prev, next, i) : TRUE]
<1>4. \A i \in 1..n : pair[i] \in Paired(prev, next, i) /\ pair[i] \in 1..n /\ prev[pair[i]] = next[i]
  <2> TAKE i \in 1..n
  <2>1. pair[i] \in Paired(prev, next, i)
    BY <1>3
  <2>2. DOMAIN prev = 1..n
    BY <1>1
  <2> QED BY <2>1, <2>2 DEF Paired
<1>5. pair \in [1..n -> 1..n]
  BY <1>4
<1> HIDE DEF pair
<1>6. \A i, k \in 1..n : pair[i] = pair[k] => i = k
  <2>1. DOMAIN next = 1..n
    OBVIOUS
  <2> QED BY <2>1, <1>4, PairsAreUnique
<1>7. pair \in Injection(1..n, 1..n)
  BY <1>5, <1>6 DEF Injection, IsInjective
<1>8. pair \in Surjection(1..n, 1..n)
  <2>1. \A m \in Nat : IsFiniteSet(1..m)
    BY FS_Interval
  <2>2. IsFiniteSet(1..n)
    BY <2>1
  <2> QED BY <2>2, <1>7, FS_Injection
<1>9. \A j \in 1..n : \E i \in 1..n : pair[i] = j
  BY <1>8 DEF Surjection
<1>10. DOMAIN prev = 1..n /\ DOMAIN next = 1..n
  BY <1>1
<1>11. ToSet(prev) = ToSet(next)
  <2>1. \A i \in 1..n : next[i] \in ToSet(prev)
    BY <1>4, <1>10 DEF ToSet
  <2>2. \A j \in 1..n : prev[j] \in ToSet(next)
    <3> TAKE j \in 1..n
    <3>1. PICK i \in 1..n : pair[i] = j
      BY <1>9
    <3> QED BY <3>1, <1>4, <1>10 DEF ToSet
  <2> QED BY <2>1, <2>2, <1>10 DEF ToSet
<1> QED BY <1>1, <1>2, <1>11

LEMMA IndexOfInitial ==
  ASSUME NEW k \in Nat, NEW j \in 1..k
  PROVE  IndexOf(1..k, j) = j
<1>1. { i \in 1..k : i <= j } = 1..j
  OBVIOUS
<1>2. Cardinality(1..j) = j
  BY FS_Interval
<1>3. Rank(1..k, j) = j
  BY <1>1, <1>2 DEF Rank
<1>4. IndexOf(1..k, Rank(1..k, j)) = j
  BY IndexOfRank
<1> QED BY <1>3, <1>4

(* Of the numbers to n those to k.                                          *)
LEMMA SelectedInitial ==
  ASSUME NEW n \in Nat, NEW k \in 0..n
  PROVE  Selected([i \in 1..n |-> i], 1..k) = [i \in 1..k |-> i]
<1> DEFINE id == [i \in 1..n |-> i]
           S == { i \in DOMAIN id : id[i] \in 1..k }
<1>1. S = 1..k
  OBVIOUS
<1>2. Cardinality(1..k) = k
  BY FS_Interval
<1>3. \A j \in 1..k : IndexOf(1..k, j) = j /\ j \in 1..n
  BY IndexOfInitial
<1>4. Selected(id, 1..k) = [j \in 1..Cardinality(S) |-> id[IndexOf(S, j)]]
  BY DEF Selected
<1> HIDE DEF S
<1>5. Selected(id, 1..k) = [j \in 1..k |-> id[IndexOf(1..k, j)]]
  BY <1>1, <1>2, <1>4
<1> QED BY <1>3, <1>5

(* Numbers of which each but the first has the one before it begin a run.   *)
LEMMA InitialRun ==
  ASSUME NEW n \in Nat, NEW P \in SUBSET (1..n), 1 \in P,
         \A i \in P : i > 1 => i - 1 \in P
  PROVE  \E k \in 1..n : P = 1..k
<1>1. ASSUME P = 1..n PROVE \E k \in 1..n : P = 1..k
  BY <1>1
<1>2. ASSUME P # 1..n PROVE \E k \in 1..n : P = 1..k
  <2> DEFINE Not == (1..n) \ P
  <2>1. PICK m \in Not : \A j \in Not : m <= j
    <3>1. Not \subseteq Nat
      OBVIOUS
    <3>2. Not # {}
      BY <1>2
    <3> HIDE DEF Not
    <3> QED BY <3>1, <3>2, LeastNatural
  <2>2. m \in 1..n /\ m \notin P /\ m # 1 /\ \A j \in 1..(m - 1) : j \in P
    BY <2>1
  <2> DEFINE Above == { i \in P : i > m }
  <2>3. Above = {}
    <3> SUFFICES ASSUME Above # {} PROVE FALSE
      OBVIOUS
    <3>1. PICK i \in Above : \A j \in Above : i <= j
      <4>1. Above \subseteq Nat
        <5>1. \A i \in P : i \in Nat
          OBVIOUS
        <5> QED BY <5>1
      <4> HIDE DEF Above
      <4> QED BY <4>1, LeastNatural
    <3>2. i \in P /\ i > m /\ i - 1 \in P
      BY <3>1, <2>2
    <3>3. i - 1 # m /\ i - 1 > m
      BY <3>2, <2>2
    <3>4. i - 1 \in Above
      BY <3>2, <3>3
    <3> QED BY <3>1, <3>4
  <2>4. P = 1..(m - 1)
    <3>1. \A i \in P : i \in 1..(m - 1)
      <4> TAKE i \in P
      <4>1. ~(i > m) /\ i # m /\ i \in 1..n
        BY <2>2, <2>3
      <4> QED BY <4>1, <2>2
    <3> QED BY <3>1, <2>2
  <2>5. m - 1 \in 1..n
    BY <2>2
  <2> QED BY <2>4, <2>5
<1> QED BY <1>1, <1>2

(* When entries were added on top they are the first of the list, and their *)
(* tracks were not in the list before.                                      *)
LEMMA AddedOnTop ==
  ASSUME NEW A, NEW prev \in Seq(A), NEW next \in Seq(A),
         PlaysAreAddedOnly(prev, next).type = "prepend"
  PROVE  \E k \in 1..Len(next) :
           /\ PlaysAreAddedOnly(prev, next).plays = SubSeq(next, 1, k)
           /\ \A i \in 1..k : next[i] \notin ToSet(prev)
<1> DEFINE n == Len(next)
           P == { i \in 1..n : Status(prev, next, i) = "added" }
           id == [i \in 1..n |-> i]
           new == Selected(id, P)
           apart == \E i \in 1..n : \/ IndexState(prev, next, i) = "replaced"
                                    \/ AddedApart(prev, next, i)
           plays == [i \in DOMAIN new |-> next[new[i]]]
<1>1. /\ new # <<>> /\ ~apart /\ {1, n} \cap ToSet(new) # {}
      /\ ~(n > 1 /\ n \in ToSet(new))
      /\ PlaysAreAddedOnly(prev, next).plays = plays
  <2>1. PlaysAreAddedOnly(prev, next) =
          IF prev = next \/ new = <<>> \/ apart \/ {1, n} \cap ToSet(new) = {}
          THEN Unexplained
          ELSE [type |-> IF n > 1 /\ n \in ToSet(new) THEN "append" ELSE "prepend", plays |-> plays]
    BY DEF PlaysAreAddedOnly
  <2>2. Unexplained.type # "prepend"
    BY DEF Unexplained
  <2> HIDE DEF new, apart, plays
  <2>3. ~(prev = next \/ new = <<>> \/ apart \/ {1, n} \cap ToSet(new) = {})
    BY <2>1, <2>2
  <2>4. ~(n > 1 /\ n \in ToSet(new))
    BY <2>1, <2>3
  <2> QED BY <2>1, <2>3, <2>4
<1>2. ToSet(new) = P
  <2>1. id \in Seq(1..n) /\ ToSet(id) = 1..n
    <3>1. \A m \in Nat : [i \in 1..m |-> i] \in Seq(1..m)
      OBVIOUS
    <3> QED BY <3>1 DEF ToSet
  <2> HIDE DEF id
  <2>2. ToSet(new) = ToSet(id) \cap P
    BY <2>1, SelectedEntries
  <2> QED BY <2>1, <2>2
<1>3. 1 \in P /\ (n \in P => n = 1) /\ n \in Nat
  <2>1. P \subseteq 1..n /\ n \in Nat
    OBVIOUS
  <2>2. \A j \in {1, n} \cap P : j = 1 \/ j = n
    OBVIOUS
  <2> HIDE DEF new, P, plays, apart
  <2>3. (n \in P => ~(n > 1)) /\ {1, n} \cap P # {}
    BY <1>1, <1>2
  <2>4. 1 \in P \/ n \in P
    BY <2>2, <2>3
  <2>5. n \in P => n = 1
    <3> SUFFICES ASSUME n \in P PROVE n = 1
      OBVIOUS
    <3>1. n \in 1..n /\ ~(n > 1)
      BY <2>1, <2>3
    <3> HIDE DEF n
    <3> QED BY <3>1, <2>1
  <2> QED BY <2>1, <2>4, <2>5
<1>4. \A i \in P : i > 1 => i - 1 \in P
  <2> SUFFICES ASSUME NEW i \in P, i > 1 PROVE i - 1 \in P
    OBVIOUS
  <2>1. i \in 2..(n - 1) /\ i - 1 \in 1..n /\ i \in 1..n /\ Status(prev, next, i) = "added"
    <3>1. i \in 1..n /\ Status(prev, next, i) = "added"
      OBVIOUS
    <3> HIDE DEF P
    <3>2. i # n
      <4> SUFFICES ASSUME i = n PROVE FALSE
        OBVIOUS
      <4>1. n = 1
        BY <1>3
      <4> QED BY <4>1
    <3> HIDE DEF n
    <3> QED BY <3>1, <3>2, <1>3
  <2>2. ~AddedApart(prev, next, i)
    BY <1>1, <2>1
  <2>3. Status(prev, next, 1) = "added"
    BY <1>3
  <2>4. IndexState(prev, next, i - 1) = "added"
    BY <2>1, <2>2, <2>3 DEF AddedApart
  <2>5. Status(prev, next, i - 1) = "added"
    BY <2>4 DEF IndexState
  <2> QED BY <2>1, <2>5
<1>5. PICK k \in 1..n : P = 1..k
  <2>1. P \in SUBSET (1..n)
    OBVIOUS
  <2> HIDE DEF P
  <2> QED BY <2>1, <1>3, <1>4, InitialRun
<1>6. plays = SubSeq(next, 1, k)
  <2>1. k \in 0..n
    BY <1>3
  <2> HIDE DEF P
  <2>2. new = [i \in 1..k |-> i]
    BY <1>5, <2>1, <1>3, SelectedInitial
  <2> HIDE DEF new, n
  <2>3. plays = [i \in 1..k |-> next[i]]
    BY <2>2
  <2>4. SubSeq(next, 1, k) = [i \in 1..k |-> next[i]]
    BY <1>3, <2>1
  <2> QED BY <2>3, <2>4
<1>7. \A i \in 1..k : next[i] \notin ToSet(prev)
  <2> SUFFICES ASSUME NEW i \in 1..k, next[i] \in ToSet(prev) PROVE FALSE
    OBVIOUS
  <2>1. i \in DOMAIN next
    BY <1>3
  <2>2. PICK j \in 1..i : j \in DOMAIN next /\ Status(prev, next, j) # "added"
    BY <2>1, FirstIsPaired
  <2>3. j \in P
    BY <2>2, <1>5
  <2> QED BY <2>2, <2>3
<1> HIDE DEF plays
<1> QED BY <1>1, <1>5, <1>6, <1>7

-----------------------------------------------------------------------------
(* What a history is after some listens.                                    *)

LEMMA ConsIs ==
  ASSUME NEW A, NEW x \in A, NEW s \in Seq(A)
  PROVE  /\ <<x>> \o s \in Seq(A) /\ Len(<<x>> \o s) = Len(s) + 1
         /\ (<<x>> \o s)[1] = x
         /\ \A i \in 1..Len(s) : (<<x>> \o s)[i + 1] = s[i]
         /\ ToSet(<<x>> \o s) = {x} \cup ToSet(s)
<1> DEFINE t == <<x>> \o s
<1>1. /\ t \in Seq(A) /\ Len(t) = Len(s) + 1 /\ t[1] = x
      /\ \A i \in 1..Len(s) : t[i + 1] = s[i]
  OBVIOUS
<1> HIDE DEF t
<1>2. DOMAIN t = 1..(Len(s) + 1) /\ DOMAIN s = 1..Len(s) /\ Len(s) \in Nat
  BY <1>1
<1>3. ToSet(t) = {x} \cup ToSet(s)
  <2>1. \A i \in 1..(Len(s) + 1) : i = 1 \/ (i - 1 \in 1..Len(s) /\ t[i] = s[i - 1])
    BY <1>1, <1>2
  <2>2. 1 \in 1..(Len(s) + 1) /\ \A i \in 1..Len(s) : i + 1 \in 1..(Len(s) + 1)
    BY <1>2
  <2> QED BY <2>1, <2>2, <1>1, <1>2, SMTT(30) DEF ToSet
<1> QED BY <1>1, <1>3 DEF t

LEMMA SelectedHead ==
  ASSUME NEW A, NEW s \in Seq(A), s # <<>>, NEW D
  PROVE  /\ Tail(s) \in Seq(A) /\ s[1] \in A /\ s = <<s[1]>> \o Tail(s)
         /\ Selected(s, D) = IF s[1] \in D THEN <<s[1]>> \o Selected(Tail(s), D)
                             ELSE Selected(Tail(s), D)
<1>1. Tail(s) \in Seq(A) /\ <<s[1]>> \in Seq(A) /\ s[1] \in A
  OBVIOUS
<1>2. s = <<s[1]>> \o Tail(s)
  <2>1. /\ <<s[1]>> \o Tail(s) \in Seq(A) /\ Len(<<s[1]>> \o Tail(s)) = Len(s)
        /\ \A i \in 1..Len(s) : (<<s[1]>> \o Tail(s))[i] = s[i]
    BY <1>1, ConcatProperties, HeadTailProperties
  <2> QED BY <2>1, SeqEqual
<1>3. Selected(s, D) = Selected(<<s[1]>>, D) \o Selected(Tail(s), D)
  <2> DEFINE one == <<s[1]>>
             others == Tail(s)
  <2>1. Selected(one \o others, D) = Selected(one, D) \o Selected(others, D)
    <3> HIDE DEF one, others
    <3>1. one \in Seq(A) /\ others \in Seq(A)
      BY <1>1 DEF one, others
    <3> QED BY <3>1, SelectedConcat
  <2> QED BY <2>1, <1>2
<1>4. Selected(<<s[1]>>, D) = IF s[1] \in D THEN <<s[1]>> ELSE <<>>
  BY SelectedOne
<1>5. <<>> \o Selected(Tail(s), D) = Selected(Tail(s), D)
  BY <1>1, SelectedType, ConcatEmptySeq
<1> QED BY <1>1, <1>2, <1>3, <1>4, <1>5

LEMMA WindowIs ==
  ASSUME NEW list \in Seq(Track)
  PROVE  /\ Window(list) \in Seq(Track) /\ Len(Window(list)) <= Limit
         /\ Len(Window(list)) <= Len(list)
         /\ Len(list) <= Limit => Len(Window(list)) = Len(list)
         /\ Len(list) > Limit => Len(Window(list)) = Limit
         /\ \A i \in 1..Len(Window(list)) : Window(list)[i] = list[i]
         /\ \A i \in 1..Len(list) : i <= Limit => i \in 1..Len(Window(list)) /\ list[i] \in ToSet(Window(list))
<1> DEFINE n == IF Len(list) < Limit THEN Len(list) ELSE Limit
<1>1. n \in 0..Len(list) /\ n <= Limit /\ Limit \in Nat /\ Len(list) \in Nat
  BY SnapshotAssumption
<1>2. Window(list) = SubSeq(list, 1, n)
  BY DEF Window
<1>3. /\ SubSeq(list, 1, n) \in Seq(Track) /\ Len(SubSeq(list, 1, n)) = n
      /\ \A i \in 1..n : SubSeq(list, 1, n)[i] = list[i]
  <2> HIDE DEF n
  <2> QED BY <1>1
<1>4. \A i \in 1..Len(list) : i <= Limit => i \in 1..n
  BY <1>1
<1>5. \A i \in 1..n : list[i] \in ToSet(Window(list))
  <2>1. DOMAIN Window(list) = 1..n
    BY <1>1, <1>2, <1>3
  <2> HIDE DEF n
  <2> QED BY <2>1, <1>2, <1>3 DEF ToSet
<1> QED BY <1>1, <1>2, <1>3, <1>4, <1>5

(* Tracks are on top, and some of them are no longer where they were.       *)
Topped(h, tops, gone) == tops \o Selected(h, Track \ gone)

LEMMA ToppedIs ==
  ASSUME NEW h \in Seq(Track), NEW tops \in Seq(Track), NEW gone \in SUBSET ToSet(tops)
  PROVE  /\ Selected(h, Track \ gone) \in Seq(Track)
         /\ Topped(h, tops, gone) \in Seq(Track)
         /\ Len(Topped(h, tops, gone)) = Len(tops) + Len(Selected(h, Track \ gone))
         /\ \A i \in 1..Len(tops) : Topped(h, tops, gone)[i] = tops[i]
         /\ \A i \in 1..Len(Selected(h, Track \ gone)) :
              Topped(h, tops, gone)[Len(tops) + i] = Selected(h, Track \ gone)[i]
         /\ tops = <<>> => Topped(h, tops, gone) = h
<1> DEFINE left0 == Selected(h, Track \ gone)
<1>1. left0 \in Seq(Track)
  BY SelectedType
<1>2. ASSUME tops = <<>> PROVE Topped(h, tops, gone) = h
  <2>1. gone = {} /\ ToSet(h) \subseteq Track
    BY <1>2 DEF ToSet
  <2>2. ToSet(h) \subseteq Track \ gone
    BY <2>1
  <2>3. Selected(h, Track \ gone) = h
    BY <2>2, SelectedAll
  <2> QED BY <1>2, <2>3, ConcatEmptySeq DEF Topped
<1> HIDE DEF left0
<1>3. /\ tops \o left0 \in Seq(Track) /\ Len(tops \o left0) = Len(tops) + Len(left0)
      /\ \A i \in 1..Len(tops) : (tops \o left0)[i] = tops[i]
      /\ \A i \in 1..Len(left0) : (tops \o left0)[Len(tops) + i] = left0[i]
  BY <1>1
<1> QED BY <1>1, <1>2, <1>3 DEF Topped, left0

(* Entries on top that are new to what was seen are among those listened to. *)
LEMMA NewAreTops ==
  ASSUME NEW h \in Seq(Track), NEW tops \in Seq(Track), NEW gone \in SUBSET ToSet(tops),
         NEW next, next = Window(Topped(h, tops, gone)),
         NEW k \in 1..Len(next), \A i \in 1..k : next[i] \notin ToSet(Window(h))
  PROVE  k <= Len(tops)
<1> DEFINE list == Topped(h, tops, gone)
           rest == Selected(h, Track \ gone)
           f == Len(tops)
<1>1. /\ rest \in Seq(Track) /\ list \in Seq(Track) /\ f \in Nat
      /\ Len(list) = f + Len(rest)
      /\ \A i \in 1..f : list[i] = tops[i]
      /\ \A i \in 1..Len(rest) : list[f + i] = rest[i]
  <2>1. f \in Nat
    OBVIOUS
  <2> HIDE DEF f
  <2> QED BY <2>1, ToppedIs DEF f
<1>2. /\ next \in Seq(Track) /\ Len(next) <= Len(list)
      /\ \A i \in 1..Len(next) : next[i] = list[i]
  BY <1>1, WindowIs
<1>3. Limit \in Nat /\ Limit > 2
  BY SnapshotAssumption
<1> HIDE DEF list, f, rest
<1> SUFFICES ASSUME k > f PROVE FALSE
  BY <1>1, <1>2 DEF f
<1>4. Len(rest) >= 1 /\ rest # <<>>
  BY <1>1, <1>2
<1>5. h # <<>>
  BY <1>4, SelectedEmpty DEF rest
<1>6. h[1] \in ToSet(Window(h)) /\ h[1] \in Track
  BY <1>3, <1>5, WindowIs
<1>7. CASE h[1] \in gone
  <2>1. PICK i \in 1..f : tops[i] = h[1]
    BY <1>7 DEF ToSet, f
  <2>2. i \in 1..k /\ i \in 1..Len(next)
    BY <1>1, <1>2
  <2>3. next[i] = h[1]
    BY <2>1, <2>2, <1>1, <1>2
  <2> QED BY <2>2, <2>3, <1>6
<1>8. CASE h[1] \notin gone
  <2>1. rest = <<h[1]>> \o Selected(Tail(h), Track \ gone) /\ Tail(h) \in Seq(Track)
    BY <1>5, <1>6, <1>8, SelectedHead DEF rest
  <2>2. Selected(Tail(h), Track \ gone) \in Seq(Track)
    BY <2>1, SelectedType
  <2>3. rest[1] = h[1]
    BY <2>1, <2>2, <1>6, ConsIs
  <2>4. f + 1 \in 1..k /\ f + 1 \in 1..Len(next) /\ list[f + 1] = rest[1]
    BY <1>1, <1>2, <1>4
  <2> QED BY <2>3, <2>4, <1>2, <1>6
<1> QED BY <1>7, <1>8

(* The same below the top, when the top is what it was and each track is in *)
(* the history once.                                                        *)
LEMMA NewBelowAreTops ==
  ASSUME NEW h \in Seq(Track), NEW tops \in Seq(Track), IsInjective(h),
         h # <<>>, Len(tops) >= 2, tops[1] = h[1],
         NEW next, next = Window(Topped(h, tops, ToSet(tops))),
         NEW k \in 1..Len(next), k < Len(next),
         \A i \in 2..(k + 1) : next[i] \notin ToSet(Tail(Window(h)))
  PROVE  k + 1 <= Len(tops)
<1> DEFINE gone == ToSet(tops)
           list == Topped(h, tops, gone)
           rest == Selected(h, Track \ gone)
           f == Len(tops)
<1>0. gone \in SUBSET ToSet(tops)
  OBVIOUS
<1> HIDE DEF gone
<1>1. /\ rest \in Seq(Track) /\ list \in Seq(Track) /\ f \in Nat
      /\ Len(list) = f + Len(rest)
      /\ \A i \in 1..f : list[i] = tops[i]
      /\ \A i \in 1..Len(rest) : list[f + i] = rest[i]
  <2>1. f \in Nat
    OBVIOUS
  <2> HIDE DEF f
  <2> QED BY <2>1, <1>0, ToppedIs DEF f
<1>2. /\ next \in Seq(Track) /\ Len(next) <= Len(list)
      /\ \A i \in 1..Len(next) : next[i] = list[i]
  BY <1>1, WindowIs DEF gone
<1>3. Limit \in Nat /\ Limit > 2
  BY SnapshotAssumption
<1>4. tops[1] \in gone
  BY <1>1 DEF ToSet, gone
<1> HIDE DEF list, f, rest
<1> SUFFICES ASSUME k + 1 > f PROVE FALSE
  BY <1>1, <1>2 DEF f
<1>5. Len(rest) >= 1 /\ rest # <<>>
  BY <1>1, <1>2
<1>6. Tail(h) \in Seq(Track) /\ rest = Selected(Tail(h), Track \ gone)
  BY <1>4, SelectedHead DEF rest
<1>7. Tail(h) # <<>>
  BY <1>5, <1>6, SelectedEmpty
<1>8. Len(h) >= 2 /\ h[2] = Tail(h)[1] /\ h[2] \in Track
  BY <1>7
<1>9. h[2] # h[1]
  <2>1. 1 \in DOMAIN h /\ 2 \in DOMAIN h
    BY <1>8
  <2> QED BY <2>1 DEF IsInjective
<1>10. h[2] \in ToSet(Tail(Window(h)))
  <2>1. Len(Window(h)) >= 2 /\ Window(h) \in Seq(Track) /\ Window(h)[2] = h[2]
    BY <1>3, <1>8, WindowIs
  <2>2. 1 \in DOMAIN Tail(Window(h)) /\ Tail(Window(h))[1] = h[2]
    BY <2>1
  <2> QED BY <2>2 DEF ToSet
<1>11. CASE h[2] \in gone
  <2>1. PICK i \in 1..f : tops[i] = h[2]
    <3>1. DOMAIN tops = 1..f
      BY DEF f
    <3> QED BY <3>1, <1>11 DEF ToSet, gone
  <2>2. i # 1
    BY <2>1, <1>9
  <2>3. i \in 2..(k + 1) /\ i \in 1..Len(next)
    BY <2>2, <1>1, <1>2
  <2>4. next[i] = h[2]
    BY <2>1, <2>3, <1>1, <1>2
  <2> QED BY <2>3, <2>4, <1>10
<1>12. CASE h[2] \notin gone
  <2>1. rest = <<h[2]>> \o Selected(Tail(Tail(h)), Track \ gone) /\ Tail(Tail(h)) \in Seq(Track)
    BY <1>6, <1>7, <1>8, <1>12, SelectedHead
  <2>2. Selected(Tail(Tail(h)), Track \ gone) \in Seq(Track)
    BY <2>1, SelectedType
  <2>3. rest[1] = h[2]
    BY <2>1, <2>2, <1>8, ConsIs
  <2>4. f + 1 \in 2..(k + 1) /\ f + 1 \in 1..Len(next) /\ list[f + 1] = rest[1]
    BY <1>1, <1>2, <1>5 DEF f
  <2> QED BY <2>3, <2>4, <1>2, <1>10
<1> QED BY <1>11, <1>12

(* When the one track that was listened to is the one on top, nothing is    *)
(* changed.                                                                 *)
LEMMA ToppedByTop ==
  ASSUME NEW h \in Seq(Track), IsInjective(h), h # <<>>
  PROVE  Topped(h, <<h[1]>>, {h[1]}) = h
<1>1. /\ Tail(h) \in Seq(Track) /\ h[1] \in Track /\ h = <<h[1]>> \o Tail(h)
      /\ Selected(h, Track \ {h[1]}) = Selected(Tail(h), Track \ {h[1]})
  BY SelectedHead
<1>2. ToSet(Tail(h)) \subseteq Track \ {h[1]}
  <2> SUFFICES ASSUME NEW i \in DOMAIN Tail(h) PROVE Tail(h)[i] \in Track \ {h[1]}
    BY DEF ToSet
  <2>1. i + 1 \in DOMAIN h /\ 1 \in DOMAIN h /\ i + 1 # 1 /\ Tail(h)[i] = h[i + 1]
    OBVIOUS
  <2>2. h[i + 1] # h[1]
    BY <2>1 DEF IsInjective
  <2> QED BY <2>1, <2>2
<1>3. Selected(Tail(h), Track \ {h[1]}) = Tail(h)
  BY <1>1, <1>2, SelectedAll
<1> QED BY <1>1, <1>3 DEF Topped

-----------------------------------------------------------------------------
(* What an answer adds. *)

(* A history that was h when it was last answered is now this list: tracks  *)
(* are on top of it that are some of those listened to since, the last of   *)
(* them first, and what is no longer where it was is one of these.  When    *)
(* the service has each track once they are all that were listened to.      *)
Accounts(h, tops, gone, prev, list, heard, once) ==
  /\ prev = Window(h) /\ list = Topped(h, tops, gone)
  /\ PartOf(Reverse(tops), heard)
  /\ heard # <<>> => tops # <<>> /\ tops[1] = Last(heard)
  /\ once => /\ IsInjective(h) /\ IsInjective(tops)
             /\ gone = ToSet(tops) /\ ToSet(tops) = ToSet(heard)

Continues(prev, list, heard, once) ==
  \E h, tops \in Seq(Track) : \E gone \in SUBSET ToSet(tops) :
    Accounts(h, tops, gone, prev, list, heard, once)

LEMMA PartOfEmpty ==
  ASSUME NEW A, NEW r \in Seq(A), PartOf(r, <<>>)
  PROVE  r = <<>>
<1>1. PICK f \in [DOMAIN r -> DOMAIN <<>>] : TRUE
  BY DEF PartOf
<1>2. DOMAIN r = {}
  BY <1>1
<1> QED BY <1>2

LEMMA TopsAreHeard ==
  ASSUME NEW tops \in Seq(Track), NEW heard \in Seq(Track), PartOf(Reverse(tops), heard),
         NEW k \in 0..Len(tops)
  PROVE  PartOf(Reverse(SubSeq(tops, 1, k)), heard)
<1> DEFINE first == SubSeq(tops, 1, k)
<1>1. first \in Seq(Track) /\ PartOf(first, tops)
  BY PartOfBasics
<1> HIDE DEF first
<1>2. /\ Reverse(first) \in Seq(Track) /\ Reverse(tops) \in Seq(Track)
      /\ PartOf(Reverse(first), Reverse(tops))
  BY <1>1, ReverseIs, PartOfReverse
<1>3. PartOf(Reverse(first), heard)
  BY <1>2, PartOfTransitive
<1> QED BY <1>3 DEF first

LEMMA ExplainedIs ==
  ASSUME NEW prev, NEW next
  PROVE  /\ Bumped(prev, next) => Explained(prev, next) = PlaysAreBumpedOnly(prev, next)
         /\ Explained(prev, next).type = "prepend" /\ ~Bumped(prev, next) =>
              /\ Explained(prev, next) = PlaysAreAddedOnly(prev, next)
              /\ PlaysAreAddedOnly(prev, next).type = "prepend"
  BY DEF Explained, Bumped

LEMMA FirstOnly ==
  ASSUME NEW A, NEW s \in Seq(A), s # <<>>
  PROVE  /\ 1 \in 1..Len(s) /\ Len(s) >= 1 /\ SubSeq(s, 1, 1) = <<s[1]>>
         /\ Reverse(SubSeq(s, 1, 1)) = <<s[1]>>
<1>1. Len(s) >= 1 /\ Len(s) \in Nat
  BY EmptySeq
<1>2. /\ SubSeq(s, 1, 1) \in Seq(A) /\ Len(SubSeq(s, 1, 1)) = 1
      /\ SubSeq(s, 1, 1)[1] = s[1]
  BY <1>1
<1>3. \A t \in Seq(A) : Len(t) = 1 => t = <<t[1]>>
  OBVIOUS
<1>4. SubSeq(s, 1, 1) = <<s[1]>>
  BY <1>2, <1>3
<1>5. Reverse(<<s[1]>>) = <<s[1]>>
  BY DEF Reverse
<1>6. 1 \in 1..Len(s)
  BY <1>1
<1>7. Reverse(SubSeq(s, 1, 1)) = <<s[1]>>
  BY <1>4, <1>5
<1> QED BY <1>1, <1>4, <1>6, <1>7

(* What is new on top of the list, and what was moved there.                *)
LEMMA PrependedIs ==
  ASSUME NEW A, NEW prev \in Seq(A), NEW next \in Seq(A),
         Explained(prev, next).type = "prepend"
  PROVE  \E k \in 1..Len(next) :
           /\ Explained(prev, next).plays = SubSeq(next, 1, k)
           /\ Bumped(prev, next) => k = 1
           /\ ~Bumped(prev, next) => \A i \in 1..k : next[i] \notin ToSet(prev)
<1>1. CASE Bumped(prev, next)
  <2>1. next # <<>> /\ Explained(prev, next).plays = <<next[1]>>
    BY <1>1, ExplainedIs, BumpedKeepsTracks
  <2>2. SubSeq(next, 1, 1) = <<next[1]>> /\ 1 \in 1..Len(next)
    BY <2>1, FirstOnly
  <2> QED BY <1>1, <2>1, <2>2
<1>2. CASE ~Bumped(prev, next)
  <2>1. /\ Explained(prev, next) = PlaysAreAddedOnly(prev, next)
        /\ PlaysAreAddedOnly(prev, next).type = "prepend"
    BY <1>2, ExplainedIs
  <2> QED BY <1>2, <2>1, AddedOnTop
<1> QED BY <1>1, <1>2

LEMMA ReverseCons ==
  ASSUME NEW A, NEW s \in Seq(A), NEW k \in 1..Len(s), k < Len(s)
  PROVE  Append(Reverse(SubSeq(Tail(s), 1, k)), s[1]) = Reverse(SubSeq(s, 1, k + 1))
<1> DEFINE t == SubSeq(Tail(s), 1, k)
           u == SubSeq(s, 1, k + 1)
<1>1. /\ t \in Seq(A) /\ Len(t) = k /\ \A i \in 1..k : t[i] = s[i + 1]
      /\ u \in Seq(A) /\ Len(u) = k + 1 /\ \A i \in 1..(k + 1) : u[i] = s[i]
      /\ s[1] \in A
  OBVIOUS
<1> HIDE DEF t, u
<1>2. /\ Reverse(t) \in Seq(A) /\ Len(Reverse(t)) = k
      /\ \A i \in 1..k : Reverse(t)[i] = t[k - i + 1]
      /\ Reverse(u) \in Seq(A) /\ Len(Reverse(u)) = k + 1
      /\ \A i \in 1..(k + 1) : Reverse(u)[i] = u[k - i + 2]
  <2>1. /\ Reverse(t) \in Seq(A) /\ Len(Reverse(t)) = k
        /\ \A i \in 1..k : Reverse(t)[i] = t[k - i + 1]
    BY <1>1, ReverseIs
  <2>2. /\ Reverse(u) \in Seq(A) /\ Len(Reverse(u)) = k + 1
        /\ \A i \in 1..(k + 1) : Reverse(u)[i] = u[(k + 1) - i + 1]
    <3>1. /\ Reverse(u) \in Seq(A) /\ Len(Reverse(u)) = Len(u)
          /\ \A i \in 1..Len(u) : Reverse(u)[i] = u[Len(u) - i + 1]
      BY <1>1, ReverseIs
    <3> QED BY <3>1, <1>1
  <2>3. \A i \in 1..(k + 1) : (k + 1) - i + 1 = k - i + 2
    OBVIOUS
  <2> QED BY <2>1, <2>2, <2>3
<1> DEFINE v == Append(Reverse(t), s[1])
<1>3. /\ v \in Seq(A) /\ Len(v) = k + 1 /\ v[k + 1] = s[1]
      /\ \A i \in 1..k : v[i] = Reverse(t)[i]
  BY <1>1, <1>2, AppendProperties
<1> HIDE DEF v
<1>4. \A i \in 1..(k + 1) : v[i] = Reverse(u)[i]
  <2> TAKE i \in 1..(k + 1)
  <2>1. CASE i = k + 1
    <3>1. Reverse(u)[i] = u[1] /\ u[1] = s[1]
      BY <2>1, <1>1, <1>2
    <3> QED BY <3>1, <2>1, <1>3
  <2>2. CASE i \in 1..k
    <3>1. k - i + 1 \in 1..k /\ k - i + 2 \in 1..(k + 1)
      BY <2>2
    <3>2. v[i] = s[k - i + 2]
      BY <3>1, <2>2, <1>1, <1>2, <1>3
    <3> QED BY <3>1, <3>2, <1>1, <1>2
  <2> QED BY <2>1, <2>2
<1>5. v = Reverse(u)
  BY <1>2, <1>3, <1>4, SeqEqual
<1> QED BY <1>5 DEF t, u, v

(* The first entries of the two lists are the same.                         *)
LEMMA TopsAreFirst ==
  ASSUME NEW h \in Seq(Track), NEW tops \in Seq(Track), NEW gone \in SUBSET ToSet(tops),
         NEW next, next = Window(Topped(h, tops, gone))
  PROVE  \A k \in 0..Len(tops) : k <= Len(next) => SubSeq(next, 1, k) = SubSeq(tops, 1, k)
<1> SUFFICES ASSUME NEW k \in 0..Len(tops), k <= Len(next)
             PROVE  SubSeq(next, 1, k) = SubSeq(tops, 1, k)
  OBVIOUS
<1>1. /\ Topped(h, tops, gone) \in Seq(Track)
      /\ \A i \in 1..Len(tops) : Topped(h, tops, gone)[i] = tops[i]
  BY ToppedIs
<1>2. /\ next \in Seq(Track)
      /\ \A i \in 1..Len(next) : next[i] = Topped(h, tops, gone)[i]
  BY <1>1, WindowIs
<1>3. \A i \in 1..k : next[i] = tops[i]
  BY <1>1, <1>2
<1>4. /\ SubSeq(next, 1, k) = [i \in 1..k |-> next[i]]
      /\ SubSeq(tops, 1, k) = [i \in 1..k |-> tops[i]]
  BY <1>2
<1> QED BY <1>3, <1>4

(* What the current answer adds was listened to since the last one.         *)
LEMMA CurrentAnswer ==
  ASSUME NEW h \in Seq(Track), NEW tops \in Seq(Track), NEW gone \in SUBSET ToSet(tops),
         since \in Seq(Track),
         Accounts(h, tops, gone, seen, history, since, service = "applemusic")
  PROVE  /\ IncomingHistory(Window(history)) \in Seq(Track)
         /\ PartOf(IncomingHistory(Window(history)), since)
<1> DEFINE next == Window(history)
           tail == Explained(Tail(seen), Tail(next))
           diff == Explained(seen, next)
           Fine(r) == \E k \in 0..Len(tops) : r = Reverse(SubSeq(tops, 1, k))
<1>1. /\ seen = Window(h) /\ next = Window(Topped(h, tops, gone))
      /\ seen \in Seq(Track) /\ next \in Seq(Track) /\ history \in Seq(Track)
  BY ToppedIs, WindowIs DEF Accounts
<1>0. /\ \A i \in 1..Len(tops) : Topped(h, tops, gone)[i] = tops[i]
      /\ tops = <<>> => Topped(h, tops, gone) = h
      /\ Topped(h, tops, gone) \in Seq(Track)
      /\ Len(Topped(h, tops, gone)) >= Len(tops)
  <2> DEFINE list == Topped(h, tops, gone)
             rest == Selected(h, Track \ gone)
  <2>1. rest \in Seq(Track) /\ list \in Seq(Track)
    BY ToppedIs
  <2>2. Len(list) = Len(tops) + Len(rest)
    BY ToppedIs
  <2>3. \A i \in 1..Len(tops) : list[i] = tops[i]
    BY ToppedIs
  <2>4. tops = <<>> => list = h
    BY ToppedIs
  <2> HIDE DEF list, rest
  <2>5. Len(rest) \in Nat /\ Len(tops) \in Nat
    BY <2>1
  <2>6. Len(list) >= Len(tops)
    BY <2>2, <2>5
  <2> QED BY <2>1, <2>3, <2>4, <2>6 DEF list
<1>9. diff = Explained(seen, next) /\ tail = Explained(Tail(seen), Tail(next))
  OBVIOUS
<1> HIDE DEF next, tail, diff
<1>11. \A k \in 0..Len(tops) : k <= Len(next) => SubSeq(next, 1, k) = SubSeq(tops, 1, k)
  <2> DEFINE n0 == Window(Topped(h, tops, gone))
  <2>1. \A k \in 0..Len(tops) : k <= Len(n0) => SubSeq(n0, 1, k) = SubSeq(tops, 1, k)
    <3> HIDE DEF n0
    <3>1. n0 = Window(Topped(h, tops, gone))
      BY DEF n0
    <3> QED BY <3>1, TopsAreFirst
  <2>2. next = n0
    BY <1>1
  <2> HIDE DEF n0
  <2> QED BY <2>1, <2>2
<1>2. Fine(<<>>)
  <2>1. SubSeq(tops, 1, 0) = <<>> /\ 0 \in 0..Len(tops)
    OBVIOUS
  <2>2. Reverse(<<>>) = <<>>
    BY DEF Reverse
  <2> QED BY <2>1, <2>2
<1>3. seen # next => tops # <<>>
  BY <1>0, <1>1
<1>4. ASSUME seen # next, diff.type = "prepend"
      PROVE  Fine(diff.plays) \/ ~Bumped(seen, next) 
  <2> SUFFICES ASSUME Bumped(seen, next) PROVE Fine(diff.plays)
    OBVIOUS
  <2>1. PICK k \in 1..Len(next) : diff.plays = SubSeq(next, 1, k) /\ k = 1
    BY <1>1, <1>4, <1>9, PrependedIs
  <2>2. 1 \in 0..Len(tops) /\ 1 <= Len(next)
    BY <1>3, <1>4, <2>1
  <2>3. SubSeq(next, 1, 1) = SubSeq(tops, 1, 1)
    BY <2>2, <1>11
  <2>4. Reverse(SubSeq(tops, 1, 1)) = SubSeq(tops, 1, 1)
    BY <1>3, <1>4, FirstOnly
  <2> QED BY <2>1, <2>2, <2>3, <2>4
<1>5. ASSUME seen # next, diff.type = "prepend", ~Bumped(seen, next)
      PROVE  Fine(Reverse(diff.plays))
  <2>1. PICK k \in 1..Len(next) : /\ diff.plays = SubSeq(next, 1, k)
                                  /\ \A i \in 1..k : next[i] \notin ToSet(seen)
    BY <1>1, <1>5, <1>9, PrependedIs
  <2>2. k <= Len(tops)
    BY <2>1, <1>1, NewAreTops
  <2>3. k \in 0..Len(tops) /\ k <= Len(next)
    BY <2>2, <1>1
  <2>4. SubSeq(next, 1, k) = SubSeq(tops, 1, k)
    BY <2>3, <1>11
  <2> QED BY <2>1, <2>3, <2>4
<1>6. ASSUME TopRebound(next), tail.type = "prepend"
      PROVE  Fine(Append(Reverse(tail.plays), next[1]))
  <2>1. /\ seen # <<>> /\ next # <<>> /\ seen[1] = next[1] /\ seen # next
        /\ Tail(seen) \in Seq(Track) /\ Tail(next) \in Seq(Track)
        /\ IsInjective(h) /\ gone = ToSet(tops)
    BY <1>1, <1>6 DEF TopRebound, Accounts
  <2>2. h # <<>> /\ seen[1] = h[1] /\ tops # <<>> /\ next[1] = tops[1]
    <3>1. tops # <<>>
      BY <2>1, <1>3
    <3>2. Len(seen) >= 1 /\ Len(seen) <= Len(h) /\ 1 \in 1..Len(seen)
      BY <2>1, <1>1, WindowIs
    <3>3. seen[1] = h[1] /\ h # <<>>
      BY <3>2, <1>1, WindowIs
    <3>4. 1 \in 1..Len(next) /\ 1 \in 1..Len(tops)
      BY <2>1, <3>1, <1>1
    <3>5. next[1] = tops[1]
      BY <3>4, <1>0, <1>1, WindowIs
    <3> QED BY <3>1, <3>3, <3>5
  <2>3. Len(tops) >= 2
    <3>1. Len(tops) >= 1 /\ Len(tops) \in Nat
      BY <2>2, FirstOnly
    <3> SUFFICES ASSUME Len(tops) = 1 PROVE FALSE
      <4> DEFINE f == Len(tops)
      <4>1. f >= 1 /\ f \in Nat
        BY <3>1
      <4> HIDE DEF f
      <4>2. f = 1 \/ f >= 2
        BY <4>1
      <4> QED BY <4>2 DEF f
    <3>2. tops = <<h[1]>> /\ ToSet(tops) = {h[1]}
      <4>1. tops = <<tops[1]>> /\ ToSet(<<tops[1]>>) = {tops[1]}
        BY DEF ToSet
      <4> QED BY <4>1, <2>1, <2>2
    <3>3. Topped(h, tops, gone) = h
      BY <3>2, <2>1, <2>2, ToppedByTop
    <3> QED BY <3>3, <2>1, <1>1
  <2>4. PICK k \in 1..Len(Tail(next)) :
          /\ tail.plays = SubSeq(Tail(next), 1, k)
          /\ Bumped(Tail(seen), Tail(next)) => k = 1
          /\ ~Bumped(Tail(seen), Tail(next)) =>
               \A i \in 1..k : Tail(next)[i] \notin ToSet(Tail(seen))
    BY <2>1, <1>6, <1>9, PrependedIs
  <2>5. k \in 1..Len(next) /\ k < Len(next) /\ \A i \in 1..k : Tail(next)[i] = next[i + 1]
    BY <2>1, <1>1
  <2>6. k + 1 <= Len(tops)
    <3>1. CASE Bumped(Tail(seen), Tail(next))
      BY <3>1, <2>3, <2>4
    <3>2. CASE ~Bumped(Tail(seen), Tail(next))
      <4>1. \A i \in 2..(k + 1) : next[i] \notin ToSet(Tail(Window(h)))
        <5> TAKE i \in 2..(k + 1)
        <5>1. i - 1 \in 1..k /\ (i - 1) + 1 = i
          BY <2>5
        <5> QED BY <5>1, <3>2, <2>4, <2>5, <1>1
      <4>2. tops[1] = h[1]
        BY <2>1, <2>2
      <4> QED BY <4>1, <4>2, <2>1, <2>2, <2>3, <2>5, <1>1, NewBelowAreTops
    <3> QED BY <3>1, <3>2
  <2>7. k + 1 \in 0..Len(tops) /\ k + 1 <= Len(next)
    BY <2>5, <2>6, <1>1
  <2>8. SubSeq(next, 1, k + 1) = SubSeq(tops, 1, k + 1)
    BY <2>7, <1>11
  <2>9. Append(Reverse(tail.plays), next[1]) = Reverse(SubSeq(next, 1, k + 1))
    BY <2>4, <2>5, <1>1, ReverseCons
  <2> QED BY <2>7, <2>8, <2>9
<1>7. Fine(IncomingHistory(next))
  <2> HIDE DEF Fine
  <2>1. CASE seen = next  BY <2>1, <1>2 DEF IncomingHistory
  <2>2. CASE seen # next /\ TopRebound(next) /\ tail.type = "prepend"
    BY <2>2, <1>2, <1>6 DEF IncomingHistory, tail
  <2>3. CASE seen # next /\ ~(TopRebound(next) /\ tail.type = "prepend")
    <3>1. CASE Bumped(seen, next)
      <4>1. diff.type = "prepend"
        BY <3>1, <1>9, ExplainedIs DEF Bumped
      <4>2. IncomingHistory(next) = diff.plays
        BY <2>3, <3>1 DEF IncomingHistory, diff, tail
      <4> QED BY <4>1, <4>2, <3>1, <2>3, <1>4
    <3>2. CASE ~Bumped(seen, next)
      <4>1. IncomingHistory(next) = Added(diff, next)
        BY <2>3, <3>2 DEF IncomingHistory, diff, tail
      <4>2. Added(diff, next) = IF diff.type # "prepend" \/ Reverted(next) THEN <<>> ELSE Reverse(diff.plays)
        BY DEF Added
      <4> QED BY <4>1, <4>2, <3>2, <2>3, <1>2, <1>5
    <3> QED BY <3>1, <3>2
  <2> QED BY <2>1, <2>2, <2>3
<1>8. PICK k \in 0..Len(tops) : IncomingHistory(next) = Reverse(SubSeq(tops, 1, k))
  BY <1>7
<1>12. SubSeq(tops, 1, k) \in Seq(Track)
  OBVIOUS
<1>10. Reverse(SubSeq(tops, 1, k)) \in Seq(Track)
  BY <1>12, ReverseIs
<1>13. PartOf(Reverse(SubSeq(tops, 1, k)), since)
  BY TopsAreHeard DEF Accounts
<1> QED BY <1>8, <1>10, <1>13 DEF next

(* An answer that is out of date and lacks something of the list before,    *)
(* but begins with one of its tracks, adds nothing.                         *)
LEMMA OutdatedAnswer ==
  ASSUME history \in Seq(Track), seen = Window(history), NEW list \in Seq(Track),
         list # history, Undoes(list),
         service = "applemusic" => IsInjective(history)
  PROVE  IncomingHistory(Window(list)) = <<>>
<1> DEFINE next == Window(list)
           tail == Explained(Tail(seen), Tail(next))
           diff == Explained(seen, next)
           d == Len(history) - Len(list)
<1>1. seen \in Seq(Track) /\ next \in Seq(Track)
  BY WindowIs
<1>2. ~(ToSet(seen) \subseteq ToSet(next)) /\ Len(history) < Len(list) + Limit
  BY DEF Undoes
<1>3. /\ d \in Nat /\ d < Limit /\ Len(history) = Len(list) + d
      /\ \A i \in 1..Len(list) : list[i] = history[d + i]
  <2>1. /\ Len(list) <= Len(history)
        /\ SubSeq(Reverse(list), 1, Len(list)) = SubSeq(Reverse(history), 1, Len(list))
    <3>1. Len(Reverse(list)) = Len(list) /\ Len(Reverse(history)) = Len(history)
      BY ReverseIs
    <3> QED BY <3>1 DEF Undoes, IsSuffix, IsPrefix
  <2>2. Len(list) \in Nat /\ Len(history) \in Nat
    OBVIOUS
  <2>3. /\ Reverse(list) \in Seq(Track) /\ Reverse(history) \in Seq(Track)
        /\ \A i \in 1..Len(list) : Reverse(list)[i] = list[Len(list) - i + 1]
        /\ \A i \in 1..Len(history) : Reverse(history)[i] = history[Len(history) - i + 1]
    BY ReverseIs
  <2>4. \A i \in 1..Len(list) : Reverse(list)[i] = Reverse(history)[i]
    <3> TAKE i \in 1..Len(list)
    <3>1. /\ SubSeq(Reverse(list), 1, Len(list))[i] = Reverse(list)[i]
          /\ SubSeq(Reverse(history), 1, Len(list))[i] = Reverse(history)[i]
      BY <2>2, <2>3
    <3> QED BY <3>1, <2>1
  <2>5. \A i \in 1..Len(list) : list[i] = history[d + i]
    <3> TAKE i \in 1..Len(list)
    <3> DEFINE j == Len(list) - i + 1
    <3>1. /\ j \in 1..Len(list) /\ j \in 1..Len(history)
          /\ Len(list) - j + 1 = i /\ Len(history) - j + 1 = d + i
      BY <2>1, <2>2
    <3> HIDE DEF j, d
    <3>2. Reverse(list)[j] = list[i] /\ Reverse(history)[j] = history[d + i]
      BY <3>1, <2>3
    <3> QED BY <3>1, <3>2, <2>4
  <2>6. d \in Nat /\ Len(history) = Len(list) + d
    BY <2>1, <2>2
  <2>7. d < Limit
    <3>1. Limit \in Nat
      BY SnapshotAssumption
    <3> QED BY <3>1, <2>2, <1>2
  <2> QED BY <2>5, <2>6, <2>7
<1>4. d # 0
  <2> SUFFICES ASSUME d = 0 PROVE FALSE
    OBVIOUS
  <2>1. Len(list) = Len(history) /\ \A i \in 1..Len(list) : list[i] = history[i]
    BY <1>3
  <2>2. list = history
    BY <2>1, SeqEqual
  <2> QED BY <2>2
<1>5. Len(list) \in Nat /\ Len(history) \in Nat /\ Limit \in Nat
  BY SnapshotAssumption
<1> HIDE DEF d, next
<1>6. ASSUME next # <<>> PROVE next[1] = history[d + 1] /\ next[1] \in ToSet(seen)
  <2>1. 1 \in 1..Len(next) /\ Len(next) <= Len(list)
    BY <1>1, <1>6, FirstOnly, WindowIs DEF next
  <2>2. 1 \in 1..Len(list) /\ next[1] = list[1]
    BY <2>1, <1>5, WindowIs DEF next
  <2>3. d + 1 \in 1..Len(history) /\ d + 1 <= Limit /\ list[1] = history[d + 1]
    BY <2>2, <1>3, <1>5
  <2>4. history[d + 1] \in ToSet(seen)
    BY <2>3, WindowIs
  <2> QED BY <2>2, <2>3, <2>4
<1>7. ~Bumped(seen, next)
  BY <1>1, <1>2, BumpedKeepsTracks
<1>8. diff.type # "prepend"
  <2> SUFFICES ASSUME diff.type = "prepend" PROVE FALSE
    OBVIOUS
  <2>1. PICK k \in 1..Len(next) : \A i \in 1..k : next[i] \notin ToSet(seen)
    BY <1>1, <1>7, PrependedIs
  <2>2. next # <<>> /\ 1 \in 1..k
    BY <2>1, <1>1
  <2> QED BY <2>1, <2>2, <1>6
<1>9. ~TopRebound(next)
  <2> SUFFICES ASSUME TopRebound(next) PROVE FALSE
    OBVIOUS
  <2>1. seen # <<>> /\ next # <<>> /\ seen[1] = next[1] /\ IsInjective(history)
    BY <1>1 DEF TopRebound
  <2>2. 1 \in 1..Len(seen) /\ seen[1] = history[1] /\ Len(seen) <= Len(history)
    BY <2>1, <1>1, FirstOnly, WindowIs
  <2>3. 1 \in 1..Len(next) /\ Len(next) <= Len(list)
    BY <1>1, <2>1, FirstOnly, WindowIs DEF next
  <2>4. d + 1 \in DOMAIN history /\ 1 \in DOMAIN history /\ d + 1 # 1
    BY <2>2, <2>3, <1>3, <1>4, <1>5
  <2>5. history[d + 1] = history[1]
    BY <2>1, <2>2, <1>6
  <2> QED BY <2>1, <2>4, <2>5 DEF IsInjective
<1>10. IncomingHistory(next) = <<>>
  BY <1>7, <1>8, <1>9 DEF IncomingHistory, Added
<1> QED BY <1>10 DEF next

(* The current answer that follows is known, and adds nothing again.        *)
LEMMA KnownAnswer ==
  ASSUME history \in Seq(Track), seen \in Seq(Track), recent \in Seq(Seq(Track)), recent # <<>>,
         Window(history) = recent[1], ~(ToSet(recent[1]) \subseteq ToSet(seen))
  PROVE  IncomingHistory(Window(history)) = <<>>
<1> DEFINE next == Window(history)
           tail == Explained(Tail(seen), Tail(next))
           diff == Explained(seen, next)
<1>1. next \in Seq(Track) /\ ~(ToSet(next) \subseteq ToSet(seen))
  BY WindowIs
<1>2. Reverted(next)
  <2>1. 1 \in DOMAIN recent
    OBVIOUS
  <2> QED BY <2>1 DEF Reverted
<1> HIDE DEF next
<1>3. ~Bumped(seen, next)
  BY <1>1, BumpedKeepsTracks
<1>4. ASSUME TopRebound(next) PROVE ~Bumped(Tail(seen), Tail(next))
  <2>1. /\ seen # <<>> /\ next # <<>> /\ seen[1] = next[1]
        /\ Tail(seen) \in Seq(Track) /\ Tail(next) \in Seq(Track)
    BY <1>1, <1>4 DEF TopRebound
  <2>2. /\ seen = <<seen[1]>> \o Tail(seen) /\ next = <<next[1]>> \o Tail(next)
        /\ seen[1] \in Track /\ next[1] \in Track
    BY <1>1, <2>1, SelectedHead
  <2>3. \A x \in Track, s \in Seq(Track) : ToSet(<<x>> \o s) = {x} \cup ToSet(s)
    BY ConsIs
  <2>4. /\ ToSet(seen) = {seen[1]} \cup ToSet(Tail(seen))
        /\ ToSet(next) = {next[1]} \cup ToSet(Tail(next))
    BY <2>1, <2>2, <2>3
  <2>5. ToSet(Tail(seen)) # ToSet(Tail(next))
    BY <2>1, <2>4, <1>1
  <2> QED BY <2>1, <2>5, BumpedKeepsTracks
<1>5. IncomingHistory(next) = <<>>
  BY <1>2, <1>3, <1>4 DEF IncomingHistory, Added
<1> QED BY <1>5 DEF next

LEMMA AddsType ==
  ASSUME seen \in Seq(Track), NEW plays \in Seq(Track)
  PROVE  IncomingHistory(plays) \in Seq(Track)
<1> DEFINE tail == Explained(Tail(seen), Tail(plays))
           diff == Explained(seen, plays)
<1>1. <<>> \in Seq(Track)
  OBVIOUS
<1>2. diff.type = "prepend" => /\ diff.plays \in Seq(Track) /\ Reverse(diff.plays) \in Seq(Track)
  <2> SUFFICES ASSUME diff.type = "prepend" PROVE diff.plays \in Seq(Track) /\ Reverse(diff.plays) \in Seq(Track)
    OBVIOUS
  <2>1. PICK k \in 1..Len(plays) : diff.plays = SubSeq(plays, 1, k)
    BY PrependedIs
  <2>2. diff.plays \in Seq(Track)
    BY <2>1
  <2> QED BY <2>2, ReverseIs
<1>3. Bumped(seen, plays) => diff.type = "prepend"
  BY ExplainedIs DEF Bumped
<1>4. TopRebound(plays) /\ tail.type = "prepend" => Append(Reverse(tail.plays), plays[1]) \in Seq(Track)
  <2> SUFFICES ASSUME TopRebound(plays), tail.type = "prepend"
               PROVE  Append(Reverse(tail.plays), plays[1]) \in Seq(Track)
    OBVIOUS
  <2>1. Tail(seen) \in Seq(Track) /\ Tail(plays) \in Seq(Track) /\ plays[1] \in Track
    BY DEF TopRebound
  <2>2. PICK k \in 1..Len(Tail(plays)) : tail.plays = SubSeq(Tail(plays), 1, k)
    BY <2>1, PrependedIs
  <2>3. tail.plays \in Seq(Track)
    <3> DEFINE t == Tail(plays)
    <3>1. t \in Seq(Track) /\ tail.plays = SubSeq(t, 1, k) /\ k \in 1..Len(t)
      BY <2>1, <2>2
    <3> HIDE DEF t, tail
    <3> QED BY <3>1
  <2>4. Reverse(tail.plays) \in Seq(Track)
    BY <2>3, ReverseIs
  <2> QED BY <2>1, <2>4, AppendProperties
<1> HIDE DEF tail, diff
<1>5. IncomingHistory(plays) \in Seq(Track)
  BY <1>1, <1>2, <1>3, <1>4 DEF IncomingHistory, Added, tail, diff
<1> QED BY <1>5

LEMMA PlausibleIs ==
  ASSUME NEW plays \in Seq(Track)
  PROVE  /\ Plausible(plays) \in Seq(Track) /\ PartOf(Plausible(plays), plays)
         /\ plays # <<>> => Plausible(plays) # <<>> /\ Last(Plausible(plays)) = Last(plays)
         /\ Len(plays) <= 1 => Plausible(plays) = plays
<1>1. CASE service = "ytmusic" /\ Len(plays) > 1 /\ discovered
  <2> DEFINE front == SubSeq(plays, 1, Len(plays) - 1)
             last == plays[Len(plays)]
             some == Selected(front, Untimed)
  <2>1. plays # <<>> /\ front \in Seq(Track) /\ last \in Track /\ plays = Append(front, last)
    <3>1. front \in Seq(Track) /\ last \in Track /\ Len(front) = Len(plays) - 1
      BY <1>1
    <3>2. /\ Append(front, last) \in Seq(Track) /\ Len(Append(front, last)) = Len(plays)
          /\ \A i \in 1..Len(plays) : Append(front, last)[i] = plays[i]
      BY <3>1, <1>1
    <3>3. plays = Append(front, last)
      BY <3>2, SeqEqual
    <3> QED BY <3>1, <3>3, <1>1
  <2>2. Plausible(plays) = Append(some, last)
    BY <1>1 DEF Plausible, Front, Last
  <2> HIDE DEF front, last
  <2>3. some \in Seq(Track) /\ PartOf(some, front)
    BY <2>1, SelectedType, SelectedPart
  <2> HIDE DEF some
  <2>4. /\ Append(some, last) \in Seq(Track) /\ Append(some, last) # <<>>
        /\ Append(some, last)[Len(some) + 1] = last /\ Len(Append(some, last)) = Len(some) + 1
    BY <2>1, <2>3, AppendProperties
  <2>5. PartOf(Append(some, last), Append(front, last))
    BY <2>1, <2>3, PartOfAppend
  <2>6. Last(plays) = last
    BY DEF Last, last
  <2>7. Last(Plausible(plays)) = last
    BY <2>2, <2>4 DEF Last
  <2>8. ~(Len(plays) <= 1)
    BY <1>1
  <2> QED BY <2>1, <2>2, <2>4, <2>5, <2>6, <2>7, <2>8
<1>2. CASE ~(service = "ytmusic" /\ Len(plays) > 1 /\ discovered)
  <2>1. Plausible(plays) = plays
    BY <1>2 DEF Plausible
  <2> QED BY <2>1, PartOfBasics
<1>3. Len(plays) <= 1 => Plausible(plays) = plays
  BY DEF Plausible
<1> QED BY <1>1, <1>2, <1>3

-----------------------------------------------------------------------------
(* What a listen makes of the history. *)

LEMMA ReverseOfCons ==
  ASSUME NEW x \in Track, NEW s \in Seq(Track)
  PROVE  Reverse(<<x>> \o s) = Append(Reverse(s), x)
<1> DEFINE t == <<x>> \o s
           u == Append(Reverse(s), x)
           n == Len(s)
<1>1. /\ t \in Seq(Track) /\ Len(t) = n + 1 /\ t[1] = x
      /\ \A i \in 1..n : t[i + 1] = s[i]
  BY ConsIs
<1>2. /\ Reverse(s) \in Seq(Track) /\ Len(Reverse(s)) = n
      /\ \A i \in 1..n : Reverse(s)[i] = s[n - i + 1]
  BY ReverseIs
<1>3. /\ u \in Seq(Track) /\ Len(u) = n + 1 /\ u[n + 1] = x
      /\ \A i \in 1..n : u[i] = Reverse(s)[i]
  BY <1>2, AppendProperties
<1> HIDE DEF t, u
<1>4. /\ Reverse(t) \in Seq(Track) /\ Len(Reverse(t)) = n + 1
      /\ \A i \in 1..(n + 1) : Reverse(t)[i] = t[(n + 1) - i + 1]
  <2>1. /\ Reverse(t) \in Seq(Track) /\ Len(Reverse(t)) = Len(t)
        /\ \A i \in 1..Len(t) : Reverse(t)[i] = t[Len(t) - i + 1]
    BY <1>1, ReverseIs
  <2> QED BY <2>1, <1>1
<1>5. n \in Nat
  OBVIOUS
<1> HIDE DEF n
<1>6. \A i \in 1..(n + 1) : Reverse(t)[i] = u[i]
  <2> TAKE i \in 1..(n + 1)
  <2>1. CASE i = n + 1
    <3>1. (n + 1) - i + 1 = 1
      BY <2>1, <1>5
    <3> QED BY <3>1, <2>1, <1>1, <1>3, <1>4
  <2>2. CASE i \in 1..n
    <3>1. n - i + 1 \in 1..n /\ (n + 1) - i + 1 = (n - i + 1) + 1
      BY <2>2, <1>5
    <3>2. t[(n - i + 1) + 1] = s[n - i + 1]
      BY <3>1, <1>1
    <3> QED BY <3>1, <3>2, <2>2, <1>2, <1>3, <1>4
  <2> QED BY <2>1, <2>2, <1>5
<1>7. Reverse(t) = u
  <2>1. Len(Reverse(t)) = Len(u) /\ \A i \in 1..Len(Reverse(t)) : Reverse(t)[i] = u[i]
    BY <1>3, <1>4, <1>6
  <2> QED BY <2>1, <1>3, <1>4, SeqEqual
<1> QED BY <1>7 DEF t, u

LEMMA ConsInjective ==
  ASSUME NEW x \in Track, NEW s \in Seq(Track), IsInjective(s), x \notin ToSet(s)
  PROVE  IsInjective(<<x>> \o s)
<1> DEFINE t == <<x>> \o s
<1>1. /\ DOMAIN t = 1..(Len(s) + 1) /\ t[1] = x /\ Len(s) \in Nat /\ DOMAIN s = 1..Len(s)
      /\ \A i \in 1..Len(s) : t[i + 1] = s[i]
  <2>1. t \in Seq(Track) /\ Len(t) = Len(s) + 1
    BY ConsIs
  <2> QED BY <2>1, ConsIs
<1> HIDE DEF t
<1>2. \A i \in 1..(Len(s) + 1) : i = 1 \/ (i - 1 \in DOMAIN s /\ t[i] = s[i - 1] /\ t[i] # x)
  <2> TAKE i \in 1..(Len(s) + 1)
  <2>1. i = 1 \/ i - 1 \in 1..Len(s)
    BY <1>1
  <2>2. ASSUME i - 1 \in 1..Len(s) PROVE t[i] = s[i - 1] /\ s[i - 1] # x
    <3>1. (i - 1) + 1 = i
      OBVIOUS
    <3> QED BY <3>1, <2>2, <1>1 DEF ToSet
  <2> QED BY <2>1, <2>2, <1>1
<1>3. \A i, j \in 1..(Len(s) + 1) : t[i] = t[j] => i = j
  <2> SUFFICES ASSUME NEW i \in 1..(Len(s) + 1), NEW j \in 1..(Len(s) + 1), t[i] = t[j]
               PROVE  i = j
    OBVIOUS
  <2>1. CASE i = 1 \/ j = 1
    BY <2>1, <1>1, <1>2
  <2>2. CASE i # 1 /\ j # 1
    <3>1. i - 1 = j - 1
      BY <2>2, <1>2 DEF IsInjective
    <3> QED BY <3>1
  <2> QED BY <2>1, <2>2
<1> QED BY <1>1, <1>3 DEF IsInjective, t

(* The entries of a list but for one track, with the track on top.          *)
LEMMA OnTopIs ==
  ASSUME NEW t \in Track, NEW s \in Seq(Track)
  PROVE  /\ Selected(s, Track \ {t}) \in Seq(Track)
         /\ <<t>> \o Selected(s, Track \ {t}) \in Seq(Track)
         /\ ToSet(<<t>> \o Selected(s, Track \ {t})) = {t} \cup ToSet(s)
         /\ IsInjective(s) => IsInjective(<<t>> \o Selected(s, Track \ {t}))
<1> DEFINE r == Selected(s, Track \ {t})
<1>1. r \in Seq(Track) /\ PartOf(r, s) /\ ToSet(r) = ToSet(s) \cap (Track \ {t})
  BY SelectedType, SelectedPart, SelectedEntries
<1>2. ToSet(s) \subseteq Track
  BY DEF ToSet
<1> HIDE DEF r
<1>3. /\ <<t>> \o r \in Seq(Track) /\ ToSet(<<t>> \o r) = {t} \cup ToSet(r)
  BY <1>1, ConsIs
<1>4. ToSet(<<t>> \o r) = {t} \cup ToSet(s)
  BY <1>1, <1>2, <1>3
<1>5. ASSUME IsInjective(s) PROVE IsInjective(<<t>> \o r)
  <2>1. IsInjective(r) /\ t \notin ToSet(r)
    BY <1>1, <1>5, PartIsInjective
  <2> QED BY <2>1, <1>1, ConsInjective
<1> QED BY <1>1, <1>3, <1>4, <1>5 DEF r

LEMMA TracksSelected ==
  \A s, r \in Seq(Track), some \in SUBSET Track :
    Selected(s \o r, some) = Selected(s, some) \o Selected(r, some)
<1> SUFFICES ASSUME NEW s \in Seq(Track), NEW r \in Seq(Track), NEW some \in SUBSET Track
             PROVE  Selected(s \o r, some) = Selected(s, some) \o Selected(r, some)
  OBVIOUS
<1> QED BY SelectedConcat

LEMMA ListenAccounts ==
  ASSUME NEW prev, NEW list \in Seq(Track), NEW heard \in Seq(Track), NEW once \in BOOLEAN,
         Continues(prev, list, heard, once), NEW t \in Track
  PROVE  /\ Continues(prev, <<t>> \o Selected(list, Track \ {t}), Append(heard, t), once)
         /\ ~once => Continues(prev, <<t>> \o list, Append(heard, t), once)
<1>1. PICK h \in Seq(Track), tops \in Seq(Track) :
        \E gone \in SUBSET ToSet(tops) : Accounts(h, tops, gone, prev, list, heard, once)
  BY DEF Continues
<1>2. PICK gone \in SUBSET ToSet(tops) : Accounts(h, tops, gone, prev, list, heard, once)
  BY <1>1
<1> DEFINE rest == Selected(h, Track \ gone)
           more == Append(heard, t)
<1>3. rest \in Seq(Track) /\ list = tops \o rest /\ prev = Window(h)
  BY <1>2, SelectedType DEF Accounts, Topped
<1>4. /\ more \in Seq(Track) /\ more # <<>> /\ Last(more) = t
      /\ ToSet(more) = ToSet(heard) \cup {t}
  <2>1. more \in Seq(Track) /\ more # <<>> /\ Len(more) = Len(heard) + 1 /\ more[Len(heard) + 1] = t
    BY AppendProperties
  <2>2. DOMAIN more = DOMAIN heard \cup {Len(heard) + 1} /\ \A i \in DOMAIN heard : more[i] = heard[i]
    OBVIOUS
  <2> HIDE DEF more
  <2> QED BY <2>1, <2>2 DEF Last, ToSet
<1>5. \A s \in Seq(Track) : PartOf(s, tops) =>
        PartOf(Reverse(<<t>> \o s), more)
  <2> SUFFICES ASSUME NEW s \in Seq(Track), PartOf(s, tops)
               PROVE  PartOf(Reverse(<<t>> \o s), more)
    OBVIOUS
  <2>1. Reverse(s) \in Seq(Track) /\ Reverse(tops) \in Seq(Track) /\ PartOf(Reverse(s), Reverse(tops))
    BY ReverseIs, PartOfReverse
  <2>2. PartOf(Reverse(tops), heard)
    BY <1>2 DEF Accounts
  <2>3. PartOf(Reverse(s), heard)
    BY <2>1, <2>2, PartOfTransitive
  <2>4. PartOf(Append(Reverse(s), t), Append(heard, t))
    BY <2>1, <2>3, PartOfAppend
  <2> QED BY <2>4, ReverseOfCons DEF more
<1> HIDE DEF more
<1>6. Continues(prev, <<t>> \o Selected(list, Track \ {t}), more, once)
  <2> DEFINE others == Selected(tops, Track \ {t})
             ntops == <<t>> \o others
             ngone == gone \cup {t}
  <2>1. /\ others \in Seq(Track) /\ ntops \in Seq(Track) /\ ToSet(ntops) = {t} \cup ToSet(tops)
        /\ IsInjective(tops) => IsInjective(ntops)
        /\ PartOf(others, tops)
    BY OnTopIs, SelectedPart
  <2>2. ngone \in SUBSET ToSet(ntops)
    BY <2>1
  <2>3. ntops[1] = t /\ ntops # <<>>
    <3>1. others \in Seq(Track)
      BY <2>1
    <3> HIDE DEF others
    <3> QED BY <3>1, ConsIs
  <2>4. <<t>> \o Selected(list, Track \ {t}) = Topped(h, ntops, ngone)
    <3>1. Selected(list, Track \ {t}) = others \o Selected(rest, Track \ {t})
      <4> HIDE DEF rest, others
      <4>1. Selected(tops \o rest, Track \ {t})
              = Selected(tops, Track \ {t}) \o Selected(rest, Track \ {t})
        <5> DEFINE D == Track \ {t}
        <5>1. D \in SUBSET Track
          OBVIOUS
        <5> HIDE DEF D
        <5>2. Selected(tops \o rest, D) = Selected(tops, D) \o Selected(rest, D)
          BY <5>1, <1>3, TracksSelected
        <5> QED BY <5>2 DEF D
      <4> QED BY <4>1, <1>3 DEF others
    <3>2. Selected(rest, Track \ {t}) = Selected(h, (Track \ gone) \cap (Track \ {t}))
      BY SelectedTwice
    <3>3. (Track \ gone) \cap (Track \ {t}) = Track \ ngone
      OBVIOUS
    <3>4. Selected(rest, Track \ {t}) = Selected(h, Track \ ngone)
      BY <3>2, <3>3
    <3>5. Selected(h, Track \ ngone) \in Seq(Track) /\ <<t>> \in Seq(Track)
      <4> HIDE DEF ngone
      <4>1. <<t>> \in Seq(Track)
        OBVIOUS
      <4> QED BY <4>1, SelectedType
    <3> HIDE DEF others, ngone
    <3>6. <<t>> \o (others \o Selected(h, Track \ ngone)) = ntops \o Selected(h, Track \ ngone)
      BY <2>1, <3>5, ConcatAssociative, SMTT(30)
    <3> QED BY <3>1, <3>4, <3>6 DEF Topped
  <2>5. PartOf(Reverse(ntops), more)
    BY <2>1, <1>5
  <2>6. once => /\ IsInjective(h) /\ IsInjective(ntops)
                /\ ngone = ToSet(ntops) /\ ToSet(ntops) = ToSet(more)
    BY <2>1, <1>2, <1>4 DEF Accounts
  <2> HIDE DEF ntops, ngone
  <2>7. Accounts(h, ntops, ngone, prev, <<t>> \o Selected(list, Track \ {t}), more, once)
    BY <2>3, <2>4, <2>5, <2>6, <1>3, <1>4 DEF Accounts
  <2> QED BY <2>1, <2>2, <2>7 DEF Continues
<1>7. ASSUME ~once PROVE Continues(prev, <<t>> \o list, more, once)
  <2> DEFINE ntops == <<t>> \o tops
  <2>1. /\ ntops \in Seq(Track) /\ ToSet(ntops) = {t} \cup ToSet(tops)
        /\ ntops[1] = t /\ ntops # <<>>
    <3>1. ntops \in Seq(Track) /\ Len(ntops) = Len(tops) + 1
      BY ConsIs
    <3> QED BY <3>1, ConsIs
  <2>2. gone \in SUBSET ToSet(ntops)
    BY <2>1
  <2>3. <<t>> \o list = Topped(h, ntops, gone)
    <3>1. <<t>> \in Seq(Track)
      OBVIOUS
    <3> QED BY <3>1, <1>3, ConcatAssociative DEF Topped
  <2>4. PartOf(Reverse(ntops), more)
    BY <1>5, PartOfBasics
  <2> HIDE DEF ntops
  <2>5. Accounts(h, ntops, gone, prev, <<t>> \o list, more, once)
    BY <2>1, <2>3, <2>4, <1>3, <1>4, <1>7 DEF Accounts
  <2> QED BY <2>1, <2>2, <2>5 DEF Continues
<1> QED BY <1>6, <1>7 DEF more

LEMMA RemoveAtIs ==
  ASSUME NEW s \in Seq(Track), NEW i \in DOMAIN s
  PROVE  /\ RemoveAt(s, i) \in Seq(Track)
         /\ IsInjective(s) => IsInjective(RemoveAt(s, i))
<1> DEFINE a == SubSeq(s, 1, i - 1)
           b == SubSeq(s, i + 1, Len(s))
           r == a \o b
           place == [j \in 1..(Len(s) - 1) |-> IF j < i THEN j ELSE j + 1]
<1>1. i \in 1..Len(s) /\ Len(s) \in Nat
  OBVIOUS
<1>2. /\ a \in Seq(Track) /\ Len(a) = i - 1 /\ \A j \in 1..(i - 1) : a[j] = s[j]
      /\ b \in Seq(Track) /\ Len(b) = Len(s) - i /\ \A j \in 1..(Len(s) - i) : b[j] = s[i + j]
  BY <1>1
<1> HIDE DEF a, b
<1>3. /\ r \in Seq(Track) /\ Len(r) = Len(s) - 1
      /\ \A j \in 1..(Len(s) - 1) : r[j] = IF j <= i - 1 THEN a[j] ELSE b[j - (i - 1)]
  <2>1. (i - 1) + (Len(s) - i) = Len(s) - 1
    BY <1>1
  <2>2. /\ r \in Seq(Track) /\ Len(r) = Len(a) + Len(b)
        /\ \A j \in 1..(Len(a) + Len(b)) : r[j] = IF j <= Len(a) THEN a[j] ELSE b[j - Len(a)]
    BY <1>2, ConcatProperties
  <2> HIDE DEF r
  <2> QED BY <2>1, <2>2, <1>2
<1> HIDE DEF r
<1>4. place \in [1..(Len(s) - 1) -> 1..Len(s)]
  BY <1>1
<1>5. \A j, k \in 1..(Len(s) - 1) : j < k => place[j] < place[k]
  BY <1>1
<1>6. \A j \in 1..(Len(s) - 1) : r[j] = s[place[j]]
  <2> TAKE j \in 1..(Len(s) - 1)
  <2>1. CASE j < i
    <3>1. j \in 1..(i - 1) /\ place[j] = j
      BY <2>1, <1>1
    <3> QED BY <3>1, <1>2, <1>3
  <2>2. CASE ~(j < i)
    <3>1. ~(j <= i - 1) /\ j - (i - 1) \in 1..(Len(s) - i) /\ place[j] = j + 1 /\ i + (j - (i - 1)) = j + 1
      BY <2>2, <1>1
    <3> QED BY <3>1, <1>2, <1>3
  <2> QED BY <2>1, <2>2
<1> HIDE DEF place
<1>7. PartOf(r, s)
  <2>1. DOMAIN r = 1..(Len(s) - 1) /\ DOMAIN s = 1..Len(s)
    BY <1>3
  <2> QED BY <2>1, <1>4, <1>5, <1>6 DEF PartOf
<1>8. RemoveAt(s, i) = r
  BY DEF RemoveAt, r, a, b
<1> QED BY <1>3, <1>7, <1>8, PartIsInjective

-----------------------------------------------------------------------------
(* What a comparison finds, when there is one thing to find.                *)

LEMMA SameSize ==
  ASSUME NEW n \in Nat, NEW S \in SUBSET (1..n), NEW T, NEW f \in [S -> T],
         \A a, b \in S : f[a] = f[b] => a = b,
         \A b \in T : \E a \in S : f[a] = b
  PROVE  Cardinality(S) = Cardinality(T)
<1>1. IsFiniteSet(S)
  BY RankGrows
<1>2. f \in Bijection(S, T)
  BY DEF Bijection, Injection, Surjection, IsInjective
<1> QED BY <1>1, <1>2, FS_Bijection DEF ExistsBijection

(* New entries on top of what is left of a list that has not so many that   *)
(* one of the new ones takes the place of one that is gone.                 *)
LEMMA FoundOnTop ==
  ASSUME NEW A, NEW prev \in Seq(A), NEW next \in Seq(A), NEW k \in 1..Len(next),
         k < Len(next) \/ Len(next) = 1,
         \A i \in 1..k : next[i] \notin ToSet(prev),
         \A i \in 1..Len(next) : i > k => i - k \in 1..Len(prev) /\ next[i] = prev[i - k],
         \A i \in 1..k : i <= Len(prev) => i + k <= Len(next)
  PROVE  /\ ~Bumped(prev, next)
         /\ Explained(prev, next) = [type |-> "prepend", plays |-> SubSeq(next, 1, k)]
<1> DEFINE n == Len(next)
           m == Len(prev)
<1>1. /\ n \in Nat /\ m \in Nat /\ DOMAIN next = 1..n /\ DOMAIN prev = 1..m /\ k \in 1..n /\ k \in Nat
      /\ n >= 1 /\ 1 \in 1..n /\ 1 \in 1..k
  OBVIOUS
<1>2. \A i \in 1..k : i \in 1..n /\ Status(prev, next, i) = "added"
  BY <1>1, StatusOfNew
<1>3. \A i \in 1..n : i > k => i - k \in Paired(prev, next, i)
  <2> SUFFICES ASSUME NEW i \in 1..n, i > k PROVE i - k \in Paired(prev, next, i)
    OBVIOUS
  <2> DEFINE S == { a \in 1..i : next[a] = next[i] }
             T == { b \in 1..(i - k) : prev[b] = prev[i - k] }
             f == [a \in S |-> a - k]
  <2>1. i - k \in 1..m /\ next[i] = prev[i - k] /\ prev[i - k] \in ToSet(prev)
    BY <1>1 DEF ToSet
  <2>2. \A a \in S : a \in 1..n /\ a > k
    <3> SUFFICES ASSUME NEW a \in S PROVE a \in 1..n /\ a > k
      OBVIOUS
    <3>1. a \in 1..n /\ next[a] = next[i]
      BY <1>1
    <3>2. a \notin 1..k
      BY <2>1, <3>1
    <3> QED BY <3>1, <3>2, <1>1
  <2>3. f \in [S -> T]
    <3> SUFFICES ASSUME NEW a \in S PROVE a - k \in T
      OBVIOUS
    <3>1. a \in 1..i /\ next[a] = next[i] /\ a > k /\ a \in 1..n
      BY <2>2
    <3>2. next[a] = prev[a - k] /\ a - k \in 1..(i - k)
      BY <3>1, <1>1
    <3> QED BY <3>1, <3>2, <2>1
  <2>4. \A a, b \in S : f[a] = f[b] => a = b
    OBVIOUS
  <2>5. \A b \in T : \E a \in S : f[a] = b
    <3> SUFFICES ASSUME NEW b \in T PROVE b + k \in S /\ (b + k) - k = b
      OBVIOUS
    <3>1. b + k \in 1..i /\ b + k \in 1..n /\ b + k > k /\ (b + k) - k = b
      BY <1>1
    <3>2. next[b + k] = prev[b]
      BY <3>1
    <3> QED BY <3>1, <3>2, <2>1
  <2>6. Occurrence(next, i) = Occurrence(prev, i - k)
    <3>1. i \in Nat /\ S \in SUBSET (1..i)
      OBVIOUS
    <3>2. Occurrence(next, i) = Cardinality(S) /\ Occurrence(prev, i - k) = Cardinality(T)
      BY DEF Occurrence
    <3> HIDE DEF f, S, T
    <3>3. Cardinality(S) = Cardinality(T)
      BY <3>1, <2>3, <2>4, <2>5, SameSize
    <3> QED BY <3>2, <3>3
  <2> QED BY <2>1, <2>6, <1>1 DEF Paired
<1>4. \A i \in 1..n : i > k => Status(prev, next, i) = "moved"
  <2> SUFFICES ASSUME NEW i \in 1..n, i > k PROVE Status(prev, next, i) = "moved"
    OBVIOUS
  <2>1. i - k \in Paired(prev, next, i) /\ i # i - k /\ i \in DOMAIN next
    BY <1>1, <1>3
  <2> QED BY <2>1, StatusOfPair
<1>5. \A i \in 1..k : IndexState(prev, next, i) = "added"
  <2> SUFFICES ASSUME NEW i \in 1..k, Deleted(prev, next, i) PROVE FALSE
    BY <1>2 DEF IndexState
  <2>1. i \in 1..m /\ \A j \in 1..n : i \notin Paired(prev, next, j)
    BY <1>1 DEF Deleted
  <2>2. i + k \in 1..n /\ i + k > k /\ (i + k) - k = i
    BY <2>1, <1>1
  <2> QED BY <2>1, <2>2, <1>3
<1>6. \A i \in 1..n : i > k => IndexState(prev, next, i) = "moved"
  BY <1>4 DEF IndexState
<1>7. ~\E i \in 1..n : \/ IndexState(prev, next, i) = "replaced"
                       \/ AddedApart(prev, next, i)
  <2> SUFFICES ASSUME NEW i \in 1..n
               PROVE  IndexState(prev, next, i) # "replaced" /\ ~AddedApart(prev, next, i)
    OBVIOUS
  <2>1. CASE i \in 1..k
    <3>1. i \in 2..n => i - 1 \in 1..k
      BY <1>1, <2>1
    <3>2. i \in 2..n => IndexState(prev, next, i - 1) = "added"
      BY <3>1, <1>5
    <3>3. i \in 2..(n - 1) => i \in 2..n
      BY <1>1
    <3>4. Status(prev, next, 1) = "added"
      BY <1>1, <1>2
    <3> HIDE DEF n
    <3> QED BY <3>2, <3>3, <3>4, <2>1, <1>5 DEF AddedApart, n
  <2>2. CASE i \notin 1..k
    <3>1. i > k
      BY <2>2, <1>1
    <3> QED BY <3>1, <1>4, <1>6 DEF AddedApart
  <2> QED BY <2>1, <2>2
<1>8. { i \in 1..n : Status(prev, next, i) = "added" } = 1..k
  <2>1. \A i \in 1..n : i \in 1..k \/ i > k
    BY <1>1
  <2> QED BY <2>1, <1>2, <1>4
<1>9. Selected([i \in 1..n |-> i], 1..k) = [i \in 1..k |-> i]
  <2>1. k \in 0..n
    BY <1>1
  <2> HIDE DEF n
  <2> QED BY <2>1, <1>1, SelectedInitial
<1>10. prev # next
  BY <1>1 DEF ToSet
<1>11. ~Bumped(prev, next)
  <2>1. Unexplained.type # "prepend" /\ Status(prev, next, 1) = "added" /\ 1 \in 1..n
    BY <1>1, <1>2 DEF Unexplained
  <2> QED BY <2>1 DEF Bumped, PlaysAreBumpedOnly
<1>12. PlaysAreBumpedOnly(prev, next).type = "none"
  <2>1. Unexplained.type = "none" /\ Status(prev, next, 1) = "added" /\ 1 \in 1..n
    BY <1>1, <1>2 DEF Unexplained
  <2> QED BY <2>1 DEF PlaysAreBumpedOnly
<1>13. PlaysAreAddedOnly(prev, next) = [type |-> "prepend", plays |-> SubSeq(next, 1, k)]
  <2> DEFINE P == { i \in 1..n : Status(prev, next, i) = "added" }
             new == Selected([i \in 1..n |-> i], P)
             apart == \E i \in 1..n : \/ IndexState(prev, next, i) = "replaced"
                                      \/ AddedApart(prev, next, i)
             plays == [i \in DOMAIN new |-> next[new[i]]]
  <2>1. PlaysAreAddedOnly(prev, next) =
          IF prev = next \/ new = <<>> \/ apart \/ {1, n} \cap ToSet(new) = {}
          THEN Unexplained
          ELSE [type |-> IF n > 1 /\ n \in ToSet(new) THEN "append" ELSE "prepend", plays |-> plays]
    BY DEF PlaysAreAddedOnly
  <2>2. ~apart
    BY <1>7
  <2> HIDE DEF apart
  <2>3. new = [i \in 1..k |-> i]
    BY <1>8, <1>9
  <2> HIDE DEF new, P
  <2>4. DOMAIN new = 1..k /\ ToSet(new) = 1..k /\ new # <<>>
    <3>1. DOMAIN new = 1..k /\ \A i \in 1..k : new[i] = i
      BY <2>3
    <3> QED BY <3>1, <1>1 DEF ToSet
  <2>5. plays = [i \in 1..k |-> next[i]]
    BY <2>3, <2>4
  <2>6. SubSeq(next, 1, k) = [i \in 1..k |-> next[i]]
    BY <1>1
  <2>7. ~(n > 1 /\ n \in 1..k)
    BY <1>1
  <2>8. {1, n} \cap (1..k) # {}
    BY <1>1
  <2> HIDE DEF plays, n
  <2> QED BY <2>1, <2>2, <2>4, <2>5, <2>6, <2>7, <2>8, <1>10
<1> QED BY <1>11, <1>12, <1>13 DEF Explained

(* One entry that was further down is on top, the others in their order.    *)
LEMMA FoundMoved ==
  ASSUME NEW A, NEW prev \in Seq(A), NEW next \in Seq(A), Len(next) = Len(prev),
         NEW p \in 2..Len(prev),
         \A j \in 1..Len(prev) : prev[j] = prev[p] => j = p,
         next[1] = prev[p],
         \A i \in 2..Len(prev) : next[i] = IF i <= p THEN prev[i - 1] ELSE prev[i]
  PROVE  /\ Bumped(prev, next)
         /\ Explained(prev, next) = [type |-> "prepend", plays |-> <<next[1]>>]
<1> DEFINE n == Len(prev)
           from(i) == IF i = 1 THEN p ELSE IF i <= p THEN i - 1 ELSE i
<1>1. /\ n \in Nat /\ DOMAIN next = 1..n /\ DOMAIN prev = 1..n /\ p \in 2..n /\ p \in Nat
      /\ p >= 2 /\ 1 \in 1..n /\ Len(next) = n
  OBVIOUS
<1>2. \A i \in 1..n : /\ from(i) \in 1..n /\ next[i] = prev[from(i)]
                      /\ i > 1 => from(i) # p
  BY <1>1
<1>3. \A i \in 1..n : from(i) \in Paired(prev, next, i)
  <2> SUFFICES ASSUME NEW i \in 1..n PROVE from(i) \in Paired(prev, next, i)
    OBVIOUS
  <2> DEFINE j == from(i)
             S == { a \in 1..i : next[a] = next[i] }
             T == { b \in 1..j : prev[b] = prev[j] }
             f == [a \in S |-> from(a)]
  <2>1. j \in 1..n /\ next[i] = prev[j]
    BY <1>2
  <2>2. CASE i = 1
    <3>1. j = p /\ S = {1} /\ T = {p}
      BY <2>2, <1>1
    <3>2. f \in [S -> T] /\ f[1] = p
      BY <3>1
    <3>3. (\A a, b \in S : f[a] = f[b] => a = b) /\ (\A b \in T : \E a \in S : f[a] = b)
      BY <3>1, <3>2
    <3>4. Occurrence(next, i) = Occurrence(prev, j)
      <4>1. i \in Nat /\ S \in SUBSET (1..i)
        OBVIOUS
      <4>2. Occurrence(next, i) = Cardinality(S) /\ Occurrence(prev, j) = Cardinality(T)
        BY DEF Occurrence
      <4> HIDE DEF j, f, S, T
      <4>3. Cardinality(S) = Cardinality(T)
        BY <4>1, <3>2, <3>3, SameSize
      <4> QED BY <4>2, <4>3
    <3> QED BY <3>4, <2>1, <1>1 DEF Paired
  <2>3. CASE i > 1
    <3>1. next[i] # prev[p] /\ j # p /\ j = (IF i <= p THEN i - 1 ELSE i)
      BY <2>1, <2>3, <1>1, <1>2
    <3>2. \A a \in S : a \in 2..i /\ a \in 1..n /\ next[a] = next[i]
      <4> SUFFICES ASSUME NEW a \in S PROVE a \in 2..i /\ a \in 1..n /\ next[a] = next[i]
        OBVIOUS
      <4>1. a \in 1..i /\ next[a] = next[i] /\ a # 1
        BY <3>1
      <4> QED BY <4>1, <1>1
    <3>3. f \in [S -> T]
      <4> SUFFICES ASSUME NEW a \in S PROVE from(a) \in T
        OBVIOUS
      <4>1. a \in 2..i /\ a \in 1..n /\ next[a] = next[i]
        BY <3>2
      <4>2. from(a) = (IF a <= p THEN a - 1 ELSE a) /\ next[a] = prev[from(a)]
        BY <4>1, <1>1, <1>2
      <4>3. from(a) \in 1..j
        BY <4>1, <4>2, <3>1, <1>1
      <4> QED BY <4>1, <4>2, <4>3, <2>1
    <3>4. \A a, b \in S : f[a] = f[b] => a = b
      <4> SUFFICES ASSUME NEW a \in S, NEW b \in S, from(a) = from(b) PROVE a = b
        OBVIOUS
      <4>1. a \in 2..i /\ b \in 2..i
        BY <3>2
      <4> QED BY <4>1, <1>1, <3>2, <1>2
    <3>5. \A b \in T : \E a \in S : f[a] = b
      <4> SUFFICES ASSUME NEW b \in T PROVE \E a \in S : from(a) = b
        OBVIOUS
      <4>1. b \in 1..j /\ prev[b] = prev[j] /\ b # p /\ b \in 1..n
        BY <2>1, <3>1, <1>1
      <4>2. CASE b < p
        <5>1. b + 1 \in 2..p /\ b + 1 \in 1..i /\ from(b + 1) = b /\ b + 1 \in 1..n
          BY <4>1, <4>2, <3>1, <1>1
        <5>2. b + 1 \in S
          BY <5>1, <4>1, <2>1, <1>2
        <5> QED BY <5>1, <5>2
      <4>3. CASE b > p
        <5>1. b \in 1..i /\ from(b) = b
          BY <4>1, <4>3, <3>1, <1>1
        <5>2. b \in S
          BY <5>1, <4>1, <2>1, <1>2
        <5> QED BY <5>1, <5>2
      <4> QED BY <4>1, <4>2, <4>3, <1>1
    <3>6. Occurrence(next, i) = Occurrence(prev, j)
      <4>1. i \in Nat /\ S \in SUBSET (1..i)
        OBVIOUS
      <4>2. Occurrence(next, i) = Cardinality(S) /\ Occurrence(prev, j) = Cardinality(T)
        BY DEF Occurrence
      <4> HIDE DEF j, f, S, T
      <4>3. Cardinality(S) = Cardinality(T)
        BY <4>1, <3>3, <3>4, <3>5, SameSize, ZenonT(30)
      <4> QED BY <4>2, <4>3
    <3> QED BY <3>6, <2>1, <1>1 DEF Paired
  <2> QED BY <2>2, <2>3, <1>1
<1> HIDE DEF n
<1>4. \A i \in 1..n : /\ Shift(prev, next, i) = i - from(i)
                      /\ Status(prev, next, i) = IF i = from(i) THEN "equal" ELSE "moved"
  <2> SUFFICES ASSUME NEW i \in 1..n
               PROVE  /\ Shift(prev, next, i) = i - from(i)
                      /\ Status(prev, next, i) = IF i = from(i) THEN "equal" ELSE "moved"
    OBVIOUS
  <2> DEFINE j == from(i)
  <2>1. j \in Paired(prev, next, i) /\ i \in DOMAIN next
    BY <1>1, <1>3
  <2> HIDE DEF j
  <2>2. /\ Shift(prev, next, i) = i - j
        /\ Status(prev, next, i) = IF i = j THEN "equal" ELSE "moved"
    BY <2>1, StatusOfPair
  <2> QED BY <2>2 DEF j
<1>5. Status(prev, next, 1) = "moved"
  BY <1>1, <1>4
<1>6. \A i \in 2..(n - 1) : BumpShifts(prev, next, i)
  <2> SUFFICES ASSUME NEW i \in 2..(n - 1) PROVE BumpShifts(prev, next, i)
    OBVIOUS
  <2>1. i \in 1..n /\ i - 1 \in 1..n /\ (i > 2 => i - 1 > 1)
    BY <1>1
  <2>2. Shift(prev, next, i) \in {-1, 0, 1}
    BY <2>1, <1>1, <1>4
  <2>3. i > 2 /\ Status(prev, next, i) = "moved" => i <= p
    BY <2>1, <1>1, <1>4
  <2>4. i > 2 /\ i <= p => Status(prev, next, i - 1) = "moved"
    BY <2>1, <1>1, <1>4
  <2>5. i > 2 => ~(Status(prev, next, i - 1) = "equal" /\ Status(prev, next, i) = "moved")
    BY <2>3, <2>4
  <2> QED BY <2>2, <2>5, <1>5 DEF BumpShifts
<1>7. prev # next
  BY <1>1
<1>8. \A i \in 1..n : Status(prev, next, i) # "added"
  BY <1>4
<1>9. PlaysAreBumpedOnly(prev, next) = [type |-> "prepend", plays |-> <<next[1]>>]
  BY <1>1, <1>5, <1>6, <1>7, <1>8 DEF PlaysAreBumpedOnly
<1> QED BY <1>9 DEF Bumped, Explained

LEMMA SplitAround ==
  ASSUME NEW s \in Seq(Track), NEW p \in 1..Len(s)
  PROVE  s = SubSeq(s, 1, p - 1) \o (<<s[p]>> \o SubSeq(s, p + 1, Len(s)))
<1> DEFINE a == SubSeq(s, 1, p - 1)
           b == SubSeq(s, p + 1, Len(s))
           n == Len(s)
           c == <<s[p]>> \o b
<1>1. n \in Nat /\ p \in 1..n /\ p \in Nat /\ s[p] \in Track /\ s \in Seq(Track)
  OBVIOUS
<1>2. /\ a \in Seq(Track) /\ Len(a) = p - 1 /\ \A i \in 1..(p - 1) : a[i] = s[i]
      /\ b \in Seq(Track) /\ Len(b) = n - p /\ \A i \in 1..(n - p) : b[i] = s[p + i]
  OBVIOUS
<1> HIDE DEF a, b
<1>3. /\ c \in Seq(Track) /\ Len(c) = n - p + 1 /\ c[1] = s[p]
      /\ \A i \in 1..(n - p) : c[i + 1] = b[i]
  <2>1. s[p] \in Track /\ b \in Seq(Track) /\ Len(b) = n - p
    BY <1>1, <1>2
  <2>2. Len(b) + 1 = n - p + 1
    BY <2>1
  <2> DEFINE x == s[p]
  <2> HIDE DEF x, n
  <2>3. /\ <<x>> \o b \in Seq(Track) /\ Len(<<x>> \o b) = n - p + 1 /\ (<<x>> \o b)[1] = x
        /\ \A i \in 1..(n - p) : (<<x>> \o b)[i + 1] = b[i]
    BY <2>1, <2>2, ConsIs DEF x
  <2> QED BY <2>3 DEF x
<1> HIDE DEF c
<1>4. /\ a \o c \in Seq(Track) /\ Len(a \o c) = Len(a) + Len(c)
      /\ \A i \in 1..(Len(a) + Len(c)) : (a \o c)[i] = IF i <= Len(a) THEN a[i] ELSE c[i - Len(a)]
  <2>1. \A u, v \in Seq(Track) :
          /\ u \o v \in Seq(Track) /\ Len(u \o v) = Len(u) + Len(v)
          /\ \A i \in 1..(Len(u) + Len(v)) : (u \o v)[i] = IF i <= Len(u) THEN u[i] ELSE v[i - Len(u)]
    BY ConcatProperties
  <2>2. a \in Seq(Track) /\ c \in Seq(Track)
    BY <1>2, <1>3
  <2> QED BY <2>1, <2>2
<1>5. Len(a) + Len(c) = n
  <2>1. Len(a) = p - 1 /\ Len(c) = n - p + 1
    BY <1>2, <1>3
  <2>2. (p - 1) + (n - p + 1) = n
    BY <1>1
  <2> QED BY <2>1, <2>2
<1>6. \A i \in 1..n : (a \o c)[i] = s[i]
  <2> TAKE i \in 1..n
  <2>0. i \in 1..(Len(a) + Len(c)) /\ i \in Nat
    BY <1>1, <1>5
  <2>1. CASE i <= p - 1
    <3>1. i \in 1..(p - 1) /\ i <= Len(a)
      BY <1>1, <1>2, <2>1
    <3> QED BY <3>1, <2>0, <1>2, <1>4
  <2>2. CASE i = p
    <3>1. ~(i <= Len(a)) /\ i - Len(a) = 1
      BY <1>1, <1>2, <2>2
    <3> QED BY <3>1, <2>0, <2>2, <1>3, <1>4
  <2>3. CASE i > p
    <3>1. ~(i <= Len(a)) /\ i - p \in 1..(n - p) /\ i - Len(a) = (i - p) + 1 /\ p + (i - p) = i
      BY <1>1, <1>2, <2>3
    <3>2. (a \o c)[i] = c[(i - p) + 1]
      BY <3>1, <2>0, <1>4
    <3>3. c[(i - p) + 1] = b[i - p]
      BY <3>1, <1>3
    <3>4. b[i - p] = s[p + (i - p)]
      BY <3>1, <1>2
    <3> QED BY <3>1, <3>2, <3>3, <3>4
  <2>4. i <= p - 1 \/ i = p \/ i > p
    BY <1>1
  <2> QED BY <2>1, <2>2, <2>3, <2>4
<1>7. s = a \o c
  BY <1>1, <1>4, <1>5, <1>6, SeqEqual
<1> QED BY <1>7 DEF a, b, c

(* A list without one of its entries, when nothing else is left out.        *)
LEMMA WithoutOne ==
  ASSUME NEW s \in Seq(Track), NEW p \in 1..Len(s), NEW t \in Track, t = s[p],
         NEW D \in SUBSET Track, D = Track \ {t},
         NEW others \in Seq(Track), others = Selected(s, D),
         IsInjective(s) \/ Len(others) >= Len(s) - 1
  PROVE  /\ others \in Seq(Track) /\ Len(others) = Len(s) - 1
         /\ \A j \in 1..Len(s) : s[j] = t => j = p
         /\ \A i \in 1..(Len(s) - 1) : others[i] = IF i < p THEN s[i] ELSE s[i + 1]
<1> DEFINE a == SubSeq(s, 1, p - 1)
           b == SubSeq(s, p + 1, Len(s))
           c == <<t>> \o b
           sa == Selected(a, D)
           sb == Selected(b, D)
           n == Len(s)
<1>1. n \in Nat /\ p \in 1..n /\ p \in Nat /\ t \in Track
  OBVIOUS
<1>2. /\ a \in Seq(Track) /\ Len(a) = p - 1 /\ \A i \in 1..(p - 1) : a[i] = s[i]
      /\ b \in Seq(Track) /\ Len(b) = n - p /\ \A i \in 1..(n - p) : b[i] = s[p + i]
  BY <1>1
<1>3. s = a \o c
  BY SplitAround
<1> HIDE DEF a, b, n
<1>4. others = sa \o sb
  <2>1. D \in SUBSET Track /\ a \in Seq(Track) /\ b \in Seq(Track)
    BY <1>2
  <2> DEFINE one == <<t>>
  <2>2. one \in Seq(Track) /\ c \in Seq(Track) /\ c = one \o b
    BY <1>1, <2>1, ConsIs
  <2>3. Selected(one, D) = <<>>
    BY SelectedOne
  <2> HIDE DEF c, one
  <2>4. \A u, v \in Seq(Track) : Selected(u \o v, D) = Selected(u, D) \o Selected(v, D)
    BY TracksSelected
  <2>5. Selected(a \o c, D) = Selected(a, D) \o Selected(c, D)
    BY <2>1, <2>2, <2>4
  <2>6. Selected(one \o b, D) = Selected(one, D) \o Selected(b, D)
    BY <2>1, <2>2, <2>4
  <2>7. Selected(b, D) \in Seq(Track)
    BY <2>1, SelectedType
  <2>8. <<>> \o Selected(b, D) = Selected(b, D)
    BY <2>7, ConcatEmptySeq
  <2>9. Selected(c, D) = Selected(b, D)
    BY <2>2, <2>3, <2>6, <2>8
  <2> QED BY <2>5, <2>9, <1>3
<1>5. /\ sa \in Seq(Track) /\ Len(sa) <= Len(a) /\ (Len(sa) = Len(a) => sa = a)
      /\ sb \in Seq(Track) /\ Len(sb) <= Len(b) /\ (Len(sb) = Len(b) => sb = b)
      /\ ToSet(sa) = ToSet(a) \cap D /\ ToSet(sb) = ToSet(b) \cap D
  BY <1>2, SelectedType, SelectedEntries
<1>6. sa = a /\ sb = b
  <2>1. CASE IsInjective(s)
    <3>1. \A i, j \in 1..n : s[i] = s[j] => i = j
      BY <2>1 DEF IsInjective, n
    <3>2. t \notin ToSet(a)
      <4> SUFFICES ASSUME t \in ToSet(a) PROVE FALSE
        OBVIOUS
      <4>1. PICK i \in 1..(p - 1) : a[i] = t
        BY <1>2 DEF ToSet
      <4>2. s[i] = s[p] /\ i \in 1..n /\ i # p
        BY <4>1, <1>1, <1>2
      <4> QED BY <4>2, <3>1, <1>1
    <3>3. t \notin ToSet(b)
      <4> SUFFICES ASSUME t \in ToSet(b) PROVE FALSE
        OBVIOUS
      <4>1. PICK i \in 1..(n - p) : b[i] = t
        BY <1>2 DEF ToSet
      <4>2. s[p + i] = s[p] /\ p + i \in 1..n /\ p + i # p
        BY <4>1, <1>1, <1>2
      <4> QED BY <4>2, <3>1, <1>1
    <3>4. ToSet(a) \subseteq D /\ ToSet(b) \subseteq D
      <4>1. ToSet(a) \subseteq Track /\ ToSet(b) \subseteq Track
        BY <1>2 DEF ToSet
      <4> QED BY <4>1, <3>2, <3>3
    <3> QED BY <3>4, <1>2, SelectedAll
  <2>2. CASE Len(others) >= Len(s) - 1
    <3> DEFINE x == Len(sa)
               y == Len(sb)
    <3>1. Len(others) = x + y
      <4> HIDE DEF sa, sb
      <4> QED BY <1>4, <1>5, ConcatProperties
    <3>2. x \in Nat /\ y \in Nat /\ x <= p - 1 /\ y <= n - p
      <4> HIDE DEF sa, sb
      <4>1. sa \in Seq(Track) /\ sb \in Seq(Track)
        BY <1>5
      <4> QED BY <4>1, <1>2, <1>5
    <3>3. x + y >= n - 1
      BY <3>1, <2>2 DEF n
    <3> HIDE DEF x, y
    <3>4. x = p - 1 /\ y = n - p
      BY <3>2, <3>3, <1>1
    <3> QED BY <3>4, <1>2, <1>5 DEF x, y
  <2> QED BY <2>1, <2>2
<1>7. t \notin ToSet(a) /\ t \notin ToSet(b)
  BY <1>5, <1>6
<1>8. others = a \o b
  BY <1>4, <1>6
<1> HIDE DEF sa, sb, c
<1>9. /\ others \in Seq(Track) /\ Len(others) = n - 1
      /\ \A i \in 1..(n - 1) : others[i] = IF i <= p - 1 THEN a[i] ELSE b[i - (p - 1)]
  <2>0. a \in Seq(Track) /\ b \in Seq(Track)
    BY <1>2
  <2>1. /\ a \o b \in Seq(Track) /\ Len(a \o b) = Len(a) + Len(b)
        /\ \A i \in 1..(Len(a) + Len(b)) : (a \o b)[i] = IF i <= Len(a) THEN a[i] ELSE b[i - Len(a)]
    BY <2>0, ConcatProperties
  <2>2. (p - 1) + (n - p) = n - 1
    BY <1>1
  <2> QED BY <2>1, <2>2, <1>2, <1>8
<1>10. \A i \in 1..(n - 1) : others[i] = IF i < p THEN s[i] ELSE s[i + 1]
  <2> TAKE i \in 1..(n - 1)
  <2>1. CASE i < p
    <3>1. i \in 1..(p - 1) /\ i <= p - 1
      BY <1>1, <2>1
    <3> QED BY <3>1, <2>1, <1>2, <1>9
  <2>2. CASE ~(i < p)
    <3>1. ~(i <= p - 1) /\ i - (p - 1) \in 1..(n - p) /\ p + (i - (p - 1)) = i + 1
      BY <1>1, <2>2
    <3> QED BY <3>1, <2>2, <1>2, <1>9
  <2> QED BY <2>1, <2>2
<1>11. \A j \in 1..n : s[j] = t => j = p
  <2> SUFFICES ASSUME NEW j \in 1..n, s[j] = t, j # p PROVE FALSE
    OBVIOUS
  <2>1. CASE j < p
    <3>1. j \in 1..(p - 1) /\ a[j] = t /\ j \in DOMAIN a
      BY <2>1, <1>1, <1>2
    <3> QED BY <3>1, <1>7 DEF ToSet
  <2>2. CASE j > p
    <3>1. j - p \in 1..(n - p) /\ p + (j - p) = j
      BY <2>2, <1>1
    <3>2. b[j - p] = t /\ j - p \in DOMAIN b
      BY <3>1, <1>2
    <3> QED BY <3>2, <1>7 DEF ToSet
  <2>3. j < p \/ j > p
    BY <1>1
  <2> QED BY <2>1, <2>2, <2>3
<1> QED BY <1>9, <1>10, <1>11 DEF n

LEMMA ReverseTwice ==
  ASSUME NEW s \in Seq(Track)
  PROVE  Reverse(Reverse(s)) = s
<1> DEFINE r == Reverse(s)
           n == Len(s)
<1>1. r \in Seq(Track) /\ Len(r) = n /\ \A i \in 1..n : r[i] = s[n - i + 1]
  BY ReverseIs
<1> HIDE DEF r
<1>2. Reverse(r) \in Seq(Track) /\ Len(Reverse(r)) = n /\ \A i \in 1..n : Reverse(r)[i] = r[n - i + 1]
  BY <1>1, ReverseIs
<1>3. \A i \in 1..n : Reverse(r)[i] = s[i]
  <2> TAKE i \in 1..n
  <2>1. n - i + 1 \in 1..n /\ n - (n - i + 1) + 1 = i
    OBVIOUS
  <2> QED BY <2>1, <1>1, <1>2
<1>4. Reverse(r) = s
  BY <1>2, <1>3, SeqEqual
<1> QED BY <1>4 DEF r

(* Tracks that are new to the list.                                         *)
LEMMA NewAnswer ==
  ASSUME SnapshotTypeOK, seen # <<>>, since # <<>>, ToSet(since) \cap ToSet(seen) = {},
         Len(seen) + Len(since) <= Limit \/ 2 * Len(since) <= Limit,
         NEW plays, plays = Window(Reverse(since) \o seen), ~Reverted(plays)
  PROVE  IncomingHistory(plays) = since
<1> DEFINE r == Reverse(since)
           k == Len(since)
           n == Len(plays)
           m == Len(seen)
           list == r \o seen
<1>1. /\ seen \in Seq(Track) /\ since \in Seq(Track) /\ k \in Nat /\ m \in Nat /\ k >= 1 /\ m >= 1
      /\ Limit \in Nat
  <2>1. seen \in Seq(Track) /\ since \in Seq(Track) /\ Limit \in Nat
    BY SnapshotAssumption DEF SnapshotTypeOK
  <2> QED BY <2>1, FirstOnly
<1>2. r \in Seq(Track) /\ Len(r) = k /\ ToSet(r) = ToSet(since)
  BY <1>1, ReverseIs
<1>3. Reverse(r) = since
  BY <1>1, ReverseTwice
<1> HIDE DEF r, k, m
<1>4. /\ list \in Seq(Track) /\ Len(list) = k + m
      /\ \A i \in 1..(k + m) : list[i] = IF i <= k THEN r[i] ELSE seen[i - k]
  BY <1>1, <1>2, ConcatProperties, ZenonT(30) DEF m
<1>5. plays = Window(list)
  BY DEF r
<1> HIDE DEF list
<1>6. /\ plays \in Seq(Track) /\ n \in Nat /\ n <= k + m
      /\ k + m <= Limit => n = k + m
      /\ k + m > Limit => n = Limit
      /\ \A i \in 1..n : plays[i] = list[i]
  BY <1>4, <1>5, WindowIs
<1>7. m + k <= Limit \/ 2 * k <= Limit
  BY DEF m, k
<1> HIDE DEF n
<1>8. /\ k \in 1..n /\ k < n /\ \A i \in 1..k : i <= m => i + k <= n
  BY <1>1, <1>6, <1>7
<1>9. \A i \in 1..k : plays[i] = r[i] /\ plays[i] \in ToSet(r)
  <2> TAKE i \in 1..k
  <2>1. i \in 1..n /\ i \in 1..(k + m) /\ i <= k /\ i \in 1..Len(r)
    BY <1>1, <1>2, <1>6, <1>8
  <2> QED BY <2>1, <1>2, <1>4, <1>6 DEF ToSet
<1>10. \A i \in 1..n : i > k => i - k \in 1..m /\ plays[i] = seen[i - k]
  <2> SUFFICES ASSUME NEW i \in 1..n, i > k PROVE i - k \in 1..m /\ plays[i] = seen[i - k]
    OBVIOUS
  <2>1. i \in 1..(k + m) /\ ~(i <= k) /\ i - k \in 1..m
    BY <1>1, <1>6
  <2> QED BY <2>1, <1>4, <1>6
<1>11. /\ ~Bumped(seen, plays)
       /\ Explained(seen, plays) = [type |-> "prepend", plays |-> SubSeq(plays, 1, k)]
  <2>1. \A i \in 1..k : plays[i] \notin ToSet(seen)
    BY <1>2, <1>9
  <2>2. /\ k \in 1..Len(plays) /\ k < Len(plays)
        /\ \A i \in 1..Len(plays) : i > k => i - k \in 1..Len(seen) /\ plays[i] = seen[i - k]
        /\ \A i \in 1..k : i <= Len(seen) => i + k <= Len(plays)
        /\ seen \in Seq(Track) /\ plays \in Seq(Track)
    BY <1>1, <1>6, <1>8, <1>10 DEF n, m
  <2> QED BY <2>1, <2>2, FoundOnTop
<1>12. SubSeq(plays, 1, k) = r
  <2>1. /\ SubSeq(plays, 1, k) \in Seq(Track) /\ Len(SubSeq(plays, 1, k)) = k
        /\ \A i \in 1..k : SubSeq(plays, 1, k)[i] = plays[i]
    BY <1>6, <1>8 DEF n
  <2>2. \A i \in 1..Len(r) : SubSeq(plays, 1, k)[i] = r[i]
    BY <2>1, <1>2, <1>9
  <2> QED BY <2>1, <2>2, <1>2, SeqEqual
<1>13. ~TopRebound(plays) /\ seen # plays
  <2>1. 1 \in 1..k /\ 1 \in 1..m
    BY <1>1
  <2>2. plays[1] \in ToSet(since)
    BY <2>1, <1>2, <1>9
  <2>3. seen[1] \in ToSet(seen)
    BY <2>1, <1>1 DEF m, ToSet
  <2>4. seen[1] # plays[1]
    BY <2>2, <2>3
  <2> QED BY <2>4 DEF TopRebound
<1>14. Explained(seen, plays).type = "prepend" /\ Explained(seen, plays).plays = r
  BY <1>11, <1>12
<1>15. Added(Explained(seen, plays), plays) = since
  BY <1>3, <1>14 DEF Added
<1> QED BY <1>11, <1>13, <1>15 DEF IncomingHistory

(* A track that is listened to again.                                       *)
LEMMA AgainAnswer ==
  ASSUME SnapshotTypeOK, NEW t \in Track, t \in ToSet(seen),
         NEW D \in SUBSET Track, D = Track \ {t},
         NEW others \in Seq(Track), others = Selected(seen, D)
  PROVE  \A plays \in Seq(Track) :
           plays = <<t>> \o others /\ plays # seen /\ Len(plays) = Len(seen) =>
             IncomingHistory(plays) = <<t>>
<1> DEFINE n == Len(seen)
<1>1. seen \in Seq(Track) /\ n \in Nat
  BY DEF SnapshotTypeOK
<1>2. PICK p \in 1..n : seen[p] = t
  <2>1. \A s \in Seq(Track) : \A x \in ToSet(s) : \E p \in 1..Len(s) : s[p] = x
    BY DEF ToSet
  <2> QED BY <2>1, <1>1
<1>3. ASSUME Len(others) >= Len(seen) - 1
      PROVE  /\ Len(others) = n - 1
             /\ \A j \in 1..n : seen[j] = t => j = p
             /\ \A i \in 1..(n - 1) : others[i] = IF i < p THEN seen[i] ELSE seen[i + 1]
  <2>1. p \in 1..Len(seen) /\ t = seen[p]
    BY <1>2
  <2>2. Len(others) = n - 1
    BY <2>1, <1>1, <1>3, WithoutOne
  <2>3. \A j \in 1..n : seen[j] = t => j = p
    BY <2>1, <1>1, <1>3, WithoutOne
  <2>4. \A i \in 1..(n - 1) : others[i] = IF i < p THEN seen[i] ELSE seen[i + 1]
    BY <2>1, <1>1, <1>3, WithoutOne
  <2> QED BY <2>2, <2>3, <2>4
<1> SUFFICES ASSUME NEW plays \in Seq(Track), plays = <<t>> \o others,
                    plays # seen, Len(plays) = Len(seen)
             PROVE  IncomingHistory(plays) = <<t>>
  OBVIOUS
<1>4. /\ plays \in Seq(Track) /\ Len(plays) = Len(others) + 1 /\ plays[1] = t
      /\ \A i \in 1..Len(others) : plays[i + 1] = others[i]
  BY ConsIs
<1>5. /\ Len(others) = n - 1
      /\ \A j \in 1..n : seen[j] = t => j = p
      /\ \A i \in 1..(n - 1) : others[i] = IF i < p THEN seen[i] ELSE seen[i + 1]
  <2>1. Len(others) \in Nat /\ Len(plays) = n
    OBVIOUS
  <2>2. Len(others) >= Len(seen) - 1
    <3> HIDE DEF n
    <3>1. Len(seen) = n
      BY DEF n
    <3> QED BY <2>1, <3>1, <1>1, <1>4
  <2> HIDE DEF n
  <2> QED BY <2>2, <1>3
<1>6. \A i \in 2..n : plays[i] = IF i <= p THEN seen[i - 1] ELSE seen[i]
  <2> TAKE i \in 2..n
  <2>1. i - 1 \in 1..(n - 1) /\ (i - 1) + 1 = i /\ (i - 1 < p <=> i <= p)
    BY <1>1
  <2>2. plays[i] = others[i - 1]
    BY <2>1, <1>4, <1>5
  <2> HIDE DEF n
  <2> QED BY <2>1, <2>2, <1>5
<1>7. p \in 2..n
  <2> SUFFICES ASSUME p = 1 PROVE FALSE
    BY <1>1
  <2>1. \A i \in 1..n : plays[i] = seen[i]
    <3> TAKE i \in 1..n
    <3>1. i = 1 \/ i \in 2..n
      OBVIOUS
    <3>2. i \in 2..n => ~(i <= p)
      OBVIOUS
    <3> QED BY <3>1, <3>2, <1>2, <1>4, <1>6
  <2> QED BY <2>1, <1>1, <1>4, SeqEqual
<1>8. /\ Bumped(seen, plays)
      /\ Explained(seen, plays) = [type |-> "prepend", plays |-> <<plays[1]>>]
  <2>1. /\ p \in 2..Len(seen) /\ Len(plays) = Len(seen) /\ plays[1] = seen[p]
        /\ \A j \in 1..Len(seen) : seen[j] = seen[p] => j = p
        /\ \A i \in 2..Len(seen) : plays[i] = IF i <= p THEN seen[i - 1] ELSE seen[i]
        /\ seen \in Seq(Track) /\ plays \in Seq(Track)
    BY <1>1, <1>2, <1>4, <1>5, <1>6, <1>7
  <2> QED BY <2>1, FoundMoved, ZenonT(30)
<1>9. ~TopRebound(plays)
  <2>1. 1 \in 1..n /\ 1 # p
    BY <1>1, <1>7
  <2>2. seen[1] # t /\ plays[1] = t
    BY <2>1, <1>4, <1>5
  <2> QED BY <2>2 DEF TopRebound
<1>10. Explained(seen, plays).plays = <<t>>
  <2>1. <<plays[1]>> = <<t>>
    BY <1>4
  <2>2. \A d, x : d = [type |-> "prepend", plays |-> x] => d.plays = x
    OBVIOUS
  <2>3. Explained(seen, plays).plays = <<plays[1]>>
    BY <2>2, <1>8
  <2> QED BY <2>1, <2>3
<1> QED BY <1>8, <1>9, <1>10 DEF IncomingHistory

(* What is on top of the history after a track and the one on top of it     *)
(* before were listened to.                                                 *)
LEMMA TwoOnTop ==
  ASSUME NEW tops \in Seq(Track), NEW x \in Track, NEW t \in Track, t # x,
         tops # <<>>, tops[1] = x, IsInjective(tops), ToSet(tops) = {t, x}
  PROVE  tops = <<x, t>>
<1> DEFINE n == Len(tops)
<1>1. n \in Nat /\ n >= 1 /\ DOMAIN tops = 1..n
  OBVIOUS
<1>2. \A i, j \in 1..n : tops[i] = tops[j] => i = j
  BY <1>1 DEF IsInjective
<1>3. PICK i \in 1..n : tops[i] = t
  BY <1>1 DEF ToSet
<1>4. \A j \in 1..n : tops[j] = t \/ tops[j] = x
  BY <1>1 DEF ToSet
<1>5. \A j \in 1..n : j = 1 \/ j = i
  BY <1>1, <1>2, <1>3, <1>4
<1> HIDE DEF n
<1>6. n = 2 /\ i = 2
  <2>1. i # 1
    BY <1>3
  <2>2. 2 \in 1..n
    BY <2>1, <1>1
  <2>3. i = 2
    BY <2>2, <1>5
  <2>4. 3 \notin 1..n
    BY <2>3, <1>5
  <2> QED BY <2>2, <2>3, <2>4, <1>1
<1>7. Len(tops) = 2 /\ tops[2] = t
  BY <1>3, <1>6 DEF n
<1>8. \A s \in Seq(Track) : Len(s) = 2 => s = <<s[1], s[2]>>
  OBVIOUS
<1> QED BY <1>7, <1>8

LEMMA TailIs ==
  ASSUME NEW A, NEW s \in Seq(A), s # <<>>
  PROVE  /\ Tail(s) \in Seq(A) /\ Len(Tail(s)) = Len(s) - 1
         /\ \A i \in 1..(Len(s) - 1) : Tail(s)[i] = s[i + 1]
  OBVIOUS

LEMMA FoundFirst ==
  ASSUME NEW prev \in Seq(Track), NEW next \in Seq(Track), next # <<>>,
         next[1] \notin ToSet(prev),
         \A i \in 2..Len(next) : i - 1 \in 1..Len(prev) /\ next[i] = prev[i - 1],
         1 <= Len(prev) => 2 <= Len(next)
  PROVE  Explained(prev, next) = [type |-> "prepend", plays |-> <<next[1]>>]
<1> DEFINE n == Len(next)
           m == Len(prev)
<1>1. n \in Nat /\ n >= 1 /\ m \in Nat
  OBVIOUS
<1> DEFINE k == 1
<1>2. /\ k \in 1..Len(next) /\ (k < Len(next) \/ Len(next) = 1)
      /\ \A i \in 1..k : i <= Len(prev) => i + k <= Len(next)
  <2>1. \A i \in 1..1 : i = 1
    OBVIOUS
  <2>2. 1 <= Len(prev) => 1 + 1 <= Len(next)
    OBVIOUS
  <2>3. \A i \in 1..k : i <= Len(prev) => i + k <= Len(next)
    BY <2>1, <2>2
  <2>4. 1 \in 1..Len(next) /\ (1 < Len(next) \/ Len(next) = 1)
    <3> HIDE DEF n
    <3>1. 1 \in 1..n /\ (1 < n \/ n = 1)
      BY <1>1
    <3> QED BY <3>1 DEF n
  <2> QED BY <2>3, <2>4
<1>3. \A i \in 1..k : next[i] \notin ToSet(prev)
  <2>1. \A i \in 1..1 : i = 1
    OBVIOUS
  <2> QED BY <2>1
<1>4. \A i \in 1..Len(next) : i > k => i - k \in 1..Len(prev) /\ next[i] = prev[i - k]
  <2> SUFFICES ASSUME NEW i \in 1..Len(next), i > 1
               PROVE  i - 1 \in 1..Len(prev) /\ next[i] = prev[i - 1]
    OBVIOUS
  <2>1. i \in 2..Len(next)
    BY <1>1
  <2> QED BY <2>1
<1> HIDE DEF k
<1>5. Explained(prev, next) = [type |-> "prepend", plays |-> SubSeq(next, 1, k)]
  BY <1>2, <1>3, <1>4, FoundOnTop
<1>6. Explained(prev, next) = [type |-> "prepend", plays |-> SubSeq(next, 1, 1)]
  BY <1>5 DEF k
<1>7. SubSeq(next, 1, 1) = <<next[1]>>
  BY FirstOnly
<1> QED BY <1>6, <1>7

(* A track is the q-th entry of T and no other, or q is beyond T, and the   *)
(* rest is the other entries.                                               *)
Placed(T, rest, t, q) ==
  /\ q >= 1 /\ \A j \in 1..Len(T) : T[j] = t <=> j = q
  /\ Len(rest) = IF q <= Len(T) THEN Len(T) - 1 ELSE Len(T)
  /\ \A i \in 1..Len(rest) : rest[i] = IF i < q THEN T[i] ELSE T[i + 1]

(* The first l entries of T, and those after the track is put first.        *)
Below(ps, pt, T, rest, t, l) ==
  /\ Len(ps) = IF Len(T) < l THEN Len(T) ELSE l
  /\ Len(pt) = IF 1 + Len(rest) < l THEN 1 + Len(rest) ELSE l
  /\ \A i \in 1..Len(ps) : ps[i] = T[i]
  /\ pt[1] = t /\ \A i \in 2..Len(pt) : pt[i] = rest[i - 1]

(* A track that is put first is found, whether it is new among these        *)
(* entries or further down.                                                 *)
LEMMA BelowTop ==
  ASSUME NEW T \in Seq(Track), NEW rest \in Seq(Track), NEW t \in Track,
         NEW q \in Nat, Placed(T, rest, t, q),
         NEW l \in Nat, l > 1, NEW ps \in Seq(Track), NEW pt \in Seq(Track), ps # pt,
         Below(ps, pt, T, rest, t, l)
  PROVE  Explained(ps, pt) = [type |-> "prepend", plays |-> <<t>>]
<1> DEFINE m == Len(ps)
           n == Len(pt)
           L == Len(T)
           R == Len(rest)
<1>1. /\ m \in Nat /\ n \in Nat /\ L \in Nat /\ R \in Nat /\ q >= 1
      /\ R = (IF q <= L THEN L - 1 ELSE L)
      /\ m = (IF L < l THEN L ELSE l) /\ n = (IF 1 + R < l THEN 1 + R ELSE l)
  BY DEF Placed, Below
<1>2. /\ \A j \in 1..L : T[j] = t <=> j = q
      /\ \A i \in 1..R : rest[i] = IF i < q THEN T[i] ELSE T[i + 1]
      /\ \A i \in 1..m : ps[i] = T[i]
      /\ pt[1] = t /\ \A i \in 2..n : pt[i] = rest[i - 1]
  BY DEF Placed, Below
<1> HIDE DEF m, n, L, R
<1>3. n >= 1
  BY <1>1
<1>4. <<pt[1]>> = <<t>> /\ SubSeq(pt, 1, 1) = <<t>>
  <2>1. pt # <<>>
    BY <1>3 DEF n
  <2>2. SubSeq(pt, 1, 1) = <<pt[1]>>
    BY <2>1, FirstOnly
  <2> QED BY <2>2, <1>2
<1>5. CASE q <= m
  <2>1. q <= L /\ n = m /\ R = L - 1 /\ q \in 1..m /\ q \in 1..L
    BY <1>1, <1>5
  <2>2. \A i \in 2..m : pt[i] = IF i <= q THEN ps[i - 1] ELSE ps[i]
    <3> TAKE i \in 2..m
    <3>1. /\ i \in 2..n /\ i - 1 \in 1..R /\ i - 1 \in 1..m /\ i \in 1..m
          /\ (i - 1 < q <=> i <= q) /\ (i - 1) + 1 = i
      BY <1>1, <2>1
    <3>2. pt[i] = rest[i - 1]
      BY <3>1, <1>2
    <3>3. rest[i - 1] = IF i <= q THEN T[i - 1] ELSE T[i]
      BY <3>1, <1>2
    <3>4. ps[i - 1] = T[i - 1] /\ ps[i] = T[i]
      BY <3>1, <1>2
    <3> QED BY <3>2, <3>3, <3>4
  <2>3. ps[q] = t
    BY <2>1, <1>2
  <2>4. q # 1
    <3> SUFFICES ASSUME q = 1 PROVE FALSE
      OBVIOUS
    <3>1. \A i \in 1..m : pt[i] = ps[i]
      <4> TAKE i \in 1..m
      <4>1. i = 1 \/ (i \in 2..m /\ ~(i <= q))
        BY <1>1
      <4> QED BY <4>1, <2>2, <2>3, <1>2
    <3>2. Len(ps) = Len(pt)
      BY <2>1 DEF m, n
    <3> QED BY <3>1, <3>2, SeqEqual DEF m
  <2>5. \A j \in 1..m : ps[j] = ps[q] => j = q
    <3> TAKE j \in 1..m
    <3>1. j \in 1..L
      BY <1>1
    <3> QED BY <3>1, <2>3, <1>2
  <2>6. q \in 2..m
    BY <2>1, <2>4, <1>1
  <2>7. Explained(ps, pt) = [type |-> "prepend", plays |-> <<pt[1]>>]
    <3>1. /\ q \in 2..Len(ps) /\ Len(pt) = Len(ps) /\ pt[1] = ps[q]
          /\ \A j \in 1..Len(ps) : ps[j] = ps[q] => j = q
          /\ \A i \in 2..Len(ps) : pt[i] = IF i <= q THEN ps[i - 1] ELSE ps[i]
      BY <2>1, <2>2, <2>3, <2>5, <2>6, <1>2 DEF m, n
    <3> QED BY <3>1, FoundMoved
  <2> QED BY <2>7, <1>4
<1>6. CASE q > m
  <2>1. \A i \in 2..n : i - 1 \in 1..m /\ i - 1 \in 1..R /\ i - 1 < q
    BY <1>1, <1>6
  <2>2. \A i \in 1..n : i > 1 => i - 1 \in 1..m /\ pt[i] = ps[i - 1]
    <3> SUFFICES ASSUME NEW i \in 1..n, i > 1 PROVE i - 1 \in 1..m /\ pt[i] = ps[i - 1]
      OBVIOUS
    <3>1. i \in 2..n
      BY <1>1
    <3>2. pt[i] = rest[i - 1]
      BY <3>1, <1>2
    <3>3. rest[i - 1] = T[i - 1]
      BY <3>1, <2>1, <1>2
    <3>4. ps[i - 1] = T[i - 1]
      BY <3>1, <2>1, <1>2
    <3> QED BY <3>1, <3>2, <3>3, <3>4, <2>1
  <2>3. 1 <= m => 2 <= n
    BY <1>1, <1>6
  <2>4. t \notin ToSet(ps)
    <3> SUFFICES ASSUME t \in ToSet(ps) PROVE FALSE
      OBVIOUS
    <3>1. PICK j \in 1..m : ps[j] = t
      BY DEF ToSet, m
    <3>2. j \in 1..L /\ T[j] = t /\ j # q
      BY <3>1, <1>1, <1>2, <1>6
    <3> QED BY <3>2, <1>2
  <2>5. pt[1] \notin ToSet(ps) /\ pt # <<>>
    BY <2>4, <1>2, <1>3 DEF n
  <2>6. Explained(ps, pt) = [type |-> "prepend", plays |-> <<pt[1]>>]
    <3>1. \A i \in 2..Len(pt) : i - 1 \in 1..Len(ps) /\ pt[i] = ps[i - 1]
      <4>1. \A i \in 2..n : i - 1 \in 1..m /\ pt[i] = ps[i - 1]
        <5> TAKE i \in 2..n
        <5>1. i \in 1..n /\ i > 1
          BY <1>1
        <5> QED BY <5>1, <2>2
      <4> QED BY <4>1 DEF m, n
    <3>2. 1 <= Len(ps) => 2 <= Len(pt)
      BY <2>3 DEF m, n
    <3> QED BY <3>1, <3>2, <2>5, FoundFirst
  <2> QED BY <2>6, <1>4
<1> QED BY <1>5, <1>6, <1>1

(* A history of single tracks without its top and without another track.    *)
LEMMA RestIs ==
  ASSUME NEW h \in Seq(Track), h # <<>>, IsInjective(h), NEW t \in Track, t # h[1]
  PROVE  /\ IsInjective(Tail(h))
         /\ Selected(h, Track \ {h[1], t}) = Selected(Tail(h), Track \ {t})
<1> DEFINE T == Tail(h)
           x == h[1]
           D == Track \ {x, t}
           Dx == Track \ {x}
           Dt == Track \ {t}
<1>1. T \in Seq(Track) /\ x \in Track
  OBVIOUS
<1>2. Len(T) = Len(h) - 1 /\ \A i \in 1..Len(T) : T[i] = h[i + 1]
  BY TailIs
<1>3. \A i, j \in 1..Len(h) : h[i] = h[j] => i = j
  BY DEF IsInjective
<1>4. \A i \in 1..Len(T) : i + 1 \in 1..Len(h) /\ i \in Nat /\ i + 1 # 1
  <2> HIDE DEF T
  <2>1. Len(h) \in Nat
    OBVIOUS
  <2> QED BY <2>1, <1>2
<1>5. 1 \in 1..Len(h)
  BY FirstOnly
<1>6. IsInjective(T)
  <2>1. \A i, j \in 1..Len(T) : T[i] = T[j] => i = j
    <3> SUFFICES ASSUME NEW i \in 1..Len(T), NEW j \in 1..Len(T), T[i] = T[j] PROVE i = j
      OBVIOUS
    <3>1. h[i + 1] = h[j + 1]
      BY <1>2
    <3>2. i + 1 = j + 1
      BY <3>1, <1>3, <1>4
    <3> QED BY <3>2, <1>4
  <2>2. DOMAIN T = 1..Len(T)
    BY <1>1
  <2> HIDE DEF T
  <2> QED BY <2>1, <2>2 DEF IsInjective
<1>7. x \notin ToSet(T)
  <2> SUFFICES ASSUME x \in ToSet(T) PROVE FALSE
    OBVIOUS
  <2>1. \A s \in Seq(Track) : \A y \in ToSet(s) : \E p \in 1..Len(s) : s[p] = y
    BY DEF ToSet
  <2>2. PICK i \in 1..Len(T) : T[i] = x
    BY <2>1, <1>1
  <2>3. h[i + 1] = h[1]
    BY <2>2, <1>2
  <2> QED BY <2>3, <1>3, <1>4, <1>5
<1>8. Selected(h, D) = Selected(T, D)
  <2>1. x \notin D
    OBVIOUS
  <2> HIDE DEF D
  <2> QED BY <2>1, SelectedHead
<1>9. ToSet(T) \subseteq Dx
  <2>1. \A s \in Seq(Track) : ToSet(s) \subseteq Track
    BY DEF ToSet
  <2>2. ToSet(T) \subseteq Track
    BY <2>1, <1>1
  <2> HIDE DEF T, x
  <2> QED BY <2>2, <1>7
<1>10. D = Dx \cap Dt
  OBVIOUS
<1> HIDE DEF T, x, D, Dx, Dt
<1>11. Selected(T, Dx) = T
  BY <1>1, <1>9, SelectedAll
<1>12. Selected(Selected(T, Dx), Dt) = Selected(T, Dx \cap Dt)
  BY <1>1, SelectedTwice
<1>13. Selected(h, D) = Selected(T, Dt)
  BY <1>8, <1>10, <1>11, <1>12
<1> QED BY <1>6, <1>13 DEF T, x, D, Dt

(* Where a track is in a list of single tracks, or that it is beyond it.    *)
LEMMA PlaceOf ==
  ASSUME NEW T \in Seq(Track), IsInjective(T), NEW t \in Track,
         NEW D \in SUBSET Track, D = Track \ {t},
         NEW rest \in Seq(Track), rest = Selected(T, D)
  PROVE  \E q \in Nat : Placed(T, rest, t, q)
<1> DEFINE n == Len(T)
<1>1. n \in Nat
  OBVIOUS
<1>2. CASE t \in ToSet(T)
  <2>1. PICK q \in 1..n : t = T[q]
    <3>1. \A s \in Seq(Track) : \A y \in ToSet(s) : \E p \in 1..Len(s) : y = s[p]
      BY DEF ToSet
    <3> QED BY <3>1, <1>2
  <2>2. Len(rest) = n - 1
    BY <2>1, WithoutOne
  <2>3. \A j \in 1..n : T[j] = t => j = q
    BY <2>1, WithoutOne
  <2>4. \A i \in 1..(n - 1) : rest[i] = IF i < q THEN T[i] ELSE T[i + 1]
    BY <2>1, WithoutOne
  <2> HIDE DEF n
  <2>5. q \in Nat /\ q >= 1 /\ q <= n
    BY <1>1, <2>1
  <2>6. \A j \in 1..n : T[j] = t <=> j = q
    BY <2>1, <2>3
  <2>7. Len(rest) = IF q <= n THEN n - 1 ELSE n
    BY <2>2, <2>5
  <2>8. \A i \in 1..Len(rest) : rest[i] = IF i < q THEN T[i] ELSE T[i + 1]
    BY <2>2, <2>4
  <2>9. Placed(T, rest, t, q)
    BY <2>5, <2>6, <2>7, <2>8 DEF n, Placed
  <2> QED BY <2>5, <2>9
<1>3. CASE t \notin ToSet(T)
  <2>1. rest = T
    <3>1. ToSet(T) \subseteq D
      <4>1. ToSet(T) \subseteq Track
        BY DEF ToSet
      <4> QED BY <4>1, <1>3
    <3> QED BY <3>1, SelectedAll
  <2> DEFINE q == n + 1
  <2>2. q \in Nat /\ q >= 1 /\ ~(q <= n) /\ \A j \in 1..n : j # q /\ j < q
    <3> HIDE DEF n
    <3> QED BY <1>1
  <2>3. \A j \in 1..n : T[j] # t
    BY <1>3 DEF ToSet
  <2> HIDE DEF q, n
  <2>4. \A j \in 1..n : T[j] = t <=> j = q
    BY <2>2, <2>3
  <2>5. Len(rest) = n /\ Len(rest) = IF q <= n THEN n - 1 ELSE n
    BY <2>1, <2>2 DEF n
  <2>6. \A i \in 1..Len(rest) : rest[i] = IF i < q THEN T[i] ELSE T[i + 1]
    BY <2>1, <2>2, <2>5
  <2>7. Placed(T, rest, t, q)
    BY <2>2, <2>4, <2>5, <2>6 DEF n, Placed
  <2> QED BY <2>2, <2>7
<1> QED BY <1>2, <1>3

(* Above the list h whose window is prev, t was put and its top x again;    *)
(* plays is the window of what results.                                     *)
TopAgain(h, prev, list, plays, x, t) ==
  /\ IsInjective(h) /\ prev = Window(h) /\ prev # <<>> /\ x = prev[1] /\ t # x
  /\ list = Topped(h, <<x, t>>, {x, t}) /\ plays = Window(list) /\ plays # prev

LEMMA AroundLists ==
  \A h, prev, list, plays \in Seq(Track) : \A x, t \in Track :
    TopAgain(h, prev, list, plays, x, t) =>
       /\ plays # <<>> /\ plays[1] = x /\ Tail(prev) # Tail(plays)
       /\ Explained(Tail(prev), Tail(plays)) = [type |-> "prepend", plays |-> <<t>>]
<1>0. SUFFICES
        ASSUME NEW h \in Seq(Track), NEW prev \in Seq(Track), NEW list \in Seq(Track),
               NEW plays \in Seq(Track), NEW x \in Track, NEW t \in Track,
               /\ IsInjective(h) /\ prev = Window(h) /\ prev # <<>> /\ x = prev[1] /\ t # x
               /\ list = Topped(h, <<x, t>>, {x, t}) /\ plays = Window(list) /\ plays # prev
        PROVE  /\ plays # <<>> /\ plays[1] = x /\ Tail(prev) # Tail(plays)
               /\ Explained(Tail(prev), Tail(plays)) = [type |-> "prepend", plays |-> <<t>>]
  BY DEF TopAgain
<1> DEFINE T == Tail(h)
           D == Track \ {t}
           rest == Selected(T, D)
           ps == Tail(prev)
           pt == Tail(plays)
           l == Limit - 1
<1>1. h \in Seq(Track) /\ IsInjective(h) /\ Len(h) \in Nat
  BY <1>0
<1>2. prev \in Seq(Track) /\ prev = Window(h) /\ prev # <<>> /\ x = prev[1]
  BY <1>0
<1>3. x \in Track /\ t \in Track /\ t # x /\ D \in SUBSET Track
  BY <1>0
<1>4. list \in Seq(Track) /\ list = Topped(h, <<x, t>>, {x, t})
  BY <1>0
<1>5. plays \in Seq(Track) /\ plays = Window(list) /\ Len(plays) \in Nat
  BY <1>0
<1>6. plays # prev
  BY <1>0
<1>7. Limit \in Nat /\ Limit > 2 /\ l \in Nat /\ l > 1
  BY SnapshotAssumption
<1>8. /\ Len(prev) = (IF Len(h) < Limit THEN Len(h) ELSE Limit)
      /\ Len(prev) >= 1 /\ \A i \in 1..Len(prev) : prev[i] = h[i]
  <2>1. Len(prev) >= 1
    BY <1>2, FirstOnly
  <2>2. Len(h) \in Nat
    BY <1>1
  <2>3. /\ Len(h) <= Limit => Len(prev) = Len(h)
        /\ Len(h) > Limit => Len(prev) = Limit
        /\ \A i \in 1..Len(prev) : prev[i] = h[i]
    BY <1>1, <1>2, WindowIs
  <2> QED BY <2>1, <2>2, <2>3, <1>7
<1>9. h # <<>> /\ h[1] = x /\ Len(h) >= 1
  <2>1. Len(h) >= 1 /\ h # <<>>
    BY <1>7, <1>8, <1>1
  <2>2. 1 \in 1..Len(prev)
    BY <1>8
  <2>3. prev[1] = h[1]
    BY <2>2, <1>8
  <2> QED BY <2>1, <2>3, <1>2
<1>10. T \in Seq(Track) /\ Len(T) = Len(h) - 1 /\ \A i \in 1..Len(T) : T[i] = h[i + 1]
  BY <1>9, <1>1, TailIs
<1>11. IsInjective(T) /\ Selected(h, Track \ {x, t}) = rest
  BY <1>9, <1>1, <1>3, RestIs
<1> HIDE DEF T
<1>12. rest \in Seq(Track) /\ Len(rest) \in Nat
  <2>1. rest \in Seq(Track)
    BY <1>10, SelectedType
  <2> HIDE DEF rest
  <2> QED BY <2>1
<1>13. PICK q \in Nat : Placed(T, rest, t, q)
  <2>1. D = Track \ {t} /\ rest = Selected(T, D)
    OBVIOUS
  <2>2. T \in Seq(Track) /\ IsInjective(T) /\ rest \in Seq(Track)
    BY <1>10, <1>11, <1>12
  <2>3. t \in Track /\ D \in SUBSET Track
    BY <1>3
  <2> HIDE DEF D, rest
  <2> QED BY <2>1, <2>2, <2>3, PlaceOf
<1>14. /\ Len(list) = 2 + Len(rest) /\ list[1] = x /\ list[2] = t
      /\ \A i \in 1..Len(rest) : list[2 + i] = rest[i]
  <2>1. list = <<x, t>> \o rest
    BY <1>11, <1>4 DEF Topped
  <2>2. \A r \in Seq(Track) :
          /\ Len(<<x, t>> \o r) = 2 + Len(r) /\ (<<x, t>> \o r)[1] = x /\ (<<x, t>> \o r)[2] = t
          /\ \A i \in 1..Len(r) : (<<x, t>> \o r)[2 + i] = r[i]
    BY <1>3
  <2> HIDE DEF rest
  <2> QED BY <2>1, <2>2, <1>12
<1> HIDE DEF rest
<1>15. /\ Len(plays) = (IF 2 + Len(rest) < Limit THEN 2 + Len(rest) ELSE Limit)
      /\ \A i \in 1..Len(plays) : plays[i] = list[i]
  <2>1. Len(rest) \in Nat
    BY <1>12
  <2>2. /\ Len(list) <= Limit => Len(plays) = Len(list)
        /\ Len(list) > Limit => Len(plays) = Limit
        /\ \A i \in 1..Len(plays) : plays[i] = list[i]
    BY <1>4, <1>5, WindowIs
  <2>3. Len(list) = 2 + Len(rest)
    BY <1>14
  <2>4. Len(plays) = (IF 2 + Len(rest) < Limit THEN 2 + Len(rest) ELSE Limit)
    BY <2>1, <2>2, <2>3, <1>7
  <2> QED BY <2>2, <2>4
<1>16. Len(plays) >= 2 /\ plays # <<>> /\ plays[1] = x /\ plays[2] = t
  <2>1. Len(plays) >= 2
    BY <1>7, <1>12, <1>15
  <2>2. 1 \in 1..Len(plays) /\ 2 \in 1..Len(plays)
    BY <2>1, <1>5
  <2>3. plays[1] = x /\ plays[2] = t
    BY <2>2, <1>14, <1>15
  <2>4. plays # <<>>
    BY <2>1
  <2> QED BY <2>1, <2>3, <2>4
<1>17. /\ ps \in Seq(Track) /\ Len(ps) = Len(prev) - 1
       /\ \A i \in 1..(Len(prev) - 1) : ps[i] = prev[i + 1]
       /\ pt \in Seq(Track) /\ Len(pt) = Len(plays) - 1
       /\ \A i \in 1..(Len(plays) - 1) : pt[i] = plays[i + 1]
  <2>1. plays # <<>>
    BY <1>16
  <2> QED BY <2>1, <1>5, <1>2, TailIs
<1>18. ps # pt
  <2>1. prev = <<x>> \o ps
    BY <1>2, SelectedHead
  <2>2. plays = <<plays[1]>> \o pt
    BY <1>5, <1>16, SelectedHead
  <2> HIDE DEF ps, pt
  <2> QED BY <2>1, <2>2, <1>16, <1>6
<1> HIDE DEF ps, pt
<1>19. Len(ps) = (IF Len(T) < l THEN Len(T) ELSE l) /\ \A i \in 1..Len(ps) : ps[i] = T[i]
  <2>1. Len(h) \in Nat /\ Len(prev) \in Nat
    BY <1>1, <1>2
  <2>2. Len(ps) = (IF Len(T) < l THEN Len(T) ELSE l) /\ Len(ps) <= Len(T)
    BY <2>1, <1>7, <1>8, <1>10, <1>17
  <2>3. \A i \in 1..Len(ps) : ps[i] = T[i]
    <3> TAKE i \in 1..Len(ps)
    <3>1. i \in 1..(Len(prev) - 1) /\ i + 1 \in 1..Len(prev) /\ i \in 1..Len(T)
      BY <2>1, <2>2, <1>7, <1>8, <1>10, <1>17
    <3> QED BY <3>1, <1>8, <1>10, <1>17
  <2> QED BY <2>2, <2>3
<1>20. /\ Len(pt) = (IF 1 + Len(rest) < l THEN 1 + Len(rest) ELSE l)
       /\ pt[1] = t /\ \A i \in 2..Len(pt) : pt[i] = rest[i - 1]
  <2>1. Len(rest) \in Nat /\ Len(plays) \in Nat
    BY <1>12, <1>5
  <2>2. Len(pt) = (IF 1 + Len(rest) < l THEN 1 + Len(rest) ELSE l) /\ Len(pt) <= 1 + Len(rest)
    BY <2>1, <1>7, <1>15, <1>17
  <2>3. pt[1] = t
    <3>1. 1 \in 1..(Len(plays) - 1)
      BY <2>1, <1>16
    <3>2. pt[1] = plays[1 + 1]
      BY <3>1, <1>17
    <3> QED BY <3>2, <1>16
  <2>4. \A i \in 2..Len(pt) : pt[i] = rest[i - 1]
    <3> TAKE i \in 2..Len(pt)
    <3>1. /\ i \in 1..(Len(plays) - 1) /\ i + 1 \in 1..Len(plays)
          /\ i - 1 \in 1..Len(rest) /\ 2 + (i - 1) = i + 1
      BY <2>1, <2>2, <1>17
    <3>2. pt[i] = plays[i + 1]
      BY <3>1, <1>17
    <3>3. plays[i + 1] = list[i + 1]
      BY <3>1, <1>15
    <3>4. list[2 + (i - 1)] = rest[i - 1]
      BY <3>1, <1>14
    <3> QED BY <3>1, <3>2, <3>3, <3>4
  <2> QED BY <2>2, <2>3, <2>4
<1> HIDE DEF l
<1>21. Explained(ps, pt) = [type |-> "prepend", plays |-> <<t>>]
  <2>1. /\ T \in Seq(Track) /\ rest \in Seq(Track) /\ ps \in Seq(Track) /\ pt \in Seq(Track)
        /\ t \in Track /\ l \in Nat /\ l > 1 /\ ps # pt
    BY <1>7, <1>10, <1>12, <1>17, <1>18, <1>3
  <2>2. Below(ps, pt, T, rest, t, l)
    BY <1>19, <1>20 DEF Below
  <2> QED BY <2>1, <2>2, <1>13, BelowTop
<1> QED BY <1>16, <1>18, <1>21 DEF ps, pt

LEMMA AppendPair == \A a, b \in Track : Append(<<a>>, b) = <<a, b>>
<1>1. \A a, b \in Track : Append(<<a>>, b) \in Seq(Track) /\ <<a, b>> \in Seq(Track)
  OBVIOUS
<1>2. \A a, b \in Track :
        /\ Len(Append(<<a>>, b)) = 2 /\ Append(<<a>>, b)[1] = a /\ Append(<<a>>, b)[2] = b
        /\ Len(<<a, b>>) = 2 /\ <<a, b>>[1] = a /\ <<a, b>>[2] = b
  OBVIOUS
<1>3. \A r, s \in Seq(Track) : Len(r) = 2 /\ Len(s) = 2 /\ r[1] = s[1] /\ r[2] = s[2] => r = s
  <2>1. \A i : i \in 1..2 => i = 1 \/ i = 2
    OBVIOUS
  <2> QED BY <2>1, SeqEqual
<1> QED BY <1>1, <1>2, <1>3

(* The track on top was listened to again after another one: both are found. *)
LEMMA AroundAnswer ==
  \A t, x \in Track : \A plays \in Seq(Track) :
    /\ SnapshotTypeOK /\ service = "applemusic" /\ seen # <<>> /\ x = seen[1] /\ t # x
    /\ since = <<t, x>> /\ Continues(seen, history, since, service = "applemusic")
    /\ plays = Window(history) /\ plays # seen /\ ~Reverted(plays)
    => IncomingHistory(plays) = <<t, x>>
<1>0. SUFFICES
        ASSUME NEW t \in Track, NEW x \in Track, NEW plays \in Seq(Track),
               /\ SnapshotTypeOK /\ service = "applemusic" /\ seen # <<>> /\ x = seen[1] /\ t # x
               /\ since = <<t, x>> /\ Continues(seen, history, since, service = "applemusic")
               /\ plays = Window(history) /\ plays # seen /\ ~Reverted(plays)
        PROVE  IncomingHistory(plays) = <<t, x>>
  OBVIOUS
<1>1. seen \in Seq(Track) /\ history \in Seq(Track) /\ since \in Seq(Track)
  BY <1>0 DEF SnapshotTypeOK
<1>2. PICK h \in Seq(Track), tops \in Seq(Track) :
        \E gone \in SUBSET ToSet(tops) :
          Accounts(h, tops, gone, seen, history, since, service = "applemusic")
  BY <1>0 DEF Continues
<1>3. PICK gone \in SUBSET ToSet(tops) :
        Accounts(h, tops, gone, seen, history, since, service = "applemusic")
  BY <1>2
<1>4. since # <<>> /\ Last(since) = x /\ ToSet(since) = {t, x}
  BY <1>0 DEF Last, ToSet
<1>5. /\ seen = Window(h) /\ history = Topped(h, tops, gone) /\ IsInjective(h)
      /\ tops # <<>> /\ tops[1] = x /\ IsInjective(tops)
      /\ gone = ToSet(tops) /\ ToSet(tops) = {t, x}
  BY <1>0, <1>3, <1>4 DEF Accounts
<1>6. tops = <<x, t>> /\ gone = {x, t}
  <2>1. tops = <<x, t>>
    BY <1>0, <1>5, TwoOnTop
  <2> QED BY <2>1, <1>5
<1>7. history = Topped(h, <<x, t>>, {x, t})
  BY <1>5, <1>6
<1>8. /\ plays # <<>> /\ plays[1] = x /\ Tail(seen) # Tail(plays)
      /\ Explained(Tail(seen), Tail(plays)) = [type |-> "prepend", plays |-> <<t>>]
  <2>1. TopAgain(h, seen, history, plays, x, t)
    BY <1>0, <1>5, <1>7 DEF TopAgain
  <2> QED BY <2>1, <1>1, AroundLists
<1> DEFINE tail == Explained(Tail(seen), Tail(plays))
<1>9. tail.type = "prepend" /\ tail.plays = <<t>>
  BY <1>8
<1>10. TopRebound(plays) /\ ~Reverted(plays) /\ seen # plays
  <2>1. Head(seen) = x /\ Head(plays) = x
    BY <1>0, <1>1, <1>8
  <2> QED BY <2>1, <1>0, <1>8 DEF TopRebound
<1>11. IncomingHistory(plays) = Append(Reverse(tail.plays), plays[1])
  BY <1>9, <1>10 DEF IncomingHistory
<1>12. Append(Reverse(<<t>>), x) = <<t, x>>
  <2>1. Reverse(<<t>>) = <<t>>
    BY DEF Reverse
  <2> QED BY <2>1, AppendPair
<1> HIDE DEF tail
<1> QED BY <1>8, <1>9, <1>11, <1>12

-----------------------------------------------------------------------------
(* The invariant of a Source that finds listens in lists. *)

(* After a current answer the history is what that answer was and what was  *)
(* listened to since.                                                       *)
CurrentContinues ==
  mode # "idle" /\ behind = "no" /\ ~removed =>
    Continues(seen, history, since, service = "applemusic")

(* After an answer that undid the one before nothing was listened to, and   *)
(* the current answer is the list that was remembered last.                 *)
UndoneIsKnown ==
  mode # "idle" /\ behind = "yes" /\ ~removed =>
    /\ since = <<>> /\ recent # <<>> /\ Window(history) = recent[1]
    /\ ~(ToSet(recent[1]) \subseteq ToSet(seen))

SnapshotInv ==
  /\ SnapshotTypeOK
  /\ service = "applemusic" => IsInjective(history)
  /\ CurrentContinues /\ UndoneIsKnown

LEMMA SnapshotInitInv == SnapshotInit => SnapshotInv
<1> SUFFICES ASSUME SnapshotInit PROVE SnapshotInv
  OBVIOUS
<1>1. history \in Seq(Track)
  BY SnapshotAssumption DEF SnapshotInit
<1>2. SnapshotTypeOK
  <2>1. /\ service \in {"ytmusic", "applemusic"} /\ mode = "idle" /\ seen = <<>> /\ recent = <<>>
        /\ found = <<>> /\ discovered \in BOOLEAN /\ left = MaxEvents /\ since = <<>>
        /\ removed = FALSE /\ behind = "no" /\ past = <<>>
    BY DEF SnapshotInit
  <2>2. MaxEvents \in Nat /\ MaxPast \in Nat /\ Limit \in Nat /\ Kept \in Nat
    BY SnapshotAssumption
  <2>3. <<>> \in Seq(Track) /\ <<>> \in Seq(Seq(Track)) /\ Len(<<>>) = 0
    OBVIOUS
  <2>4. MaxEvents \in 0..MaxEvents /\ 0 <= MaxPast /\ 0 <= Limit /\ 0 <= Kept
    BY <2>2
  <2>5. {history, seen, found, since} \subseteq Seq(Track) /\ Len(seen) <= Limit
    BY <1>1, <2>1, <2>3, <2>4
  <2>6. /\ past \in Seq(Seq(Track)) /\ Len(past) <= MaxPast
        /\ recent \in Seq(Seq(Track)) /\ Len(recent) <= Kept
    BY <2>1, <2>3, <2>4
  <2>7. {discovered, removed} \subseteq BOOLEAN /\ left \in 0..MaxEvents
        /\ mode \in {"idle", "hydrated", "polling"} /\ behind \in {"no", "yes", "lost"}
    BY <2>1, <2>4
  <2> QED BY <2>1, <2>5, <2>6, <2>7 DEF SnapshotTypeOK
<1> QED BY <1>2 DEF SnapshotInit, SnapshotInv, CurrentContinues, UndoneIsKnown

(* The types of what a step leaves.                                         *)
LEMMA BecomesType ==
  ASSUME SnapshotTypeOK, NEW list \in Seq(Track), Becomes(list)
  PROVE  history' \in Seq(Track) /\ past' \in Seq(Seq(Track)) /\ Len(past') <= MaxPast
<1> DEFINE all == <<history>> \o past
           n == IF Len(past) < MaxPast THEN Len(past) + 1 ELSE MaxPast
<1>1. /\ history \in Seq(Track) /\ past \in Seq(Seq(Track)) /\ Len(past) \in Nat
      /\ Len(past) <= MaxPast /\ MaxPast \in Nat
  BY SnapshotAssumption DEF SnapshotTypeOK
<1>2. all \in Seq(Seq(Track)) /\ Len(all) = Len(past) + 1
  BY <1>1
<1>3. n \in 0..Len(all) /\ n <= MaxPast
  BY <1>1, <1>2
<1> HIDE DEF all, n
<1>4. SubSeq(all, 1, n) \in Seq(Seq(Track)) /\ Len(SubSeq(all, 1, n)) = n
  BY <1>2, <1>3
<1>5. history' = list /\ past' = SubSeq(all, 1, n)
  BY DEF Becomes, all, n
<1> QED BY <1>3, <1>4, <1>5

LEMMA ResetType ==
  ASSUME SnapshotTypeOK, NEW plays \in Seq(Track), Len(plays) <= Limit, NEW added,
         Reset(plays, added)
  PROVE  /\ seen' = plays /\ recent' \in Seq(Seq(Track)) /\ Len(recent') <= Kept
         /\ added = <<>> => recent' = recent
<1> DEFINE all == <<plays>> \o recent
           n == IF Len(recent) < Kept THEN Len(recent) + 1 ELSE Kept
<1>1. recent \in Seq(Seq(Track)) /\ Len(recent) \in Nat /\ Len(recent) <= Kept /\ Kept \in Nat
  BY SnapshotAssumption DEF SnapshotTypeOK
<1>2. all \in Seq(Seq(Track)) /\ Len(all) = Len(recent) + 1
  BY <1>1
<1>3. n \in 0..Len(all) /\ n <= Kept
  BY <1>1, <1>2
<1> HIDE DEF all, n
<1>4. SubSeq(all, 1, n) \in Seq(Seq(Track)) /\ Len(SubSeq(all, 1, n)) = n
  BY <1>2, <1>3
<1>5. seen' = plays /\ recent' = IF added = <<>> THEN recent ELSE SubSeq(all, 1, n)
  BY DEF Reset, all, n
<1> QED BY <1>1, <1>3, <1>4, <1>5

LEMMA AnswersAreLists ==
  ASSUME SnapshotTypeOK, NEW list \in Answers
  PROVE  list \in Seq(Track)
<1>1. history \in Seq(Track) /\ \A i \in DOMAIN past : past[i] \in Seq(Track)
  BY DEF SnapshotTypeOK
<1> QED BY <1>1 DEF Answers, ToSet

LEMMA LeftType ==
  ASSUME SnapshotTypeOK, NEW list, NEW aborted \in BOOLEAN, Answer(list, aborted)
  PROVE  left' \in 0..MaxEvents /\ removed' = FALSE
  BY SnapshotAssumption DEF SnapshotTypeOK, Answer

LEMMA ListenStep ==
  ASSUME SnapshotInv, NEW t \in Track, Listen(t)
  PROVE  SnapshotInv'
<1> DEFINE top == <<t>> \o Selected(history, Track \ {t})
           again == <<t>> \o history
<1>1. /\ history \in Seq(Track) /\ since \in Seq(Track) /\ left \in 0..MaxEvents /\ MaxEvents \in Nat
      /\ SnapshotTypeOK
  BY SnapshotAssumption DEF SnapshotInv, SnapshotTypeOK
<1>2. /\ top \in Seq(Track) /\ (IsInjective(history) => IsInjective(top))
      /\ again \in Seq(Track)
  BY <1>1, OnTopIs, ConsIs
<1>3. Becomes(top) \/ (service = "ytmusic" /\ Becomes(again))
  BY DEF Listen
<1>4. /\ left > 0 /\ left' = left - 1 /\ since' = Append(since, t)
      /\ behind' = IF behind = "no" THEN "no" ELSE "lost"
      /\ mode' = mode /\ seen' = seen /\ recent' = recent /\ discovered' = discovered
      /\ found' = found /\ service' = service /\ removed' = removed
  BY DEF Listen, source
<1> HIDE DEF top, again
<1>5. history' \in Seq(Track) /\ past' \in Seq(Seq(Track)) /\ Len(past') <= MaxPast
  BY <1>1, <1>2, <1>3, BecomesType
<1>6. SnapshotTypeOK'
  <2>1. since' \in Seq(Track) /\ left' \in 0..MaxEvents
    BY <1>1, <1>4, AppendProperties
  <2>2. behind' \in {"no", "yes", "lost"}
    BY <1>4
  <2> QED BY <2>1, <2>2, <1>1, <1>4, <1>5 DEF SnapshotTypeOK
<1>7. history' = top \/ (history' = again /\ service = "ytmusic")
  BY <1>3 DEF Becomes
<1>8. (service = "applemusic" => IsInjective(history))'
  <2> SUFFICES ASSUME service' = "applemusic" PROVE IsInjective(history')
    OBVIOUS
  <2>1. history' = top /\ IsInjective(history)
    BY <1>4, <1>7 DEF SnapshotInv
  <2> QED BY <2>1, <1>2
<1>9. CurrentContinues'
  <2> SUFFICES ASSUME mode' # "idle", behind' = "no", ~removed'
               PROVE  Continues(seen', history', since', service' = "applemusic")
    BY DEF CurrentContinues
  <2>1. Continues(seen, history, since, service = "applemusic")
    BY <1>4 DEF SnapshotInv, CurrentContinues
  <2>2. /\ Continues(seen, top, Append(since, t), service = "applemusic")
        /\ service # "applemusic" => Continues(seen, again, Append(since, t), service = "applemusic")
    BY <2>1, <1>1, ListenAccounts DEF top, again
  <2> QED BY <2>2, <1>4, <1>7
<1>10. UndoneIsKnown'
  BY <1>4 DEF UndoneIsKnown
<1> QED BY <1>6, <1>8, <1>9, <1>10 DEF SnapshotInv

LEMMA RemoveEntryStep ==
  ASSUME SnapshotInv, RemoveEntry
  PROVE  SnapshotInv'
<1>1. /\ history \in Seq(Track) /\ left \in 0..MaxEvents /\ MaxEvents \in Nat
      /\ SnapshotTypeOK
  BY SnapshotAssumption DEF SnapshotInv, SnapshotTypeOK
<1>2. PICK i \in DOMAIN history : Becomes(RemoveAt(history, i))
  BY DEF RemoveEntry
<1>3. /\ left > 0 /\ left' = left - 1 /\ since' = since /\ behind' = behind
      /\ mode' = mode /\ seen' = seen /\ recent' = recent /\ discovered' = discovered
      /\ found' = found /\ service' = service /\ removed' = TRUE
  BY DEF RemoveEntry, source
<1>4. /\ RemoveAt(history, i) \in Seq(Track)
      /\ IsInjective(history) => IsInjective(RemoveAt(history, i))
  BY <1>1, RemoveAtIs
<1>5. history' \in Seq(Track) /\ past' \in Seq(Seq(Track)) /\ Len(past') <= MaxPast
  BY <1>1, <1>2, <1>4, BecomesType
<1>6. SnapshotTypeOK'
  <2>1. left' \in 0..MaxEvents
    BY <1>1, <1>3
  <2> QED BY <2>1, <1>1, <1>3, <1>5 DEF SnapshotTypeOK
<1>7. history' = RemoveAt(history, i)
  BY <1>2 DEF Becomes
<1>8. (service = "applemusic" => IsInjective(history))'
  BY <1>3, <1>4, <1>7 DEF SnapshotInv
<1> QED BY <1>3, <1>6, <1>8 DEF SnapshotInv, CurrentContinues, UndoneIsKnown

(* Right after a current answer the history is that answer.                 *)
LEMMA ContinuesAnew ==
  ASSUME NEW list \in Seq(Track), NEW once \in BOOLEAN, once => IsInjective(list)
  PROVE  Continues(Window(list), list, <<>>, once)
<1>1. <<>> \in Seq(Track) /\ ToSet(<<>>) = {} /\ IsInjective(<<>>) /\ {} \in SUBSET ToSet(<<>>)
  BY DEF ToSet, IsInjective
<1>2. Topped(list, <<>>, {}) = list
  BY <1>1, ToppedIs
<1>3. PartOf(Reverse(<<>>), <<>>)
  <2>1. Reverse(<<>>) = <<>>
    BY DEF Reverse
  <2> QED BY <2>1, <1>1, PartOfBasics
<1>4. Accounts(list, <<>>, {}, Window(list), list, <<>>, once)
  BY <1>1, <1>2, <1>3 DEF Accounts
<1> QED BY <1>1, <1>4 DEF Continues

LEMMA HydrateStep ==
  ASSUME SnapshotInv, Hydrate
  PROVE  SnapshotInv'
<1>1. history \in Seq(Track) /\ SnapshotTypeOK
  BY DEF SnapshotInv, SnapshotTypeOK
<1>2. PICK list \in Answers :
        /\ Answer(list, FALSE) /\ Reset(Window(list), Window(list))
        /\ behind' = IF list = history THEN "no" ELSE "lost"
        /\ mode' \in {"hydrated", "idle"} /\ discovered' \in BOOLEAN
  BY <1>1 DEF Hydrate, SnapshotTypeOK
<1>3. found' = <<>> /\ since' = <<>> /\ service' = service /\ history' = history /\ past' = past
  BY DEF Hydrate, world
<1>4. Window(list) \in Seq(Track) /\ Len(Window(list)) <= Limit
  BY <1>1, AnswersAreLists, WindowIs
<1>5. seen' = Window(list) /\ recent' \in Seq(Seq(Track)) /\ Len(recent') <= Kept
  BY <1>1, <1>2, <1>4, ResetType
<1>6. left' \in 0..MaxEvents /\ removed' = FALSE
  BY <1>1, <1>2, LeftType
<1>7. SnapshotTypeOK'
  <2>1. <<>> \in Seq(Track) /\ behind' \in {"no", "yes", "lost"} /\ mode' \in {"idle", "hydrated", "polling"}
    BY <1>2
  <2> QED BY <2>1, <1>1, <1>2, <1>3, <1>4, <1>5, <1>6 DEF SnapshotTypeOK
<1>8. CurrentContinues'
  <2> SUFFICES ASSUME behind' = "no"
               PROVE  Continues(seen', history', since', service' = "applemusic")
    BY DEF CurrentContinues
  <2>1. list = history
    BY <1>2
  <2>2. Continues(Window(history), history, <<>>, service = "applemusic")
    BY <1>1, ContinuesAnew DEF SnapshotInv
  <2> QED BY <2>1, <2>2, <1>3, <1>5
<1>9. UndoneIsKnown'
  BY <1>2 DEF UndoneIsKnown
<1> QED BY <1>3, <1>7, <1>8, <1>9 DEF SnapshotInv

LEMMA StartPollingStep ==
  ASSUME SnapshotInv, StartPolling
  PROVE  SnapshotInv'
  BY DEF SnapshotInv, SnapshotTypeOK, StartPolling, CurrentContinues, UndoneIsKnown, world, ghosts

(* What an answer reports of a Source that polls.                           *)
LEMMA PollReports ==
  ASSUME SnapshotInv, NEW list \in Answers, NEW aborted \in BOOLEAN, Poll(list, aborted),
         ~removed, "lost" \notin {behind, behind'}
  PROVE  /\ PartOf(IncomingHistory(Window(list)), since)
         /\ list # history => IncomingHistory(Window(list)) = <<>> /\ seen = Window(history)
<1>1. /\ history \in Seq(Track) /\ seen \in Seq(Track) /\ since \in Seq(Track)
      /\ recent \in Seq(Seq(Track)) /\ behind \in {"no", "yes", "lost"}
      /\ SnapshotTypeOK
  BY DEF SnapshotInv, SnapshotTypeOK
<1>2. /\ mode = "polling"
      /\ behind' = IF list = history THEN "no"
                   ELSE IF behind = "no" /\ Undoes(list) THEN "yes" ELSE "lost"
  BY DEF Poll
<1>3. CASE list = history /\ behind = "no"
  <2>1. Continues(seen, history, since, service = "applemusic")
    BY <1>2, <1>3 DEF SnapshotInv, CurrentContinues
  <2> QED BY <2>1, <1>1, <1>3, CurrentAnswer DEF Continues
<1>4. CASE list = history /\ behind = "yes"
  <2>1. recent # <<>> /\ Window(history) = recent[1] /\ ~(ToSet(recent[1]) \subseteq ToSet(seen))
    BY <1>2, <1>4 DEF SnapshotInv, UndoneIsKnown
  <2>2. IncomingHistory(Window(history)) = <<>>
    BY <2>1, <1>1, KnownAnswer
  <2> QED BY <2>2, <1>1, <1>4, PartOfBasics
<1>5. CASE list # history
  <2>1. behind = "no" /\ Undoes(list)
    BY <1>2, <1>5
  <2>2. Continues(seen, history, since, service = "applemusic") /\ since = <<>>
    BY <2>1, <1>2 DEF SnapshotInv, CurrentContinues, Undoes
  <2>3. PICK h \in Seq(Track), tops \in Seq(Track) :
          \E gone \in SUBSET ToSet(tops) :
            Accounts(h, tops, gone, seen, history, since, service = "applemusic")
    BY <2>2 DEF Continues
  <2>4. PICK gone \in SUBSET ToSet(tops) :
          Accounts(h, tops, gone, seen, history, since, service = "applemusic")
    BY <2>3
  <2>5. tops = <<>>
    <3>1. Reverse(tops) \in Seq(Track) /\ Len(Reverse(tops)) = Len(tops)
      BY ReverseIs
    <3>2. Reverse(tops) = <<>>
      BY <3>1, <2>2, <2>4, PartOfEmpty DEF Accounts
    <3> QED BY <3>1, <3>2
  <2>6. seen = Window(history)
    BY <2>4, <2>5, ToppedIs DEF Accounts
  <2>7. list \in Seq(Track) /\ (service = "applemusic" => IsInjective(history))
    BY <1>1, AnswersAreLists DEF SnapshotInv
  <2>8. IncomingHistory(Window(list)) = <<>>
    BY <2>1, <2>6, <2>7, <1>1, <1>5, OutdatedAnswer
  <2> QED BY <2>6, <2>8, <1>1, PartOfBasics
<1> QED BY <1>1, <1>3, <1>4, <1>5

LEMMA PollTypes ==
  ASSUME SnapshotInv, NEW list \in Answers, NEW aborted \in BOOLEAN, Poll(list, aborted)
  PROVE  /\ SnapshotTypeOK' /\ seen' = Window(list) /\ removed' = FALSE
         /\ service' = service /\ history' = history
         /\ Plausible(IncomingHistory(Window(list))) = <<>> => recent' = recent
<1> DEFINE plays == Window(list)
           added == Plausible(IncomingHistory(plays))
<1>1. history \in Seq(Track) /\ seen \in Seq(Track) /\ SnapshotTypeOK
  BY DEF SnapshotInv, SnapshotTypeOK
<1>2. plays \in Seq(Track) /\ Len(plays) <= Limit
  BY <1>1, AnswersAreLists, WindowIs
<1>3. added \in Seq(Track)
  BY <1>1, <1>2, AddsType, PlausibleIs
<1>4. /\ Answer(list, aborted) /\ Reset(plays, added)
      /\ found' = IF aborted THEN <<>> ELSE added
      /\ mode' = IF aborted THEN "idle" ELSE "polling"
      /\ discovered' \in {discovered, discovered \/ found' # <<>>}
      /\ since' = IF list = history THEN <<>> ELSE since
      /\ behind' = IF list = history THEN "no"
                   ELSE IF behind = "no" /\ Undoes(list) THEN "yes" ELSE "lost"
      /\ UNCHANGED world
  BY DEF Poll
<1> HIDE DEF plays, added
<1>5. /\ seen' = plays /\ recent' \in Seq(Seq(Track)) /\ Len(recent') <= Kept
      /\ added = <<>> => recent' = recent
  BY <1>1, <1>2, <1>4, ResetType
<1>6. left' \in 0..MaxEvents /\ removed' = FALSE
  BY <1>1, <1>4, LeftType
<1>7. found' \in Seq(Track) /\ since' \in Seq(Track)
  <2>1. <<>> \in Seq(Track) /\ since \in Seq(Track)
    BY <1>1 DEF SnapshotTypeOK
  <2> QED BY <2>1, <1>3, <1>4
<1>8. discovered' \in BOOLEAN /\ mode' \in {"idle", "hydrated", "polling"}
      /\ behind' \in {"no", "yes", "lost"}
  BY <1>1, <1>4 DEF SnapshotTypeOK
<1>9. service' = service /\ history' = history /\ past' = past
  BY <1>4 DEF world
<1>10. SnapshotTypeOK'
  BY <1>1, <1>2, <1>5, <1>6, <1>7, <1>8, <1>9 DEF SnapshotTypeOK
<1> QED BY <1>5, <1>6, <1>9, <1>10 DEF plays, added

LEMMA PollStep ==
  ASSUME SnapshotInv, NEW list \in Answers, NEW aborted \in BOOLEAN, Poll(list, aborted)
  PROVE  SnapshotInv'
<1>1. /\ SnapshotTypeOK' /\ seen' = Window(list) /\ removed' = FALSE
      /\ service' = service /\ history' = history
      /\ Plausible(IncomingHistory(Window(list))) = <<>> => recent' = recent
  BY PollTypes
<1>2. /\ since' = IF list = history THEN <<>> ELSE since
      /\ behind' = IF list = history THEN "no"
                   ELSE IF behind = "no" /\ Undoes(list) THEN "yes" ELSE "lost"
  BY DEF Poll
<1>3. history \in Seq(Track) /\ (service = "applemusic" => IsInjective(history))
  BY DEF SnapshotInv, SnapshotTypeOK
<1>4. CurrentContinues'
  <2> SUFFICES ASSUME behind' = "no"
               PROVE  Continues(seen', history', since', service' = "applemusic")
    BY DEF CurrentContinues
  <2>1. list = history
    BY <1>2
  <2>2. Continues(Window(history), history, <<>>, service = "applemusic")
    BY <1>3, ContinuesAnew
  <2> QED BY <2>1, <2>2, <1>1, <1>2
<1>5. UndoneIsKnown'
  <2> SUFFICES ASSUME behind' = "yes"
               PROVE  /\ since' = <<>> /\ recent' # <<>> /\ Window(history') = recent'[1]
                      /\ ~(ToSet(recent'[1]) \subseteq ToSet(seen'))
    BY DEF UndoneIsKnown
  <2>1. list # history /\ behind = "no" /\ Undoes(list)
    BY <1>2
  <2>2. /\ ~removed /\ recent # <<>> /\ seen = recent[1] /\ since = <<>>
        /\ ~(ToSet(seen) \subseteq ToSet(Window(list)))
    BY <2>1 DEF Undoes
  <2>3. IncomingHistory(Window(list)) = <<>> /\ seen = Window(history)
    BY <2>1, <2>2, PollReports
  <2>4. Plausible(IncomingHistory(Window(list))) = <<>>
    <3>1. <<>> \in Seq(Track) /\ Len(<<>>) <= 1
      OBVIOUS
    <3> QED BY <3>1, <2>3, PlausibleIs
  <2> QED BY <2>1, <2>2, <2>3, <2>4, <1>1, <1>2
<1> QED BY <1>1, <1>3, <1>4, <1>5 DEF SnapshotInv

LEMMA SnapshotStep ==
  ASSUME SnapshotInv, [SnapshotNext]_snapshotVars
  PROVE  SnapshotInv'
<1>1. CASE SnapshotNext
  <2>1. ASSUME NEW t \in Track, Listen(t) PROVE SnapshotInv'
    BY <2>1, ListenStep
  <2>2. CASE RemoveEntry  BY <2>2, RemoveEntryStep
  <2>3. CASE Hydrate  BY <2>3, HydrateStep
  <2>4. CASE StartPolling  BY <2>4, StartPollingStep
  <2>5. ASSUME NEW list \in Answers, NEW aborted \in BOOLEAN, Poll(list, aborted)
        PROVE  SnapshotInv'
    BY <2>5, PollStep
  <2> QED BY <1>1, <2>1, <2>2, <2>3, <2>4, <2>5 DEF SnapshotNext
<1>2. CASE UNCHANGED snapshotVars
  BY <1>2 DEF snapshotVars, world, source, ghosts, SnapshotInv, SnapshotTypeOK,
              CurrentContinues, UndoneIsKnown
<1> QED BY <1>1, <1>2

(* A Source that finds listens in lists reports what was listened to since  *)
(* the last current answer, in that order and once, whatever the lists are, *)
(* how long they are and how many are remembered.                           *)
THEOREM ReportsWhatWasHeard == SnapshotSpec => ReportsAreListens
<1> DEFINE Reported ==
             mode = "polling" /\ ~removed /\ "lost" \notin {behind, behind'} => PartOf(found', since)
<1>1. SnapshotInv /\ [SnapshotNext]_snapshotVars => [Reported]_<<seen, found>>
  <2> SUFFICES ASSUME SnapshotInv, SnapshotNext, mode = "polling", ~removed,
                      "lost" \notin {behind, behind'}, ~UNCHANGED <<seen, found>>
               PROVE  PartOf(found', since)
    BY DEF snapshotVars, source
  <2>1. PICK list \in Answers, aborted \in BOOLEAN : Poll(list, aborted)
    <3>1. ~(\E t \in Track : Listen(t)) /\ ~RemoveEntry /\ ~Hydrate /\ ~StartPolling
      BY DEF Listen, RemoveEntry, Hydrate, StartPolling, source
    <3> QED BY <3>1 DEF SnapshotNext
  <2> DEFINE added == IncomingHistory(Window(list))
  <2>2. PartOf(added, since)
    BY <2>1, PollReports
  <2>3. since \in Seq(Track) /\ seen \in Seq(Track) /\ SnapshotTypeOK
    BY DEF SnapshotInv, SnapshotTypeOK
  <2>4. added \in Seq(Track)
    BY <2>3, AnswersAreLists, WindowIs, AddsType
  <2> HIDE DEF added
  <2>5. Plausible(added) \in Seq(Track) /\ PartOf(Plausible(added), added)
    BY <2>4, PlausibleIs
  <2>6. PartOf(Plausible(added), since) /\ PartOf(<<>>, since)
    BY <2>2, <2>3, <2>4, <2>5, PartOfTransitive, PartOfBasics
  <2>7. found' = IF aborted THEN <<>> ELSE Plausible(added)
    BY <2>1 DEF Poll, added
  <2> QED BY <2>6, <2>7
<1> QED BY <1>1, SnapshotInitInv, SnapshotStep, PTL DEF SnapshotSpec, ReportsAreListens

(* A step between two current answers of a Source that polls is an answer   *)
(* with the history as it is.                                               *)
LEMMA PlainPoll ==
  ASSUME SnapshotInv, SnapshotNext, mode = "polling", mode' = "polling", behind' = "no",
         ~UNCHANGED <<seen, found>>
  PROVE  seen' = Window(history) /\ found' = Plausible(IncomingHistory(seen'))
<1>1. PICK list \in Answers, aborted \in BOOLEAN : Poll(list, aborted)
  <2>1. ~(\E t \in Track : Listen(t)) /\ ~RemoveEntry /\ ~Hydrate /\ ~StartPolling
    BY DEF Listen, RemoveEntry, Hydrate, StartPolling, source
  <2> QED BY <2>1 DEF SnapshotNext
<1>2. seen' = Window(list)
  BY <1>1, PollTypes
<1>3. /\ found' = IF aborted THEN <<>> ELSE Plausible(IncomingHistory(Window(list)))
      /\ mode' = IF aborted THEN "idle" ELSE "polling"
      /\ behind' = IF list = history THEN "no"
                   ELSE IF behind = "no" /\ Undoes(list) THEN "yes" ELSE "lost"
  BY <1>1 DEF Poll
<1>4. list = history /\ ~aborted
  BY <1>3
<1> QED BY <1>2, <1>3, <1>4

(* When nothing is out of date and no remembered list comes back, a Source  *)
(* that finds listens in lists reports every listen to tracks that are new  *)
(* to its list, at once and in order; YouTube Music at least the newest.    *)
THEOREM NewTracksAreReported == SnapshotSpec => NewTracksAreFound
<1> DEFINE few == Len(seen) + Len(since) <= Limit \/ 2 * Len(since) <= Limit
           Found == /\ Plain(since) /\ since # <<>> /\ seen # <<>> /\ few
                    /\ seen' = Window(Reverse(since) \o seen)
                    /\ IsInjective(since) /\ ToSet(since) \cap ToSet(seen) = {}
                    => /\ found' # <<>> /\ Last(found') = Last(since)
                       /\ service = "applemusic" \/ ~discovered => found' = since
<1>1. SnapshotInv /\ [SnapshotNext]_snapshotVars => [Found]_<<seen, found>>
  <2> SUFFICES ASSUME SnapshotInv, SnapshotNext, ~UNCHANGED <<seen, found>>,
                      Plain(since), since # <<>>, seen # <<>>, few,
                      seen' = Window(Reverse(since) \o seen),
                      ToSet(since) \cap ToSet(seen) = {}
               PROVE  /\ found' # <<>> /\ Last(found') = Last(since)
                      /\ service = "applemusic" \/ ~discovered => found' = since
    BY DEF snapshotVars, source
  <2>1. SnapshotTypeOK /\ since \in Seq(Track)
    BY DEF SnapshotInv, SnapshotTypeOK
  <2>2. /\ mode = "polling" /\ mode' = "polling" /\ behind' = "no" /\ ~Reverted(seen')
    BY DEF Plain
  <2>3. found' = Plausible(IncomingHistory(seen'))
    BY <2>2, PlainPoll
  <2>4. IncomingHistory(seen') = since
    BY <2>1, <2>2, NewAnswer
  <2>5. /\ Plausible(since) # <<>> /\ Last(Plausible(since)) = Last(since)
        /\ service = "applemusic" \/ ~discovered => Plausible(since) = since
    <3>1. Plausible(since) # <<>> /\ Last(Plausible(since)) = Last(since)
      BY <2>1, PlausibleIs
    <3>2. service = "applemusic" \/ ~discovered => Plausible(since) = since
      BY DEF Plausible
    <3> QED BY <3>1, <3>2
  <2> QED BY <2>3, <2>4, <2>5
<1> QED BY <1>1, SnapshotInitInv, SnapshotStep, PTL DEF SnapshotSpec, NewTracksAreFound

(* A Source that finds listens in lists reports a track that is listened to *)
(* again, wherever in its list it was, and Apple Music both listens when    *)
(* the track on top is listened to again after another one.                 *)
THEOREM RepeatsAreReported == SnapshotSpec => RepeatsAreFound
<1> DEFINE Found == \A t \in Track : HeardAgain(t) \/ HeardAround(t) => found' = since
<1>1. SnapshotInv /\ [SnapshotNext]_snapshotVars => [Found]_<<seen, found>>
  <2> SUFFICES ASSUME SnapshotInv, SnapshotNext, ~UNCHANGED <<seen, found>>, NEW t \in Track,
                      HeardAgain(t) \/ HeardAround(t)
               PROVE  found' = since
    BY DEF snapshotVars, source
  <2>1. SnapshotTypeOK /\ seen \in Seq(Track) /\ history \in Seq(Track)
    BY DEF SnapshotInv, SnapshotTypeOK
  <2>2. /\ mode = "polling" /\ mode' = "polling" /\ behind' = "no" /\ behind = "no"
        /\ ~Reverted(seen') /\ ~removed
    BY DEF HeardAgain, HeardAround, Plain
  <2>3. seen' = Window(history) /\ found' = Plausible(IncomingHistory(seen'))
    BY <2>2, PlainPoll
  <2>4. seen' \in Seq(Track)
    BY <2>1, <2>3, WindowIs
  <2>5. CASE HeardAgain(t)
    <3> DEFINE D == Track \ {t}
               others == Selected(seen, D)
    <3>1. others \in Seq(Track)
      BY <2>1, SelectedType
    <3>2. /\ since = <<t>> /\ t \in ToSet(seen) /\ seen' = <<t>> \o others
          /\ seen' # seen /\ Len(seen') = Len(seen)
      BY <2>5 DEF HeardAgain, Plain
    <3>3. D \in SUBSET Track /\ D = Track \ {t} /\ others = Selected(seen, D)
      OBVIOUS
    <3> HIDE DEF D, others
    <3>4. IncomingHistory(seen') = <<t>>
      BY <2>1, <2>4, <3>1, <3>2, <3>3, AgainAnswer
    <3>5. Plausible(<<t>>) = <<t>>
      <4>1. <<t>> \in Seq(Track) /\ Len(<<t>>) <= 1
        OBVIOUS
      <4> QED BY <4>1, PlausibleIs
    <3> QED BY <2>3, <3>2, <3>4, <3>5
  <2>6. CASE HeardAround(t)
    <3>1. /\ service = "applemusic" /\ seen # <<>> /\ t # seen[1] /\ since = <<t, seen[1]>>
          /\ seen' # seen
      BY <2>6 DEF HeardAround, Plain
    <3>2. Continues(seen, history, since, service = "applemusic")
      BY <2>2 DEF SnapshotInv, CurrentContinues
    <3>3. PICK x \in Track : x = seen[1]
      BY <2>1, <3>1, FirstOnly
    <3>4. IncomingHistory(seen') = <<t, x>>
      BY <2>1, <2>2, <2>3, <2>4, <3>1, <3>2, <3>3, AroundAnswer
    <3>5. Plausible(<<t, x>>) = <<t, x>>
      BY <3>1 DEF Plausible
    <3> QED BY <2>3, <3>1, <3>3, <3>4, <3>5
  <2> QED BY <2>5, <2>6
<1> QED BY <1>1, SnapshotInitInv, SnapshotStep, PTL DEF SnapshotSpec, RepeatsAreFound

(***************************************************************************)
(* Transforms.  The steps a hook remembers are those its configuration says *)
(* the outcomes of its stages lead to, and a remembered answer belongs to   *)
(* content that had what its stage needs.                                   *)
(***************************************************************************)

Step == [stop : BOOLEAN, error : BOOLEAN, known : {"no", "skip", "prereq"},
         partial : BOOLEAN, patch : Content]

Patched(steps) == UNION { steps[i].patch : i \in DOMAIN steps }

(* The results of the stages that succeeded.                                *)
Given(stages, outcomes) ==
  { stages[i].name : i \in { j \in DOMAIN outcomes : outcomes[j] = "ok" } }

(* What the step of a stage that is run on a new Play tells of its outcome. *)
Tells(step, s, outcome) ==
  /\ step.error = (outcome # "ok")
  /\ step.known = IF outcome \in {"skip", "prereq"} THEN outcome ELSE "no"
  /\ step.stop = ("stop" = IF outcome = "ok" THEN s.onSuccess
                           ELSE IF outcome = "skip" THEN s.onSkip ELSE s.onFailure)
  /\ step.partial = (outcome \in {"prereq", "error"} /\ s.onFailure = "stop" /\ s.partial)

(* The steps a hook made of a new Play and the outcomes of its stages: the  *)
(* patches have the results of the stages that succeeded and no others, and *)
(* these stages had what they need.                                         *)
Follows(stages, steps, outcomes) ==
  /\ Len(outcomes) = Len(steps) /\ Len(steps) <= Len(stages)
  /\ \A i \in DOMAIN steps : Tells(steps[i], stages[i], outcomes[i])
  /\ Patched(steps) = Given(stages, outcomes)
  /\ \A i \in DOMAIN outcomes :
       outcomes[i] = "ok" => stages[i].needs \subseteq Given(stages, outcomes)

Caches ==
  /\ answers \in [Name \X Content -> {"none", "answer", "play"}]
  /\ remembered \in [Hook -> Seq(Step)] /\ kept \in [Hook -> Seq(Step)]
  /\ \A h \in Hook : Len(remembered[h]) <= Len(hooks[h])
  /\ made \in [Hook -> [outcomes : Seq(Outcome), clean : BOOLEAN]]
  /\ result.data \in Content /\ result.cached \in BOOLEAN
  /\ result.hook \in Hook \cup {"none"} /\ runs \in 0..MaxRuns

(* A stage has an answer only to data that have what it needs.              *)
AnswersAreMet ==
  \A h \in Hook, d \in Content : \A i \in DOMAIN hooks[h] :
    answers[<<hooks[h][i].name, d>>] = "answer" => hooks[h][i].needs \subseteq d

RunType == [hook : Hook, waiting : BOOLEAN, data : Content, steps : Seq(Step),
            outcomes : Seq(Outcome), clean : BOOLEAN, over : BOOLEAN]

(* A hook that runs has no steps remembered, so that the steps it will      *)
(* remember are those it makes now.                                         *)
RunFits ==
  run # Idle =>
    /\ run \in RunType
    /\ Len(run.outcomes) = Len(run.steps) /\ Len(run.steps) <= Len(hooks[run.hook])
    /\ ~run.over => Len(run.steps) < Len(hooks[run.hook])
    /\ run.over => run.steps # <<>>
    /\ remembered[run.hook] = <<>>

RunFollows ==
  run # Idle /\ run.clean =>
    /\ ~run.waiting
    /\ Follows(hooks[run.hook], run.steps, run.outcomes)
    /\ run.data = Given(hooks[run.hook], run.outcomes)

(* What is remembered of a hook is what it last made.                       *)
RememberedFollows ==
  \A h \in Hook : remembered[h] # <<>> /\ made[h].clean =>
    Follows(hooks[h], remembered[h], made[h].outcomes) /\ CacheOk(remembered[h])

TransformInv ==
  /\ hooks \in Config /\ Caches /\ AnswersAreMet
  /\ RunFits /\ RunFollows /\ RememberedFollows
  /\ TransformsAsConfigured /\ WhenIsHonoured

-----------------------------------------------------------------------------
LEMMA HooksAreStages ==
  ASSUME hooks \in Config
  PROVE  /\ hooks \in [Hook -> Seq(StageConfig)]
         /\ \A g, h \in Hook : \A i \in DOMAIN hooks[g], j \in DOMAIN hooks[h] :
              hooks[g][i].name = hooks[h][j].name => hooks[g][i] = hooks[h][j]
  BY TransformAssumption

LEMMA PatchedOfAppend ==
  ASSUME NEW steps \in Seq(Step), NEW step \in Step
  PROVE  Patched(Append(steps, step)) = Patched(steps) \cup step.patch
<1> DEFINE more == Append(steps, step)
<1>1. /\ DOMAIN more = DOMAIN steps \cup {Len(steps) + 1}
      /\ \A i \in DOMAIN steps : more[i] = steps[i]
      /\ more[Len(steps) + 1] = step
  OBVIOUS
<1> HIDE DEF more
<1>2. Patched(more) = Patched(steps) \cup step.patch
  BY <1>1 DEF Patched
<1> QED BY <1>2 DEF more

LEMMA GivenOfAppend ==
  ASSUME NEW stages, NEW outcomes \in Seq(Outcome), NEW outcome \in Outcome
  PROVE  Given(stages, Append(outcomes, outcome)) =
           Given(stages, outcomes) \cup IF outcome = "ok"
                                   THEN {stages[Len(outcomes) + 1].name} ELSE {}
<1> DEFINE more == Append(outcomes, outcome)
<1>1. /\ DOMAIN more = DOMAIN outcomes \cup {Len(outcomes) + 1}
      /\ \A i \in DOMAIN outcomes : more[i] = outcomes[i]
      /\ more[Len(outcomes) + 1] = outcome
  OBVIOUS
<1> HIDE DEF more
<1>2. Given(stages, more) = Given(stages, outcomes) \cup IF outcome = "ok"
                                   THEN {stages[Len(outcomes) + 1].name} ELSE {}
  <2>1. CASE outcome = "ok"  BY <2>1, <1>1 DEF Given
  <2>2. CASE outcome # "ok"  BY <2>2, <1>1 DEF Given
  <2> QED BY <2>1, <2>2
<1> QED BY <1>2 DEF more

(* The steps of a new Play and one more.                                    *)
LEMMA FollowsOn ==
  ASSUME hooks \in Config, NEW h \in Hook, NEW steps \in Seq(Step), NEW outcomes \in Seq(Outcome),
         Follows(hooks[h], steps, outcomes), Len(steps) < Len(hooks[h]),
         NEW step \in Step, NEW outcome \in Outcome,
         NEW s, s = hooks[h][Len(steps) + 1],
         Tells(step, s, outcome),
         Given(hooks[h], outcomes) \cup step.patch =
           Given(hooks[h], outcomes) \cup IF outcome = "ok" THEN {s.name} ELSE {},
         outcome = "ok" => s.needs \subseteq Given(hooks[h], outcomes)
  PROVE  Follows(hooks[h], Append(steps, step), Append(outcomes, outcome))
<1> DEFINE n == Len(steps)
           moreSteps == Append(steps, step)
           moreOutcomes == Append(outcomes, outcome)
<1>1. /\ n \in Nat /\ Len(hooks[h]) \in Nat /\ Len(outcomes) = n
      /\ Len(moreSteps) = n + 1 /\ Len(moreOutcomes) = n + 1
      /\ DOMAIN moreSteps = DOMAIN steps \cup {n + 1}
      /\ DOMAIN moreOutcomes = DOMAIN outcomes \cup {n + 1}
      /\ \A i \in DOMAIN steps : moreSteps[i] = steps[i]
      /\ \A i \in DOMAIN outcomes : moreOutcomes[i] = outcomes[i]
      /\ moreSteps[n + 1] = step /\ moreOutcomes[n + 1] = outcome
      /\ DOMAIN steps = 1..n /\ DOMAIN outcomes = 1..n
  BY HooksAreStages DEF Follows
<1>2. /\ Patched(moreSteps) = Patched(steps) \cup step.patch
      /\ Given(hooks[h], moreOutcomes) =
           Given(hooks[h], outcomes) \cup IF outcome = "ok" THEN {s.name} ELSE {}
  BY <1>1, PatchedOfAppend, GivenOfAppend
<1> HIDE DEF moreSteps, moreOutcomes
<1>3. Len(moreOutcomes) = Len(moreSteps) /\ Len(moreSteps) <= Len(hooks[h])
  BY <1>1
<1>4. \A i \in DOMAIN moreSteps : Tells(moreSteps[i], hooks[h][i], moreOutcomes[i])
  BY <1>1 DEF Follows
<1>5. Patched(moreSteps) = Given(hooks[h], moreOutcomes)
  BY <1>2 DEF Follows
<1>6. \A i \in DOMAIN moreOutcomes :
        moreOutcomes[i] = "ok" => hooks[h][i].needs \subseteq Given(hooks[h], moreOutcomes)
  BY <1>1, <1>2 DEF Follows
<1>7. Follows(hooks[h], moreSteps, moreOutcomes)
  BY <1>3, <1>4, <1>5, <1>6 DEF Follows
<1> QED BY <1>7 DEF moreSteps, moreOutcomes

-----------------------------------------------------------------------------
(* One stage. *)

LEMMA StageIs ==
  ASSUME TransformInv, Running
  PROVE  /\ run \in RunType /\ Stage \in StageConfig
         /\ Len(run.steps) \in Nat /\ Len(run.steps) + 1 \in DOMAIN hooks[run.hook]
         /\ Stage = hooks[run.hook][Len(run.steps) + 1]
         /\ OldStep \in Step /\ (~run.waiting => OldStep = NoStep)
<1>1. /\ run \in RunType /\ Len(run.steps) < Len(hooks[run.hook])
      /\ hooks[run.hook] \in Seq(StageConfig) /\ kept[run.hook] \in Seq(Step)
  BY HooksAreStages DEF TransformInv, RunFits, Running, RunType, Caches
<1>2. Len(run.steps) \in Nat /\ Len(run.steps) + 1 \in DOMAIN hooks[run.hook]
  BY <1>1 DEF RunType
<1>3. Stage \in StageConfig /\ Stage = hooks[run.hook][Len(run.steps) + 1]
  BY <1>1, <1>2 DEF Stage
<1>4. NoStep \in Step
  BY DEF NoStep, Step, Content
<1>5. OldStep \in Step /\ (~run.waiting => OldStep = NoStep)
  BY <1>1, <1>2, <1>4 DEF OldStep
<1> QED BY <1>1, <1>2, <1>3, <1>5

LEMMA SucceedsIs ==
  ASSUME TransformInv, Running, NEW data \in Content
  PROVE  /\ Succeeds(Stage, data) \in Step
         /\ ~run.waiting => /\ Tells(Succeeds(Stage, data), Stage, "ok")
                            /\ Succeeds(Stage, data).patch = data \ run.data
<1> DEFINE s == Stage
           old == OldStep
<1>1. s \in StageConfig /\ old \in Step /\ run \in RunType /\ (~run.waiting => old = NoStep)
  BY StageIs
<1>2. Succeeds(s, data) = [old EXCEPT !.stop = (s.onSuccess = "stop"),
                              !.patch = IF data = run.data THEN old.patch ELSE data \ run.data]
  BY DEF Succeeds
<1> HIDE DEF s, old
<1>3. Succeeds(s, data) \in Step
  BY <1>1, <1>2, ZenonT(30) DEF Step, Content, StageConfig, RunType
<1>4. ASSUME ~run.waiting
      PROVE  Tells(Succeeds(s, data), s, "ok") /\ Succeeds(s, data).patch = data \ run.data
  <2>1. old = [stop |-> FALSE, error |-> FALSE, known |-> "no", partial |-> FALSE, patch |-> {}]
    BY <1>1, <1>4 DEF NoStep
  <2>2. /\ Succeeds(s, data).stop = (s.onSuccess = "stop")
        /\ Succeeds(s, data).error = FALSE /\ Succeeds(s, data).known = "no"
        /\ Succeeds(s, data).partial = FALSE
        /\ Succeeds(s, data).patch = data \ run.data
    BY <1>2, <2>1
  <2> QED BY <2>2 DEF Tells
<1> QED BY <1>3, <1>4 DEF s

LEMMA GoesWrongIs ==
  ASSUME TransformInv, Running, NEW outcome \in {"skip", "prereq", "error"}
  PROVE  /\ GoesWrong(Stage, outcome) \in Step
         /\ ~run.waiting => /\ Tells(GoesWrong(Stage, outcome), Stage, outcome)
                            /\ GoesWrong(Stage, outcome).patch = {}
<1> DEFINE s == Stage
           old == OldStep
           new == GoesWrong(s, outcome)
<1>1. s \in StageConfig /\ old \in Step /\ run \in RunType /\ (~run.waiting => old = NoStep)
  BY StageIs
<1>2. new = IF outcome = "skip"
            THEN [old EXCEPT !.stop = (s.onSkip = "stop"), !.error = TRUE, !.known = "skip"]
            ELSE [old EXCEPT !.stop = (s.onFailure = "stop"), !.error = TRUE,
                             !.known = IF outcome = "prereq" THEN "prereq" ELSE old.known,
                             !.partial = old.partial \/ (s.onFailure = "stop" /\ s.partial)]
  BY DEF GoesWrong
<1> HIDE DEF s, old, new
<1>3. new \in Step
  BY <1>1, <1>2 DEF Step, StageConfig
<1>4. ASSUME ~run.waiting
      PROVE  Tells(new, s, outcome) /\ new.patch = {}
  <2>1. old = [stop |-> FALSE, error |-> FALSE, known |-> "no", partial |-> FALSE, patch |-> {}]
    BY <1>1, <1>4 DEF NoStep
  <2>2. /\ new.error = TRUE /\ new.patch = {}
        /\ new.stop = ("stop" = IF outcome = "skip" THEN s.onSkip ELSE s.onFailure)
        /\ new.known = IF outcome \in {"skip", "prereq"} THEN outcome ELSE "no"
        /\ new.partial = (outcome # "skip" /\ s.onFailure = "stop" /\ s.partial)
    <3>1. CASE outcome = "skip"  BY <1>2, <2>1, <3>1
    <3>2. CASE outcome # "skip"  BY <1>1, <1>2, <2>1, <3>2 DEF StageConfig
    <3> QED BY <3>1, <3>2
  <2> QED BY <2>2 DEF Tells
<1> QED BY <1>3, <1>4 DEF s, new

(* Whatever the stage came to, the run goes on as it should.                *)
LEMMA StepsFit ==
  ASSUME TransformInv, Running, NEW step \in Step, NEW data \in Content,
         NEW outcome \in Outcome, NEW own \in BOOLEAN,
         Steps(step, data, outcome, own), UNCHANGED <<hooks, remembered>>,
         ~run.waiting /\ own =>
           /\ Tells(step, Stage, outcome) /\ step.patch = data \ run.data
           /\ data = run.data \cup IF outcome = "ok" THEN {Stage.name} ELSE {}
           /\ outcome = "ok" => Stage.needs \subseteq run.data
  PROVE  RunFits' /\ RunFollows'
<1> DEFINE n == Len(run.steps)
           h == run.hook
           more == Append(run.steps, step)
           moreOutcomes == Append(run.outcomes, outcome)
<1>1. /\ run \in RunType /\ Stage \in StageConfig /\ n \in Nat
      /\ n + 1 \in DOMAIN hooks[h] /\ Stage = hooks[h][n + 1]
      /\ hooks \in Config /\ h \in Hook /\ run # Idle
      /\ Len(run.outcomes) = n /\ n < Len(hooks[h]) /\ remembered[h] = <<>>
      /\ hooks[h] \in Seq(StageConfig)
  BY StageIs, HooksAreStages DEF TransformInv, RunFits, Running, RunType
<1>2. /\ run'.hook = h /\ run'.waiting = run.waiting /\ run'.data = data
      /\ run'.steps = more /\ run'.outcomes = moreOutcomes
      /\ run'.clean = (run.clean /\ own)
      /\ run'.over = (step.stop \/ n + 1 = Len(hooks[h]))
      /\ run' \in RunType
  <2> DEFINE clean == run.clean /\ own
             over  == step.stop \/ n + 1 = Len(hooks[h])
  <2>1. /\ run' = [run EXCEPT !.steps = more, !.data = data, !.outcomes = moreOutcomes,
                             !.clean = clean, !.over = over]
        /\ more \in Seq(Step) /\ moreOutcomes \in Seq(Outcome)
        /\ clean \in BOOLEAN /\ over \in BOOLEAN
    BY <1>1 DEF Steps, RunType, Step
  <2>2. run' \in RunType
    <3> HIDE DEF more, moreOutcomes, n, clean, over
    <3> QED BY <2>1, <1>1 DEF RunType
  <2>3. /\ run'.hook = h /\ run'.waiting = run.waiting /\ run'.data = data
        /\ run'.steps = more /\ run'.outcomes = moreOutcomes
        /\ run'.clean = clean /\ run'.over = over
    <3> HIDE DEF more, moreOutcomes, n, clean, over
    <3> QED BY <2>1, <1>1 DEF RunType
  <2> QED BY <2>2, <2>3
<1>3. Len(more) = n + 1 /\ Len(moreOutcomes) = n + 1 /\ more # <<>>
  BY <1>1, SMTT(30) DEF RunType
<1> HIDE DEF more, moreOutcomes
<1>4. RunFits'
  <2>1. hooks' = hooks /\ remembered' = remembered
    OBVIOUS
  <2>2. n + 1 <= Len(hooks[h]) /\ (~run'.over => n + 1 < Len(hooks[h]))
    <3>1. Len(hooks[h]) \in Nat
      BY <1>1
    <3>2. ~run'.over => n + 1 # Len(hooks[h])
      BY <1>2
    <3> QED BY <1>1, <3>1, <3>2
  <2> QED BY <1>1, <1>2, <1>3, <2>1, <2>2 DEF RunFits
<1>5. ASSUME run.clean, own
      PROVE  /\ Follows(hooks[h], more, moreOutcomes) /\ data = Given(hooks[h], moreOutcomes)
             /\ ~run.waiting
  <2>1. /\ ~run.waiting /\ Follows(hooks[h], run.steps, run.outcomes)
        /\ run.data = Given(hooks[h], run.outcomes)
    BY <1>1, <1>5 DEF TransformInv, RunFollows
  <2>2. Follows(hooks[h], more, moreOutcomes)
    BY <1>1, <1>5, <2>1, FollowsOn, SMTT(30) DEF RunType, more, moreOutcomes
  <2>3. Given(hooks[h], moreOutcomes) = Given(hooks[h], run.outcomes) \cup
                                   IF outcome = "ok" THEN {Stage.name} ELSE {}
    <3>1. run.outcomes \in Seq(Outcome) /\ hooks[h][Len(run.outcomes) + 1] = Stage
      BY <1>1 DEF RunType
    <3> QED BY <3>1, GivenOfAppend DEF moreOutcomes
  <2>4. data = run.data \cup IF outcome = "ok" THEN {Stage.name} ELSE {}
    BY <1>5, <2>1
  <2> QED BY <2>1, <2>2, <2>3, <2>4
<1>6. ASSUME run'.clean
      PROVE  /\ Follows(hooks[h], more, moreOutcomes) /\ data = Given(hooks[h], moreOutcomes)
             /\ ~run.waiting
  <2>1. run.clean /\ own
    BY <1>2, <1>6
  <2> QED BY <1>5, <2>1
<1>7. hooks' = hooks
  OBVIOUS
<1>8. RunFollows'
  <2> SUFFICES ASSUME run'.clean
               PROVE  /\ ~run'.waiting
                      /\ Follows(hooks'[run'.hook], run'.steps, run'.outcomes)
                      /\ run'.data = Given(hooks'[run'.hook], run'.outcomes)
    BY DEF RunFollows
  <2> QED BY <1>2, <1>6, <1>7
<1> QED BY <1>4, <1>8

LEMMA StageHitFits ==
  ASSUME TransformInv, StageHit, UNCHANGED <<hooks, remembered>>
  PROVE  RunFits' /\ RunFollows'
<1> DEFINE s == Stage
           data == IF Known(s) = "play" /\ s.kind = "lookup" THEN run.data
                   ELSE run.data \cup {s.name}
<1>1. Running /\ Known(s) # "none" /\ Steps(Succeeds(s, data), data, "ok", Known(s) # "play")
  BY DEF StageHit
<1>2. /\ run \in RunType /\ s \in StageConfig
      /\ Len(run.steps) + 1 \in DOMAIN hooks[run.hook]
      /\ s = hooks[run.hook][Len(run.steps) + 1]
  BY <1>1, StageIs
<1>3. run.data \in Content /\ data \in Content /\ run.hook \in Hook
  BY <1>2 DEF RunType, StageConfig, Content
<1>4. ASSUME Known(s) # "play"
      PROVE  data = run.data \cup {s.name} /\ s.needs \subseteq run.data
  <2>1. answers[<<s.name, run.data>>] = "answer"
    BY <1>1, <1>2, <1>3, <1>4 DEF Known, TransformInv, Caches, StageConfig
  <2>2. s.needs \subseteq run.data
    BY <1>2, <1>3, <2>1 DEF TransformInv, AnswersAreMet
  <2> QED BY <1>4, <2>2
<1>5. ~run.waiting /\ Known(s) # "play" =>
         /\ Tells(Succeeds(s, data), s, "ok") /\ Succeeds(s, data).patch = data \ run.data
         /\ data = run.data \cup {s.name} /\ s.needs \subseteq run.data
  BY <1>1, <1>3, <1>4, SucceedsIs
<1>6. Succeeds(s, data) \in Step
  BY <1>1, <1>3, SucceedsIs
<1> HIDE DEF data
<1>7. "ok" \in Outcome /\ (Known(s) # "play") \in BOOLEAN
  BY DEF Outcome
<1> QED BY <1>1, <1>3, <1>5, <1>6, <1>7, StepsFit

LEMMA StageRunsFits ==
  ASSUME TransformInv, NEW outcome \in Outcome, StageRuns(outcome), UNCHANGED <<hooks, remembered>>
  PROVE  RunFits' /\ RunFollows'
<1> DEFINE s == Stage
<1>1. /\ Running /\ Known(s) = "none"
      /\ outcome \in IF ~WhenMet(s) THEN {"skip"} ELSE IF s.kind = "user" THEN {"ok"} ELSE Outcome
      /\ IF outcome = "ok"
         THEN Steps(Succeeds(s, run.data \cup {s.name}), run.data \cup {s.name}, "ok", TRUE)
         ELSE Steps(GoesWrong(s, outcome), run.data, outcome, TRUE)
  BY DEF StageRuns
<1>2. /\ run \in RunType /\ s \in StageConfig
      /\ run.data \in Content /\ run.data \cup {s.name} \in Content
  BY <1>1, StageIs DEF RunType, StageConfig, Content
<1>3. CASE outcome = "ok"
  <2>1. s.needs \subseteq run.data
    BY <1>1, <1>3 DEF WhenMet
  <2> DEFINE data == run.data \cup {s.name}
             step == Succeeds(s, data)
  <2>2. /\ step \in Step
        /\ ~run.waiting => Tells(step, s, "ok") /\ step.patch = data \ run.data
    BY <1>1, <1>2, SucceedsIs
  <2>3. Steps(step, data, "ok", TRUE) /\ data = run.data \cup {s.name} /\ data \in Content
    BY <1>1, <1>2, <1>3
  <2> HIDE DEF data, step
  <2> QED BY <1>1, <1>3, <2>1, <2>2, <2>3, StepsFit
<1>4. CASE outcome # "ok"
  <2> DEFINE step == GoesWrong(s, outcome)
  <2>1. outcome \in {"skip", "prereq", "error"}
    BY <1>4 DEF Outcome
  <2>2. /\ step \in Step
        /\ ~run.waiting => Tells(step, s, outcome) /\ step.patch = {}
    BY <1>1, <2>1, GoesWrongIs
  <2>3. Steps(step, run.data, outcome, TRUE)
    BY <1>1, <1>4
  <2> HIDE DEF step
  <2> QED BY <1>1, <1>2, <1>4, <2>2, <2>3, StepsFit
<1> QED BY <1>3, <1>4

(* A stage that answers had what it needs, and so has every stage of the    *)
(* same name.                                                               *)
LEMMA AnswersStayMet ==
  ASSUME TransformInv, UNCHANGED hooks,
         answers' = answers \/ \E outcome \in Outcome : StageRuns(outcome)
  PROVE  /\ answers' \in [Name \X Content -> {"none", "answer", "play"}]
         /\ AnswersAreMet'
<1> DEFINE kinds == {"none", "answer", "play"}
<1>1. answers \in [Name \X Content -> kinds] /\ AnswersAreMet
  BY DEF TransformInv, Caches
<1>2. CASE answers' = answers
  BY <1>1, <1>2 DEF AnswersAreMet
<1>3. ASSUME NEW outcome \in Outcome, StageRuns(outcome), answers' # answers
      PROVE  answers' \in [Name \X Content -> kinds] /\ AnswersAreMet'
  <2> DEFINE s == Stage
             key == <<s.name, run.data>>
  <2>1. PICK answer \in {"answer", "play"} :
          /\ answers' = [answers EXCEPT ![key] = answer]
          /\ answer = "answer" => s.needs \subseteq run.data
    BY <1>3 DEF StageRuns, Remembers, WhenMet
  <2>2. /\ run \in RunType /\ s \in StageConfig
        /\ Len(run.steps) + 1 \in DOMAIN hooks[run.hook]
        /\ s = hooks[run.hook][Len(run.steps) + 1]
    BY <1>3, StageIs DEF StageRuns
  <2>3. key \in Name \X Content
    BY <2>2 DEF StageConfig, RunType
  <2>4. answers' \in [Name \X Content -> kinds]
    BY <1>1, <2>1, <2>3
  <2>5. AnswersAreMet'
    <3> SUFFICES ASSUME NEW h \in Hook, NEW d \in Content, NEW i \in DOMAIN hooks[h],
                        answers'[<<hooks[h][i].name, d>>] = "answer"
                 PROVE  hooks[h][i].needs \subseteq d
      BY DEF AnswersAreMet
    <3>1. hooks[h][i] \in StageConfig
      BY HooksAreStages DEF TransformInv
    <3>2. <<hooks[h][i].name, d>> \in Name \X Content
      BY <3>1 DEF StageConfig
    <3>3. CASE <<hooks[h][i].name, d>> = key
      <4>1. hooks[h][i] = s /\ d = run.data /\ answer = "answer"
        BY <1>1, <2>1, <2>2, <2>3, <3>3, HooksAreStages DEF TransformInv, RunType
      <4> QED BY <2>1, <4>1
    <3>4. CASE <<hooks[h][i].name, d>> # key
      BY <1>1, <2>1, <3>2, <3>4 DEF AnswersAreMet
    <3> QED BY <3>3, <3>4
  <2> QED BY <2>4, <2>5
<1> QED BY <1>2, <1>3

(* A step that leaves what hooks made keeps what is known of it.            *)
LEMMA MadeStands ==
  ASSUME TransformInv, UNCHANGED <<hooks, remembered, result, made>>
  PROVE  RememberedFollows' /\ TransformsAsConfigured' /\ WhenIsHonoured'
<1>1. RememberedFollows'
  BY DEF TransformInv, RememberedFollows, CacheOk
<1>2. TransformsAsConfigured'
  BY DEF TransformInv, TransformsAsConfigured
<1>3. WhenIsHonoured'
  BY DEF TransformInv, WhenIsHonoured
<1> QED BY <1>1, <1>2, <1>3

LEMMA StageStep ==
  ASSUME TransformInv, RunStage
  PROVE  TransformInv'
<1>1. UNCHANGED <<hooks, remembered, kept, runs, result, made>>
  BY DEF RunStage
<1>2. RunFits' /\ RunFollows'
  BY <1>1, StageHitFits, StageRunsFits DEF RunStage
<1>3. answers' = answers \/ \E outcome \in Outcome : StageRuns(outcome)
  BY DEF RunStage, StageHit
<1>4. answers' \in [Name \X Content -> {"none", "answer", "play"}] /\ AnswersAreMet'
  BY <1>1, <1>3, AnswersStayMet
<1>5. Caches'
  BY <1>1, <1>4 DEF TransformInv, Caches
<1>6. RememberedFollows' /\ TransformsAsConfigured' /\ WhenIsHonoured'
  BY <1>1, MadeStands
<1> QED BY <1>1, <1>2, <1>4, <1>5, <1>6 DEF TransformInv

-----------------------------------------------------------------------------
(* The result of a hook. *)

(* The steps and the outcomes tell the same, first of the last of them.     *)
LEMMA LastTells ==
  ASSUME hooks \in Config, NEW h \in Hook, NEW steps \in Seq(Step), NEW outcomes \in Seq(Outcome),
         Follows(hooks[h], steps, outcomes), steps # <<>>
  PROVE  /\ Len(outcomes) \in DOMAIN outcomes /\ Len(outcomes) = Len(steps)
         /\ Last(steps) = steps[Len(steps)] /\ Last(outcomes) = outcomes[Len(outcomes)]
         /\ Last(steps) \in Step /\ Last(outcomes) \in Outcome
         /\ hooks[h][Len(outcomes)] \in StageConfig
         /\ Tells(Last(steps), hooks[h][Len(outcomes)], Last(outcomes))
<1>1. /\ Len(steps) \in Nat /\ Len(steps) # 0 /\ Len(outcomes) = Len(steps)
      /\ Len(steps) <= Len(hooks[h]) /\ hooks[h] \in Seq(StageConfig)
  BY HooksAreStages DEF Follows
<1>2. /\ Len(steps) \in DOMAIN steps /\ Len(steps) \in DOMAIN outcomes
      /\ Len(steps) \in DOMAIN hooks[h]
  BY <1>1
<1>3. Last(steps) = steps[Len(steps)] /\ Last(outcomes) = outcomes[Len(steps)]
  BY <1>1 DEF Last
<1> QED BY <1>1, <1>2, <1>3 DEF Follows

(* What the results of a new Play are.                                      *)
LEMMA WhatIsMade ==
  ASSUME hooks \in Config, NEW h \in Hook, NEW steps \in Seq(Step), NEW outcomes \in Seq(Outcome),
         Follows(hooks[h], steps, outcomes), steps # <<>>
  PROVE  AsConfigured(hooks[h], outcomes) =
           IF Fails(hooks[h][Len(outcomes)], Last(outcomes)) THEN {} ELSE Given(hooks[h], outcomes)
<1>1. Last(outcomes) = outcomes[Len(outcomes)] /\ DOMAIN outcomes = 1..Len(outcomes)
  BY LastTells
<1> QED BY <1>1 DEF AsConfigured, Given

(* A stage that succeeded had what it needs, and so has another like it.    *)
LEMMA GivenIsMet ==
  ASSUME hooks \in Config, NEW h \in Hook, NEW steps \in Seq(Step), NEW outcomes \in Seq(Outcome),
         Follows(hooks[h], steps, outcomes), NEW data \in {{}, Given(hooks[h], outcomes)}
  PROVE  \A i \in DOMAIN hooks[h] : hooks[h][i].name \in data => hooks[h][i].needs \subseteq data
<1> SUFFICES ASSUME NEW i \in DOMAIN hooks[h], hooks[h][i].name \in data
             PROVE  hooks[h][i].needs \subseteq data
  OBVIOUS
<1>1. data = Given(hooks[h], outcomes)
  OBVIOUS
<1>2. PICK j \in DOMAIN outcomes : outcomes[j] = "ok" /\ hooks[h][j].name = hooks[h][i].name
  BY <1>1 DEF Given
<1>3. j \in DOMAIN hooks[h]
  BY HooksAreStages DEF Follows
<1>4. hooks[h][i] = hooks[h][j]
  BY <1>2, <1>3, HooksAreStages
<1> QED BY <1>1, <1>2, <1>4 DEF Follows

LEMMA PatchedIsContent ==
  ASSUME NEW steps \in Seq(Step)
  PROVE  Patched(steps) \in Content
<1>1. \A i \in DOMAIN steps : steps[i] \in Step
  OBVIOUS
<1>2. \A i \in DOMAIN steps : steps[i].patch \subseteq Name
  BY <1>1 DEF Step, Content
<1>3. Patched(steps) \subseteq Name
  BY <1>2 DEF Patched
<1> QED BY <1>3 DEF Content

LEMMA ReplayStep ==
  ASSUME TransformInv, NEW h \in Hook, Replay(h), runs' \in 0..MaxRuns,
         UNCHANGED <<hooks, answers, remembered, kept>>
  PROVE  TransformInv'
<1> DEFINE steps == remembered[h]
           outcomes == made[h].outcomes
           data == Replayed(steps)
<1>1. /\ result' = [data |-> data, hook |-> h, cached |-> TRUE] /\ steps # <<>>
      /\ UNCHANGED <<run, made>>
  BY DEF Replay
<1>2. hooks \in Config /\ steps \in Seq(Step) /\ outcomes \in Seq(Outcome)
  BY DEF TransformInv, Caches
<1>3. data \in {{}, Patched(steps)} /\ data \in Content
  BY <1>2, PatchedIsContent DEF Replayed, Patched, Content
<1>4. Caches' /\ AnswersAreMet'
  BY <1>1, <1>3 DEF TransformInv, Caches, AnswersAreMet
<1>5. RunFits' /\ RunFollows'
  BY <1>1 DEF TransformInv, RunFits, RunFollows
<1>6. RememberedFollows'
  BY <1>1 DEF TransformInv, RememberedFollows, CacheOk
<1>7. ASSUME made[h].clean
      PROVE  /\ \/ data = AsConfigured(hooks[h], outcomes)
                \/ /\ Last(outcomes) = "prereq"
                   /\ hooks[h][Len(outcomes)].onFailure = "continue"
             /\ \A i \in DOMAIN hooks[h] :
                  hooks[h][i].name \in data => hooks[h][i].needs \subseteq data
  <2>1. Follows(hooks[h], steps, outcomes) /\ CacheOk(steps)
    BY <1>1, <1>7 DEF TransformInv, RememberedFollows
  <2> DEFINE end == Last(steps)
             outcome == Last(outcomes)
             s == hooks[h][Len(outcomes)]
  <2>2. /\ end \in Step /\ outcome \in Outcome /\ s \in StageConfig /\ Tells(end, s, outcome)
        /\ AsConfigured(hooks[h], outcomes) = IF Fails(s, outcome) THEN {} ELSE Given(hooks[h], outcomes)
        /\ ~end.error \/ end.known # "no"
    BY <1>1, <1>2, <2>1, LastTells, WhatIsMade DEF CacheOk
  <2>3. data = IF end.error /\ end.known # "skip" /\ ~end.partial THEN {}
               ELSE Given(hooks[h], outcomes)
    BY <2>1 DEF Replayed, Patched, Follows
  <2> HIDE DEF data, end, outcome, s
  <2>4. data = AsConfigured(hooks[h], outcomes) \/ (outcome = "prereq" /\ s.onFailure = "continue")
    BY <2>2, <2>3 DEF Tells, Fails, Step, StageConfig, Outcome, Flow
  <2>5. data \in {{}, Given(hooks[h], outcomes)}
    BY <2>3
  <2>6. \A i \in DOMAIN hooks[h] :
          hooks[h][i].name \in data => hooks[h][i].needs \subseteq data
    BY <1>2, <2>1, <2>5, GivenIsMet
  <2> QED BY <2>4, <2>6 DEF outcome, s
<1> HIDE DEF data
<1>8. result'.data = data /\ result'.hook = h /\ result'.cached = TRUE
  BY <1>1
<1>9. TransformsAsConfigured'
  BY <1>1, <1>7, <1>8 DEF TransformsAsConfigured
<1>10. WhenIsHonoured'
  BY <1>1, <1>7, <1>8 DEF WhenIsHonoured
<1> QED BY <1>4, <1>5, <1>6, <1>9, <1>10 DEF TransformInv

LEMMA GenerateStep ==
  ASSUME TransformInv, NEW h \in Hook, NEW waiting \in BOOLEAN, Generate(h, waiting),
         runs' \in 0..MaxRuns, UNCHANGED <<hooks, answers, remembered, kept>>
  PROVE  TransformInv'
<1>1. /\ run' = [hook |-> h, waiting |-> waiting, data |-> {}, steps |-> <<>>,
                 outcomes |-> <<>>, clean |-> ~waiting, over |-> FALSE]
      /\ remembered[h] = <<>> /\ UNCHANGED <<result, made>>
  BY DEF Generate, Idle
<1>2. Caches' /\ AnswersAreMet'
  BY <1>1 DEF TransformInv, Caches, AnswersAreMet
<1>3. Len(hooks[h]) \in Nat /\ Len(hooks[h]) > 0
  BY TransformAssumption DEF TransformInv
<1>4. RunFits'
  <2>1. run' \in RunType
    BY <1>1 DEF RunType, Content
  <2> QED BY <1>1, <1>3, <2>1 DEF RunFits
<1>5. RunFollows'
  <2> DEFINE none == <<>>
  <2>1. Len(none) = 0 /\ DOMAIN none = {}
    OBVIOUS
  <2> HIDE DEF none
  <2>2. Given(hooks[h], none) = {} /\ Patched(none) = {}
    BY <2>1 DEF Given, Patched
  <2>3. Follows(hooks[h], none, none)
    BY <1>3, <2>1, <2>2 DEF Follows
  <2> QED BY <1>1, <2>2, <2>3 DEF RunFollows, none
<1> QED BY <1>1, <1>2, <1>4, <1>5, MadeStands DEF TransformInv

LEMMA TransformStep ==
  ASSUME TransformInv, NEW h \in Hook, NEW waiting \in BOOLEAN, Transform(h, waiting)
  PROVE  TransformInv'
<1>1. runs' \in 0..MaxRuns
  BY TransformAssumption DEF Transform, TransformInv, Caches
<1> QED BY <1>1, ReplayStep, GenerateStep DEF Transform

LEMMA FinishStep ==
  ASSUME TransformInv, Finish
  PROVE  TransformInv'
<1> DEFINE h == run.hook
           steps == run.steps
           outcomes == run.outcomes
           end == Last(steps)
           reverted == end.stop /\ end.error /\ end.known # "skip" /\ ~end.partial
           data == IF reverted THEN {} ELSE run.data
           new == [outcomes |-> outcomes, clean |-> run.clean]
<1>1. /\ run.over /\ result' = [data |-> data, hook |-> h, cached |-> FALSE]
      /\ remembered' = IF CacheOk(steps) THEN [remembered EXCEPT ![h] = steps] ELSE remembered
      /\ kept' = kept \/ kept' = [kept EXCEPT ![h] = steps]
      /\ made' = [made EXCEPT ![h] = new]
      /\ run' = Idle /\ UNCHANGED <<hooks, answers, runs>>
  BY DEF Finish
<1>2. run # Idle
  BY <1>1 DEF Idle
<1>3. /\ run \in RunType /\ h \in Hook /\ steps \in Seq(Step) /\ outcomes \in Seq(Outcome)
      /\ Len(steps) <= Len(hooks[h]) /\ steps # <<>> /\ remembered[h] = <<>>
      /\ hooks \in Config /\ run.data \in Content /\ run.clean \in BOOLEAN
  BY <1>1, <1>2 DEF TransformInv, RunFits, RunType
<1>4. remembered \in [Hook -> Seq(Step)] /\ made \in [Hook -> [outcomes : Seq(Outcome), clean : BOOLEAN]]
  BY DEF TransformInv, Caches
<1>5. /\ made' \in [Hook -> [outcomes : Seq(Outcome), clean : BOOLEAN]]
      /\ made'[h].outcomes = outcomes /\ made'[h].clean = run.clean
      /\ \A g \in Hook \ {h} : made'[g] = made[g]
  <2>1. new \in [outcomes : Seq(Outcome), clean : BOOLEAN]
    BY <1>3
  <2>2. new.outcomes = outcomes /\ new.clean = run.clean
    OBVIOUS
  <2> HIDE DEF new
  <2> QED BY <1>1, <1>3, <1>4, <2>1, <2>2
<1>6. data \in Content /\ data \in {{}, run.data}
  BY <1>3 DEF Content
<1>7. /\ remembered' \in [Hook -> Seq(Step)]
      /\ \A g \in Hook \ {h} : remembered'[g] = remembered[g]
      /\ remembered'[h] # <<>> => remembered'[h] = steps /\ CacheOk(steps)
  BY <1>1, <1>3, <1>4
<1> HIDE DEF h, steps, outcomes, new
<1>8. ASSUME run.clean
      PROVE  /\ Follows(hooks[h], steps, outcomes)
             /\ data = AsConfigured(hooks[h], outcomes)
             /\ \A i \in DOMAIN hooks[h] :
                  hooks[h][i].name \in data => hooks[h][i].needs \subseteq data
  <2>1. Follows(hooks[h], steps, outcomes) /\ run.data = Given(hooks[h], outcomes)
    BY <1>2, <1>8 DEF TransformInv, RunFollows, h, steps, outcomes
  <2> DEFINE outcome == Last(outcomes)
             s == hooks[h][Len(outcomes)]
  <2>2. /\ end \in Step /\ outcome \in Outcome /\ s \in StageConfig /\ Tells(end, s, outcome)
        /\ AsConfigured(hooks[h], outcomes) = IF Fails(s, outcome) THEN {} ELSE Given(hooks[h], outcomes)
    BY <1>3, <2>1, LastTells, WhatIsMade
  <2> HIDE DEF end, outcome, s
  <2>3. reverted <=> Fails(s, outcome)
    BY <2>2 DEF Tells, Fails, Step, StageConfig, Outcome
  <2>4. data = AsConfigured(hooks[h], outcomes)
    BY <2>1, <2>2, <2>3
  <2>5. data \in {{}, Given(hooks[h], outcomes)}
    BY <1>6, <2>1
  <2> HIDE DEF data
  <2>6. \A i \in DOMAIN hooks[h] :
          hooks[h][i].name \in data => hooks[h][i].needs \subseteq data
    BY <1>3, <2>1, <2>5, GivenIsMet
  <2> QED BY <2>1, <2>4, <2>6
<1> HIDE DEF data
<1>9. result'.data = data /\ result'.hook = h /\ result'.cached = FALSE
  BY <1>1
<1>10. Caches'
  <2>1. result' \in [data : Content, hook : Hook, cached : BOOLEAN]
    BY <1>1, <1>3, <1>6
  <2>2. \A g \in Hook : Len(remembered'[g]) <= Len(hooks[g])
    BY <1>3, <1>7 DEF TransformInv, Caches
  <2>3. kept' \in [Hook -> Seq(Step)]
    BY <1>1, <1>3 DEF TransformInv, Caches
  <2> QED BY <1>1, <1>5, <1>7, <2>1, <2>2, <2>3 DEF TransformInv, Caches
<1>11. AnswersAreMet' /\ RunFits' /\ RunFollows'
  BY <1>1 DEF TransformInv, AnswersAreMet, RunFits, RunFollows
<1>12. RememberedFollows'
  <2> SUFFICES ASSUME NEW g \in Hook, remembered'[g] # <<>>, made'[g].clean
               PROVE  /\ Follows(hooks'[g], remembered'[g], made'[g].outcomes)
                      /\ CacheOk(remembered'[g])
    BY DEF RememberedFollows, CacheOk
  <2>1. CASE g = h
    BY <1>1, <1>5, <1>7, <1>8, <2>1
  <2>2. CASE g # h
    BY <1>1, <1>5, <1>7, <2>2 DEF TransformInv, RememberedFollows
  <2> QED BY <2>1, <2>2
<1>13. TransformsAsConfigured'
  <2> SUFFICES ASSUME run.clean
               PROVE  data = AsConfigured(hooks[h], outcomes)
    BY <1>1, <1>5, <1>9 DEF TransformsAsConfigured
  <2> QED BY <1>8
<1>14. WhenIsHonoured'
  BY <1>1, <1>5, <1>8, <1>9 DEF WhenIsHonoured
<1> QED BY <1>1, <1>10, <1>11, <1>12, <1>13, <1>14 DEF TransformInv

-----------------------------------------------------------------------------
LEMMA AnswersExpireStep ==
  ASSUME TransformInv, AnswersExpire
  PROVE  TransformInv'
<1>1. /\ answers' = [key \in Name \X Content |-> "none"]
      /\ UNCHANGED <<hooks, remembered, kept, run, runs, result, made>>
  BY DEF AnswersExpire, TransformInv, Caches
<1>2. AnswersAreMet'
  <2> SUFFICES ASSUME NEW h \in Hook, NEW d \in Content, NEW i \in DOMAIN hooks[h]
               PROVE  answers'[<<hooks[h][i].name, d>>] # "answer"
    BY <1>1 DEF AnswersAreMet
  <2>1. hooks[h][i].name \in Name
    <3>1. hooks[h][i] \in StageConfig
      BY HooksAreStages DEF TransformInv
    <3> QED BY <3>1 DEF StageConfig
  <2>2. \A key \in Name \X Content : answers'[key] = "none"
    BY <1>1
  <2>3. <<hooks[h][i].name, d>> \in Name \X Content
    BY <2>1
  <2> QED BY <2>2, <2>3
<1>3. Caches' /\ RunFits' /\ RunFollows'
  BY <1>1 DEF TransformInv, Caches, RunFits, RunFollows
<1> QED BY <1>1, <1>2, <1>3, MadeStands DEF TransformInv

LEMMA StepsExpireStep ==
  ASSUME TransformInv, NEW h \in Hook, StepsExpire(h)
  PROVE  TransformInv'
<1>1. /\ remembered' = [remembered EXCEPT ![h] = <<>>]
      /\ UNCHANGED <<hooks, answers, kept, run, runs, result, made>>
  BY DEF StepsExpire
<1>2. \A g \in Hook : remembered'[g] = IF g = h THEN <<>> ELSE remembered[g]
  BY <1>1 DEF TransformInv, Caches
<1>3. Caches'
  <2>1. remembered' \in [Hook -> Seq(Step)]
    BY <1>1 DEF TransformInv, Caches
  <2>2. \A g \in Hook : Len(remembered'[g]) <= Len(hooks[g])
    BY <1>2, HooksAreStages DEF TransformInv, Caches
  <2> QED BY <1>1, <2>1, <2>2 DEF TransformInv, Caches
<1>4. AnswersAreMet' /\ RunFollows'
  BY <1>1 DEF TransformInv, AnswersAreMet, RunFollows
<1>5. RunFits'
  BY <1>1, <1>2 DEF TransformInv, RunFits, RunType
<1>6. RememberedFollows'
  BY <1>1, <1>2 DEF TransformInv, RememberedFollows, CacheOk
<1>7. TransformsAsConfigured' /\ WhenIsHonoured'
  BY <1>1 DEF TransformInv, TransformsAsConfigured, WhenIsHonoured
<1> QED BY <1>1, <1>3, <1>4, <1>5, <1>6, <1>7 DEF TransformInv

LEMMA TransformStarts ==
  ASSUME TransformInit
  PROVE  TransformInv
<1>1. Caches
  <2>1. hooks \in [Hook -> Seq(StageConfig)]
    BY HooksAreStages DEF TransformInit
  <2>2. \A h \in Hook : Len(remembered[h]) <= Len(hooks[h])
    BY <2>1 DEF TransformInit
  <2> QED BY <2>2, TransformAssumption DEF TransformInit, Caches, Content
<1>2. AnswersAreMet
  <2> SUFFICES ASSUME NEW h \in Hook, NEW d \in Content, NEW i \in DOMAIN hooks[h]
               PROVE  answers[<<hooks[h][i].name, d>>] # "answer"
    BY DEF AnswersAreMet
  <2>1. hooks[h][i].name \in Name
    <3>1. hooks[h][i] \in StageConfig
      BY HooksAreStages DEF TransformInit
    <3> QED BY <3>1 DEF StageConfig
  <2>2. \A key \in Name \X Content : answers[key] = "none"
    BY DEF TransformInit
  <2>3. <<hooks[h][i].name, d>> \in Name \X Content
    BY <2>1
  <2> QED BY <2>2, <2>3
<1>3. RunFits /\ RunFollows /\ RememberedFollows
  BY DEF TransformInit, RunFits, RunFollows, RememberedFollows
<1>4. TransformsAsConfigured /\ WhenIsHonoured
  BY DEF TransformInit, TransformsAsConfigured, WhenIsHonoured
<1> QED BY <1>1, <1>2, <1>3, <1>4 DEF TransformInit, TransformInv

LEMMA TransformStays ==
  ASSUME TransformInv, [TransformNext]_transformVars
  PROVE  TransformInv'
<1>1. CASE UNCHANGED transformVars
  <2>1. UNCHANGED <<hooks, answers, remembered, kept, run, runs, result, made>>
    BY <1>1 DEF transformVars
  <2>2. Caches' /\ AnswersAreMet' /\ RunFits' /\ RunFollows'
    BY <2>1 DEF TransformInv, Caches, AnswersAreMet, RunFits, RunFollows
  <2> QED BY <2>1, <2>2, MadeStands DEF TransformInv
<1>2. CASE TransformNext
  BY <1>2, TransformStep, StageStep, FinishStep, AnswersExpireStep, StepsExpireStep
     DEF TransformNext
<1> QED BY <1>1, <1>2

LEMMA NoOutageRemembered ==
  ASSUME TransformInv
  PROVE  OutagesAreNotRemembered
<1> SUFFICES ASSUME NEW h \in Hook, remembered[h] # <<>>, made[h].clean
             PROVE  Last(made[h].outcomes) # "error"
  BY DEF OutagesAreNotRemembered
<1>1. Follows(hooks[h], remembered[h], made[h].outcomes) /\ CacheOk(remembered[h])
  BY DEF TransformInv, RememberedFollows
<1>2. /\ hooks \in Config /\ remembered[h] \in Seq(Step) /\ made[h].outcomes \in Seq(Outcome)
  BY DEF TransformInv, Caches
<1>3. Tells(Last(remembered[h]), hooks[h][Len(made[h].outcomes)], Last(made[h].outcomes))
  BY <1>1, <1>2, LastTells
<1> QED BY <1>1, <1>3 DEF CacheOk, Tells

(* A hook does what its configuration says when it first transforms a Play, *)
(* and again from the cache of steps, for every configuration of every hook *)
(* and whatever fails, expires or is transformed in between, unless a cached *)
(* answer was the Play itself (left by a stage that was skipped or found     *)
(* nothing); and an error of its last stage is not remembered, which an      *)
(* earlier one may be (AbstractComponent.ts, transformPlay and               *)
(* generateStepFromStage).                                                  *)
THEOREM TransformsAlwaysSound == TransformSpec => []TransformsAreSound
<1>1. TransformInv => TransformsAreSound
  BY NoOutageRemembered DEF TransformInv, TransformsAreSound
<1>2. TransformInit => TransformInv
  BY TransformStarts
<1>3. TransformInv /\ [TransformNext]_transformVars => TransformInv'
  BY TransformStays
<1> QED BY <1>1, <1>2, <1>3, PTL DEF TransformSpec

(* The Play a hook returns, and what it remembers, have no result that no    *)
(* stage gives, and no more steps than there are stages (transformPlay).    *)
THEOREM TransformsAlwaysTyped == TransformSpec => []TransformTypeOK
<1>1. TransformInv => TransformTypeOK
  BY DEF TransformInv, Caches, TransformTypeOK, RunFits, RunType, Idle, Content
<1>2. TransformInit => TransformInv
  BY TransformStarts
<1>3. TransformInv /\ [TransformNext]_transformVars => TransformInv'
  BY TransformStays
<1> QED BY <1>1, <1>2, <1>3, PTL DEF TransformSpec

(***************************************************************************)
(* Retention.  A component deletes and then compacts once an hour, so that  *)
(* what it has done is known from its turn; what it did not touch was not   *)
(* due then, and every update of a Play but those of its Client is one of   *)
(* these.                                                                   *)
(***************************************************************************)

(* Has a component deleted, has it compacted, since the hour began?         *)
HasDeleted(x) ==
  swept /\ cleaning[x] # "delete" /\ (x = Origin /\ Sweeping => cleaning[x] = "compact")

HasCompacted(x) == swept /\ cleaning[x] = "no" /\ (x = Origin => ~Sweeping)

LastRun(has) == IF has THEN hour ELSE hour - 1

(* Whose policy is about a Client's Play of a kind.                         *)
Concerned(k) == IF k = "completed" THEN Owner ELSE Component

Settled(c) == c \in Owner /\ There(c) /\ stored[c].state # "queued"

(* The components take turns, in the hour they belong to.                   *)
TurnsTaken ==
  /\ ~swept => ~Sweeping
  /\ cleaning[Origin] # "no" => \A c \in Owner : cleaning[c] = "no"

(* A row that is there has been updated since its Client had its answer,    *)
(* and is a Client's or the Source's.                                       *)
RowsFit ==
  /\ \A p \in Component : stored[p].seen = 0 /\ stored[p].updated <= hour
  /\ \A c \in Owner : /\ stored[c].state # "discovered" /\ settled[c] <= hour
                      /\ There(c) => settled[c] <= stored[c].updated

(* No update comes later than the last there may be,                        *)
UpdatesEnd == \A c \in Owner : Settled(c) => stored[c].updated <= LastUpdate(c)

(* because the first run of the task in which a Play is due compacts it,    *)
CompactionDue(c, x) ==
  LET k    == KindOf(c)
      last == LastRun(HasCompacted(x))
  IN /\ Settled(c) /\ x \in Concerned(k)
     /\ policy[x].properties # {} /\ policy[x].compact[k] # Off
     /\ settled[c] < last /\ policy[x].compact[k] <= last

CompactedWhenDue ==
  \A c \in Owner, x \in Component :
    CompactionDue(c, x) => stored[c].compacted = policy[x].properties

(* and the first run in which it has expired deletes it.                    *)
DeletedWhenDue ==
  \A c \in Owner : \A x \in Concerned(KindOf(c)) :
    Settled(c) => LastRun(HasDeleted(x)) < LastUpdate(c) + policy[x].delete[KindOf(c)]

RetentionInv ==
  /\ RetentionTypeOK /\ TurnsTaken /\ RowsFit /\ KeptWhileNeeded
  /\ Alike => UpdatesEnd /\ CompactedWhenDue /\ DeletedWhenDue

-----------------------------------------------------------------------------
(* Numbers. *)

(* A finite set of numbers has a greatest one: the smallest that had none   *)
(* would have one with an element less.                                     *)
LEMMA GreatestNatural ==
  ASSUME NEW S, IsFiniteSet(S), S \subseteq Nat, S # {}
  PROVE  \E m \in S : \A n \in S : n <= m
<1> DEFINE Without(T) == T # {} /\ ~ \E m \in T : \A n \in T : n <= m
           Bad   == { U \in SUBSET S : Without(U) }
           Sizes == { Cardinality(T) : T \in Bad }
<1> SUFFICES ASSUME Without(S) PROVE FALSE
  OBVIOUS
<1>1. \A T \in Bad : T \subseteq S /\ IsFiniteSet(T) /\ Cardinality(T) \in Nat /\ Without(T)
  BY FS_Subset, FS_CardinalityType
<1>2. PICK T \in Bad : \A U \in Bad : Cardinality(T) <= Cardinality(U)
  <2>1. S \in Bad
    OBVIOUS
  <2> HIDE DEF Bad
  <2>2. Sizes \subseteq Nat /\ Sizes # {}
    BY <1>1, <2>1
  <2>3. PICK size \in Sizes : \A other \in Sizes : size <= other
    BY <2>2, LeastNatural
  <2>4. PICK T \in Bad : size = Cardinality(T)
    BY <2>3
  <2>5. \A U \in Bad : Cardinality(U) \in Sizes
    OBVIOUS
  <2> HIDE DEF Sizes
  <2> WITNESS T \in Bad
  <2> QED BY <2>3, <2>4, <2>5
<1>3. PICK x \in T : TRUE
  BY <1>1, <1>2
<1>4. IsFiniteSet(T) /\ Cardinality(T) \in Nat /\ Cardinality(T \ {x}) = Cardinality(T) - 1
  BY <1>1, <1>2, <1>3, FS_RemoveElement
<1>5. T \subseteq S /\ Without(T) /\ ~Without(T \ {x})
  <2>1. T \subseteq S /\ Without(T)
    BY <1>1, <1>2
  <2>2. T \ {x} \notin Bad
    <3> HIDE DEF Bad
    <3> QED BY <1>2, <1>4
  <2>3. T \ {x} \in SUBSET S
    BY <2>1
  <2>4. ~Without(T \ {x})
    BY <2>2, <2>3
  <2> QED BY <2>1, <2>4
<1> HIDE DEF Bad, Sizes
<1>6. CASE T \ {x} = {}
  BY <1>3, <1>5, <1>6
<1>7. CASE T \ {x} # {}
  <2>1. PICK m \in T \ {x} : \A n \in T \ {x} : n <= m
    BY <1>5, <1>7
  <2>2. x <= m \/ m <= x
    BY <1>3, <1>5, <2>1
  <2>3. \A n \in T : n <= m \/ n <= x
    BY <1>3, <1>5, <2>1
  <2>4. (\A n \in T : n <= m) \/ (\A n \in T : n <= x)
    BY <1>3, <1>5, <2>1, <2>2, <2>3
  <2> QED BY <1>3, <1>5, <2>1, <2>4
<1> QED BY <1>6, <1>7

LEMMA MinIs ==
  ASSUME NEW S, S \subseteq Nat, S # {}
  PROVE  Min(S) \in S /\ \A n \in S : Min(S) <= n
  BY LeastNatural DEF Min

LEMMA MaxIs ==
  ASSUME NEW S, IsFiniteSet(S), S \subseteq Nat, S # {}
  PROVE  Max(S) \in S /\ \A n \in S : n <= Max(S)
<1>1. \E m \in S : \A n \in S : m >= n
  BY GreatestNatural
<1>2. Max(S) \in S /\ \A n \in S : Max(S) >= n
  BY <1>1 DEF Max
<1> QED BY <1>2

LEMMA MaxOfTwo ==
  ASSUME NEW a \in Nat, NEW b \in Nat
  PROVE  Max({a, b}) \in Nat /\ a <= Max({a, b}) /\ b <= Max({a, b})
<1>1. \E m \in {a, b} : \A n \in {a, b} : m >= n
  OBVIOUS
<1>2. Max({a, b}) \in {a, b} /\ \A n \in {a, b} : Max({a, b}) >= n
  BY <1>1 DEF Max
<1> QED BY <1>2

-----------------------------------------------------------------------------
(* What the policies say. *)

LEMMA PoliciesAre ==
  ASSUME policy \in Policies
  PROVE  \A x \in Component :
           /\ policy[x].delete \in [Kind -> Nat]
           /\ policy[x].compact \in [Kind -> Nat \cup {Off}]
           /\ policy[x].properties \in SUBSET {"input", "transform"}
<1>1. policy \in [Component -> Policy]
  BY RetentionAssumption
<1> QED BY <1>1 DEF Policy

LEMMA ShortestIs ==
  ASSUME policy \in Policies, NEW k \in Kind
  PROVE  /\ DeletedAfter(k) \in { policy[x].delete[k] : x \in Concerned(k) }
         /\ DeletedAfter(k) \in Nat
         /\ \A x \in Concerned(k) : DeletedAfter(k) <= policy[x].delete[k]
<1> DEFINE S == { policy[x].delete[k] : x \in Concerned(k) }
<1>1. Concerned(k) \subseteq Component /\ Concerned(k) # {}
  BY RetentionAssumption DEF Concerned, Component
<1>2. S \subseteq Nat /\ S # {}
  BY <1>1, PoliciesAre
<1>3. DeletedAfter(k) = Min(S)
  BY DEF DeletedAfter, Concerned
<1>4. \A x \in Concerned(k) : policy[x].delete[k] \in S
  OBVIOUS
<1> HIDE DEF S
<1>5. Min(S) \in S /\ \A n \in S : Min(S) <= n
  BY <1>2, MinIs
<1>6. /\ DeletedAfter(k) \in S /\ DeletedAfter(k) \in Nat
      /\ \A x \in Concerned(k) : DeletedAfter(k) <= policy[x].delete[k]
  BY <1>2, <1>3, <1>4, <1>5
<1> QED BY <1>6 DEF S

LEMMA LongestIs ==
  ASSUME policy \in Policies, NEW k \in Kind
  PROVE  /\ CompactedBy(k) \in Nat
         /\ \A x \in Component :
              policy[x].compact[k] # Off => policy[x].compact[k] <= CompactedBy(k)
<1> DEFINE f == [x \in Component |-> policy[x].compact[k]]
           T == { policy[x].compact[k] : x \in Component }
           S == T \ {Off}
<1>1. IsFiniteSet(Component)
  BY RetentionAssumption, FS_AddElement DEF Component
<1>2. f \in Surjection(Component, T)
  BY DEF Surjection
<1>3. IsFiniteSet(T)
  BY <1>1, <1>2, FS_Surjection
<1>4. IsFiniteSet(S)
  BY <1>3, FS_RemoveElement
<1>5. S \subseteq Nat
  BY PoliciesAre DEF Off
<1>6. \A x \in Component : policy[x].compact[k] # Off => policy[x].compact[k] \in S
  OBVIOUS
<1>7. CompactedBy(k) = IF S = {} THEN 0 ELSE Max(S)
  BY DEF CompactedBy
<1> HIDE DEF S
<1>8. S # {} => Max(S) \in S /\ \A n \in S : n <= Max(S)
  BY <1>4, <1>5, MaxIs
<1>9. CompactedBy(k) \in Nat
  <2>1. CASE S = {}  BY <1>7, <2>1
  <2>2. CASE S # {}  BY <1>5, <1>7, <1>8, <2>2
  <2> QED BY <2>1, <2>2
<1>10. \A x \in Component :
         policy[x].compact[k] # Off => policy[x].compact[k] <= CompactedBy(k)
  <2>1. ASSUME NEW x \in Component, policy[x].compact[k] # Off
        PROVE  policy[x].compact[k] <= CompactedBy(k)
    <3>1. policy[x].compact[k] \in S
      BY <1>6, <2>1
    <3>2. S # {} /\ CompactedBy(k) = Max(S)
      BY <1>7, <3>1
    <3> QED BY <1>8, <3>1, <3>2
  <2> QED BY <2>1
<1> QED BY <1>9, <1>10

(* The last update of a Play is no earlier than an update by its Client or  *)
(* the run of the task in which it is due to be compacted.                  *)
LEMMA LastUpdateIs ==
  ASSUME RetentionTypeOK, NEW c \in Owner, KindOf(c) \in Kind
  PROVE  /\ LastUpdate(c) \in Nat /\ settled[c] + 1 <= LastUpdate(c)
         /\ \A x \in Component :
              policy[x].compact[KindOf(c)] # Off => policy[x].compact[KindOf(c)] <= LastUpdate(c)
<1> DEFINE last == settled[c] + 1
           by   == CompactedBy(KindOf(c))
           most == Max({last, by})
<1>1. policy \in Policies /\ last \in Nat
  BY RetentionAssumption DEF RetentionTypeOK
<1>2. by \in Nat
  BY <1>1, LongestIs
<1>3. \A x \in Component : policy[x].compact[KindOf(c)] # Off => policy[x].compact[KindOf(c)] <= by
  BY <1>1, LongestIs
<1>4. LastUpdate(c) = most
  BY DEF LastUpdate
<1> HIDE DEF last, by
<1>5. most \in Nat /\ last <= most /\ by <= most
  BY <1>1, <1>2, MaxOfTwo
<1> HIDE DEF most
<1>6. \A x \in Component : policy[x].compact[KindOf(c)] # Off => policy[x].compact[KindOf(c)] <= most
  <2> SUFFICES ASSUME NEW x \in Component, policy[x].compact[KindOf(c)] # Off
               PROVE  policy[x].compact[KindOf(c)] <= most
    OBVIOUS
  <2> DEFINE due == policy[x].compact[KindOf(c)]
  <2>1. due \in Nat
    BY <1>1, PoliciesAre DEF Off
  <2>2. due <= by
    BY <1>3
  <2> HIDE DEF due
  <2>3. due <= most
    BY <1>2, <1>5, <2>1, <2>2
  <2> QED BY <2>3 DEF due
<1> QED BY <1>4, <1>5, <1>6 DEF last

LEMMA PlayKinds ==
  ASSUME RetentionTypeOK, RowsFit, NEW c \in Owner, stored[c].state # "queued"
  PROVE  /\ KindOf(c) \in Kind
         /\ \A x \in Component, k \in Kind :
              stored[c].state = StateOf(x, k) <=> k = KindOf(c) /\ x \in Concerned(k)
<1>1. stored[c].state \in {"scrobbled", "failed", "duped"}
  BY DEF RetentionTypeOK, RowsFit, State, Component
<1>2. Origin \notin Owner /\ Component = Owner \cup {Origin}
  BY RetentionAssumption DEF Component
<1> QED BY <1>1, <1>2 DEF KindOf, StateOf, Kind, Concerned

(* What the task would delete of the Clients' Plays, and compact.           *)
LEMMA ExpiredIs ==
  ASSUME RetentionTypeOK, RowsFit, NEW c \in Owner, NEW x \in Component
  PROVE  c \in Expired(x) <=>
           /\ Settled(c) /\ x \in Concerned(KindOf(c))
           /\ hour - stored[c].updated >= policy[x].delete[KindOf(c)]
<1>1. c \in Component /\ c # Origin
  BY RetentionAssumption DEF Component
<1>2. c \in Expired(x) <=> There(c) /\ OldEnough(x, c)
  BY <1>1 DEF Expired, Childless
<1>3. CASE stored[c].state = "queued"
  BY <1>2, <1>3 DEF OldEnough, StateOf, Kind, Settled
<1>4. CASE stored[c].state # "queued"
  BY <1>2, <1>4, PlayKinds DEF OldEnough, Settled
<1> QED BY <1>3, <1>4

LEMMA CompactableIs ==
  ASSUME RetentionTypeOK, RowsFit, NEW c \in Owner, NEW x \in Component
  PROVE  c \in Compactable(x) <=>
           /\ Settled(c) /\ x \in Concerned(KindOf(c)) /\ policy[x].properties # {}
           /\ stored[c].compacted # policy[x].properties
           /\ policy[x].compact[KindOf(c)] # Off /\ hour >= policy[x].compact[KindOf(c)]
<1>1. c \in Component /\ c # Origin /\ stored[c].seen = 0 /\ hour \in Nat
  BY RetentionAssumption DEF Component, RowsFit, RetentionTypeOK
<1>2. c \in Compactable(x) <=>
        /\ There(c) /\ policy[x].properties # {}
        /\ stored[c].compacted # policy[x].properties /\ SeenLongAgo(x, c)
  BY <1>1 DEF Compactable, Childless
<1>3. CASE stored[c].state = "queued"
  BY <1>2, <1>3 DEF SeenLongAgo, StateOf, Kind, Settled
<1>4. CASE stored[c].state # "queued"
  <2>1. hour - stored[c].seen = hour
    BY <1>1
  <2> QED BY <1>2, <1>4, <2>1, PlayKinds DEF SeenLongAgo, Settled
<1> QED BY <1>3, <1>4

-----------------------------------------------------------------------------
(* The steps. *)

Row == [state : State, seen : 0..Lifetime, updated : 0..Lifetime,
        compacted : SUBSET {"input", "transform"}, deleted : 0..Lifetime \cup {Off}]

LEMMA SameTerms ==
  ASSUME UNCHANGED policy, NEW c \in Owner,
         settled'[c] = settled[c], stored'[c].state = stored[c].state
  PROVE  /\ KindOf(c)' = KindOf(c) /\ LastUpdate(c)' = LastUpdate(c)
         /\ DeletedAfter(KindOf(c))' = DeletedAfter(KindOf(c))
<1>1. KindOf(c)' = KindOf(c)
  BY DEF KindOf
<1> QED BY <1>1 DEF LastUpdate, CompactedBy, DeletedAfter

LEMMA SameRows ==
  ASSUME RetentionInv, RetentionTypeOK', TurnsTaken', UNCHANGED <<policy, stored, settled>>,
         hour <= hour',
         \A x \in Component : /\ LastRun(HasDeleted(x))' = LastRun(HasDeleted(x))
                              /\ LastRun(HasCompacted(x))' = LastRun(HasCompacted(x))
  PROVE  RetentionInv'
<1>1. RowsFit'
  BY DEF RetentionInv, RowsFit, RetentionTypeOK, There, Component
<1>2. KeptWhileNeeded'
  BY SameTerms DEF RetentionInv, KeptWhileNeeded, There
<1>3. \A c \in Owner : (Settled(c)' <=> Settled(c)) /\ LastUpdate(c)' = LastUpdate(c) /\ KindOf(c)' = KindOf(c)
  BY SameTerms DEF Settled, There
<1>4. ASSUME Alike'
      PROVE  UpdatesEnd' /\ CompactedWhenDue' /\ DeletedWhenDue'
  <2>1. UpdatesEnd /\ CompactedWhenDue /\ DeletedWhenDue
    BY <1>4 DEF RetentionInv, Alike
  <2>2. UpdatesEnd'
    BY <1>3, <2>1 DEF UpdatesEnd
  <2>3. CompactedWhenDue'
    BY <1>3, <2>1 DEF CompactedWhenDue, CompactionDue, Concerned
  <2>4. DeletedWhenDue'
    BY <1>3, <2>1 DEF DeletedWhenDue, Concerned, Component
  <2> QED BY <2>2, <2>3, <2>4
<1> QED BY <1>1, <1>2, <1>4 DEF RetentionInv

LEMMA StartsSweepStep ==
  ASSUME RetentionInv, StartsSweep
  PROVE  RetentionInv'
<1>1. /\ ~swept /\ ~Sweeping /\ swept' = TRUE
      /\ cleaning' = [x \in Component |-> IF x = Origin THEN "no" ELSE "delete"]
      /\ UNCHANGED <<policy, hour, stored, retried, settled>>
  BY DEF StartsSweep
<1>2. PICK c \in Owner : c # Origin /\ c \in Component
  BY RetentionAssumption DEF Component
<1>3. RetentionTypeOK'
  BY <1>1 DEF RetentionInv, RetentionTypeOK
<1>4. Sweeping'
  BY <1>1, <1>2 DEF Sweeping
<1>5. TurnsTaken'
  BY <1>1, RetentionAssumption DEF TurnsTaken, Component
<1>6. \A x \in Component : /\ ~HasDeleted(x) /\ ~HasDeleted(x)'
                           /\ ~HasCompacted(x) /\ ~HasCompacted(x)'
  BY <1>1, <1>4 DEF HasDeleted, HasCompacted
<1>7. \A x \in Component : /\ LastRun(HasDeleted(x))' = LastRun(HasDeleted(x))
                           /\ LastRun(HasCompacted(x))' = LastRun(HasCompacted(x))
  BY <1>1, <1>6 DEF LastRun
<1>8. hour <= hour'
  BY <1>1 DEF RetentionInv, RetentionTypeOK
<1> QED BY <1>1, <1>3, <1>5, <1>7, <1>8, SameRows

LEMMA HourPassesStep ==
  ASSUME RetentionInv, HourPasses
  PROVE  RetentionInv'
<1>1. /\ swept /\ ~Sweeping /\ hour < Lifetime /\ hour' = hour + 1 /\ swept' = FALSE
      /\ hour \in Nat /\ Lifetime \in Nat
      /\ UNCHANGED <<policy, stored, retried, cleaning, settled>>
  BY RetentionAssumption DEF HourPasses, RetentionInv, RetentionTypeOK
<1>2. RetentionTypeOK'
  <2>1. hour' \in 0..Lifetime
    BY <1>1
  <2> QED BY <1>1, <2>1 DEF RetentionInv, RetentionTypeOK
<1>3. TurnsTaken'
  BY <1>1 DEF RetentionInv, TurnsTaken, Sweeping
<1>4. \A x \in Component : cleaning[x] = "no"
  BY <1>1 DEF Sweeping
<1>5. \A x \in Component : /\ HasDeleted(x) /\ ~HasDeleted(x)'
                           /\ HasCompacted(x) /\ ~HasCompacted(x)'
  BY <1>1, <1>4 DEF HasDeleted, HasCompacted
<1>6. \A x \in Component : /\ LastRun(HasDeleted(x))' = LastRun(HasDeleted(x))
                           /\ LastRun(HasCompacted(x))' = LastRun(HasCompacted(x))
  BY <1>1, <1>5 DEF LastRun
<1> QED BY <1>1, <1>2, <1>3, <1>6, SameRows

LEMMA NothingStep ==
  ASSUME RetentionInv, UNCHANGED <<policy, hour, stored, cleaning, swept, settled>>,
         retried' \subseteq Owner
  PROVE  RetentionInv'
<1>1. RetentionTypeOK'
  BY DEF RetentionInv, RetentionTypeOK
<1>2. TurnsTaken'
  BY DEF RetentionInv, TurnsTaken, Sweeping
<1>3. \A x \in Component : /\ LastRun(HasDeleted(x))' = LastRun(HasDeleted(x))
                           /\ LastRun(HasCompacted(x))' = LastRun(HasCompacted(x))
  BY DEF LastRun, HasDeleted, HasCompacted, Sweeping
<1>4. hour <= hour'
  BY DEF RetentionInv, RetentionTypeOK
<1> QED BY <1>1, <1>2, <1>3, <1>4, SameRows

(* A Client has an answer about its Play.                                   *)
LEMMA SettlesStep ==
  ASSUME RetentionInv, NEW c \in Owner, There(c),
         NEW state \in {"scrobbled", "failed", "duped"},
         stored' = WithState(c, state), settled' = [settled EXCEPT ![c] = hour],
         UNCHANGED <<policy, hour, cleaning, swept>>, retried' \subseteq Owner
  PROVE  RetentionInv'
<1> DEFINE row == [stored[c] EXCEPT !.state = state, !.updated = hour]
<1>1. /\ stored \in [Component -> Row] /\ c \in Component /\ c # Origin /\ hour \in 0..Lifetime
      /\ hour \in Nat /\ settled \in [Owner -> 0..Lifetime] /\ policy \in Policies
  BY RetentionAssumption DEF RetentionInv, RetentionTypeOK, Component, Row
<1>2. /\ row \in Row /\ row.state = state /\ row.updated = hour /\ row.seen = stored[c].seen
      /\ row.deleted = stored[c].deleted /\ row.compacted = stored[c].compacted
  BY <1>1 DEF Row, State
<1>3. stored' = [stored EXCEPT ![c] = row]
  BY <1>1 DEF WithState
<1> HIDE DEF row
<1>4. /\ stored' \in [Component -> Row] /\ stored'[c] = row
      /\ \A p \in Component \ {c} : stored'[p] = stored[p]
      /\ settled' \in [Owner -> 0..Lifetime] /\ settled'[c] = hour
      /\ \A d \in Owner \ {c} : settled'[d] = settled[d]
  BY <1>1, <1>2, <1>3
<1>5. RetentionTypeOK'
  BY <1>1, <1>4 DEF RetentionInv, RetentionTypeOK, Row
<1>6. TurnsTaken'
  BY DEF RetentionInv, TurnsTaken, Sweeping
<1>7. RowsFit'
  <2>1. \A p \in Component : stored'[p].seen = 0 /\ stored'[p].updated <= hour'
    BY <1>1, <1>2, <1>4 DEF RetentionInv, RowsFit
  <2>2. ASSUME NEW d \in Owner
        PROVE  /\ stored'[d].state # "discovered" /\ settled'[d] <= hour'
               /\ There(d)' => settled'[d] <= stored'[d].updated
    <3>1. CASE d = c
      BY <1>1, <1>2, <1>4, <3>1
    <3>2. CASE d # c
      BY <1>4, <3>2 DEF RetentionInv, RowsFit, There, Component
    <3> QED BY <3>1, <3>2
  <2> QED BY <2>1, <2>2 DEF RowsFit
<1>8. \A p \in Component : There(p)' <=> There(p)
  BY <1>2, <1>4 DEF There
<1>9. KeptWhileNeeded'
  <2>1. ASSUME NEW d \in Owner, ~There(d)'
        PROVE  /\ stored'[d].state # "queued"
               /\ stored'[d].deleted - settled'[d] >= DeletedAfter(KindOf(d))'
    <3>1. d # c /\ d \in Component /\ ~There(d)
      BY <1>8, <2>1 DEF Component
    <3>2. stored'[d] = stored[d] /\ settled'[d] = settled[d]
      BY <1>4, <3>1
    <3> QED BY <3>1, <3>2, SameTerms DEF RetentionInv, KeptWhileNeeded
  <2>2. (\E d \in Owner : There(d)') => There(Origin)'
    BY <1>8 DEF RetentionInv, KeptWhileNeeded, Component
  <2> QED BY <2>1, <2>2 DEF KeptWhileNeeded
<1>10. ASSUME Alike'
       PROVE  UpdatesEnd' /\ CompactedWhenDue' /\ DeletedWhenDue'
  <2>1. UpdatesEnd /\ CompactedWhenDue /\ DeletedWhenDue
    BY <1>10 DEF RetentionInv, Alike
  <2>2. \A d \in Owner \ {c} : /\ stored'[d] = stored[d] /\ settled'[d] = settled[d]
                               /\ Settled(d)' <=> Settled(d)
                               /\ LastUpdate(d)' = LastUpdate(d) /\ KindOf(d)' = KindOf(d)
    BY <1>4, <1>8, SameTerms DEF Settled, Component
  <2>3. /\ KindOf(c)' \in Kind /\ LastUpdate(c)' \in Nat /\ hour + 1 <= LastUpdate(c)'
    <3>1. KindOf(c)' \in Kind
      BY <1>2, <1>4 DEF KindOf, Kind
    <3>2. PICK k \in Kind : KindOf(c)' = k
      BY <3>1
    <3>3. CompactedBy(k) \in Nat
      BY <1>1, LongestIs
    <3>4. LastUpdate(c)' = Max({hour + 1, CompactedBy(k)})
      BY <1>4, <3>2 DEF LastUpdate, CompactedBy
    <3> QED BY <1>1, <3>1, <3>3, <3>4, MaxOfTwo
  <2>4. UpdatesEnd'
    <3> SUFFICES ASSUME NEW d \in Owner, Settled(d)'
                 PROVE  stored'[d].updated <= LastUpdate(d)'
      BY DEF UpdatesEnd
    <3>1. CASE d = c
      BY <1>1, <1>2, <1>4, <2>3, <3>1
    <3>2. CASE d # c
      BY <2>1, <2>2, <3>2 DEF UpdatesEnd
    <3> QED BY <3>1, <3>2
  <2>5. \A x \in Component : /\ LastRun(HasDeleted(x))' = LastRun(HasDeleted(x))
                             /\ LastRun(HasCompacted(x))' = LastRun(HasCompacted(x))
                             /\ LastRun(HasDeleted(x)) <= hour /\ LastRun(HasCompacted(x)) <= hour
                             /\ LastRun(HasDeleted(x)) \in Int /\ LastRun(HasCompacted(x)) \in Int
    BY <1>1 DEF LastRun, HasDeleted, HasCompacted, Sweeping
  <2>6. CompactedWhenDue'
    <3> SUFFICES ASSUME NEW d \in Owner, NEW x \in Component, CompactionDue(d, x)'
                 PROVE  stored'[d].compacted = policy'[x].properties
      BY DEF CompactedWhenDue
    <3>1. settled'[d] < LastRun(HasCompacted(x))
      BY <2>5 DEF CompactionDue
    <3>2. d # c
      BY <1>1, <1>4, <2>5, <3>1
    <3>3. CompactionDue(d, x)
      BY <2>2, <2>5, <3>2 DEF CompactionDue, Concerned
    <3> QED BY <2>1, <2>2, <3>2, <3>3 DEF CompactedWhenDue
  <2>7. DeletedWhenDue'
    <3> SUFFICES ASSUME NEW d \in Owner, NEW x \in Concerned(KindOf(d))', Settled(d)'
                 PROVE  LastRun(HasDeleted(x)) < LastUpdate(d)' + policy[x].delete[KindOf(d)']
      BY <2>5 DEF DeletedWhenDue, Concerned, Component
    <3>1. x \in Component
      BY DEF Concerned, Component
    <3>2. CASE d = c
      <4>1. policy[x].delete[KindOf(c)'] \in Nat
        BY <1>1, <2>3, <3>1, PoliciesAre
      <4> QED BY <1>1, <2>3, <2>5, <3>1, <3>2, <4>1
    <3>3. CASE d # c
      BY <2>1, <2>2, <3>1, <3>3 DEF DeletedWhenDue, Concerned
    <3> QED BY <3>2, <3>3
  <2> QED BY <2>4, <2>6, <2>7
<1> QED BY <1>5, <1>6, <1>7, <1>9, <1>10 DEF RetentionInv

(* A component deletes what has expired.                                    *)
LEMMA DeleteStep ==
  ASSUME RetentionInv, NEW x \in Component, DeleteExpired(x)
  PROVE  RetentionInv'
<1> DEFINE gone == Expired(x)
<1>1. /\ cleaning[x] = "delete" /\ cleaning' = [cleaning EXCEPT ![x] = "compact"]
      /\ stored' = [p \in Component |-> IF p \in gone THEN [stored[p] EXCEPT !.deleted = hour]
                                                      ELSE stored[p]]
      /\ UNCHANGED <<policy, hour, retried, swept, settled>>
  BY DEF DeleteExpired
<1>2. \A p \in gone : There(p)
  BY DEF Expired
<1> HIDE DEF gone
<1>3. /\ stored \in [Component -> Row] /\ Owner \subseteq Component /\ Origin \in Component
      /\ Origin \notin Owner /\ hour \in 0..Lifetime /\ hour \in Nat /\ policy \in Policies
      /\ cleaning \in [Component -> {"no", "delete", "compact"}]
      /\ RetentionTypeOK /\ RowsFit /\ KeptWhileNeeded /\ TurnsTaken
      /\ settled \in [Owner -> 0..Lifetime]
  BY RetentionAssumption DEF RetentionInv, RetentionTypeOK, Component, Row
<1>4. \A p \in Component :
        /\ stored'[p] \in Row /\ stored'[p].state = stored[p].state
        /\ stored'[p].seen = stored[p].seen /\ stored'[p].updated = stored[p].updated
        /\ stored'[p].compacted = stored[p].compacted
        /\ stored'[p].deleted = IF p \in gone THEN hour ELSE stored[p].deleted
  <2> TAKE p \in Component
  <2> DEFINE row == [stored[p] EXCEPT !.deleted = hour]
  <2>1. /\ row \in Row /\ row.state = stored[p].state /\ row.seen = stored[p].seen
        /\ row.updated = stored[p].updated /\ row.compacted = stored[p].compacted
        /\ row.deleted = hour
    BY <1>3 DEF Row
  <2>2. stored'[p] = IF p \in gone THEN row ELSE stored[p]
    BY <1>1
  <2>3. stored[p] \in Row
    BY <1>3
  <2> HIDE DEF row
  <2> QED BY <2>1, <2>2, <2>3
<1>5. \A p \in Component : There(p)' <=> There(p) /\ p \notin gone
  BY <1>2, <1>3, <1>4 DEF There, Off
<1>6. cleaning' \in [Component -> {"no", "delete", "compact"}]
  BY <1>1, <1>3
<1>7. RetentionTypeOK'
  <2>1. stored' \in [Component -> Row]
    BY <1>1, <1>4
  <2> QED BY <1>1, <1>3, <1>6, <2>1 DEF RetentionTypeOK, Row
<1>8. /\ Sweeping /\ Sweeping' /\ swept /\ swept'
      /\ cleaning'[x] = "compact" /\ \A y \in Component \ {x} : cleaning'[y] = cleaning[y]
  BY <1>1, <1>3 DEF Sweeping, TurnsTaken
<1>9. TurnsTaken'
  BY <1>1, <1>3, <1>8 DEF TurnsTaken
<1>10. RowsFit'
  <2>1. \A p \in Component : stored'[p].seen = 0 /\ stored'[p].updated <= hour'
    BY <1>1, <1>3, <1>4 DEF RowsFit
  <2>2. \A c \in Owner : /\ stored'[c].state # "discovered" /\ settled'[c] <= hour'
                         /\ There(c)' => settled'[c] <= stored'[c].updated
    BY <1>1, <1>3, <1>4, <1>5 DEF RowsFit
  <2> QED BY <2>1, <2>2 DEF RowsFit
<1>11. \A c \in Owner : /\ KindOf(c)' = KindOf(c) /\ LastUpdate(c)' = LastUpdate(c)
                        /\ DeletedAfter(KindOf(c))' = DeletedAfter(KindOf(c))
  BY <1>1, <1>3, <1>4, SameTerms
<1>12. \A c \in Owner :
         c \in gone <=> /\ Settled(c) /\ x \in Concerned(KindOf(c))
                        /\ hour - stored[c].updated >= policy[x].delete[KindOf(c)]
  BY <1>3, ExpiredIs DEF gone
<1>13. KeptWhileNeeded'
  <2>1. ASSUME NEW c \in Owner, ~There(c)'
        PROVE  /\ stored'[c].state # "queued"
               /\ stored'[c].deleted - settled'[c] >= DeletedAfter(KindOf(c))'
    <3>1. CASE ~There(c)
      <4>1. c \notin gone
        BY <1>2, <3>1
      <4> QED BY <1>1, <1>3, <1>4, <1>11, <3>1, <4>1 DEF KeptWhileNeeded
    <3>2. CASE There(c)
      <4>1. c \in gone
        BY <1>3, <1>5, <2>1, <3>2
      <4>2. /\ Settled(c) /\ x \in Concerned(KindOf(c))
            /\ hour - stored[c].updated >= policy[x].delete[KindOf(c)]
        BY <1>12, <4>1
      <4>3. stored[c].state # "queued" /\ KindOf(c) \in Kind
        BY <1>3, <4>2, PlayKinds DEF Settled
      <4> DEFINE least == DeletedAfter(KindOf(c))
                 del  == policy[x].delete[KindOf(c)]
                 updated == stored[c].updated
                 answered == settled[c]
      <4>4. least \in Nat /\ least <= del
        BY <1>3, <4>2, <4>3, ShortestIs
      <4>5. del \in Nat
        BY <1>3, <4>3, PoliciesAre
      <4>6. answered <= updated /\ answered \in Nat /\ updated \in Nat
        BY <1>3, <3>2 DEF RowsFit, Row
      <4>7. hour - updated >= del
        BY <4>2
      <4>8. stored'[c].deleted - settled'[c] = hour - answered
        BY <1>1, <1>3, <1>4, <4>1
      <4>9. DeletedAfter(KindOf(c))' = least
        BY <1>11
      <4> HIDE DEF least, del, updated, answered
      <4>10. hour - answered >= least
        BY <1>3, <4>4, <4>5, <4>6, <4>7
      <4> QED BY <1>3, <1>4, <4>3, <4>8, <4>9, <4>10
    <3> QED BY <3>1, <3>2
  <2>2. ASSUME NEW c \in Owner, There(c)'
        PROVE  There(Origin)'
    <3>1. There(c) /\ c \notin gone
      BY <1>3, <1>5, <2>2
    <3>2. There(Origin)
      BY <1>3, <3>1 DEF KeptWhileNeeded
    <3>3. Origin \notin gone
      <4>1. c \in Component /\ c # Origin
        BY <1>3
      <4> QED BY <3>1, <4>1 DEF gone, Expired, Childless
    <3> QED BY <1>3, <1>5, <3>2, <3>3
  <2> QED BY <2>1, <2>2 DEF KeptWhileNeeded
<1>14. \A y \in Component : LastRun(HasCompacted(y))' = LastRun(HasCompacted(y))
  <2>1. \A y \in Component : HasCompacted(y)' <=> HasCompacted(y)
    BY <1>1, <1>3, <1>8 DEF HasCompacted
  <2> QED BY <1>1, <2>1 DEF LastRun
<1>15. \A y \in Component \ {x} : LastRun(HasDeleted(y))' = LastRun(HasDeleted(y))
  <2>1. \A y \in Component \ {x} : HasDeleted(y)' <=> HasDeleted(y)
    BY <1>1, <1>3, <1>8 DEF HasDeleted
  <2> QED BY <1>1, <2>1 DEF LastRun
<1>16. LastRun(HasDeleted(x))' = hour
  <2>1. HasDeleted(x)'
    BY <1>8 DEF HasDeleted
  <2> QED BY <1>1, <2>1 DEF LastRun
<1>17. ASSUME Alike'
       PROVE  UpdatesEnd' /\ CompactedWhenDue' /\ DeletedWhenDue'
  <2>1. UpdatesEnd /\ CompactedWhenDue /\ DeletedWhenDue
    BY <1>1, <1>17 DEF RetentionInv, Alike
  <2>2. \A c \in Owner : Settled(c)' <=> Settled(c) /\ c \notin gone
    BY <1>3, <1>4, <1>5 DEF Settled
  <2>3. UpdatesEnd'
    BY <1>3, <1>4, <1>11, <2>1, <2>2 DEF UpdatesEnd
  <2>4. CompactedWhenDue'
    <3> SUFFICES ASSUME NEW c \in Owner, NEW y \in Component, CompactionDue(c, y)'
                 PROVE  stored'[c].compacted = policy'[y].properties
      BY DEF CompactedWhenDue
    <3>1. CompactionDue(c, y)
      BY <1>1, <1>11, <1>14, <2>2 DEF CompactionDue, Concerned
    <3> QED BY <1>1, <1>3, <1>4, <2>1, <3>1 DEF CompactedWhenDue
  <2>5. DeletedWhenDue'
    <3> SUFFICES ASSUME NEW c \in Owner, NEW y \in Concerned(KindOf(c))', Settled(c)'
                 PROVE  LastRun(HasDeleted(y))' < LastUpdate(c) + policy[y].delete[KindOf(c)]
      BY <1>1, <1>11 DEF DeletedWhenDue
    <3>1. y \in Concerned(KindOf(c)) /\ y \in Component /\ Settled(c) /\ c \notin gone
      BY <1>11, <2>2 DEF Concerned, Component
    <3>2. CASE y # x
      BY <1>15, <2>1, <3>1, <3>2 DEF DeletedWhenDue
    <3>3. CASE y = x
      <4> DEFINE del == policy[x].delete[KindOf(c)]
                 updated == stored[c].updated
                 last == LastUpdate(c)
      <4>1. KindOf(c) \in Kind
        BY <1>3, <3>1, PlayKinds DEF Settled
      <4>2. del \in Nat /\ last \in Nat /\ updated \in Nat
        BY <1>3, <3>1, <4>1, PoliciesAre, LastUpdateIs DEF Row
      <4>3. ~(hour - updated >= del)
        BY <1>12, <3>1, <3>3
      <4>4. updated <= last
        BY <2>1, <3>1 DEF UpdatesEnd
      <4> HIDE DEF del, updated, last
      <4>5. hour < last + del
        BY <1>3, <4>2, <4>3, <4>4
      <4> QED BY <1>16, <3>3, <4>5 DEF del, last
    <3> QED BY <3>2, <3>3
  <2> QED BY <2>3, <2>4, <2>5
<1> QED BY <1>7, <1>9, <1>10, <1>13, <1>17 DEF RetentionInv

(* A component compacts what is due.                                        *)
LEMMA CompactStep ==
  ASSUME RetentionInv, NEW x \in Component, Compact(x)
  PROVE  RetentionInv'
<1> DEFINE due  == Compactable(x)
           next == [cleaning EXCEPT ![x] = "no"]
<1>1. /\ cleaning[x] = "compact"
      /\ stored' = [p \in Component |->
                      IF p \in due
                      THEN [stored[p] EXCEPT !.compacted = policy[x].properties, !.updated = hour]
                      ELSE stored[p]]
      /\ cleaning' = IF x # Origin /\ \A c \in Owner : next[c] = "no"
                     THEN [next EXCEPT ![Origin] = "delete"] ELSE next
      /\ UNCHANGED <<policy, hour, retried, swept, settled>>
  BY DEF Compact, CompactedPlay
<1>2. \A p \in due : There(p)
  BY DEF Compactable
<1> HIDE DEF due
<1>3. /\ stored \in [Component -> Row] /\ Owner \subseteq Component /\ Origin \in Component
      /\ Origin \notin Owner /\ hour \in 0..Lifetime /\ hour \in Nat /\ policy \in Policies
      /\ cleaning \in [Component -> {"no", "delete", "compact"}]
      /\ RetentionTypeOK /\ RowsFit /\ KeptWhileNeeded /\ TurnsTaken
      /\ settled \in [Owner -> 0..Lifetime] /\ Component = Owner \cup {Origin}
  BY RetentionAssumption DEF RetentionInv, RetentionTypeOK, Component, Row
<1>4. policy[x].properties \in SUBSET {"input", "transform"}
  BY <1>3, PoliciesAre
<1>5. \A p \in Component :
        /\ stored'[p] \in Row /\ stored'[p].state = stored[p].state
        /\ stored'[p].seen = stored[p].seen /\ stored'[p].deleted = stored[p].deleted
        /\ stored'[p].updated = IF p \in due THEN hour ELSE stored[p].updated
        /\ stored'[p].compacted = IF p \in due THEN policy[x].properties ELSE stored[p].compacted
  <2> TAKE p \in Component
  <2> DEFINE properties == policy[x].properties
             row == [stored[p] EXCEPT !.compacted = properties, !.updated = hour]
  <2>1. /\ row \in Row /\ row.state = stored[p].state /\ row.seen = stored[p].seen
        /\ row.updated = hour /\ row.compacted = properties
        /\ row.deleted = stored[p].deleted
    <3>1. stored[p] \in Row /\ hour \in 0..Lifetime
      BY <1>3
    <3>2. properties \in SUBSET {"input", "transform"}
      BY <1>4
    <3> HIDE DEF properties
    <3> QED BY <3>1, <3>2 DEF Row
  <2>2. stored'[p] = IF p \in due THEN row ELSE stored[p]
    BY <1>1
  <2>3. stored[p] \in Row
    BY <1>3
  <2> HIDE DEF row
  <2> QED BY <2>1, <2>2, <2>3
<1>6. \A p \in Component : There(p)' <=> There(p)
  BY <1>5 DEF There
<1>7. /\ next \in [Component -> {"no", "delete", "compact"}] /\ next[x] = "no"
      /\ \A y \in Component \ {x} : next[y] = cleaning[y]
  BY <1>3
<1> HIDE DEF next
<1>8. /\ cleaning' \in [Component -> {"no", "delete", "compact"}]
      /\ \A c \in Owner : cleaning'[c] = next[c]
      /\ cleaning'[Origin] = IF x # Origin /\ \A c \in Owner : next[c] = "no"
                             THEN "delete" ELSE next[Origin]
  BY <1>1, <1>3, <1>7
<1>9. RetentionTypeOK'
  <2>1. stored' \in [Component -> Row]
    BY <1>1, <1>5
  <2> QED BY <1>1, <1>3, <1>8, <2>1 DEF RetentionTypeOK, Row
<1>10. Sweeping /\ swept /\ swept'
  BY <1>1, <1>3 DEF Sweeping, TurnsTaken
<1>11. /\ TurnsTaken' /\ ~HasCompacted(x) /\ HasCompacted(x)'
       /\ \A y \in Component : HasDeleted(y)' <=> HasDeleted(y)
       /\ \A y \in Component \ {x} : HasCompacted(y)' <=> HasCompacted(y)
  <2>1. CASE x = Origin
    <3>1. /\ \A y \in Component : cleaning'[y] = "no"
          /\ \A y \in Component \ {x} : cleaning[y] = "no"
      BY <1>1, <1>3, <1>7, <1>8, <2>1 DEF TurnsTaken
    <3>2. ~Sweeping'
      BY <3>1 DEF Sweeping
    <3> QED BY <1>1, <1>3, <1>10, <2>1, <3>1, <3>2 DEF TurnsTaken, HasDeleted, HasCompacted
  <2>2. CASE x # Origin
    <3>1. cleaning[Origin] = "no" /\ x \in Owner
      BY <1>1, <1>3, <2>2 DEF TurnsTaken
    <3>2. /\ \A y \in Component \ {x, Origin} : cleaning'[y] = cleaning[y]
          /\ cleaning'[x] = "no"
      BY <1>3, <1>7, <1>8, <3>1
    <3>3. \/ cleaning'[Origin] = "delete" /\ \A c \in Owner : cleaning'[c] = "no"
          \/ cleaning'[Origin] = "no" /\ \E c \in Owner : cleaning'[c] # "no"
      <4>1. next[Origin] = "no"
        BY <1>3, <1>7, <2>2, <3>1
      <4> QED BY <1>8, <2>2, <4>1
    <3>4. Sweeping'
      BY <1>3, <3>3 DEF Sweeping
    <3>5. TurnsTaken'
      BY <1>10, <3>3 DEF TurnsTaken
    <3>6. ~HasDeleted(Origin) /\ ~HasDeleted(Origin)' /\ ~HasCompacted(Origin) /\ ~HasCompacted(Origin)'
      BY <1>10, <3>1, <3>3, <3>4 DEF HasDeleted, HasCompacted
    <3>7. \A y \in Component \ {x, Origin} : /\ HasDeleted(y)' <=> HasDeleted(y)
                                             /\ HasCompacted(y)' <=> HasCompacted(y)
      BY <1>10, <3>2 DEF HasDeleted, HasCompacted
    <3>8. HasDeleted(x) /\ HasDeleted(x)' /\ ~HasCompacted(x) /\ HasCompacted(x)'
      BY <1>1, <1>10, <2>2, <3>2 DEF HasDeleted, HasCompacted
    <3> QED BY <3>5, <3>6, <3>7, <3>8
  <2> QED BY <2>1, <2>2
<1>12. RowsFit'
  <2>1. \A p \in Component : stored'[p].seen = 0 /\ stored'[p].updated <= hour'
    <3> TAKE p \in Component
    <3>1. stored[p].seen = 0 /\ stored[p].updated <= hour /\ hour <= hour
      BY <1>3 DEF RowsFit
    <3> QED BY <1>1, <1>5, <3>1
  <2>2. ASSUME NEW c \in Owner
        PROVE  /\ stored'[c].state # "discovered" /\ settled'[c] <= hour'
               /\ There(c)' => settled'[c] <= stored'[c].updated
    <3>1. c \in Component
      BY <1>3
    <3>2. /\ stored[c].state # "discovered" /\ settled[c] <= hour
          /\ There(c) => settled[c] <= stored[c].updated
      BY <1>3 DEF RowsFit
    <3>3. stored'[c].state = stored[c].state /\ stored'[c].updated \in {hour, stored[c].updated}
      BY <1>5, <3>1
    <3> QED BY <1>1, <1>6, <3>1, <3>2, <3>3
  <2> QED BY <2>1, <2>2 DEF RowsFit
<1>13. \A c \in Owner : /\ KindOf(c)' = KindOf(c) /\ LastUpdate(c)' = LastUpdate(c)
                        /\ DeletedAfter(KindOf(c))' = DeletedAfter(KindOf(c))
                        /\ Settled(c)' <=> Settled(c)
  BY <1>1, <1>3, <1>5, <1>6, SameTerms DEF Settled
<1>14. KeptWhileNeeded'
  BY <1>1, <1>3, <1>5, <1>6, <1>13, ZenonT(30) DEF KeptWhileNeeded
<1>15. \A c \in Owner :
         c \in due <=>
           /\ Settled(c) /\ x \in Concerned(KindOf(c)) /\ policy[x].properties # {}
           /\ stored[c].compacted # policy[x].properties
           /\ policy[x].compact[KindOf(c)] # Off /\ hour >= policy[x].compact[KindOf(c)]
  BY <1>3, CompactableIs DEF due
<1>16. /\ \A y \in Component : LastRun(HasDeleted(y))' = LastRun(HasDeleted(y))
       /\ \A y \in Component \ {x} : LastRun(HasCompacted(y))' = LastRun(HasCompacted(y))
       /\ LastRun(HasCompacted(x)) = hour - 1 /\ LastRun(HasCompacted(x))' = hour
  BY <1>1, <1>11 DEF LastRun
<1>17. ASSUME Alike'
       PROVE  UpdatesEnd' /\ CompactedWhenDue' /\ DeletedWhenDue'
  <2>1. /\ UpdatesEnd /\ CompactedWhenDue /\ DeletedWhenDue
        /\ \A y, z \in Component : policy[y].properties = policy[z].properties
    BY <1>1, <1>17 DEF RetentionInv, Alike
  <2>2. ASSUME NEW c \in due, c \in Owner
        PROVE  hour <= LastUpdate(c)
    <3> DEFINE after == policy[x].compact[KindOf(c)]
               last  == LastUpdate(c)
               answered == settled[c]
    <3>1. /\ Settled(c) /\ x \in Concerned(KindOf(c)) /\ policy[x].properties # {}
          /\ stored[c].compacted # policy[x].properties /\ after # Off
      BY <1>15, <2>2
    <3>2. ~(answered < hour - 1 /\ after <= hour - 1)
      BY <1>16, <2>1, <2>2, <3>1 DEF CompactedWhenDue, CompactionDue
    <3>3. KindOf(c) \in Kind
      BY <1>3, <2>2, <3>1, PlayKinds DEF Settled
    <3>4. after \in Nat /\ answered \in Nat
      BY <1>3, <2>2, <3>1, <3>3, PoliciesAre DEF Off
    <3>5. last \in Nat /\ answered + 1 <= last /\ after <= last
      BY <1>3, <2>2, <3>1, <3>3, LastUpdateIs
    <3> HIDE DEF after, last, answered
    <3>6. hour <= last
      BY <1>3, <3>2, <3>4, <3>5
    <3> QED BY <3>6 DEF last
  <2>3. UpdatesEnd'
    <3> SUFFICES ASSUME NEW c \in Owner, Settled(c)
                 PROVE  stored'[c].updated <= LastUpdate(c)
      BY <1>13 DEF UpdatesEnd
    <3>1. CASE c \in due
      BY <1>3, <1>5, <2>2, <3>1
    <3>2. CASE c \notin due
      BY <1>3, <1>5, <2>1, <3>2 DEF UpdatesEnd
    <3> QED BY <3>1, <3>2
  <2>4. CompactedWhenDue'
    <3> SUFFICES ASSUME NEW c \in Owner, NEW y \in Component, CompactionDue(c, y)'
                 PROVE  stored'[c].compacted = policy'[y].properties
      BY DEF CompactedWhenDue
    <3>1. CASE c \in due
      <4>1. stored'[c].compacted = policy[x].properties
        BY <1>3, <1>5, <3>1
      <4>2. policy[x].properties = policy[y].properties
        BY <2>1
      <4> QED BY <1>1, <4>1, <4>2
    <3>2. CASE c \notin due /\ y # x
      <4>1. CompactionDue(c, y)
        BY <1>1, <1>13, <1>16, <3>2 DEF CompactionDue, Concerned
      <4> QED BY <1>1, <1>3, <1>5, <2>1, <3>2, <4>1 DEF CompactedWhenDue
    <3>3. CASE c \notin due /\ y = x
      <4> DEFINE after == policy[x].compact[KindOf(c)]
      <4>1. /\ Settled(c) /\ x \in Concerned(KindOf(c)) /\ policy[x].properties # {}
            /\ after # Off /\ after <= hour
        BY <1>1, <1>13, <1>16, <3>3 DEF CompactionDue, Concerned
      <4>2. KindOf(c) \in Kind
        BY <1>3, <4>1, PlayKinds DEF Settled
      <4>3. after \in Nat
        BY <1>3, <4>1, <4>2, PoliciesAre DEF Off
      <4>4. hour >= after
        <5> HIDE DEF after
        <5> QED BY <1>3, <4>1, <4>3
      <4>5. stored[c].compacted = policy[x].properties
        BY <1>15, <3>3, <4>1, <4>4
      <4> QED BY <1>1, <1>3, <1>5, <3>3, <4>5
    <3> QED BY <3>1, <3>2, <3>3
  <2>5. DeletedWhenDue'
    <3> SUFFICES ASSUME NEW c \in Owner, NEW y \in Concerned(KindOf(c)), Settled(c)
                 PROVE  LastRun(HasDeleted(y)) < LastUpdate(c) + policy[y].delete[KindOf(c)]
      BY <1>1, <1>13, <1>16 DEF DeletedWhenDue, Concerned, Component
    <3> QED BY <2>1 DEF DeletedWhenDue
  <2> QED BY <2>3, <2>4, <2>5
<1> QED BY <1>9, <1>11, <1>12, <1>14, <1>17 DEF RetentionInv

-----------------------------------------------------------------------------
LEMMA RetentionBegins ==
  ASSUME RetentionInit
  PROVE  RetentionInv
<1>1. /\ policy \in Policies /\ hour = 0 /\ retried = {} /\ swept = TRUE
      /\ stored = [p \in Component |->
                     [state |-> IF p = Origin THEN "discovered" ELSE "queued", seen |-> 0,
                      updated |-> 0, compacted |-> {}, deleted |-> Off]]
      /\ cleaning = [x \in Component |-> "no"] /\ settled = [c \in Owner |-> 0]
      /\ Lifetime \in Nat /\ 0 \in 0..Lifetime
      /\ Owner \subseteq Component /\ Origin \in Component /\ Origin \notin Owner
  BY RetentionAssumption DEF RetentionInit, Component
<1>2. /\ \A p \in Component : /\ stored[p] \in Row /\ stored[p].seen = 0
                              /\ stored[p].updated = 0 /\ There(p)
      /\ \A c \in Owner : stored[c].state = "queued"
  BY <1>1 DEF Row, State, There
<1>3. RetentionTypeOK
  BY <1>1, <1>2 DEF RetentionTypeOK, Row
<1>4. TurnsTaken /\ RowsFit /\ KeptWhileNeeded
  BY <1>1, <1>2 DEF TurnsTaken, Sweeping, RowsFit, KeptWhileNeeded
<1>5. UpdatesEnd /\ CompactedWhenDue /\ DeletedWhenDue
  <2>1. \A c \in Owner : ~Settled(c)
    BY <1>2 DEF Settled
  <2> QED BY <2>1 DEF UpdatesEnd, CompactedWhenDue, CompactionDue, DeletedWhenDue
<1> QED BY <1>3, <1>4, <1>5 DEF RetentionInv

LEMMA RetentionSteps ==
  ASSUME RetentionInv, [RetentionNext]_retentionVars
  PROVE  RetentionInv'
<1>1. CASE StartsSweep
  BY <1>1, StartsSweepStep
<1>2. CASE HourPasses
  BY <1>2, HourPassesStep
<1>3. ASSUME NEW x \in Component, DeleteExpired(x)
      PROVE  RetentionInv'
  BY <1>3, DeleteStep
<1>4. ASSUME NEW x \in Component, Compact(x)
      PROVE  RetentionInv'
  BY <1>4, CompactStep
<1>5. ASSUME NEW c \in Owner, TakesDead(c)
      PROVE  RetentionInv'
  BY <1>5, NothingStep DEF TakesDead, RetentionInv, RetentionTypeOK
<1>6. ASSUME NEW c \in Owner, NEW s \in {"scrobbled", "failed", "duped"}, LoopSettles(c, s)
      PROVE  RetentionInv'
  <2>1. retried' \subseteq Owner
    BY <1>6 DEF LoopSettles, RetentionInv, RetentionTypeOK
  <2> QED BY <1>6, <2>1, SettlesStep DEF LoopSettles
<1>7. ASSUME NEW c \in Owner, NEW o \in {"scrobbled", "duped", "rejected", "noHistory"},
             RetryEnds(c, o)
      PROVE  RetentionInv'
  <2>1. retried' \subseteq Owner /\ UNCHANGED <<policy, hour, cleaning, swept>>
    BY <1>7 DEF RetryEnds, RetentionInv, RetentionTypeOK
  <2>2. CASE ~There(c) \/ o = "noHistory"
    BY <1>7, <2>1, <2>2, NothingStep DEF RetryEnds
  <2>3. CASE There(c) /\ o # "noHistory"
    <3> DEFINE state == IF o = "rejected" THEN "failed" ELSE o
    <3>1. state \in {"scrobbled", "failed", "duped"}
      BY <2>3
    <3>2. stored' = WithState(c, state) /\ settled' = [settled EXCEPT ![c] = hour]
      BY <1>7, <2>3 DEF RetryEnds, Rejected
    <3> HIDE DEF state
    <3> QED BY <2>1, <2>3, <3>1, <3>2, SettlesStep
  <2> QED BY <2>2, <2>3
<1>8. CASE UNCHANGED retentionVars
  BY <1>8, NothingStep DEF retentionVars, RetentionInv, RetentionTypeOK
<1> QED BY <1>1, <1>2, <1>3, <1>4, <1>5, <1>6, <1>7, <1>8 DEF RetentionNext

(* When the task has run, every component has deleted what had expired, the *)
(* one with the shortest time too.                                          *)
LEMMA RetentionHolds ==
  ASSUME RetentionInv
  PROVE  RetentionIsSound
<1>1. RetentionTypeOK /\ KeptWhileNeeded /\ RowsFit
  BY DEF RetentionInv
<1>2. ASSUME Alike, swept, ~Sweeping, NEW c \in Owner, There(c), stored[c].state # "queued"
      PROVE  hour < LastUpdate(c) + DeletedAfter(KindOf(c))
  <2>1. KindOf(c) \in Kind /\ policy \in Policies /\ Settled(c)
    BY <1>1, <1>2, PlayKinds DEF RetentionTypeOK, Settled
  <2>2. PICK x \in Concerned(KindOf(c)) : DeletedAfter(KindOf(c)) = policy[x].delete[KindOf(c)]
    BY <2>1, ShortestIs
  <2>3. x \in Component
    BY DEF Concerned, Component
  <2>4. HasDeleted(x)
    BY <1>2, <2>3 DEF HasDeleted, Sweeping
  <2>5. LastRun(HasDeleted(x)) < LastUpdate(c) + policy[x].delete[KindOf(c)]
    BY <1>2, <2>1 DEF RetentionInv, DeletedWhenDue
  <2> QED BY <2>2, <2>4, <2>5 DEF LastRun
<1> QED BY <1>1, <1>2 DEF RetentionIsSound, GoneInTime

LEMMA RetentionStays == RetentionSpec => []RetentionInv
  BY RetentionBegins, RetentionSteps, PTL DEF RetentionSpec

(* RetentionIsSound: a Play that waits to be scrobbled is never deleted, any *)
(* other not before the shortest time a policy sets has passed since its    *)
(* Client had an answer, and the Source's Play not while a Client has one   *)
(* of it; and where the policies compact alike no settled Play outlives the *)
(* shortest time after the last update it can have.                         *)
THEOREM RetentionAlwaysSound == RetentionSpec => []RetentionIsSound
  BY RetentionStays, RetentionHolds, PTL

(***************************************************************************)
(* The three together.  A behaviour is one of one of them.                 *)
(***************************************************************************)

(* Each part keeps what it has: a list compared with and its window, the    *)
(* remembered lists, the caches and the Play under transformation are what  *)
(* the code can read, in every behaviour of either part (YTMusicSource.ts,  *)
(* AppleMusicSource.ts, AbstractComponent.ts).                              *)
THEOREM IngressAlwaysTyped == Spec => []TypeOK
<1> DEFINE Both == SnapshotInv /\ TransformInv
<1>1. Init => Both
  BY SnapshotInitInv, TransformStarts DEF Init
<1>2. Both /\ [Next /\ UNCHANGED part]_<<snapshotVars, transformVars, retentionVars, part>> => Both'
  <2> SUFFICES ASSUME Both, [Next]_<<snapshotVars, transformVars, retentionVars>>
               PROVE  Both'
    OBVIOUS
  <2>1. [SnapshotNext]_snapshotVars /\ [TransformNext]_transformVars
    BY DEF Next
  <2> QED BY <2>1, SnapshotStep, TransformStays
<1>3. Both => TypeOK
  <2>1. TransformInv => TransformTypeOK
    BY DEF TransformInv, Caches, TransformTypeOK, RunFits, RunType, Idle, Content
  <2> QED BY <2>1 DEF SnapshotInv, TypeOK
<1> QED BY <1>1, <1>2, <1>3, PTL DEF Spec
=============================================================================
