------------------------ MODULE ManagerService_proofs ------------------------
(***************************************************************************)
(* The download manager is a legal caller of the service: every step of    *)
(* the two together is a step of DownloadService, seen without the         *)
(* requests that still wait in the manager and without MSG_BIND_SUC.  With *)
(* it, what is proved of the service alone holds of the two.               *)
(***************************************************************************)
EXTENDS DownloadManager_proofs, FiniteSetTheorems, SequenceTheorems

-----------------------------------------------------------------------------
(* Places.  A finite set of numbers, counted from below: every member has a  *)
(* place of its own, and every place up to the cardinality is taken.         *)
Place(K, i) == Cardinality({j \in K : j <= i})
Nth(K, k) == CHOOSE i \in K : Place(K, i) = k

LEMMA PlaceGrows ==
    ASSUME NEW K \in SUBSET Int, IsFiniteSet(K)
    PROVE  /\ \A i \in Int : Place(K, i) \in 0..Cardinality(K)
           /\ \A i \in Int, j \in K : i < j => Place(K, i) < Place(K, j)
<1>1. Cardinality(K) \in Nat
  BY FS_CardinalityType
<1>2. ASSUME NEW i \in Int
      PROVE  IsFiniteSet({j \in K : j <= i}) /\ Place(K, i) \in 0..Cardinality(K)
  <2>1. PICK L : L = {j \in K : j <= i}
    OBVIOUS
  <2>2. IsFiniteSet(L) /\ Cardinality(L) <= Cardinality(K)
    BY <2>1, FS_Subset
  <2>3. Cardinality(L) \in Nat /\ Place(K, i) = Cardinality(L)
    BY <2>1, <2>2, FS_CardinalityType DEF Place
  <2>4. Place(K, i) \in 0..Cardinality(K)
    BY <1>1, <2>2, <2>3
  <2>5. QED
    BY <2>1, <2>2, <2>4
<1>3. ASSUME NEW i \in Int, NEW j \in K, i < j PROVE Place(K, i) < Place(K, j)
  <2>1. PICK A : A = {m \in K : m <= i}
    OBVIOUS
  <2>2. PICK B : B = {m \in K : m <= j}
    OBVIOUS
  <2>3. A \in SUBSET B /\ j \in B /\ j \notin A
    <3>1. \A m \in K : m <= i => m <= j
      BY <1>3
    <3>2. j \in Int /\ j <= j /\ ~(j <= i)
      BY <1>3
    <3>3. QED
      BY <2>1, <2>2, <3>1, <3>2
  <2>4. IsFiniteSet(A) /\ IsFiniteSet(B) /\ Cardinality(A) \in Nat /\ Cardinality(B) \in Nat
    BY <1>2, <2>1, <2>2, FS_CardinalityType
  <2>5. Cardinality(A) <= Cardinality(B) /\ Cardinality(A) # Cardinality(B)
    BY <2>3, <2>4, FS_Subset
  <2>6. Place(K, i) = Cardinality(A) /\ Place(K, j) = Cardinality(B)
    BY <2>1, <2>2 DEF Place
  <2>7. QED
    BY <2>4, <2>5, <2>6
<1>4. QED
  BY <1>2, <1>3

LEMMA EveryPlaceTaken ==
    ASSUME NEW K \in SUBSET Int, IsFiniteSet(K)
    PROVE  /\ \A i \in K : Place(K, i) \in 1..Cardinality(K) /\ Nth(K, Place(K, i)) = i
           /\ \A k \in 1..Cardinality(K) : Nth(K, k) \in K /\ Place(K, Nth(K, k)) = k
<1>1. Cardinality(K) \in Nat
  BY FS_CardinalityType
<1>2. \A i \in K : Place(K, i) \in 1..Cardinality(K)
  <2> SUFFICES ASSUME NEW i \in K PROVE Place(K, i) \in 1..Cardinality(K)
    OBVIOUS
  <2>1. i \in Int /\ i - 1 \in Int /\ i - 1 < i
    OBVIOUS
  <2>2. /\ Place(K, i) \in 0..Cardinality(K)
        /\ Place(K, i - 1) \in 0..Cardinality(K)
        /\ Place(K, i - 1) < Place(K, i)
    BY <2>1, PlaceGrows
  <2>3. QED
    BY <1>1, <2>2
<1>3. \A i, j \in K : Place(K, i) = Place(K, j) => i = j
  <2> SUFFICES ASSUME NEW i \in K, NEW j \in K, i < j PROVE Place(K, i) # Place(K, j)
    BY <1>2
  <2>1. Place(K, i) \in Int /\ Place(K, j) \in Int /\ Place(K, i) < Place(K, j)
    BY <1>1, <1>2, PlaceGrows
  <2>2. QED
    BY <2>1
<1>4. [i \in K |-> Place(K, i)] \in Injection(K, 1..Cardinality(K))
  BY <1>2, <1>3 DEF Injection, IsInjective
<1>5. IsFiniteSet(1..Cardinality(K)) /\ Cardinality(1..Cardinality(K)) = Cardinality(K)
  BY <1>1, FS_Interval
<1>6. [i \in K |-> Place(K, i)] \in Surjection(K, 1..Cardinality(K))
  BY <1>4, <1>5, FS_Injection
<1>7. \A k \in 1..Cardinality(K) : \E i \in K : Place(K, i) = k
  BY <1>6 DEF Surjection
<1>8. QED
  BY <1>2, <1>3, <1>7 DEF Nth

-----------------------------------------------------------------------------
(* What remains of a sequence without an element, place by place. *)
Kept(s, e) == {i \in DOMAIN s : s[i] # e}

LEMMA WithoutPlaces ==
    ASSUME NEW s, NEW e
    PROVE  Without(s, e) = [k \in 1..Cardinality(Kept(s, e)) |-> s[Nth(Kept(s, e), k)]]
  BY DEF Without, Kept, Nth, Place

LEMMA KeptFinite ==
    ASSUME NEW S, NEW s \in Seq(S), NEW e
    PROVE  /\ Kept(s, e) \in SUBSET (1..Len(s)) /\ Kept(s, e) \in SUBSET Int
           /\ IsFiniteSet(Kept(s, e)) /\ Cardinality(Kept(s, e)) \in Nat
<1>1. Len(s) \in Nat /\ DOMAIN s = 1..Len(s)
  OBVIOUS
<1>2. IsFiniteSet(1..Len(s))
  BY <1>1, FS_Interval
<1>3. Kept(s, e) \in SUBSET (1..Len(s))
  BY <1>1 DEF Kept
<1>4. Kept(s, e) \in SUBSET Int
  BY <1>1, <1>3
<1>5. QED
  BY <1>2, <1>3, <1>4, FS_Subset, FS_CardinalityType

LEMMA WithoutElements ==
    ASSUME NEW S, NEW s \in Seq(S), NEW e
    PROVE  /\ Without(s, e) \in Seq(S)
           /\ Len(Without(s, e)) = Cardinality(Kept(s, e))
           /\ \A k \in DOMAIN Without(s, e) :
                 \E i \in DOMAIN s : s[i] # e /\ Without(s, e)[k] = s[i]
<1>1. PICK K : K = Kept(s, e)
  OBVIOUS
<1>2. PICK c : c = Cardinality(K)
  OBVIOUS
<1>3. c \in Nat /\ DOMAIN s = 1..Len(s)
  BY <1>1, <1>2, KeptFinite
<1>4. \A k \in 1..c : Nth(K, k) \in DOMAIN s /\ s[Nth(K, k)] # e
  <2>1. K \in SUBSET Int /\ IsFiniteSet(K)
    BY <1>1, KeptFinite
  <2>2. \A k \in 1..c : Nth(K, k) \in K
    BY <1>2, <2>1, EveryPlaceTaken
  <2>3. QED
    BY <1>1, <2>2 DEF Kept
<1>5. Without(s, e) = [k \in 1..c |-> s[Nth(K, k)]]
  BY <1>1, <1>2, WithoutPlaces
<1>6. \A k \in 1..c : s[Nth(K, k)] \in S
  BY <1>3, <1>4
<1>7. QED
  BY <1>1, <1>2, <1>3, <1>4, <1>5, <1>6

LEMMA WithoutNothing ==
    ASSUME NEW e PROVE Without(<<>>, e) = <<>>
<1>1. <<>> \in Seq({})
  OBVIOUS
<1>2. Kept(<<>>, e) = {}
  BY DEF Kept
<1>3. Cardinality(Kept(<<>>, e)) = 0
  BY <1>2, FS_EmptySet
<1>4. Without(<<>>, e) \in Seq({}) /\ Len(Without(<<>>, e)) = Cardinality(Kept(<<>>, e))
  BY <1>1, WithoutElements
<1>5. QED
  BY <1>3, <1>4, EmptySeq

(* An element that is kept comes last, and one that is not changes nothing. *)
LEMMA WithoutAppend ==
    ASSUME NEW S, NEW s \in Seq(S), NEW e, NEW x \in S
    PROVE  Without(Append(s, x), e)
             = IF x = e THEN Without(s, e) ELSE Append(Without(s, e), x)
<1>1. PICK n : n = Len(s) + 1
  OBVIOUS
<1>2. n \in Nat /\ n \in Int /\ DOMAIN s = 1..(n - 1) /\ DOMAIN Append(s, x) = 1..n
      /\ Append(s, x)[n] = x /\ \A i \in 1..(n - 1) : Append(s, x)[i] = s[i]
  BY <1>1
<1>3. PICK K : K = Kept(s, e)
  OBVIOUS
<1>4. PICK L : L = Kept(Append(s, x), e)
  OBVIOUS
<1>5. PICK c : c = Cardinality(K)
  OBVIOUS
<1>6. /\ K \in SUBSET Int /\ IsFiniteSet(K) /\ c \in Nat /\ K \in SUBSET (1..(n - 1))
      /\ L \in SUBSET Int /\ IsFiniteSet(L)
  <2>1. Append(s, x) \in Seq(S) /\ Len(s) = n - 1
    BY <1>1
  <2>2. QED
    BY <1>3, <1>4, <1>5, <2>1, KeptFinite
<1>7. /\ Without(s, e) = [k \in 1..c |-> s[Nth(K, k)]]
      /\ Without(Append(s, x), e) = [k \in 1..Cardinality(L) |-> Append(s, x)[Nth(L, k)]]
  BY <1>3, <1>4, <1>5, WithoutPlaces
<1>8. \A k \in 1..c : Nth(K, k) \in K /\ Append(s, x)[Nth(K, k)] = s[Nth(K, k)]
  BY <1>2, <1>5, <1>6, EveryPlaceTaken
<1>9. CASE x = e
  <2>1. L = K
    BY <1>2, <1>3, <1>4, <1>9 DEF Kept
  <2>2. QED
    BY <1>5, <1>7, <1>8, <1>9, <2>1
<1>10. CASE x # e
  <2>1. L = K \cup {n} /\ n \notin K
    BY <1>2, <1>3, <1>4, <1>10 DEF Kept
  <2>2. Cardinality(L) = c + 1
    BY <1>5, <1>6, <2>1, FS_AddElement
  <2>3. ASSUME NEW i \in K PROVE Place(L, i) = Place(K, i)
    <3>1. {j \in L : j <= i} = {j \in K : j <= i}
      BY <1>2, <1>6, <2>1
    <3>2. QED
      BY <3>1 DEF Place
  <2>4. Place(L, n) = c + 1
    <3>1. \A j \in L : j <= n
      BY <1>2, <1>6, <2>1
    <3>2. {j \in L : j <= n} = L
      BY <3>1
    <3>3. QED
      BY <2>2, <3>2 DEF Place
  <2>5. \A k \in 1..c : Nth(L, k) = Nth(K, k)
    <3> SUFFICES ASSUME NEW k \in 1..c PROVE Nth(L, k) = Nth(K, k)
      OBVIOUS
    <3>1. Nth(K, k) \in K /\ Place(K, Nth(K, k)) = k
      BY <1>5, <1>6, EveryPlaceTaken
    <3>2. Nth(K, k) \in L /\ Place(L, Nth(K, k)) = k
      BY <2>1, <2>3, <3>1
    <3>3. Nth(L, Place(L, Nth(K, k))) = Nth(K, k)
      BY <1>6, <3>2, EveryPlaceTaken
    <3>4. QED
      BY <3>2, <3>3
  <2>6. Nth(L, c + 1) = n
    <3>1. Nth(L, Place(L, n)) = n
      BY <1>6, <2>1, EveryPlaceTaken
    <3>2. QED
      BY <2>4, <3>1
  <2>7. Without(Append(s, x), e)
          = [k \in 1..(c + 1) |-> IF k = c + 1 THEN x ELSE s[Nth(K, k)]]
    <3>1. \A k \in 1..(c + 1) : Append(s, x)[Nth(L, k)]
                                  = IF k = c + 1 THEN x ELSE s[Nth(K, k)]
      <4>1. \A k \in 1..c : Append(s, x)[Nth(L, k)] = s[Nth(K, k)]
        BY <1>8, <2>5
      <4>2. Append(s, x)[Nth(L, c + 1)] = x
        BY <1>2, <2>6
      <4>3. \A k \in 1..(c + 1) : k \in 1..c \/ k = c + 1
        BY <1>6
      <4>4. c + 1 \notin 1..c
        BY <1>6
      <4>5. QED
        BY <4>1, <4>2, <4>3, <4>4
    <3>2. QED
      BY <1>7, <2>2, <3>1
  <2>8. Without(s, e) \in Seq(S) /\ Len(Without(s, e)) = c
    BY <1>3, <1>5, WithoutElements
  <2>9. Append(Without(s, e), x)
          = [k \in 1..(c + 1) |-> IF k = c + 1 THEN x ELSE s[Nth(K, k)]]
    <3>1. /\ Append(Without(s, e), x) \in Seq(S)
          /\ Len(Append(Without(s, e), x)) = c + 1
          /\ \A k \in 1..c : Append(Without(s, e), x)[k] = Without(s, e)[k]
          /\ Append(Without(s, e), x)[c + 1] = x
      BY <1>6, <2>8
    <3>2. \A k \in 1..c : Without(s, e)[k] = s[Nth(K, k)]
      BY <1>7
    <3>3. Append(Without(s, e), x) = [k \in 1..(c + 1) |-> Append(Without(s, e), x)[k]]
      BY <3>1, LenProperties
    <3>4. QED
      BY <1>6, <3>1, <3>2, <3>3
  <2>10. QED
    BY <1>10, <2>7, <2>9
<1>11. QED
  BY <1>9, <1>10

(* The tail of a sequence holds the same elements one place earlier, so a     *)
(* first element that is kept is the first to go.                             *)
LEMMA ShiftedCardinality ==
    ASSUME NEW A \in SUBSET Int, IsFiniteSet(A), NEW B, B = {j + 1 : j \in A}
    PROVE  IsFiniteSet(B) /\ Cardinality(B) = Cardinality(A)
<1>1. PICK f : f = [j \in A |-> j + 1]
  OBVIOUS
<1>2. f \in [A -> B] /\ \A j \in A : f[j] = j + 1
  BY <1>1
<1>3. \A i, j \in A : i + 1 = j + 1 => i = j
  OBVIOUS
<1>4. \A b \in B : \E j \in A : f[j] = b
  BY <1>2
<1>5. f \in Bijection(A, B)
  BY <1>2, <1>3, <1>4 DEF Bijection, Injection, Surjection, IsInjective
<1>6. QED
  BY <1>5, FS_Bijection DEF ExistsBijection

LEMMA WithoutTail ==
    ASSUME NEW S, NEW s \in Seq(S), s # <<>>, NEW e
    PROVE  /\ Head(s) = e => Without(s, e) = Without(Tail(s), e)
           /\ Head(s) # e => /\ Without(s, e) # <<>>
                             /\ Head(Without(s, e)) = Head(s)
                             /\ Tail(Without(s, e)) = Without(Tail(s), e)
<1>1. PICK r : r = Tail(s)
  OBVIOUS
<1>2. PICK n : n = Len(r)
  OBVIOUS
<1>3. /\ n \in Nat /\ n \in Int /\ r \in Seq(S) /\ DOMAIN r = 1..n /\ Len(s) = n + 1
      /\ DOMAIN s = 1..(n + 1) /\ Head(s) = s[1] /\ \A i \in 1..n : r[i] = s[i + 1]
  BY <1>1, <1>2
<1>4. PICK K : K = Kept(s, e)
  OBVIOUS
<1>5. PICK L : L = Kept(r, e)
  OBVIOUS
<1>6. PICK c : c = Cardinality(L)
  OBVIOUS
<1>7. PICK h : h = IF Head(s) = e THEN 0 ELSE 1
  OBVIOUS
<1>8. h \in {0, 1} /\ (h = 0 <=> Head(s) = e)
  BY <1>7
<1>9. /\ K \in SUBSET Int /\ IsFiniteSet(K) /\ K \in SUBSET (1..(n + 1))
      /\ L \in SUBSET Int /\ IsFiniteSet(L) /\ L \in SUBSET (1..n) /\ c \in Nat
  BY <1>2, <1>3, <1>4, <1>5, <1>6, KeptFinite
<1>10. 1 \in K <=> h = 1
  BY <1>3, <1>4, <1>8 DEF Kept
<1>11. \A i \in 1..n : i \in L <=> i + 1 \in K
  BY <1>3, <1>4, <1>5 DEF Kept
<1>12. ASSUME NEW i \in 0..n PROVE Place(K, i + 1) = Place(L, i) + h
  <2>1. PICK A : A = {j \in L : j <= i}
    OBVIOUS
  <2>2. PICK B : B = {j + 1 : j \in A}
    OBVIOUS
  <2>3. A \in SUBSET Int /\ IsFiniteSet(A) /\ Place(L, i) = Cardinality(A)
    <3>1. A \in SUBSET L
      BY <2>1
    <3>2. QED
      BY <1>9, <2>1, <3>1, FS_Subset DEF Place
  <2>4. IsFiniteSet(B) /\ Cardinality(B) = Place(L, i) /\ Place(L, i) \in Nat
    BY <2>2, <2>3, ShiftedCardinality, FS_CardinalityType
  <2>5. 1 \notin B
    BY <1>9, <2>1, <2>2
  <2>6. \A j \in Int : (j \in K /\ j <= i + 1) <=> (j \in B \/ (j = 1 /\ h = 1))
    <3> SUFFICES ASSUME NEW j \in Int
                 PROVE  (j \in K /\ j <= i + 1) <=> (j \in B \/ (j = 1 /\ h = 1))
      OBVIOUS
    <3>1. j \in B <=> j - 1 \in L /\ j - 1 <= i
      <4>1. j \in B <=> \E m \in L : m <= i /\ j = m + 1
        BY <2>1, <2>2
      <4>2. \A m \in L : j = m + 1 <=> m = j - 1
        BY <1>9
      <4>3. QED
        BY <4>1, <4>2
    <3>2. j - 1 \in L <=> j \in K /\ j # 1
      <4>1. CASE j - 1 \in 1..n
        <5>1. j - 1 \in L <=> (j - 1) + 1 \in K
          BY <1>11, <4>1
        <5>2. (j - 1) + 1 = j /\ j # 1
          BY <1>3, <4>1
        <5>3. QED
          BY <5>1, <5>2
      <4>2. CASE j - 1 \notin 1..n
        BY <1>3, <1>9, <4>2
      <4>3. QED
        BY <4>1, <4>2
    <3>3. j - 1 <= i <=> j <= i + 1
      BY <1>3
    <3>4. 1 <= i + 1
      BY <1>3
    <3>5. QED
      BY <1>10, <3>1, <3>2, <3>3, <3>4
  <2>7. PICK C : C = {j \in K : j <= i + 1}
    OBVIOUS
  <2>8. C \in SUBSET Int /\ B \in SUBSET Int /\ Place(K, i + 1) = Cardinality(C)
    <3>1. C \in SUBSET Int
      BY <1>9, <2>7
    <3>2. B \in SUBSET Int
      BY <2>2, <2>3
    <3>3. Place(K, i + 1) = Cardinality(C)
      BY <2>7 DEF Place
    <3>4. QED
      BY <3>1, <3>2, <3>3
  <2>9. CASE h = 0
    <3>1. \A j \in Int : j \in C <=> j \in B
      BY <2>6, <2>7, <2>9
    <3>2. C = B
      BY <2>8, <3>1
    <3>3. QED
      BY <2>4, <2>8, <2>9, <3>2
  <2>10. CASE h = 1
    <3>1. \A j \in Int : j \in C <=> j \in B \cup {1}
      BY <2>6, <2>7, <2>10
    <3>2. B \cup {1} \in SUBSET Int
      BY <2>8
    <3>3. C = B \cup {1}
      BY <2>8, <3>1, <3>2
    <3>4. QED
      BY <2>4, <2>5, <2>8, <2>10, <3>3, FS_AddElement
  <2>11. QED
    BY <1>8, <2>9, <2>10
<1>13. Cardinality(K) = c + h
  <2>1. {j \in K : j <= n + 1} = K /\ {j \in L : j <= n} = L
    <3>1. (\A j \in K : j <= n + 1) /\ (\A j \in L : j <= n)
      BY <1>9
    <3>2. QED
      BY <3>1
  <2>2. Place(K, n + 1) = Cardinality(K) /\ Place(L, n) = c
    BY <1>6, <2>1 DEF Place
  <2>3. n \in 0..n
    BY <1>3
  <2>4. QED
    BY <1>12, <2>2, <2>3
<1>14. ASSUME NEW k \in 1..c PROVE Nth(K, k + h) = Nth(L, k) + 1 /\ Nth(L, k) \in 1..n
  <2>1. Nth(L, k) \in L /\ Place(L, Nth(L, k)) = k
    BY <1>6, <1>9, EveryPlaceTaken
  <2>2. Nth(L, k) \in 1..n /\ Nth(L, k) \in 0..n
    <3>1. \A i \in L : i \in 1..n
      BY <1>9
    <3>2. \A i \in 1..n : i \in 0..n
      BY <1>3
    <3>3. QED
      BY <2>1, <3>1, <3>2
  <2>3. Nth(L, k) + 1 \in K /\ Place(K, Nth(L, k) + 1) = k + h
    BY <1>11, <1>12, <2>1, <2>2
  <2>4. Nth(K, Place(K, Nth(L, k) + 1)) = Nth(L, k) + 1
    BY <1>9, <2>3, EveryPlaceTaken
  <2>5. QED
    BY <2>2, <2>3, <2>4
<1>15. /\ Without(s, e) = [k \in 1..(c + h) |-> s[Nth(K, k)]]
       /\ Without(r, e) = [k \in 1..c |-> r[Nth(L, k)]]
  BY <1>4, <1>5, <1>6, <1>13, WithoutPlaces
<1>16. \A k \in 1..c : s[Nth(K, k + h)] = r[Nth(L, k)]
  BY <1>3, <1>14
<1>17. CASE Head(s) = e
  <2>1. h = 0 /\ c + h = c /\ \A k \in 1..c : k + h = k
    BY <1>8, <1>9, <1>17
  <2>2. \A k \in 1..c : s[Nth(K, k)] = r[Nth(L, k)]
    BY <1>16, <2>1
  <2>3. Without(s, e) = Without(r, e)
    BY <1>15, <2>1, <2>2
  <2>4. QED
    BY <1>1, <1>17, <2>3
<1>18. CASE Head(s) # e
  <2>1. h = 1
    BY <1>8, <1>18
  <2>2. Nth(K, 1) = 1
    <3>1. Place(L, 0) = 0
      <4>1. \A j \in L : ~(j <= 0)
        BY <1>9
      <4>2. {j \in L : j <= 0} = {}
        BY <4>1
      <4>3. QED
        BY <4>2, FS_EmptySet DEF Place
    <3>2. Place(K, 1) = 1
      <4>1. 0 \in 0..n /\ 0 + 1 = 1
        BY <1>3
      <4>2. QED
        BY <1>12, <2>1, <3>1, <4>1
    <3>3. 1 \in K
      BY <1>10, <2>1
    <3>4. QED
      BY <1>9, <3>2, <3>3, EveryPlaceTaken
  <2>3. /\ Without(s, e) \in Seq(S) /\ Len(Without(s, e)) = c + 1
        /\ Without(r, e) \in Seq(S) /\ Len(Without(r, e)) = c
    BY <1>3, <1>4, <1>5, <1>6, <1>13, <2>1, WithoutElements
  <2>4. /\ Without(s, e) # <<>>
        /\ Head(Without(s, e)) = Without(s, e)[1]
        /\ Tail(Without(s, e)) \in Seq(S)
        /\ Len(Tail(Without(s, e))) = c
        /\ \A k \in 1..c : Tail(Without(s, e))[k] = Without(s, e)[k + 1]
    BY <1>9, <2>3
  <2>5. Without(s, e)[1] = Head(s)
    <3>1. 1 \in 1..(c + h)
      BY <1>9, <2>1
    <3>2. Without(s, e)[1] = s[Nth(K, 1)]
      BY <1>15, <3>1
    <3>3. QED
      BY <1>3, <2>2, <3>2
  <2>6. \A k \in 1..c : Tail(Without(s, e))[k] = Without(r, e)[k]
    <3> SUFFICES ASSUME NEW k \in 1..c PROVE Tail(Without(s, e))[k] = Without(r, e)[k]
      OBVIOUS
    <3>1. k + 1 \in 1..(c + h)
      BY <1>9, <2>1
    <3>2. Without(s, e)[k + 1] = s[Nth(K, k + 1)] /\ Without(r, e)[k] = r[Nth(L, k)]
      BY <1>15, <3>1
    <3>3. QED
      BY <1>16, <2>1, <2>4, <3>2
  <2>7. Tail(Without(s, e)) = Without(r, e)
    BY <2>3, <2>4, <2>6, SeqEqual
  <2>8. QED
    BY <1>1, <1>18, <2>4, <2>5, <2>7
<1>19. QED
  BY <1>17, <1>18

-----------------------------------------------------------------------------
(* The tasks the service knows, and those it is still initialising. *)
Names(t) ==
    \/ \E i \in DOMAIN taskList : taskList[i] = t
    \/ \E i \in DOMAIN pool : pool[i].task = t
    \/ \E w \in Workers : worker[w].task = t
    \/ \E i \in DOMAIN looper : looper[i].task = t
    \/ \E i \in DOMAIN broadcasts : broadcasts[i] = t

Starts(t) ==
    \/ \E i \in DOMAIN pool : pool[i].pc = "init" /\ pool[i].task = t
    \/ \E w \in Workers : worker[w].pc = "init" /\ worker[w].task = t
    \/ \E i \in DOMAIN looper : looper[i].what = "MSG_INIT" /\ looper[i].task = t

NoNewNames == \A t \in TaskInfos : (Names(t)' => Names(t)) /\ (Starts(t)' => Starts(t))

(* A task is being initialised exactly if its url is, and no step of a thread *)
(* or a handler names a task that was not named before.                       *)
LEMMA StartsInitialise ==
    ASSUME Typed, NEW u PROVE Initialising(u) <=> \E t \in TaskInfos : Starts(t) /\ urlOf[t] = u
<1>1. \A i \in DOMAIN pool : pool[i].task \in TaskInfos
  BY TypedElements
<1>2. \A w \in Workers : worker[w].pc = "init" => worker[w].task \in TaskInfos
  BY TypedElements DEF Idle
<1>3. \A i \in DOMAIN looper : looper[i].what = "MSG_INIT" => looper[i].task \in TaskInfos
  BY TypedElements DEF BindSuc
<1>4. QED
  BY <1>1, <1>2, <1>3 DEF Initialising, Starts

LEMMA IdleNamesNone == Idle.task \notin TaskInfos /\ Idle.pc # "init" /\ BindSuc.task \notin TaskInfos
                       /\ BindSuc.what # "MSG_INIT"
  BY NoTaskAssumption DEF Idle, BindSuc

LEMMA TakeNames == ASSUME Typed, NEW w \in Workers, Take(w) PROVE NoNewNames
<1>1. pool \in Seq(Thread) /\ pool # <<>> /\ worker \in [Workers -> Thread \cup {Idle}]
      /\ pool' = Tail(pool) /\ worker' = [worker EXCEPT ![w] = Head(pool)]
      /\ UNCHANGED <<taskList, looper, broadcasts>>
  BY DEF Typed, TypeOK, Take, mainOwned
<1>2. /\ 1 \in DOMAIN pool /\ Head(pool) = pool[1]
      /\ \A i \in DOMAIN pool' : i + 1 \in DOMAIN pool /\ pool'[i] = pool[i + 1]
  BY <1>1, TailElements
<1>3. \A x \in Workers : worker'[x] = worker[x] \/ worker'[x] = pool[1]
  BY <1>1, <1>2
<1>4. QED
  BY <1>1, <1>2, <1>3 DEF NoNewNames, Names, Starts

(* A thread that goes on or ends, and what it sends. *)
LEMMA ThreadNames ==
    ASSUME Typed, NEW w \in Workers, NEW th, worker' = [worker EXCEPT ![w] = th],
           th = Idle \/ (th.task = worker[w].task /\ th.pc # "init"),
           \A i \in DOMAIN looper' :
              \/ i \in DOMAIN looper /\ looper'[i] = looper[i]
              \/ /\ looper'[i].task = worker[w].task
                 /\ looper'[i].what = "MSG_INIT" => worker[w].pc = "init",
           UNCHANGED <<taskList, pool, broadcasts>>
    PROVE  NoNewNames
<1>1. worker \in [Workers -> Thread \cup {Idle}]
  BY DEF Typed, TypeOK
<1>2. \A x \in Workers : worker'[x] = worker[x] \/ worker'[x] = th
  BY <1>1
<1>3. QED
  BY <1>2, IdleNamesNone DEF NoNewNames, Names, Starts

LEMMA WorkerNames ==
    ASSUME Typed, NEW w \in Workers, WorkerStep(w) \/ Fail(w) PROVE NoNewNames
<1>1. looper \in Seq(Message \cup {BindSuc}) /\ worker \in [Workers -> Thread \cup {Idle}]
  BY DEF Typed, TypeOK
<1>2. CASE Take(w)
  BY <1>2, TakeNames
<1>3. CASE InitDone(w)
  <2>1. PICK m : m = [what |-> "MSG_INIT", task |-> worker[w].task]
    OBVIOUS
  <2>2. m \in Message
    BY <1>3, <2>1, AtTyped DEF InitDone, At, Message
  <2>3. \A i \in DOMAIN looper' : (i \in DOMAIN looper /\ looper'[i] = looper[i]) \/ looper'[i] = m
    BY <1>1, <1>3, <2>1, <2>2, AppendElements DEF InitDone
  <2>4. m.task = worker[w].task /\ worker[w].pc = "init"
    BY <1>3, <2>1 DEF InitDone, At
  <2>5. \A i \in DOMAIN looper' :
           \/ i \in DOMAIN looper /\ looper'[i] = looper[i]
           \/ /\ looper'[i].task = worker[w].task
              /\ looper'[i].what = "MSG_INIT" => worker[w].pc = "init"
    BY <2>3, <2>4
  <2>6. UNCHANGED <<taskList, pool, broadcasts>> /\ worker' = [worker EXCEPT ![w] = Idle]
    BY <1>3 DEF InitDone, Exit, mainOwned
  <2>7. QED
    BY <2>5, <2>6, ThreadNames
<1>4. CASE Connect(w) \/ SaveProgress(w) \/ Fail(w)
  <2>1. PICK th : /\ worker' = [worker EXCEPT ![w] = th]
                  /\ th = Idle \/ (th.task = worker[w].task /\ th.pc # "init")
    <3>1. CASE Exit(w)
      BY <3>1 DEF Exit
    <3>2. CASE Connect(w) /\ ~Exit(w)
      <4>1. worker[w] \in Thread
        BY <3>2, AtTyped DEF Connect, At
      <4>2. PICK n : worker' = [worker EXCEPT ![w].pc = "read", ![w].last = n]
        BY <3>2 DEF Connect
      <4>3. worker' = [worker EXCEPT ![w] = [worker[w] EXCEPT !.pc = "read", !.last = n]]
        BY <1>1, <4>2
      <4>4. PICK th : th = [worker[w] EXCEPT !.pc = "read", !.last = n]
        OBVIOUS
      <4>5. th.task = worker[w].task /\ th.pc # "init" /\ worker' = [worker EXCEPT ![w] = th]
        BY <4>1, <4>3, <4>4 DEF Thread
      <4>6. QED
        BY <4>5
    <3>3. QED
      BY <1>4, <3>1, <3>2 DEF SaveProgress, Fail
  <2>2. UNCHANGED <<taskList, pool, broadcasts, looper>>
    BY <1>4 DEF Connect, SaveProgress, Fail, mainOwned
  <2>3. QED
    BY <2>1, <2>2, ThreadNames
<1>5. ASSUME NEW queue \in Seq(Message \cup {BindSuc}), NEW n, worker[w].task \in TaskInfos,
             \A i \in DOMAIN queue : \/ i \in DOMAIN looper /\ queue[i] = looper[i]
                                     \/ queue[i] = [what |-> "MSG_DOWNLOADING", task |-> worker[w].task]
      PROVE  /\ Notify(queue, worker[w].task, n) \in Seq(Message \cup {BindSuc})
             /\ \A i \in DOMAIN Notify(queue, worker[w].task, n) :
                  \/ i \in DOMAIN looper /\ Notify(queue, worker[w].task, n)[i] = looper[i]
                  \/ Notify(queue, worker[w].task, n)[i]
                       = [what |-> "MSG_DOWNLOADING", task |-> worker[w].task]
  <2>1. PICK m : m = [what |-> "MSG_DOWNLOADING", task |-> worker[w].task]
    OBVIOUS
  <2>2. m \in Message
    BY <1>5, <2>1 DEF Message
  <2>3. /\ Append(queue, m) \in Seq(Message \cup {BindSuc})
        /\ \A i \in DOMAIN Append(queue, m) : \/ i \in DOMAIN queue /\ Append(queue, m)[i] = queue[i]
                                              \/ Append(queue, m)[i] = m
    BY <2>2, AppendElements
  <2>4. QED
    BY <1>5, <2>1, <2>3 DEF Notify
<1>6. ASSUME \A i \in DOMAIN looper' :
                \/ i \in DOMAIN looper /\ looper'[i] = looper[i]
                \/ looper'[i] = [what |-> "MSG_DOWNLOADING", task |-> worker[w].task]
      PROVE  \A i \in DOMAIN looper' :
                \/ i \in DOMAIN looper /\ looper'[i] = looper[i]
                \/ /\ looper'[i].task = worker[w].task
                   /\ looper'[i].what = "MSG_INIT" => worker[w].pc = "init"
  BY <1>6
<1>7. CASE Read(w)
  <2>1. worker[w] \in Thread /\ worker[w].task \in TaskInfos
    BY <1>7, AtTyped DEF Read, At
  <2>2. PICK n : n = worker[w].finished + 1
    OBVIOUS
  <2>3. PICK queue, pc :
          /\ queue = looper \/ queue = Notify(looper, worker[w].task, n)
          /\ looper' = queue \/ looper' = Notify(queue, worker[w].task, n)
          /\ worker' = [worker EXCEPT ![w].finished = n, ![w].pc = pc]
          /\ pc \in {"read", "save"}
    BY <1>7, <2>2 DEF Read, Seen
  <2>4. worker' = [worker EXCEPT ![w] = [worker[w] EXCEPT !.finished = n, !.pc = pc]]
    BY <1>1, <2>3
  <2>5. /\ queue \in Seq(Message \cup {BindSuc})
        /\ \A i \in DOMAIN queue : \/ i \in DOMAIN looper /\ queue[i] = looper[i]
                                   \/ queue[i] = [what |-> "MSG_DOWNLOADING", task |-> worker[w].task]
    BY <1>1, <1>5, <2>1, <2>3
  <2>6. \A i \in DOMAIN looper' : \/ i \in DOMAIN looper /\ looper'[i] = looper[i]
                                  \/ looper'[i] = [what |-> "MSG_DOWNLOADING", task |-> worker[w].task]
    BY <1>5, <2>1, <2>3, <2>5
  <2>7. PICK th : th = [worker[w] EXCEPT !.finished = n, !.pc = pc]
    OBVIOUS
  <2>8. th.task = worker[w].task /\ th.pc # "init" /\ worker' = [worker EXCEPT ![w] = th]
    BY <2>1, <2>3, <2>4, <2>7 DEF Thread
  <2>9. UNCHANGED <<taskList, pool, broadcasts>>
    BY <1>7 DEF Read, mainOwned
  <2>10. QED
    BY <1>6, <2>6, <2>8, <2>9, ThreadNames
<1>8. CASE EndOfStream(w)
  <2>1. worker[w].task \in TaskInfos
    BY <1>8, AtTyped DEF EndOfStream, At
  <2>2. \A i \in DOMAIN looper' : \/ i \in DOMAIN looper /\ looper'[i] = looper[i]
                                  \/ looper'[i] = [what |-> "MSG_DOWNLOADING", task |-> worker[w].task]
    BY <1>1, <1>5, <1>8, <2>1 DEF EndOfStream
  <2>3. UNCHANGED <<taskList, pool, broadcasts>> /\ Exit(w)
    BY <1>8 DEF EndOfStream, mainOwned
  <2>4. QED
    BY <1>6, <2>2, <2>3, ThreadNames DEF Exit
<1>9. QED
  BY <1>2, <1>3, <1>4, <1>7, <1>8 DEF WorkerStep

LEMMA ReceivedNames ==
    ASSUME Typed, looper # <<>>, looper' = Tail(looper)
    PROVE  /\ \A i \in DOMAIN looper' : i + 1 \in DOMAIN looper /\ looper'[i] = looper[i + 1]
           /\ 1 \in DOMAIN looper /\ looper[1] = Head(looper)
<1>1. looper \in Seq(Message \cup {BindSuc})
  BY DEF Typed, TypeOK
<1>2. QED
  BY <1>1, TailElements

LEMMA HandleNames == ASSUME Typed, HandleMessage PROVE NoNewNames
<1>1. taskList \in Seq(TaskInfos) /\ pool \in Seq(Thread) /\ broadcasts \in Seq(TaskInfos)
      /\ UNCHANGED <<urlOf, worker>>
  BY DEF Typed, TypeOK, HandleMessage, HandleInit, HandleDownloading, HandleFinished
<1>2. /\ \A i \in DOMAIN looper' : i + 1 \in DOMAIN looper /\ looper'[i] = looper[i + 1]
      /\ 1 \in DOMAIN looper /\ looper[1] = Head(looper)
  BY ReceivedNames DEF HandleMessage, HandleInit, HandleDownloading, HandleFinished, Received
<1>3. PICK t : t = Head(looper).task
  OBVIOUS
<1>4. CASE HandleInit
  <2>1. t \in TaskInfos /\ KnownUrl(t)
    BY <1>3, <1>4, ReceiveTyped DEF HandleInit
  <2>2. \A i \in DOMAIN taskList' : (i \in DOMAIN taskList /\ taskList'[i] = taskList[i]) \/ taskList'[i] = t
    BY <1>1, <1>3, <1>4, <2>1, AppendElements DEF HandleInit
  <2>3. PICK n \in Nat : pool' = Append(pool, DownloadThread(t, n))
    <3>1. saved'[urlOf[t]] \in Nat
      BY <1>3, <1>4, <2>1 DEF HandleInit, Downlaod, Typed, TypeOK, KnownUrl, NoRow
    <3>2. QED
      BY <1>3, <1>4, <3>1 DEF HandleInit, Downlaod
  <2>4. PICK th : th = DownloadThread(t, n)
    OBVIOUS
  <2>5. th \in Thread /\ th.task = t /\ th.pc # "init"
    BY <2>1, <2>4 DEF DownloadThread, Thread
  <2>6. \A i \in DOMAIN pool' : (i \in DOMAIN pool /\ pool'[i] = pool[i]) \/ pool'[i] = th
    BY <1>1, <2>3, <2>4, <2>5, AppendElements
  <2>7. Names(t) /\ UNCHANGED broadcasts
    BY <1>2, <1>3, <1>4 DEF Names, HandleInit
  <2>8. ASSUME NEW x \in TaskInfos, Names(x)' PROVE Names(x)
    BY <1>1, <1>2, <2>2, <2>5, <2>6, <2>7, <2>8 DEF Names
  <2>9. ASSUME NEW x \in TaskInfos, Starts(x)' PROVE Starts(x)
    BY <1>1, <1>2, <2>5, <2>6, <2>9 DEF Starts
  <2>10. QED
    BY <2>8, <2>9 DEF NoNewNames
<1>5. CASE HandleDownloading
  <2>1. t \in TaskInfos
    BY <1>3, <1>5, ReceiveTyped DEF HandleDownloading
  <2>2. \A i \in DOMAIN broadcasts' :
           (i \in DOMAIN broadcasts /\ broadcasts'[i] = broadcasts[i]) \/ broadcasts'[i] = t
    BY <1>1, <1>3, <1>5, <2>1, AppendElements DEF HandleDownloading
  <2>3. Names(t) /\ UNCHANGED <<taskList, pool>>
    BY <1>2, <1>3, <1>5 DEF Names, HandleDownloading
  <2>4. QED
    BY <1>1, <1>2, <2>2, <2>3 DEF Names, Starts, NoNewNames
<1>6. CASE HandleFinished
  <2>1. \A j \in DOMAIN taskList' : \E k \in DOMAIN taskList : taskList'[j] = taskList[k]
    <3>1. taskList' = taskList \/ \E i \in DOMAIN taskList : taskList' = RemoveAt(taskList, i)
      BY <1>6 DEF HandleFinished, IsFirst
    <3>2. QED
      BY <1>1, <3>1, RemoveAtElements
  <2>2. UNCHANGED <<pool, broadcasts>>
    BY <1>6 DEF HandleFinished
  <2>3. QED
    BY <1>1, <1>2, <2>1, <2>2 DEF Names, Starts, NoNewNames
<1>7. QED
  BY <1>4, <1>5, <1>6 DEF HandleMessage

LEMMA OnReceiveNames == ASSUME Typed, OnReceive PROVE NoNewNames
<1>1. looper \in Seq(Message \cup {BindSuc}) /\ broadcasts \in Seq(TaskInfos) /\ broadcasts # <<>>
      /\ broadcasts' = Tail(broadcasts) /\ UNCHANGED <<taskList, pool, worker>>
  BY DEF Typed, TypeOK, OnReceive
<1>2. /\ Head(broadcasts) \in TaskInfos /\ 1 \in DOMAIN broadcasts /\ Head(broadcasts) = broadcasts[1]
      /\ \A i \in DOMAIN broadcasts' : i + 1 \in DOMAIN broadcasts /\ broadcasts'[i] = broadcasts[i + 1]
  BY <1>1, TailElements
<1>3. PICK m : m = [what |-> "MSG_DOWNLOAD_FINISHED", task |-> Head(broadcasts)]
  OBVIOUS
<1>4. m \in Message /\ m.task = broadcasts[1] /\ m.what # "MSG_INIT"
  BY <1>2, <1>3 DEF Message
<1>5. \A i \in DOMAIN looper' : (i \in DOMAIN looper /\ looper'[i] = looper[i]) \/ looper'[i] = m
  BY <1>1, <1>3, <1>4, AppendElements DEF OnReceive
<1>6. QED
  BY <1>1, <1>2, <1>4, <1>5 DEF Names, Starts, NoNewNames

(* download() of a task adds that task, and no other. *)
LEMMA DownloadNames ==
    ASSUME Typed, NEW t \in TaskInfos, NEW u \in Urls, Download(t, u)
    PROVE  /\ \A x \in TaskInfos : Names(x)' => Names(x) \/ x = t
           /\ \A x \in TaskInfos : Starts(x)' => Starts(x) \/ x = t
<1>1. taskList \in Seq(TaskInfos) /\ pool \in Seq(Thread)
      /\ UNCHANGED <<taskList, worker, looper, broadcasts>>
  BY DEF Typed, TypeOK, Download
<1>2. PICK th : /\ pool' = pool \/ (th \in Thread /\ pool' = Append(pool, th))
                /\ \/ th.task = t
                   \/ th.pc # "init" /\ \E i \in DOMAIN taskList : th.task = taskList[i]
  <2>1. ASSUME NEW i \in DOMAIN taskList, IsFirst(i, u), Restart(taskList[i], u)
        PROVE  \E th : /\ th \in Thread /\ pool' = Append(pool, th)
                       /\ th.pc # "init" /\ th.task = taskList[i]
    <3>1. taskList[i] \in TaskInfos /\ saved'[u] \in Nat
      BY <1>1, <2>1 DEF Restart, Downlaod, Typed, TypeOK, NoRow
    <3>2. PICK th : th = DownloadThread(taskList[i], saved'[u])
      OBVIOUS
    <3>3. th \in Thread /\ th.pc # "init" /\ th.task = taskList[i]
      BY <3>1, <3>2 DEF DownloadThread, Thread
    <3>4. pool' = Append(pool, th)
      BY <2>1, <3>2 DEF Restart, Downlaod
    <3>5. QED
      BY <3>3, <3>4
  <2>2. /\ InitThread(t) \in Thread /\ InitThread(t).task = t
    BY DEF InitThread, Thread
  <2>3. CASE pool' = pool
    BY <2>2, <2>3
  <2>4. CASE pool' = Append(pool, InitThread(t))
    BY <2>2, <2>4
  <2>5. CASE \E i \in DOMAIN taskList : IsFirst(i, u) /\ Restart(taskList[i], u)
    BY <2>1, <2>5
  <2>6. QED
    BY <2>3, <2>4, <2>5 DEF Download
<1>3. \A i \in DOMAIN pool' : (i \in DOMAIN pool /\ pool'[i] = pool[i]) \/ pool'[i] = th
  BY <1>1, <1>2, AppendElements
<1>4. ASSUME NEW x \in TaskInfos, Names(x)' PROVE Names(x) \/ x = t
  BY <1>1, <1>2, <1>3, <1>4 DEF Names
<1>5. ASSUME NEW x \in TaskInfos, Starts(x)' PROVE Starts(x) \/ x = t
  BY <1>1, <1>2, <1>3, <1>5 DEF Starts
<1>6. QED
  BY <1>4, <1>5

-----------------------------------------------------------------------------
(* What waits is unknown to the service: no queue, thread or list of it names *)
(* a waiting task; two waiting tasks have two urls; and, unless callers ask   *)
(* twice, nothing is being initialised whose url waits.                       *)
Unknown == \A i \in DOMAIN waiting : ~Names(waiting[i])

OneRequestEach ==
    \A i, j \in DOMAIN waiting : urlOf[waiting[i]] = urlOf[waiting[j]] => i = j

NotStarted ==
    \A i \in DOMAIN waiting, t \in TaskInfos : Starts(t) => urlOf[t] # urlOf[waiting[i]]

WaitInv ==
    /\ ManagerTyped
    /\ Unknown
    /\ OneRequestEach
    /\ "duplicate" \notin Hazards => NotStarted

LEMMA NamedKnown ==
    ASSUME Typed
    PROVE  \A t \in TaskInfos : (Starts(t) => Names(t)) /\ (Names(t) => KnownUrl(t))
<1>1. \A t \in TaskInfos : Starts(t) => Names(t)
  BY DEF Starts, Names
<1>2. \A t \in TaskInfos : Names(t) => KnownUrl(t)
  BY TypedElements, IdleNamesNone DEF Names
<1>3. QED
  BY <1>1, <1>2

(* The steps that neither change the list nor a url keep it: they name nobody. *)
LEMMA WaitInvKept ==
    ASSUME WaitInv, ManagerTyped', NoNewNames, UNCHANGED <<urlOf, waiting>>
    PROVE  WaitInv'
<1>1. \A i \in DOMAIN waiting : waiting[i] \in TaskInfos
  BY WaitingElements DEF WaitInv
<1>2. Unknown'
  BY <1>1 DEF WaitInv, Unknown, NoNewNames
<1>3. OneRequestEach'
  BY DEF WaitInv, OneRequestEach
<1>4. "duplicate" \notin Hazards => NotStarted'
  BY DEF WaitInv, NotStarted, NoNewNames
<1>5. QED
  BY <1>2, <1>3, <1>4 DEF WaitInv

(* startDownload of a request that waits, or is handed on at once.            *)
LEMMA StartDownloadWaits ==
    ASSUME WaitInv, ManagerTyped', NEW t \in TaskInfos, NEW u \in Urls, StartDownload(t, u)
    PROVE  WaitInv'
<1>1. /\ ManagerTyped /\ Typed /\ waiting \in Seq(TaskInfos) /\ urlOf[t] = NoUrl
      /\ urlOf \in [TaskInfos -> Urls \cup {NoUrl}]
  BY DEF WaitInv, ManagerTyped, Typed, TypeOK, StartDownload
<1>2. ~KnownUrl(t) /\ ~Names(t) /\ ~Starts(t)
  BY <1>1, NamedKnown, NoUrlAssumption DEF KnownUrl
<1>3. \A i \in DOMAIN waiting : waiting[i] \in TaskInfos /\ KnownUrl(waiting[i]) /\ waiting[i] # t
  BY <1>1, <1>2, WaitingElements
<1>4. "duplicate" \notin Hazards =>
        /\ \A x \in TaskInfos : Starts(x) => urlOf[x] # u
        /\ \A i \in DOMAIN waiting : urlOf[waiting[i]] # u
  BY <1>1, StartsInitialise DEF StartDownload
<1>5. CASE UNCHANGED <<urlOf, waiting>> /\ StartDownloadUnbound(t, u)
  <2>1. NoNewNames
    BY <1>5 DEF StartDownloadUnbound, NoNewNames, Names, Starts
  <2>2. QED
    BY <1>5, <2>1, WaitInvKept
<1>6. CASE /\ waiting' = Append(waiting, t) /\ urlOf' = [urlOf EXCEPT ![t] = u]
           /\ \A i \in DOMAIN waiting : urlOf[waiting[i]] # u
           /\ UNCHANGED <<taskList, pool, worker, looper, broadcasts>>
  <2>1. PICK n : n = Len(waiting)
    OBVIOUS
  <2>2. /\ n \in Nat /\ DOMAIN waiting = 1..n /\ DOMAIN waiting' = 1..(n + 1)
        /\ waiting'[n + 1] = t /\ \A i \in 1..n : waiting'[i] = waiting[i]
    BY <1>1, <1>6, <2>1
  <2>3. urlOf'[t] = u /\ \A x \in TaskInfos : x # t => urlOf'[x] = urlOf[x]
    BY <1>1, <1>6
  <2>4. \A i \in DOMAIN waiting' : \/ waiting'[i] = t /\ i = n + 1
                                   \/ i \in DOMAIN waiting /\ waiting'[i] = waiting[i]
    BY <2>2
  <2>5. \A x \in TaskInfos : (Names(x)' <=> Names(x)) /\ (Starts(x)' <=> Starts(x))
    BY <1>6 DEF Names, Starts
  <2>6. Unknown'
    BY <1>2, <1>3, <2>4, <2>5 DEF WaitInv, Unknown
  <2>7. OneRequestEach'
    <3>1. \A i \in DOMAIN waiting : urlOf'[waiting[i]] = urlOf[waiting[i]] /\ urlOf[waiting[i]] # u
      BY <1>3, <1>6, <2>3
    <3>2. QED
      BY <2>3, <2>4, <3>1 DEF WaitInv, OneRequestEach
  <2>8. "duplicate" \notin Hazards => NotStarted'
    <3> SUFFICES ASSUME "duplicate" \notin Hazards, NEW i \in DOMAIN waiting', NEW x \in TaskInfos,
                        Starts(x)
                 PROVE  urlOf'[x] # urlOf'[waiting'[i]]
      BY <2>5 DEF NotStarted
    <3>1. x # t /\ urlOf'[x] = urlOf[x] /\ urlOf[x] # u
      BY <1>2, <1>4, <2>3
    <3>2. QED
      BY <1>3, <2>3, <2>4, <3>1 DEF WaitInv, NotStarted
  <2>9. QED
    BY <2>6, <2>7, <2>8 DEF WaitInv
<1>7. CASE StartDownloadBound(t, u)
  <2>1. /\ urlOf' = [urlOf EXCEPT ![t] = u] /\ Download(t, u) /\ UNCHANGED waiting
    BY <1>7 DEF StartDownloadBound, managerOwned
  <2>2. urlOf'[t] = u /\ \A x \in TaskInfos : x # t => urlOf'[x] = urlOf[x]
    BY <1>1, <2>1
  <2>3. \A x \in TaskInfos : (Names(x)' => Names(x) \/ x = t) /\ (Starts(x)' => Starts(x) \/ x = t)
    BY <1>1, <2>1, DownloadNames
  <2>4. Unknown'
    BY <1>3, <2>1, <2>3 DEF WaitInv, Unknown
  <2>5. OneRequestEach'
    BY <1>3, <2>1, <2>2 DEF WaitInv, OneRequestEach
  <2>6. "duplicate" \notin Hazards => NotStarted'
    BY <1>3, <1>4, <2>1, <2>2, <2>3 DEF WaitInv, NotStarted
  <2>7. QED
    BY <2>4, <2>5, <2>6 DEF WaitInv
<1>8. QED
  <2>1. CASE StartDownloadBound(t, u)
    BY <1>7, <2>1
  <2>2. CASE StartDownloadUnbound(t, u)
    <3>1. \/ UNCHANGED <<urlOf, waiting>>
          \/ /\ waiting' = Append(waiting, t) /\ urlOf' = [urlOf EXCEPT ![t] = u]
             /\ \A i \in DOMAIN waiting : urlOf[waiting[i]] # u
      BY <2>2 DEF StartDownloadUnbound
    <3>2. UNCHANGED <<taskList, pool, worker, looper, broadcasts>>
      BY <2>2 DEF StartDownloadUnbound
    <3>3. QED
      BY <1>5, <1>6, <2>2, <3>1, <3>2
  <2>3. QED
    BY <2>1, <2>2 DEF StartDownload

(* The task handed on is the last of the list, and no other place holds it. *)
LEMMA LastWaiting ==
    ASSUME WaitInv, waiting # <<>>, NEW t, t = Last(waiting)
    PROVE  /\ t \in TaskInfos /\ KnownUrl(t) /\ ~Names(t)
           /\ \A i \in DOMAIN Front(waiting) :
                 /\ i \in DOMAIN waiting /\ Front(waiting)[i] = waiting[i]
                 /\ waiting[i] # t /\ urlOf[waiting[i]] # urlOf[t]
           /\ \A i \in DOMAIN waiting : i \in DOMAIN Front(waiting) \/ waiting[i] = t
<1>1. ManagerTyped /\ waiting \in Seq(TaskInfos)
  BY DEF WaitInv, ManagerTyped
<1>2. PICK n : n = Len(waiting)
  OBVIOUS
<1>3. /\ n \in DOMAIN waiting /\ t = waiting[n]
      /\ Front(waiting) \in Seq(TaskInfos)
      /\ \A i \in DOMAIN Front(waiting) : i \in DOMAIN waiting /\ Front(waiting)[i] = waiting[i]
  BY <1>1, <1>2, FrontElements
<1>4. /\ \A i \in DOMAIN Front(waiting) : i # n
      /\ \A i \in DOMAIN waiting : i \in DOMAIN Front(waiting) \/ i = n
  <2>1. Front(waiting) = SubSeq(waiting, 1, n - 1)
    BY <1>2 DEF Front
  <2>2. n \in Nat /\ n - 1 \in Int /\ 1 \in Int /\ DOMAIN waiting = 1..n /\ n - 1 + 1 = n /\ n >= 1
    BY <1>1, <1>2, <1>3
  <2>3. Len(Front(waiting)) = n - 1
    <3>1. \A i \in 1..(n - 1) : waiting[i] \in TaskInfos
      BY <1>1, <2>2
    <3>2. Len(SubSeq(waiting, 1, n - 1)) = IF 1 <= n - 1 THEN (n - 1) - 1 + 1 ELSE 0
      BY <2>2, <3>1, SubSeqProperties
    <3>3. QED
      BY <2>1, <2>2, <3>2
  <2>4. DOMAIN Front(waiting) = 1..(n - 1)
    BY <1>3, <2>3
  <2>5. QED
    BY <2>2, <2>4
<1>5. t \in TaskInfos /\ KnownUrl(t) /\ ~Names(t)
  BY <1>1, <1>3, WaitingElements DEF WaitInv, Unknown
<1>6. \A i \in DOMAIN Front(waiting) : urlOf[waiting[i]] # urlOf[t]
  BY <1>3, <1>4 DEF WaitInv, OneRequestEach
<1>7. QED
  BY <1>3, <1>4, <1>5, <1>6

LEMMA HandOverWaits == ASSUME WaitInv, ManagerTyped', HandOver PROVE WaitInv'
<1>1. PICK t : t = Last(waiting)
  OBVIOUS
<1>2. /\ waiting # <<>> /\ waiting' = Front(waiting) /\ Download(t, urlOf[t]) /\ UNCHANGED urlOf
      /\ Typed /\ ManagerTyped
  BY <1>1 DEF HandOver, WaitInv, ManagerTyped
<1>3. /\ t \in TaskInfos /\ KnownUrl(t)
      /\ \A i \in DOMAIN waiting' :
            /\ i \in DOMAIN waiting /\ waiting'[i] = waiting[i] /\ waiting[i] \in TaskInfos
            /\ waiting[i] # t /\ urlOf[waiting[i]] # urlOf[t]
  BY <1>1, <1>2, LastWaiting, WaitingElements
<1>4. \A x \in TaskInfos : (Names(x)' => Names(x) \/ x = t) /\ (Starts(x)' => Starts(x) \/ x = t)
  BY <1>2, <1>3, DownloadNames DEF KnownUrl
<1>5. Unknown'
  BY <1>3, <1>4 DEF WaitInv, Unknown
<1>6. OneRequestEach'
  BY <1>2, <1>3 DEF WaitInv, OneRequestEach
<1>7. "duplicate" \notin Hazards => NotStarted'
  BY <1>2, <1>3, <1>4 DEF WaitInv, NotStarted
<1>8. QED
  BY <1>5, <1>6, <1>7 DEF WaitInv

LEMMA EmptyWaits == waiting = <<>> => Unknown /\ OneRequestEach /\ NotStarted
  BY DEF Unknown, OneRequestEach, NotStarted

LEMMA WaitInvInit == ManagerInit => WaitInv
  BY ManagerTypedInit, EmptyWaits DEF ManagerInit, WaitInv

LEMMA WaitInvNext == WaitInv /\ [ManagerNext]_allVars => WaitInv'
<1> SUFFICES ASSUME WaitInv, [ManagerNext]_allVars PROVE WaitInv'
  OBVIOUS
<1>1. ManagerTyped /\ Typed /\ ManagerTyped'
  BY ManagerTypedNext DEF WaitInv, ManagerTyped
<1>2. ASSUME NoNewNames, UNCHANGED urlOf, UNCHANGED waiting PROVE WaitInv'
  BY <1>1, <1>2, WaitInvKept
<1>3. ASSUME UNCHANGED <<urlOf, waiting, taskList, pool, worker, looper, broadcasts>> PROVE WaitInv'
  BY <1>2, <1>3 DEF NoNewNames, Names, Starts
<1>4. CASE OnServiceConnected
  <2>1. looper \in Seq(Message \cup {BindSuc}) /\ looper' = Append(looper, BindSuc)
        /\ UNCHANGED <<urlOf, waiting, taskList, pool, worker, broadcasts>>
    BY <1>1, <1>4 DEF OnServiceConnected, Typed, TypeOK
  <2>2. \A i \in DOMAIN looper' : (i \in DOMAIN looper /\ looper'[i] = looper[i]) \/ looper'[i] = BindSuc
    BY <2>1, AppendElements
  <2>3. NoNewNames
    BY <2>1, <2>2, IdleNamesNone DEF NoNewNames, Names, Starts
  <2>4. QED
    BY <1>2, <2>1, <2>3
<1>5. CASE HandleBindSuc
  <2>1. UNCHANGED <<urlOf, waiting, taskList, pool, worker, broadcasts>>
        /\ looper # <<>> /\ looper' = Tail(looper)
    BY <1>5 DEF HandleBindSuc, Received
  <2>2. NoNewNames
    BY <1>1, <2>1, ReceivedNames DEF NoNewNames, Names, Starts
  <2>3. QED
    BY <1>2, <2>1, <2>2
<1>6. CASE HandOver
  BY <1>1, <1>6, HandOverWaits
<1>7. CASE Release
  BY <1>3, <1>7 DEF Release, vars
<1>8. CASE ServiceMainStep
  <2>1. UNCHANGED urlOf /\ UNCHANGED waiting
    BY <1>8 DEF ServiceMainStep, HandleMessage, HandleInit, HandleDownloading, HandleFinished,
            OnReceive, managerOwned
  <2>2. NoNewNames
    BY <1>1, <1>8, HandleNames, OnReceiveNames DEF ServiceMainStep
  <2>3. QED
    BY <1>2, <2>1, <2>2
<1>9. ASSUME NEW w \in Workers, WorkerStep(w) \/ Fail(w), UNCHANGED managerOwned PROVE WaitInv'
  <2>1. UNCHANGED mainOwned
    BY <1>9 DEF WorkerStep, Take, InitDone, Connect, Read, SaveProgress, EndOfStream, Fail
  <2>2. UNCHANGED urlOf /\ UNCHANGED waiting
    BY <1>9, <2>1 DEF mainOwned, managerOwned
  <2>3. NoNewNames
    BY <1>1, <1>9, WorkerNames
  <2>4. QED
    BY <1>2, <2>2, <2>3
<1>10. ASSUME NEW t \in TaskInfos, NEW u \in Urls, StartDownload(t, u) PROVE WaitInv'
  BY <1>1, <1>10, StartDownloadWaits
<1>11. CASE (\E u \in Urls : PauseDownload(u)) \/ (OnLowMemory /\ UNCHANGED managerOwned)
  BY <1>3, <1>11 DEF PauseDownload, Pause, OnLowMemory, managerOwned
<1>12. CASE ManagerKill
  <2>1. waiting' = <<>>
    BY <1>12 DEF ManagerKill
  <2>2. Unknown' /\ OneRequestEach' /\ NotStarted'
    BY <2>1 DEF Unknown, OneRequestEach, NotStarted
  <2>3. QED
    BY <1>1, <2>2 DEF WaitInv
<1>13. CASE UNCHANGED allVars
  BY <1>3, <1>13 DEF allVars, vars, managerOwned
<1>14. CASE ManagerStep
  BY <1>4, <1>5, <1>6, <1>7, <1>14 DEF ManagerStep
<1>15. CASE ManagerEnvironment
  BY <1>9, <1>10, <1>11, <1>12, <1>15 DEF ManagerEnvironment
<1>16. QED
  BY <1>8, <1>9, <1>13, <1>14, <1>15 DEF ManagerNext

-----------------------------------------------------------------------------
(* The mapping: the service's view of urls and messages. *)
LEMMA ServiceUrls ==
    ASSUME WaitInv
    PROVE  /\ serviceUrls \in [TaskInfos -> Urls \cup {NoUrl}]
           /\ \A t \in TaskInfos : Names(t) => serviceUrls[t] = urlOf[t]
           /\ \A t \in TaskInfos : urlOf[t] = NoUrl => serviceUrls[t] = NoUrl
<1>1. urlOf \in [TaskInfos -> Urls \cup {NoUrl}] /\ waiting \in Seq(TaskInfos)
  BY DEF WaitInv, ManagerTyped, Typed, TypeOK
<1>2. \A t \in TaskInfos : Names(t) => ~Contains(waiting, t)
  BY <1>1 DEF WaitInv, Unknown, Contains
<1>3. QED
  BY <1>1, <1>2 DEF serviceUrls

LEMMA NamedUrls ==
    ASSUME WaitInv
    PROVE  /\ \A i \in DOMAIN taskList : serviceUrls[taskList[i]] = urlOf[taskList[i]]
           /\ \A i \in DOMAIN pool : serviceUrls[pool[i].task] = urlOf[pool[i].task]
           /\ \A w \in Workers : worker[w].pc # "idle" =>
                 serviceUrls[worker[w].task] = urlOf[worker[w].task]
           /\ \A i \in DOMAIN looper : looper[i] # BindSuc =>
                 serviceUrls[looper[i].task] = urlOf[looper[i].task]
<1>1. Typed
  BY DEF WaitInv, ManagerTyped
<1>2. \A w \in Workers : worker[w].pc # "idle" => worker[w] # Idle
  BY DEF Idle
<1>3. QED
  BY <1>1, <1>2, TypedElements, ServiceUrls DEF Names

LEMMA UrlsUnchanged == UNCHANGED <<urlOf, waiting>> => UNCHANGED serviceUrls
  BY DEF serviceUrls, Contains

LEMMA MessageKept == \A m \in Message : m # BindSuc
  BY DEF Message, BindSuc

LEMMA SendMapped ==
    ASSUME Typed, NEW m \in Message, looper' = Append(looper, m)
    PROVE  serviceMessages' = Append(serviceMessages, m)
<1>1. looper \in Seq(Message \cup {BindSuc}) /\ m \in Message \cup {BindSuc} /\ m # BindSuc
  BY MessageKept DEF Typed, TypeOK
<1>2. Without(Append(looper, m), BindSuc) = Append(Without(looper, BindSuc), m)
  BY <1>1, WithoutAppend
<1>3. serviceMessages' = Without(looper', BindSuc)
  BY DEF serviceMessages, Without, BindSuc
<1>4. QED
  BY <1>2, <1>3 DEF serviceMessages

LEMMA ReceiveMapped ==
    ASSUME Typed, looper # <<>>, Head(looper) # BindSuc, looper' = Tail(looper)
    PROVE  /\ serviceMessages # <<>> /\ Head(serviceMessages) = Head(looper)
           /\ serviceMessages' = Tail(serviceMessages)
<1>1. looper \in Seq(Message \cup {BindSuc})
  BY DEF Typed, TypeOK
<1>2. /\ Without(looper, BindSuc) # <<>> /\ Head(Without(looper, BindSuc)) = Head(looper)
      /\ Tail(Without(looper, BindSuc)) = Without(Tail(looper), BindSuc)
  BY <1>1, WithoutTail
<1>3. serviceMessages' = Without(looper', BindSuc)
  BY DEF serviceMessages, Without, BindSuc
<1>4. QED
  BY <1>2, <1>3 DEF serviceMessages

LEMMA BindSucUnseen ==
    ASSUME Typed,
           \/ looper' = Append(looper, BindSuc)
           \/ looper # <<>> /\ Head(looper) = BindSuc /\ looper' = Tail(looper)
           \/ UNCHANGED looper
    PROVE  UNCHANGED serviceMessages
<1>1. looper \in Seq(Message \cup {BindSuc}) /\ BindSuc \in Message \cup {BindSuc}
  BY DEF Typed, TypeOK
<1>2. Without(looper', BindSuc) = Without(looper, BindSuc)
  <2>1. Without(Append(looper, BindSuc), BindSuc) = Without(looper, BindSuc)
    BY <1>1, WithoutAppend
  <2>2. looper # <<>> /\ Head(looper) = BindSuc
          => Without(Tail(looper), BindSuc) = Without(looper, BindSuc)
    BY <1>1, WithoutTail
  <2>3. QED
    BY <2>1, <2>2
<1>3. serviceMessages' = Without(looper', BindSuc)
  BY DEF serviceMessages, Without, BindSuc
<1>4. QED
  BY <1>2, <1>3 DEF serviceMessages

-----------------------------------------------------------------------------
(* The main thread's handlers of the service. *)
LEMMA ReceivedMapped ==
    ASSUME Typed, NEW what, what # "MSG_BIND_SUC", Received(what), looper' = Tail(looper)
    PROVE  /\ Service!Received(what) /\ Head(serviceMessages) = Head(looper)
           /\ serviceMessages' = Tail(serviceMessages)
<1>1. Head(looper) # BindSuc /\ looper # <<>>
  BY DEF Received, BindSuc
<1>2. QED
  BY <1>1, ReceiveMapped DEF Received, Service!Received

LEMMA ReceivedUrl ==
    ASSUME WaitInv, NEW what, what # "MSG_BIND_SUC", Received(what), looper' = Tail(looper),
           UNCHANGED urlOf
    PROVE  /\ Head(looper).task \in TaskInfos /\ KnownUrl(Head(looper).task)
           /\ serviceUrls[Head(looper).task] = urlOf[Head(looper).task]
<1>1. Typed
  BY DEF WaitInv, ManagerTyped
<1>2. Head(looper).task \in TaskInfos /\ KnownUrl(Head(looper).task)
      /\ 1 \in DOMAIN looper /\ looper[1] = Head(looper)
  BY <1>1, ReceiveTyped
<1>3. QED
  BY <1>2, ServiceUrls DEF Names

LEMMA HandleInitMapped ==
    ASSUME WaitInv, HandleInit, UNCHANGED managerOwned PROVE Service!HandleInit
<1>1. Typed /\ UNCHANGED <<urlOf, isPause, worker, broadcasts, have, finishedCalls, kills>>
      /\ UNCHANGED serviceUrls
  BY UrlsUnchanged DEF WaitInv, ManagerTyped, HandleInit, managerOwned
<1>2. PICK t : t = Head(looper).task
  OBVIOUS
<1>3. /\ Service!Received("MSG_INIT") /\ Head(serviceMessages).task = t
      /\ serviceMessages' = Tail(serviceMessages)
      /\ serviceUrls[t] = urlOf[t]
  BY <1>1, <1>2, ReceivedMapped, ReceivedUrl DEF HandleInit
<1>4. taskList' = Append(taskList, t) /\ Downlaod(t, urlOf[t])
  BY <1>2 DEF HandleInit
<1>5. Service!Downlaod(t, serviceUrls[t])
  BY <1>3, <1>4 DEF Downlaod, Service!Downlaod, DownloadThread, Service!DownloadThread,
                    NoRow, Service!NoRow
<1>6. QED
  BY <1>1, <1>3, <1>4, <1>5 DEF Service!HandleInit

LEMMA HandleDownloadingMapped ==
    ASSUME WaitInv, HandleDownloading, UNCHANGED managerOwned PROVE Service!HandleDownloading
<1>1. Typed /\ UNCHANGED <<urlOf, taskList, isPause, pool, worker, have, kills>>
      /\ UNCHANGED serviceUrls
  BY UrlsUnchanged DEF WaitInv, ManagerTyped, HandleDownloading, managerOwned
<1>2. PICK t : t = Head(looper).task
  OBVIOUS
<1>3. /\ Service!Received("MSG_DOWNLOADING") /\ Head(serviceMessages).task = t
      /\ serviceMessages' = Tail(serviceMessages)
      /\ serviceUrls[t] = urlOf[t]
  BY <1>1, <1>2, ReceivedMapped, ReceivedUrl DEF HandleDownloading
<1>4. /\ finishedCalls' = [finishedCalls EXCEPT ![t] = @ + 1]
      /\ broadcasts' = Append(broadcasts, t)
      /\ saved' = [saved EXCEPT ![serviceUrls[t]] = Service!NoRow]
  BY <1>2, <1>3 DEF HandleDownloading, NoRow, Service!NoRow
<1>5. QED
  BY <1>1, <1>3, <1>4 DEF Service!HandleDownloading

LEMMA ListMapped ==
    ASSUME WaitInv, NEW u
    PROVE  /\ \A i : IsFirst(i, u) <=> Service!IsFirst(i, u)
           /\ NotListed(u) <=> Service!NotListed(u)
<1>1. \A i \in DOMAIN taskList : serviceUrls[taskList[i]] = urlOf[taskList[i]]
  BY NamedUrls
<1>2. taskList \in Seq(TaskInfos)
  BY DEF WaitInv, ManagerTyped, Typed, TypeOK
<1>3. \A i \in DOMAIN taskList : \A j \in 1..(i - 1) : j \in DOMAIN taskList
  BY <1>2
<1>4. QED
  BY <1>1, <1>3 DEF IsFirst, Service!IsFirst, NotListed, Service!NotListed

LEMMA HandleFinishedMapped ==
    ASSUME WaitInv, HandleFinished, UNCHANGED managerOwned PROVE Service!HandleFinished
<1>1. Typed /\ UNCHANGED <<urlOf, isPause, pool, worker, broadcasts, saved, have, finishedCalls, kills>>
      /\ UNCHANGED serviceUrls
  BY UrlsUnchanged DEF WaitInv, ManagerTyped, HandleFinished, managerOwned
<1>2. PICK t : t = Head(looper).task
  OBVIOUS
<1>3. PICK u : u = urlOf[t]
  OBVIOUS
<1>4. /\ Service!Received("MSG_DOWNLOAD_FINISHED") /\ Head(serviceMessages).task = t
      /\ serviceMessages' = Tail(serviceMessages)
      /\ serviceUrls[t] = u
  BY <1>1, <1>2, <1>3, ReceivedMapped, ReceivedUrl DEF HandleFinished
<1>5. \/ \E i \in DOMAIN taskList : IsFirst(i, u) /\ taskList' = RemoveAt(taskList, i)
      \/ NotListed(u) /\ UNCHANGED taskList
  BY <1>2, <1>3 DEF HandleFinished
<1>6. \/ \E i \in DOMAIN taskList :
            Service!IsFirst(i, u) /\ taskList' = Service!RemoveAt(taskList, i)
      \/ Service!NotListed(u) /\ UNCHANGED taskList
  BY <1>5, ListMapped DEF RemoveAt, Service!RemoveAt
<1>7. QED
  BY <1>1, <1>4, <1>6 DEF Service!HandleFinished

LEMMA OnReceiveMapped ==
    ASSUME WaitInv, OnReceive, UNCHANGED managerOwned PROVE Service!OnReceive
<1>1. Typed /\ broadcasts \in Seq(TaskInfos) /\ broadcasts # <<>> /\ broadcasts' = Tail(broadcasts)
      /\ UNCHANGED <<urlOf, taskList, isPause, pool, worker, saved, have, finishedCalls, kills>>
      /\ UNCHANGED serviceUrls
  BY UrlsUnchanged DEF WaitInv, ManagerTyped, Typed, TypeOK, OnReceive, managerOwned
<1>2. PICK m : m = [what |-> "MSG_DOWNLOAD_FINISHED", task |-> Head(broadcasts)]
  OBVIOUS
<1>3. m \in Message
  BY <1>1, <1>2, TailElements DEF Message
<1>4. serviceMessages' = Append(serviceMessages, m)
  BY <1>1, <1>2, <1>3, SendMapped DEF OnReceive
<1>5. QED
  BY <1>1, <1>2, <1>4 DEF Service!OnReceive

-----------------------------------------------------------------------------
(* The threads of the pool. *)
LEMMA ThreadMapped ==
    ASSUME WaitInv, NEW w \in Workers, UNCHANGED managerOwned, WorkerStep(w) \/ Fail(w)
    PROVE  UNCHANGED serviceUrls /\ Typed
           /\ (worker[w].pc # "idle" => serviceUrls[worker[w].task] = urlOf[worker[w].task])
           /\ (UNCHANGED looper => UNCHANGED serviceMessages)
<1>1. UNCHANGED mainOwned
  BY DEF WorkerStep, Take, InitDone, Connect, Read, SaveProgress, EndOfStream, Fail
<1>2. UNCHANGED serviceUrls /\ Typed
  BY <1>1, UrlsUnchanged DEF WaitInv, ManagerTyped, mainOwned, managerOwned
<1>3. QED
  BY <1>2, NamedUrls, BindSucUnseen

(* A progress says 100 to the manager when it does to the service. *)
LEMMA SaysTheSame == \A n : Service!Says100(n) <=> Says100(n)
<1>1. Service!Exact = Exact
  BY SMT DEF Service!Exact, Exact
<1>2. \A x, y : Service!Nearest(x, y) = Nearest(x, y)
  BY DEF Service!Nearest, Nearest
<1>3. \A x, e : Service!Float(x, e) = Float(x, e)
  BY <1>2 DEF Service!Float, Float
<1>4. QED
  BY <1>1, <1>3 DEF Service!Says100, Says100

LEMMA NotifyMapped ==
    ASSUME NEW q \in Seq(Message \cup {BindSuc}), NEW t \in TaskInfos, NEW n
    PROVE  /\ Notify(q, t, n) \in Seq(Message \cup {BindSuc})
           /\ Without(Notify(q, t, n), BindSuc) = Service!Notify(Without(q, BindSuc), t, n)
<1>1. PICK m : m = [what |-> "MSG_DOWNLOADING", task |-> t]
  OBVIOUS
<1>2. m \in Message \cup {BindSuc} /\ m # BindSuc
  BY <1>1, MessageKept DEF Message
<1>3. Append(q, m) \in Seq(Message \cup {BindSuc})
      /\ Without(Append(q, m), BindSuc) = Append(Without(q, BindSuc), m)
  BY <1>2, WithoutAppend
<1>4. QED
  BY <1>1, <1>3, SaysTheSame DEF Notify, Service!Notify

LEMMA ReadMapped ==
    ASSUME WaitInv, NEW w \in Workers, UNCHANGED managerOwned, Read(w)
    PROVE  Service!Read(w)
<1>1. UNCHANGED serviceUrls /\ UNCHANGED <<taskList, isPause, broadcasts, finishedCalls, kills>>
      /\ serviceUrls[worker[w].task] = urlOf[worker[w].task] /\ Typed
      /\ looper \in Seq(Message \cup {BindSuc})
  BY ThreadMapped DEF WorkerStep, Read, At, mainOwned, Typed, TypeOK
<1>2. worker[w].task \in TaskInfos
  BY <1>1, AtTyped DEF Read, At
<1>3. PICK t : t = worker[w].task
  OBVIOUS
<1>4. PICK n : n = worker[w].finished + 1
  OBVIOUS
<1>5. PICK periodic \in BOOLEAN, paused \in Seen(t) :
         /\ looper' = IF paused THEN Notify(IF periodic THEN Notify(looper, t, n) ELSE looper, t, n)
                                ELSE IF periodic THEN Notify(looper, t, n) ELSE looper
         /\ worker' = [worker EXCEPT ![w].finished = n,
                                     ![w].pc = IF paused THEN "save" ELSE "read"]
  BY <1>3, <1>4 DEF Read
<1>6. PICK q : q = IF periodic THEN Notify(looper, t, n) ELSE looper
  OBVIOUS
<1>7. /\ q \in Seq(Message \cup {BindSuc})
      /\ Without(q, BindSuc) = IF periodic THEN Service!Notify(serviceMessages, t, n)
                                           ELSE serviceMessages
  BY <1>1, <1>2, <1>3, <1>6, NotifyMapped DEF serviceMessages
<1>8. Without(looper', BindSuc) = IF paused THEN Service!Notify(Without(q, BindSuc), t, n)
                                            ELSE Without(q, BindSuc)
  BY <1>2, <1>3, <1>5, <1>6, <1>7, NotifyMapped
<1>9. serviceMessages' = Without(looper', BindSuc)
  BY DEF serviceMessages, Without, BindSuc
<1>10. \E per \in BOOLEAN, pau \in Service!Seen(t) :
          LET queue == IF per THEN Service!Notify(serviceMessages, t, n) ELSE serviceMessages IN
            /\ serviceMessages' = IF pau THEN Service!Notify(queue, t, n) ELSE queue
            /\ worker' = [worker EXCEPT ![w].finished = n,
                                        ![w].pc = IF pau THEN "save" ELSE "read"]
  <2>1. paused \in Service!Seen(t)
    BY DEF Seen, Service!Seen
  <2>2. WITNESS periodic \in BOOLEAN, paused \in Service!Seen(t)
  <2>3. QED
    BY <1>5, <1>7, <1>8, <1>9
<1>11. have' = [have EXCEPT ![serviceUrls[t]] =
                   IF worker[w].last = Length THEN @ \cup {n} ELSE @ \ {n}]
  BY <1>1, <1>3, <1>4 DEF Read
<1>12. Service!At(w, "read") /\ worker[w].finished < worker[w].last
       /\ UNCHANGED <<pool, saved, Service!mainOwned>>
  BY <1>1 DEF Read, At, Service!At, Service!mainOwned
<1>13. QED
  BY <1>3, <1>4, <1>10, <1>11, <1>12 DEF Service!Read

LEMMA WorkerMapped ==
    ASSUME WaitInv, NEW w \in Workers, UNCHANGED managerOwned, WorkerStep(w) \/ Fail(w)
    PROVE  Service!WorkerStep(w) \/ Service!Fail(w)
<1>1. /\ UNCHANGED serviceUrls /\ Typed /\ looper \in Seq(Message \cup {BindSuc})
      /\ worker[w].pc # "idle" => serviceUrls[worker[w].task] = urlOf[worker[w].task]
      /\ UNCHANGED looper => UNCHANGED serviceMessages
  BY ThreadMapped DEF Typed, TypeOK
<1>2. UNCHANGED mainOwned => UNCHANGED Service!mainOwned
  BY <1>1 DEF mainOwned, Service!mainOwned
<1>3. Exit(w) => Service!Exit(w)
  BY DEF Exit, Service!Exit, Idle, Service!Idle
<1>4. CASE Take(w)
  <2>1. Service!Take(w)
    BY <1>1, <1>2, <1>4 DEF Take, Service!Take, Idle, Service!Idle
  <2>2. QED
    BY <2>1 DEF Service!WorkerStep
<1>5. CASE InitDone(w)
  <2>1. PICK m : m = [what |-> "MSG_INIT", task |-> worker[w].task]
    OBVIOUS
  <2>2. m \in Message
    BY <1>1, <1>5, <2>1, AtTyped DEF InitDone, At, Message
  <2>3. serviceMessages' = Append(serviceMessages, m)
    BY <1>1, <1>5, <2>1, <2>2, SendMapped DEF InitDone
  <2>4. Service!InitDone(w)
    BY <1>2, <1>3, <1>5, <2>1, <2>3 DEF InitDone, Service!InitDone, At, Service!At
  <2>5. QED
    BY <2>4 DEF Service!WorkerStep
<1>6. CASE Connect(w)
  <2>1. Service!Connect(w)
    BY <1>1, <1>2, <1>3, <1>6 DEF Connect, Service!Connect, At, Service!At
  <2>2. QED
    BY <2>1 DEF Service!WorkerStep
<1>7. CASE Read(w)
  BY <1>7, ReadMapped DEF Service!WorkerStep
<1>8. CASE SaveProgress(w)
  <2>1. Service!SaveProgress(w)
    BY <1>1, <1>2, <1>3, <1>8 DEF SaveProgress, Service!SaveProgress, At, Service!At, NoRow,
                                  Service!NoRow
  <2>2. QED
    BY <2>1 DEF Service!WorkerStep
<1>9. CASE EndOfStream(w)
  <2>1. worker[w].task \in TaskInfos
    BY <1>1, <1>9, AtTyped DEF EndOfStream, At
  <2>2. serviceMessages' = Without(looper', BindSuc)
    BY DEF serviceMessages, Without, BindSuc
  <2>3. serviceMessages' = Service!Notify(serviceMessages, worker[w].task, worker[w].finished)
    BY <1>1, <1>9, <2>1, <2>2, NotifyMapped DEF EndOfStream, serviceMessages
  <2>4. Service!EndOfStream(w)
    BY <1>2, <1>3, <1>9, <2>3 DEF EndOfStream, Service!EndOfStream, At, Service!At
  <2>5. QED
    BY <2>4 DEF Service!WorkerStep
<1>10. CASE Fail(w)
  BY <1>1, <1>2, <1>3, <1>10 DEF Fail, Service!Fail, At, Service!At, Idle, Service!Idle
<1>11. QED
  BY <1>4, <1>5, <1>6, <1>7, <1>8, <1>9, <1>10 DEF WorkerStep

-----------------------------------------------------------------------------
(* Requests, pauses and kills. *)
LEMMA DownloadMapped ==
    ASSUME WaitInv, NEW t, NEW u, Download(t, u)
    PROVE  Service!Download(t, u)
<1>1. Typed /\ UNCHANGED <<taskList, worker, looper, broadcasts, have, finishedCalls, kills>>
  BY DEF WaitInv, ManagerTyped, Download
<1>2. UNCHANGED serviceMessages
  BY <1>1, BindSucUnseen
<1>3. \/ \E i \in DOMAIN taskList :
            /\ Service!IsFirst(i, u)
            /\ IF isPause[taskList[i]] THEN Restart(taskList[i], u)
                                       ELSE UNCHANGED <<isPause, pool, saved>>
      \/ /\ Service!NotListed(u)
         /\ pool' = Append(pool, InitThread(t))
         /\ UNCHANGED <<isPause, saved>>
  BY ListMapped DEF Download
<1>4. \A x : Restart(x, u) => Service!Restart(x, u)
  BY DEF Restart, Service!Restart, Downlaod, Service!Downlaod, DownloadThread,
         Service!DownloadThread, NoRow, Service!NoRow
<1>5. InitThread(t) = Service!InitThread(t)
  BY DEF InitThread, Service!InitThread
<1>6. QED
  BY <1>1, <1>2, <1>3, <1>4, <1>5 DEF Service!Download

LEMMA InitialisingMapped ==
    ASSUME WaitInv, NEW u, Service!Initialising(u) PROVE Initialising(u)
<1>1. Typed /\ looper \in Seq(Message \cup {BindSuc})
  BY DEF WaitInv, ManagerTyped, Typed, TypeOK
<1>2. \A k \in DOMAIN serviceMessages :
         \E i \in DOMAIN looper : looper[i] # BindSuc /\ serviceMessages[k] = looper[i]
  BY <1>1, WithoutElements DEF serviceMessages
<1>3. \A w \in Workers : worker[w].pc = "init" => worker[w].pc # "idle"
  OBVIOUS
<1>4. QED
  BY <1>2, <1>3, NamedUrls DEF Initialising, Service!Initialising

LEMMA StartDownloadMapped ==
    ASSUME WaitInv, NEW t \in TaskInfos, NEW u \in Urls, StartDownload(t, u)
    PROVE  Service!Request(t, u) \/ UNCHANGED Service!vars
<1>1. /\ Typed /\ urlOf \in [TaskInfos -> Urls \cup {NoUrl}] /\ waiting \in Seq(TaskInfos)
      /\ urlOf[t] = NoUrl /\ ~Contains(waiting, t)
  <2>1. Typed /\ urlOf \in [TaskInfos -> Urls \cup {NoUrl}] /\ waiting \in Seq(TaskInfos)
        /\ urlOf[t] = NoUrl
    BY DEF WaitInv, ManagerTyped, Typed, TypeOK, StartDownload
  <2>2. ~Contains(waiting, t)
    BY <2>1, WaitingElements, NoUrlAssumption DEF WaitInv, Contains, KnownUrl
  <2>3. QED
    BY <2>1, <2>2
<1>2. CASE StartDownloadBound(t, u)
  <2>1. urlOf' = [urlOf EXCEPT ![t] = u] /\ Download(t, u) /\ UNCHANGED waiting
    BY <1>2 DEF StartDownloadBound, managerOwned
  <2>2. serviceUrls' = [serviceUrls EXCEPT ![t] = u]
    <3>1. serviceUrls' = [x \in TaskInfos |-> IF Contains(waiting, x) THEN NoUrl ELSE urlOf'[x]]
      BY <2>1 DEF serviceUrls, Contains
    <3>2. \A x \in TaskInfos : urlOf'[x] = IF x = t THEN u ELSE urlOf[x]
      BY <1>1, <2>1
    <3>3. QED
      BY <1>1, <3>1, <3>2 DEF serviceUrls
  <2>3. Service!Download(t, u) /\ serviceUrls[t] = NoUrl
    BY <1>1, <2>1, DownloadMapped, ServiceUrls
  <2>4. "duplicate" \in Hazards \/ ~Service!Initialising(u)
    BY InitialisingMapped DEF StartDownload
  <2>5. QED
    BY <2>2, <2>3, <2>4 DEF Service!Request
<1>3. CASE StartDownloadUnbound(t, u)
  <2>1. UNCHANGED <<taskList, isPause, pool, worker, looper, broadcasts, saved, have,
                    finishedCalls, kills>>
    BY <1>3 DEF StartDownloadUnbound
  <2>2. UNCHANGED serviceMessages
    BY <1>1, <2>1, BindSucUnseen
  <2>3. UNCHANGED serviceUrls
    <3>1. CASE UNCHANGED <<urlOf, waiting>>
      BY <3>1, UrlsUnchanged
    <3>2. CASE waiting' = Append(waiting, t) /\ urlOf' = [urlOf EXCEPT ![t] = u]
      <4>1. \A x \in TaskInfos : Contains(waiting', x) <=> Contains(waiting, x) \/ x = t
        BY <1>1, <3>2 DEF Contains
      <4>2. \A x \in TaskInfos : x # t => urlOf'[x] = urlOf[x]
        BY <1>1, <3>2
      <4>3. serviceUrls' = [x \in TaskInfos |-> IF Contains(waiting', x) THEN NoUrl ELSE urlOf'[x]]
        BY DEF serviceUrls, Contains
      <4>4. QED
        BY <1>1, <4>1, <4>2, <4>3 DEF serviceUrls
    <3>3. QED
      BY <1>3, <3>1, <3>2 DEF StartDownloadUnbound
  <2>4. QED
    BY <2>1, <2>2, <2>3 DEF Service!vars
<1>4. QED
  BY <1>2, <1>3 DEF StartDownload

LEMMA HandOverMapped ==
    ASSUME WaitInv, HandOver
    PROVE  \E t \in TaskInfos, u \in Urls : Service!Request(t, u)
<1>1. PICK t : t = Last(waiting)
  OBVIOUS
<1>2. PICK u : u = urlOf[t]
  OBVIOUS
<1>3. /\ waiting # <<>> /\ waiting' = Front(waiting) /\ Download(t, u) /\ UNCHANGED urlOf
      /\ Typed /\ waiting \in Seq(TaskInfos) /\ ManagerTyped
  BY <1>1, <1>2 DEF HandOver, WaitInv, ManagerTyped
<1>4. /\ t \in TaskInfos /\ u \in Urls
      /\ \A i \in DOMAIN Front(waiting) :
            /\ i \in DOMAIN waiting /\ Front(waiting)[i] = waiting[i] /\ waiting[i] # t
      /\ \A i \in DOMAIN waiting : i \in DOMAIN Front(waiting) \/ waiting[i] = t
  BY <1>1, <1>2, <1>3, LastWaiting DEF KnownUrl
<1>5. PICK i \in DOMAIN waiting : waiting[i] = t
  BY <1>1, <1>3, FrontElements
<1>6. /\ DOMAIN waiting = 1..Len(waiting) /\ DOMAIN waiting' = 1..Len(waiting')
  BY <1>3, FrontElements
<1>7. /\ Contains(waiting, t) /\ ~Contains(waiting', t)
      /\ \A x \in TaskInfos : x # t => (Contains(waiting', x) <=> Contains(waiting, x))
  BY <1>3, <1>4, <1>5, <1>6 DEF Contains
<1>8. serviceUrls[t] = NoUrl /\ serviceUrls' = [serviceUrls EXCEPT ![t] = u]
  <2>1. serviceUrls' = [x \in TaskInfos |-> IF Contains(waiting', x) THEN NoUrl ELSE urlOf[x]]
    BY <1>3 DEF serviceUrls, Contains
  <2>2. QED
    BY <1>2, <1>4, <1>7, <2>1 DEF serviceUrls
<1>9. Service!Download(t, u)
  BY <1>3, DownloadMapped
<1>10. "duplicate" \in Hazards \/ ~Service!Initialising(u)
  <2> SUFFICES ASSUME "duplicate" \notin Hazards PROVE ~Initialising(u)
    BY InitialisingMapped
  <2>1. \A x \in TaskInfos : Starts(x) => urlOf[x] # u
    BY <1>2, <1>5 DEF WaitInv, NotStarted
  <2>2. QED
    BY <1>3, <2>1, StartsInitialise
<1>11. Service!Request(t, u)
  BY <1>8, <1>9, <1>10 DEF Service!Request
<1>12. QED
  BY <1>4, <1>11

LEMMA PauseMapped ==
    ASSUME WaitInv, UNCHANGED managerOwned, NEW u, Pause(u) PROVE Service!Pause(u)
<1>1. Typed /\ UNCHANGED <<urlOf, taskList, pool, worker, looper, broadcasts, saved, have,
                           finishedCalls, kills>>
      /\ UNCHANGED serviceUrls
  BY UrlsUnchanged DEF WaitInv, ManagerTyped, Pause, managerOwned
<1>2. UNCHANGED serviceMessages
  BY <1>1, BindSucUnseen
<1>3. QED
  BY <1>1, <1>2, ListMapped DEF Pause, Service!Pause

LEMMA OnLowMemoryMapped ==
    ASSUME WaitInv, UNCHANGED managerOwned, OnLowMemory PROVE Service!OnLowMemory
<1>1. Typed /\ UNCHANGED <<urlOf, taskList, pool, worker, looper, broadcasts, saved, have,
                           finishedCalls, kills>>
      /\ UNCHANGED serviceUrls
  BY UrlsUnchanged DEF WaitInv, ManagerTyped, OnLowMemory, managerOwned
<1>2. UNCHANGED serviceMessages
  BY <1>1, BindSucUnseen
<1>3. QED
  BY <1>1, <1>2 DEF OnLowMemory, Service!OnLowMemory, Contains, Service!Contains

LEMMA ManagerKillMapped == ASSUME WaitInv, ManagerKill PROVE Service!Kill
<1>1. waiting' = <<>> /\ looper' = <<>> /\ urlOf' = serviceUrls
  BY DEF ManagerKill, ClearProcess, serviceUrls
<1>2. UNCHANGED serviceUrls
  <2>1. \A x : ~Contains(waiting', x)
    BY <1>1 DEF Contains
  <2>2. serviceUrls' = [x \in TaskInfos |-> IF Contains(waiting', x) THEN NoUrl ELSE urlOf'[x]]
    BY DEF serviceUrls, Contains
  <2>3. serviceUrls' = [x \in TaskInfos |-> serviceUrls[x]]
    BY <1>1, <2>1, <2>2
  <2>4. QED
    BY <2>3, ServiceUrls
<1>3. serviceMessages' = <<>>
  <2>1. serviceMessages' = Without(looper', BindSuc)
    BY DEF serviceMessages, Without, BindSuc
  <2>2. QED
    BY <1>1, <2>1, WithoutNothing
<1>4. QED
  BY <1>2, <1>3 DEF ManagerKill, ClearProcess, Service!Kill, Service!ClearProcess, Idle, Service!Idle

LEMMA ServiceInit == ManagerInit => Service!Init
<1> SUFFICES ASSUME ManagerInit PROVE Service!Init
  OBVIOUS
<1>1. Init /\ waiting = <<>> /\ looper = <<>>
  BY DEF ManagerInit, Init
<1>2. serviceMessages = <<>>
  BY <1>1, WithoutNothing DEF serviceMessages
<1>3. serviceUrls = urlOf
  BY <1>1 DEF serviceUrls, Contains, Init
<1>4. QED
  BY <1>1, <1>2, <1>3 DEF Init, Service!Init, Idle, Service!Idle, NoRow, Service!NoRow

LEMMA ServiceStep == WaitInv /\ [ManagerNext]_allVars => [Service!Next]_(Service!vars)
<1> SUFFICES ASSUME WaitInv, [ManagerNext]_allVars
             PROVE  Service!Next \/ UNCHANGED Service!vars
  OBVIOUS
<1>1. Typed
  BY DEF WaitInv, ManagerTyped
<1>2. ASSUME UNCHANGED serviceMessages, UNCHANGED <<urlOf, waiting>>,
             UNCHANGED <<taskList, isPause, pool, worker, broadcasts, saved, have,
                         finishedCalls, kills>>
      PROVE  UNCHANGED Service!vars
  BY <1>2, UrlsUnchanged DEF Service!vars
<1>3. CASE OnServiceConnected
  BY <1>1, <1>2, <1>3, BindSucUnseen DEF OnServiceConnected
<1>4. CASE HandleBindSuc
  <2>1. looper # <<>> /\ Head(looper) = BindSuc
    <3>1. looper \in Seq(Message \cup {BindSuc}) /\ looper # <<>> /\ Head(looper).what = "MSG_BIND_SUC"
      BY <1>1, <1>4 DEF Typed, TypeOK, HandleBindSuc, Received
    <3>2. Head(looper) \in Message \cup {BindSuc}
      BY <3>1, TailElements
    <3>3. \A m \in Message : m.what # "MSG_BIND_SUC"
      BY DEF Message
    <3>4. QED
      BY <3>1, <3>2, <3>3
  <2>2. UNCHANGED serviceMessages
    BY <1>1, <1>4, <2>1, BindSucUnseen DEF HandleBindSuc
  <2>3. QED
    BY <1>2, <1>4, <2>2 DEF HandleBindSuc
<1>5. CASE HandOver
  BY <1>5, HandOverMapped DEF Service!Next, Service!Environment
<1>6. CASE Release \/ UNCHANGED allVars
  BY <1>1, <1>2, <1>6, BindSucUnseen DEF Release, allVars, vars, managerOwned
<1>7. CASE ServiceMainStep
  BY <1>7, HandleInitMapped, HandleDownloadingMapped, HandleFinishedMapped, OnReceiveMapped
     DEF ServiceMainStep, HandleMessage, Service!Next, Service!HandleMessage
<1>8. ASSUME NEW w \in Workers, WorkerStep(w) \/ Fail(w), UNCHANGED managerOwned
      PROVE  Service!Next
  BY <1>8, WorkerMapped DEF Service!Next, Service!Environment
<1>9. ASSUME NEW t \in TaskInfos, NEW u \in Urls, StartDownload(t, u)
      PROVE  Service!Next \/ UNCHANGED Service!vars
  BY <1>9, StartDownloadMapped DEF Service!Next, Service!Environment
<1>10. ASSUME NEW u \in Urls, PauseDownload(u) PROVE Service!Next
  BY <1>10, PauseMapped DEF PauseDownload, Service!Next, Service!Environment
<1>11. CASE OnLowMemory /\ UNCHANGED managerOwned
  BY <1>11, OnLowMemoryMapped DEF Service!Next, Service!Environment
<1>12. CASE ManagerKill
  BY <1>12, ManagerKillMapped DEF Service!Next, Service!Environment
<1>13. CASE ManagerStep
  BY <1>3, <1>4, <1>5, <1>6, <1>13 DEF ManagerStep
<1>14. CASE ManagerEnvironment
  BY <1>8, <1>9, <1>10, <1>11, <1>12, <1>14 DEF ManagerEnvironment
<1>15. QED
  BY <1>6, <1>7, <1>8, <1>13, <1>14 DEF ManagerNext

(* The requests the manager makes of the service are those DownloadService   *)
(* assumes of its callers: whether startDownload finds the service bound or   *)
(* MSG_BIND_SUC hands its list on, no request reaches the service twice, and  *)
(* none is lost but by a kill, which the service cannot tell from one never   *)
(* made.                                                                      *)
THEOREM ManagerUsesTheService == ManagerSpec => UsesTheService
<1>1. ManagerInit => WaitInv /\ Service!Init
  BY WaitInvInit, ServiceInit
<1>2. WaitInv /\ [ManagerNext]_allVars => WaitInv'
  BY WaitInvNext
<1>3. WaitInv /\ [ManagerNext]_allVars => [Service!Next]_(Service!vars)
  BY ServiceStep
<1>4. QED
  BY <1>1, <1>2, <1>3, PTL DEF ManagerSpec, UsesTheService, Service!Spec

-----------------------------------------------------------------------------
(* What the service's own proofs say of it holds of the service as the        *)
(* manager uses it.                                                           *)
Checked == INSTANCE DownloadTally_proofs WITH urlOf <- serviceUrls, looper <- serviceMessages

(* The assumptions are the same constants', and the definitions the same      *)
(* definitions.                                                               *)
LEMMA CheckedAssumptions ==
    /\ Checked!LengthAssumption
    /\ Checked!BytesAssumption
    /\ Checked!HazardsAssumption
    /\ Checked!WorkersAssumption
    /\ Checked!NoUrlAssumption
    /\ Checked!NoTaskAssumption
    /\ Checked!KillAssumption
  BY LengthAssumption, BytesAssumption, HazardsAssumption, WorkersAssumption,
     NoUrlAssumption, NoTaskAssumption, KillAssumption, SMT
     DEF Checked!LengthAssumption, Checked!BytesAssumption, Checked!HazardsAssumption,
         Checked!WorkersAssumption, Checked!NoUrlAssumption, Checked!NoTaskAssumption, Checked!KillAssumption,
         HazardKinds, Checked!HazardKinds, IsFiniteSet, Checked!IsFiniteSet

LEMMA CheckedInit == Service!Init => Checked!Init
  BY DEF Service!Init, Service!NoRow, Service!Idle, Checked!Init, Checked!NoRow, Checked!Idle

LEMMA CheckedNotify ==
    \A q, t, n : Service!Notify(q, t, n) = Checked!Notify(q, t, n)
<1>1. Service!Exact = Checked!Exact
  BY SMT DEF Service!Exact, Checked!Exact
<1>2. \A x, y : Service!Nearest(x, y) = Checked!Nearest(x, y)
  BY DEF Service!Nearest, Checked!Nearest
<1>3. \A x, e : Service!Float(x, e) = Checked!Float(x, e)
  BY <1>2 DEF Service!Float, Checked!Float
<1>4. \A n : Service!Says100(n) <=> Checked!Says100(n)
  BY <1>1, <1>3 DEF Service!Says100, Checked!Says100
<1>5. QED
  BY <1>4 DEF Service!Notify, Checked!Notify

LEMMA CheckedNext == Service!Next => Checked!Next
<1>1. Service!HandleMessage \/ Service!OnReceive => Checked!HandleMessage \/ Checked!OnReceive
  BY DEF Service!HandleMessage, Service!HandleInit, Service!HandleDownloading,
         Service!HandleFinished, Service!OnReceive, Service!Received, Service!Downlaod,
         Service!DownloadThread, Service!NoRow, Service!IsFirst, Service!NotListed,
         Service!RemoveAt, Checked!HandleMessage, Checked!HandleInit,
         Checked!HandleDownloading, Checked!HandleFinished, Checked!OnReceive,
         Checked!Received, Checked!Downlaod, Checked!DownloadThread, Checked!NoRow,
         Checked!IsFirst, Checked!NotListed, Checked!RemoveAt
<1>2. \A w \in Workers : Service!Read(w) => Checked!Read(w)
  <2>1. ASSUME NEW w \in Workers, Service!Read(w) PROVE Checked!Read(w)
    <3>1. PICK periodic \in BOOLEAN, paused \in Service!Seen(worker[w].task) :
            LET t == worker[w].task
                n == worker[w].finished + 1
                queue == IF periodic THEN Service!Notify(serviceMessages, t, n)
                                     ELSE serviceMessages
            IN  /\ serviceMessages' = IF paused THEN Service!Notify(queue, t, n) ELSE queue
                /\ worker' = [worker EXCEPT ![w].finished = n,
                                            ![w].pc = IF paused THEN "save" ELSE "read"]
      BY <2>1 DEF Service!Read
    <3>2. QED
      BY <2>1, <3>1, CheckedNotify
      DEF Service!Read, Service!At, Service!Seen, Service!mainOwned,
          Checked!Read, Checked!At, Checked!Seen, Checked!mainOwned
  <2>2. QED
    BY <2>1
<1>3. \A w \in Workers : Service!EndOfStream(w) => Checked!EndOfStream(w)
  BY CheckedNotify DEF Service!EndOfStream, Service!At, Service!Exit, Service!Idle,
                       Service!mainOwned, Checked!EndOfStream, Checked!At, Checked!Exit,
                       Checked!Idle, Checked!mainOwned
<1>4. ASSUME NEW w \in Workers, Service!WorkerStep(w) PROVE Checked!WorkerStep(w)
  <2>1. CASE Service!Take(w) \/ Service!InitDone(w) \/ Service!Connect(w) \/ Service!SaveProgress(w)
    BY <2>1 DEF Service!Take, Service!InitDone, Service!Connect, Service!SaveProgress,
         Service!At, Service!Exit, Service!Idle, Service!NoRow, Service!mainOwned,
         Checked!Take, Checked!InitDone, Checked!Connect, Checked!SaveProgress,
         Checked!At, Checked!Exit, Checked!Idle, Checked!NoRow, Checked!mainOwned, Checked!WorkerStep
  <2>2. QED
    BY <1>2, <1>3, <1>4, <2>1 DEF Service!WorkerStep, Checked!WorkerStep
<1>5. Service!Environment => Checked!Environment
  BY DEF Service!Environment, Service!Request, Service!Download, Service!Restart,
         Service!Downlaod, Service!DownloadThread, Service!InitThread,
         Service!Initialising, Service!IsFirst, Service!NotListed, Service!NoRow,
         Service!Pause, Service!OnLowMemory, Service!Contains, Service!Fail, Service!At,
         Service!Exit, Service!Idle, Service!mainOwned, Service!Kill,
         Service!ClearProcess, Checked!Environment, Checked!Request, Checked!Download,
         Checked!Restart, Checked!Downlaod, Checked!DownloadThread, Checked!InitThread,
         Checked!Initialising, Checked!IsFirst, Checked!NotListed, Checked!NoRow,
         Checked!Pause, Checked!OnLowMemory, Checked!Contains, Checked!Fail, Checked!At,
         Checked!Exit, Checked!Idle, Checked!mainOwned, Checked!Kill,
         Checked!ClearProcess
<1>6. QED
  BY <1>1, <1>4, <1>5 DEF Service!Next, Checked!Next

LEMMA CheckedService == Service!Spec => Checked!Spec
<1>1. UNCHANGED Service!vars => UNCHANGED Checked!vars
  BY DEF Service!vars, Checked!vars
<1>2. [Service!Next]_(Service!vars) => [Checked!Next]_(Checked!vars)
  BY <1>1, CheckedNext
<1>3. QED
  BY <1>2, CheckedInit, PTL DEF Service!Spec, Checked!Spec


(* A request is either in the manager's list or with the service, never in    *)
(* both, and the list holds one request of a url.                             *)
THEOREM WaitingIsUnknown == ManagerSpec => []WaitInv
<1>1. ManagerInit => WaitInv
  BY WaitInvInit
<1>2. WaitInv /\ [ManagerNext]_allVars => WaitInv'
  BY WaitInvNext
<1>3. QED
  BY <1>1, <1>2, PTL DEF ManagerSpec

(* A file is as small for the service as for the manager, and lacks as much. *)
LEMMA CheckedSizes ==
    /\ SmallFile => Checked!SmallFile
    /\ \A n : Checked!Lacking(n) = Lacking(n)
<1>1. Checked!Exact = Exact
  BY SMT DEF Checked!Exact, Exact
<1>2. QED
  BY <1>1 DEF Checked!SmallFile, SmallFile, Checked!Lacking, Lacking

LEMMA ToldIsHandedOn ==
    \A t : serviceUrls[t] \in Urls /\ t \in TaskInfos => serviceUrls[t] = urlOf[t]
  BY NoUrlAssumption DEF serviceUrls

(* Whatever the manager does, a file of any size that is told finished is on  *)
(* the disk but for one byte in 2^23 at its end: requests that wait, are      *)
(* handed over late or are lost when the process is killed add no hole.       *)
THEOREM ManagedFilesAreThere ==
    "full" \notin Hazards => (ManagerSpec => []FinishedFileIsThere)
<1> SUFFICES ASSUME "full" \notin Hazards PROVE ManagerSpec => []FinishedFileIsThere
  OBVIOUS
<1>1. Checked!FinishedFileIsThere => FinishedFileIsThere
  <2> SUFFICES ASSUME Checked!FinishedFileIsThere, NEW t \in TaskInfos, finishedCalls[t] > 0
               PROVE  /\ KnownUrl(t)
                      /\ \E n \in 0..Length : /\ Lacking(n) <= Bytes[Length] \div 8388608
                                             /\ Behind(urlOf[t], n)
    BY SMT DEF FinishedFileIsThere
  <2>1. serviceUrls[t] \in Urls
    BY SMT DEF Checked!FinishedFileIsThere, Checked!KnownUrl
  <2>2. PICK n \in 0..Length : /\ Checked!Lacking(n) <= Bytes[Length] \div 8388608
                              /\ Checked!Behind(serviceUrls[t], n)
    BY SMT DEF Checked!FinishedFileIsThere
  <2>3. KnownUrl(t) /\ serviceUrls[t] = urlOf[t]
    BY <2>1, ToldIsHandedOn, SMT DEF KnownUrl
  <2>4. Behind(urlOf[t], n)
    BY <2>2, <2>3, SMT DEF Checked!Behind, Behind, Checked!Blocks, Blocks
  <2>5. QED
    BY <2>2, <2>3, <2>4, CheckedSizes, SMT
<1>2. Checked!Spec => []Checked!FinishedFileIsThere
  BY Checked!FinishedFilesAreThere, CheckedAssumptions DEF Checked!RangesHonoured
<1>3. QED
  BY <1>1, <1>2, ManagerUsesTheService, CheckedService, PTL DEF UsesTheService

(* onDownloadFinished is called only for a file that is on the disk in full   *)
(* when the file has at most 2^24 bytes, whatever the manager does: requests  *)
(* that wait, are handed over late or are lost with the process included.     *)
THEOREM ManagedFilesAreWhole ==
    "full" \notin Hazards /\ SmallFile => (ManagerSpec => []FinishedFileIsWhole)
<1> SUFFICES ASSUME "full" \notin Hazards, SmallFile PROVE ManagerSpec => []FinishedFileIsWhole
  OBVIOUS
<1>1. Checked!FinishedFileIsWhole => FinishedFileIsWhole
  <2> SUFFICES ASSUME Checked!FinishedFileIsWhole, NEW t \in TaskInfos, finishedCalls[t] > 0
               PROVE  KnownUrl(t) /\ Whole(urlOf[t])
    BY DEF FinishedFileIsWhole
  <2>1. serviceUrls[t] \in Urls /\ have[serviceUrls[t]] = Blocks
    BY DEF Checked!FinishedFileIsWhole, Checked!KnownUrl, Checked!Whole, Checked!Blocks, Blocks
  <2>2. QED
    BY <2>1, ToldIsHandedOn DEF KnownUrl, Whole
<1>2. Checked!Spec => []Checked!FinishedFileIsWhole
  BY Checked!FinishedFilesAreWhole, CheckedSizes, CheckedAssumptions DEF Checked!RangesHonoured
<1>3. QED
  BY <1>1, <1>2, ManagerUsesTheService, CheckedService, PTL DEF UsesTheService

LEMMA ThreadUrls ==
    ASSUME WaitInv
    PROVE  /\ \A i \in DOMAIN pool : serviceUrls[pool[i].task] = urlOf[pool[i].task]
           /\ \A w \in Workers : worker[w] # Idle =>
                 serviceUrls[worker[w].task] = urlOf[worker[w].task]
<1>1. \A w \in Workers : worker[w] # Idle => worker[w] \in Thread
  BY TypedElements DEF WaitInv, ManagerTyped
<1>2. \A w \in Workers : worker[w] # Idle => worker[w].pc # "idle"
  BY <1>1 DEF Thread
<1>3. QED
  BY <1>2, NamedUrls

LEMMA EndingUrls ==
    ASSUME WaitInv
    PROVE  /\ \A k \in DOMAIN serviceMessages : \E i \in DOMAIN looper :
                 /\ serviceMessages[k] = looper[i]
                 /\ serviceUrls[looper[i].task] = urlOf[looper[i].task]
           /\ \A i \in DOMAIN broadcasts :
                 serviceUrls[broadcasts[i]] = urlOf[broadcasts[i]]
<1>1. Typed
  BY DEF WaitInv, ManagerTyped
<1>2. \A k \in DOMAIN serviceMessages : \E i \in DOMAIN looper :
        looper[i] # BindSuc /\ serviceMessages[k] = looper[i]
  <2>1. looper \in Seq(Message \cup {BindSuc})
    BY <1>1 DEF Typed, TypeOK
  <2>2. QED
    BY <2>1, WithoutElements DEF serviceMessages
<1>3. \A i \in DOMAIN broadcasts : serviceUrls[broadcasts[i]] = urlOf[broadcasts[i]]
  BY <1>1, TypedElements, ServiceUrls DEF Names
<1>4. QED
  BY <1>2, <1>3, NamedUrls

(* A listed task that is not paused still has a thread, a message or a        *)
(* broadcast coming for its url, as in the service alone: a request that the  *)
(* manager hands on late, or loses, never leaves one behind.                  *)
THEOREM ManagerWedgesNothing ==
    "failure" \notin Hazards /\ "pause" \notin Hazards => (ManagerSpec => []NoWedgedTask)
<1> SUFFICES ASSUME "failure" \notin Hazards, "pause" \notin Hazards
             PROVE  ManagerSpec => []NoWedgedTask
  OBVIOUS
<1>1. WaitInv /\ Checked!NoWedgedTask => NoWedgedTask
  <2> SUFFICES ASSUME WaitInv, Checked!NoWedgedTask, NEW i \in DOMAIN taskList,
                      ~isPause[taskList[i]]
               PROVE  HasThread(urlOf[taskList[i]]) \/ Ending(urlOf[taskList[i]])
    BY DEF NoWedgedTask
  <2>1. PICK u : u = urlOf[taskList[i]] /\ u = serviceUrls[taskList[i]]
    BY NamedUrls
  <2>2. CASE Checked!HasThread(u)
    BY <2>1, <2>2, ThreadUrls DEF Checked!HasThread, HasThread, Checked!Idle, Idle
  <2>3. CASE Checked!Ending(u)
    BY <2>1, <2>3, EndingUrls DEF Ending, Checked!Ending
  <2>4. QED
    BY <2>1, <2>2, <2>3 DEF Checked!NoWedgedTask
<1>2. Checked!Spec => []Checked!NoWedgedTask
  BY Checked!NothingWedged, CheckedAssumptions DEF Checked!Undisturbed
<1>3. QED
  BY <1>1, <1>2, ManagerUsesTheService, CheckedService, WaitingIsUnknown, PTL DEF UsesTheService

(* Downloads is kept through both layers: what callers of the manager see of  *)
(* the requests it has handed on is requests, files that become whole and     *)
(* stay so, and, the files having at most 2^24 bytes, finished calls for      *)
(* whole files only.                                                          *)
THEOREM ManagerKeepsPromise ==
    "full" \notin Hazards /\ SmallFile => (ManagerSpec => Service!KeepsPromise)
<1> SUFFICES ASSUME "full" \notin Hazards, SmallFile PROVE ManagerSpec => Service!KeepsPromise
  OBVIOUS
<1>1. Checked!Spec => Checked!KeepsPromise
  BY Checked!ServiceKeepsPromise, CheckedSizes, CheckedAssumptions DEF Checked!RangesHonoured
<1>2. /\ Checked!Promise!Init => Service!Promise!Init
      /\ [Checked!Promise!Next]_(Checked!Promise!abstractVars)
           => [Service!Promise!Next]_(Service!Promise!abstractVars)
  BY DEF Checked!Promise!Init, Checked!Promise!Next, Checked!Promise!abstractVars,
         Checked!Promise!Ask, Checked!Promise!BecomeWhole, Checked!Promise!TellFinished,
         Service!Promise!Init, Service!Promise!Next, Service!Promise!abstractVars,
         Service!Promise!Ask, Service!Promise!BecomeWhole, Service!Promise!TellFinished,
         Checked!Whole, Checked!Blocks, Service!Whole, Service!Blocks
<1>3. Checked!KeepsPromise => Service!KeepsPromise
  BY <1>2, PTL DEF Checked!KeepsPromise, Service!KeepsPromise,
                   Checked!Promise!Spec, Service!Promise!Spec
<1>4. QED
  BY <1>1, <1>3, ManagerUsesTheService, CheckedService, PTL DEF UsesTheService

(* What has become of a download is the same for both.                       *)
LEMMA CheckedLoads == \A t : Checked!LoadOf(t) = Service!LoadOf(t)
<1>1. \A S : Checked!Cardinality(S) = Service!Cardinality(S)
  BY DEF Checked!Cardinality, Service!Cardinality
<1>2. ASSUME NEW t
      PROVE  /\ Checked!Waiting(t) <=> Service!Waiting(t)
             /\ Checked!ToBeTold(t) <=> Service!ToBeTold(t)
             /\ Checked!NotRemoved(t) <=> Service!NotRemoved(t)
  BY <1>1 DEF Checked!Waiting, Service!Waiting, Checked!ToBeTold, Service!ToBeTold,
              Checked!NotRemoved, Service!NotRemoved, Checked!Announced, Service!Announced,
              Checked!Removals, Service!Removals
<1>3. QED
  BY <1>2 DEF Checked!LoadOf, Service!LoadOf

(* Every download that the manager has handed on lives as DownloadLife says   *)
(* when its file has at most 2^24 bytes and nothing is paused, whatever fails *)
(* and whenever the process is killed: its caller is told of it twice at most. *)
THEOREM ManagedDownloadsLive ==
    "pause" \notin Hazards /\ SmallFile => (ManagerSpec => Service!LivesAsPromised)
<1> SUFFICES ASSUME "pause" \notin Hazards, SmallFile PROVE ManagerSpec => Service!LivesAsPromised
  OBVIOUS
<1>1. Checked!Spec => Checked!LivesAsPromised
  BY Checked!LivesThroughout, CheckedSizes, CheckedAssumptions DEF Checked!Unpaused
<1>2. (\A t : Checked!LoadOf(t) = Service!LoadOf(t))'
  BY CheckedLoads, PTL
<1>3. ASSUME NEW t \in TaskInfos
      PROVE  /\ Checked!Life(t)!Init => Service!Life(t)!Init
             /\ [Checked!Life(t)!Next]_(Checked!LoadOf(t)) =>
                    [Service!Life(t)!Next]_(Service!LoadOf(t))
             /\ Checked!Life(t)!Tell => Service!Life(t)!Tell
  BY <1>2, CheckedLoads
  DEF Checked!Life!Init, Service!Life!Init, Checked!Life!Next, Service!Life!Next,
      Checked!Life!Tell, Service!Life!Tell, Checked!Life!TellAgain, Service!Life!TellAgain,
      Checked!Life!Start, Service!Life!Start, Checked!Life!Listed, Service!Life!Listed,
      Checked!Life!Unlist, Service!Life!Unlist, Checked!Life!Fail, Service!Life!Fail,
      Checked!Life!Die, Service!Life!Die
<1>4. (\A t \in TaskInfos : Checked!Life(t)!Init) => \A t \in TaskInfos : Service!Life(t)!Init
  BY <1>3
<1>5. [\A t \in TaskInfos :
           /\ [Checked!Life(t)!Next]_(Checked!LoadOf(t))
           /\ finishedCalls'[t] # finishedCalls[t] =>
                 finishedCalls'[t] = finishedCalls[t] + 1 /\ Checked!Life(t)!Tell]_(Checked!vars)
      => [\A t \in TaskInfos :
           /\ [Service!Life(t)!Next]_(Service!LoadOf(t))
           /\ finishedCalls'[t] # finishedCalls[t] =>
                 finishedCalls'[t] = finishedCalls[t] + 1 /\ Service!Life(t)!Tell]_(Service!vars)
  <2>1. Checked!vars' = Checked!vars => Service!vars' = Service!vars
    BY DEF Checked!vars, Service!vars
  <2>2. QED
    BY <1>3, <2>1
<1>6. Checked!LivesAsPromised => Service!LivesAsPromised
  BY <1>4, <1>5, PTL DEF Checked!LivesAsPromised, Service!LivesAsPromised
<1>7. QED
  BY <1>1, <1>6, ManagerUsesTheService, CheckedService, PTL DEF UsesTheService

=============================================================================
