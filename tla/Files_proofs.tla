---------------------------- MODULE Files_proofs ----------------------------
(* The media files are those of the last import, for folders of any shape.    *)
EXTENDS MediaFiles, FiniteSetTheorems, SequenceTheorems, TLAPS

(* What lies below an element of S in the relation R.                         *)
Below(S, R, a) == {b \in S : <<b, a>> \in R}
StrictOrder(S, R) ==
  /\ \A a \in S : <<a, a>> \notin R
  /\ \A a, b, c \in S : <<a, b>> \in R /\ <<b, c>> \in R => <<a, c>> \in R
  /\ \A a, b \in S : a # b => <<a, b>> \in R \/ <<b, a>> \in R

(* The rank of an element grows with the order, and there is one for each     *)
(* number below the size of the set.                                          *)
LEMMA Ranks ==
  ASSUME NEW S, IsFiniteSet(S), NEW R, StrictOrder(S, R)
  PROVE  /\ \A a \in S : Cardinality(Below(S, R, a)) \in 0..(Cardinality(S) - 1)
         /\ \A a, b \in S : <<a, b>> \in R <=> Cardinality(Below(S, R, a)) < Cardinality(Below(S, R, b))
         /\ \A a, b \in S : Cardinality(Below(S, R, a)) = Cardinality(Below(S, R, b)) => a = b
         /\ \A k \in 1..Cardinality(S) : \E a \in S : Cardinality(Below(S, R, a)) = k - 1
<1> DEFINE rk(a) == Cardinality(Below(S, R, a))
           n == Cardinality(S)
           f == [a \in S |-> rk(a)]
<1>1. n \in Nat
  BY FS_CardinalityType
<1>2. \A a \in S : IsFiniteSet(Below(S, R, a)) /\ rk(a) \in 0..(n - 1)
  <2> SUFFICES ASSUME NEW a \in S PROVE IsFiniteSet(Below(S, R, a)) /\ rk(a) \in 0..(n - 1)
    OBVIOUS
  <2>1. Below(S, R, a) \in SUBSET S /\ a \notin Below(S, R, a)
    BY DEF Below, StrictOrder
  <2>2. IsFiniteSet(Below(S, R, a)) /\ rk(a) <= n /\ (n = rk(a) => S = Below(S, R, a))
    BY <2>1, FS_Subset
  <2>3. rk(a) \in Nat
    BY <2>2, FS_CardinalityType
  <2> QED
    BY <1>1, <2>1, <2>2, <2>3
<1>3. \A a, b \in S : <<a, b>> \in R => rk(a) < rk(b)
  <2> SUFFICES ASSUME NEW a \in S, NEW b \in S, <<a, b>> \in R PROVE rk(a) < rk(b)
    OBVIOUS
  <2>1. Below(S, R, a) \in SUBSET Below(S, R, b)
    BY DEF Below, StrictOrder
  <2>2. a \in Below(S, R, b) /\ a \notin Below(S, R, a)
    BY DEF Below, StrictOrder
  <2>3. IsFiniteSet(Below(S, R, b))
    BY <1>2
  <2>4. rk(a) <= rk(b) /\ (rk(b) = rk(a) => Below(S, R, b) = Below(S, R, a))
    BY <2>1, <2>3, FS_Subset
  <2>5. rk(a) \in Nat /\ rk(b) \in Nat
    BY <1>1, <1>2
  <2> HIDE DEF rk
  <2> QED
    BY <2>2, <2>4, <2>5
<1>4. \A a, b \in S : rk(a) = rk(b) => a = b
  <2> SUFFICES ASSUME NEW a \in S, NEW b \in S, rk(a) = rk(b), a # b PROVE FALSE
    OBVIOUS
  <2>1. <<a, b>> \in R \/ <<b, a>> \in R
    BY DEF StrictOrder
  <2>2. rk(a) < rk(b) \/ rk(b) < rk(a)
    BY <2>1, <1>3
  <2>3. rk(a) \in Nat /\ rk(b) \in Nat
    BY <1>1, <1>2
  <2> HIDE DEF rk
  <2> QED
    BY <2>2, <2>3
<1>5. \A a, b \in S : rk(a) < rk(b) => <<a, b>> \in R
  <2> SUFFICES ASSUME NEW a \in S, NEW b \in S, rk(a) < rk(b) PROVE <<a, b>> \in R
    OBVIOUS
  <2>3. rk(a) \in Nat /\ rk(b) \in Nat
    BY <1>1, <1>2
  <2>4. <<b, a>> \notin R
    <3> SUFFICES ASSUME <<b, a>> \in R PROVE FALSE
      OBVIOUS
    <3>1. rk(b) < rk(a)
      BY <1>3
    <3> HIDE DEF rk
    <3> QED
      BY <3>1, <2>3
  <2>5. a # b
    <3> HIDE DEF rk
    <3> QED
      BY <2>3
  <2> QED
    BY <2>4, <2>5 DEF StrictOrder
<1>6. f \in Injection(S, 0..(n - 1))
  <2>1. f \in [S -> 0..(n - 1)]
    BY <1>2
  <2>2. IsInjective(f)
    BY <1>4 DEF IsInjective
  <2> QED
    BY <2>1, <2>2 DEF Injection
<1>7. IsFiniteSet(0..(n - 1)) /\ Cardinality(0..(n - 1)) = n
  BY <1>1, FS_Interval
<1>8. f \in Surjection(S, 0..(n - 1))
  BY <1>6, <1>7, FS_Injection
<1>9. \A k \in 1..n : \E a \in S : rk(a) = k - 1
  <2> SUFFICES ASSUME NEW k \in 1..n PROVE \E a \in S : rk(a) = k - 1
    OBVIOUS
  <2>1. k - 1 \in 0..(n - 1)
    BY <1>1
  <2>2. \E a \in S : f[a] = k - 1
    BY <2>1, <1>8 DEF Surjection
  <2> QED
    BY <2>2
<1>10. \A a \in S : Cardinality(Below(S, R, a)) \in 0..(Cardinality(S) - 1)
  BY <1>2
<1>11. \A a, b \in S : <<a, b>> \in R <=> Cardinality(Below(S, R, a)) < Cardinality(Below(S, R, b))
  BY <1>3, <1>5
<1> QED
  BY <1>4, <1>9, <1>10, <1>11

Enumerates(e, S, R) ==
  /\ e \in Seq(S) /\ Len(e) = Cardinality(S)
  /\ \A k, l \in 1..Cardinality(S) : k < l <=> <<e[k], e[l]>> \in R
  /\ \A k, l \in 1..Cardinality(S) : e[k] = e[l] => k = l
  /\ \A a \in S : \E k \in 1..Cardinality(S) : a = e[k]

(* What numbers the elements by their ranks goes through the set in its order.*)
LEMMA InOrder ==
  ASSUME NEW S, IsFiniteSet(S), NEW R, StrictOrder(S, R), NEW e,
         e \in [1..Cardinality(S) -> S],
         \A k \in 1..Cardinality(S) : Cardinality(Below(S, R, e[k])) = k - 1
  PROVE  Enumerates(e, S, R)
<1> DEFINE n == Cardinality(S)
           rk(a) == Cardinality(Below(S, R, a))
<1>1. n \in Nat
  BY FS_CardinalityType
<1>2. e \in [1..n -> S]
  OBVIOUS
<1>3. e \in Seq(S) /\ Len(e) = n
  BY <1>1, <1>2, SeqDef
<1>4. \A k \in 1..n : rk(e[k]) = k - 1
  OBVIOUS
<1>5. \A a \in S : rk(a) \in 0..(n - 1)
  BY Ranks
<1>6. \A a, b \in S : <<a, b>> \in R <=> rk(a) < rk(b)
  BY Ranks
<1>7. \A a, b \in S : rk(a) = rk(b) => a = b
  BY Ranks
<1>8. \A k, l \in 1..n : k < l <=> <<e[k], e[l]>> \in R
  <2> SUFFICES ASSUME NEW k \in 1..n, NEW l \in 1..n PROVE k < l <=> <<e[k], e[l]>> \in R
    OBVIOUS
  <2>1. rk(e[k]) = k - 1 /\ rk(e[l]) = l - 1 /\ e[k] \in S /\ e[l] \in S
    OBVIOUS
  <2>2. <<e[k], e[l]>> \in R <=> rk(e[k]) < rk(e[l])
    BY <2>1, <1>6
  <2> HIDE DEF rk, n
  <2> QED
    BY <1>1, <2>1, <2>2
<1>9. \A k, l \in 1..n : e[k] = e[l] => k = l
  <2> SUFFICES ASSUME NEW k \in 1..n, NEW l \in 1..n, e[k] = e[l] PROVE k = l
    OBVIOUS
  <2>1. rk(e[k]) = k - 1 /\ rk(e[l]) = l - 1
    OBVIOUS
  <2>2. rk(e[k]) = rk(e[l])
    OBVIOUS
  <2> HIDE DEF rk, n
  <2> QED
    BY <1>1, <2>1, <2>2
<1>10. \A a \in S : \E k \in 1..n : a = e[k]
  <2> SUFFICES ASSUME NEW a \in S PROVE \E k \in 1..n : a = e[k]
    OBVIOUS
  <2>1. rk(a) + 1 \in 1..n
    BY <1>1, <1>5
  <2> DEFINE k == rk(a) + 1
  <2>2. rk(e[k]) = k - 1 /\ e[k] \in S
    BY <2>1
  <2>3. k - 1 = rk(a)
    BY <1>1, <1>5
  <2>4. e[k] = a
    BY <2>2, <2>3, <1>7
  <2> QED
    BY <2>1, <2>4
<1> QED
  BY <1>3, <1>8, <1>9, <1>10 DEF n, Enumerates

------------------------------------------------------------------------------
(* Paths, in the order of a walk.                                             *)

(* q is p or below it.                                                        *)
Under(p, q) == Len(p) <= Len(q) /\ \A l \in 1..Len(p) : q[l] = p[l]
Apart(S) == \A p, q \in S : Under(p, q) => p = q

Less(P) == {c \in P \X P : c[1] < c[2]}

(* A set of numbers has a least one.                                          *)
LEMMA LeastNumber ==
  \A T \in SUBSET Nat : T # {} => \E m \in T : \A l \in T : m <= l
<1> SUFFICES ASSUME NEW T \in SUBSET Nat, NEW t \in T PROVE \E m \in T : \A l \in T : m <= l
  OBVIOUS
<1> DEFINE U == T \cap (0..t)
<1>1. IsFiniteSet(U) /\ t \in U
  <2>1. IsFiniteSet(0..t)
    BY FS_Interval
  <2> QED
    BY <2>1, FS_Intersection
<1>2. StrictOrder(U, Less(U))
  BY DEF StrictOrder, Less
<1>3. 1 \in 1..Cardinality(U)
  <2>1. Cardinality(U) \in Nat
    BY <1>1, FS_CardinalityType
  <2>2. Cardinality(U) # 0
    BY <1>1, FS_EmptySet
  <2> QED
    BY <2>1, <2>2
<1>4. PICK m \in U : Cardinality(Below(U, Less(U), m)) = 1 - 1
  BY <1>1, <1>2, <1>3, Ranks
<1>5. \A l \in U : m <= l
  <2> SUFFICES ASSUME NEW l \in U, l < m PROVE FALSE
    OBVIOUS
  <2>1. l \in Below(U, Less(U), m) /\ Below(U, Less(U), m) \in SUBSET U
    BY DEF Below, Less
  <2>2. IsFiniteSet(Below(U, Less(U), m))
    BY <1>1, <2>1, FS_Subset
  <2> QED
    BY <1>4, <2>1, <2>2, FS_EmptySet
<1> QED
  BY <1>1, <1>5

(* Two paths of which none is below the other differ somewhere first.         *)
LEMMA FirstDifference ==
  ASSUME NEW p \in Seq(Nat), NEW q \in Seq(Nat), ~Under(p, q), ~Under(q, p)
  PROVE  Before(p, q) \/ Before(q, p)
<1> DEFINE D == {l \in DOMAIN p \cap DOMAIN q : p[l] # q[l]}
<1>0. /\ DOMAIN p = 1..Len(p) /\ DOMAIN q = 1..Len(q) /\ Len(p) \in Nat /\ Len(q) \in Nat
      /\ \A l \in 1..Len(p) : p[l] \in Nat
      /\ \A l \in 1..Len(q) : q[l] \in Nat
  OBVIOUS
<1>1. \E l \in 1..Len(p) : l <= Len(q) /\ p[l] # q[l]
  <2>1. CASE Len(p) <= Len(q)
    <3>1. PICK l \in 1..Len(p) : q[l] # p[l]
      BY <2>1 DEF Under
    <3> QED
      BY <1>0, <2>1, <3>1
  <2>2. CASE Len(q) <= Len(p)
    <3>1. PICK l \in 1..Len(q) : p[l] # q[l]
      BY <2>2 DEF Under
    <3>2. l \in 1..Len(p)
      BY <1>0, <2>2
    <3> QED
      BY <1>0, <3>1, <3>2
  <2> QED
    BY <1>0, <2>1, <2>2
<1>t. \A l \in 1..Len(p) : l <= Len(q) => l \in DOMAIN p \cap DOMAIN q
  BY <1>0
<1>d. D # {} /\ D \subseteq Nat
  <2>1. D # {}
    BY <1>1, <1>t
  <2>2. D \subseteq 1..Len(p)
    BY <1>0
  <2> QED
    BY <2>1, <2>2
<1>2. PICK k \in D : \A l \in D : k <= l
  <2>1. \A T \in SUBSET Nat : T # {} => \E m \in T : \A l \in T : m <= l
    BY LeastNumber
  <2> QED
    BY <1>d, <2>1
<1>3. k \in DOMAIN p \cap DOMAIN q /\ p[k] # q[k]
  OBVIOUS
<1>4. \A l \in 1..(k - 1) : p[l] = q[l]
  <2> SUFFICES ASSUME NEW l \in 1..(k - 1), p[l] # q[l] PROVE FALSE
    OBVIOUS
  <2>1. l \in D /\ ~(k <= l)
    BY <1>0, <1>3
  <2> QED
    BY <1>2, <2>1
<1>5. p[k] < q[k] \/ q[k] < p[k]
  BY <1>0, <1>3
<1> HIDE DEF D
<1> QED
  BY <1>3, <1>4, <1>5 DEF Before

(* The order is strict, and what is below a path goes along with it.          *)
LEMMA BeforeIsStrict ==
  ASSUME NEW p \in Seq(Nat), NEW q \in Seq(Nat), NEW r \in Seq(Nat)
  PROVE  /\ ~Before(p, p)
         /\ Before(p, q) /\ Before(q, r) => Before(p, r)
         /\ Before(p, q) /\ Under(q, r) => Before(p, r)
         /\ Before(p, q) /\ Under(p, r) => Before(r, q)
         /\ Before(p, q) => ~Under(p, q) /\ ~Under(q, p)
<1>0. \A a, b \in Seq(Nat) :
        Before(a, b) <=> \E k \in 1..Len(a) : /\ k <= Len(b) /\ a[k] < b[k]
                                              /\ \A l \in 1..(k - 1) : a[l] = b[l]
  <2> SUFFICES ASSUME NEW a \in Seq(Nat), NEW b \in Seq(Nat)
               PROVE  Before(a, b) <=> \E k \in 1..Len(a) : /\ k <= Len(b) /\ a[k] < b[k]
                                                            /\ \A l \in 1..(k - 1) : a[l] = b[l]
    OBVIOUS
  <2>1. DOMAIN a = 1..Len(a) /\ DOMAIN b = 1..Len(b) /\ Len(a) \in Nat /\ Len(b) \in Nat
    OBVIOUS
  <2>2. DOMAIN a \cap DOMAIN b = {k \in 1..Len(a) : k <= Len(b)}
    BY <2>1
  <2>3. Before(a, b) <=> \E k \in {m \in 1..Len(a) : m <= Len(b)} :
                           a[k] < b[k] /\ \A l \in 1..(k - 1) : a[l] = b[l]
    BY <2>2 DEF Before
  <2> QED
    BY <2>3
<1>t. /\ Len(p) \in Nat /\ \A l \in 1..Len(p) : p[l] \in Nat
      /\ Len(q) \in Nat /\ \A l \in 1..Len(q) : q[l] \in Nat
      /\ Len(r) \in Nat /\ \A l \in 1..Len(r) : r[l] \in Nat
  OBVIOUS
<1>1. ~Before(p, p)
  <2> SUFFICES ASSUME NEW k \in 1..Len(p), p[k] < p[k] PROVE FALSE
    BY <1>0
  <2> QED
    BY <1>t
<1>2. ASSUME Before(p, q), Before(q, r) PROVE Before(p, r)
  <2>1. PICK k \in 1..Len(p) : k <= Len(q) /\ p[k] < q[k] /\ \A l \in 1..(k - 1) : p[l] = q[l]
    BY <1>0, <1>2
  <2>2. PICK j \in 1..Len(q) : j <= Len(r) /\ q[j] < r[j] /\ \A l \in 1..(j - 1) : q[l] = r[l]
    BY <1>0, <1>2
  <2> DEFINE m == IF k < j THEN k ELSE j
  <2>t. k \in Nat /\ j \in Nat
    BY <1>t
  <2>3. m \in 1..Len(p) /\ m <= Len(r) /\ m <= k /\ m <= j /\ m \in Nat /\ k \in Nat /\ j \in Nat
    <3>1. k \in 1..Len(p) /\ k <= Len(q) /\ j \in 1..Len(q) /\ j <= Len(r)
      BY <2>1, <2>2
    <3>2. CASE k < j
      BY <1>t, <2>t, <3>1, <3>2
    <3>3. CASE ~(k < j)
      BY <1>t, <2>t, <3>1, <3>3
    <3> QED
      BY <3>2, <3>3
  <2>4. p[m] < r[m]
    <3>1. CASE k < j
      BY <1>t, <2>1, <2>2, <3>1
    <3>2. CASE j < k
      <4>1. j \in 1..(k - 1) /\ ~(k < j)
        BY <2>t, <1>t, <3>2
      <4>2. p[j] = q[j]
        BY <2>1, <4>1
      <4> QED
        BY <2>2, <4>1, <4>2
    <3>3. CASE k = j
      BY <1>t, <2>1, <2>2, <3>3
    <3> QED
      BY <2>t, <3>1, <3>2, <3>3
  <2>5. \A l \in 1..(m - 1) : p[l] = r[l]
    <3> HIDE DEF m
    <3> QED
      BY <2>1, <2>2, <2>3
  <2> HIDE DEF m
  <2> QED
    BY <1>0, <2>3, <2>4, <2>5
<1>3. ASSUME Before(p, q), Under(q, r) PROVE Before(p, r)
  <2>1. PICK k \in 1..Len(p) : k <= Len(q) /\ p[k] < q[k] /\ \A l \in 1..(k - 1) : p[l] = q[l]
    BY <1>0, <1>3
  <2>2. k <= Len(r) /\ p[k] < r[k] /\ \A l \in 1..(k - 1) : p[l] = r[l]
    BY <1>t, <2>1, <1>3 DEF Under
  <2> QED
    BY <1>0, <2>1, <2>2
<1>4. ASSUME Before(p, q), Under(p, r) PROVE Before(r, q)
  <2>1. PICK k \in 1..Len(p) : k <= Len(q) /\ p[k] < q[k] /\ \A l \in 1..(k - 1) : p[l] = q[l]
    BY <1>0, <1>4
  <2>2. k \in 1..Len(r) /\ r[k] < q[k] /\ \A l \in 1..(k - 1) : r[l] = q[l]
    BY <1>t, <2>1, <1>4 DEF Under
  <2> QED
    BY <1>0, <2>1, <2>2
<1>5. ASSUME Before(p, q) PROVE ~Under(p, q) /\ ~Under(q, p)
  <2>1. PICK k \in 1..Len(p) : k <= Len(q) /\ p[k] < q[k] /\ \A l \in 1..(k - 1) : p[l] = q[l]
    BY <1>0, <1>5
  <2> QED
    BY <1>t, <2>1 DEF Under
<1> QED
  BY <1>1, <1>2, <1>3, <1>4, <1>5

Precedes(S) == {c \in S \X S : Before(c[1], c[2])}

(* Paths of which none is below another are put in one order.                 *)
LEMMA SortedIsInOrder ==
  ASSUME NEW S, IsFiniteSet(S), S \subseteq Seq(Nat), Apart(S)
  PROVE  /\ Sorted(S) \in Seq(S) /\ Len(Sorted(S)) = Cardinality(S) /\ Cardinality(S) \in Nat
         /\ \A k, l \in 1..Cardinality(S) : k < l <=> Before(Sorted(S)[k], Sorted(S)[l])
         /\ \A k, l \in 1..Cardinality(S) : Sorted(S)[k] = Sorted(S)[l] => k = l
         /\ \A p \in S : \E k \in 1..Cardinality(S) : p = Sorted(S)[k]
         /\ \A p \in S, k \in 1..Cardinality(S) :
              Cardinality({q \in S : Before(q, p)}) = k - 1 => p = Sorted(S)[k]
<1> DEFINE R == Precedes(S)
           e == Sorted(S)
           n == Cardinality(S)
<1>1. StrictOrder(S, R)
  <2>1. \A p \in S : <<p, p>> \notin R
    BY BeforeIsStrict DEF Precedes
  <2>2. \A p, q, r \in S : <<p, q>> \in R /\ <<q, r>> \in R => <<p, r>> \in R
    <3> SUFFICES ASSUME NEW p \in S, NEW q \in S, NEW r \in S, Before(p, q), Before(q, r) PROVE Before(p, r)
      BY DEF Precedes
    <3> QED
      BY BeforeIsStrict
  <2>3. \A p, q \in S : p # q => <<p, q>> \in R \/ <<q, p>> \in R
    <3> SUFFICES ASSUME NEW p \in S, NEW q \in S, p # q PROVE Before(p, q) \/ Before(q, p)
      BY DEF Precedes
    <3> QED
      BY FirstDifference DEF Apart
  <2> QED
    BY <2>1, <2>2, <2>3 DEF StrictOrder
<1>2. \A p \in S : Below(S, R, p) = {q \in S : Before(q, p)}
  BY DEF Below, Precedes
<1>3. \A k \in 1..n : \E p \in S : Cardinality(Below(S, R, p)) = k - 1
  BY <1>1, Ranks
<1>4. \A k \in 1..n : \E p \in S : Cardinality({q \in S : Before(q, p)}) = k - 1
  BY <1>2, <1>3
<1>5. \A k \in 1..n : e[k] \in S /\ Cardinality({q \in S : Before(q, e[k])}) = k - 1
  <2> SUFFICES ASSUME NEW k \in 1..n
               PROVE  e[k] \in S /\ Cardinality({q \in S : Before(q, e[k])}) = k - 1
    OBVIOUS
  <2>1. e[k] = CHOOSE p \in S : Cardinality({q \in S : Before(q, p)}) = k - 1
    BY DEF Sorted
  <2> QED
    BY <2>1, <1>4, Zenon
<1>6. \A k \in 1..n : e[k] \in S /\ Cardinality(Below(S, R, e[k])) = k - 1
  BY <1>2, <1>5
<1>7. e \in [1..n -> S]
  <2> DEFINE F(k) == CHOOSE p \in S : Cardinality({q \in S : Before(q, p)}) = k - 1
  <2>1. e = [k \in 1..n |-> F(k)]
    BY Zenon DEF Sorted
  <2> HIDE DEF e, F
  <2> QED
    BY <2>1, <1>6
<1> HIDE DEF e, R
<1>8. /\ e \in Seq(S) /\ Len(e) = n
      /\ \A k, l \in 1..n : k < l <=> <<e[k], e[l]>> \in R
      /\ \A k, l \in 1..n : e[k] = e[l] => k = l
      /\ \A p \in S : \E k \in 1..n : p = e[k]
  <2>1. \A k \in 1..n : Cardinality(Below(S, R, e[k])) = k - 1
    BY <1>6
  <2>2. Enumerates(e, S, R)
    BY <2>1, <1>1, <1>7, InOrder
  <2> QED
    BY <2>2 DEF Enumerates
<1>9. \A k, l \in 1..n : k < l <=> Before(e[k], e[l])
  BY <1>6, <1>8 DEF R, Precedes
<1>10. ASSUME NEW p \in S, NEW k \in 1..n, Cardinality({q \in S : Before(q, p)}) = k - 1
       PROVE  p = e[k]
  <2>1. Cardinality(Below(S, R, p)) = Cardinality(Below(S, R, e[k])) /\ e[k] \in S
    BY <1>2, <1>6, <1>10
  <2> QED
    BY <2>1, <1>1, Ranks
<1>11. n \in Nat
  BY FS_CardinalityType
<1> QED
  BY <1>8, <1>9, <1>10, <1>11 DEF e

(* A filter keeps what it should, each once, and all of it when it keeps all. *)
LEMMA KeptIsInOrder ==
  ASSUME NEW X, NEW list \in Seq(X), NEW P \in SUBSET DOMAIN list
  PROVE  /\ Kept(list, P) \in Seq(X) /\ Len(Kept(list, P)) = Cardinality(P) /\ Cardinality(P) \in Nat
         /\ \A k \in 1..Cardinality(P) : \E i \in P : Kept(list, P)[k] = list[i]
         /\ \A i \in P : \E k \in 1..Cardinality(P) : Kept(list, P)[k] = list[i]
         /\ IsInjective(list) => IsInjective(Kept(list, P))
         /\ P = DOMAIN list => Kept(list, P) = list
<1> DEFINE R == Less(P)
           n == Cardinality(P)
           e == [k \in 1..n |-> CHOOSE i \in P : Cardinality({j \in P : j < i}) = k - 1]
<1>0. DOMAIN list = 1..Len(list) /\ Len(list) \in Nat /\ P \subseteq Nat /\ \A i \in P : list[i] \in X
  OBVIOUS
<1>1. IsFiniteSet(P) /\ n \in Nat
  <2>1. IsFiniteSet(1..Len(list))
    BY <1>0, FS_Interval
  <2> QED
    BY <1>0, <2>1, FS_Subset, FS_CardinalityType
<1>2. StrictOrder(P, R)
  BY <1>0 DEF StrictOrder, Less
<1>3. \A i \in P : Below(P, R, i) = {j \in P : j < i}
  BY DEF Below, Less
<1>4. \A k \in 1..n : \E i \in P : Cardinality(Below(P, R, i)) = k - 1
  BY <1>1, <1>2, Ranks
<1>5. \A k \in 1..n : \E i \in P : Cardinality({j \in P : j < i}) = k - 1
  BY <1>3, <1>4
<1>6. \A k \in 1..n : e[k] \in P /\ Cardinality({j \in P : j < e[k]}) = k - 1
  <2> SUFFICES ASSUME NEW k \in 1..n
               PROVE  e[k] \in P /\ Cardinality({j \in P : j < e[k]}) = k - 1
    OBVIOUS
  <2>1. e[k] = CHOOSE i \in P : Cardinality({j \in P : j < i}) = k - 1
    BY Zenon
  <2> QED
    BY <2>1, <1>5, Zenon
<1>7. \A k \in 1..n : e[k] \in P /\ Cardinality(Below(P, R, e[k])) = k - 1
  BY <1>3, <1>6
<1>8. e \in [1..n -> P]
  <2> DEFINE F(k) == CHOOSE i \in P : Cardinality({j \in P : j < i}) = k - 1
  <2>1. e = [k \in 1..n |-> F(k)]
    BY Zenon
  <2> HIDE DEF e, F
  <2> QED
    BY <2>1, <1>7
<1>9. Kept(list, P) = [k \in 1..n |-> list[e[k]]]
  BY DEF Kept
<1> HIDE DEF e, R
<1>10. /\ e \in Seq(P) /\ Len(e) = n
       /\ \A k, l \in 1..n : e[k] = e[l] => k = l
       /\ \A i \in P : \E k \in 1..n : i = e[k]
  <2>1. Enumerates(e, P, R)
    BY <1>1, <1>2, <1>7, <1>8, InOrder
  <2> QED
    BY <2>1 DEF Enumerates
<1>11. Kept(list, P) \in [1..n -> X]
  BY <1>0, <1>7, <1>9
<1>12. Kept(list, P) \in Seq(X) /\ Len(Kept(list, P)) = n
  BY <1>1, <1>11, SeqDef
<1>13. IsInjective(list) => IsInjective(Kept(list, P))
  <2> SUFFICES ASSUME IsInjective(list), NEW k \in 1..n, NEW l \in 1..n, list[e[k]] = list[e[l]]
               PROVE  k = l
    BY <1>9 DEF IsInjective
  <2>1. e[k] = e[l]
    BY <1>7 DEF IsInjective
  <2> QED
    BY <2>1, <1>10
<1>14. ASSUME P = DOMAIN list PROVE Kept(list, P) = list
  <2>1. n = Len(list)
    BY <1>0, <1>14, FS_Interval
  <2>2. ASSUME NEW k \in 1..n PROVE e[k] = k
    <3>1. {j \in P : j < e[k]} = 1..(e[k] - 1)
      BY <1>0, <1>7, <1>14
    <3>2. Cardinality(1..(e[k] - 1)) = e[k] - 1
      <4>1. e[k] \in 1..Len(list)
        BY <1>0, <1>7
      <4> QED
        BY <4>1, FS_Interval
    <3>3. e[k] - 1 = k - 1 /\ e[k] \in Nat /\ k \in Nat
      <4>1. Cardinality({j \in P : j < e[k]}) = k - 1
        BY <1>3, <1>7
      <4>2. e[k] \in Nat /\ k \in Nat
        BY <1>0, <1>1, <1>7
      <4> QED
        BY <3>1, <3>2, <4>1, <4>2
    <3> QED
      BY <3>3
  <2>3. Kept(list, P) = [k \in 1..Len(list) |-> list[k]]
    BY <2>1, <2>2, <1>9
  <2> QED
    BY <2>3
<1>15. \A k \in 1..n : \E i \in P : Kept(list, P)[k] = list[i]
  BY <1>7, <1>9
<1>16. \A i \in P : \E k \in 1..n : Kept(list, P)[k] = list[i]
  BY <1>9, <1>10
<1> QED
  BY <1>1, <1>12, <1>13, <1>14, <1>15, <1>16

------------------------------------------------------------------------------
(* The folder and the walk through it.                                        *)

(* A walk gets to a path if it enters all directories on the way.             *)
Reached(p, deep) ==
  (deep \/ Len(p) = 1) /\ \A l \in 1..(Len(p) - 1) : tree[SubSeq(p, 1, l)] = "dir"

ListOK(list) == list \in Seq(DOMAIN tree) /\ IsInjective(list)
Increasing(list) == \A k, l \in 1..Len(list) : k < l => Before(list[k], list[l])

(* What is found and what is still to look at are one list in the order of the*)
(* walk, and every file that should be found is in it or below an entry of it.*)
OnTheWay(out, todo, deep) ==
  /\ out \in Seq(MediaBelow(deep)) /\ Increasing(out)
  /\ todo \in Seq(DOMAIN tree) /\ Increasing(todo)
  /\ \A k \in 1..Len(out), l \in 1..Len(todo) : Before(out[k], todo[l])
  /\ \A l \in 1..Len(todo) : Reached(todo[l], deep)
  /\ \A m \in MediaBelow(deep) :
       (\E k \in 1..Len(out) : m = out[k]) \/ \E l \in 1..Len(todo) : Under(todo[l], m)
WalkOK(w) == OnTheWay(w.out, w.todo, w.deep) /\ w.max > 0 /\ Len(w.out) <= NormalizedMax(w.max)

ImportStates ==
  [at : {"idle", "walk", "timer", "input"}, todo : Seq(DOMAIN tree), out : Seq(DOMAIN tree),
   deep : BOOLEAN, max : Nat]
ImportOK(w) ==
  /\ w.at = "idle" => w = NoImport
  /\ w.at = "walk" => WalkOK(w)
  /\ w.at = "timer" => ListOK(w.out)

(* One import at a time: what it is to bring is what is wanted.               *)
OneByOne ==
  /\ \A i, j \in Imports : imports[i] # NoImport /\ imports[j] # NoImport => i = j
  /\ waits <=> \E i \in Imports : imports[i].at = "timer"
  /\ waits => files = <<>>
  /\ \A i \in Imports : /\ imports[i].at = "walk" => wanted = FoundBy(imports[i].deep, imports[i].max)
                        /\ imports[i].at = "timer" => wanted = imports[i].out
  /\ (\A i \in Imports : imports[i].at \notin {"walk", "timer"}) => wanted \in {<<>>, files}

FilesInv ==
  /\ TreeOK(tree) /\ ListOK(files) /\ waits \in BOOLEAN /\ tangled \in BOOLEAN
  /\ front \in {"main-empty", "main-files", "other"} /\ picks \in 0..MaxImports
  /\ imports \in [Imports -> ImportStates]
  /\ \A i \in Imports : ImportOK(imports[i])
  /\ ~tangled => OneByOne

LEMMA CutIsAbove ==
  ASSUME NEW q \in Seq(Nat), NEW l \in 0..Len(q)
  PROVE  /\ SubSeq(q, 1, l) \in Seq(Nat) /\ Len(SubSeq(q, 1, l)) = l
         /\ \A j \in 1..l : SubSeq(q, 1, l)[j] = q[j]
         /\ Under(SubSeq(q, 1, l), q)
         /\ \A p \in Seq(Nat) : Under(p, q) /\ Len(p) = l => p = SubSeq(q, 1, l)
<1> DEFINE c == SubSeq(q, 1, l)
<1>1. c = [j \in 1..l |-> q[j]]
  OBVIOUS
<1>2. c \in Seq(Nat) /\ Len(c) = l
  BY <1>1
<1> HIDE DEF c
<1>3. \A j \in 1..l : c[j] = q[j]
  BY <1>1
<1>4. Under(c, q)
  BY <1>2, <1>3 DEF Under
<1>5. ASSUME NEW p \in Seq(Nat), Under(p, q), Len(p) = l PROVE p = c
  BY <1>1, <1>5 DEF Under
<1> QED
  BY <1>2, <1>3, <1>4, <1>5 DEF c

(* What has something below it is a directory; files are never below another. *)
LEMMA AboveIsDirectory ==
  ASSUME TreeOK(tree), NEW p \in DOMAIN tree, NEW q \in DOMAIN tree, Under(p, q), p # q
  PROVE  /\ Len(p) \in 1..(Len(q) - 1) /\ p = SubSeq(q, 1, Len(p))
         /\ tree[p] \in {"dir", "skipped", "locked"}
<1>1. p \in Seq(Nat) /\ q \in Seq(Nat) /\ p # <<>> /\ Len(p) \in Nat /\ Len(q) \in Nat
  BY DEF TreeOK, Paths
<1>2. Len(p) <= Len(q)
  BY DEF Under
<1>3. p = SubSeq(q, 1, Len(p))
  BY <1>1, <1>2, CutIsAbove
<1>4. Len(p) # Len(q)
  <2> SUFFICES ASSUME Len(p) = Len(q) PROVE FALSE
    OBVIOUS
  <2>1. Under(q, q)
    BY <1>1 DEF Under
  <2>2. q = SubSeq(q, 1, Len(q))
    BY <1>1, <2>1, CutIsAbove
  <2> QED
    BY <1>3, <2>2
<1>5. Len(p) \in 1..(Len(q) - 1)
  BY <1>1, <1>2, <1>4
<1> QED
  BY <1>3, <1>5 DEF TreeOK

LEMMA FilesAreApart ==
  ASSUME TreeOK(tree), NEW S \in SUBSET {p \in DOMAIN tree : tree[p] \in {"media", "other"}}
  PROVE  IsFiniteSet(S) /\ S \subseteq Seq(Nat) /\ Apart(S)
<1>1. IsFiniteSet(S)
  BY FS_Subset DEF TreeOK
<1>2. S \subseteq Seq(Nat)
  BY DEF TreeOK, Paths
<1>3. ASSUME NEW p \in S, NEW q \in S, Under(p, q) PROVE p = q
  BY <1>3, AboveIsDirectory
<1> QED
  BY <1>1, <1>2, <1>3 DEF Apart

Children(dir) == {p \in DOMAIN tree : Len(p) = Len(dir) + 1 /\ IsPrefix(dir, p)}

LEMMA EntriesAreChildren ==
  ASSUME TreeOK(tree), NEW dir \in Seq(Nat)
  PROVE  /\ Entries(dir) \in Seq(DOMAIN tree) /\ Increasing(Entries(dir)) /\ IsInjective(Entries(dir))
         /\ \A k \in DOMAIN Entries(dir) : Under(dir, Entries(dir)[k]) /\ Len(Entries(dir)[k]) = Len(dir) + 1
         /\ \A p \in DOMAIN tree : Len(p) = Len(dir) + 1 /\ Under(dir, p) =>
              \E k \in DOMAIN Entries(dir) : p = Entries(dir)[k]
<1> DEFINE S == Children(dir)
           e == Entries(dir)
<1>1. IsFiniteSet(S) /\ S \subseteq DOMAIN tree
  <2>1. S \in SUBSET DOMAIN tree
    BY DEF Children
  <2> QED
    BY <2>1, FS_Subset DEF TreeOK
<1>2. S \subseteq Seq(Nat)
  BY <1>1 DEF TreeOK, Paths
<1>3. \A p \in S : Len(p) = Len(dir) + 1 /\ Under(dir, p)
  <2> SUFFICES ASSUME NEW p \in S PROVE Len(p) = Len(dir) + 1 /\ Under(dir, p)
    OBVIOUS
  <2>1. p \in Seq(Nat) /\ Len(p) = Len(dir) + 1 /\ SubSeq(dir, 1, Len(dir)) = SubSeq(p, 1, Len(dir))
    BY <1>2 DEF Children, IsPrefix
  <2>2. dir = SubSeq(dir, 1, Len(dir))
    <3>1. Under(dir, dir) /\ Len(dir) \in 0..Len(dir)
      BY DEF Under
    <3> QED
      BY <3>1, CutIsAbove
  <2>3. Len(dir) \in 0..Len(p)
    BY <2>1
  <2>4. Under(SubSeq(p, 1, Len(dir)), p)
    BY <2>1, <2>3, CutIsAbove
  <2> QED
    BY <2>1, <2>2, <2>4
<1>4. \A p \in DOMAIN tree : Len(p) = Len(dir) + 1 /\ Under(dir, p) => p \in S
  <2> SUFFICES ASSUME NEW p \in DOMAIN tree, Len(p) = Len(dir) + 1, Under(dir, p) PROVE p \in S
    OBVIOUS
  <2>1. p \in Seq(Nat) /\ Len(dir) \in 0..Len(p) /\ Len(dir) \in 0..Len(dir)
    BY DEF TreeOK, Paths
  <2>2. dir = SubSeq(p, 1, Len(dir))
    BY <2>1, CutIsAbove
  <2>3. dir = SubSeq(dir, 1, Len(dir))
    <3>1. Under(dir, dir)
      BY DEF Under
    <3> QED
      BY <2>1, <3>1, CutIsAbove
  <2> QED
    BY <2>1, <2>2, <2>3 DEF Children, IsPrefix
<1>5. Apart(S)
  <2> SUFFICES ASSUME NEW p \in S, NEW q \in S, Under(p, q) PROVE p = q
    BY DEF Apart
  <2>1. Len(p) = Len(q) /\ p \in Seq(Nat) /\ q \in Seq(Nat)
    BY <1>2, <1>3
  <2>2. Under(q, q) /\ Len(q) \in 0..Len(q)
    BY <2>1 DEF Under
  <2> QED
    BY <2>1, <2>2, CutIsAbove
<1>6. e = Sorted(S)
  BY DEF Entries, Children
<1> HIDE DEF S, e
<1>7. /\ e \in Seq(S) /\ Len(e) = Cardinality(S)
      /\ \A k, l \in 1..Cardinality(S) : k < l <=> Before(e[k], e[l])
      /\ \A k, l \in 1..Cardinality(S) : e[k] = e[l] => k = l
      /\ \A p \in S : \E k \in 1..Cardinality(S) : p = e[k]
  BY <1>1, <1>2, <1>5, <1>6, SortedIsInOrder
<1>8. DOMAIN e = 1..Cardinality(S) /\ \A k \in DOMAIN e : e[k] \in S
  BY <1>7
<1>9. e \in Seq(DOMAIN tree)
  BY <1>1, <1>7, SeqDef
<1>10. Increasing(e) /\ IsInjective(e)
  BY <1>7, <1>8 DEF Increasing, IsInjective
<1>11. \A k \in DOMAIN e : Under(dir, e[k]) /\ Len(e[k]) = Len(dir) + 1
  BY <1>3, <1>8
<1>12. \A p \in DOMAIN tree : Len(p) = Len(dir) + 1 /\ Under(dir, p) => \E k \in DOMAIN e : p = e[k]
  BY <1>4, <1>7, <1>8
<1> QED
  BY <1>9, <1>10, <1>11, <1>12 DEF e

(* What a walk should find: files that it reaches.                            *)
LEMMA MediaAreReached ==
  ASSUME TreeOK(tree), NEW deep \in BOOLEAN
  PROVE  /\ \A p \in DOMAIN tree : p \in MediaBelow(deep) <=> tree[p] = "media" /\ Reached(p, deep)
         /\ MediaBelow(deep) \subseteq DOMAIN tree
         /\ IsFiniteSet(MediaBelow(deep)) /\ MediaBelow(deep) \subseteq Paths /\ Apart(MediaBelow(deep))
<1>1. \A p \in DOMAIN tree : p \in MediaBelow(deep) <=> tree[p] = "media" /\ Reached(p, deep)
  BY DEF MediaBelow, Reached
<1>2. MediaBelow(deep) \in SUBSET {p \in DOMAIN tree : tree[p] \in {"media", "other"}}
  BY DEF MediaBelow
<1>3. IsFiniteSet(MediaBelow(deep)) /\ Apart(MediaBelow(deep))
  BY <1>2, FilesAreApart
<1> QED
  BY <1>1, <1>2, <1>3 DEF TreeOK

(* The rest of a list.                                                        *)
LEMMA RestOfList ==
  ASSUME NEW X, NEW list \in Seq(X), list # <<>>
  PROVE  /\ Head(list) = list[1] /\ 1 \in 1..Len(list) /\ Head(list) \in X
         /\ Tail(list) \in Seq(X) /\ Len(Tail(list)) = Len(list) - 1
         /\ \A l \in 1..Len(Tail(list)) : l + 1 \in 1..Len(list) /\ Tail(list)[l] = list[l + 1]
         /\ \A l \in 1..Len(list) : l = 1 \/ (l - 1 \in 1..Len(Tail(list)) /\ list[l] = Tail(list)[l - 1])
<1>1. Len(list) \in Nat /\ Len(list) > 0 /\ \A l \in 1..Len(list) : list[l] \in X
  OBVIOUS
<1>2. Head(list) = list[1] /\ 1 \in 1..Len(list) /\ Head(list) \in X
  BY <1>1
<1>3. Tail(list) \in Seq(X) /\ Len(Tail(list)) = Len(list) - 1
  OBVIOUS
<1>4. ASSUME NEW l \in 1..Len(Tail(list)) PROVE l + 1 \in 1..Len(list) /\ Tail(list)[l] = list[l + 1]
  BY <1>1, <1>3
<1>5. ASSUME NEW l \in 1..Len(list), l # 1
      PROVE  l - 1 \in 1..Len(Tail(list)) /\ list[l] = Tail(list)[l - 1]
  <2>1. l - 1 \in 1..Len(Tail(list)) /\ l - 1 + 1 = l
    BY <1>1, <1>3, <1>5
  <2> QED
    BY <2>1, <1>4
<1> QED
  BY <1>2, <1>3, <1>4, <1>5

(* What is left is in order, behind what was found and reached.               *)
LEMMA RestIsOnTheWay ==
  ASSUME NEW out, NEW todo, NEW deep, OnTheWay(out, todo, deep), todo # <<>>
  PROVE  /\ Head(todo) \in DOMAIN tree /\ Tail(todo) \in Seq(DOMAIN tree) /\ Increasing(Tail(todo))
         /\ Reached(Head(todo), deep)
         /\ \A k \in 1..Len(out) : Before(out[k], Head(todo))
         /\ \A l \in 1..Len(Tail(todo)) : Before(Head(todo), Tail(todo)[l]) /\ Reached(Tail(todo)[l], deep)
         /\ \A k \in 1..Len(out), l \in 1..Len(Tail(todo)) : Before(out[k], Tail(todo)[l])
         /\ \A m \in MediaBelow(deep) :
              \/ \E k \in 1..Len(out) : m = out[k]
              \/ Under(Head(todo), m)
              \/ \E l \in 1..Len(Tail(todo)) : Under(Tail(todo)[l], m)
<1> DEFINE rest == Tail(todo)
           p == Head(todo)
<1>0. todo \in Seq(DOMAIN tree)
  BY DEF OnTheWay
<1>1. /\ p = todo[1] /\ 1 \in 1..Len(todo) /\ p \in DOMAIN tree
      /\ rest \in Seq(DOMAIN tree) /\ Len(rest) = Len(todo) - 1
      /\ \A l \in 1..Len(rest) : l + 1 \in 1..Len(todo) /\ rest[l] = todo[l + 1]
      /\ \A l \in 1..Len(todo) : l = 1 \/ (l - 1 \in 1..Len(rest) /\ todo[l] = rest[l - 1])
  BY <1>0, RestOfList
<1>t. Len(todo) \in Nat /\ Len(rest) \in Nat
  BY <1>0, <1>1
<1> HIDE DEF rest, p
<1>2. Increasing(rest)
  <2> SUFFICES ASSUME NEW k \in 1..Len(rest), NEW l \in 1..Len(rest), k < l PROVE Before(rest[k], rest[l])
    BY DEF Increasing
  <2>1. k + 1 < l + 1 /\ k + 1 \in 1..Len(todo) /\ l + 1 \in 1..Len(todo)
    BY <1>1, <1>t
  <2>2. Before(todo[k + 1], todo[l + 1])
    BY <2>1 DEF OnTheWay, Increasing
  <2> QED
    BY <2>2, <1>1
<1>3. \A l \in 1..Len(rest) : Before(p, rest[l]) /\ Reached(rest[l], deep)
  <2> SUFFICES ASSUME NEW l \in 1..Len(rest) PROVE Before(p, rest[l]) /\ Reached(rest[l], deep)
    OBVIOUS
  <2>1. 1 < l + 1 /\ 1 \in 1..Len(todo) /\ l + 1 \in 1..Len(todo)
    BY <1>1, <1>t
  <2>2. Before(todo[1], todo[l + 1]) /\ Reached(todo[l + 1], deep)
    BY <2>1 DEF OnTheWay, Increasing
  <2> QED
    BY <2>2, <1>1
<1>4. Reached(p, deep) /\ \A k \in 1..Len(out) : Before(out[k], p)
  BY <1>1 DEF OnTheWay
<1>5. \A k \in 1..Len(out), l \in 1..Len(rest) : Before(out[k], rest[l])
  BY <1>1 DEF OnTheWay
<1>6. ASSUME NEW m \in MediaBelow(deep)
      PROVE  \/ \E k \in 1..Len(out) : m = out[k]
             \/ Under(p, m)
             \/ \E l \in 1..Len(rest) : Under(rest[l], m)
  <2>1. CASE \E k \in 1..Len(out) : m = out[k]
    BY <2>1
  <2>2. CASE \E l \in 1..Len(todo) : Under(todo[l], m)
    <3>1. PICK l \in 1..Len(todo) : Under(todo[l], m)
      BY <2>2
    <3>2. l = 1 \/ (l - 1 \in 1..Len(rest) /\ todo[l] = rest[l - 1])
      BY <1>1
    <3> QED
      BY <1>1, <3>1, <3>2
  <2> QED
    BY <2>1, <2>2 DEF OnTheWay
<1> QED
  BY <1>1, <1>2, <1>3, <1>4, <1>5, <1>6 DEF rest, p

(* A walk begins with the entries of the folder.                              *)
LEMMA WalkBegins ==
  ASSUME TreeOK(tree), NEW deep \in BOOLEAN
  PROVE  OnTheWay(<<>>, Entries(<<>>), deep)
<1> DEFINE e == Entries(<<>>)
<1>1. /\ e \in Seq(DOMAIN tree) /\ Increasing(e)
      /\ \A k \in DOMAIN e : Under(<<>>, e[k]) /\ Len(e[k]) = Len(<<>>) + 1
      /\ \A p \in DOMAIN tree : Len(p) = Len(<<>>) + 1 /\ Under(<<>>, p) => \E k \in DOMAIN e : p = e[k]
  <2>1. <<>> \in Seq(Nat)
    OBVIOUS
  <2> QED
    BY <2>1, EntriesAreChildren
<1>2. DOMAIN e = 1..Len(e) /\ Len(<<>>) = 0
  BY <1>1
<1> HIDE DEF e
<1>3. <<>> \in Seq(MediaBelow(deep)) /\ Increasing(<<>>)
  BY DEF Increasing
<1>4. \A l \in 1..Len(e) : Reached(e[l], deep)
  <2> SUFFICES ASSUME NEW l \in 1..Len(e) PROVE Reached(e[l], deep)
    OBVIOUS
  <2>1. Len(e[l]) = 1
    BY <1>1, <1>2
  <2> QED
    BY <2>1 DEF Reached
<1>5. ASSUME NEW m \in MediaBelow(deep) PROVE \E l \in 1..Len(e) : Under(e[l], m)
  <2>0. Len(m) \in Nat /\ Len(m) > 0
    <3>1. m \in Seq(Nat) /\ m # <<>>
      BY MediaAreReached DEF Paths
    <3> QED
      BY <3>1
  <2>1. m \in DOMAIN tree /\ m \in Seq(Nat) /\ m # <<>> /\ Len(m) \in Nat /\ Len(m) > 0
    BY MediaAreReached DEF Paths
  <2> DEFINE c == SubSeq(m, 1, 1)
  <2>2. 1 \in 0..Len(m)
    BY <2>1
  <2>3. c \in Seq(Nat) /\ Len(c) = 1 /\ Under(c, m) /\ \A p \in Seq(Nat) : Under(p, m) /\ Len(p) = 1 => p = c
    BY <2>1, <2>2, CutIsAbove
  <2>4. c \in DOMAIN tree
    <3>1. CASE Len(m) = 1
      <4>1. Under(m, m)
        BY <2>1 DEF Under
      <4> QED
        BY <2>1, <2>3, <3>1, <4>1
    <3>2. CASE Len(m) > 1
      <4>1. 1 \in 1..(Len(m) - 1)
        BY <2>0, <3>2
      <4> QED
        BY <2>1, <4>1 DEF TreeOK
    <3>3. \A n \in Nat : n > 0 => n = 1 \/ n > 1
      OBVIOUS
    <3> HIDE DEF c
    <3> QED
      BY <2>0, <3>1, <3>2, <3>3
  <2>5. Under(<<>>, c)
    BY <2>3 DEF Under
  <2> HIDE DEF c
  <2> QED
    BY <1>1, <1>2, <2>3, <2>4, <2>5
<1> QED
  BY <1>1, <1>3, <1>4, <1>5 DEF OnTheWay, e

(* A file is taken.                                                           *)
LEMMA TakesMedia ==
  ASSUME TreeOK(tree), NEW deep \in BOOLEAN, NEW out, NEW todo, OnTheWay(out, todo, deep),
         todo # <<>>, tree[Head(todo)] = "media"
  PROVE  OnTheWay(Append(out, Head(todo)), Tail(todo), deep)
<1> DEFINE rest == Tail(todo)
           p == Head(todo)
           M == MediaBelow(deep)
           o == Append(out, p)
<1>1. /\ p \in DOMAIN tree /\ rest \in Seq(DOMAIN tree) /\ Increasing(rest)
      /\ Reached(p, deep)
      /\ \A k \in 1..Len(out) : Before(out[k], p)
      /\ \A l \in 1..Len(rest) : Before(p, rest[l]) /\ Reached(rest[l], deep)
      /\ \A k \in 1..Len(out), l \in 1..Len(rest) : Before(out[k], rest[l])
      /\ \A m \in M : \/ \E k \in 1..Len(out) : m = out[k]
                      \/ Under(p, m)
                      \/ \E l \in 1..Len(rest) : Under(rest[l], m)
  BY RestIsOnTheWay
<1>2. p \in M
  BY <1>1, MediaAreReached
<1>3. out \in Seq(M) /\ Increasing(out)
  BY DEF OnTheWay
<1> HIDE DEF rest, p, M
<1>4. /\ o \in Seq(M) /\ Len(o) = Len(out) + 1 /\ Len(out) \in Nat
      /\ \A k \in 1..Len(out) : o[k] = out[k]
      /\ o[Len(out) + 1] = p
  BY <1>2, <1>3
<1> HIDE DEF o
<1>5. \A k \in 1..Len(o) : k \in 1..Len(out) \/ k = Len(out) + 1
  BY <1>4
<1>6. Increasing(o)
  <2> SUFFICES ASSUME NEW k \in 1..Len(o), NEW l \in 1..Len(o), k < l PROVE Before(o[k], o[l])
    BY DEF Increasing
  <2>1. k \in 1..Len(out)
    BY <1>4
  <2>2. CASE l \in 1..Len(out)
    BY <1>3, <1>4, <2>1, <2>2 DEF Increasing
  <2>3. CASE l = Len(out) + 1
    BY <1>1, <1>4, <2>1, <2>3
  <2> QED
    BY <1>5, <2>2, <2>3
<1>7. \A k \in 1..Len(o), l \in 1..Len(rest) : Before(o[k], rest[l])
  BY <1>1, <1>4, <1>5
<1>8. ASSUME NEW m \in M
      PROVE  (\E k \in 1..Len(o) : m = o[k]) \/ \E l \in 1..Len(rest) : Under(rest[l], m)
  <2>1. CASE \E k \in 1..Len(out) : m = out[k]
    BY <1>4, <2>1
  <2>2. CASE Under(p, m)
    <3>1. p = m
      BY <2>2, <1>2, MediaAreReached DEF Apart, M
    <3>2. Len(out) + 1 \in 1..Len(o)
      BY <1>4
    <3> QED
      BY <3>1, <3>2, <1>4
  <2> QED
    BY <1>1, <2>1, <2>2
<1>9. OnTheWay(o, rest, deep)
  BY <1>1, <1>4, <1>6, <1>7, <1>8 DEF OnTheWay, M
<1> QED
  BY <1>9 DEF o, p, rest

LEMMA JoinedLists ==
  ASSUME NEW X, NEW a \in Seq(X), NEW b \in Seq(X)
  PROVE  /\ a \o b \in Seq(X) /\ Len(a) \in Nat /\ Len(b) \in Nat /\ Len(a \o b) = Len(a) + Len(b)
         /\ \A l \in 1..Len(a) : l \in 1..Len(a \o b) /\ (a \o b)[l] = a[l]
         /\ \A l \in 1..Len(b) : Len(a) + l \in 1..Len(a \o b) /\ (a \o b)[Len(a) + l] = b[l]
         /\ \A l \in 1..Len(a \o b) :
              \/ l \in 1..Len(a) /\ (a \o b)[l] = a[l]
              \/ l > Len(a) /\ l - Len(a) \in 1..Len(b) /\ (a \o b)[l] = b[l - Len(a)]
<1>1. a \o b \in Seq(X) /\ Len(a) \in Nat /\ Len(b) \in Nat /\ Len(a \o b) = Len(a) + Len(b)
  OBVIOUS
<1>2. ASSUME NEW l \in 1..Len(a) PROVE l \in 1..Len(a \o b) /\ (a \o b)[l] = a[l]
  BY <1>1
<1>3. ASSUME NEW l \in 1..Len(a \o b), l > Len(a)
      PROVE  l - Len(a) \in 1..Len(b) /\ (a \o b)[l] = b[l - Len(a)]
  BY <1>1, <1>3
<1>4. ASSUME NEW l \in 1..Len(b) PROVE Len(a) + l \in 1..Len(a \o b) /\ (a \o b)[Len(a) + l] = b[l]
  <2>1. Len(a) + l \in 1..Len(a \o b) /\ Len(a) + l > Len(a) /\ Len(a) + l - Len(a) = l
    BY <1>1
  <2> QED
    BY <2>1, <1>3
<1>5. \A l \in 1..Len(a \o b) : l \in 1..Len(a) \/ l > Len(a)
  BY <1>1
<1> QED
  BY <1>1, <1>2, <1>3, <1>4, <1>5

LEMMA CutOfAbove ==
  ASSUME NEW p \in Seq(Nat), NEW q \in Seq(Nat), Under(p, q), NEW l \in 0..Len(p)
  PROVE  SubSeq(q, 1, l) = SubSeq(p, 1, l)
<1> DEFINE c == SubSeq(p, 1, l)
<1>1. Len(p) \in Nat /\ Len(q) \in Nat /\ Len(p) <= Len(q) /\ \A j \in 1..Len(p) : q[j] = p[j]
  BY DEF Under
<1>2. c \in Seq(Nat) /\ Len(c) = l /\ \A j \in 1..l : c[j] = p[j]
  BY CutIsAbove
<1> HIDE DEF c
<1>3. Under(c, q) /\ l \in 0..Len(q)
  <2>1. l \in 0..Len(q) /\ l <= Len(p)
    BY <1>1
  <2>2. \A j \in 1..l : j \in 1..Len(p)
    BY <1>1
  <2> QED
    BY <1>1, <1>2, <2>1, <2>2 DEF Under
<1> QED
  BY <1>2, <1>3, CutIsAbove DEF c

(* A directory is entered: what is below it comes before the rest.            *)
LEMMA EntersDirectory ==
  ASSUME TreeOK(tree), NEW deep \in BOOLEAN, deep, NEW out, NEW todo, OnTheWay(out, todo, deep),
         todo # <<>>, tree[Head(todo)] = "dir"
  PROVE  OnTheWay(out, Entries(Head(todo)) \o Tail(todo), deep)
<1> DEFINE rest == Tail(todo)
           p == Head(todo)
           M == MediaBelow(deep)
           e == Entries(p)
           t == e \o rest
<1>1. /\ p \in DOMAIN tree /\ rest \in Seq(DOMAIN tree) /\ Increasing(rest)
      /\ Reached(p, deep)
      /\ \A k \in 1..Len(out) : Before(out[k], p)
      /\ \A l \in 1..Len(rest) : Before(p, rest[l]) /\ Reached(rest[l], deep)
      /\ \A k \in 1..Len(out), l \in 1..Len(rest) : Before(out[k], rest[l])
      /\ \A m \in M : \/ \E k \in 1..Len(out) : m = out[k]
                      \/ Under(p, m)
                      \/ \E l \in 1..Len(rest) : Under(rest[l], m)
  BY RestIsOnTheWay
<1>2. out \in Seq(M) /\ Increasing(out)
  BY DEF OnTheWay
<1>3. DOMAIN tree \subseteq Seq(Nat) /\ M \subseteq DOMAIN tree
  BY MediaAreReached DEF TreeOK, Paths
<1>4. /\ e \in Seq(DOMAIN tree) /\ Increasing(e)
      /\ \A k \in DOMAIN e : Under(p, e[k]) /\ Len(e[k]) = Len(p) + 1
      /\ \A q \in DOMAIN tree : Len(q) = Len(p) + 1 /\ Under(p, q) => \E k \in DOMAIN e : q = e[k]
  BY <1>1, <1>3, EntriesAreChildren
<1>5. tree[p] = "dir"
  OBVIOUS
<1> HIDE DEF rest, p, M, e
<1>6. DOMAIN e = 1..Len(e) /\ Len(e) \in Nat /\ \A k \in 1..Len(e) : e[k] \in DOMAIN tree
  BY <1>4
<1>t. /\ \A l \in 1..Len(rest) : rest[l] \in DOMAIN tree /\ rest[l] \in Seq(Nat)
      /\ \A k \in 1..Len(out) : out[k] \in DOMAIN tree /\ out[k] \in Seq(Nat)
      /\ \A k \in 1..Len(e) : e[k] \in Seq(Nat)
      /\ p \in Seq(Nat) /\ Len(p) \in Nat
  BY <1>1, <1>2, <1>3, <1>6
<1>7. /\ t \in Seq(DOMAIN tree) /\ Len(e) \in Nat /\ Len(rest) \in Nat /\ Len(t) = Len(e) + Len(rest)
      /\ \A l \in 1..Len(e) : l \in 1..Len(t) /\ t[l] = e[l]
      /\ \A l \in 1..Len(rest) : Len(e) + l \in 1..Len(t) /\ t[Len(e) + l] = rest[l]
      /\ \A l \in 1..Len(t) : \/ l \in 1..Len(e) /\ t[l] = e[l]
                              \/ l > Len(e) /\ l - Len(e) \in 1..Len(rest) /\ t[l] = rest[l - Len(e)]
  BY <1>1, <1>4, JoinedLists
<1> HIDE DEF t
<1>8. \A k \in 1..Len(e), l \in 1..Len(rest) : Before(e[k], rest[l])
  <2> SUFFICES ASSUME NEW k \in 1..Len(e), NEW l \in 1..Len(rest) PROVE Before(e[k], rest[l])
    OBVIOUS
  <2>1. Before(p, rest[l]) /\ Under(p, e[k])
    BY <1>1, <1>4, <1>6
  <2> QED
    BY <2>1, <1>t, BeforeIsStrict
<1>9. \A k \in 1..Len(out), l \in 1..Len(e) : Before(out[k], e[l])
  <2> SUFFICES ASSUME NEW k \in 1..Len(out), NEW l \in 1..Len(e) PROVE Before(out[k], e[l])
    OBVIOUS
  <2>1. Before(out[k], p) /\ Under(p, e[l])
    BY <1>1, <1>4, <1>6
  <2> QED
    BY <2>1, <1>t, BeforeIsStrict
<1>10. Increasing(t)
  <2> SUFFICES ASSUME NEW k \in 1..Len(t), NEW l \in 1..Len(t), k < l PROVE Before(t[k], t[l])
    BY DEF Increasing
  <2>1. CASE k \in 1..Len(e) /\ l \in 1..Len(e)
    BY <1>4, <1>7, <2>1 DEF Increasing
  <2>2. CASE k \in 1..Len(e) /\ l > Len(e)
    <3>1. l - Len(e) \in 1..Len(rest) /\ t[l] = rest[l - Len(e)] /\ t[k] = e[k]
      BY <1>7, <2>2
    <3> QED
      BY <1>8, <2>2, <3>1
  <2>3. CASE k > Len(e)
    <3>1. /\ l - Len(e) \in 1..Len(rest) /\ t[l] = rest[l - Len(e)]
          /\ k - Len(e) \in 1..Len(rest) /\ t[k] = rest[k - Len(e)]
          /\ k - Len(e) < l - Len(e)
      BY <1>7, <2>3
    <3> QED
      BY <1>1, <3>1 DEF Increasing
  <2> QED
    BY <1>7, <2>1, <2>2, <2>3
<1>11. \A k \in 1..Len(out), l \in 1..Len(t) : Before(out[k], t[l])
  BY <1>1, <1>7, <1>9
<1>12. \A k \in 1..Len(e) : Reached(e[k], deep)
  <2> SUFFICES ASSUME NEW k \in 1..Len(e), NEW l \in 1..(Len(e[k]) - 1) PROVE tree[SubSeq(e[k], 1, l)] = "dir"
    BY DEF Reached
  <2>0. Under(p, e[k]) /\ Len(e[k]) = Len(p) + 1 /\ Len(p) \in Nat
    BY <1>4, <1>6, <1>t
  <2>1. l \in 0..Len(p) /\ Len(p) \in 0..Len(p) /\ Under(p, e[k]) /\ Len(e[k]) = Len(p) + 1
    BY <2>0
  <2>2. SubSeq(e[k], 1, l) = SubSeq(p, 1, l)
    BY <1>t, <2>1, CutOfAbove
  <2>3. CASE l < Len(p)
    <3>1. l \in 1..(Len(p) - 1)
      BY <2>1, <2>3, <1>t
    <3> QED
      BY <1>1, <2>2, <3>1 DEF Reached
  <2>4. CASE l = Len(p)
    <3>1. Under(p, p)
      BY <1>t DEF Under
    <3>2. p = SubSeq(p, 1, Len(p))
      BY <1>t, <2>1, <3>1, CutIsAbove
    <3> QED
      BY <1>5, <2>2, <2>4, <3>2
  <2> QED
    BY <2>1, <2>3, <2>4, <1>t
<1>13. \A l \in 1..Len(t) : Reached(t[l], deep)
  BY <1>1, <1>7, <1>12
<1>14. ASSUME NEW m \in M
       PROVE  (\E k \in 1..Len(out) : m = out[k]) \/ \E l \in 1..Len(t) : Under(t[l], m)
  <2>1. CASE \E k \in 1..Len(out) : m = out[k]
    BY <2>1
  <2>2. CASE \E l \in 1..Len(rest) : Under(rest[l], m)
    BY <1>7, <2>2
  <2>3. CASE Under(p, m)
    <3>1. m \in DOMAIN tree /\ m \in Seq(Nat) /\ m # p /\ Len(m) \in Nat
      <4>1. m \in DOMAIN tree /\ m \in Seq(Nat)
        BY <1>3
      <4>2. tree[m] = "media"
        BY <4>1, MediaAreReached DEF M
      <4> QED
        BY <1>5, <4>1, <4>2
    <3>2. Len(p) \in 1..(Len(m) - 1)
      BY <1>1, <2>3, <3>1, AboveIsDirectory
    <3> DEFINE c == SubSeq(m, 1, Len(p) + 1)
    <3>3. Len(p) + 1 \in 0..Len(m)
      BY <3>1, <3>2
    <3>4. /\ c \in Seq(Nat) /\ Len(c) = Len(p) + 1 /\ Under(c, m) /\ \A j \in 1..(Len(p) + 1) : c[j] = m[j]
          /\ \A q \in Seq(Nat) : Under(q, m) /\ Len(q) = Len(p) + 1 => q = c
      BY <3>1, <3>3, CutIsAbove
    <3>5. Under(p, c)
      <4> HIDE DEF c
      <4>1. Len(p) <= Len(c) /\ \A j \in 1..Len(p) : j \in 1..(Len(p) + 1)
        BY <1>t, <3>4
      <4>2. \A j \in 1..Len(p) : m[j] = p[j]
        BY <2>3 DEF Under
      <4> QED
        BY <3>4, <4>1, <4>2 DEF Under
    <3>6. c \in DOMAIN tree
      <4>1. CASE Len(p) + 1 = Len(m)
        <5>1. Under(m, m)
          BY <3>1 DEF Under
        <5> QED
          BY <3>1, <3>4, <4>1, <5>1
      <4>2. CASE Len(p) + 1 < Len(m)
        <5>1. Len(p) + 1 \in 1..(Len(m) - 1)
          BY <1>t, <3>1, <4>2
        <5> QED
          BY <3>1, <5>1 DEF TreeOK
      <4>3. Len(p) + 1 = Len(m) \/ Len(p) + 1 < Len(m)
        BY <3>1, <3>2, <1>t
      <4> QED
        BY <4>1, <4>2, <4>3
    <3> HIDE DEF c
    <3>7. PICK k \in 1..Len(e) : c = e[k]
      BY <1>4, <1>6, <3>4, <3>5, <3>6
    <3> QED
      BY <1>7, <3>4, <3>7
  <2> QED
    BY <1>1, <2>1, <2>2, <2>3
<1>15. OnTheWay(out, t, deep)
  BY <1>2, <1>7, <1>10, <1>11, <1>13, <1>14 DEF OnTheWay, M
<1> QED
  BY <1>15 DEF t, e, p, rest

(* Whatever else is passed over: nothing that is wanted lies below it.        *)
LEMMA PassesOver ==
  ASSUME TreeOK(tree), NEW deep \in BOOLEAN, NEW out, NEW todo, OnTheWay(out, todo, deep),
         todo # <<>>, tree[Head(todo)] # "media", ~(deep /\ tree[Head(todo)] = "dir")
  PROVE  OnTheWay(out, Tail(todo), deep)
<1> DEFINE rest == Tail(todo)
           p == Head(todo)
           M == MediaBelow(deep)
<1>1. /\ p \in DOMAIN tree /\ rest \in Seq(DOMAIN tree) /\ Increasing(rest)
      /\ \A l \in 1..Len(rest) : Reached(rest[l], deep)
      /\ \A k \in 1..Len(out), l \in 1..Len(rest) : Before(out[k], rest[l])
      /\ \A m \in M : \/ \E k \in 1..Len(out) : m = out[k]
                      \/ Under(p, m)
                      \/ \E l \in 1..Len(rest) : Under(rest[l], m)
  BY RestIsOnTheWay
<1>2. ASSUME NEW m \in M, Under(p, m) PROVE FALSE
  <2>1. m \in DOMAIN tree /\ tree[m] = "media" /\ Reached(m, deep)
    BY MediaAreReached
  <2>2. Len(p) \in 1..(Len(m) - 1) /\ p = SubSeq(m, 1, Len(p))
    BY <1>1, <1>2, <2>1, AboveIsDirectory
  <2>3. Len(m) \in Nat
    BY <2>1 DEF TreeOK, Paths
  <2>4. Len(m) # 1
    <3>1. \A a, n \in Nat : a \in 1..(n - 1) => n # 1
      OBVIOUS
    <3>2. Len(p) \in Nat
      BY <1>1 DEF TreeOK, Paths
    <3> HIDE DEF p
    <3> QED
      BY <2>2, <2>3, <3>1, <3>2
  <2>5. deep /\ tree[SubSeq(m, 1, Len(p))] = "dir"
    BY <2>1, <2>2, <2>4 DEF Reached
  <2> QED
    BY <2>2, <2>5
<1> HIDE DEF rest, p, M
<1>3. OnTheWay(out, rest, deep)
  BY <1>1, <1>2 DEF OnTheWay, M
<1> QED
  BY <1>3 DEF rest

(* The walk finds what it should, up to its limit.                            *)
LEMMA WalkIsComplete ==
  ASSUME TreeOK(tree), NEW deep \in BOOLEAN, NEW out, NEW todo, OnTheWay(out, todo, deep),
         NEW n \in Nat, Len(out) <= n, Len(out) = n \/ todo = <<>>
  PROVE  out = Taken(Sorted(MediaBelow(deep)), n)
<1> DEFINE M == MediaBelow(deep)
           s == Sorted(M)
           c == Cardinality(M)
<1>1. out \in Seq(M) /\ Increasing(out) /\ Len(out) \in Nat /\ \A k \in 1..Len(out) : out[k] \in M
  BY DEF OnTheWay
<1>2. IsFiniteSet(M) /\ M \subseteq Seq(Nat) /\ Apart(M) /\ M \subseteq DOMAIN tree
  BY MediaAreReached DEF Paths
<1>3. DOMAIN tree \subseteq Seq(Nat)
  BY DEF TreeOK, Paths
<1>4. todo \in Seq(DOMAIN tree) /\ \A l \in 1..Len(todo) : todo[l] \in Seq(Nat)
  BY <1>3 DEF OnTheWay
<1>5. /\ \A k \in 1..Len(out), l \in 1..Len(todo) : Before(out[k], todo[l])
      /\ \A m \in M : (\E k \in 1..Len(out) : m = out[k]) \/ \E l \in 1..Len(todo) : Under(todo[l], m)
  BY DEF OnTheWay
<1>6. /\ s \in Seq(M) /\ Len(s) = c /\ c \in Nat
      /\ \A p \in M, k \in 1..c : Cardinality({q \in M : Before(q, p)}) = k - 1 => p = s[k]
  BY <1>2, SortedIsInOrder
<1> HIDE DEF M, s, c
<1>7. \A k, l \in 1..Len(out) : k < l => Before(out[k], out[l])
  BY <1>1 DEF Increasing
<1>8. \A k \in 1..Len(out) : ~Before(out[k], out[k])
  BY <1>1, <1>2, BeforeIsStrict
<1>9. \A k, l \in 1..Len(out) : Before(out[k], out[l]) => k < l
  <2> SUFFICES ASSUME NEW k \in 1..Len(out), NEW l \in 1..Len(out), Before(out[k], out[l]), ~(k < l)
               PROVE  FALSE
    OBVIOUS
  <2>1. k = l \/ l < k
    BY <1>1
  <2>2. CASE k = l
    BY <1>8, <2>2
  <2>3. CASE l < k
    <3>1. Before(out[l], out[k]) /\ out[k] \in Seq(Nat) /\ out[l] \in Seq(Nat)
      BY <1>1, <1>2, <1>7, <2>3
    <3>2. Before(out[k], out[k])
      BY <3>1, BeforeIsStrict
    <3> QED
      BY <1>8, <3>2
  <2> QED
    BY <2>1, <2>2, <2>3
<1>10. \A k, l \in 1..Len(out) : out[k] = out[l] => k = l
  <2> SUFFICES ASSUME NEW k \in 1..Len(out), NEW l \in 1..Len(out), out[k] = out[l] PROVE k = l
    OBVIOUS
  <2>1. ~(k < l) /\ ~(l < k)
    BY <1>7, <1>8
  <2> QED
    BY <2>1, <1>1
<1>11. ASSUME NEW k \in 1..Len(out) PROVE {q \in M : Before(q, out[k])} = {out[j] : j \in 1..(k - 1)}
  <2>1. ASSUME NEW q \in M, Before(q, out[k]) PROVE \E j \in 1..(k - 1) : q = out[j]
    <3>1. CASE \E j \in 1..Len(out) : q = out[j]
      <4>1. PICK j \in 1..Len(out) : q = out[j]
        BY <3>1
      <4>2. j < k
        BY <1>9, <2>1, <4>1
      <4>3. j \in 1..(k - 1)
        BY <1>1, <4>2
      <4> QED
        BY <4>1, <4>3
    <3>2. CASE \E l \in 1..Len(todo) : Under(todo[l], q)
      <4>1. PICK l \in 1..Len(todo) : Under(todo[l], q)
        BY <3>2
      <4>2. out[k] \in Seq(Nat) /\ q \in Seq(Nat) /\ todo[l] \in Seq(Nat) /\ Before(out[k], todo[l])
        BY <1>1, <1>2, <1>4, <1>5
      <4>3. Before(out[k], q)
        BY <4>1, <4>2, BeforeIsStrict
      <4>4. Before(out[k], out[k])
        BY <2>1, <4>2, <4>3, BeforeIsStrict
      <4> QED
        BY <1>8, <4>4
    <3> QED
      BY <1>5, <3>1, <3>2
  <2>2. ASSUME NEW j \in 1..(k - 1) PROVE out[j] \in M /\ Before(out[j], out[k])
    <3>1. j \in 1..Len(out) /\ j < k
      BY <1>1
    <3> QED
      BY <1>1, <1>7, <3>1
  <2> QED
    BY <2>1, <2>2
<1>12. ASSUME NEW k \in 0..Len(out)
       PROVE  IsFiniteSet({out[j] : j \in 1..k}) /\ Cardinality({out[j] : j \in 1..k}) = k
  <2> DEFINE T == {out[j] : j \in 1..k}
             f == [j \in 1..k |-> out[j]]
  <2>1. f \in Surjection(1..k, T)
    BY DEF Surjection
  <2>2. \A j \in 1..k : j \in 1..Len(out)
    BY <1>1
  <2>3. IsInjective(f)
    BY <1>10, <2>2 DEF IsInjective
  <2>4. f \in Injection(1..k, T)
    BY <2>3 DEF Injection
  <2>5. IsFiniteSet(1..k) /\ Cardinality(1..k) = k
    BY <1>1, FS_Interval
  <2> QED
    BY <2>1, <2>4, <2>5, FS_Surjection
<1>13. Len(out) <= c
  <2> DEFINE T == {out[j] : j \in 1..Len(out)}
  <2>1. T \in SUBSET M
    BY <1>1
  <2>2. Len(out) \in 0..Len(out)
    BY <1>1
  <2>3. Cardinality(T) = Len(out)
    BY <1>12, <2>2
  <2>4. Cardinality(T) <= Cardinality(M)
    BY <1>2, <2>1, FS_Subset
  <2> QED
    BY <2>3, <2>4 DEF c
<1>14. ASSUME NEW k \in 1..Len(out) PROVE out[k] = s[k]
  <2>1. k - 1 \in 0..Len(out) /\ k \in 1..c
    BY <1>1, <1>6, <1>13
  <2>2. Cardinality({q \in M : Before(q, out[k])}) = k - 1
    BY <1>11, <1>12, <2>1
  <2> QED
    BY <1>1, <1>6, <2>1, <2>2
<1>15. Min2(n, Len(s)) = Len(out)
  <2>1. CASE Len(out) = n
    BY <1>6, <1>13, <2>1 DEF Min2
  <2>2. CASE todo = <<>>
    <3>1. M = {out[j] : j \in 1..Len(out)}
      <4>1. Len(todo) = 0
        BY <2>2
      <4> QED
        BY <1>1, <1>5, <4>1
    <3>2. c = Len(out)
      <4>1. Len(out) \in 0..Len(out)
        BY <1>1
      <4> QED
        BY <1>12, <3>1, <4>1 DEF c
    <3> QED
      BY <1>6, <3>2 DEF Min2
  <2> QED
    BY <2>1, <2>2
<1>16. SubSeq(s, 1, Len(out)) = out
  <2>1. Len(out) \in 0..Len(s)
    BY <1>1, <1>6, <1>13
  <2>2. SubSeq(s, 1, Len(out)) = [k \in 1..Len(out) |-> s[k]]
    BY <1>6, <2>1
  <2>3. out = [k \in 1..Len(out) |-> out[k]]
    BY <1>1
  <2> QED
    BY <1>14, <2>2, <2>3
<1> QED
  BY <1>15, <1>16 DEF Taken, s, M

------------------------------------------------------------------------------
(* The lists that come from a dialog, an input or a walk.                     *)

LEMMA TakenIsList ==
  ASSUME NEW X, NEW list \in Seq(X), NEW n \in Nat
  PROVE  /\ Taken(list, n) \in Seq(X)
         /\ IsInjective(list) => IsInjective(Taken(list, n))
         /\ Len(list) <= n => Taken(list, n) = list
<1> DEFINE m == Min2(n, Len(list))
<1>1. m \in 0..Len(list) /\ (Len(list) <= n => m = Len(list)) /\ Len(list) \in Nat
  <2>1. Len(list) \in Nat
    OBVIOUS
  <2> QED
    BY <2>1 DEF Min2
<1> HIDE DEF m
<1>2. SubSeq(list, 1, m) = [k \in 1..m |-> list[k]]
  BY <1>1
<1>3. SubSeq(list, 1, m) \in Seq(X)
  <2>1. \A k \in 1..m : list[k] \in X
    BY <1>1
  <2> QED
    BY <1>1, <1>2, <2>1, SeqDef
<1>4. IsInjective(list) => IsInjective(SubSeq(list, 1, m))
  BY <1>1, <1>2 DEF IsInjective
<1>5. Len(list) <= n => SubSeq(list, 1, m) = list
  BY <1>1, <1>2
<1> QED
  BY <1>3, <1>4, <1>5 DEF Taken, m

LEMMA ReverseIsList ==
  ASSUME NEW X, NEW list \in Seq(X), IsInjective(list)
  PROVE  Reverse(list) \in Seq(X) /\ IsInjective(Reverse(list))
<1>1. Len(list) \in Nat /\ DOMAIN list = 1..Len(list) /\ \A k \in 1..Len(list) : list[k] \in X
  OBVIOUS
<1>2. Reverse(list) = [k \in 1..Len(list) |-> list[(Len(list) - k) + 1]]
  BY DEF Reverse
<1>3. \A k \in 1..Len(list) : (Len(list) - k) + 1 \in 1..Len(list)
  BY <1>1
<1>4. Reverse(list) \in [1..Len(list) -> X]
  BY <1>1, <1>2, <1>3
<1>5. ASSUME NEW k \in 1..Len(list), NEW l \in 1..Len(list), Reverse(list)[k] = Reverse(list)[l]
      PROVE  k = l
  <2>1. (Len(list) - k) + 1 = (Len(list) - l) + 1
    BY <1>1, <1>2, <1>3, <1>5 DEF IsInjective
  <2> QED
    BY <2>1, <1>1
<1>6. IsInjective(Reverse(list))
  BY <1>2, <1>5 DEF IsInjective
<1> QED
  BY <1>1, <1>4, <1>6, SeqDef

LEMMA KeptIsList ==
  ASSUME NEW list, ListOK(list), NEW P \in SUBSET DOMAIN list
  PROVE  ListOK(Kept(list, P)) /\ (P = DOMAIN list => Kept(list, P) = list)
BY KeptIsInOrder DEF ListOK

LEMMA FilteredIsList ==
  ASSUME NEW list, ListOK(list)
  PROVE  /\ ListOK(FilterSupportedMedia(list))
         /\ (\A k \in DOMAIN list : tree[list[k]] = "media") => FilterSupportedMedia(list) = list
<1> DEFINE P == {i \in DOMAIN list : tree[list[i]] = "media"}
<1>1. P \in SUBSET DOMAIN list
  OBVIOUS
<1>2. (\A k \in DOMAIN list : tree[list[k]] = "media") => P = DOMAIN list
  OBVIOUS
<1>3. FilterSupportedMedia(list) = Kept(list, P)
  BY DEF FilterSupportedMedia
<1> HIDE DEF P
<1> QED
  BY <1>1, <1>2, <1>3, KeptIsList

LEMMA MadeIsList ==
  ASSUME NEW list, ListOK(list), NEW deep, NEW max \in Nat
  PROVE  ListOK(MakeFilesFromList(list, deep, max))
<1> DEFINE P == {i \in DOMAIN list : (deep \/ Len(list[i]) = 1) /\ tree[list[i]] = "media"}
<1>1. MakeFilesFromList(list, deep, max) = Taken(Kept(list, P), max)
  BY DEF MakeFilesFromList
<1>2. P \in SUBSET DOMAIN list
  OBVIOUS
<1> HIDE DEF P
<1>3. ListOK(Kept(list, P))
  BY <1>2, KeptIsList
<1> QED
  BY <1>1, <1>3, TakenIsList DEF ListOK

LEMMA ChosenIsList ==
  ASSUME TreeOK(tree), NEW chosen \in {<<p>> : p \in DOMAIN tree} \cup {Entries(<<>>)}
  PROVE  ListOK(chosen)
<1>1. CASE chosen = Entries(<<>>)
  <2>1. <<>> \in Seq(Nat)
    OBVIOUS
  <2> QED
    BY <1>1, <2>1, EntriesAreChildren DEF ListOK
<1>2. ASSUME NEW p \in DOMAIN tree, chosen = <<p>> PROVE ListOK(chosen)
  BY <1>2 DEF ListOK, IsInjective
<1> QED
  BY <1>1, <1>2

LEMMA SortedIsList ==
  ASSUME TreeOK(tree), NEW S \in SUBSET {p \in DOMAIN tree : tree[p] \in {"media", "other"}},
         NEW list \in {Sorted(S), Reverse(Sorted(S))}
  PROVE  ListOK(list)
<1> DEFINE s == Sorted(S)
<1>1. IsFiniteSet(S) /\ S \subseteq Seq(Nat) /\ Apart(S) /\ S \subseteq DOMAIN tree
  BY FilesAreApart
<1>2. /\ s \in Seq(S) /\ Len(s) = Cardinality(S)
      /\ \A k, l \in 1..Cardinality(S) : s[k] = s[l] => k = l
  BY <1>1, SortedIsInOrder
<1> HIDE DEF s
<1>3. s \in Seq(DOMAIN tree)
  BY <1>1, <1>2
<1>4. IsInjective(s)
  BY <1>2 DEF IsInjective
<1>5. Reverse(s) \in Seq(DOMAIN tree) /\ IsInjective(Reverse(s))
  BY <1>3, <1>4, ReverseIsList
<1> QED
  BY <1>3, <1>4, <1>5 DEF ListOK, s

(* What a walk found is a list of files, complete when the walk ends.         *)
LEMMA WalkFinds ==
  ASSUME TreeOK(tree), NEW w \in ImportStates, WalkOK(w)
  PROVE  /\ ListOK(w.out)
         /\ Full(w) \/ w.todo = <<>> =>
              Taken(FilterSupportedMedia(w.out), w.max) = w.out /\ w.out = FoundBy(w.deep, w.max)
<1> DEFINE n == NormalizedMax(w.max)
<1>0. w.deep \in BOOLEAN /\ w.max \in Nat /\ w.max > 0 /\ ScanCap \in Nat \ {0}
  BY LimitsAssumption DEF ImportStates, WalkOK
<1>1. n \in Nat /\ n <= w.max
  BY <1>0 DEF NormalizedMax, Min2
<1> HIDE DEF n
<1>2. OnTheWay(w.out, w.todo, w.deep) /\ Len(w.out) <= n
  BY DEF WalkOK, n
<1>3. w.out \in Seq(MediaBelow(w.deep)) /\ Increasing(w.out)
  BY <1>2 DEF OnTheWay
<1>4. MediaBelow(w.deep) \subseteq DOMAIN tree /\ MediaBelow(w.deep) \subseteq Seq(Nat)
  BY <1>0, MediaAreReached DEF Paths
<1>5. /\ w.out \in Seq(DOMAIN tree) /\ DOMAIN w.out = 1..Len(w.out) /\ Len(w.out) \in Nat
      /\ \A k \in 1..Len(w.out) : w.out[k] \in Seq(Nat) /\ w.out[k] \in MediaBelow(w.deep)
  BY <1>3, <1>4
<1>6. ASSUME NEW k \in 1..Len(w.out), NEW l \in 1..Len(w.out), w.out[k] = w.out[l] PROVE k = l
  <2>1. ~Before(w.out[k], w.out[l])
    BY <1>5, <1>6, BeforeIsStrict
  <2>2. ~(k < l) /\ ~(l < k)
    BY <1>3, <1>6, <2>1 DEF Increasing
  <2> QED
    BY <1>5, <2>2
<1>7. ListOK(w.out)
  BY <1>5, <1>6 DEF ListOK, IsInjective
<1>8. \A k \in DOMAIN w.out : tree[w.out[k]] = "media"
  BY <1>5 DEF MediaBelow
<1>9. FilterSupportedMedia(w.out) = w.out
  BY <1>7, <1>8, FilteredIsList
<1>10. Taken(w.out, w.max) = w.out
  <2>1. Len(w.out) <= w.max
    BY <1>0, <1>1, <1>2, <1>5
  <2> QED
    BY <1>0, <1>5, <2>1, TakenIsList
<1>11. ASSUME Full(w) \/ w.todo = <<>> PROVE w.out = FoundBy(w.deep, w.max)
  <2>1. Full(w) => Len(w.out) = n
    BY <1>1, <1>2, <1>5 DEF Full, n
  <2>2. w.out = Taken(Sorted(MediaBelow(w.deep)), n)
    BY <1>0, <1>1, <1>2, <1>11, <2>1, WalkIsComplete
  <2> QED
    BY <2>2 DEF FoundBy, n
<1> QED
  BY <1>7, <1>9, <1>10, <1>11

(* A step of the walk.                                                        *)
LEMMA WalkGoesOn ==
  ASSUME TreeOK(tree), NEW w \in ImportStates, w.at = "walk", WalkOK(w), ~Full(w), w.todo # <<>>,
         NEW v, v = Walked(w, Head(w.todo), Tail(w.todo))
  PROVE  v \in ImportStates /\ v.at = "walk" /\ v.deep = w.deep /\ v.max = w.max /\ WalkOK(v)
<1> DEFINE p == Head(w.todo)
           rest == Tail(w.todo)
           n == NormalizedMax(w.max)
<1>0. w.deep \in BOOLEAN /\ w.max \in Nat /\ w.max > 0 /\ w.out \in Seq(DOMAIN tree)
  BY DEF ImportStates, WalkOK
<1>1. n \in Nat
  BY <1>0, LimitsAssumption DEF NormalizedMax, Min2
<1>2. OnTheWay(w.out, w.todo, w.deep) /\ Len(w.out) <= n /\ Len(w.out) \in Nat /\ Len(w.out) < n
  <2>1. OnTheWay(w.out, w.todo, w.deep) /\ Len(w.out) <= n
    BY DEF WalkOK
  <2>2. Len(w.out) \in Nat
    BY <1>0
  <2> QED
    BY <1>1, <2>1, <2>2 DEF Full
<1>3. p \in DOMAIN tree /\ rest \in Seq(DOMAIN tree)
  BY <1>2, RestIsOnTheWay
<1>4. CASE tree[p] = "media"
  <2>1. v = [w EXCEPT !.out = Append(@, p), !.todo = rest]
    BY <1>4 DEF Walked
  <2>2. OnTheWay(Append(w.out, p), rest, w.deep)
    BY <1>0, <1>2, <1>4, TakesMedia
  <2>3. Len(Append(w.out, p)) <= n /\ Append(w.out, p) \in Seq(DOMAIN tree)
    BY <1>0, <1>1, <1>2, <1>3
  <2> HIDE DEF p, rest
  <2>4. /\ v.out = Append(w.out, p) /\ v.todo = rest /\ v.at = w.at /\ v.deep = w.deep /\ v.max = w.max
        /\ v \in ImportStates
    BY <1>3, <2>1, <2>3 DEF ImportStates
  <2> QED
    BY <1>0, <2>2, <2>3, <2>4 DEF WalkOK
<1>5. CASE tree[p] # "media" /\ tree[p] = "dir" /\ w.deep
  <2>1. v = [w EXCEPT !.todo = Entries(p) \o rest]
    BY <1>5 DEF Walked
  <2>2. OnTheWay(w.out, Entries(p) \o rest, w.deep)
    BY <1>0, <1>2, <1>5, EntersDirectory
  <2>3. Entries(p) \o rest \in Seq(DOMAIN tree)
    BY <2>2 DEF OnTheWay
  <2> HIDE DEF p, rest
  <2>4. /\ v.out = w.out /\ v.todo = Entries(p) \o rest /\ v.at = w.at /\ v.deep = w.deep /\ v.max = w.max
        /\ v \in ImportStates
    BY <2>1, <2>3 DEF ImportStates
  <2> QED
    BY <1>0, <1>2, <2>2, <2>4 DEF WalkOK
<1>6. CASE tree[p] # "media" /\ ~(tree[p] = "dir" /\ w.deep)
  <2>1. v = [w EXCEPT !.todo = rest]
    BY <1>6 DEF Walked
  <2>2. OnTheWay(w.out, rest, w.deep)
    BY <1>0, <1>2, <1>6, PassesOver
  <2> HIDE DEF p, rest
  <2>4. /\ v.out = w.out /\ v.todo = rest /\ v.at = w.at /\ v.deep = w.deep /\ v.max = w.max
        /\ v \in ImportStates
    BY <1>3, <2>1 DEF ImportStates
  <2> QED
    BY <1>0, <1>2, <2>2, <2>4 DEF WalkOK
<1> QED
  BY <1>4, <1>5, <1>6

------------------------------------------------------------------------------
(* The steps.                                                                 *)

(* The folder does not change.                                                *)
LEMMA SameFolder ==
  ASSUME tree' = tree
  PROVE  /\ ImportStates' = ImportStates /\ TreeOK(tree)' = TreeOK(tree)
         /\ \A w : ImportOK(w)' <=> ImportOK(w)
         /\ \A list : ListOK(list)' <=> ListOK(list)
         /\ \A deep, max : FoundBy(deep, max)' = FoundBy(deep, max)
<1>1. ImportStates' = ImportStates
  BY DEF ImportStates
<1>2. TreeOK(tree)' = TreeOK(tree)
  BY DEF TreeOK
<1>3. \A list : ListOK(list)' <=> ListOK(list)
  BY DEF ListOK
<1>4. \A deep : MediaBelow(deep)' = MediaBelow(deep)
  BY DEF MediaBelow
<1>5. \A deep, max : FoundBy(deep, max)' = FoundBy(deep, max)
  BY <1>4 DEF FoundBy
<1>6. \A p, deep : Reached(p, deep)' <=> Reached(p, deep)
  BY DEF Reached
<1>7. \A out, todo, deep : OnTheWay(out, todo, deep)' <=> OnTheWay(out, todo, deep)
  BY <1>4, <1>6 DEF OnTheWay
<1>8. \A w : ImportOK(w)' <=> ImportOK(w)
  BY <1>3, <1>7 DEF ImportOK, WalkOK
<1> QED
  BY <1>1, <1>2, <1>3, <1>5, <1>8

LEMMA NoImportIsOver ==
  /\ NoImport \in ImportStates /\ ImportOK(NoImport) /\ NoImport.at = "idle"
  /\ \A w \in ImportStates : ImportOK(w) => (w.at = "idle" <=> w = NoImport)
BY DEF NoImport, ImportStates, ImportOK

LEMMA EmptyIsList == ListOK(<<>>)
BY DEF ListOK, IsInjective

(* A list is put up, or announced: it is what is wanted.                      *)
LEMMA Queued ==
  ASSUME FilesInv, NEW i \in Imports, NEW count, NEW list, ListOK(list), QueueMediaImport(i, count, list),
         tree' = tree, picks' \in 0..MaxImports, tangled' \in BOOLEAN,
         ~tangled' => /\ ~tangled /\ wanted' = list /\ imports[i].at # "timer"
                      /\ \A j \in Imports \ {i} : imports[j] = NoImport
  PROVE  FilesInv'
<1> USE SameFolder
<1>1. TreeOK(tree)'
  BY DEF FilesInv
<1>2. imports \in [Imports -> ImportStates] /\ \A j \in Imports : ImportOK(imports[j])
  BY DEF FilesInv
<1>3. CASE count <= SyncLimit
  <2>1. /\ imports' = [imports EXCEPT ![i] = NoImport] /\ waits' = waits
        /\ files' = IF list = <<>> THEN files ELSE list
        /\ front' = IF list = <<>> THEN front ELSE "main-files"
    BY <1>3 DEF QueueMediaImport, ImportOver
  <2>2. ListOK(files)' /\ waits' \in BOOLEAN /\ front' \in {"main-empty", "main-files", "other"}
    BY <2>1 DEF FilesInv
  <2>3. imports' \in [Imports -> ImportStates]' /\ \A j \in Imports : ImportOK(imports'[j])
    BY <1>2, <2>1, NoImportIsOver
  <2>4. ASSUME ~tangled' PROVE OneByOne'
    <3>1. \A j \in Imports : imports'[j] = NoImport
      BY <1>2, <2>1, <2>4
    <3>2. ~waits
      <4>1. \A j \in Imports : imports[j].at # "timer"
        BY <2>4, NoImportIsOver
      <4> QED
        BY <2>4, <4>1 DEF FilesInv, OneByOne
    <3> QED
      BY <2>1, <2>4, <3>1, <3>2, NoImportIsOver DEF OneByOne
  <2> QED
    BY <1>1, <2>2, <2>3, <2>4 DEF FilesInv
<1>4. CASE ~(count <= SyncLimit)
  <2> DEFINE w == [NoImport EXCEPT !.at = "timer", !.out = list]
  <2>1. imports' = [imports EXCEPT ![i] = w] /\ files' = <<>> /\ waits' = TRUE /\ front' = "main-files"
    BY <1>4 DEF QueueMediaImport
  <2>2. w.at = "timer" /\ w.out = list /\ w \in ImportStates /\ w # NoImport
    <3>1. list \in Seq(DOMAIN tree)
      BY DEF ListOK
    <3>2. w.at = "timer" /\ w.out = list /\ w \in ImportStates
      BY <3>1, NoImportIsOver DEF ImportStates
    <3> QED
      BY <3>2, NoImportIsOver
  <2> HIDE DEF w
  <2>3. ImportOK(w)
    BY <2>2 DEF ImportOK
  <2>4. ListOK(files)'
    BY <2>1, EmptyIsList
  <2>5. imports' \in [Imports -> ImportStates]' /\ \A j \in Imports : ImportOK(imports'[j])
    BY <1>2, <2>1, <2>2, <2>3
  <2>6. ASSUME ~tangled' PROVE OneByOne'
    <3>1. imports'[i] = w /\ \A j \in Imports : j # i => imports'[j] = NoImport
      BY <1>2, <2>1, <2>6
    <3> QED
      BY <2>1, <2>2, <2>6, <3>1, NoImportIsOver DEF OneByOne
  <2> QED
    BY <1>1, <2>1, <2>4, <2>5, <2>6 DEF FilesInv
<1> QED
  BY <1>3, <1>4

LEMMA StepTimerFires ==
  ASSUME FilesInv, NEW i \in Imports, TimerFires(i)
  PROVE  FilesInv'
<1> USE SameFolder
<1>1. /\ imports[i].at = "timer" /\ files' = imports[i].out /\ waits' = FALSE
      /\ front' = (IF imports[i].out = <<>> THEN "main-empty" ELSE front)
      /\ imports' = [imports EXCEPT ![i] = NoImport]
      /\ tree' = tree /\ picks' = picks /\ wanted' = wanted /\ tangled' = tangled
  BY DEF TimerFires, ImportOver
<1>2. imports \in [Imports -> ImportStates] /\ \A j \in Imports : ImportOK(imports[j])
  BY DEF FilesInv
<1>3. ListOK(files)' /\ TreeOK(tree)'
  BY <1>1, <1>2 DEF FilesInv, ImportOK
<1>4. imports' \in [Imports -> ImportStates]' /\ \A j \in Imports : ImportOK(imports'[j])
  BY <1>1, <1>2, NoImportIsOver
<1>5. ASSUME ~tangled' PROVE OneByOne'
  <2>1. OneByOne
    BY <1>1, <1>5 DEF FilesInv
  <2>2. \A j \in Imports : imports'[j] = NoImport
    <3>1. imports[i] # NoImport
      BY <1>1, NoImportIsOver
    <3> QED
      BY <1>1, <1>2, <2>1, <3>1 DEF OneByOne
  <2>3. wanted = imports[i].out
    BY <1>1, <2>1 DEF OneByOne
  <2> QED
    BY <1>1, <2>2, <2>3, NoImportIsOver DEF OneByOne
<1> QED
  BY <1>1, <1>3, <1>4, <1>5 DEF FilesInv

LEMMA StepWalk ==
  ASSUME FilesInv, NEW i \in Imports, Walk(i)
  PROVE  FilesInv'
<1> USE SameFolder
<1> DEFINE w == imports[i]
           v == Walked(w, Head(w.todo), Tail(w.todo))
<1>1. /\ w.at = "walk" /\ ~Full(w) /\ w.todo # <<>>
      /\ imports' = [imports EXCEPT ![i] = v]
      /\ tree' = tree /\ files' = files /\ waits' = waits /\ front' = front /\ picks' = picks
      /\ wanted' = wanted /\ tangled' = tangled
  BY DEF Walk
<1>2. imports \in [Imports -> ImportStates] /\ (\A j \in Imports : ImportOK(imports[j])) /\ TreeOK(tree)
  BY DEF FilesInv
<1>3. w \in ImportStates /\ WalkOK(w)
  BY <1>1, <1>2 DEF ImportOK
<1>4. v \in ImportStates /\ v.at = "walk" /\ v.deep = w.deep /\ v.max = w.max /\ WalkOK(v)
  BY <1>1, <1>2, <1>3, WalkGoesOn
<1> HIDE DEF v
<1>5. ImportOK(v)
  BY <1>4 DEF ImportOK
<1>6. imports' \in [Imports -> ImportStates]' /\ \A j \in Imports : ImportOK(imports'[j])
  BY <1>1, <1>2, <1>4, <1>5
<1>7. ASSUME ~tangled' PROVE OneByOne'
  <2>1. OneByOne
    BY <1>1, <1>7 DEF FilesInv
  <2>2. imports'[i] = v /\ \A j \in Imports : j # i => imports'[j] = imports[j]
    BY <1>1, <1>2
  <2>3. w # NoImport /\ v # NoImport
    BY <1>1, <1>4, NoImportIsOver
  <2>4. \A j \in Imports : j # i => imports'[j] = NoImport
    BY <2>1, <2>2, <2>3 DEF OneByOne
  <2>5. wanted' = FoundBy(v.deep, v.max) /\ ~waits'
    BY <1>1, <1>4, <2>1, <2>2, <2>4, NoImportIsOver DEF OneByOne
  <2>6. \A j \in Imports : imports'[j].at = "walk" => imports'[j] = v
    BY <2>2, <2>4, NoImportIsOver
  <2>7. \A j \in Imports : imports'[j].at # "timer"
    BY <1>4, <2>2, <2>4, NoImportIsOver
  <2> QED
    BY <1>1, <1>4, <2>2, <2>3, <2>4, <2>5, <2>6, <2>7 DEF OneByOne
<1> QED
  BY <1>1, <1>2, <1>6, <1>7 DEF FilesInv

LEMMA StepWalkEnds ==
  ASSUME FilesInv, NEW i \in Imports, WalkEnds(i)
  PROVE  FilesInv'
<1> USE SameFolder
<1> DEFINE w == imports[i]
<1>1. /\ w.at = "walk" /\ (Full(w) \/ w.todo = <<>>)
      /\ tree' = tree /\ picks' = picks /\ wanted' = wanted /\ tangled' = tangled
  BY DEF WalkEnds
<1>2. imports \in [Imports -> ImportStates] /\ (\A j \in Imports : ImportOK(imports[j])) /\ TreeOK(tree)
  BY DEF FilesInv
<1>3. w \in ImportStates /\ WalkOK(w)
  BY <1>1, <1>2 DEF ImportOK
<1>4. /\ ListOK(w.out) /\ Taken(FilterSupportedMedia(w.out), w.max) = w.out
      /\ w.out = FoundBy(w.deep, w.max)
  BY <1>1, <1>2, <1>3, WalkFinds
<1>5. w # NoImport
  BY <1>1, NoImportIsOver
<1>6. ASSUME ~tangled
      PROVE  OneByOne /\ wanted = w.out /\ \A j \in Imports \ {i} : imports[j] = NoImport
  BY <1>1, <1>4, <1>5, <1>6 DEF FilesInv, OneByOne
<1>7. CASE w.out = <<>>
  <2> DEFINE v == [w EXCEPT !.at = "input"]
  <2>1. imports' = [imports EXCEPT ![i] = v] /\ files' = files /\ waits' = waits /\ front' = front
    BY <1>7 DEF WalkEnds
  <2>2. v \in ImportStates /\ v.at = "input" /\ v # NoImport
    BY <1>3 DEF ImportStates, NoImport
  <2> HIDE DEF v
  <2>3. ImportOK(v)
    BY <2>2 DEF ImportOK
  <2>4. imports' \in [Imports -> ImportStates]' /\ \A j \in Imports : ImportOK(imports'[j])
    BY <1>1, <1>2, <2>1, <2>2, <2>3
  <2>5. ASSUME ~tangled' PROVE OneByOne'
    <3>1. ~waits
      BY <1>1, <1>6, <2>5, NoImportIsOver DEF OneByOne
    <3>2. imports'[i] = v /\ \A j \in Imports : j # i => imports'[j] = NoImport
      BY <1>1, <1>2, <1>6, <2>1, <2>5
    <3> QED
      BY <1>1, <1>6, <1>7, <2>1, <2>2, <2>5, <3>1, <3>2, NoImportIsOver DEF OneByOne
  <2> QED
    BY <1>1, <1>2, <2>1, <2>4, <2>5 DEF FilesInv
<1>8. CASE w.out # <<>>
  <2>1. QueueMediaImport(i, Len(w.out), w.out)
    BY <1>4, <1>8 DEF WalkEnds
  <2>2. picks' \in 0..MaxImports /\ tangled' \in BOOLEAN
    BY <1>1 DEF FilesInv
  <2> QED
    BY <1>1, <1>4, <1>6, <2>1, <2>2, Queued
<1> QED
  BY <1>7, <1>8

LEMMA StepInputAnswers ==
  ASSUME FilesInv, NEW i \in Imports, InputAnswers(i)
  PROVE  FilesInv'
<1> USE SameFolder
<1> DEFINE w == imports[i]
           all == {p \in DOMAIN tree : /\ tree[p] \in {"media", "other"}
                                       /\ \A l \in 1..(Len(p) - 1) : tree[SubSeq(p, 1, l)] # "locked"}
<1>1. w.at = "input" /\ tree' = tree /\ picks' = picks /\ tangled' = tangled
  BY DEF InputAnswers
<1>2. imports \in [Imports -> ImportStates] /\ (\A j \in Imports : ImportOK(imports[j])) /\ TreeOK(tree)
  BY DEF FilesInv
<1>3. w # NoImport
  BY <1>1, NoImportIsOver
<1>4. ASSUME ~tangled PROVE OneByOne /\ \A j \in Imports \ {i} : imports[j] = NoImport
  BY <1>3, <1>4 DEF FilesInv, OneByOne
<1>5. CASE ImportOver(i) /\ UNCHANGED <<files, waits, front, wanted>>
  <2>1. /\ imports' = [imports EXCEPT ![i] = NoImport]
        /\ files' = files /\ waits' = waits /\ front' = front /\ wanted' = wanted
    BY <1>5 DEF ImportOver
  <2>2. imports' \in [Imports -> ImportStates]' /\ \A j \in Imports : ImportOK(imports'[j])
    BY <1>1, <1>2, <2>1, NoImportIsOver
  <2>3. ASSUME ~tangled' PROVE OneByOne'
    <3>1. \A j \in Imports : imports'[j] = NoImport
      BY <1>1, <1>2, <1>4, <2>1, <2>3
    <3>2. \A j \in Imports : imports[j].at \notin {"walk", "timer"}
      BY <1>1, <1>4, <2>3, NoImportIsOver
    <3> QED
      BY <1>1, <1>4, <2>1, <2>3, <3>1, <3>2, NoImportIsOver DEF OneByOne
  <2> QED
    BY <1>1, <1>2, <2>1, <2>2, <2>3 DEF FilesInv
<1>6. ASSUME NEW list \in {Sorted(all), Reverse(Sorted(all))},
             QueueMediaImport(i, Len(list), MakeFilesFromList(list, w.deep, w.max)),
             wanted' = MakeFilesFromList(list, w.deep, w.max)
      PROVE  FilesInv'
  <2>1. all \in SUBSET {p \in DOMAIN tree : tree[p] \in {"media", "other"}}
    OBVIOUS
  <2> HIDE DEF all
  <2>2. ListOK(list)
    BY <1>2, <1>6, <2>1, SortedIsList
  <2>3. w.max \in Nat
    BY <1>2 DEF ImportStates
  <2>4. ListOK(MakeFilesFromList(list, w.deep, w.max))
    BY <2>2, <2>3, MadeIsList
  <2>5. picks' \in 0..MaxImports /\ tangled' \in BOOLEAN
    BY <1>1 DEF FilesInv
  <2> QED
    BY <1>1, <1>4, <1>6, <2>4, <2>5, Queued
<1>7. \/ ImportOver(i) /\ UNCHANGED <<files, waits, front, wanted>>
      \/ \E list \in {Sorted(all), Reverse(Sorted(all))} :
           /\ QueueMediaImport(i, Len(list), MakeFilesFromList(list, w.deep, w.max))
           /\ wanted' = MakeFilesFromList(list, w.deep, w.max)
  BY DEF InputAnswers
<1> HIDE DEF all, w
<1> QED
  BY <1>5, <1>6, <1>7

LEMMA Picked ==
  ASSUME FilesInv, Pick
  PROVE  picks' \in 0..MaxImports
BY LimitsAssumption DEF FilesInv, Pick

LEMMA StepAddFiles ==
  ASSUME FilesInv, NEW i \in Imports, NEW chosen \in {<<p>> : p \in DOMAIN tree} \cup {Entries(<<>>)},
         AddFiles(i, chosen)
  PROVE  FilesInv'
<1> DEFINE list == FilterSupportedMedia(chosen)
<1>1. /\ Begins(i) /\ QueueMediaImport(i, Len(chosen), list) /\ wanted' = list /\ tree' = tree
      /\ picks' \in 0..MaxImports
  BY Picked DEF AddFiles
<1>2. ListOK(list)
  <2>1. ListOK(chosen)
    BY ChosenIsList DEF FilesInv
  <2> QED
    BY <2>1, FilteredIsList
<1>3. tangled' \in BOOLEAN /\ imports[i] = NoImport
  BY <1>1 DEF Begins, FilesInv
<1>4. ~tangled' => ~tangled /\ \A j \in Imports : imports[j] = NoImport
  BY <1>1 DEF Begins
<1> HIDE DEF list
<1> QED
  BY <1>1, <1>2, <1>3, <1>4, NoImportIsOver, Queued

LEMMA StepAddFolder ==
  ASSUME FilesInv, NEW i \in Imports, NEW deep \in BOOLEAN, NEW max \in 1..(ScanCap + 1), AddFolder(i, deep, max)
  PROVE  FilesInv'
<1> USE SameFolder
<1> DEFINE walk == [NoImport EXCEPT !.at = "walk", !.todo = Entries(<<>>), !.deep = deep, !.max = max]
           input == [NoImport EXCEPT !.at = "input", !.deep = deep, !.max = max]
<1>1. /\ Begins(i) /\ tree' = tree /\ files' = files /\ waits' = waits /\ front' = front
      /\ picks' \in 0..MaxImports
  BY Picked DEF AddFolder
<1>2. imports \in [Imports -> ImportStates] /\ (\A j \in Imports : ImportOK(imports[j])) /\ TreeOK(tree)
  BY DEF FilesInv
<1>3. tangled' \in BOOLEAN /\ (~tangled' => ~tangled /\ \A j \in Imports : imports[j] = NoImport)
  BY <1>1 DEF Begins, FilesInv
<1>4. max \in Nat /\ max > 0
  BY LimitsAssumption
<1>5. ASSUME ~tangled'
      PROVE  OneByOne /\ ~waits /\ (\A j \in Imports : imports[j] = NoImport) /\ wanted \in {<<>>, files}
  BY <1>3, <1>5, NoImportIsOver DEF FilesInv, OneByOne
<1>6. \/ imports' = [imports EXCEPT ![i] = walk] /\ wanted' = FoundBy(deep, max)
      \/ imports' = [imports EXCEPT ![i] = input] /\ wanted' = wanted
  BY DEF AddFolder, NoImport
<1>7. /\ walk.at = "walk" /\ walk.todo = Entries(<<>>) /\ walk.out = <<>> /\ walk.deep = deep /\ walk.max = max
      /\ input.at = "input" /\ input \in ImportStates /\ input # NoImport /\ walk # NoImport
  <2>1. NoImport \in ImportStates /\ NoImport.at = "idle" /\ NoImport.out = <<>>
    BY NoImportIsOver DEF NoImport
  <2>2. walk.at = "walk" /\ walk.todo = Entries(<<>>) /\ walk.out = <<>> /\ walk.deep = deep /\ walk.max = max
    BY <2>1 DEF ImportStates
  <2>3. input.at = "input" /\ input \in ImportStates
    BY <1>4, <2>1 DEF ImportStates
  <2> QED
    BY <2>1, <2>2, <2>3
<1>8. OnTheWay(<<>>, Entries(<<>>), deep)
  BY <1>2, WalkBegins
<1>9. walk \in ImportStates
  <2>1. Entries(<<>>) \in Seq(DOMAIN tree)
    BY <1>8 DEF OnTheWay
  <2> QED
    BY <1>4, <2>1, NoImportIsOver DEF ImportStates
<1> HIDE DEF walk, input
<1>10. ImportOK(walk) /\ ImportOK(input)
  <2>1. NormalizedMax(max) >= 0
    BY <1>4, LimitsAssumption DEF NormalizedMax, Min2
  <2> QED
    BY <1>4, <1>7, <1>8, <2>1 DEF ImportOK, WalkOK
<1>11. CASE imports' = [imports EXCEPT ![i] = walk] /\ wanted' = FoundBy(deep, max)
  <2>1. imports' \in [Imports -> ImportStates]' /\ \A j \in Imports : ImportOK(imports'[j])
    BY <1>1, <1>2, <1>9, <1>10, <1>11
  <2>2. ASSUME ~tangled' PROVE OneByOne'
    <3>1. imports'[i] = walk /\ \A j \in Imports : j # i => imports'[j] = NoImport
      BY <1>2, <1>5, <1>11, <2>2
    <3> QED
      BY <1>1, <1>5, <1>7, <1>11, <2>2, <3>1, NoImportIsOver DEF OneByOne
  <2> QED
    BY <1>1, <1>2, <1>3, <2>1, <2>2 DEF FilesInv
<1>12. CASE imports' = [imports EXCEPT ![i] = input] /\ wanted' = wanted
  <2>1. imports' \in [Imports -> ImportStates]' /\ \A j \in Imports : ImportOK(imports'[j])
    BY <1>1, <1>2, <1>7, <1>10, <1>12
  <2>2. ASSUME ~tangled' PROVE OneByOne'
    <3>1. imports'[i] = input /\ \A j \in Imports : j # i => imports'[j] = NoImport
      BY <1>2, <1>5, <1>12, <2>2
    <3> QED
      BY <1>1, <1>5, <1>7, <1>12, <2>2, <3>1, NoImportIsOver DEF OneByOne
  <2> QED
    BY <1>1, <1>2, <1>3, <2>1, <2>2 DEF FilesInv
<1> QED
  BY <1>6, <1>11, <1>12

LEMMA StepRemoveFile ==
  ASSUME FilesInv, NEW p \in DOMAIN tree, RemoveFile(p)
  PROVE  FilesInv'
<1> USE SameFolder
<1>1. /\ p \in Range(files) /\ files' = Without(files, p) /\ front' \in {"main-empty", front}
      /\ wanted' = (IF \E i \in Imports : imports[i].at = "walk" THEN wanted ELSE Without(wanted, p))
      /\ tree' = tree /\ imports' = imports /\ waits' = waits /\ tangled' = tangled
      /\ picks' \in 0..MaxImports
  BY Picked DEF RemoveFile
<1>2. ListOK(files) /\ \A i \in Imports : ImportOK(imports[i])
  BY DEF FilesInv
<1>3. ListOK(Without(files, p)) /\ Without(<<>>, p) = <<>>
  <2> DEFINE P(list) == {k \in DOMAIN list : list[k] # p}
  <2>1. \A list : Without(list, p) = Kept(list, P(list)) /\ P(list) \in SUBSET DOMAIN list
    BY DEF Without
  <2>2. P(<<>>) = DOMAIN <<>>
    OBVIOUS
  <2> HIDE DEF P
  <2> QED
    BY <1>2, <2>1, <2>2, KeptIsList, EmptyIsList
<1>4. files # <<>>
  BY <1>1 DEF Range
<1>5. ASSUME ~tangled' PROVE OneByOne'
  <2>1. OneByOne
    BY <1>1, <1>5 DEF FilesInv
  <2>2. ~waits /\ \A i \in Imports : imports[i].at # "timer"
    BY <1>4, <2>1 DEF OneByOne
  <2>3. CASE \E i \in Imports : imports[i].at = "walk"
    BY <1>1, <2>1, <2>2, <2>3 DEF OneByOne
  <2>4. CASE ~\E i \in Imports : imports[i].at = "walk"
    <3>1. wanted \in {<<>>, files}
      BY <2>1, <2>2, <2>4 DEF OneByOne
    <3>2. wanted' \in {<<>>, files'}
      BY <1>1, <1>3, <2>4, <3>1
    <3> QED
      BY <1>1, <2>1, <2>2, <2>4, <3>2 DEF OneByOne
  <2> QED
    BY <2>3, <2>4
<1> QED
  BY <1>1, <1>2, <1>3, <1>5 DEF FilesInv

LEMMA StepLeave ==
  ASSUME FilesInv, NEW s \in {"main-empty", "main-files", "other"}, Leave(s)
  PROVE  FilesInv'
<1> USE SameFolder
<1>1. /\ front' = s /\ picks' \in 0..MaxImports
      /\ tree' = tree /\ imports' = imports /\ files' = files /\ waits' = waits /\ wanted' = wanted
      /\ tangled' = tangled
  BY Picked DEF Leave
<1>2. OneByOne' <=> OneByOne
  BY <1>1 DEF OneByOne
<1> QED
  BY <1>1, <1>2 DEF FilesInv

LEMMA FilesBegin ==
  ASSUME NEW trees, \A t \in trees : TreeOK(t), FilesInit(trees)
  PROVE  FilesInv
<1>1. TreeOK(tree)
  BY DEF FilesInit
<1>2. imports \in [Imports -> ImportStates] /\ \A i \in Imports : imports[i] = NoImport
  BY NoImportIsOver DEF FilesInit
<1>3. ListOK(files)
  BY EmptyIsList DEF FilesInit
<1>4. OneByOne
  BY <1>2, NoImportIsOver DEF FilesInit, OneByOne
<1>5. waits = FALSE /\ tangled = FALSE /\ front = "main-empty" /\ picks \in 0..MaxImports
  BY LimitsAssumption DEF FilesInit
<1>6. \A i \in Imports : ImportOK(imports[i])
  BY <1>2, NoImportIsOver
<1> QED
  BY <1>1, <1>2, <1>3, <1>4, <1>5, <1>6 DEF FilesInv

LEMMA FilesStep ==
  ASSUME FilesInv, [FilesNext]_fileVars
  PROVE  FilesInv'
<1>1. CASE UNCHANGED fileVars
  <2>1. /\ tree' = tree /\ imports' = imports /\ files' = files /\ waits' = waits /\ wanted' = wanted
        /\ tangled' = tangled /\ front' = front /\ picks' = picks
    BY <1>1 DEF fileVars
  <2>2. OneByOne' <=> OneByOne
    BY <2>1, SameFolder DEF OneByOne
  <2> QED
    BY <2>1, <2>2, SameFolder DEF FilesInv
<1>2. CASE FilesNext
  BY <1>2, StepTimerFires, StepWalk, StepWalkEnds, StepInputAnswers, StepAddFiles, StepAddFolder,
     StepRemoveFile, StepLeave DEF FilesNext
<1> QED
  BY <1>1, <1>2

LEMMA ListIsBounded ==
  ASSUME NEW list, ListOK(list), IsFiniteSet(DOMAIN tree)
  PROVE  Len(list) <= Cardinality(DOMAIN tree)
<1>1. list \in Injection(1..Len(list), DOMAIN tree) /\ Len(list) \in Nat
  BY DEF ListOK, Injection
<1>2. Cardinality(1..Len(list)) <= Cardinality(DOMAIN tree)
  BY <1>1, FS_Injection
<1>3. Cardinality(1..Len(list)) = Len(list)
  BY <1>1, FS_Interval
<1> QED
  BY <1>2, <1>3

LEMMA FilesHold ==
  ASSUME FilesInv
  PROVE  FilesAreLastPicked /\ FilesTypeOK
<1>1. FilesAreLastPicked
  <2> SUFFICES ASSUME ~tangled
               PROVE  /\ (\A i \in Imports : imports[i] = NoImport) /\ wanted # <<>> => files = wanted
                      /\ Len(files) <= Cardinality(DOMAIN tree) /\ IsInjective(files)
                      /\ waits <=> \E i \in Imports : imports[i].at = "timer"
                      /\ waits => files = <<>>
    BY DEF FilesAreLastPicked
  <2>1. OneByOne /\ ListOK(files) /\ IsFiniteSet(DOMAIN tree)
    BY DEF FilesInv, TreeOK
  <2>2. (\A i \in Imports : imports[i] = NoImport) /\ wanted # <<>> => files = wanted
    BY <2>1, NoImportIsOver DEF OneByOne
  <2> QED
    BY <2>1, <2>2, ListIsBounded DEF OneByOne, ListOK
<1>2. \A list \in Seq(DOMAIN tree) : Range(list) \subseteq DOMAIN tree
  BY DEF Range
<1>3. ASSUME NEW i \in Imports
      PROVE  /\ imports[i].at \in {"idle", "walk", "timer", "input"}
             /\ Range(imports[i].todo \o imports[i].out) \subseteq DOMAIN tree
  <2>1. imports[i] \in ImportStates
    BY DEF FilesInv
  <2>2. imports[i].todo \o imports[i].out \in Seq(DOMAIN tree)
    BY <2>1 DEF ImportStates
  <2> QED
    BY <1>2, <2>1, <2>2 DEF ImportStates
<1>4. FilesTypeOK
  BY <1>2, <1>3 DEF FilesInv, FilesTypeOK, ListOK
<1> QED
  BY <1>1, <1>4

(* When the imports came one at a time, the list is what the last one should  *)
(* have brought: for folders of any shape and size, any limits and any number *)
(* of imports (AppShell.tsx:267, index.ts listMediaFiles).                    *)
THEOREM FilesOfAnyFolder ==
  ASSUME NEW CONSTANT trees, \A t \in trees : TreeOK(t)
  PROVE  FilesSpec(trees) => []FilesAreLastPicked
<1>1. FilesInit(trees) => FilesInv
  BY FilesBegin
<1>2. FilesInv /\ [FilesNext]_fileVars => FilesInv'
  BY FilesStep
<1>3. FilesInv => FilesAreLastPicked
  BY FilesHold
<1> QED
  BY <1>1, <1>2, <1>3, PTL DEF FilesSpec

(* The state of the files has its type.                                       *)
THEOREM FilesHaveTheirType ==
  ASSUME NEW CONSTANT trees, \A t \in trees : TreeOK(t)
  PROVE  FilesSpec(trees) => []FilesTypeOK
<1>1. FilesInit(trees) => FilesInv
  BY FilesBegin
<1>2. FilesInv /\ [FilesNext]_fileVars => FilesInv'
  BY FilesStep
<1>3. FilesInv => FilesTypeOK
  BY FilesHold
<1> QED
  BY <1>1, <1>2, <1>3, PTL DEF FilesSpec

=============================================================================
