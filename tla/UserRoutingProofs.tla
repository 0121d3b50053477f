-------------------------- MODULE UserRoutingProofs --------------------------
(***************************************************************************)
(* A message is in one list at a time, and the lists hand it on in the     *)
(* order of routing, for any number of users, connections, IO threads and  *)
(* messages.                                                               *)
(***************************************************************************)
EXTENDS UserRouting, Integers, FiniteSetTheorems, WellFoundedInduction, TLAPS

(* A list in which nothing occurs twice, and one along which r rises. *)
Single(s) == \A j, k \in DOMAIN s : s[j] = s[k] => j = k
Rising(s, r) == \A j, k \in DOMAIN s : j < k => r[s[j]] < r[s[k]]

(* An element is appended to a list. *)
LEMMA Appended ==
    ASSUME NEW S, NEW s \in Seq(S), NEW x \in S
    PROVE  /\ Append(s, x) \in Seq(S)
           /\ \A y : In(y, Append(s, x)) <=> In(y, s) \/ y = x
           /\ Single(s) /\ ~In(x, s) => Single(Append(s, x))
           /\ \A r : Rising(s, r) /\ (\A y \in S : In(y, s) => r[y] < r[x])
                        => Rising(Append(s, x), r)
<1> DEFINE t == Append(s, x)
           n == Len(s)
<1>1. /\ t \in Seq(S) /\ n \in Nat /\ DOMAIN s = 1..n /\ DOMAIN t = 1..(n + 1)
      /\ t[n + 1] = x /\ \A i \in 1..n : t[i] = s[i] /\ s[i] \in S
  OBVIOUS
<1>2. /\ \A i \in 1..(n + 1) : i \in 1..n \/ i = n + 1
      /\ \A i \in 1..n : i \in 1..(n + 1) /\ i < n + 1 /\ ~(n + 1 < i)
      /\ n + 1 \in 1..(n + 1) /\ ~(n + 1 < n + 1)
  BY <1>1
<1> HIDE DEF t, n
<1>3. \A y : In(y, t) <=> In(y, s) \/ y = x
  BY <1>1, <1>2, Zenon DEF In
<1>4. ASSUME Single(s), ~In(x, s)
      PROVE  Single(t)
  <2> SUFFICES ASSUME NEW j \in 1..(n + 1), NEW k \in 1..(n + 1), t[j] = t[k]
               PROVE  j = k
    BY <1>1, Zenon DEF Single
  <2>1. CASE j \in 1..n /\ k \in 1..n
    BY <1>1, <1>4, <2>1, Zenon DEF Single
  <2>2. CASE j = n + 1 /\ k \in 1..n
    BY <1>1, <1>4, <2>2, Zenon DEF In
  <2>3. CASE j \in 1..n /\ k = n + 1
    BY <1>1, <1>4, <2>3, Zenon DEF In
  <2> QED
    BY <1>2, <2>1, <2>2, <2>3, Zenon
<1>5. ASSUME NEW r, Rising(s, r), \A y \in S : In(y, s) => r[y] < r[x]
      PROVE  Rising(t, r)
  <2> SUFFICES ASSUME NEW j \in 1..(n + 1), NEW k \in 1..(n + 1), j < k
               PROVE  r[t[j]] < r[t[k]]
    BY <1>1, Zenon DEF Rising
  <2>1. j \in 1..n
    BY <1>2, Zenon
  <2>2. CASE k \in 1..n
    BY <1>1, <1>5, <2>1, <2>2, Zenon DEF Rising
  <2>3. CASE k = n + 1
    BY <1>1, <1>5, <2>1, <2>3, Zenon DEF In
  <2> QED
    BY <1>2, <2>2, <2>3, Zenon
<1> QED
  BY <1>1, <1>3, <1>4, <1>5, Zenon DEF t

(* A list is appended to a list. *)
LEMMA Joined ==
    ASSUME NEW S, NEW s \in Seq(S), NEW u \in Seq(S)
    PROVE  /\ s \o u \in Seq(S)
           /\ \A y : In(y, s \o u) <=> In(y, s) \/ In(y, u)
           /\ \A r : Rising(s, r) /\ Rising(u, r)
                        /\ (\A y, z \in S : In(y, s) /\ In(z, u) => r[y] < r[z])
                     => Rising(s \o u, r)
<1> DEFINE t == s \o u
           n == Len(s)
           p == Len(u)
<1>1. /\ t \in Seq(S) /\ n \in Nat /\ p \in Nat
      /\ DOMAIN s = 1..n /\ DOMAIN u = 1..p /\ DOMAIN t = 1..(n + p)
      /\ \A i \in 1..n : t[i] = s[i] /\ s[i] \in S
      /\ \A i \in 1..p : u[i] \in S
  OBVIOUS
<1>2. \A i \in 1..(n + p) : i \in 1..n \/ (i - n \in 1..p /\ t[i] = u[i - n])
  OBVIOUS
<1>3. \A i \in 1..p : n + i \in 1..(n + p) /\ t[n + i] = u[i]
  OBVIOUS
<1>4. /\ \A i \in 1..n : i \in 1..(n + p)
      /\ \A i, j \in 1..(n + p) : i < j /\ ~(i \in 1..n) => ~(j \in 1..n) /\ i - n < j - n
  BY <1>1
<1> HIDE DEF t, n, p
<1>5. \A y : In(y, t) <=> In(y, s) \/ In(y, u)
  <2>1. \A y : In(y, t) => In(y, s) \/ In(y, u)
    BY <1>1, <1>2, Zenon DEF In
  <2>2. \A y : In(y, s) => In(y, t)
    BY <1>1, <1>4, Zenon DEF In
  <2>3. \A y : In(y, u) => In(y, t)
    BY <1>1, <1>3, Zenon DEF In
  <2> QED
    BY <2>1, <2>2, <2>3, Zenon
<1>6. ASSUME NEW r, Rising(s, r), Rising(u, r),
             \A y, z \in S : In(y, s) /\ In(z, u) => r[y] < r[z]
      PROVE  Rising(t, r)
  <2> SUFFICES ASSUME NEW j \in 1..(n + p), NEW k \in 1..(n + p), j < k
               PROVE  r[t[j]] < r[t[k]]
    BY <1>1, Zenon DEF Rising
  <2>1. CASE j \in 1..n /\ k \in 1..n
    BY <1>1, <1>6, <2>1, Zenon DEF Rising
  <2>2. CASE j \in 1..n /\ ~(k \in 1..n)
    <3>1. k - n \in 1..p /\ t[k] = u[k - n]
      BY <1>2, <2>2, Zenon
    <3>2. In(t[j], s) /\ In(t[k], u) /\ t[j] \in S /\ t[k] \in S
      BY <1>1, <2>2, <3>1, Zenon DEF In
    <3> QED
      BY <1>6, <3>2, Zenon
  <2>3. CASE ~(j \in 1..n)
    <3>1. /\ k - n \in 1..p /\ t[k] = u[k - n] /\ j - n \in 1..p /\ t[j] = u[j - n]
          /\ j - n < k - n
      BY <1>2, <1>4, <2>3, Zenon
    <3> QED
      BY <1>1, <1>6, <3>1, Zenon DEF Rising
  <2> QED
    BY <2>1, <2>2, <2>3, Zenon
<1> QED
  BY <1>1, <1>5, <1>6, Zenon DEF t

(* The first element of a list, and the others. *)
LEMMA Rest ==
    ASSUME NEW S, NEW s \in Seq(S), s # <<>>
    PROVE  /\ Head(s) \in S /\ Tail(s) \in Seq(S)
           /\ \A y : In(y, s) <=> y = Head(s) \/ In(y, Tail(s))
           /\ Single(s) => Single(Tail(s)) /\ ~In(Head(s), Tail(s))
           /\ \A r : Rising(s, r) =>
                 Rising(Tail(s), r) /\ \A y : In(y, Tail(s)) => r[Head(s)] < r[y]
<1> DEFINE t == Tail(s)
           n == Len(s)
<1>1. /\ Head(s) \in S /\ t \in Seq(S) /\ Head(s) = s[1] /\ n \in Nat \ {0}
      /\ DOMAIN s = 1..n /\ DOMAIN t = 1..(n - 1)
      /\ \A i \in 1..(n - 1) : t[i] = s[i + 1]
  OBVIOUS
<1>2. /\ \A i \in 1..n : i = 1 \/ (i - 1 \in 1..(n - 1) /\ (i - 1) + 1 = i)
      /\ \A i \in 1..(n - 1) : i + 1 \in 1..n /\ 1 < i + 1 /\ 1 # i + 1
      /\ \A i, j \in 1..(n - 1) : (i < j => i + 1 < j + 1) /\ (i + 1 = j + 1 => i = j)
      /\ 1 \in 1..n
  BY <1>1
<1> HIDE DEF t, n
<1>3. \A i \in 1..n : i = 1 \/ \E j \in 1..(n - 1) : t[j] = s[i]
  <2> SUFFICES ASSUME NEW i \in 1..n, i # 1
               PROVE  \E j \in 1..(n - 1) : t[j] = s[i]
    OBVIOUS
  <2>1. t[i - 1] = s[(i - 1) + 1]
    BY <1>1, <1>2
  <2>2. t[i - 1] = s[i]
    BY <1>2, <2>1
  <2> QED
    BY <1>2, <2>2, Zenon
<1>4. \A y : In(y, s) <=> y = Head(s) \/ In(y, t)
  <2>1. \A y : In(y, s) => y = Head(s) \/ In(y, t)
    BY <1>1, <1>3, Zenon DEF In
  <2>2. \A y : In(y, t) => In(y, s)
    BY <1>1, <1>2, Zenon DEF In
  <2>3. In(Head(s), s)
    BY <1>1, <1>2, Zenon DEF In
  <2> QED
    BY <2>1, <2>2, <2>3, Zenon
<1>5. ASSUME Single(s)
      PROVE  Single(t) /\ ~In(Head(s), t)
  <2>0. \A j, k \in 1..n : s[j] = s[k] => j = k
    BY <1>1, <1>5, Zenon DEF Single
  <2>1. ASSUME NEW j \in 1..(n - 1), NEW k \in 1..(n - 1), t[j] = t[k]
        PROVE  j = k
    <3>1. s[j + 1] = s[k + 1]
      BY <1>1, <2>1, Zenon
    <3> QED
      BY <1>2, <2>0, <3>1, Zenon
  <2>2. ASSUME NEW j \in 1..(n - 1), t[j] = Head(s)
        PROVE  FALSE
    <3>1. s[j + 1] = s[1]
      BY <1>1, <2>2, Zenon
    <3> QED
      BY <1>2, <2>0, <3>1, Zenon
  <2> QED
    BY <1>1, <2>1, <2>2, Zenon DEF Single, In
<1>6. ASSUME NEW r, Rising(s, r)
      PROVE  Rising(t, r) /\ \A y : In(y, t) => r[Head(s)] < r[y]
  <2>1. Rising(t, r)
    <3> SUFFICES ASSUME NEW j \in 1..(n - 1), NEW k \in 1..(n - 1), j < k
                 PROVE  r[t[j]] < r[t[k]]
      BY <1>1, Zenon DEF Rising
    <3>1. r[s[j + 1]] < r[s[k + 1]]
      BY <1>1, <1>2, <1>6, Zenon DEF Rising
    <3> QED
      BY <1>1, <3>1, Zenon
  <2>2. \A j \in 1..(n - 1) : r[s[1]] < r[s[j + 1]]
    BY <1>1, <1>2, <1>6, Zenon DEF Rising
  <2> QED
    BY <1>1, <2>1, <2>2, Zenon DEF In
<1> QED
  BY <1>1, <1>4, <1>5, <1>6, Zenon DEF t

(* A list along which r rises holds nothing twice. *)
LEMMA RisingSingle ==
    ASSUME NEW S, NEW s \in Seq(S), NEW r \in [S -> Nat], Rising(s, r)
    PROVE  Single(s)
<1> SUFFICES ASSUME NEW j \in DOMAIN s, NEW k \in DOMAIN s, s[j] = s[k], j # k
             PROVE  FALSE
  BY Zenon DEF Single
<1>1. j \in Int /\ k \in Int /\ r[s[j]] \in Nat
  OBVIOUS
<1>2. j < k \/ k < j
  BY <1>1
<1>3. r[s[j]] < r[s[j]]
  BY <1>2, Zenon DEF Rising
<1> QED
  BY <1>1, <1>3

(* Induction up to a number. *)
LEMMA Climbs ==
    ASSUME NEW N \in Nat, NEW T, 0 \in T, \A n \in 0..(N - 1) : n \in T => n + 1 \in T
    PROVE  N \in T
<1> DEFINE I == {0..n : n \in (0..N) \ T}
           R == StrictSubsetOrdering(Nat)
<1> SUFFICES ASSUME N \notin T
             PROVE  FALSE
  OBVIOUS
<1>1. I \subseteq FiniteSubsetsOf(Nat) /\ I # {}
  <2>1. \A n \in 0..N : 0..n \in SUBSET Nat /\ IsFiniteSet(0..n)
    BY FS_Interval
  <2>2. N \in (0..N) \ T
    OBVIOUS
  <2> QED
    BY <2>1, <2>2, Zenon DEF FiniteSubsetsOf
<1>2. PICK X \in I : \A Y \in I : ~(<<Y, X>> \in R)
  <2>1. IsWellFoundedOn(R, FiniteSubsetsOf(Nat))
    BY FS_StrictSubsetOrderingWellFounded
  <2> HIDE DEF I, R
  <2> QED
    BY <1>1, <2>1, WFMin
<1>3. PICK x \in (0..N) \ T : X = 0..x
  OBVIOUS
<1>4. x # 0 /\ x - 1 \in 0..(N - 1) /\ (x - 1) + 1 = x /\ x - 1 \in 0..N
  BY <1>3
<1>5. x - 1 \notin T
  BY <1>3, <1>4, Zenon
<1>6. 0..(x - 1) \in I
  BY <1>4, <1>5, Zenon
<1>7. /\ 0..(x - 1) \in SUBSET Nat /\ 0..x \in SUBSET Nat
      /\ 0..(x - 1) \subseteq 0..x /\ x \in 0..x /\ ~(x \in 0..(x - 1))
  BY <1>4
<1>8. <<0..(x - 1), X>> \in R
  BY <1>3, <1>7 DEF StrictSubsetOrdering
<1> QED
  BY <1>2, <1>6, <1>8, Zenon

(* How many of the numbers K are at most k. *)
Upto(K, k) == {j \in K : j <= k}

(* Counting along a set of numbers. *)
LEMMA Counted ==
    ASSUME NEW N \in Nat, NEW K, K \subseteq 1..N
    PROVE  /\ IsFiniteSet(K) /\ Cardinality(K) \in Nat
           /\ \A k \in K : Cardinality(Upto(K, k)) \in 1..Cardinality(K)
           /\ \A j, k \in K : j < k => Cardinality(Upto(K, j)) < Cardinality(Upto(K, k))
           /\ \A q \in 1..Cardinality(K) : \E k \in K : Cardinality(Upto(K, k)) = q
<1>1. IsFiniteSet(K) /\ Cardinality(K) \in Nat
  <2>1. IsFiniteSet(1..N) /\ K \in SUBSET (1..N)
    BY FS_Interval
  <2> QED
    BY <2>1, FS_Subset, FS_CardinalityType
<1>2. \A n : /\ Upto(K, n) \subseteq K /\ IsFiniteSet(Upto(K, n))
             /\ Cardinality(Upto(K, n)) \in Nat
             /\ Cardinality(Upto(K, n)) <= Cardinality(K)
  <2> SUFFICES ASSUME NEW n
               PROVE  /\ Upto(K, n) \subseteq K /\ IsFiniteSet(Upto(K, n))
                      /\ Cardinality(Upto(K, n)) \in Nat
                      /\ Cardinality(Upto(K, n)) <= Cardinality(K)
    OBVIOUS
  <2>1. Upto(K, n) \in SUBSET K
    BY DEF Upto
  <2> QED
    BY <1>1, <2>1, FS_Subset, FS_CardinalityType
<1>3. \A k \in K : Cardinality(Upto(K, k)) \in 1..Cardinality(K)
  <2> SUFFICES ASSUME NEW k \in K
               PROVE  Cardinality(Upto(K, k)) \in 1..Cardinality(K)
    OBVIOUS
  <2>1. k \in Upto(K, k)
    BY DEF Upto
  <2>2. Cardinality(Upto(K, k)) # 0
    BY <1>2, <2>1, FS_EmptySet
  <2> QED
    BY <1>1, <1>2, <2>2
<1>4. ASSUME NEW j \in K, NEW k \in K, j < k
      PROVE  Cardinality(Upto(K, j)) < Cardinality(Upto(K, k))
  <2>1. j \in 1..N /\ k \in 1..N /\ \A x \in K : x \in 1..N
    BY Zenon
  <2>2. k <= k /\ ~(k <= j) /\ \A x \in 1..N : x <= j => x <= k
    BY <1>4, <2>1
  <2>a. Upto(K, j) \in SUBSET Upto(K, k) /\ k \in Upto(K, k) /\ k \notin Upto(K, j)
    BY <2>1, <2>2, Zenon DEF Upto
  <2>3. /\ Cardinality(Upto(K, j)) <= Cardinality(Upto(K, k))
        /\ Cardinality(Upto(K, k)) = Cardinality(Upto(K, j)) => Upto(K, k) = Upto(K, j)
    <3>1. IsFiniteSet(Upto(K, k))
      BY <1>2
    <3> QED
      BY <2>a, <3>1, FS_Subset
  <2>4. Cardinality(Upto(K, k)) # Cardinality(Upto(K, j))
    BY <2>a, <2>3, Zenon
  <2>5. Cardinality(Upto(K, j)) \in Nat /\ Cardinality(Upto(K, k)) \in Nat
    BY <1>2, Zenon
  <2> QED
    BY <2>3, <2>4, <2>5
<1> DEFINE T == {n \in 0..N : \A q \in 1..Cardinality(Upto(K, n)) :
                                  \E k \in K : Cardinality(Upto(K, k)) = q}
<1>5. 0 \in T
  <2>1. Upto(K, 0) = {}
    <3>1. (\A x \in K : x \in 1..N) /\ \A x \in 1..N : ~(x <= 0)
      OBVIOUS
    <3> QED
      BY <3>1, Zenon DEF Upto
  <2>2. Cardinality(Upto(K, 0)) = 0
    BY <2>1, FS_EmptySet, Zenon
  <2>3. 0 \in 0..N /\ \A q \in 1..0 : FALSE
    OBVIOUS
  <2> QED
    BY <2>2, <2>3, Zenon
<1>6. ASSUME NEW n \in 0..(N - 1), n \in T
      PROVE  n + 1 \in T
  <2>0. /\ n + 1 \in 0..N /\ ~(n + 1 <= n) /\ \A x \in K : x \in 1..N
        /\ \A x \in 1..N : x <= n + 1 <=> x <= n \/ x = n + 1
    OBVIOUS
  <2>1. CASE n + 1 \notin K
    <3>1. Upto(K, n + 1) = Upto(K, n)
      BY <2>0, <2>1, Zenon DEF Upto
    <3> QED
      BY <1>6, <2>0, <3>1, Zenon
  <2>2. CASE n + 1 \in K
    <3>1. Upto(K, n + 1) = Upto(K, n) \cup {n + 1} /\ n + 1 \notin Upto(K, n)
      BY <2>0, <2>2, Zenon DEF Upto
    <3>2. Cardinality(Upto(K, n + 1)) = Cardinality(Upto(K, n)) + 1
      <4>1. IsFiniteSet(Upto(K, n))
        BY <1>2, Zenon
      <4>2. Cardinality(Upto(K, n) \cup {n + 1}) = Cardinality(Upto(K, n)) + 1
        BY <3>1, <4>1, FS_AddElement, Zenon
      <4> QED
        BY <3>1, <4>2, Zenon
    <3>3. \A q \in 1..Cardinality(Upto(K, n + 1)) :
             q \in 1..Cardinality(Upto(K, n)) \/ q = Cardinality(Upto(K, n + 1))
      <4>1. Cardinality(Upto(K, n)) \in Nat
        BY <1>2, Zenon
      <4> QED
        BY <3>2, <4>1
    <3> QED
      BY <1>6, <2>0, <2>2, <3>3, Zenon
  <2> QED
    BY <2>1, <2>2
<1>7. N \in T
  <2> HIDE DEF T
  <2> QED
    BY <1>5, <1>6, Climbs
<1>8. Upto(K, N) = K
  <2>1. (\A x \in K : x \in 1..N) /\ \A x \in 1..N : x <= N
    OBVIOUS
  <2> QED
    BY <2>1, Zenon DEF Upto
<1>9. \A q \in 1..Cardinality(K) : \E k \in K : Cardinality(Upto(K, k)) = q
  BY <1>7, <1>8, Zenon
<1> QED
  BY <1>1, <1>3, <1>4, <1>9, Zenon

(* SubSeqAt selects elements of a list and keeps their order. *)
LEMMA Selected ==
    ASSUME NEW S, NEW s \in Seq(S), NEW K, K \subseteq DOMAIN s
    PROVE  /\ SubSeqAt(s, K) \in Seq(S)
           /\ \A y : In(y, SubSeqAt(s, K)) <=> \E k \in K : s[k] = y
           /\ Single(s) => Single(SubSeqAt(s, K))
           /\ \A r : Rising(s, r) => Rising(SubSeqAt(s, K), r)
<1> DEFINE N == Len(s)
           C == Cardinality(K)
           pick(n) == CHOOSE k \in K : Cardinality({j \in K : j <= k}) = n
           t == SubSeqAt(s, K)
<1>1. N \in Nat /\ DOMAIN s = 1..N /\ K \subseteq 1..N /\ \A k \in K : s[k] \in S /\ k \in Int
  OBVIOUS
<1>2. /\ IsFiniteSet(K) /\ Cardinality(K) \in Nat
      /\ \A k \in K : Cardinality(Upto(K, k)) \in 1..Cardinality(K)
      /\ \A j, k \in K : j < k => Cardinality(Upto(K, j)) < Cardinality(Upto(K, k))
      /\ \A q \in 1..Cardinality(K) : \E k \in K : Cardinality(Upto(K, k)) = q
  BY <1>1, Counted
<1>3. \A n \in 1..C : pick(n) \in K /\ Cardinality(Upto(K, pick(n))) = n
  BY <1>2, Zenon DEF Upto
<1>4. \A k \in K : pick(Cardinality(Upto(K, k))) = k
  <2> SUFFICES ASSUME NEW k \in K
               PROVE  pick(Cardinality(Upto(K, k))) = k
    OBVIOUS
  <2> DEFINE l == pick(Cardinality(Upto(K, k)))
  <2>1. l \in K /\ Cardinality(Upto(K, l)) = Cardinality(Upto(K, k))
    BY <1>2, <1>3, Zenon
  <2> HIDE DEF l, pick
  <2>2. Cardinality(Upto(K, k)) \in Int /\ Cardinality(Upto(K, l)) \in Int
    BY <1>2, <2>1
  <2>3. ~(l < k) /\ ~(k < l)
    BY <1>2, <2>1, <2>2
  <2> QED
    BY <1>1, <2>1, <2>3 DEF l
<1>5. /\ t \in Seq(S) /\ DOMAIN t = 1..C
      /\ \A n \in 1..C : t[n] = s[pick(n)]
  <2>1. t = [n \in 1..C |-> s[pick(n)]]
    BY Zenon DEF SubSeqAt
  <2>2. \A n \in 1..C : s[pick(n)] \in S
    BY <1>1, <1>3, Zenon
  <2> HIDE DEF t, pick
  <2>3. t \in [1..C -> S]
    BY <2>1, <2>2, Zenon
  <2> QED
    BY <1>2, <2>1, <2>3
<1> HIDE DEF pick, t
<1>6. \A y : In(y, t) <=> \E k \in K : s[k] = y
  BY <1>2, <1>3, <1>4, <1>5, Zenon DEF In
<1>7. ASSUME Single(s)
      PROVE  Single(t)
  <2> SUFFICES ASSUME NEW n \in 1..C, NEW p \in 1..C, t[n] = t[p]
               PROVE  n = p
    BY <1>5, Zenon DEF Single
  <2>1. pick(n) \in DOMAIN s /\ pick(p) \in DOMAIN s /\ s[pick(n)] = s[pick(p)]
    BY <1>3, <1>5, Zenon
  <2>2. pick(n) = pick(p)
    BY <1>7, <2>1, Zenon DEF Single
  <2> QED
    BY <1>3, <2>2, Zenon
<1>8. ASSUME NEW r, Rising(s, r)
      PROVE  Rising(t, r)
  <2> SUFFICES ASSUME NEW n \in 1..C, NEW p \in 1..C, n < p
               PROVE  r[t[n]] < r[t[p]]
    BY <1>5, Zenon DEF Rising
  <2>1. pick(n) \in K /\ pick(p) \in K /\ pick(n) \in Int /\ pick(p) \in Int
    BY <1>1, <1>3, Zenon
  <2>2. pick(n) < pick(p)
    <3>1. pick(p) < pick(n) => p < n
      BY <1>2, <1>3, <2>1, Zenon
    <3>2. pick(p) = pick(n) => p = n
      BY <1>3, Zenon
    <3> QED
      BY <1>2, <2>1, <3>1, <3>2
  <2>3. r[s[pick(n)]] < r[s[pick(p)]]
    BY <1>8, <2>1, <2>2, Zenon DEF Rising
  <2> QED
    BY <1>5, <2>3, Zenon
<1> QED
  BY <1>5, <1>6, <1>7, <1>8, Zenon DEF t

(* MaxConn is the greatest of the connections of a group. *)
LEMMA Greatest ==
    ASSUME NEW g \in Seq(Msgs), g # <<>>, conn \in [Msgs -> Nat]
    PROVE  /\ \E i \in DOMAIN g : MaxConn(g) = conn[g[i]]
           /\ \A i \in DOMAIN g : conn[g[i]] <= MaxConn(g)
<1>1. Len(g) \in Nat \ {0} /\ DOMAIN g = 1..Len(g) /\ \A i \in 1..Len(g) : conn[g[i]] \in Nat
  OBVIOUS
<1> DEFINE Top(n) == \E k \in 1..(n + 1) : \A i \in 1..(n + 1) : conn[g[i]] <= conn[g[k]]
           T == {n \in 0..(Len(g) - 1) : Top(n)}
<1>2. Len(g) - 1 \in Nat /\ 0 \in 0..(Len(g) - 1)
  BY <1>1
<1>3. 0 \in T
  <2>1. 1 \in 1..(0 + 1) /\ \A i \in 1..(0 + 1) : i = 1
    OBVIOUS
  <2>2. conn[g[1]] <= conn[g[1]]
    BY <1>1
  <2>3. Top(0)
    BY <2>1, <2>2, Zenon
  <2> QED
    BY <1>2, <2>3
<1>4. ASSUME NEW n \in 0..((Len(g) - 1) - 1), n \in T
      PROVE  n + 1 \in T
  <2>1. /\ n + 1 \in 0..(Len(g) - 1) /\ n \in Nat
        /\ \A i \in 1..(n + 1) : i \in 1..((n + 1) + 1) /\ i \in 1..Len(g)
        /\ \A i \in 1..((n + 1) + 1) : (i \in 1..(n + 1) \/ i = n + 2) /\ i \in 1..Len(g)
        /\ n + 2 \in 1..((n + 1) + 1)
    BY <1>1
  <2>2. PICK k \in 1..(n + 1) : \A i \in 1..(n + 1) : conn[g[i]] <= conn[g[k]]
    BY <1>4
  <2>3. CASE conn[g[n + 2]] <= conn[g[k]]
    <3>1. \A i \in 1..((n + 1) + 1) : conn[g[i]] <= conn[g[k]]
      BY <2>1, <2>2, <2>3, Zenon
    <3> QED
      BY <2>1, <3>1, Zenon
  <2>4. CASE conn[g[k]] <= conn[g[n + 2]]
    <3>1. \A i \in 1..((n + 1) + 1) : conn[g[i]] <= conn[g[n + 2]]
      <4>1. /\ \A i \in 1..(n + 1) : conn[g[i]] \in Nat
            /\ conn[g[k]] \in Nat /\ conn[g[n + 2]] \in Nat
        BY <1>1, <2>1, Zenon
      <4>2. \A i \in 1..(n + 1) : conn[g[i]] <= conn[g[n + 2]]
        BY <2>2, <2>4, <4>1
      <4>3. conn[g[n + 2]] <= conn[g[n + 2]]
        BY <4>1
      <4> QED
        BY <2>1, <4>2, <4>3, Zenon
    <3> QED
      BY <2>1, <3>1, Zenon
  <2>5. conn[g[k]] \in Nat /\ conn[g[n + 2]] \in Nat
    BY <1>1, <2>1, Zenon
  <2>6. conn[g[n + 2]] <= conn[g[k]] \/ conn[g[k]] <= conn[g[n + 2]]
    BY <2>5
  <2> QED
    BY <2>3, <2>4, <2>6, Zenon
<1>5. Len(g) - 1 \in T
  <2> HIDE DEF T
  <2> QED
    BY <1>2, <1>3, <1>4, Climbs
<1>6. (Len(g) - 1) + 1 = Len(g)
  BY <1>1
<1>7. \E k \in DOMAIN g : \A i \in DOMAIN g : conn[g[i]] <= conn[g[k]]
  BY <1>1, <1>5, <1>6
<1> QED
  BY <1>7, Zenon DEF MaxConn

-----------------------------------------------------------------------------
(* The types of the variables, one by one. *)
RoutingTypes ==
    /\ open \subseteq opened /\ opened \subseteq Conns
    /\ table \in [Users -> Conns \cup {NoConn}]
    /\ claimed \subseteq Claims
    /\ inHand \subseteq Msgs \X Conns
    /\ conn \in [Msgs -> Conns \cup {NoConn}]
    /\ localQ \in Seq(Msgs) /\ collQ \in Seq(Msgs) /\ found \in Seq(Msgs)
    /\ slots \in [Ios -> Seq(Msgs)] /\ ioQ \in [Ios -> Seq(Msgs)]
    /\ pushing \in [Ios -> Seq(Msgs)]
    /\ held \in [Conns -> Seq(Msgs)] /\ sent \in [Conns -> Seq(Msgs)]
    /\ routed \in Seq(Msgs \X Conns)
    /\ groups \in [Users -> Seq(Msgs)]
    /\ newConn \in Conns \cup {NoConn}
    /\ walk \in Msgs \cup {NoMsg}
    /\ freed \subseteq Msgs
    /\ aborted \in BOOLEAN

(* A connection is named for a user only if a frame of the user came from  *)
(* it; what a worker is about to route was not routed before.              *)
Known ==
    /\ \A u \in Users : table[u] # NoConn => <<u, table[u]>> \in claimed
    /\ \A u \in Users : \A c \in Conns : <<u, c>> \in claimed => c \in opened
    /\ \A m \in Msgs : \A c \in Conns :
          <<m, c>> \in inHand => conn[m] = NoConn /\ <<For[m], c>> \in claimed
    /\ \A m \in Msgs : \A c, d \in Conns :
          <<m, c>> \in inHand /\ <<m, d>> \in inHand => c = d

(* A message m is in the list st[m], and if there is one for each IO       *)
(* thread, connection or user, in that of ln[m].                           *)
Stage == {"none", "sent", "held", "pushing", "queued", "sorted", "local",
          "pending", "grouped", "found"}

AtOne(n, s, st) == \A m \in Msgs : In(m, s) <=> st[m] = n
AtEach(n, f, S, st, ln) ==
    \A x \in S : \A m \in Msgs : In(m, f[x]) <=> st[m] = n /\ ln[m] = x

Placed(st, ln) ==
    /\ st \in [Msgs -> Stage]
    /\ AtOne("local", localQ, st)
    /\ AtEach("sorted", slots, Ios, st, ln)
    /\ AtEach("queued", ioQ, Ios, st, ln)
    /\ AtEach("pushing", pushing, Ios, st, ln)
    /\ AtEach("held", held, Conns, st, ln)
    /\ AtEach("sent", sent, Conns, st, ln)
    /\ AtOne("pending", collQ, st)
    /\ AtEach("grouped", groups, Users, st, ln)
    /\ AtOne("found", found, st)

(* The lists are in the order r of routing. *)
Ordered(r) ==
    /\ r \in [Msgs -> Nat]
    /\ Rising(localQ, r)
    /\ \A i \in Ios : Rising(slots[i], r) /\ Rising(ioQ[i], r) /\ Rising(pushing[i], r)
    /\ \A c \in Conns : Rising(held[c], r) /\ Rising(sent[c], r)
    /\ Single(collQ) /\ Single(found)
    /\ \A u \in Users : Single(groups[u])

(* And so are two lists one of which feeds the other. *)
Thread(st, ln, x) == IF st[x] \in {"sent", "held"} THEN IoOf[ln[x]] ELSE ln[x]

Before(st, ln, x, y) ==
    \/ st[x] \in {"sent", "held", "pushing", "queued", "sorted"} /\ st[y] = "local"
    \/ /\ \/ st[x] \in {"sent", "held", "pushing", "queued"} /\ st[y] = "sorted"
          \/ st[x] \in {"sent", "held", "pushing"} /\ st[y] = "queued"
          \/ st[x] \in {"sent", "held"} /\ st[y] = "pushing"
       /\ Thread(st, ln, x) = ln[y]
    \/ st[x] = "sent" /\ st[y] = "held" /\ ln[x] = ln[y]

Ahead(st, ln, r) == \A x, y \in Msgs : Before(st, ln, x, y) => r[x] < r[y]

(* What the place of a message says of its fields. *)
OnItsWay == {"sent", "held", "pushing", "queued", "sorted", "local"}

Field(m, n, x, k) ==
    /\ conn[m] = NoConn => n = "none"
    /\ conn[m] # NoConn => <<For[m], conn[m]>> \in claimed
    /\ n \in OnItsWay => k \in DOMAIN routed /\ routed[k] = <<m, conn[m]>>
    /\ n \in {"pushing", "queued", "sorted"} /\ m \notin freed => IoOf[conn[m]] = x
    /\ n \in {"sent", "held"} /\ m \notin freed => conn[m] = x
    /\ n = "pending" /\ m \notin freed => conn[m] \in opened \ open
    /\ n = "grouped" => For[m] = x /\ conn[m] \in opened \ open
    /\ n = "found" => <<For[m], newConn>> \in claimed

Fields(st, ln, r) == \A m \in Msgs : Field(m, st[m], ln[m], r[m])

Tracked(st, ln, r) ==
    Placed(st, ln) /\ Ordered(r) /\ Ahead(st, ln, r) /\ Fields(st, ln, r)

RoutingInv == RoutingTypes /\ Known /\ \E st, ln, r : Tracked(st, ln, r)

-----------------------------------------------------------------------------
(* Messages move between the places A only. *)
Same(st, ln, b, l, m) == b[m] = st[m] /\ l[m] = ln[m]
Within(st, ln, b, l, A) ==
    \A m \in Msgs : Same(st, ln, b, l, m) \/ (st[m] \in A /\ b[m] \in A)

(* The lists at other places are not affected. *)
LEMMA StaysOne ==
    ASSUME NEW st, NEW ln, NEW b, NEW l, NEW A, NEW n, NEW s,
           Within(st, ln, b, l, A), n \notin A, AtOne(n, s, st)
    PROVE  AtOne(n, s, b)
  BY Zenon DEF Within, Same, AtOne

(* The same for the lists of threads, connections and users. *)
LEMMA StaysEach ==
    ASSUME NEW st, NEW ln, NEW b, NEW l, NEW A, NEW n, NEW f, NEW S,
           Within(st, ln, b, l, A), n \notin A, AtEach(n, f, S, st, ln)
    PROVE  AtEach(n, f, S, b, l)
<1> SUFFICES ASSUME NEW x \in S, NEW m \in Msgs
             PROVE  In(m, f[x]) <=> b[m] = n /\ l[m] = x
  BY Zenon DEF AtEach
<1>1. In(m, f[x]) <=> st[m] = n /\ ln[m] = x
  BY Zenon DEF AtEach
<1>2. Same(st, ln, b, l, m) \/ (st[m] # n /\ b[m] # n)
  BY Zenon DEF Within
<1> QED
  BY <1>1, <1>2, Zenon DEF Same

(* Of the lists of threads, connections or users only that of x changes,   *)
(* and other messages do not move to or from these lists.                  *)
Else(f, g, S, x) == \A y \in S : y # x => g[y] = f[y]
AtThis(n, s, x, st, ln) == \A m \in Msgs : In(m, s) <=> st[m] = n /\ ln[m] = x
Only(st, ln, b, l, n, x) ==
    \A m \in Msgs : \/ Same(st, ln, b, l, m)
                    \/ (st[m] = n => ln[m] = x) /\ (b[m] = n => l[m] = x)

(* Then the lists are where they are said to be. *)
LEMMA OneChanges ==
    ASSUME NEW st, NEW ln, NEW b, NEW l, NEW n, NEW f, NEW g, NEW S, NEW x,
           AtEach(n, f, S, st, ln), Else(f, g, S, x), AtThis(n, g[x], x, b, l),
           Only(st, ln, b, l, n, x)
    PROVE  AtEach(n, g, S, b, l)
<1> SUFFICES ASSUME NEW y \in S, NEW m \in Msgs
             PROVE  In(m, g[y]) <=> b[m] = n /\ l[m] = y
  BY Zenon DEF AtEach
<1>1. CASE y = x
  BY <1>1, Zenon DEF AtThis
<1>2. CASE y # x
  <2>1. In(m, g[y]) <=> st[m] = n /\ ln[m] = y
    BY <1>2, Zenon DEF AtEach, Else
  <2>2. CASE Same(st, ln, b, l, m)
    BY <2>1, <2>2, Zenon DEF Same
  <2>3. CASE (st[m] = n => ln[m] = x) /\ (b[m] = n => l[m] = x)
    BY <1>2, <2>1, <2>3, Zenon
  <2> QED
    BY <2>2, <2>3, Zenon DEF Only
<1> QED
  BY <1>1, <1>2, Zenon

(* A message moves from one place to the next on its way, or leaves it. *)
Down(st, ln, b, l, m) ==
    \/ st[m] = "local" /\ b[m] = "sorted"
    \/ st[m] = "sorted" /\ b[m] = "queued" /\ l[m] = ln[m]
    \/ st[m] = "queued" /\ b[m] = "pushing" /\ l[m] = ln[m]
    \/ st[m] = "pushing" /\ b[m] = "held" /\ IoOf[l[m]] = ln[m]
    \/ st[m] = "held" /\ b[m] = "sent" /\ l[m] = ln[m]

(* Only messages of the place n move, and those that go on are first       *)
(* there: the order is kept.                                               *)
Leave(st, ln, b, l, n) ==
    \A m \in Msgs :
       \/ Same(st, ln, b, l, m)
       \/ st[m] = n /\ Down(st, ln, b, l, m)
       \/ st[m] = n /\ b[m] \in {"none", "pending", "grouped", "found"}

First(st, ln, b, l, n, r) ==
    \A x, y \in Msgs :
       /\ st[x] = n /\ st[y] = n /\ Down(st, ln, b, l, x) /\ Same(st, ln, b, l, y)
       /\ n = "local" \/ ln[x] = ln[y]
       => r[x] < r[y]

(* Then what was ahead is ahead. *)
LEMMA AheadKept ==
    ASSUME NEW st, NEW ln, NEW r, NEW b, NEW l, NEW n, Ahead(st, ln, r),
           Leave(st, ln, b, l, n), First(st, ln, b, l, n, r)
    PROVE  Ahead(b, l, r)
<1> SUFFICES ASSUME NEW x \in Msgs, NEW y \in Msgs, Before(b, l, x, y)
             PROVE  r[x] < r[y]
  BY Zenon DEF Ahead
<1>1. CASE Same(st, ln, b, l, x) /\ Same(st, ln, b, l, y)
  <2>1. Before(st, ln, x, y)
    BY <1>1, Zenon DEF Before, Thread, Same
  <2> QED
    BY <2>1, Zenon DEF Ahead
<1>2. CASE st[x] = n /\ Down(st, ln, b, l, x) /\ Same(st, ln, b, l, y)
  <2>1. CASE st[y] = n
    <3>1. n = "local" \/ ln[x] = ln[y]
      BY <1>2, <2>1 DEF Before, Thread, Same, Down
    <3> QED
      BY <1>2, <2>1, <3>1, Zenon DEF First
  <2>2. CASE st[y] # n
    <3>1. Before(st, ln, x, y)
      BY <1>2, <2>2 DEF Before, Thread, Same, Down
    <3> QED
      BY <3>1, Zenon DEF Ahead
  <2> QED
    BY <2>1, <2>2, Zenon
<1>3. CASE Same(st, ln, b, l, x) /\ st[y] = n /\ Down(st, ln, b, l, y)
  <2>1. Before(st, ln, x, y)
    BY <1>3 DEF Before, Thread, Same, Down
  <2> QED
    BY <2>1, Zenon DEF Ahead
<1>4. CASE st[x] = n /\ Down(st, ln, b, l, x) /\ st[y] = n /\ Down(st, ln, b, l, y)
  BY <1>4, Zenon DEF Before, Down
<1>5. b[x] \notin {"none", "pending", "grouped", "found"}
  BY Zenon DEF Before
<1>6. b[y] \notin {"none", "pending", "grouped", "found"}
  BY Zenon DEF Before
<1> QED
  BY <1>1, <1>2, <1>3, <1>4, <1>5, <1>6, Zenon DEF Leave

(* The lists are where they are said to be after a step that moves         *)
(* messages between the places A only.                                     *)
LEMMA PlacedAfter ==
    ASSUME NEW st, NEW ln, NEW b, NEW l, NEW A, Placed(st, ln), Within(st, ln, b, l, A),
           b \in [Msgs -> Stage],
           ("local" \notin A /\ localQ' = localQ) \/ AtOne("local", localQ', b),
           ("sorted" \notin A /\ slots' = slots) \/ AtEach("sorted", slots', Ios, b, l),
           ("queued" \notin A /\ ioQ' = ioQ) \/ AtEach("queued", ioQ', Ios, b, l),
           ("pushing" \notin A /\ pushing' = pushing) \/ AtEach("pushing", pushing', Ios, b, l),
           ("held" \notin A /\ held' = held) \/ AtEach("held", held', Conns, b, l),
           ("sent" \notin A /\ sent' = sent) \/ AtEach("sent", sent', Conns, b, l),
           ("pending" \notin A /\ collQ' = collQ) \/ AtOne("pending", collQ', b),
           ("grouped" \notin A /\ groups' = groups) \/ AtEach("grouped", groups', Users, b, l),
           ("found" \notin A /\ found' = found) \/ AtOne("found", found', b)
    PROVE  Placed(b, l)'
<1>1. AtOne("local", localQ', b)
  BY StaysOne, Zenon DEF Placed
<1>2. AtEach("sorted", slots', Ios, b, l)
  BY StaysEach, Zenon DEF Placed
<1>3. AtEach("queued", ioQ', Ios, b, l)
  BY StaysEach, Zenon DEF Placed
<1>4. AtEach("pushing", pushing', Ios, b, l)
  BY StaysEach, Zenon DEF Placed
<1>5. AtEach("held", held', Conns, b, l)
  BY StaysEach, Zenon DEF Placed
<1>6. AtEach("sent", sent', Conns, b, l)
  BY StaysEach, Zenon DEF Placed
<1>7. AtOne("pending", collQ', b)
  BY StaysOne, Zenon DEF Placed
<1>8. AtEach("grouped", groups', Users, b, l)
  BY StaysEach, Zenon DEF Placed
<1>9. AtOne("found", found', b)
  BY StaysOne, Zenon DEF Placed
<1> QED
  BY <1>1, <1>2, <1>3, <1>4, <1>5, <1>6, <1>7, <1>8, <1>9, Zenon DEF Placed

(* The fields of a message that a step leaves alone. *)
LEMMA FieldAfter ==
    ASSUME NEW m, NEW n, NEW x, NEW k, Field(m, n, x, k), UNCHANGED <<conn, routed>>,
           newConn' = newConn \/ n # "found",
           claimed \subseteq claimed', freed \subseteq freed',
           opened \ open \subseteq opened' \ open'
    PROVE  Field(m, n, x, k)'
  BY Zenon DEF Field

(* The fields of all messages. *)
LEMMA FieldsAfter ==
    ASSUME NEW b, NEW l, NEW r, \A m \in Msgs : Field(m, b[m], l[m], r[m]),
           UNCHANGED <<conn, routed, newConn>>,
           claimed \subseteq claimed', freed \subseteq freed',
           opened \ open \subseteq opened' \ open'
    PROVE  Fields(b, l, r)'
<1> SUFFICES ASSUME NEW m \in Msgs
             PROVE  Field(m, b[m], l[m], r[m])'
  BY Zenon DEF Fields
<1>1. Field(m, b[m], l[m], r[m])
  BY Zenon
<1> QED
  BY <1>1, FieldAfter, Zenon

(* A step that leaves the lists and the messages alone. *)
listVars == <<localQ, slots, ioQ, pushing, held, sent, collQ, groups, found>>

(* It changes nothing of what is tracked. *)
LEMMA QuietKeeps ==
    ASSUME NEW st, NEW ln, NEW r, Tracked(st, ln, r),
           UNCHANGED <<listVars, conn, routed, newConn>>,
           claimed \subseteq claimed', freed \subseteq freed',
           opened \ open \subseteq opened' \ open'
    PROVE  Tracked(st, ln, r)'
<1>1. UNCHANGED <<localQ, slots, ioQ, pushing, held, sent, collQ, groups, found,
                  conn, routed, newConn>>
  BY Zenon DEF listVars
<1>2. Placed(st, ln)'
  BY <1>1, Zenon DEF Placed, Tracked
<1>3. Ordered(r)' /\ Ahead(st, ln, r)'
  BY <1>1, Zenon DEF Ordered, Ahead, Tracked
<1>4. Fields(st, ln, r)'
  BY <1>1, FieldsAfter, Zenon DEF Fields, Tracked
<1> QED
  BY <1>2, <1>3, <1>4, Zenon DEF Tracked

(* What Tracked says of each kind of list. *)
LEMMA TrackedLists ==
    ASSUME NEW st, NEW ln, NEW r, Tracked(st, ln, r)
    PROVE  /\ Placed(st, ln) /\ st \in [Msgs -> Stage] /\ r \in [Msgs -> Nat]
           /\ \A m \in Msgs : (In(m, localQ) <=> st[m] = "local")
                              /\ (In(m, collQ) <=> st[m] = "pending")
                              /\ (In(m, found) <=> st[m] = "found")
           /\ AtEach("sorted", slots, Ios, st, ln) /\ AtEach("queued", ioQ, Ios, st, ln)
           /\ AtEach("pushing", pushing, Ios, st, ln) /\ AtEach("held", held, Conns, st, ln)
           /\ AtEach("sent", sent, Conns, st, ln) /\ AtEach("grouped", groups, Users, st, ln)
           /\ Rising(localQ, r) /\ Single(collQ) /\ Single(found)
           /\ \A i \in Ios : Rising(slots[i], r) /\ Rising(ioQ[i], r) /\ Rising(pushing[i], r)
           /\ \A c \in Conns : Rising(held[c], r) /\ Rising(sent[c], r)
           /\ \A u \in Users : Single(groups[u])
           /\ Ahead(st, ln, r) /\ \A m \in Msgs : Field(m, st[m], ln[m], r[m])
  BY Zenon DEF Tracked, Placed, Ordered, AtOne, Fields

(* The messages of a set change their place. *)
Marks(b, st, P, n) == b = [m \in Msgs |-> IF m \in P THEN n ELSE st[m]]

(* The new places are places. *)
LEMMA Marked ==
    ASSUME NEW st, st \in [Msgs -> Stage], NEW P, NEW n \in Stage, NEW b, Marks(b, st, P, n)
    PROVE  /\ b \in [Msgs -> Stage]
           /\ \A m \in Msgs : (m \in P => b[m] = n) /\ (m \notin P => b[m] = st[m])
<1>1. \A m \in Msgs : (IF m \in P THEN n ELSE st[m]) \in Stage
  BY Zenon
<1> QED
  BY <1>1, Zenon DEF Marks

(* The messages of a set change their thread, connection or user. *)
LEMMA MarkedLane ==
    ASSUME NEW ln, NEW P, NEW x, NEW l, Marks(l, ln, P, x)
    PROVE  \A m \in Msgs : (m \in P => l[m] = x) /\ (m \notin P => l[m] = ln[m])
  BY Zenon DEF Marks

(* dispatchPushList moves a slot to the queue of its IO thread. *)
LEMMA DispatchKeeps ==
    ASSUME RoutingTypes, NEW st, NEW ln, NEW r, Tracked(st, ln, r), NEW i \in Ios, Dispatch(i)
    PROVE  \E b, l, q : Tracked(b, l, q)'
<1>t. /\ Placed(st, ln) /\ st \in [Msgs -> Stage] /\ r \in [Msgs -> Nat] /\ Ahead(st, ln, r)
      /\ Rising(ioQ[i], r) /\ Rising(slots[i], r) /\ Ordered(r)
      /\ AtEach("sorted", slots, Ios, st, ln) /\ AtEach("queued", ioQ, Ios, st, ln)
      /\ \A m \in Msgs : Field(m, st[m], ln[m], r[m])
  BY TrackedLists, Zenon DEF Tracked
<1>0. /\ slots[i] \in Seq(Msgs) /\ ioQ[i] \in Seq(Msgs) /\ i \in DOMAIN slots /\ i \in DOMAIN ioQ
      /\ slots \in [Ios -> Seq(Msgs)] /\ ioQ \in [Ios -> Seq(Msgs)]
  BY DEF RoutingTypes
<1>1. /\ UNCHANGED <<localQ, pushing, held, sent, collQ, groups, found, conn, routed, newConn>>
      /\ UNCHANGED <<opened, open, claimed, freed>>
  BY Zenon DEF Dispatch, tableVars, collVars
<1>2. /\ slots'[i] = <<>> /\ ioQ'[i] = ioQ[i] \o slots[i]
      /\ Else(slots, slots', Ios, i) /\ Else(ioQ, ioQ', Ios, i)
  BY <1>0 DEF Dispatch, Else
<1>3. /\ \A m \in Msgs : In(m, ioQ[i]) <=> st[m] = "queued" /\ ln[m] = i
      /\ \A m \in Msgs : In(m, slots[i]) <=> st[m] = "sorted" /\ ln[m] = i
  BY <1>t, Zenon DEF AtEach
<1> DEFINE P == {m \in Msgs : st[m] = "sorted" /\ ln[m] = i}
<1>p. PICK b : Marks(b, st, P, "queued")
  BY Zenon DEF Marks
<1>4. /\ b \in [Msgs -> Stage]
      /\ \A m \in Msgs : (m \in P => b[m] = "queued") /\ (m \notin P => b[m] = st[m])
  <2>1. "queued" \in Stage /\ st \in [Msgs -> Stage]
    BY <1>t DEF Stage
  <2> HIDE DEF P
  <2> QED
    BY <1>p, <2>1, Marked
<1>5. \A m \in Msgs : \/ st[m] = "sorted" /\ ln[m] = i /\ b[m] = "queued"
                      \/ (st[m] # "sorted" \/ ln[m] # i) /\ b[m] = st[m]
  BY <1>4, Zenon
<1>6. AtEach("sorted", slots', Ios, b, ln)
  <2>1. \A m \in Msgs : ~In(m, slots'[i])
    BY <1>2 DEF In
  <2>2. AtThis("sorted", slots'[i], i, b, ln)
    BY <1>5, <2>1, Zenon DEF AtThis
  <2>3. Only(st, ln, b, ln, "sorted", i)
    BY <1>5, Zenon DEF Only, Same
  <2> QED
    BY <1>t, <1>2, <2>2, <2>3, OneChanges, Zenon
<1>7. /\ \A m : In(m, ioQ[i] \o slots[i]) <=> In(m, ioQ[i]) \/ In(m, slots[i])
      /\ Rising(ioQ[i] \o slots[i], r)
  <2>1. \A x, y \in Msgs : In(x, ioQ[i]) /\ In(y, slots[i]) => r[x] < r[y]
    BY <1>t, <1>3, Zenon DEF Ahead, Before, Thread
  <2> QED
    BY <1>t, <1>0, <2>1, Joined
<1>8. AtEach("queued", ioQ', Ios, b, ln)
  <2>1. \A m \in Msgs : In(m, ioQ'[i]) <=> In(m, ioQ[i]) \/ In(m, slots[i])
    BY <1>2, <1>7
  <2>2. AtThis("queued", ioQ'[i], i, b, ln)
    BY <1>3, <1>5, <2>1, Zenon DEF AtThis
  <2>3. Only(st, ln, b, ln, "queued", i)
    BY <1>5, Zenon DEF Only, Same
  <2> QED
    BY <1>t, <1>2, <2>2, <2>3, OneChanges, Zenon
<1>9. Placed(b, ln)'
  <2> DEFINE A == {"sorted", "queued"}
  <2>1. Within(st, ln, b, ln, A)
    BY <1>5, Zenon DEF Within, Same
  <2>2. /\ "local" \notin A /\ "pushing" \notin A /\ "held" \notin A /\ "sent" \notin A
        /\ "pending" \notin A /\ "grouped" \notin A /\ "found" \notin A
    BY Zenon
  <2> HIDE DEF A
  <2> QED
    BY <1>t, <1>1, <1>4, <1>6, <1>8, <2>1, <2>2, PlacedAfter, Zenon
<1>10. Ordered(r)'
  <2>1. Rising(slots'[i], r)
    BY <1>2 DEF Rising
  <2>2. Rising(ioQ'[i], r)
    BY <1>2, <1>7
  <2> QED
    BY <1>t, <1>1, <1>2, <2>1, <2>2, Zenon DEF Ordered, Else
<1>11. Ahead(b, ln, r)
  <2>1. Leave(st, ln, b, ln, "sorted")
    BY <1>5, Zenon DEF Leave, Same, Down
  <2>2. First(st, ln, b, ln, "sorted", r)
    <3>1. \A x, y \in Msgs : st[x] = "sorted" /\ Down(st, ln, b, ln, x) /\ ln[x] = ln[y]
                                /\ st[y] = "sorted" => ~Same(st, ln, b, ln, y)
      BY <1>5, Zenon DEF Same, Down
    <3> QED
      BY <3>1, Zenon DEF First
  <2> QED
    BY <1>t, <2>1, <2>2, AheadKept, Zenon
<1>12. Fields(b, ln, r)'
  <2>1. \A m \in Msgs : Field(m, "sorted", ln[m], r[m]) => Field(m, "queued", ln[m], r[m])
    BY DEF Field, OnItsWay
  <2>2. \A m \in Msgs : Field(m, b[m], ln[m], r[m])
    BY <1>t, <1>5, <2>1, Zenon
  <2> QED
    BY <1>1, <2>2, FieldsAfter, Zenon
<1> QED
  BY <1>9, <1>10, <1>11, <1>12, Zenon DEF Tracked, Ahead

(* push takes the queue of its IO thread. *)
LEMMA StartPushKeeps ==
    ASSUME RoutingTypes, NEW st, NEW ln, NEW r, Tracked(st, ln, r), NEW i \in Ios, StartPush(i)
    PROVE  \E b, l, q : Tracked(b, l, q)'
<1>t. /\ Placed(st, ln) /\ st \in [Msgs -> Stage] /\ Ahead(st, ln, r)
      /\ Rising(ioQ[i], r) /\ Ordered(r)
      /\ AtEach("queued", ioQ, Ios, st, ln) /\ AtEach("pushing", pushing, Ios, st, ln)
      /\ \A m \in Msgs : Field(m, st[m], ln[m], r[m])
  BY TrackedLists, Zenon DEF Tracked
<1>0. i \in DOMAIN pushing /\ i \in DOMAIN ioQ /\ DOMAIN pushing = Ios /\ DOMAIN ioQ = Ios
  BY DEF RoutingTypes
<1>1. /\ UNCHANGED <<localQ, slots, held, sent, collQ, groups, found, conn, routed, newConn>>
      /\ UNCHANGED <<opened, open, claimed, freed>>
  BY Zenon DEF StartPush, tableVars, routeVars, collVars
<1>2. /\ pushing[i] = <<>> /\ ioQ'[i] = <<>> /\ pushing'[i] = ioQ[i]
      /\ Else(ioQ, ioQ', Ios, i) /\ Else(pushing, pushing', Ios, i)
  BY <1>0 DEF StartPush, Else
<1>3. /\ \A m \in Msgs : In(m, ioQ[i]) <=> st[m] = "queued" /\ ln[m] = i
      /\ \A m \in Msgs : In(m, pushing[i]) <=> st[m] = "pushing" /\ ln[m] = i
      /\ \A m : ~In(m, <<>>)
  <2>1. \A m : ~In(m, <<>>)
    BY DEF In
  <2> QED
    BY <1>t, <2>1, Zenon DEF AtEach
<1> DEFINE P == {m \in Msgs : st[m] = "queued" /\ ln[m] = i}
<1>p. PICK b : Marks(b, st, P, "pushing")
  BY Zenon DEF Marks
<1>4. /\ b \in [Msgs -> Stage]
      /\ \A m \in Msgs : (m \in P => b[m] = "pushing") /\ (m \notin P => b[m] = st[m])
  <2>1. "pushing" \in Stage /\ st \in [Msgs -> Stage]
    BY <1>t DEF Stage
  <2> HIDE DEF P
  <2> QED
    BY <1>p, <2>1, Marked
<1>5. \A m \in Msgs : \/ st[m] = "queued" /\ ln[m] = i /\ b[m] = "pushing"
                      \/ (st[m] # "queued" \/ ln[m] # i) /\ b[m] = st[m]
  BY <1>4, Zenon
<1>6. AtEach("queued", ioQ', Ios, b, ln)
  <2>1. AtThis("queued", ioQ'[i], i, b, ln)
    BY <1>2, <1>3, <1>5, Zenon DEF AtThis
  <2>2. Only(st, ln, b, ln, "queued", i)
    BY <1>5, Zenon DEF Only, Same
  <2> QED
    BY <1>t, <1>2, <2>1, <2>2, OneChanges, Zenon
<1>7. AtEach("pushing", pushing', Ios, b, ln)
  <2>0. \A m \in Msgs : In(m, pushing'[i]) <=> st[m] = "queued" /\ ln[m] = i
    BY <1>2, <1>3, Zenon
  <2>a. \A m \in Msgs : ~(st[m] = "pushing" /\ ln[m] = i)
    BY <1>2, <1>3, Zenon
  <2>1. AtThis("pushing", pushing'[i], i, b, ln)
    BY <1>5, <2>0, <2>a, Zenon DEF AtThis
  <2>2. Only(st, ln, b, ln, "pushing", i)
    BY <1>5, Zenon DEF Only, Same
  <2> QED
    BY <1>t, <1>2, <2>1, <2>2, OneChanges, Zenon
<1>8. Placed(b, ln)'
  <2> DEFINE A == {"queued", "pushing"}
  <2>1. Within(st, ln, b, ln, A)
    BY <1>5, Zenon DEF Within, Same
  <2>2. /\ "local" \notin A /\ "sorted" \notin A /\ "held" \notin A /\ "sent" \notin A
        /\ "pending" \notin A /\ "grouped" \notin A /\ "found" \notin A
    BY Zenon
  <2> HIDE DEF A
  <2> QED
    BY <1>t, <1>1, <1>4, <1>6, <1>7, <2>1, <2>2, PlacedAfter, Zenon
<1>9. Ordered(r)'
  <2>1. Rising(ioQ'[i], r)
    BY <1>2 DEF Rising
  <2>2. Rising(pushing'[i], r)
    BY <1>t, <1>2, Zenon
  <2> QED
    BY <1>t, <1>1, <1>2, <2>1, <2>2, Zenon DEF Ordered, Else
<1>10. Ahead(b, ln, r)
  <2>1. Leave(st, ln, b, ln, "queued")
    BY <1>5, Zenon DEF Leave, Same, Down
  <2>2. First(st, ln, b, ln, "queued", r)
    <3>1. \A x, y \in Msgs : st[x] = "queued" /\ Down(st, ln, b, ln, x) /\ ln[x] = ln[y]
                                /\ st[y] = "queued" => ~Same(st, ln, b, ln, y)
      BY <1>5, Zenon DEF Same, Down
    <3> QED
      BY <3>1, Zenon DEF First
  <2> QED
    BY <1>t, <2>1, <2>2, AheadKept, Zenon
<1>11. Fields(b, ln, r)'
  <2>1. \A m \in Msgs : Field(m, "queued", ln[m], r[m]) => Field(m, "pushing", ln[m], r[m])
    BY DEF Field, OnItsWay
  <2>2. \A m \in Msgs : Field(m, b[m], ln[m], r[m])
    BY <1>t, <1>5, <2>1, Zenon
  <2> QED
    BY <1>1, <2>2, FieldsAfter, Zenon
<1> QED
  BY <1>8, <1>9, <1>10, <1>11, Zenon DEF Tracked, Ahead

(* writeSocket sends the first message of a push list. *)
LEMMA SendKeeps ==
    ASSUME RoutingTypes, NEW st, NEW ln, NEW r, Tracked(st, ln, r), NEW c \in Conns, Send(c)
    PROVE  \E b, l, q : Tracked(b, l, q)'
<1>t. /\ Placed(st, ln) /\ st \in [Msgs -> Stage] /\ r \in [Msgs -> Nat] /\ Ahead(st, ln, r)
      /\ Rising(held[c], r) /\ Rising(sent[c], r) /\ Ordered(r)
      /\ AtEach("held", held, Conns, st, ln) /\ AtEach("sent", sent, Conns, st, ln)
      /\ \A m \in Msgs : Field(m, st[m], ln[m], r[m])
  BY TrackedLists, Zenon DEF Tracked
<1>0. /\ held[c] \in Seq(Msgs) /\ sent[c] \in Seq(Msgs) /\ DOMAIN held = Conns /\ DOMAIN sent = Conns
      /\ held[c] # <<>>
  BY DEF RoutingTypes, Send
<1>1. /\ UNCHANGED <<localQ, slots, ioQ, pushing, collQ, groups, found, conn, routed, newConn>>
      /\ UNCHANGED <<opened, open, claimed, freed>>
  BY Zenon DEF Send, tableVars, routeVars, collVars
<1>2. /\ held'[c] = Tail(held[c]) /\ sent'[c] = Append(sent[c], Head(held[c]))
      /\ Else(held, held', Conns, c) /\ Else(sent, sent', Conns, c)
  BY <1>0 DEF Send, Else
<1>3. /\ \A m \in Msgs : In(m, held[c]) <=> st[m] = "held" /\ ln[m] = c
      /\ \A m \in Msgs : In(m, sent[c]) <=> st[m] = "sent" /\ ln[m] = c
  BY <1>t, Zenon DEF AtEach
<1>h. PICK h \in Msgs : h = Head(held[c])
  BY <1>0, Rest
<1>r. /\ \A m : In(m, held[c]) <=> m = h \/ In(m, Tail(held[c]))
      /\ ~In(h, Tail(held[c])) /\ Rising(Tail(held[c]), r)
      /\ \A m : In(m, Tail(held[c])) => r[h] < r[m]
  <2>1. Single(held[c])
    BY <1>t, <1>0, RisingSingle
  <2> QED
    BY <1>t, <1>0, <1>h, <2>1, Rest
<1>s. st[h] = "held" /\ ln[h] = c
  BY <1>3, <1>r, Zenon
<1> DEFINE P == {h}
<1>p. PICK b : Marks(b, st, P, "sent")
  BY Zenon DEF Marks
<1>4. /\ b \in [Msgs -> Stage]
      /\ \A m \in Msgs : (m \in P => b[m] = "sent") /\ (m \notin P => b[m] = st[m])
  <2>1. "sent" \in Stage /\ st \in [Msgs -> Stage]
    BY <1>t DEF Stage
  <2> HIDE DEF P
  <2> QED
    BY <1>p, <2>1, Marked
<1>5. b[h] = "sent" /\ \A m \in Msgs : m # h => b[m] = st[m]
  BY <1>4, Zenon
<1>6. AtEach("held", held', Conns, b, ln)
  <2>1. AtThis("held", held'[c], c, b, ln)
    <3>1. \A m \in Msgs : In(m, held'[c]) <=> In(m, held[c]) /\ m # h
      BY <1>2, <1>r, Zenon
    <3> QED
      BY <1>3, <1>5, <3>1, Zenon DEF AtThis
  <2>2. Only(st, ln, b, ln, "held", c)
    BY <1>5, <1>s, Zenon DEF Only, Same
  <2> QED
    BY <1>t, <1>2, <2>1, <2>2, OneChanges, Zenon
<1>7. /\ \A m : In(m, Append(sent[c], h)) <=> In(m, sent[c]) \/ m = h
      /\ Rising(Append(sent[c], h), r)
  <2>1. \A m \in Msgs : In(m, sent[c]) => r[m] < r[h]
    BY <1>t, <1>3, <1>s, Zenon DEF Ahead, Before
  <2> QED
    BY <1>t, <1>0, <2>1, Appended
<1>8. AtEach("sent", sent', Conns, b, ln)
  <2>0. \A m \in Msgs : In(m, sent'[c]) <=> In(m, sent[c]) \/ m = h
    BY <1>2, <1>h, <1>7, Zenon
  <2>1. AtThis("sent", sent'[c], c, b, ln)
    BY <1>3, <1>5, <1>s, <2>0, Zenon DEF AtThis
  <2>2. Only(st, ln, b, ln, "sent", c)
    BY <1>5, <1>s, Zenon DEF Only, Same
  <2> QED
    BY <1>t, <1>2, <2>1, <2>2, OneChanges, Zenon
<1>9. Placed(b, ln)'
  <2> DEFINE A == {"held", "sent"}
  <2>1. Within(st, ln, b, ln, A)
    BY <1>5, <1>s, Zenon DEF Within, Same
  <2>2. /\ "local" \notin A /\ "sorted" \notin A /\ "queued" \notin A /\ "pushing" \notin A
        /\ "pending" \notin A /\ "grouped" \notin A /\ "found" \notin A
    BY Zenon
  <2> HIDE DEF A
  <2> QED
    BY <1>t, <1>1, <1>4, <1>6, <1>8, <2>1, <2>2, PlacedAfter, Zenon
<1>10. Ordered(r)'
  <2>1. Rising(held'[c], r) /\ Rising(sent'[c], r)
    BY <1>2, <1>h, <1>r, <1>7, Zenon
  <2> QED
    BY <1>t, <1>1, <1>2, <2>1, Zenon DEF Ordered, Else
<1>11. Ahead(b, ln, r)
  <2>1. Leave(st, ln, b, ln, "held")
    BY <1>5, <1>s, Zenon DEF Leave, Same, Down
  <2>2. First(st, ln, b, ln, "held", r)
    <3> SUFFICES ASSUME NEW x \in Msgs, NEW y \in Msgs, st[x] = "held", st[y] = "held",
                        Down(st, ln, b, ln, x), Same(st, ln, b, ln, y), ln[x] = ln[y]
                 PROVE  r[x] < r[y]
      BY Zenon DEF First
    <3>1. x = h /\ y # h
      BY <1>5, <1>s, Zenon DEF Down, Same
    <3>2. In(y, Tail(held[c]))
      BY <1>3, <1>r, <1>s, <3>1, Zenon
    <3> QED
      BY <1>r, <3>1, <3>2, Zenon
  <2> QED
    BY <1>t, <2>1, <2>2, AheadKept, Zenon
<1>12. Fields(b, ln, r)'
  <2>1. \A m \in Msgs : Field(m, "held", ln[m], r[m]) => Field(m, "sent", ln[m], r[m])
    BY DEF Field, OnItsWay
  <2>2. \A m \in Msgs : Field(m, b[m], ln[m], r[m])
    BY <1>t, <1>5, <1>s, <2>1, Zenon
  <2> QED
    BY <1>1, <2>2, FieldsAfter, Zenon
<1> QED
  BY <1>9, <1>10, <1>11, <1>12, Zenon DEF Tracked, Ahead

(* push hands its first message to an open connection. *)
HandOut(i, c) ==
    /\ pushing[i] # <<>> /\ IoOf[c] = i
    /\ pushing' = [pushing EXCEPT ![i] = Tail(@)]
    /\ held' = [held EXCEPT ![c] = Append(@, Head(pushing[i]))]
    /\ Head(pushing[i]) \notin freed => conn[Head(pushing[i])] = c
    /\ UNCHANGED <<localQ, slots, ioQ, sent, collQ, groups, found, conn, routed, newConn>>
    /\ UNCHANGED <<opened, open, claimed, freed>>

(* The message goes from the batch of the IO thread to a push list. *)
LEMMA HandOutKeeps ==
    ASSUME RoutingTypes, NEW st, NEW ln, NEW r, Tracked(st, ln, r), NEW i \in Ios,
           NEW c \in Conns, HandOut(i, c)
    PROVE  \E b, l, q : Tracked(b, l, q)'
<1>t. /\ Placed(st, ln) /\ st \in [Msgs -> Stage] /\ r \in [Msgs -> Nat] /\ Ahead(st, ln, r)
      /\ Rising(pushing[i], r) /\ Rising(held[c], r) /\ Ordered(r)
      /\ AtEach("pushing", pushing, Ios, st, ln) /\ AtEach("held", held, Conns, st, ln)
      /\ \A m \in Msgs : Field(m, st[m], ln[m], r[m])
  BY TrackedLists, Zenon DEF Tracked
<1>0. /\ held[c] \in Seq(Msgs) /\ pushing[i] \in Seq(Msgs) /\ DOMAIN held = Conns
      /\ DOMAIN pushing = Ios /\ pushing[i] # <<>>
  BY DEF RoutingTypes, HandOut
<1>1. /\ UNCHANGED <<localQ, slots, ioQ, sent, collQ, groups, found, conn, routed, newConn>>
      /\ UNCHANGED <<opened, open, claimed, freed>>
  BY Zenon DEF HandOut
<1>i. IoOf[c] = i
  BY DEF HandOut
<1>h. PICK h \in Msgs : h = Head(pushing[i])
  BY <1>0, Rest
<1>2. /\ pushing'[i] = Tail(pushing[i]) /\ held'[c] = Append(held[c], h)
      /\ Else(held, held', Conns, c) /\ Else(pushing, pushing', Ios, i)
  BY <1>0, <1>h DEF Else, HandOut
<1>3. /\ \A m \in Msgs : In(m, pushing[i]) <=> st[m] = "pushing" /\ ln[m] = i
      /\ \A m \in Msgs : In(m, held[c]) <=> st[m] = "held" /\ ln[m] = c
  BY <1>t, Zenon DEF AtEach
<1>r. /\ \A m : In(m, pushing[i]) <=> m = h \/ In(m, Tail(pushing[i]))
      /\ ~In(h, Tail(pushing[i])) /\ Rising(Tail(pushing[i]), r)
      /\ \A m : In(m, Tail(pushing[i])) => r[h] < r[m]
  <2>1. Single(pushing[i])
    BY <1>t, <1>0, RisingSingle
  <2> QED
    BY <1>t, <1>0, <1>h, <2>1, Rest
<1>s. st[h] = "pushing" /\ ln[h] = i
  BY <1>3, <1>r, Zenon
<1> DEFINE P == {h}
<1>p. PICK b : Marks(b, st, P, "held")
  BY Zenon DEF Marks
<1>q. PICK l : Marks(l, ln, P, c)
  BY Zenon DEF Marks
<1>4. /\ b \in [Msgs -> Stage]
      /\ \A m \in Msgs : (m \in P => b[m] = "held") /\ (m \notin P => b[m] = st[m])
      /\ \A m \in Msgs : (m \in P => l[m] = c) /\ (m \notin P => l[m] = ln[m])
  <2>1. "held" \in Stage /\ st \in [Msgs -> Stage]
    BY <1>t DEF Stage
  <2> HIDE DEF P
  <2> QED
    BY <1>p, <1>q, <2>1, Marked, MarkedLane
<1>5. /\ b[h] = "held" /\ l[h] = c
      /\ \A m \in Msgs : m # h => b[m] = st[m] /\ l[m] = ln[m]
  BY <1>4, Zenon
<1>6. AtEach("pushing", pushing', Ios, b, l)
  <2>1. AtThis("pushing", pushing'[i], i, b, l)
    <3>1. \A m \in Msgs : In(m, pushing'[i]) <=> In(m, pushing[i]) /\ m # h
      BY <1>2, <1>r, Zenon
    <3> QED
      BY <1>3, <1>5, <3>1, Zenon DEF AtThis
  <2>2. Only(st, ln, b, l, "pushing", i)
    BY <1>5, <1>s, Zenon DEF Only, Same
  <2> QED
    BY <1>t, <1>2, <2>1, <2>2, OneChanges, Zenon
<1>7. /\ \A m : In(m, Append(held[c], h)) <=> In(m, held[c]) \/ m = h
      /\ Rising(Append(held[c], h), r)
  <2>1. \A m \in Msgs : In(m, held[c]) => r[m] < r[h]
    <3> SUFFICES ASSUME NEW m \in Msgs, In(m, held[c])
                 PROVE  r[m] < r[h]
      BY Zenon
    <3>1. Before(st, ln, m, h)
      BY <1>3, <1>s, <1>i, Zenon DEF Before, Thread
    <3> QED
      BY <1>t, <3>1, Zenon DEF Ahead
  <2> QED
    BY <1>t, <1>0, <2>1, Appended
<1>8. AtEach("held", held', Conns, b, l)
  <2>0. \A m \in Msgs : In(m, held'[c]) <=> In(m, held[c]) \/ m = h
    BY <1>2, <1>7, Zenon
  <2>1. AtThis("held", held'[c], c, b, l)
    BY <1>3, <1>5, <1>s, <2>0, Zenon DEF AtThis
  <2>2. Only(st, ln, b, l, "held", c)
    BY <1>5, <1>s, Zenon DEF Only, Same
  <2> QED
    BY <1>t, <1>2, <2>1, <2>2, OneChanges, Zenon
<1>9. Placed(b, l)'
  <2> DEFINE A == {"pushing", "held"}
  <2>1. Within(st, ln, b, l, A)
    BY <1>5, <1>s, Zenon DEF Within, Same
  <2>2. /\ "local" \notin A /\ "sorted" \notin A /\ "queued" \notin A /\ "sent" \notin A
        /\ "pending" \notin A /\ "grouped" \notin A /\ "found" \notin A
    BY Zenon
  <2> HIDE DEF A
  <2> QED
    BY <1>t, <1>1, <1>4, <1>6, <1>8, <2>1, <2>2, PlacedAfter, Zenon
<1>10. Ordered(r)'
  <2>1. Rising(pushing'[i], r) /\ Rising(held'[c], r)
    BY <1>2, <1>r, <1>7, Zenon
  <2> QED
    BY <1>t, <1>1, <1>2, <2>1, Zenon DEF Ordered, Else
<1>11. Ahead(b, l, r)
  <2>1. Leave(st, ln, b, l, "pushing")
    BY <1>5, <1>s, <1>i, Zenon DEF Leave, Same, Down
  <2>2. First(st, ln, b, l, "pushing", r)
    <3> SUFFICES ASSUME NEW x \in Msgs, NEW y \in Msgs, st[x] = "pushing", st[y] = "pushing",
                        Down(st, ln, b, l, x), Same(st, ln, b, l, y), ln[x] = ln[y]
                 PROVE  r[x] < r[y]
      BY Zenon DEF First
    <3>1. x = h /\ y # h
      BY <1>5, <1>s, Zenon DEF Down, Same
    <3>2. In(y, Tail(pushing[i]))
      BY <1>3, <1>r, <1>s, <3>1, Zenon
    <3> QED
      BY <1>r, <3>1, <3>2, Zenon
  <2> QED
    BY <1>t, <2>1, <2>2, AheadKept, Zenon
<1>12. Fields(b, l, r)'
  <2>1. Field(h, "pushing", i, r[h])
    BY <1>t, <1>s, Zenon
  <2>2. Field(h, "held", c, r[h])
    BY <1>h, <2>1 DEF Field, OnItsWay, HandOut
  <2>3. \A m \in Msgs : Field(m, b[m], l[m], r[m])
    BY <1>t, <1>5, <2>2, Zenon
  <2> QED
    BY <1>1, <2>3, FieldsAfter, Zenon
<1> QED
  BY <1>9, <1>10, <1>11, <1>12, Zenon DEF Tracked, Ahead

(* push gives its first message to the collector. *)
GiveUp(i) ==
    /\ pushing[i] # <<>> /\ pushing' = [pushing EXCEPT ![i] = Tail(@)]
    /\ collQ' = Append(collQ, Head(pushing[i]))
    /\ Head(pushing[i]) \notin freed => conn[Head(pushing[i])] \in opened \ open
    /\ UNCHANGED <<localQ, slots, ioQ, held, sent, groups, found, conn, routed, newConn>>
    /\ UNCHANGED <<opened, open, claimed, freed>>

(* The message goes to the end of the collector's queue. *)
LEMMA GiveUpKeeps ==
    ASSUME RoutingTypes, NEW st, NEW ln, NEW r, Tracked(st, ln, r), NEW i \in Ios, GiveUp(i)
    PROVE  \E b, l, q : Tracked(b, l, q)'
<1>t. /\ Placed(st, ln) /\ st \in [Msgs -> Stage] /\ r \in [Msgs -> Nat] /\ Ahead(st, ln, r)
      /\ Rising(pushing[i], r) /\ Single(collQ) /\ Ordered(r)
      /\ AtEach("pushing", pushing, Ios, st, ln)
      /\ \A m \in Msgs : In(m, collQ) <=> st[m] = "pending"
      /\ \A m \in Msgs : Field(m, st[m], ln[m], r[m])
  BY TrackedLists, Zenon DEF Tracked
<1>0. collQ \in Seq(Msgs) /\ pushing[i] \in Seq(Msgs) /\ DOMAIN pushing = Ios
      /\ pushing[i] # <<>>
  BY DEF RoutingTypes, GiveUp
<1>1. /\ UNCHANGED <<localQ, slots, ioQ, sent, held, groups, found, conn, routed, newConn>>
      /\ UNCHANGED <<opened, open, claimed, freed>>
  BY Zenon DEF GiveUp
<1>h. PICK h \in Msgs : h = Head(pushing[i])
  BY <1>0, Rest
<1>2. /\ pushing'[i] = Tail(pushing[i]) /\ collQ' = Append(collQ, h)
      /\ Else(pushing, pushing', Ios, i)
  BY <1>0, <1>h DEF Else, GiveUp
<1>3. \A m \in Msgs : In(m, pushing[i]) <=> st[m] = "pushing" /\ ln[m] = i
  BY <1>t, Zenon DEF AtEach
<1>r. /\ \A m : In(m, pushing[i]) <=> m = h \/ In(m, Tail(pushing[i]))
      /\ ~In(h, Tail(pushing[i])) /\ Rising(Tail(pushing[i]), r)
  <2>1. Single(pushing[i])
    BY <1>t, <1>0, RisingSingle
  <2> QED
    BY <1>t, <1>0, <1>h, <2>1, Rest
<1>s. st[h] = "pushing" /\ ln[h] = i
  BY <1>3, <1>r, Zenon
<1> DEFINE P == {h}
<1>p. PICK b : Marks(b, st, P, "pending")
  BY Zenon DEF Marks
<1>4. /\ b \in [Msgs -> Stage]
      /\ \A m \in Msgs : (m \in P => b[m] = "pending") /\ (m \notin P => b[m] = st[m])
  <2>1. "pending" \in Stage /\ st \in [Msgs -> Stage]
    BY <1>t DEF Stage
  <2> HIDE DEF P
  <2> QED
    BY <1>p, <2>1, Marked
<1>5. b[h] = "pending" /\ \A m \in Msgs : m # h => b[m] = st[m]
  BY <1>4, Zenon
<1>6. AtEach("pushing", pushing', Ios, b, ln)
  <2>1. AtThis("pushing", pushing'[i], i, b, ln)
    <3>1. \A m \in Msgs : In(m, pushing'[i]) <=> In(m, pushing[i]) /\ m # h
      BY <1>2, <1>r, Zenon
    <3> QED
      BY <1>3, <1>5, <3>1, Zenon DEF AtThis
  <2>2. Only(st, ln, b, ln, "pushing", i)
    BY <1>5, <1>s, Zenon DEF Only, Same
  <2> QED
    BY <1>t, <1>2, <2>1, <2>2, OneChanges, Zenon
<1>7. AtOne("pending", collQ', b) /\ Single(collQ')
  <2>1. ~In(h, collQ)
    BY <1>t, <1>s, Zenon
  <2>2. Single(collQ') /\ \A m : In(m, collQ') <=> In(m, collQ) \/ m = h
    BY <1>t, <1>0, <1>2, <2>1, Appended
  <2> QED
    BY <1>t, <1>5, <2>2, Zenon DEF AtOne
<1>8. Placed(b, ln)'
  <2> DEFINE A == {"pushing", "pending"}
  <2>1. Within(st, ln, b, ln, A)
    BY <1>5, <1>s, Zenon DEF Within, Same
  <2>2. /\ "local" \notin A /\ "sorted" \notin A /\ "queued" \notin A /\ "sent" \notin A
        /\ "held" \notin A /\ "grouped" \notin A /\ "found" \notin A
    BY Zenon
  <2> HIDE DEF A
  <2> QED
    BY <1>t, <1>1, <1>4, <1>6, <1>7, <2>1, <2>2, PlacedAfter, Zenon
<1>9. Ordered(r)'
  <2>1. Rising(pushing'[i], r)
    BY <1>2, <1>r, Zenon
  <2> QED
    BY <1>t, <1>1, <1>2, <1>7, <2>1, Zenon DEF Ordered, Else
<1>10. Ahead(b, ln, r)
  <2>1. Leave(st, ln, b, ln, "pushing")
    BY <1>5, <1>s, Zenon DEF Leave, Same
  <2>2. First(st, ln, b, ln, "pushing", r)
    BY <1>5, <1>s, Zenon DEF First, Down, Same
  <2> QED
    BY <1>t, <2>1, <2>2, AheadKept, Zenon
<1>11. Fields(b, ln, r)'
  <2>1. Field(h, "pushing", i, r[h])
    BY <1>t, <1>s, Zenon
  <2>2. Field(h, "pending", i, r[h])
    BY <1>h, <2>1 DEF Field, OnItsWay, GiveUp
  <2>3. \A m \in Msgs : Field(m, b[m], ln[m], r[m])
    BY <1>t, <1>5, <1>s, <2>2, Zenon
  <2> QED
    BY <1>1, <2>3, FieldsAfter, Zenon
<1> QED
  BY <1>8, <1>9, <1>10, <1>11, Zenon DEF Tracked, Ahead

(* What push does with its first message: the connection it reads is that  *)
(* of the message, unless the message was freed.                           *)
LEMMA PushKeeps ==
    ASSUME RoutingTypes, Known, NEW st, NEW ln, NEW r, Tracked(st, ln, r), NEW i \in Ios,
           PushMessage(i)
    PROVE  \E b, l, q : Tracked(b, l, q)'
<1> DEFINE h == Head(pushing[i])
<1>1. /\ UNCHANGED <<localQ, slots, ioQ, sent, groups, found, conn, routed, newConn>>
      /\ UNCHANGED <<opened, open, claimed, freed>>
      /\ pushing[i] # <<>> /\ pushing' = [pushing EXCEPT ![i] = Tail(@)]
  BY Zenon DEF PushMessage, tableVars, routeVars
<1>2. PICK c \in ReadConn(h) :
         \/ /\ c \in open /\ IoOf[c] = i
            /\ held' = [held EXCEPT ![c] = Append(@, h)] /\ UNCHANGED collQ
         \/ /\ ~(c \in open /\ IoOf[c] = i)
            /\ collQ' = Append(collQ, h) /\ UNCHANGED held
  BY Zenon DEF PushMessage
<1>3. h \in Msgs /\ In(h, pushing[i])
  <2>1. pushing[i] \in Seq(Msgs)
    BY DEF RoutingTypes
  <2> QED
    BY <1>1, <2>1, Rest
<1>4. h \notin freed => c = conn[h]
  BY <1>2, Zenon DEF ReadConn
<1> HIDE DEF h
<1>5. CASE c \in open /\ IoOf[c] = i
  <2>1. c \in Conns
    BY <1>5, Zenon DEF RoutingTypes
  <2>2. HandOut(i, c)
    BY <1>1, <1>2, <1>4, <1>5, Zenon DEF HandOut, h
  <2> QED
    BY <2>1, <2>2, HandOutKeeps, Zenon
<1>6. CASE ~(c \in open /\ IoOf[c] = i)
  <2>0. AtEach("pushing", pushing, Ios, st, ln) /\ \A m \in Msgs : Field(m, st[m], ln[m], r[m])
    BY TrackedLists, Zenon
  <2>1. Field(h, st[h], ln[h], r[h]) /\ st[h] = "pushing" /\ ln[h] = i
    BY <1>3, <2>0, Zenon DEF AtEach
  <2>2. h \notin freed => conn[h] \in opened \ open
    <3> SUFFICES ASSUME h \notin freed
                 PROVE  conn[h] \in opened \ open
      OBVIOUS
    <3>1. conn[h] # NoConn /\ <<For[h], conn[h]>> \in claimed /\ IoOf[conn[h]] = i
      BY <2>1 DEF Field
    <3>2. conn[h] \in Conns /\ For[h] \in Users
      BY <1>3, <3>1, RoutingAssumption DEF RoutingTypes
    <3>3. conn[h] \in opened
      BY <3>1, <3>2, Zenon DEF Known
    <3> QED
      BY <1>4, <1>6, <3>1, <3>3, Zenon
  <2>3. GiveUp(i)
    BY <1>1, <1>2, <1>6, <2>2, Zenon DEF GiveUp, h
  <2> QED
    BY <2>3, GiveUpKeeps, Zenon
<1> QED
  BY <1>5, <1>6, Zenon

(* A connection closes: the first message of its push list goes to the     *)
(* collector, the others are lost.                                         *)
LEMMA CloseKeeps ==
    ASSUME RoutingTypes, NEW st, NEW ln, NEW r, Tracked(st, ln, r), NEW c \in Conns, Close(c),
           held[c] # <<>>
    PROVE  \E b, l, q : Tracked(b, l, q)'
<1>t. /\ Placed(st, ln) /\ st \in [Msgs -> Stage] /\ r \in [Msgs -> Nat] /\ Ahead(st, ln, r)
      /\ Single(collQ) /\ Ordered(r) /\ AtEach("held", held, Conns, st, ln)
      /\ \A m \in Msgs : In(m, collQ) <=> st[m] = "pending"
      /\ \A m \in Msgs : Field(m, st[m], ln[m], r[m])
  BY TrackedLists, Zenon DEF Tracked
<1>0. collQ \in Seq(Msgs) /\ held[c] \in Seq(Msgs) /\ DOMAIN held = Conns
  BY DEF RoutingTypes
<1>1. /\ UNCHANGED <<localQ, slots, ioQ, pushing, sent, groups, found, conn, routed, newConn>>
      /\ UNCHANGED <<opened, claimed, freed>> /\ open' = open \ {c} /\ c \in open
  BY Zenon DEF Close, routeVars
<1>h. PICK h \in Msgs : h = Head(held[c]) /\ In(h, held[c])
  BY <1>0, Rest
<1>2. held'[c] = <<>> /\ collQ' = Append(collQ, h) /\ Else(held, held', Conns, c)
  BY <1>0, <1>h DEF Else, Close
<1>3. \A m \in Msgs : In(m, held[c]) <=> st[m] = "held" /\ ln[m] = c
  BY <1>t, Zenon DEF AtEach
<1>s. st[h] = "held" /\ ln[h] = c
  BY <1>3, <1>h, Zenon
<1>n. "pending" \in Stage /\ "none" \in Stage
  BY DEF Stage
<1> DEFINE P == {m \in Msgs : st[m] = "held" /\ ln[m] = c}
<1>p. PICK a : Marks(a, st, P, "none")
  BY Zenon DEF Marks
<1>4. /\ a \in [Msgs -> Stage]
      /\ \A m \in Msgs : (m \in P => a[m] = "none") /\ (m \notin P => a[m] = st[m])
  <2>1. "none" \in Stage /\ st \in [Msgs -> Stage]
    BY <1>t, <1>n
  <2> HIDE DEF P
  <2> QED
    BY <1>p, <2>1, Marked
<1> DEFINE R == {h}
<1>q. PICK b : Marks(b, a, R, "pending")
  BY Zenon DEF Marks
<1>m. /\ b \in [Msgs -> Stage]
      /\ \A m \in Msgs : (m \in R => b[m] = "pending") /\ (m \notin R => b[m] = a[m])
  <2> HIDE DEF R
  <2> QED
    BY <1>q, <1>4, <1>n, Marked
<1>5. /\ b[h] = "pending"
      /\ \A m \in Msgs : m # h => \/ st[m] = "held" /\ ln[m] = c /\ b[m] = "none"
                                  \/ (st[m] # "held" \/ ln[m] # c) /\ b[m] = st[m]
  BY <1>4, <1>m, Zenon
<1>6. AtEach("held", held', Conns, b, ln)
  <2>0. \A m : ~In(m, held'[c])
    BY <1>2 DEF In
  <2>1. AtThis("held", held'[c], c, b, ln)
    BY <1>5, <2>0, Zenon DEF AtThis
  <2>2. Only(st, ln, b, ln, "held", c)
    BY <1>5, <1>s, Zenon DEF Only, Same
  <2> QED
    BY <1>t, <1>2, <2>1, <2>2, OneChanges, Zenon
<1>7. AtOne("pending", collQ', b) /\ Single(collQ')
  <2>1. ~In(h, collQ)
    BY <1>t, <1>s, Zenon
  <2>2. Single(collQ') /\ \A m : In(m, collQ') <=> In(m, collQ) \/ m = h
    BY <1>t, <1>0, <1>2, <2>1, Appended
  <2>3. \A m \in Msgs : In(m, collQ') <=> b[m] = "pending"
    BY <1>t, <1>5, <2>2, Zenon
  <2> QED
    BY <2>2, <2>3, Zenon DEF AtOne
<1>8. Placed(b, ln)'
  <2> DEFINE A == {"held", "none", "pending"}
  <2>1. Within(st, ln, b, ln, A)
    BY <1>5, <1>s, Zenon DEF Within, Same
  <2>2. /\ "local" \notin A /\ "sorted" \notin A /\ "queued" \notin A /\ "sent" \notin A
        /\ "pushing" \notin A /\ "grouped" \notin A /\ "found" \notin A
    BY Zenon
  <2> HIDE DEF A
  <2> QED
    BY <1>t, <1>1, <1>m, <1>6, <1>7, <2>1, <2>2, PlacedAfter, Zenon
<1>9. Ordered(r)'
  <2>1. Rising(held'[c], r)
    BY <1>2 DEF Rising
  <2> QED
    BY <1>t, <1>1, <1>2, <1>7, <2>1, Zenon DEF Ordered, Else
<1>10. Ahead(b, ln, r)
  <2>1. Leave(st, ln, b, ln, "held")
    BY <1>5, <1>s, Zenon DEF Leave, Same
  <2>2. First(st, ln, b, ln, "held", r)
    BY <1>5, <1>s, Zenon DEF First, Down, Same
  <2> QED
    BY <1>t, <2>1, <2>2, AheadKept, Zenon
<1>11. ASSUME NEW m \in Msgs
       PROVE  Field(m, b[m], ln[m], r[m])'
  <2>0. Field(m, st[m], ln[m], r[m])
    BY <1>t, Zenon
  <2>a. opened \ open \subseteq opened' \ open'
    BY <1>1, Zenon
  <2>1. CASE m = h
    <3>1. m \notin freed => conn[m] \in opened' \ open'
      <4>1. m \notin freed => conn[m] = c
        BY <1>s, <2>0, <2>1 DEF Field
      <4>2. c \in opened
        BY <1>1, Zenon DEF RoutingTypes
      <4> QED
        BY <1>1, <4>1, <4>2, Zenon
    <3>2. conn[m] # NoConn /\ <<For[m], conn[m]>> \in claimed
      BY <1>s, <2>0, <2>1 DEF Field
    <3>3. b[m] = "pending"
      BY <1>5, <2>1, Zenon
    <3> QED
      BY <1>1, <3>1, <3>2, <3>3 DEF Field, OnItsWay
  <2>2. CASE b[m] = st[m]
    BY <1>1, <2>0, <2>2, <2>a, FieldAfter, Zenon
  <2>3. CASE b[m] = "none"
    <3>1. Field(m, b[m], ln[m], r[m])
      BY <2>0, <2>3 DEF Field, OnItsWay
    <3> QED
      BY <1>1, <2>a, <3>1, FieldAfter, Zenon
  <2> QED
    BY <1>5, <2>1, <2>2, <2>3, Zenon
<1>12. Fields(b, ln, r)'
  BY <1>11, Zenon DEF Fields
<1> QED
  BY <1>8, <1>9, <1>10, <1>12, Zenon DEF Tracked, Ahead

(* The collector sorts its queue by user. *)
LEMMA TakePendingKeeps ==
    ASSUME RoutingTypes, NEW st, NEW ln, NEW r, Tracked(st, ln, r), TakePending
    PROVE  \E b, l, q : Tracked(b, l, q)'
<1>t. /\ Placed(st, ln) /\ st \in [Msgs -> Stage] /\ Ahead(st, ln, r)
      /\ Single(collQ) /\ Ordered(r) /\ AtEach("grouped", groups, Users, st, ln)
      /\ \A m \in Msgs : In(m, collQ) <=> st[m] = "pending"
      /\ \A m \in Msgs : Field(m, st[m], ln[m], r[m])
  BY TrackedLists, Zenon DEF Tracked
<1>0. collQ \in Seq(Msgs)
  BY DEF RoutingTypes
<1>1. /\ UNCHANGED <<localQ, slots, ioQ, pushing, held, sent, found, conn, routed, newConn>>
      /\ UNCHANGED <<opened, open, claimed, freed>> /\ collQ' = <<>>
      /\ \A u \in Users : groups[u] = <<>>
      /\ \A m : In(m, collQ) => m \notin freed
  BY Zenon DEF TakePending, tableVars, routeVars, ioVars, In
<1>2. \A u \in Users : /\ Single(groups'[u])
                       /\ \A m : In(m, groups'[u]) <=> In(m, collQ) /\ For[m] = u
  <2> SUFFICES ASSUME NEW u \in Users
               PROVE  /\ Single(groups'[u])
                      /\ \A m : In(m, groups'[u]) <=> In(m, collQ) /\ For[m] = u
    BY Zenon
  <2>1. PICK K : K = {k \in DOMAIN collQ : For[collQ[k]] = u}
    OBVIOUS
  <2>2. groups'[u] = SubSeqAt(collQ, K)
    BY <2>1, Zenon DEF TakePending
  <2>3. K \subseteq DOMAIN collQ
    BY <2>1, Zenon
  <2>s. Single(collQ)
    BY <1>t, Zenon
  <2>4. /\ \A y : In(y, SubSeqAt(collQ, K)) <=> \E k \in K : collQ[k] = y
        /\ Single(SubSeqAt(collQ, K))
    BY <1>0, <2>s, <2>3, Selected
  <2>5. \A y : (\E k \in K : collQ[k] = y) <=> In(y, collQ) /\ For[y] = u
    BY <2>1, Zenon DEF In
  <2> QED
    BY <2>2, <2>4, <2>5, Zenon
<1>e. \A m : ~In(m, <<>>)
  BY DEF In
<1>n. \A m \in Msgs : st[m] # "grouped"
  <2> SUFFICES ASSUME NEW m \in Msgs, st[m] = "grouped"
               PROVE  FALSE
    BY Zenon
  <2>1. For[m] = ln[m]
    BY <1>t, Zenon DEF Field
  <2>2. ln[m] \in Users
    BY <2>1, RoutingAssumption
  <2>3. In(m, groups[ln[m]])
    BY <1>t, <2>2, Zenon DEF AtEach
  <2> QED
    BY <1>1, <1>e, <2>2, <2>3, Zenon
<1> DEFINE P == {m \in Msgs : st[m] = "pending"}
<1>p. PICK b : Marks(b, st, P, "grouped")
  BY Zenon DEF Marks
<1>q. PICK l : l = [m \in Msgs |-> IF m \in P THEN For[m] ELSE ln[m]]
  BY Zenon
<1>4. /\ b \in [Msgs -> Stage]
      /\ \A m \in Msgs : (m \in P => b[m] = "grouped") /\ (m \notin P => b[m] = st[m])
  <2>1. "grouped" \in Stage /\ st \in [Msgs -> Stage]
    BY <1>t DEF Stage
  <2> HIDE DEF P
  <2> QED
    BY <1>p, <2>1, Marked
<1>5. \A m \in Msgs : \/ st[m] = "pending" /\ b[m] = "grouped" /\ l[m] = For[m]
                      \/ st[m] # "pending" /\ b[m] = st[m] /\ l[m] = ln[m]
  <2>1. \A m \in Msgs : (m \in P => l[m] = For[m]) /\ (m \notin P => l[m] = ln[m])
    <3> HIDE DEF P
    <3> QED
      BY <1>q, Zenon
  <2> QED
    BY <1>4, <2>1, Zenon
<1>6. AtEach("grouped", groups', Users, b, l)
  <2> SUFFICES ASSUME NEW u \in Users, NEW m \in Msgs
               PROVE  In(m, groups'[u]) <=> b[m] = "grouped" /\ l[m] = u
    BY Zenon DEF AtEach
  <2>1. In(m, groups'[u]) <=> st[m] = "pending" /\ For[m] = u
    BY <1>t, <1>2, Zenon
  <2> QED
    BY <1>5, <1>n, <2>1, Zenon
<1>7. AtOne("pending", collQ', b) /\ Single(collQ')
  <2>1. Single(collQ')
    BY <1>1 DEF Single
  <2> QED
    BY <1>1, <1>e, <1>5, <2>1, Zenon DEF AtOne
<1>8. Placed(b, l)'
  <2> DEFINE A == {"pending", "grouped"}
  <2>1. Within(st, ln, b, l, A)
    BY <1>5, Zenon DEF Within, Same
  <2>2. /\ "local" \notin A /\ "sorted" \notin A /\ "queued" \notin A /\ "sent" \notin A
        /\ "pushing" \notin A /\ "held" \notin A /\ "found" \notin A
    BY Zenon
  <2> HIDE DEF A
  <2> QED
    BY <1>t, <1>1, <1>4, <1>6, <1>7, <2>1, <2>2, PlacedAfter, Zenon
<1>9. Ordered(r)'
  BY <1>t, <1>1, <1>2, <1>7, Zenon DEF Ordered
<1>10. Ahead(b, l, r)
  <2>1. Leave(st, ln, b, l, "pending")
    BY <1>5, Zenon DEF Leave, Same
  <2>2. First(st, ln, b, l, "pending", r)
    BY <1>5, Zenon DEF First, Down, Same
  <2> QED
    BY <1>t, <2>1, <2>2, AheadKept, Zenon
<1>11. Fields(b, l, r)'
  <2>1. ASSUME NEW m \in Msgs, st[m] = "pending"
        PROVE  Field(m, "grouped", For[m], r[m])
    <3>1. Field(m, "pending", ln[m], r[m]) /\ m \notin freed
      BY <1>t, <1>1, <2>1, Zenon
    <3> QED
      BY <3>1 DEF Field, OnItsWay
  <2>2. \A m \in Msgs : Field(m, b[m], l[m], r[m])
    BY <1>t, <1>5, <2>1, Zenon
  <2> QED
    BY <1>1, <2>2, FieldsAfter, Zenon
<1> QED
  BY <1>8, <1>9, <1>10, <1>11, Zenon DEF Tracked, Ahead

(* failureRoute finds a newer connection for a group. *)
FindsNewer(u) ==
    /\ groups' = [groups EXCEPT ![u] = <<>>]
    /\ found = <<>> /\ found' = groups[u] /\ <<u, newConn'>> \in claimed
    /\ UNCHANGED <<localQ, slots, ioQ, pushing, held, sent, collQ, conn, routed>>
    /\ UNCHANGED <<opened, open, claimed, freed>>

(* The group becomes the list to route. *)
LEMMA FindsNewerKeeps ==
    ASSUME RoutingTypes, NEW st, NEW ln, NEW r, Tracked(st, ln, r), NEW u \in Users, FindsNewer(u)
    PROVE  \E b, l, q : Tracked(b, l, q)'
<1>t. /\ Placed(st, ln) /\ st \in [Msgs -> Stage] /\ Ahead(st, ln, r) /\ Single(groups[u])
      /\ Ordered(r) /\ AtEach("grouped", groups, Users, st, ln)
      /\ \A m \in Msgs : In(m, found) <=> st[m] = "found"
      /\ \A m \in Msgs : Field(m, st[m], ln[m], r[m])
  BY TrackedLists, Zenon DEF Tracked
<1>0. DOMAIN groups = Users
  BY DEF RoutingTypes
<1>1. /\ UNCHANGED <<localQ, slots, ioQ, pushing, held, sent, collQ, conn, routed>>
      /\ UNCHANGED <<opened, open, claimed, freed>> /\ found = <<>>
  BY Zenon DEF FindsNewer
<1>2. groups'[u] = <<>> /\ found' = groups[u] /\ Else(groups, groups', Users, u)
  BY <1>0 DEF Else, FindsNewer
<1>3. \A m \in Msgs : In(m, groups[u]) <=> st[m] = "grouped" /\ ln[m] = u
  BY <1>t, Zenon DEF AtEach
<1>e. \A m : ~In(m, <<>>)
  BY DEF In
<1>n. \A m \in Msgs : st[m] # "found"
  BY <1>t, <1>1, <1>e, Zenon
<1> DEFINE P == {m \in Msgs : st[m] = "grouped" /\ ln[m] = u}
<1>p. PICK b : Marks(b, st, P, "found")
  BY Zenon DEF Marks
<1>4. /\ b \in [Msgs -> Stage]
      /\ \A m \in Msgs : (m \in P => b[m] = "found") /\ (m \notin P => b[m] = st[m])
  <2>1. "found" \in Stage /\ st \in [Msgs -> Stage]
    BY <1>t DEF Stage
  <2> HIDE DEF P
  <2> QED
    BY <1>p, <2>1, Marked
<1>5. \A m \in Msgs : \/ st[m] = "grouped" /\ ln[m] = u /\ b[m] = "found"
                      \/ (st[m] # "grouped" \/ ln[m] # u) /\ b[m] = st[m]
  BY <1>4, Zenon
<1>6. AtEach("grouped", groups', Users, b, ln)
  <2>1. AtThis("grouped", groups'[u], u, b, ln)
    BY <1>2, <1>e, <1>5, Zenon DEF AtThis
  <2>2. Only(st, ln, b, ln, "grouped", u)
    BY <1>5, Zenon DEF Only, Same
  <2> QED
    BY <1>t, <1>2, <2>1, <2>2, OneChanges, Zenon
<1>7. AtOne("found", found', b) /\ Single(found')
  <2>1. \A m \in Msgs : In(m, found') <=> st[m] = "grouped" /\ ln[m] = u
    BY <1>2, <1>3, Zenon
  <2>2. \A m \in Msgs : In(m, found') <=> b[m] = "found"
    BY <1>5, <1>n, <2>1, Zenon
  <2> QED
    BY <1>t, <1>2, <2>2, Zenon DEF AtOne
<1>8. Placed(b, ln)'
  <2> DEFINE A == {"grouped", "found"}
  <2>1. Within(st, ln, b, ln, A)
    BY <1>5, Zenon DEF Within, Same
  <2>2. /\ "local" \notin A /\ "sorted" \notin A /\ "queued" \notin A /\ "sent" \notin A
        /\ "pushing" \notin A /\ "held" \notin A /\ "pending" \notin A
    BY Zenon
  <2> HIDE DEF A
  <2> QED
    BY <1>t, <1>1, <1>4, <1>6, <1>7, <2>1, <2>2, PlacedAfter, Zenon
<1>9. Ordered(r)'
  <2>1. Single(groups'[u])
    BY <1>2 DEF Single
  <2> QED
    BY <1>t, <1>1, <1>2, <1>7, <2>1, Zenon DEF Ordered, Else
<1>10. Ahead(b, ln, r)
  <2>1. Leave(st, ln, b, ln, "grouped")
    BY <1>5, Zenon DEF Leave, Same
  <2>2. First(st, ln, b, ln, "grouped", r)
    BY <1>5, Zenon DEF First, Down, Same
  <2> QED
    BY <1>t, <2>1, <2>2, AheadKept, Zenon
<1>11. ASSUME NEW m \in Msgs
       PROVE  Field(m, b[m], ln[m], r[m])'
  <2>0. Field(m, st[m], ln[m], r[m])
    BY <1>t, Zenon
  <2>1. CASE st[m] = "grouped" /\ ln[m] = u /\ b[m] = "found"
    <3>1. For[m] = u /\ conn[m] # NoConn /\ <<For[m], conn[m]>> \in claimed
      BY <2>0, <2>1 DEF Field
    <3>2. <<For[m], newConn'>> \in claimed'
      BY <1>1, <3>1, Zenon DEF FindsNewer
    <3> QED
      BY <1>1, <2>1, <3>1, <3>2 DEF Field, OnItsWay
  <2>2. CASE b[m] = st[m]
    BY <1>1, <1>n, <2>0, <2>2, FieldAfter, Zenon
  <2> QED
    BY <1>5, <2>1, <2>2, Zenon
<1>12. Fields(b, ln, r)'
  BY <1>11, Zenon DEF Fields
<1> QED
  BY <1>8, <1>9, <1>10, <1>12, Zenon DEF Tracked, Ahead

(* collect frees a group for which there is no newer connection. *)
FreesGroup(u) ==
    /\ groups' = [groups EXCEPT ![u] = <<>>] /\ freed \subseteq freed'
    /\ UNCHANGED <<localQ, slots, ioQ, pushing, held, sent, collQ, found, conn, routed, newConn>>
    /\ UNCHANGED <<opened, open, claimed>>

(* The group is in no list any more. *)
LEMMA FreesGroupKeeps ==
    ASSUME RoutingTypes, NEW st, NEW ln, NEW r, Tracked(st, ln, r), NEW u \in Users, FreesGroup(u)
    PROVE  \E b, l, q : Tracked(b, l, q)'
<1>t. /\ Placed(st, ln) /\ st \in [Msgs -> Stage] /\ Ahead(st, ln, r)
      /\ Ordered(r) /\ AtEach("grouped", groups, Users, st, ln)
      /\ \A m \in Msgs : Field(m, st[m], ln[m], r[m])
  BY TrackedLists, Zenon DEF Tracked
<1>0. DOMAIN groups = Users
  BY DEF RoutingTypes
<1>1. /\ UNCHANGED <<localQ, slots, ioQ, pushing, held, sent, collQ, found, conn, routed, newConn>>
      /\ UNCHANGED <<opened, open, claimed>> /\ freed \subseteq freed'
  BY Zenon DEF FreesGroup
<1>2. groups'[u] = <<>> /\ Else(groups, groups', Users, u)
  BY <1>0 DEF Else, FreesGroup
<1>e. \A m : ~In(m, <<>>)
  BY DEF In
<1> DEFINE P == {m \in Msgs : st[m] = "grouped" /\ ln[m] = u}
<1>p. PICK b : Marks(b, st, P, "none")
  BY Zenon DEF Marks
<1>4. /\ b \in [Msgs -> Stage]
      /\ \A m \in Msgs : (m \in P => b[m] = "none") /\ (m \notin P => b[m] = st[m])
  <2>1. "none" \in Stage /\ st \in [Msgs -> Stage]
    BY <1>t DEF Stage
  <2> HIDE DEF P
  <2> QED
    BY <1>p, <2>1, Marked
<1>5. \A m \in Msgs : \/ st[m] = "grouped" /\ ln[m] = u /\ b[m] = "none"
                      \/ (st[m] # "grouped" \/ ln[m] # u) /\ b[m] = st[m]
  BY <1>4, Zenon
<1>6. AtEach("grouped", groups', Users, b, ln)
  <2>1. AtThis("grouped", groups'[u], u, b, ln)
    BY <1>2, <1>e, <1>5, Zenon DEF AtThis
  <2>2. Only(st, ln, b, ln, "grouped", u)
    BY <1>5, Zenon DEF Only, Same
  <2> QED
    BY <1>t, <1>2, <2>1, <2>2, OneChanges, Zenon
<1>8. Placed(b, ln)'
  <2> DEFINE A == {"grouped", "none"}
  <2>1. Within(st, ln, b, ln, A)
    BY <1>5, Zenon DEF Within, Same
  <2>2. /\ "local" \notin A /\ "sorted" \notin A /\ "queued" \notin A /\ "sent" \notin A
        /\ "pushing" \notin A /\ "held" \notin A /\ "pending" \notin A /\ "found" \notin A
    BY Zenon
  <2> HIDE DEF A
  <2> QED
    BY <1>t, <1>1, <1>4, <1>6, <2>1, <2>2, PlacedAfter, Zenon
<1>9. Ordered(r)'
  <2>1. Single(groups'[u])
    BY <1>2 DEF Single
  <2> QED
    BY <1>t, <1>1, <1>2, <2>1, Zenon DEF Ordered, Else
<1>10. Ahead(b, ln, r)
  <2>1. Leave(st, ln, b, ln, "grouped")
    BY <1>5, Zenon DEF Leave, Same
  <2>2. First(st, ln, b, ln, "grouped", r)
    BY <1>5, Zenon DEF First, Down, Same
  <2> QED
    BY <1>t, <2>1, <2>2, AheadKept, Zenon
<1>11. Fields(b, ln, r)'
  <2>1. \A m \in Msgs : Field(m, "grouped", ln[m], r[m]) => Field(m, "none", ln[m], r[m])
    BY DEF Field, OnItsWay
  <2>2. \A m \in Msgs : Field(m, b[m], ln[m], r[m])
    BY <1>t, <1>5, <2>1, Zenon
  <2> QED
    BY <1>1, <2>2, FieldsAfter, Zenon
<1> QED
  BY <1>8, <1>9, <1>10, <1>11, Zenon DEF Tracked, Ahead

(* collect, for a group: a connection newer than those that failed is one, *)
(* and one of the user.                                                    *)
LEMMA LookForNewerKeeps ==
    ASSUME RoutingTypes, Known, NEW st, NEW ln, NEW r, Tracked(st, ln, r), NEW u \in Users,
           LookForNewer(u)
    PROVE  \E b, l, q : Tracked(b, l, q)'
<1>1. /\ groups' = [groups EXCEPT ![u] = <<>>] /\ found = <<>>
      /\ UNCHANGED <<localQ, slots, ioQ, pushing, held, sent, collQ, conn, routed>>
      /\ UNCHANGED <<opened, open, claimed>> /\ groups[u] # <<>>
  BY Zenon DEF LookForNewer, routeVars, ioVars
<1>2. CASE Newer(u, MaxConn(groups[u])) /\ found' = groups[u] /\ newConn' = table[u] /\ freed' = freed
  <2>1. groups[u] \in Seq(Msgs) /\ conn \in [Msgs -> Nat] /\ table[u] \in Nat
    <3>1. Conns \cup {NoConn} \subseteq Nat
      BY RoutingAssumption DEF NoConn
    <3>2. conn \in [Msgs -> Conns \cup {NoConn}] /\ table[u] \in Conns \cup {NoConn}
      BY Zenon DEF RoutingTypes
    <3>3. conn \in [Msgs -> Nat]
      BY <3>1, <3>2
    <3> QED
      BY <3>1, <3>2, <3>3, Zenon DEF RoutingTypes
  <2>2. PICK i \in DOMAIN groups[u] : MaxConn(groups[u]) = conn[groups[u][i]]
    BY <1>1, <2>1, Greatest
  <2>3. MaxConn(groups[u]) \in Nat
    BY <2>1, <2>2
  <2>4. table[u] # NoConn
    BY <1>2, <2>1, <2>3 DEF Newer, NoConn
  <2>5. <<u, newConn'>> \in claimed
    BY <1>2, <2>4, Zenon DEF Known
  <2>6. FindsNewer(u)
    BY <1>1, <1>2, <2>5, Zenon DEF FindsNewer
  <2> QED
    BY <2>6, FindsNewerKeeps, Zenon
<1>3. CASE freed \subseteq freed' /\ UNCHANGED <<found, newConn>>
  <2>1. FreesGroup(u)
    BY <1>1, <1>3, Zenon DEF FreesGroup
  <2> QED
    BY <2>1, FreesGroupKeeps, Zenon
<1> QED
  BY <1>2, <1>3, Zenon DEF LookForNewer

(* The router sorts its queue by the IO threads it reads. *)
Sorts(io) ==
    /\ \A k \in DOMAIN localQ : io[k] \in ReadIo(localQ[k])
    /\ \A i \in Ios : slots[i] = <<>>
    /\ \A i \in Ios : slots'[i] = SubSeqAt(localQ, {k \in DOMAIN localQ : io[k] = i})
    /\ localQ' = <<>>
    /\ UNCHANGED <<ioQ, pushing, held, sent, collQ, groups, found, conn, routed, newConn>>
    /\ UNCHANGED <<opened, open, claimed, freed>>

(* Each message goes to the slot read for it, in the order of the queue. *)
LEMMA SortsKeeps ==
    ASSUME RoutingTypes, NEW st, NEW ln, NEW r, Tracked(st, ln, r), NEW io, Sorts(io)
    PROVE  \E b, l, q : Tracked(b, l, q)'
<1>t. /\ Placed(st, ln) /\ st \in [Msgs -> Stage] /\ Ahead(st, ln, r) /\ r \in [Msgs -> Nat]
      /\ Rising(localQ, r) /\ Ordered(r) /\ AtEach("sorted", slots, Ios, st, ln)
      /\ \A m \in Msgs : In(m, localQ) <=> st[m] = "local"
      /\ \A m \in Msgs : Field(m, st[m], ln[m], r[m])
  BY TrackedLists, Zenon DEF Tracked
<1>0. localQ \in Seq(Msgs)
  BY DEF RoutingTypes
<1>1. /\ UNCHANGED <<ioQ, pushing, held, sent, collQ, groups, found, conn, routed, newConn>>
      /\ UNCHANGED <<opened, open, claimed, freed>> /\ localQ' = <<>>
      /\ \A i \in Ios : slots[i] = <<>>
  BY Zenon DEF Sorts
<1>s. \A j, k \in DOMAIN localQ : localQ[j] = localQ[k] => j = k
  BY <1>t, <1>0, RisingSingle DEF Single
<1>e. \A m : ~In(m, <<>>)
  BY DEF In
<1>n. \A m \in Msgs : st[m] = "sorted" => ln[m] \notin Ios
  <2> SUFFICES ASSUME NEW m \in Msgs, st[m] = "sorted", ln[m] \in Ios
               PROVE  FALSE
    BY Zenon
  <2>1. In(m, slots[ln[m]])
    BY <1>t, Zenon DEF AtEach
  <2> QED
    BY <1>1, <1>e, <2>1, Zenon
<1> DEFINE at(m) == CHOOSE k \in DOMAIN localQ : localQ[k] = m
<1>l. PICK l : l = [m \in Msgs |-> IF st[m] = "local" THEN io[at(m)] ELSE ln[m]]
  BY Zenon
<1>m. \A m \in Msgs : /\ st[m] # "local" => l[m] = ln[m]
                      /\ st[m] = "local" => \E k \in DOMAIN localQ : localQ[k] = m /\ l[m] = io[k]
  <2>1. \A m \in Msgs : st[m] = "local" => at(m) \in DOMAIN localQ /\ localQ[at(m)] = m
    BY <1>t, Zenon DEF In
  <2> HIDE DEF at
  <2>2. \A m \in Msgs : l[m] = IF st[m] = "local" THEN io[at(m)] ELSE ln[m]
    BY <1>l, Zenon
  <2> QED
    BY <2>1, <2>2, Zenon
<1>2. \A i \in Ios : /\ Rising(slots'[i], r)
                     /\ \A m \in Msgs : In(m, slots'[i]) <=> st[m] = "local" /\ l[m] = i
  <2> SUFFICES ASSUME NEW i \in Ios
               PROVE  /\ Rising(slots'[i], r)
                      /\ \A m \in Msgs : In(m, slots'[i]) <=> st[m] = "local" /\ l[m] = i
    BY Zenon
  <2>1. PICK K : K = {k \in DOMAIN localQ : io[k] = i}
    OBVIOUS
  <2>2. slots'[i] = SubSeqAt(localQ, K)
    BY <2>1, Zenon DEF Sorts
  <2>3. K \subseteq DOMAIN localQ
    BY <2>1, Zenon
  <2>r. Rising(localQ, r)
    BY <1>t, Zenon
  <2>4. /\ \A y : In(y, SubSeqAt(localQ, K)) <=> \E k \in K : localQ[k] = y
        /\ Rising(SubSeqAt(localQ, K), r)
    BY <1>0, <2>r, <2>3, Selected
  <2>5. \A m \in Msgs : (\E k \in K : localQ[k] = m) => st[m] = "local" /\ l[m] = i
    <3> SUFFICES ASSUME NEW m \in Msgs, NEW k \in K, localQ[k] = m
                 PROVE  st[m] = "local" /\ l[m] = i
      BY Zenon
    <3>1. k \in DOMAIN localQ /\ io[k] = i
      BY <2>1, Zenon
    <3>2. st[m] = "local"
      BY <1>t, <3>1, Zenon DEF In
    <3>3. PICK j \in DOMAIN localQ : localQ[j] = m /\ l[m] = io[j]
      BY <1>m, <3>2, Zenon
    <3> QED
      BY <1>s, <3>1, <3>2, <3>3, Zenon
  <2>6. \A m \in Msgs : st[m] = "local" /\ l[m] = i => \E k \in K : localQ[k] = m
    BY <1>m, <2>1, Zenon
  <2> QED
    BY <2>2, <2>4, <2>5, <2>6, Zenon
<1>k. "sorted" \in Stage /\ "none" \in Stage
  BY DEF Stage
<1> DEFINE P == {m \in Msgs : st[m] = "local"}
<1>p. PICK a : Marks(a, st, P, "none")
  BY Zenon DEF Marks
<1>3. /\ a \in [Msgs -> Stage]
      /\ \A m \in Msgs : (m \in P => a[m] = "none") /\ (m \notin P => a[m] = st[m])
  <2>1. "none" \in Stage /\ st \in [Msgs -> Stage]
    BY <1>t, <1>k
  <2> HIDE DEF P
  <2> QED
    BY <1>p, <2>1, Marked
<1> DEFINE R == {m \in Msgs : st[m] = "local" /\ l[m] \in Ios}
<1>q. PICK b : Marks(b, a, R, "sorted")
  BY Zenon DEF Marks
<1>4. /\ b \in [Msgs -> Stage]
      /\ \A m \in Msgs : (m \in R => b[m] = "sorted") /\ (m \notin R => b[m] = a[m])
  <2> HIDE DEF R
  <2> QED
    BY <1>q, <1>3, <1>k, Marked
<1>5. \A m \in Msgs : \/ st[m] = "local" /\ l[m] \in Ios /\ b[m] = "sorted"
                      \/ st[m] = "local" /\ l[m] \notin Ios /\ b[m] = "none"
                      \/ st[m] # "local" /\ b[m] = st[m] /\ l[m] = ln[m]
  BY <1>3, <1>4, <1>m, Zenon
<1>6. AtEach("sorted", slots', Ios, b, l)
  <2> SUFFICES ASSUME NEW i \in Ios, NEW m \in Msgs
               PROVE  In(m, slots'[i]) <=> b[m] = "sorted" /\ l[m] = i
    BY Zenon DEF AtEach
  <2>1. In(m, slots'[i]) <=> st[m] = "local" /\ l[m] = i
    BY <1>2, Zenon
  <2>2. ~(st[m] = "sorted" /\ ln[m] = i)
    BY <1>n, Zenon
  <2>3. CASE st[m] = "local"
    BY <1>5, <2>1, <2>3, Zenon
  <2>4. CASE st[m] # "local"
    BY <1>5, <2>1, <2>2, <2>4, Zenon
  <2> QED
    BY <2>3, <2>4, Zenon
<1>7. AtOne("local", localQ', b)
  BY <1>1, <1>e, <1>5, Zenon DEF AtOne
<1>8. Placed(b, l)'
  <2> DEFINE A == {"local", "sorted", "none"}
  <2>1. Within(st, ln, b, l, A)
    BY <1>5, Zenon DEF Within, Same
  <2>2. /\ "pending" \notin A /\ "grouped" \notin A /\ "queued" \notin A /\ "sent" \notin A
        /\ "pushing" \notin A /\ "held" \notin A /\ "found" \notin A
    BY Zenon
  <2> HIDE DEF A
  <2> QED
    BY <1>t, <1>1, <1>4, <1>6, <1>7, <2>1, <2>2, PlacedAfter, Zenon
<1>9. Ordered(r)'
  <2>1. Rising(localQ', r)
    BY <1>1 DEF Rising
  <2> QED
    BY <1>t, <1>1, <1>2, <2>1, Zenon DEF Ordered
<1>10. Ahead(b, l, r)
  <2>1. Leave(st, ln, b, l, "local")
    BY <1>5, Zenon DEF Leave, Same, Down
  <2>2. First(st, ln, b, l, "local", r)
    BY <1>5, Zenon DEF First, Same
  <2> QED
    BY <1>t, <2>1, <2>2, AheadKept, Zenon
<1>11. Fields(b, l, r)'
  <2>1. ASSUME NEW m \in Msgs, st[m] = "local"
        PROVE  Field(m, "sorted", l[m], r[m]) /\ Field(m, "none", l[m], r[m])
    <3>1. Field(m, "local", ln[m], r[m])
      BY <1>t, <2>1, Zenon
    <3>2. PICK k \in DOMAIN localQ : localQ[k] = m /\ l[m] = io[k]
      BY <1>m, <2>1, Zenon
    <3>3. m \notin freed => l[m] = IoOf[conn[m]]
      BY <3>2, Zenon DEF Sorts, ReadIo
    <3> QED
      BY <3>1, <3>3 DEF Field, OnItsWay
  <2>2. \A m \in Msgs : Field(m, b[m], l[m], r[m])
    BY <1>t, <1>5, <2>1, Zenon
  <2> QED
    BY <1>1, <2>2, FieldsAfter, Zenon
<1> QED
  BY <1>8, <1>9, <1>10, <1>11, Zenon DEF Tracked, Ahead

(* The router's thread, for whatever it reads. *)
LEMMA SortKeeps ==
    ASSUME RoutingTypes, NEW st, NEW ln, NEW r, Tracked(st, ln, r), Sort
    PROVE  \E b, l, q : Tracked(b, l, q)'
<1>1. PICK io : /\ \A k \in DOMAIN localQ : io[k] \in ReadIo(localQ[k])
                /\ slots' = [i \in Ios |->
                      SubSeqAt(localQ, {k \in DOMAIN localQ : io[k] = i})]
  BY Zenon DEF Sort
<1>2. \A i \in Ios : slots'[i] = SubSeqAt(localQ, {k \in DOMAIN localQ : io[k] = i})
  BY <1>1, Zenon
<1>3. /\ \A i \in Ios : slots[i] = <<>>
      /\ localQ' = <<>>
      /\ UNCHANGED <<ioQ, pushing, held, sent, collQ, groups, found, conn, routed, newConn>>
      /\ UNCHANGED <<opened, open, claimed, freed>>
  BY Zenon DEF Sort, tableVars, ioVars, collVars
<1>4. Sorts(io)
  BY <1>1, <1>2, <1>3, Zenon DEF Sorts
<1> QED
  BY <1>4, SortsKeeps, Zenon

(* A list whose messages keep their rank. *)
LEMMA RisingAlike ==
    ASSUME NEW s \in Seq(Msgs), NEW r, NEW q, Rising(s, r), \A m \in Msgs : In(m, s) => q[m] = r[m]
    PROVE  Rising(s, q)
<1>1. \A k \in DOMAIN s : s[k] \in Msgs
  OBVIOUS
<1>2. \A k \in DOMAIN s : q[s[k]] = r[s[k]]
  BY <1>1, Zenon DEF In
<1> QED
  BY <1>2, Zenon DEF Rising

Kept(st, q, r) == \A m \in Msgs : st[m] \in OnItsWay => q[m] = r[m]

(* Ranks of messages on their way are kept: so is the order of a list. *)
LEMMA StaysRising ==
    ASSUME NEW n \in OnItsWay, NEW f, NEW S, NEW st, NEW ln, NEW q, NEW r, NEW x \in S,
           AtEach(n, f, S, st, ln), Kept(st, q, r), f[x] \in Seq(Msgs), Rising(f[x], r)
    PROVE  Rising(f[x], q)
<1>1. \A m \in Msgs : In(m, f[x]) => st[m] = n
  BY Zenon DEF AtEach
<1>2. \A m \in Msgs : In(m, f[x]) => q[m] = r[m]
  BY <1>1, Zenon DEF Kept
<1> QED
  BY <1>2, RisingAlike, Zenon

(* The messages of a list are ranked behind all that was routed before. *)
Ranks(q, r, list, n) ==
    /\ q \in [Msgs -> Nat]
    /\ \A k \in DOMAIN list : q[list[k]] = n + k
    /\ \A m \in Msgs : ~In(m, list) => q[m] = r[m]

(* There are such ranks. *)
LEMMA Ranked ==
    ASSUME NEW list \in Seq(Msgs), Single(list), NEW r \in [Msgs -> Nat], NEW n \in Nat
    PROVE  \E q : Ranks(q, r, list, n)
<1> DEFINE at(m) == CHOOSE k \in DOMAIN list : list[k] = m
<1>1. PICK q : q = [m \in Msgs |-> IF In(m, list) THEN n + at(m) ELSE r[m]]
  BY Zenon
<1>2. \A m \in Msgs : In(m, list) => at(m) \in DOMAIN list /\ list[at(m)] = m
  BY Zenon DEF In
<1>3. \A k \in DOMAIN list : at(list[k]) = k
  BY Zenon DEF Single
<1> HIDE DEF at
<1>4. \A k \in DOMAIN list : k \in Nat /\ n + k \in Nat /\ list[k] \in Msgs
  OBVIOUS
<1>5. \A m \in Msgs : (IF In(m, list) THEN n + at(m) ELSE r[m]) \in Nat
  BY <1>2, <1>4, Zenon
<1>6. q \in [Msgs -> Nat]
  BY <1>1, <1>5, Zenon
<1>7. \A k \in DOMAIN list : q[list[k]] = n + k
  <2> SUFFICES ASSUME NEW k \in DOMAIN list
               PROVE  q[list[k]] = n + k
    BY Zenon
  <2>1. In(list[k], list) /\ list[k] \in Msgs
    BY <1>4, Zenon DEF In
  <2>2. q[list[k]] = n + at(list[k])
    BY <1>1, <2>1, Zenon
  <2> QED
    BY <1>3, <2>2, Zenon
<1>8. \A m \in Msgs : ~In(m, list) => q[m] = r[m]
  BY <1>1, Zenon
<1> QED
  BY <1>6, <1>7, <1>8, Zenon DEF Ranks

(* What such ranks are: beyond n along the list, and rising. *)
LEMMA RanksRise ==
    ASSUME NEW list \in Seq(Msgs), NEW q, NEW r, NEW n \in Nat, Ranks(q, r, list, n)
    PROVE  /\ Rising(list, q)
           /\ \A m \in Msgs : In(m, list) => \E k \in DOMAIN list : list[k] = m /\ q[m] = n + k
           /\ \A m \in Msgs : \A p \in 1..n : In(m, list) => p < q[m]
<1>1. \A k \in DOMAIN list : q[list[k]] = n + k /\ list[k] \in Msgs
  BY DEF Ranks
<1>2. \A k \in DOMAIN list : k \in Nat \ {0}
  OBVIOUS
<1>3. /\ \A j, k \in DOMAIN list : j < k => n + j < n + k
      /\ \A k \in DOMAIN list : \A p \in 1..n : p < n + k
  BY <1>2
<1>4. Rising(list, q)
  BY <1>1, <1>3, Zenon DEF Rising
<1>5. \A m \in Msgs : In(m, list) => \E k \in DOMAIN list : list[k] = m /\ q[m] = n + k
  BY <1>1, Zenon DEF In
<1> QED
  BY <1>3, <1>4, <1>5, Zenon

(* putList for a list whose messages are nowhere, or were found a newer    *)
(* connection for.                                                         *)
Puts(list, c, n) ==
    /\ PutList(list, c)
    /\ \A m \in Msgs : In(m, list) => <<For[m], c>> \in claimed
    /\ \/ n = "none" /\ found' = found
       \/ n = "found" /\ list = found /\ found' = <<>>
    /\ UNCHANGED <<ioQ, pushing, held, sent, collQ, groups, newConn>>
    /\ UNCHANGED <<opened, open, claimed, freed>>

(* A function on 1..n is a list. *)
LEMMA ListOf ==
    ASSUME NEW T, NEW n \in Nat, NEW p \in [1..n -> T]
    PROVE  p \in Seq(T) /\ Len(p) = n
  OBVIOUS

(* The places of a list behind another. *)
LEMMA JoinedPlaces ==
    ASSUME NEW T, NEW s \in Seq(T), NEW p \in Seq(T), NEW t, t = s \o p
    PROVE  /\ t \in Seq(T)
           /\ \A k \in DOMAIN s : k \in DOMAIN t /\ t[k] = s[k]
           /\ \A k \in 1..Len(p) : Len(s) + k \in DOMAIN t /\ t[Len(s) + k] = p[k]
  OBVIOUS

(* What putList adds to the history. *)
LEMMA Addition ==
    ASSUME NEW S, NEW C, NEW list \in Seq(S), NEW c \in C,
           NEW p, p = [i \in DOMAIN list |-> <<list[i], c>>]
    PROVE  p \in Seq(S \X C) /\ Len(p) = Len(list)
<1>1. PICK T : T = S \X C
  BY Zenon
<1>2. \A x \in S : <<x, c>> \in T
  BY <1>1
<1>3. DOMAIN list = 1..Len(list) /\ Len(list) \in Nat /\ \A i \in DOMAIN list : list[i] \in S
  OBVIOUS
<1>4. p = [i \in 1..Len(list) |-> <<list[i], c>>]
  BY <1>3, Zenon
<1>5. \A k \in 1..Len(list) : <<list[k], c>> \in T
  BY <1>2, <1>3, Zenon
<1>6. p \in [1..Len(list) -> T]
  BY <1>4, <1>5, Zenon
<1> QED
  BY <1>1, <1>3, <1>6, ListOf, Zenon

(* The history after putList: what was there, and the list behind it. *)
LEMMA HistoryGrows ==
    ASSUME NEW list \in Seq(Msgs), NEW c \in Conns, routed \in Seq(Msgs \X Conns),
           PutList(list, c)
    PROVE  /\ routed' \in Seq(Msgs \X Conns)
           /\ \A k \in DOMAIN routed : k \in DOMAIN routed' /\ routed'[k] = routed[k]
           /\ \A k \in DOMAIN list : /\ Len(routed) + k \in DOMAIN routed'
                                     /\ routed'[Len(routed) + k] = <<list[k], c>>
<1>1. PICK p : p = [i \in DOMAIN list |-> <<list[i], c>>]
  BY Zenon
<1>2. p \in Seq(Msgs \X Conns) /\ Len(p) = Len(list)
  BY <1>1, Addition
<1>3. PICK T : T = Msgs \X Conns
  BY Zenon
<1>4. routed \in Seq(T) /\ p \in Seq(T) /\ routed' = routed \o p
  BY <1>1, <1>2, <1>3, Zenon DEF PutList
<1>5. DOMAIN list = 1..Len(list) /\ \A k \in DOMAIN list : p[k] = <<list[k], c>>
  BY <1>1
<1>6. routed' \in Seq(T)
  BY <1>4
<1>7. \A k \in DOMAIN routed : k \in DOMAIN routed' /\ routed'[k] = routed[k]
  BY <1>4, JoinedPlaces
<1>8. \A k \in 1..Len(p) : Len(routed) + k \in DOMAIN routed' /\ routed'[Len(routed) + k] = p[k]
  BY <1>4, JoinedPlaces
<1>9. \A k \in DOMAIN list : /\ Len(routed) + k \in DOMAIN routed'
                             /\ routed'[Len(routed) + k] = <<list[k], c>>
  BY <1>2, <1>5, <1>8, Zenon
<1> QED
  BY <1>3, <1>6, <1>7, <1>9, Zenon

(* The fields after putList. *)
LEMMA PutsFields ==
    ASSUME RoutingTypes, NEW st, NEW ln, NEW r, Tracked(st, ln, r), NEW c \in Conns, NEW n,
           NEW list \in Seq(Msgs), Puts(list, c, n),
           NEW q, Ranks(q, r, list, Len(routed)), NEW b,
           \A m \in Msgs : In(m, list) => b[m] = "local",
           \A m \in Msgs : ~In(m, list) => b[m] = st[m]
    PROVE  Fields(b, ln, q)'
<1>0. routed \in Seq(Msgs \X Conns)
  BY Zenon DEF RoutingTypes
<1>1. \A m \in Msgs : (In(m, list) => conn'[m] = c) /\ (~In(m, list) => conn'[m] = conn[m])
  BY Zenon DEF Puts, PutList
<1>2. UNCHANGED <<newConn, opened, open, claimed, freed>>
  BY Zenon DEF Puts
<1>3. PutList(list, c)
  BY Zenon DEF Puts
<1>4. Len(routed) \in Nat
  BY <1>0
<1>5. \A k \in DOMAIN routed : k \in DOMAIN routed' /\ routed'[k] = routed[k]
  BY <1>0, <1>3, HistoryGrows
<1>6. \A k \in DOMAIN list : /\ Len(routed) + k \in DOMAIN routed'
                             /\ routed'[Len(routed) + k] = <<list[k], c>>
  BY <1>0, <1>3, HistoryGrows
<1>7. c # NoConn
  BY RoutingAssumption
<1> SUFFICES ASSUME NEW m \in Msgs
             PROVE  Field(m, b[m], ln[m], q[m])'
  BY Zenon DEF Fields
<1>8. CASE In(m, list)
  <2>1. b[m] = "local" /\ conn'[m] = c /\ <<For[m], c>> \in claimed'
    BY <1>1, <1>2, <1>8, Zenon DEF Puts
  <2>2. PICK k \in DOMAIN list : list[k] = m /\ q[m] = Len(routed) + k
    <3>1. PICK j \in DOMAIN list : list[j] = m
      BY <1>8, Zenon DEF In
    <3>2. q[list[j]] = Len(routed) + j
      BY Zenon DEF Ranks
    <3> QED
      BY <3>1, <3>2, Zenon
  <2>3. q[m] \in DOMAIN routed' /\ routed'[q[m]] = <<m, conn'[m]>>
    BY <1>6, <2>1, <2>2, Zenon
  <2> QED
    BY <1>7, <2>1, <2>3 DEF Field
<1>9. CASE ~In(m, list)
  <2>1. b[m] = st[m] /\ conn'[m] = conn[m]
    BY <1>1, <1>9, Zenon
  <2>2. q[m] = r[m]
    BY <1>9, Zenon DEF Ranks
  <2>3. Field(m, st[m], ln[m], r[m])
    BY TrackedLists, Zenon
  <2> QED
    BY <1>2, <1>5, <2>1, <2>2, <2>3, Zenon DEF Field
<1> QED
  BY <1>8, <1>9, Zenon

(* The lists after putList. *)
LEMMA PutsKeeps ==
    ASSUME RoutingTypes, NEW st, NEW ln, NEW r, Tracked(st, ln, r), NEW c \in Conns, NEW n,
           NEW list \in Seq(Msgs), Single(list), Puts(list, c, n),
           \A m \in Msgs : In(m, list) => st[m] = n
    PROVE  \E b, l, q : Tracked(b, l, q)'
<1>t. /\ Placed(st, ln) /\ st \in [Msgs -> Stage] /\ Ahead(st, ln, r) /\ r \in [Msgs -> Nat]
      /\ Rising(localQ, r) /\ Ordered(r)
      /\ \A m \in Msgs : In(m, localQ) <=> st[m] = "local"
      /\ \A m \in Msgs : In(m, found) <=> st[m] = "found"
      /\ \A m \in Msgs : Field(m, st[m], ln[m], r[m])
  BY TrackedLists, Zenon DEF Tracked
<1>0. localQ \in Seq(Msgs) /\ Len(routed) \in Nat /\ DOMAIN routed = 1..Len(routed)
  BY DEF RoutingTypes
<1>1. /\ UNCHANGED <<slots, ioQ, pushing, held, sent, collQ, groups>>
      /\ localQ' = localQ \o list
      /\ \/ n = "none" /\ found' = found
         \/ n = "found" /\ list = found /\ found' = <<>>
  BY Zenon DEF Puts, PutList
<1>n. n \notin OnItsWay /\ n # "pending" /\ n # "grouped" /\ "local" \in Stage
  BY <1>1 DEF OnItsWay, Stage
<1>2. PICK q : Ranks(q, r, list, Len(routed))
  BY <1>t, <1>0, Ranked
<1>3. /\ Rising(list, q) /\ q \in [Msgs -> Nat]
      /\ \A m \in Msgs : \A p \in DOMAIN routed : In(m, list) => p < q[m]
      /\ \A m \in Msgs : ~In(m, list) => q[m] = r[m]
  <2>1. /\ Rising(list, q)
        /\ \A m \in Msgs : \A p \in 1..Len(routed) : In(m, list) => p < q[m]
    BY <1>0, <1>2, RanksRise
  <2> QED
    BY <1>0, <1>2, <2>1, Zenon DEF Ranks
<1> DEFINE P == {m \in Msgs : In(m, list)}
<1>p. PICK b : Marks(b, st, P, "local")
  BY Zenon DEF Marks
<1>4. /\ b \in [Msgs -> Stage]
      /\ \A m \in Msgs : (m \in P => b[m] = "local") /\ (m \notin P => b[m] = st[m])
  <2>1. "local" \in Stage /\ st \in [Msgs -> Stage]
    BY <1>t, <1>n
  <2> HIDE DEF P
  <2>2. \A m \in Msgs : (IF m \in P THEN "local" ELSE st[m]) \in Stage
    BY <2>1, Zenon
  <2> QED
    BY <1>p, <2>2, Zenon DEF Marks
<1>5. \A m \in Msgs : \/ In(m, list) /\ st[m] = n /\ b[m] = "local"
                      \/ ~In(m, list) /\ b[m] = st[m]
  BY <1>4, Zenon
<1>6. \A m \in Msgs : st[m] \in OnItsWay => r[m] \in DOMAIN routed /\ ~In(m, list)
  BY <1>t, <1>5, <1>n, Zenon DEF Field
<1>w. "local" \in OnItsWay /\ "sorted" \in OnItsWay /\ "queued" \in OnItsWay
      /\ "pushing" \in OnItsWay /\ "held" \in OnItsWay /\ "sent" \in OnItsWay
  BY DEF OnItsWay
<1>7. /\ \A m : In(m, localQ \o list) <=> In(m, localQ) \/ In(m, list)
      /\ Rising(localQ \o list, q)
  <2>1. \A m \in Msgs : In(m, localQ) => q[m] = r[m] /\ r[m] \in DOMAIN routed
    BY <1>t, <1>3, <1>6, <1>w, Zenon
  <2>2. Rising(localQ, q)
    BY <1>t, <1>0, <2>1, RisingAlike
  <2>3. \A x, y \in Msgs : In(x, localQ) /\ In(y, list) => q[x] < q[y]
    BY <1>3, <2>1, Zenon
  <2> QED
    BY <1>0, <1>3, <2>2, <2>3, Joined
<1>8. AtOne("local", localQ', b)
  <2>1. \A m \in Msgs : In(m, localQ') <=> In(m, localQ) \/ In(m, list)
    BY <1>1, <1>7, Zenon
  <2> QED
    BY <1>t, <1>5, <2>1, Zenon DEF AtOne
<1>9. Placed(b, ln)'
  <2>1. (n = "none" /\ found' = found) \/ AtOne("found", found', b)
    <3>1. CASE n = "found" /\ list = found /\ found' = <<>>
      <4>1. \A m : ~In(m, found')
        BY <3>1 DEF In
      <4> QED
        BY <1>t, <1>5, <3>1, <4>1, Zenon DEF AtOne
    <3> QED
      BY <1>1, <3>1, Zenon
  <2>2. PICK A : A = {n, "local"}
    BY Zenon
  <2>3. Within(st, ln, b, ln, A)
    BY <1>5, <2>2, Zenon DEF Within, Same
  <2>4. /\ "sorted" \notin A /\ "queued" \notin A /\ "sent" \notin A /\ "pushing" \notin A
        /\ "held" \notin A /\ "pending" \notin A /\ "grouped" \notin A
        /\ n = "none" => "found" \notin A
    BY <1>n, <1>w, <2>2, Zenon
  <2> QED
    BY <1>t, <1>1, <1>4, <1>8, <2>1, <2>3, <2>4, PlacedAfter, Zenon
<1>10. Ordered(q)'
  <2>0. /\ AtEach("sorted", slots, Ios, st, ln) /\ AtEach("queued", ioQ, Ios, st, ln)
        /\ AtEach("pushing", pushing, Ios, st, ln) /\ AtEach("held", held, Conns, st, ln)
        /\ AtEach("sent", sent, Conns, st, ln)
    BY TrackedLists, Zenon
  <2>1. Kept(st, q, r)
    BY <1>3, <1>6, Zenon DEF Kept
  <2>2. \A i \in Ios : Rising(slots[i], q) /\ Rising(ioQ[i], q) /\ Rising(pushing[i], q)
    <3> SUFFICES ASSUME NEW i \in Ios
                 PROVE  Rising(slots[i], q) /\ Rising(ioQ[i], q) /\ Rising(pushing[i], q)
      BY Zenon
    <3>1. slots[i] \in Seq(Msgs) /\ ioQ[i] \in Seq(Msgs) /\ pushing[i] \in Seq(Msgs)
      BY DEF RoutingTypes
    <3>2. Rising(slots[i], r) /\ Rising(ioQ[i], r) /\ Rising(pushing[i], r)
      BY <1>t, Zenon DEF Ordered
    <3>3. Rising(slots[i], q)
      BY <1>w, <2>0, <2>1, <3>1, <3>2, StaysRising, Zenon
    <3>4. Rising(ioQ[i], q)
      BY <1>w, <2>0, <2>1, <3>1, <3>2, StaysRising, Zenon
    <3>5. Rising(pushing[i], q)
      BY <1>w, <2>0, <2>1, <3>1, <3>2, StaysRising, Zenon
    <3> QED
      BY <3>3, <3>4, <3>5, Zenon
  <2>3. \A d \in Conns : Rising(held[d], q) /\ Rising(sent[d], q)
    <3> SUFFICES ASSUME NEW d \in Conns
                 PROVE  Rising(held[d], q) /\ Rising(sent[d], q)
      BY Zenon
    <3>1. held[d] \in Seq(Msgs) /\ sent[d] \in Seq(Msgs)
      BY DEF RoutingTypes
    <3>2. Rising(held[d], r) /\ Rising(sent[d], r)
      BY <1>t, Zenon DEF Ordered
    <3>3. Rising(held[d], q)
      BY <1>w, <2>0, <2>1, <3>1, <3>2, StaysRising, Zenon
    <3>4. Rising(sent[d], q)
      BY <1>w, <2>0, <2>1, <3>1, <3>2, StaysRising, Zenon
    <3> QED
      BY <3>3, <3>4, Zenon
  <2>4. Single(found') /\ Single(collQ) /\ \A u \in Users : Single(groups[u])
    <3>1. Single(<<>>)
      BY DEF Single
    <3> QED
      BY <1>t, <1>1, <3>1, Zenon DEF Ordered
  <2>5. Rising(localQ', q)
    BY <1>1, <1>7, Zenon
  <2> QED
    BY <1>1, <1>3, <2>2, <2>3, <2>4, <2>5, Zenon DEF Ordered
<1>11. Ahead(b, ln, q)
  <2> SUFFICES ASSUME NEW x \in Msgs, NEW y \in Msgs, Before(b, ln, x, y)
               PROVE  q[x] < q[y]
    BY Zenon DEF Ahead
  <2>1. b[x] # "local" /\ b[x] \in OnItsWay /\ b[y] \in OnItsWay
    BY <1>w, Zenon DEF Before
  <2>2. ~In(x, list) /\ b[x] = st[x] /\ q[x] = r[x] /\ r[x] \in DOMAIN routed
    BY <1>3, <1>5, <1>6, <2>1, Zenon
  <2>3. CASE In(y, list)
    BY <1>3, <2>2, <2>3, Zenon
  <2>4. CASE ~In(y, list)
    <3>1. b[y] = st[y] /\ q[y] = r[y]
      BY <1>3, <1>5, <2>4, Zenon
    <3>2. Before(st, ln, x, y)
      BY <2>2, <3>1, Zenon DEF Before, Thread
    <3> QED
      BY <1>t, <2>2, <3>1, <3>2, Zenon DEF Ahead
  <2> QED
    BY <2>3, <2>4, Zenon
<1>12. Fields(b, ln, q)'
  <2>1. /\ \A m \in Msgs : In(m, list) => b[m] = "local"
        /\ \A m \in Msgs : ~In(m, list) => b[m] = st[m]
    BY <1>5, Zenon
  <2> QED
    BY <1>2, <2>1, PutsFields, Zenon
<1> QED
  BY <1>9, <1>10, <1>11, <1>12, Zenon DEF Tracked, Ahead

(* A worker routes the message it holds, for the first time. *)
LEMMA RouteKeeps ==
    ASSUME RoutingTypes, Known, NEW st, NEW ln, NEW r, Tracked(st, ln, r), NEW m \in Msgs,
           NEW c \in Conns, Route(m, c)
    PROVE  \E b, l, q : Tracked(b, l, q)'
<1>1. PICK list : list = <<m>>
  OBVIOUS
<1>2. list \in Seq(Msgs) /\ Single(list) /\ \A x : In(x, list) <=> x = m
  BY <1>1 DEF Single, In
<1>3. <<m, c>> \in inHand /\ PutList(list, c)
      /\ UNCHANGED <<ioQ, pushing, held, sent, collQ, groups, newConn, found>>
      /\ UNCHANGED <<opened, open, claimed, freed>>
  BY <1>1, Zenon DEF Route, ioVars, collVars
<1>4. conn[m] = NoConn /\ <<For[m], c>> \in claimed
  BY <1>3, Zenon DEF Known
<1>5. st[m] = "none"
  <2>1. Field(m, st[m], ln[m], r[m])
    BY TrackedLists, Zenon
  <2> QED
    BY <1>4, <2>1, Zenon DEF Field
<1>6. Puts(list, c, "none")
  BY <1>2, <1>3, <1>4, Zenon DEF Puts
<1>7. \A x \in Msgs : In(x, list) => st[x] = "none"
  BY <1>2, <1>5, Zenon
<1> QED
  BY <1>2, <1>6, <1>7, PutsKeeps, Zenon

(* failureRoute routes a group again. *)
LEMMA RouteAgainKeeps ==
    ASSUME RoutingTypes, NEW st, NEW ln, NEW r, Tracked(st, ln, r), RouteAgain
    PROVE  \E b, l, q : Tracked(b, l, q)'
<1>1. found \in Seq(Msgs) /\ found # <<>> /\ claimed \subseteq Claims
  BY DEF RoutingTypes, RouteAgain
<1>2. /\ Single(found) /\ \A m \in Msgs : In(m, found) => st[m] = "found"
      /\ \A m \in Msgs : Field(m, st[m], ln[m], r[m])
  BY TrackedLists, Zenon
<1>3. \A m \in Msgs : In(m, found) => <<For[m], newConn>> \in claimed
  BY <1>2, Zenon DEF Field
<1>4. newConn \in Conns
  <2>1. Head(found) \in Msgs /\ In(Head(found), found)
    BY <1>1, Rest
  <2>2. <<For[Head(found)], newConn>> \in Claims
    BY <1>1, <1>3, <2>1, Zenon
  <2> QED
    BY <2>2, RoutingAssumption
<1>5. /\ PutList(found, newConn) /\ found' = <<>>
      /\ UNCHANGED <<ioQ, pushing, held, sent, collQ, groups, newConn>>
      /\ UNCHANGED <<opened, open, claimed, freed>>
  BY Zenon DEF RouteAgain, tableVars, ioVars
<1>6. Puts(found, newConn, "found")
  BY <1>3, <1>5, Zenon DEF Puts
<1>7. \A m \in Msgs : In(m, found) => st[m] = "found"
  BY <1>2, Zenon
<1>8. Single(found)
  BY <1>2, Zenon
<1> QED
  BY <1>1, <1>4, <1>6, <1>7, <1>8, PutsKeeps, Zenon

-----------------------------------------------------------------------------
(* What the table and the workers know is kept by a step that changes      *)
(* neither them nor the messages.                                          *)
LEMMA KnownStays ==
    ASSUME Known, UNCHANGED <<table, claimed, inHand, conn>>, opened \subseteq opened'
    PROVE  Known'
  BY Zenon DEF Known

(* It is kept when a worker takes up a message for a connection of the     *)
(* message's user.                                                         *)
TakesUp(m, c) ==
    /\ Fresh(m) /\ <<For[m], c>> \in claimed' /\ c \in opened
    /\ claimed' \subseteq claimed \cup {<<For[m], c>>} /\ claimed \subseteq claimed'
    /\ inHand' = inHand \cup {<<m, c>>}
    /\ \A u \in Users : table'[u] = table[u] \/ <<u, table'[u]>> \in claimed'
    /\ UNCHANGED <<conn, opened>>

(* The worker is the only one to hold the message. *)
LEMMA TakesUpKnown ==
    ASSUME Known, NEW m \in Msgs, NEW c \in Conns, TakesUp(m, c)
    PROVE  Known'
<1>1. \A u \in Users : table'[u] # NoConn => <<u, table'[u]>> \in claimed'
  BY Zenon DEF Known, TakesUp
<1>2. ASSUME NEW u \in Users, NEW d \in Conns, <<u, d>> \in claimed'
      PROVE  d \in opened'
  <2>1. <<u, d>> \in claimed \/ <<u, d>> = <<For[m], c>>
    BY <1>2, Zenon DEF TakesUp
  <2>2. CASE <<u, d>> \in claimed
    BY <2>2, Zenon DEF Known, TakesUp
  <2>3. CASE <<u, d>> = <<For[m], c>>
    <3>1. d = c
      BY <2>3
    <3> QED
      BY <3>1, Zenon DEF TakesUp
  <2> QED
    BY <2>1, <2>2, <2>3, Zenon
<1>3. ASSUME NEW x \in Msgs, NEW d \in Conns, <<x, d>> \in inHand'
      PROVE  \/ <<x, d>> \in inHand /\ x # m
             \/ x = m /\ d = c
  <2>1. <<x, d>> \in inHand \/ <<x, d>> = <<m, c>>
    BY <1>3, Zenon DEF TakesUp
  <2>2. \A h \in inHand : h[1] # m
    BY Zenon DEF TakesUp, Fresh
  <2>3. <<x, d>> \in inHand => x # m
    BY <2>2
  <2> QED
    BY <2>1, <2>3
<1>4. ASSUME NEW x \in Msgs, NEW d \in Conns, <<x, d>> \in inHand'
      PROVE  conn'[x] = NoConn /\ <<For[x], d>> \in claimed'
  <2>1. CASE <<x, d>> \in inHand /\ x # m
    <3>1. conn[x] = NoConn /\ <<For[x], d>> \in claimed
      BY <2>1, Zenon DEF Known
    <3> QED
      BY <3>1, Zenon DEF TakesUp
  <2>2. CASE x = m /\ d = c
    BY <2>2, Zenon DEF TakesUp, Fresh
  <2> QED
    BY <1>3, <1>4, <2>1, <2>2, Zenon
<1>5. ASSUME NEW x \in Msgs, NEW d \in Conns, NEW e \in Conns,
             <<x, d>> \in inHand', <<x, e>> \in inHand'
      PROVE  d = e
  <2>1. (<<x, d>> \in inHand /\ x # m) \/ (x = m /\ d = c)
    BY <1>3, <1>5, Zenon
  <2>2. (<<x, e>> \in inHand /\ x # m) \/ (x = m /\ e = c)
    BY <1>3, <1>5, Zenon
  <2> QED
    BY <2>1, <2>2, Zenon DEF Known
<1> QED
  BY <1>1, <1>2, <1>4, <1>5, Zenon DEF Known

(* Every step keeps it: a message that is routed is no longer in a         *)
(* worker's hands.                                                         *)
LEMMA KnownKept ==
    ASSUME RoutingInv, [Next]_vars
    PROVE  Known'
<1>0. RoutingTypes /\ Known
  BY Zenon DEF RoutingInv
<1>1. ASSUME NEW c \in Conns, Open(c)
      PROVE  Known'
  BY <1>0, <1>1, KnownStays, Zenon DEF Open, routeVars
<1>2. ASSUME NEW c \in Conns, Close(c)
      PROVE  Known'
  BY <1>0, <1>2, KnownStays, Zenon DEF Close, routeVars
<1>3. ASSUME NEW m \in Msgs, NEW c \in Conns, Update(m, c)
      PROVE  Known'
  <2>1. /\ Fresh(m) /\ c \in opened /\ claimed' = claimed \cup {<<For[m], c>>}
        /\ inHand' = inHand \cup {<<m, c>>} /\ UNCHANGED <<conn, opened>>
        /\ table' = [table EXCEPT ![For[m]] = c]
    BY <1>3, Zenon DEF Update, routeVars
  <2>2. \A u \in Users : table'[u] = table[u] \/ (u = For[m] /\ table'[u] = c)
    <3>1. DOMAIN table = Users
      BY <1>0 DEF RoutingTypes
    <3> QED
      BY <2>1, <3>1
  <2>a. <<For[m], c>> \in claimed'
    BY <2>1, Zenon
  <2>3. \A u \in Users : table'[u] = table[u] \/ <<u, table'[u]>> \in claimed'
    BY <2>2, <2>a, Zenon
  <2>4. TakesUp(m, c)
    BY <2>1, <2>3, Zenon DEF TakesUp
  <2> QED
    BY <1>0, <2>4, TakesUpKnown, Zenon
<1>4. ASSUME NEW m \in Msgs, NEW c \in Conns, Acknowledge(m, c)
      PROVE  Known'
  <2>1. /\ Fresh(m) /\ claimed' = claimed \cup {<<For[m], c>>}
        /\ inHand' = inHand \cup {<<m, c>>} /\ UNCHANGED <<conn, opened, table>>
        /\ \E u \in Users : <<u, c>> \in claimed
    BY <1>4, Zenon DEF Acknowledge, routeVars
  <2>2. c \in opened
    BY <1>0, <2>1, Zenon DEF Known
  <2>4. TakesUp(m, c)
    BY <2>1, <2>2, Zenon DEF TakesUp
  <2> QED
    BY <1>0, <2>4, TakesUpKnown, Zenon
<1>5. ASSUME NEW m \in Msgs, LookUp(m)
      PROVE  Known'
  <2>0. For[m] \in Users
    BY RoutingAssumption
  <2>1. /\ Fresh(m) /\ inHand' = inHand \cup {<<m, table[For[m]]>>}
        /\ UNCHANGED <<conn, opened, table, claimed>> /\ table[For[m]] # NoConn
    BY <1>5, Zenon DEF LookUp, routeVars
  <2>2. <<For[m], table[For[m]]>> \in claimed
    BY <1>0, <2>0, <2>1, Zenon DEF Known
  <2>3. table[For[m]] \in Conns
    BY <1>0, <2>0, <2>1 DEF RoutingTypes
  <2>5. table[For[m]] \in opened
    BY <1>0, <2>0, <2>2, <2>3, Zenon DEF Known
  <2>4. TakesUp(m, table[For[m]])
    BY <2>1, <2>2, <2>5, Zenon DEF TakesUp
  <2> QED
    BY <1>0, <2>3, <2>4, TakesUpKnown, Zenon
<1>6. ASSUME NEW m \in Msgs, NEW c \in Conns, Route(m, c)
      PROVE  Known'
  <2>1. /\ <<m, c>> \in inHand /\ inHand' = inHand \ {<<m, c>>}
        /\ UNCHANGED <<opened, table, claimed>>
        /\ conn' = [x \in Msgs |-> IF In(x, <<m>>) THEN c ELSE conn[x]]
    BY <1>6, Zenon DEF Route, PutList
  <2>2. \A x \in Msgs : x # m => conn'[x] = conn[x]
    <3>1. \A x : In(x, <<m>>) => x = m
      BY DEF In
    <3> QED
      BY <2>1, <3>1, Zenon
  <2>3. \A d \in Conns : <<m, d>> \in inHand' => FALSE
    <3> SUFFICES ASSUME NEW d \in Conns, <<m, d>> \in inHand'
                 PROVE  FALSE
      BY Zenon
    <3>1. <<m, d>> \in inHand /\ <<m, d>> # <<m, c>>
      BY <2>1, Zenon
    <3>2. d = c
      BY <1>0, <2>1, <3>1, Zenon DEF Known
    <3> QED
      BY <3>1, <3>2, Zenon
  <2>4. ASSUME NEW x \in Msgs, NEW d \in Conns, <<x, d>> \in inHand'
        PROVE  conn'[x] = NoConn /\ <<For[x], d>> \in claimed'
    <3>1. x # m /\ <<x, d>> \in inHand
      BY <2>1, <2>3, <2>4, Zenon
    <3>2. conn[x] = NoConn /\ <<For[x], d>> \in claimed
      BY <1>0, <3>1, Zenon DEF Known
    <3> QED
      BY <2>1, <2>2, <3>1, <3>2, Zenon
  <2>5. /\ \A u \in Users : table'[u] # NoConn => <<u, table'[u]>> \in claimed'
        /\ \A u \in Users : \A d \in Conns : <<u, d>> \in claimed' => d \in opened'
        /\ \A x \in Msgs : \A d, e \in Conns :
              <<x, d>> \in inHand' /\ <<x, e>> \in inHand' => d = e
    BY <1>0, <2>1, Zenon DEF Known
  <2> QED
    BY <2>4, <2>5, Zenon DEF Known
<1>7. ASSUME Sort
      PROVE  Known'
  BY <1>0, <1>7, KnownStays, Zenon DEF Sort, tableVars
<1>8. ASSUME NEW i \in Ios, Dispatch(i) \/ StartPush(i) \/ PushMessage(i)
      PROVE  Known'
  BY <1>0, <1>8, KnownStays, Zenon DEF Dispatch, StartPush, PushMessage, tableVars, routeVars
<1>9. ASSUME NEW c \in Conns, Send(c)
      PROVE  Known'
  BY <1>0, <1>9, KnownStays, Zenon DEF Send, tableVars, routeVars
<1>10. ASSUME TakePending \/ FreeRouted
       PROVE  Known'
  BY <1>0, <1>10, KnownStays, Zenon DEF TakePending, FreeRouted, tableVars, routeVars
<1>11. ASSUME NEW u \in Users, LookForNewer(u)
       PROVE  Known'
  <2>1. /\ UNCHANGED <<opened, claimed, inHand, conn>>
        /\ table' = table \/ table' = [table EXCEPT ![u] = NoConn]
    BY <1>11, Zenon DEF LookForNewer, routeVars, Unset
  <2>2. \A x \in Users : table'[x] = table[x] \/ table'[x] = NoConn
    <3>1. DOMAIN table = Users
      BY <1>0 DEF RoutingTypes
    <3> QED
      BY <2>1, <3>1
  <2> QED
    BY <1>0, <2>1, <2>2, Zenon DEF Known
<1>12. ASSUME RouteAgain
       PROVE  Known'
  <2>1. /\ UNCHANGED <<opened, claimed, inHand, table>>
        /\ conn' = [x \in Msgs |-> IF In(x, found) THEN newConn ELSE conn[x]]
    BY <1>12, Zenon DEF RouteAgain, PutList, tableVars
  <2>2. \A m \in Msgs : In(m, found) => conn[m] # NoConn
    <3>1. PICK st, ln, r : Tracked(st, ln, r)
      BY Zenon DEF RoutingInv
    <3>2. /\ \A m \in Msgs : In(m, found) => st[m] = "found"
          /\ \A m \in Msgs : Field(m, st[m], ln[m], r[m])
      BY <3>1, TrackedLists, Zenon
    <3> SUFFICES ASSUME NEW m \in Msgs, In(m, found)
                 PROVE  conn[m] # NoConn
      BY Zenon
    <3>3. Field(m, "found", ln[m], r[m])
      BY <3>2, Zenon
    <3> QED
      BY <3>3 DEF Field
  <2>3. \A m \in Msgs : conn[m] = NoConn => conn'[m] = NoConn
    BY <2>1, <2>2, Zenon
  <2>4. ASSUME NEW x \in Msgs, NEW d \in Conns, <<x, d>> \in inHand'
        PROVE  conn'[x] = NoConn /\ <<For[x], d>> \in claimed'
    <3>1. conn[x] = NoConn /\ <<For[x], d>> \in claimed
      BY <1>0, <2>1, <2>4, Zenon DEF Known
    <3> QED
      BY <2>1, <2>3, <3>1, Zenon
  <2>5. /\ \A u \in Users : table'[u] # NoConn => <<u, table'[u]>> \in claimed'
        /\ \A u \in Users : \A d \in Conns : <<u, d>> \in claimed' => d \in opened'
        /\ \A x \in Msgs : \A d, e \in Conns :
              <<x, d>> \in inHand' /\ <<x, e>> \in inHand' => d = e
    BY <1>0, <2>1, Zenon DEF Known
  <2> QED
    BY <2>4, <2>5, Zenon DEF Known
<1>13. CASE UNCHANGED vars
  BY <1>0, <1>13, KnownStays, Zenon DEF vars, tableVars, routeVars
<1> QED
  BY <1>1, <1>2, <1>3, <1>4, <1>5, <1>6, <1>7, <1>8, <1>9, <1>10, <1>11, <1>12, <1>13, Zenon
     DEF Next

(* Every step keeps the types. *)
LEMMA TypesKept ==
    ASSUME RoutingInv, [Next]_vars
    PROVE  RoutingTypes'
<1> USE DEF RoutingTypes
<1>0. RoutingTypes
  BY Zenon DEF RoutingInv
<1>1. ASSUME NEW c \in Conns, Open(c)
      PROVE  RoutingTypes'
  BY <1>0, <1>1, Zenon DEF Open, routeVars, ioVars, collVars
<1>2. ASSUME NEW c \in Conns, Close(c)
      PROVE  RoutingTypes'
  <2>1. collQ' \in Seq(Msgs)
    BY <1>0, <1>2 DEF Close
  <2>2. held' \in [Conns -> Seq(Msgs)]
    BY <1>0, <1>2 DEF Close
  <2> QED
    BY <1>0, <1>2, <2>1, <2>2, Zenon DEF Close, routeVars
<1>3. ASSUME NEW m \in Msgs, NEW c \in Conns, Update(m, c)
      PROVE  RoutingTypes'
  <2>1. table' \in [Users -> Conns \cup {NoConn}]
    BY <1>0, <1>3 DEF Update
  <2>2. inHand' \subseteq Msgs \X Conns
    BY <1>0, <1>3 DEF Update
  <2> QED
    BY <1>0, <1>3, <2>1, <2>2, Zenon DEF Update, routeVars, ioVars, collVars
<1>4. ASSUME NEW m \in Msgs, NEW c \in Conns, Acknowledge(m, c)
      PROVE  RoutingTypes'
  <2>1. inHand' \subseteq Msgs \X Conns
    BY <1>0, <1>4 DEF Acknowledge
  <2> QED
    BY <1>0, <1>4, <2>1, Zenon DEF Acknowledge, routeVars, ioVars, collVars
<1>5. ASSUME NEW m \in Msgs, LookUp(m)
      PROVE  RoutingTypes'
  <2>1. table[For[m]] \in Conns
    BY <1>0, <1>5, RoutingAssumption DEF LookUp
  <2>2. inHand' \subseteq Msgs \X Conns
    BY <1>0, <1>5, <2>1 DEF LookUp
  <2> QED
    BY <1>0, <1>5, <2>2, Zenon DEF LookUp, routeVars, ioVars, collVars
<1>p. ASSUME NEW list \in Seq(Msgs), NEW c \in Conns, PutList(list, c)
      PROVE  /\ conn' \in [Msgs -> Conns \cup {NoConn}] /\ localQ' \in Seq(Msgs)
             /\ routed' \in Seq(Msgs \X Conns)
  <2>1. conn' \in [Msgs -> Conns \cup {NoConn}]
    <3>1. conn' = [m \in Msgs |-> IF In(m, list) THEN c ELSE conn[m]]
      BY <1>p, Zenon DEF PutList
    <3> QED
      BY <1>0, <3>1
  <2>2. localQ' \in Seq(Msgs)
    <3>1. localQ' = localQ \o list
      BY <1>p, Zenon DEF PutList
    <3> QED
      BY <1>0, <3>1
  <2>4. routed \in Seq(Msgs \X Conns)
    BY <1>0, Zenon
  <2>6. routed' \in Seq(Msgs \X Conns)
    BY <1>p, <2>4, HistoryGrows
  <2> QED
    BY <2>1, <2>2, <2>6, Zenon
<1>6. ASSUME NEW m \in Msgs, NEW c \in Conns, Route(m, c)
      PROVE  RoutingTypes'
  <2>0. PutList(<<m>>, c) /\ <<m>> \in Seq(Msgs)
    BY <1>6 DEF Route
  <2>1. /\ conn' \in [Msgs -> Conns \cup {NoConn}] /\ localQ' \in Seq(Msgs)
        /\ routed' \in Seq(Msgs \X Conns)
    BY <1>p, <2>0, Zenon
  <2> QED
    BY <1>0, <1>6, <2>1, Zenon DEF Route, PutList, ioVars, collVars
<1>7. ASSUME Sort
      PROVE  RoutingTypes'
  <2>1. PICK io : /\ aborted' = \E k \in DOMAIN localQ : io[k] = BadIo
                  /\ slots' = [i \in Ios |->
                        SubSeqAt(localQ, {k \in DOMAIN localQ : io[k] = i})]
    BY <1>7, Zenon DEF Sort
  <2>2. \A i \in Ios : SubSeqAt(localQ, {k \in DOMAIN localQ : io[k] = i}) \in Seq(Msgs)
    <3> SUFFICES ASSUME NEW i \in Ios
                 PROVE  SubSeqAt(localQ, {k \in DOMAIN localQ : io[k] = i}) \in Seq(Msgs)
      BY Zenon
    <3>1. PICK K : K = {k \in DOMAIN localQ : io[k] = i}
      BY Zenon
    <3>2. K \subseteq DOMAIN localQ /\ localQ \in Seq(Msgs)
      BY <1>0, <3>1, Zenon
    <3>3. SubSeqAt(localQ, K) \in Seq(Msgs)
      BY <3>2, Selected
    <3> QED
      BY <3>1, <3>3, Zenon
  <2>3. slots' \in [Ios -> Seq(Msgs)]
    BY <2>1, <2>2, Zenon
  <2>4. aborted' \in BOOLEAN
    BY <2>1, Zenon
  <2>5. localQ' \in Seq(Msgs)
    BY <1>7 DEF Sort
  <2> QED
    BY <1>0, <1>7, <2>3, <2>4, <2>5, Zenon DEF Sort, tableVars, ioVars, collVars
<1>8. ASSUME NEW i \in Ios, Dispatch(i)
      PROVE  RoutingTypes'
  <2>1. ioQ' \in [Ios -> Seq(Msgs)]
    BY <1>0, <1>8 DEF Dispatch
  <2>2. slots' \in [Ios -> Seq(Msgs)]
    BY <1>0, <1>8 DEF Dispatch
  <2> QED
    BY <1>0, <1>8, <2>1, <2>2, Zenon DEF Dispatch, tableVars, collVars
<1>9. ASSUME NEW i \in Ios, StartPush(i)
      PROVE  RoutingTypes'
  <2>1. ioQ' \in [Ios -> Seq(Msgs)]
    BY <1>0, <1>9 DEF StartPush
  <2>2. pushing' \in [Ios -> Seq(Msgs)]
    BY <1>0, <1>9 DEF StartPush
  <2> QED
    BY <1>0, <1>9, <2>1, <2>2, Zenon DEF StartPush, tableVars, routeVars, collVars
<1>10. ASSUME NEW i \in Ios, PushMessage(i)
       PROVE  RoutingTypes'
  <2>0. pushing[i] \in Seq(Msgs) /\ pushing[i] # <<>>
    BY <1>0, <1>10 DEF PushMessage
  <2>1. PICK h \in Msgs : h = Head(pushing[i])
    BY <2>0
  <2>2. pushing' \in [Ios -> Seq(Msgs)]
    BY <1>0, <1>10, <2>0 DEF PushMessage
  <2>3. collQ' \in Seq(Msgs) /\ held' \in [Conns -> Seq(Msgs)]
    <3>1. PICK c : \/ c \in open /\ held' = [held EXCEPT ![c] = Append(@, h)] /\ UNCHANGED collQ
                   \/ collQ' = Append(collQ, h) /\ UNCHANGED held
      BY <1>10, <2>1, Zenon DEF PushMessage
    <3>2. collQ \in Seq(Msgs) /\ held \in [Conns -> Seq(Msgs)]
      BY <1>0, Zenon
    <3>3. Append(collQ, h) \in Seq(Msgs)
      BY <3>2
    <3>4. c \in open => [held EXCEPT ![c] = Append(held[c], h)] \in [Conns -> Seq(Msgs)]
      <4>1. c \in open => c \in Conns
        BY <1>0, Zenon
      <4> QED
        BY <3>2, <4>1
    <3> QED
      BY <3>1, <3>2, <3>3, <3>4, Zenon
  <2> QED
    BY <1>0, <1>10, <2>2, <2>3, Zenon DEF PushMessage, tableVars, routeVars
<1>11. ASSUME NEW c \in Conns, Send(c)
       PROVE  RoutingTypes'
  <2>0. held[c] \in Seq(Msgs) /\ held[c] # <<>>
    BY <1>0, <1>11 DEF Send
  <2>1. held' \in [Conns -> Seq(Msgs)]
    BY <1>0, <1>11, <2>0 DEF Send
  <2>2. sent' \in [Conns -> Seq(Msgs)]
    BY <1>0, <1>11, <2>0 DEF Send
  <2> QED
    BY <1>0, <1>11, <2>1, <2>2, Zenon DEF Send, tableVars, routeVars, collVars
<1>12. ASSUME TakePending
       PROVE  RoutingTypes'
  <2>1. \A u \in Users : SubSeqAt(collQ, {k \in DOMAIN collQ : For[collQ[k]] = u}) \in Seq(Msgs)
    <3> SUFFICES ASSUME NEW u \in Users
                 PROVE  SubSeqAt(collQ, {k \in DOMAIN collQ : For[collQ[k]] = u}) \in Seq(Msgs)
      BY Zenon
    <3>1. PICK K : K = {k \in DOMAIN collQ : For[collQ[k]] = u}
      BY Zenon
    <3>2. K \subseteq DOMAIN collQ /\ collQ \in Seq(Msgs)
      BY <1>0, <3>1, Zenon
    <3>3. SubSeqAt(collQ, K) \in Seq(Msgs)
      BY <3>2, Selected
    <3> QED
      BY <3>1, <3>3, Zenon
  <2>2. groups' \in [Users -> Seq(Msgs)]
    BY <1>12, <2>1, Zenon DEF TakePending
  <2>3. collQ' \in Seq(Msgs)
    BY <1>12 DEF TakePending
  <2> QED
    BY <1>0, <1>12, <2>2, <2>3, Zenon DEF TakePending, tableVars, routeVars, ioVars
<1>13. ASSUME NEW u \in Users, LookForNewer(u)
       PROVE  RoutingTypes'
  <2>0. groups[u] \in Seq(Msgs)
    BY <1>0
  <2>1. groups' \in [Users -> Seq(Msgs)]
    BY <1>0, <1>13 DEF LookForNewer
  <2>2. table' \in [Users -> Conns \cup {NoConn}]
    <3>1. table' = table \/ table' = [table EXCEPT ![u] = NoConn]
      BY <1>13, Zenon DEF LookForNewer, Unset
    <3> QED
      BY <1>0, <3>1
  <2>3. freed' \subseteq Msgs
    <3>1. freed' = freed \/ freed' = freed \cup {groups[u][i] : i \in DOMAIN groups[u]}
      BY <1>13, Zenon DEF LookForNewer
    <3>2. \A i \in DOMAIN groups[u] : groups[u][i] \in Msgs
      BY <2>0
    <3>3. freed \subseteq Msgs
      BY <1>0, Zenon
    <3>4. {groups[u][i] : i \in DOMAIN groups[u]} \subseteq Msgs
      BY <3>2, Zenon
    <3> QED
      BY <3>1, <3>3, <3>4, Zenon
  <2>4. found' \in Seq(Msgs) /\ newConn' \in Conns \cup {NoConn}
    <3>1. (found' = groups[u] /\ newConn' = table[u]) \/ UNCHANGED <<found, newConn>>
      BY <1>13, Zenon DEF LookForNewer
    <3>2. table[u] \in Conns \cup {NoConn}
      BY <1>0, Zenon
    <3> QED
      BY <1>0, <2>0, <3>1, <3>2, Zenon
  <2> QED
    BY <1>0, <1>13, <2>1, <2>2, <2>3, <2>4, Zenon DEF LookForNewer, routeVars, ioVars
<1>14. ASSUME RouteAgain
       PROVE  RoutingTypes'
  <2>0. found \in Seq(Msgs) /\ found # <<>> /\ claimed \subseteq Claims
    BY <1>0, <1>14 DEF RouteAgain
  <2>1. Head(found) \in Msgs /\ In(Head(found), found)
    BY <2>0, Rest
  <2>2. newConn \in Conns
    <3>1. PICK st, ln, r : Tracked(st, ln, r)
      BY Zenon DEF RoutingInv
    <3>2. /\ \A m \in Msgs : In(m, found) => st[m] = "found"
          /\ \A m \in Msgs : Field(m, st[m], ln[m], r[m])
      BY <3>1, TrackedLists, Zenon
    <3>3. <<For[Head(found)], newConn>> \in Claims
      BY <2>0, <2>1, <3>2, Zenon DEF Field
    <3> QED
      BY <3>3, RoutingAssumption
  <2>3. /\ conn' \in [Msgs -> Conns \cup {NoConn}] /\ localQ' \in Seq(Msgs)
        /\ routed' \in Seq(Msgs \X Conns)
    BY <1>14, <1>p, <2>0, <2>2, Zenon DEF RouteAgain
  <2>4. found' \in Seq(Msgs)
    BY <1>14 DEF RouteAgain
  <2> QED
    BY <1>0, <1>14, <2>1, <2>3, <2>4, Zenon DEF RouteAgain, PutList, tableVars, ioVars
<1>15. ASSUME FreeRouted
       PROVE  RoutingTypes'
  <2>1. walk' \in Msgs \cup {NoMsg} /\ freed' \subseteq Msgs
    BY <1>0, <1>15, Zenon DEF FreeRouted, Behind
  <2> QED
    BY <1>0, <1>15, <2>1, Zenon DEF FreeRouted, tableVars, routeVars, ioVars
<1>16. CASE UNCHANGED vars
  BY <1>0, <1>16, Zenon DEF vars, tableVars, routeVars, ioVars, collVars
<1> QED
  BY <1>1, <1>2, <1>3, <1>4, <1>5, <1>6, <1>7, <1>8, <1>9, <1>10, <1>11, <1>12, <1>13, <1>14,
     <1>15, <1>16, Zenon DEF Next

(* Every step leaves each message in one list, and the lists in order. *)
LEMMA TrackedKept ==
    ASSUME RoutingInv, [Next]_vars
    PROVE  (\E st, ln, r : Tracked(st, ln, r))'
<1>0. RoutingTypes /\ Known
  BY Zenon DEF RoutingInv
<1>1. PICK st, ln, r : Tracked(st, ln, r)
  BY Zenon DEF RoutingInv
<1> DEFINE Goal == (\E b, l, q : Tracked(b, l, q))'
<1>q. ASSUME UNCHANGED <<listVars, conn, routed, newConn>>, claimed \subseteq claimed',
             freed \subseteq freed', opened \ open \subseteq opened' \ open'
      PROVE  Goal
  <2>1. Tracked(st, ln, r)'
    BY <1>1, <1>q, QuietKeeps, Zenon
  <2> QED
    BY <2>1, Zenon
<1>2. ASSUME NEW c \in Conns, Open(c)
      PROVE  Goal
  <2>1. opened \ open \subseteq opened' \ open'
    BY <1>0, <1>2, Zenon DEF Open, RoutingTypes
  <2>2. UNCHANGED <<listVars, conn, routed, newConn, claimed, freed>>
    BY <1>2, Zenon DEF Open, routeVars, ioVars, collVars, listVars
  <2> QED
    BY <1>q, <2>1, <2>2, Zenon
<1>3. ASSUME NEW c \in Conns, Close(c)
      PROVE  Goal
  <2>1. CASE held[c] # <<>>
    BY <1>0, <1>1, <1>3, <2>1, CloseKeeps, Zenon
  <2>2. CASE held[c] = <<>>
    <3>1. held' = held
      <4>1. held \in [Conns -> Seq(Msgs)] /\ held' = [held EXCEPT ![c] = <<>>]
        BY <1>0, <1>3, Zenon DEF RoutingTypes, Close
      <4> QED
        BY <2>2, <4>1
    <3>2. UNCHANGED <<localQ, slots, ioQ, pushing, sent, collQ, groups, found, conn, routed,
                      newConn, claimed, freed>>
      BY <1>3, <2>2, Zenon DEF Close, routeVars
    <3>3. opened \ open \subseteq opened' \ open'
      BY <1>3, Zenon DEF Close
    <3>4. UNCHANGED <<listVars, conn, routed, newConn, claimed, freed>>
      BY <3>1, <3>2, Zenon DEF listVars
    <3> QED
      BY <1>q, <3>3, <3>4, Zenon
  <2> QED
    BY <2>1, <2>2, Zenon
<1>4. ASSUME NEW m \in Msgs, NEW c \in Conns, Update(m, c) \/ Acknowledge(m, c)
      PROVE  Goal
  <2>1. UNCHANGED <<listVars, conn, routed, newConn, opened, open, freed>>
    BY <1>4, Zenon DEF Update, Acknowledge, routeVars, ioVars, collVars, listVars
  <2>2. claimed \subseteq claimed'
    BY <1>4, Zenon DEF Update, Acknowledge
  <2> QED
    BY <1>q, <2>1, <2>2, Zenon
<1>5. ASSUME NEW m \in Msgs, LookUp(m)
      PROVE  Goal
  <2>1. UNCHANGED <<listVars, conn, routed, newConn, opened, open, freed, claimed>>
    BY <1>5, Zenon DEF LookUp, routeVars, ioVars, collVars, listVars
  <2> QED
    BY <1>q, <2>1, Zenon
<1>6. ASSUME NEW m \in Msgs, NEW c \in Conns, Route(m, c)
      PROVE  Goal
  BY <1>0, <1>1, <1>6, RouteKeeps, Zenon
<1>7. ASSUME Sort
      PROVE  Goal
  BY <1>0, <1>1, <1>7, SortKeeps, Zenon
<1>8. ASSUME NEW i \in Ios, Dispatch(i)
      PROVE  Goal
  BY <1>0, <1>1, <1>8, DispatchKeeps, Zenon
<1>9. ASSUME NEW i \in Ios, StartPush(i)
      PROVE  Goal
  BY <1>0, <1>1, <1>9, StartPushKeeps, Zenon
<1>10. ASSUME NEW i \in Ios, PushMessage(i)
       PROVE  Goal
  BY <1>0, <1>1, <1>10, PushKeeps, Zenon
<1>11. ASSUME NEW c \in Conns, Send(c)
       PROVE  Goal
  BY <1>0, <1>1, <1>11, SendKeeps, Zenon
<1>12. ASSUME TakePending
       PROVE  Goal
  BY <1>0, <1>1, <1>12, TakePendingKeeps, Zenon
<1>13. ASSUME NEW u \in Users, LookForNewer(u)
       PROVE  Goal
  BY <1>0, <1>1, <1>13, LookForNewerKeeps, Zenon
<1>14. ASSUME RouteAgain
       PROVE  Goal
  BY <1>0, <1>1, <1>14, RouteAgainKeeps, Zenon
<1>15. ASSUME FreeRouted
       PROVE  Goal
  <2>1. UNCHANGED <<listVars, conn, routed, newConn, opened, open, claimed>>
    BY <1>15, Zenon DEF FreeRouted, tableVars, routeVars, ioVars, listVars
  <2>2. freed \subseteq freed'
    BY <1>15, Zenon DEF FreeRouted
  <2> QED
    BY <1>q, <2>1, <2>2, Zenon
<1>16. CASE UNCHANGED vars
  <2>1. UNCHANGED <<listVars, conn, routed, newConn, opened, open, freed, claimed>>
    BY <1>16, Zenon DEF vars, tableVars, routeVars, ioVars, collVars, listVars
  <2> QED
    BY <1>q, <2>1, Zenon
<1> QED
  BY <1>2, <1>3, <1>4, <1>5, <1>6, <1>7, <1>8, <1>9, <1>10, <1>11, <1>12, <1>13, <1>14,
     <1>15, <1>16, Zenon DEF Next

(* At the start no message is anywhere. *)
LEMMA RoutingStarts ==
    ASSUME Init
    PROVE  RoutingInv
<1>e. /\ \A m : ~In(m, <<>>)
      /\ Single(<<>>) /\ \A r : Rising(<<>>, r)
      /\ \A S : <<>> \in Seq(S)
  BY DEF In, Single, Rising
<1>1. RoutingTypes
  <2>1. /\ localQ = <<>> /\ collQ = <<>> /\ found = <<>> /\ routed = <<>>
        /\ slots = [i \in Ios |-> <<>>] /\ ioQ = [i \in Ios |-> <<>>]
        /\ pushing = [i \in Ios |-> <<>>] /\ held = [c \in Conns |-> <<>>]
        /\ sent = [c \in Conns |-> <<>>] /\ groups = [u \in Users |-> <<>>]
    BY Zenon DEF Init
  <2>2. /\ localQ \in Seq(Msgs) /\ collQ \in Seq(Msgs) /\ found \in Seq(Msgs)
        /\ routed \in Seq(Msgs \X Conns)
        /\ slots \in [Ios -> Seq(Msgs)] /\ ioQ \in [Ios -> Seq(Msgs)]
        /\ pushing \in [Ios -> Seq(Msgs)]
        /\ held \in [Conns -> Seq(Msgs)] /\ sent \in [Conns -> Seq(Msgs)]
        /\ groups \in [Users -> Seq(Msgs)]
    BY <1>e, <2>1, Zenon
  <2>3. /\ table \in [Users -> Conns \cup {NoConn}] /\ conn \in [Msgs -> Conns \cup {NoConn}]
        /\ newConn \in Conns \cup {NoConn} /\ walk \in Msgs \cup {NoMsg}
        /\ open \subseteq opened /\ opened \subseteq Conns /\ claimed \subseteq Claims
        /\ inHand \subseteq Msgs \X Conns /\ freed \subseteq Msgs /\ aborted \in BOOLEAN
    BY Zenon DEF Init
  <2> QED
    BY <2>2, <2>3, Zenon DEF RoutingTypes
<1>2. Known
  BY Zenon DEF Init, Known
<1>3. PICK st : st = [m \in Msgs |-> "none"]
  BY Zenon
<1>4. PICK r : r = [m \in Msgs |-> 0]
  BY Zenon
<1>5. \A m \in Msgs : st[m] = "none"
  BY <1>3, Zenon
<1>6. Placed(st, st)
  <2>1. st \in [Msgs -> Stage]
    BY <1>3 DEF Stage
  <2>2. AtOne("local", localQ, st) /\ AtOne("pending", collQ, st) /\ AtOne("found", found, st)
    BY <1>e, <1>5, Zenon DEF AtOne, Init
  <2>3. /\ AtEach("sorted", slots, Ios, st, st) /\ AtEach("queued", ioQ, Ios, st, st)
        /\ AtEach("pushing", pushing, Ios, st, st)
    BY <1>e, <1>5, Zenon DEF AtEach, Init
  <2>4. /\ AtEach("held", held, Conns, st, st) /\ AtEach("sent", sent, Conns, st, st)
        /\ AtEach("grouped", groups, Users, st, st)
    BY <1>e, <1>5, Zenon DEF AtEach, Init
  <2> QED
    BY <2>1, <2>2, <2>3, <2>4, Zenon DEF Placed
<1>7. Ordered(r)
  <2>1. r \in [Msgs -> Nat]
    BY <1>4
  <2>2. Rising(localQ, r) /\ Single(collQ) /\ Single(found)
    BY <1>e, Zenon DEF Init
  <2>3. \A i \in Ios : Rising(slots[i], r) /\ Rising(ioQ[i], r) /\ Rising(pushing[i], r)
    BY <1>e, Zenon DEF Init
  <2>4. \A c \in Conns : Rising(held[c], r) /\ Rising(sent[c], r)
    BY <1>e, Zenon DEF Init
  <2>5. \A u \in Users : Single(groups[u])
    BY <1>e, Zenon DEF Init
  <2> QED
    BY <2>1, <2>2, <2>3, <2>4, <2>5, Zenon DEF Ordered
<1>8. Ahead(st, st, r)
  BY <1>5, Zenon DEF Ahead, Before
<1>9. Fields(st, st, r)
  <2>1. \A m \in Msgs : conn[m] = NoConn
    BY Zenon DEF Init
  <2>2. \A m \in Msgs : Field(m, "none", st[m], r[m])
    BY <2>1 DEF Field, OnItsWay
  <2> QED
    BY <1>5, <2>2, Zenon DEF Fields
<1> QED
  BY <1>1, <1>2, <1>6, <1>7, <1>8, <1>9, Zenon DEF RoutingInv, Tracked

(* The invariant of all the proofs below. *)
LEMMA RoutingInvariant == Spec => []RoutingInv
<1>1. Init => RoutingInv
  BY RoutingStarts
<1>2. RoutingInv /\ [Next]_vars => RoutingInv'
  <2> SUFFICES ASSUME RoutingInv, [Next]_vars
               PROVE  RoutingInv'
    OBVIOUS
  <2>1. RoutingTypes' /\ Known' /\ (\E st, ln, r : Tracked(st, ln, r))'
    BY TypesKept, KnownKept, TrackedKept, Zenon
  <2> QED
    BY <2>1, Zenon DEF RoutingInv
<1>3. QED
  BY <1>1, <1>2, PTL DEF Spec

-----------------------------------------------------------------------------
(* The types as TypeOK states them. *)
LEMMA TypesAsStated ==
    ASSUME RoutingTypes
    PROVE  TypeOK
  BY Zenon DEF RoutingTypes, TypeOK

(* A message that was not freed is held for, and sent on, a connection     *)
(* from which a frame of its user was accepted: the table and the fields   *)
(* of a message name no other, whatever becomes of the connection between  *)
(* the look-up and the push (RightUser).                                   *)
THEOREM RightUserAlways == Spec => []RightUser
<1>1. RoutingInv => RightUser
  <2> SUFFICES ASSUME RoutingInv
               PROVE  RightUser
    OBVIOUS
  <2>1. TypeOK
    BY TypesAsStated, Zenon DEF RoutingInv
  <2>2. PICK st, ln, r : Tracked(st, ln, r)
    BY Zenon DEF RoutingInv
  <2>3. /\ AtEach("held", held, Conns, st, ln) /\ AtEach("sent", sent, Conns, st, ln)
        /\ \A m \in Msgs : Field(m, st[m], ln[m], r[m])
    BY <2>2, TrackedLists, Zenon
  <2>4. ASSUME NEW c \in Conns, NEW m \in Msgs \ freed, In(m, held[c]) \/ In(m, sent[c])
        PROVE  <<For[m], c>> \in claimed
    <3>0. m \in Msgs /\ m \notin freed
      BY Zenon
    <3>a. In(m, held[c]) => st[m] = "held" /\ ln[m] = c
      BY <2>3, <3>0, Zenon DEF AtEach
    <3>b. In(m, sent[c]) => st[m] = "sent" /\ ln[m] = c
      BY <2>3, <3>0, Zenon DEF AtEach
    <3>1. st[m] \in {"sent", "held"} /\ ln[m] = c
      BY <2>4, <3>a, <3>b, Zenon
    <3>2. conn[m] = c /\ Field(m, st[m], ln[m], r[m])
      BY <2>3, <3>0, <3>1, Zenon DEF Field
    <3>3. conn[m] # NoConn
      BY <3>2, RoutingAssumption
    <3> QED
      BY <3>2, <3>3, Zenon DEF Field
  <2> QED
    BY <2>1, <2>4, Zenon DEF RightUser
<1>2. QED
  BY <1>1, RoutingInvariant, PTL

(* What is sent on a connection was routed to it in that order: no queue,  *)
(* no sorting by IO thread and no batch of the way overtakes (RouteOrder). *)
THEOREM SentInRouteOrder == Spec => []RouteOrder
<1>1. RoutingInv => RouteOrder
  <2> SUFFICES ASSUME RoutingInv, NEW c \in Conns, NEW i \in DOMAIN sent[c],
                      NEW j \in DOMAIN sent[c], i < j,
                      {sent[c][i], sent[c][j]} \cap freed = {}
               PROVE  \E p, q \in DOMAIN routed :
                         /\ p < q
                         /\ routed[p] = <<sent[c][i], c>>
                         /\ routed[q] = <<sent[c][j], c>>
    BY Zenon DEF RouteOrder
  <2>1. PICK st, ln, r : Tracked(st, ln, r)
    BY Zenon DEF RoutingInv
  <2>2. /\ AtEach("sent", sent, Conns, st, ln) /\ Rising(sent[c], r)
        /\ \A m \in Msgs : Field(m, st[m], ln[m], r[m])
    BY <2>1, TrackedLists, Zenon
  <2>3. sent[c] \in Seq(Msgs)
    BY DEF RoutingInv, RoutingTypes
  <2>4. PICK x, y \in Msgs : x = sent[c][i] /\ y = sent[c][j]
    BY <2>3
  <2>5. r[x] < r[y] /\ x \notin freed /\ y \notin freed /\ In(x, sent[c]) /\ In(y, sent[c])
    BY <2>2, <2>4, Zenon DEF Rising, In
  <2>6. st[x] = "sent" /\ ln[x] = c /\ st[y] = "sent" /\ ln[y] = c
    BY <2>2, <2>5, Zenon DEF AtEach
  <2>w. "sent" \in OnItsWay
    BY DEF OnItsWay
  <2>7. conn[x] = c /\ r[x] \in DOMAIN routed /\ routed[r[x]] = <<x, conn[x]>>
    BY <2>2, <2>5, <2>6, <2>w, Zenon DEF Field
  <2>8. conn[y] = c /\ r[y] \in DOMAIN routed /\ routed[r[y]] = <<y, conn[y]>>
    BY <2>2, <2>5, <2>6, <2>w, Zenon DEF Field
  <2> QED
    BY <2>4, <2>5, <2>7, <2>8, Zenon
<1>2. QED
  BY <1>1, RoutingInvariant, PTL

(* Of two different connection ids one is greater. *)
LEMMA AboveOrEqual == \A a, b \in Nat : ~(a > b) /\ b # a => b > a
  OBVIOUS

(* getOrUnset compares with the newest connection on which a message of    *)
(* the group has failed, which was one of the user and is closed: it does  *)
(* not remove an entry unless that one is newer (OpenEntryKept).           *)
THEOREM OpenEntriesStay == Spec => OpenEntryKept
<1>1. RoutingInv /\ [Next]_vars => EntryKept
  <2> SUFFICES ASSUME RoutingInv, [Next]_vars, NEW u \in Users, table[u] \in open,
                      table'[u] = NoConn
               PROVE  \E c \in opened \ open : c > table[u] /\ <<u, c>> \in claimed
    BY Zenon DEF EntryKept
  <2>0. /\ RoutingTypes /\ DOMAIN table = Users /\ table[u] \in Conns /\ NoConn \notin Conns
        /\ Conns \subseteq Nat
    <3>1. RoutingTypes /\ DOMAIN table = Users
      BY Zenon DEF RoutingInv, RoutingTypes
    <3>2. table[u] \in Conns
      BY <3>1, Zenon DEF RoutingTypes
    <3>3. NoConn \notin Conns /\ Conns \subseteq Nat
      BY RoutingAssumption, Zenon
    <3> QED
      BY <3>1, <3>2, <3>3, Zenon
  <2>a. table[u] # NoConn
    BY <2>0, Zenon
  <2>1. LookForNewer(u) /\ ~Newer(u, MaxConn(groups[u]))
    <3>1. table' # table
      BY <2>a, Zenon
    <3>2. ~(\E m \in Msgs, c \in Conns : Update(m, c))
      <4> SUFFICES ASSUME NEW m \in Msgs, NEW c \in Conns, table' = [table EXCEPT ![For[m]] = c]
                   PROVE  FALSE
        BY Zenon DEF Update
      <4>1. table'[u] = table[u] \/ table'[u] = c
        BY <2>0
      <4> QED
        BY <2>0, <2>a, <4>1, Zenon
    <3>3. PICK v \in Users : LookForNewer(v)
      BY <3>1, <3>2, Zenon DEF Next, Open, Close, Acknowledge, LookUp, Route, Sort, Dispatch,
         StartPush, PushMessage, Send, TakePending, RouteAgain, FreeRouted, vars, tableVars
    <3>4. ~Newer(v, MaxConn(groups[v])) /\ table' = [table EXCEPT ![v] = NoConn]
      BY <3>1, <3>3, Zenon DEF LookForNewer, Unset
    <3>5. u = v
      <4>1. u # v => table'[u] = table[u]
        BY <2>0, <3>4
      <4> QED
        BY <2>a, <4>1, Zenon
    <3> QED
      BY <3>3, <3>4, <3>5, Zenon
  <2>2. /\ groups[u] \in Seq(Msgs) /\ groups[u] # <<>>
    BY <2>0, <2>1 DEF RoutingTypes, LookForNewer
  <2>3. conn \in [Msgs -> Nat]
    <3>1. Conns \cup {NoConn} \subseteq Nat /\ conn \in [Msgs -> Conns \cup {NoConn}]
      BY <2>0 DEF RoutingTypes, NoConn
    <3> QED
      BY <3>1
  <2>4. PICK k \in DOMAIN groups[u] : MaxConn(groups[u]) = conn[groups[u][k]]
    BY <2>2, <2>3, Greatest
  <2>5. PICK m \in Msgs : m = groups[u][k] /\ In(m, groups[u])
    BY <2>2, <2>4 DEF In
  <2>6. PICK st, ln, r : Tracked(st, ln, r)
    BY Zenon DEF RoutingInv
  <2>7. AtEach("grouped", groups, Users, st, ln) /\ \A x \in Msgs : Field(x, st[x], ln[x], r[x])
    BY <2>6, TrackedLists, Zenon
  <2>8. st[m] = "grouped" /\ ln[m] = u
    BY <2>5, <2>7, Zenon DEF AtEach
  <2>9. Field(m, "grouped", u, r[m])
    BY <2>7, <2>8, Zenon
  <2>10. conn[m] \in opened \ open /\ <<u, conn[m]>> \in claimed
    BY <2>9 DEF Field
  <2>11. ~(table[u] > conn[m])
    BY <2>1, <2>4, <2>5, Zenon DEF Newer
  <2>12. conn[m] # table[u]
    BY <2>10, Zenon
  <2>13. conn[m] > table[u]
    <3>1. conn[m] \in Nat /\ table[u] \in Nat
      BY <2>0, <2>3, Zenon
    <3> QED
      BY <2>11, <2>12, <3>1, AboveOrEqual, Zenon
  <2> QED
    BY <2>10, <2>13, Zenon
<1>2. QED
  BY <1>1, RoutingInvariant, PTL DEF Spec, OpenEntryKept

=============================================================================
