--------------------------- MODULE NodeListsProof ---------------------------
(***************************************************************************)
(* Without(s, S) is a sequence of exactly the elements of s outside S, in  *)
(* the order they have in s.                                               *)
(***************************************************************************)
EXTENDS NodeLists, FiniteSetTheorems, TLAPS

\* Ranks grow strictly with the position.
LEMMA RankMonotonic ==
  ASSUME NEW I, I \subseteq Nat, IsFiniteSet(I),
         NEW i \in I, NEW k \in I, i < k
  PROVE  Rank(I, i) < Rank(I, k)
<1> DEFINE A == {x \in I : x <= i}
           B == {x \in I : x <= k}
<1>1. A \in SUBSET B /\ A # B /\ A \in SUBSET I /\ B \in SUBSET I
  <2>1. k \in B /\ k \notin A BY DEF A, B
  <2>2. \A x \in I : x <= i => x <= k OBVIOUS
  <2> QED BY <2>1, <2>2
<1>2. IsFiniteSet(A) /\ IsFiniteSet(B) BY <1>1, FS_Subset
<1>3. Cardinality(A) <= Cardinality(B) /\ Cardinality(B) # Cardinality(A)
  BY <1>1, <1>2, FS_Subset
<1>4. Cardinality(A) \in Nat /\ Cardinality(B) \in Nat
  BY <1>2, FS_CardinalityType
<1> QED BY <1>3, <1>4 DEF Rank

\* Different positions have different ranks.
LEMMA RankInjective ==
  ASSUME NEW I, I \subseteq Nat, IsFiniteSet(I),
         NEW i \in I, NEW k \in I, i # k,
         Rank(I, i) \in Int, Rank(I, k) \in Int
  PROVE  Rank(I, i) # Rank(I, k)
<1>1. CASE i < k
  <2>1. Rank(I, i) < Rank(I, k) BY <1>1, RankMonotonic
  <2> QED BY <2>1
<1>2. CASE k < i
  <2>1. Rank(I, k) < Rank(I, i) BY <1>2, RankMonotonic
  <2> QED BY <2>1
<1> QED BY <1>1, <1>2

\* The ranks of the positions in I are exactly 1 to the number of positions.
LEMMA RankOnto ==
  ASSUME NEW I, I \subseteq Nat, IsFiniteSet(I)
  PROVE  /\ Cardinality(I) \in Nat
         /\ \A i \in I : Rank(I, i) \in 1..Cardinality(I)
         /\ \A j \in 1..Cardinality(I) : \E i \in I : Rank(I, i) = j
<1> DEFINE N == Cardinality(I)
           f == [i \in I |-> Rank(I, i)]
<1>1. N \in Nat BY FS_CardinalityType
<1>2. \A i \in I : Rank(I, i) \in 1..N
  <2> TAKE i \in I
  <2> DEFINE A == {x \in I : x <= i}
  <2>1. A \in SUBSET I /\ i \in A OBVIOUS
  <2>2. IsFiniteSet(A) /\ Cardinality(A) <= N BY <2>1, FS_Subset
  <2>3. Cardinality(A) \in Nat /\ Cardinality(A) # 0
    BY <2>1, <2>2, FS_CardinalityType, FS_EmptySet
  <2> QED BY <1>1, <2>2, <2>3 DEF Rank
<1>3. f \in Injection(I, 1..N)
  <2>1. f \in [I -> 1..N] BY <1>2
  <2>2. \A i, k \in I : f[i] = f[k] => i = k
    <3> SUFFICES ASSUME NEW i \in I, NEW k \in I, i # k
                 PROVE  Rank(I, i) # Rank(I, k)
      OBVIOUS
    <3>1. Rank(I, i) \in Int /\ Rank(I, k) \in Int BY <1>1, <1>2
    <3> QED BY <3>1, RankInjective
  <2> QED BY <2>1, <2>2 DEF Injection, IsInjective
<1>4. IsFiniteSet(1..N) /\ Cardinality(1..N) = N BY <1>1, FS_Interval
<1>5. f \in Surjection(I, 1..N) BY <1>3, <1>4, FS_Injection
<1> QED BY <1>1, <1>2, <1>5 DEF Surjection

\* Deleting leaves a sequence over the same set, of exactly the other elements.
THEOREM WithoutProperties ==
  ASSUME NEW T, NEW s \in Seq(T), NEW S
  PROVE  /\ Without(s, S) \in Seq(T)
         /\ Range(Without(s, S)) = Range(s) \ S
<1> DEFINE I == Kept(s, S)
           pos(j) == CHOOSE i \in I : Rank(I, i) = j
           N == Cardinality(I)
           r == Without(s, S)
<1>1. I \subseteq Nat /\ IsFiniteSet(I) /\ I \subseteq DOMAIN s
  <2>1. DOMAIN s = 1..Len(s) /\ Len(s) \in Nat OBVIOUS
  <2>2. IsFiniteSet(1..Len(s)) BY <2>1, FS_Interval
  <2>3. I \in SUBSET (1..Len(s)) BY <2>1 DEF Kept
  <2> QED BY <2>1, <2>2, <2>3, FS_Subset
<1>2. /\ N \in Nat
      /\ \A i \in I : Rank(I, i) \in 1..N
      /\ \A j \in 1..N : \E i \in I : Rank(I, i) = j
  BY <1>1, RankOnto
<1>3. \A j \in 1..N : pos(j) \in I /\ Rank(I, pos(j)) = j BY <1>2
<1>4. r = [j \in 1..N |-> s[pos(j)]] BY DEF Without
<1>5. \A i \in I : s[i] \in T /\ s[i] \in Range(s) \ S
  BY <1>1 DEF Kept, Range
<1> HIDE DEF I, pos, N, r
<1>6. r \in [1..N -> T] BY <1>3, <1>4, <1>5
<1>7. r \in Seq(T) BY <1>2, <1>6
<1>8. Range(r) \subseteq Range(s) \ S BY <1>3, <1>4, <1>5 DEF Range
<1>9. ASSUME NEW x \in Range(s) \ S PROVE x \in Range(r)
  <2>1. PICK i \in DOMAIN s : s[i] = x BY DEF Range
  <2>2. i \in I BY <2>1 DEF I, Kept
  <2>3. Rank(I, i) \in 1..N BY <1>2, <2>2
  <2>4. pos(Rank(I, i)) = i
    <3>1. pos(Rank(I, i)) \in I /\ Rank(I, pos(Rank(I, i))) = Rank(I, i)
      BY <1>3, <2>3
    <3>2. ASSUME NEW k \in I, k # i PROVE Rank(I, k) # Rank(I, i)
      <4>1. Rank(I, k) \in Int /\ Rank(I, i) \in Int BY <1>2, <2>2
      <4> QED BY <1>1, <2>2, <3>2, <4>1, RankInjective
    <3> QED BY <3>1, <3>2
  <2>5. r[Rank(I, i)] = x BY <1>4, <2>1, <2>3, <2>4
  <2> QED BY <1>4, <2>3, <2>5 DEF Range
<1> QED BY <1>7, <1>8, <1>9 DEF r
\* The first element and the rest: nothing new comes in, and the first one is
\* not among the rest of a list without repetitions.
LEMMA TailProperties ==
  ASSUME NEW T, NEW s \in Seq(T), s # <<>>
  PROVE  /\ Head(s) \in T /\ Head(s) \in Range(s)
         /\ Tail(s) \in Seq(T)
         /\ Range(s) = {Head(s)} \union Range(Tail(s))
         /\ IsInjective(s) => /\ IsInjective(Tail(s))
                              /\ Head(s) \notin Range(Tail(s))
<1>1. /\ Len(s) \in Nat /\ Len(s) > 0 /\ DOMAIN s = 1..Len(s)
      /\ Head(s) = s[1] /\ Tail(s) \in Seq(T)
      /\ DOMAIN Tail(s) = 1..(Len(s) - 1)
      /\ \A i \in 1..(Len(s) - 1) : Tail(s)[i] = s[i + 1]
  OBVIOUS
<1>2. Head(s) \in T /\ Head(s) \in Range(s) BY <1>1 DEF Range
<1>3. Range(Tail(s)) \subseteq Range(s)
  <2> SUFFICES ASSUME NEW i \in DOMAIN Tail(s) PROVE Tail(s)[i] \in Range(s)
    BY DEF Range
  <2>1. Tail(s)[i] = s[i + 1] /\ i + 1 \in DOMAIN s BY <1>1
  <2> QED BY <2>1 DEF Range
<1>4. ASSUME NEW i \in DOMAIN s
      PROVE  s[i] = Head(s) \/ s[i] \in Range(Tail(s))
  <2>1. CASE i = 1 BY <1>1, <2>1
  <2>2. CASE i # 1
    <3>1. i - 1 \in DOMAIN Tail(s) /\ Tail(s)[i - 1] = s[i] BY <1>1, <2>2
    <3> QED BY <3>1 DEF Range
  <2> QED BY <2>1, <2>2
<1>5. Range(s) = {Head(s)} \union Range(Tail(s))
  BY <1>2, <1>3, <1>4 DEF Range
<1>6. ASSUME IsInjective(s)
      PROVE  IsInjective(Tail(s)) /\ Head(s) \notin Range(Tail(s))
  <2>1. \A i, j \in 1..Len(s) : s[i] = s[j] => i = j
    BY <1>1, <1>6 DEF IsInjective
  <2>2. \A i, j \in 1..(Len(s) - 1) : Tail(s)[i] = Tail(s)[j] => i = j
    <3> TAKE i, j \in 1..(Len(s) - 1)
    <3>1. i + 1 \in 1..Len(s) /\ j + 1 \in 1..Len(s) BY <1>1
    <3>2. s[i + 1] = s[j + 1] => i + 1 = j + 1 BY <2>1, <3>1
    <3> QED BY <1>1, <3>2
  <2>3. \A i \in 1..(Len(s) - 1) : Tail(s)[i] # Head(s)
    <3> TAKE i \in 1..(Len(s) - 1)
    <3>1. i + 1 \in 1..Len(s) /\ 1 \in 1..Len(s) /\ i + 1 # 1 BY <1>1
    <3>2. s[i + 1] # s[1] BY <2>1, <3>1
    <3> QED BY <1>1, <3>2
  <2> QED BY <1>1, <2>2, <2>3 DEF IsInjective, Range
<1> QED BY <1>1, <1>2, <1>5, <1>6

\* Appending adds exactly the new element, and no repetition if it is new.
LEMMA AppendProps ==
  ASSUME NEW T, NEW s \in Seq(T), NEW x \in T
  PROVE  /\ Append(s, x) \in Seq(T)
         /\ Range(Append(s, x)) = Range(s) \union {x}
         /\ IsInjective(s) /\ x \notin Range(s) => IsInjective(Append(s, x))
<1> DEFINE a == Append(s, x)
<1>1. /\ Len(s) \in Nat /\ DOMAIN s = 1..Len(s)
      /\ a \in Seq(T) /\ DOMAIN a = 1..(Len(s) + 1)
      /\ a[Len(s) + 1] = x
      /\ \A i \in 1..Len(s) : a[i] = s[i]
  OBVIOUS
<1> HIDE DEF a
<1>2. ASSUME NEW i \in DOMAIN a
      PROVE  \/ i = Len(s) + 1 /\ a[i] = x
             \/ i \in DOMAIN s /\ a[i] = s[i]
  <2>1. i = Len(s) + 1 \/ i \in 1..Len(s) BY <1>1
  <2> QED BY <1>1, <2>1
<1>3. Range(a) \subseteq Range(s) \union {x} BY <1>2 DEF Range
<1>4. Range(s) \subseteq Range(a)
  <2> SUFFICES ASSUME NEW i \in DOMAIN s PROVE s[i] \in Range(a)
    BY DEF Range
  <2>1. i \in DOMAIN a /\ a[i] = s[i] BY <1>1
  <2> QED BY <2>1 DEF Range
<1>5. x \in Range(a)
  <2>1. Len(s) + 1 \in DOMAIN a BY <1>1
  <2> QED BY <1>1, <2>1 DEF Range
<1>6. ASSUME IsInjective(s), x \notin Range(s) PROVE IsInjective(a)
  <2> SUFFICES ASSUME NEW i \in DOMAIN a, NEW j \in DOMAIN a, a[i] = a[j]
               PROVE  i = j
    BY DEF IsInjective
  <2>1. \A k \in DOMAIN s : s[k] # x BY <1>6 DEF Range
  <2> QED BY <1>2, <1>6, <2>1 DEF IsInjective
<1> QED BY <1>1, <1>3, <1>4, <1>5, <1>6 DEF a

-----------------------------------------------------------------------------
(* The order of the nodes in a list *)

\* m stands somewhere before n in s
Prec(s, m, n) == \E i, j \in DOMAIN s : i < j /\ s[i] = m /\ s[j] = n

\* What stands before something, or behind something, is in the list.
LEMMA PrecRange ==
  ASSUME NEW s, NEW m, NEW n, Prec(s, m, n)
  PROVE  m \in Range(s) /\ n \in Range(s)
BY DEF Prec, Range

\* In a list without repetitions two nodes stand in one order.
LEMMA PrecAsymmetric ==
  ASSUME NEW T, NEW s \in Seq(T), IsInjective(s), NEW m, NEW n, Prec(s, m, n)
  PROVE  m # n /\ ~Prec(s, n, m)
<1>1. DOMAIN s = 1..Len(s) /\ Len(s) \in Nat OBVIOUS
<1>2. \A i, j \in 1..Len(s) : s[i] = s[j] => i = j BY <1>1 DEF IsInjective
<1>3. PICK i \in 1..Len(s), j \in 1..Len(s) : i < j /\ s[i] = m /\ s[j] = n
  BY <1>1 DEF Prec
<1>4. m # n BY <1>2, <1>3
<1>5. ASSUME Prec(s, n, m) PROVE FALSE
  <2>1. PICK a \in 1..Len(s), b \in 1..Len(s) : a < b /\ s[a] = n /\ s[b] = m
    BY <1>1, <1>5 DEF Prec
  <2>2. a = j /\ b = i BY <1>2, <1>3, <2>1
  <2> QED BY <1>3, <2>1, <2>2
<1> QED BY <1>4, <1>5

\* Two different nodes of a list stand in some order.
LEMMA PrecTotal ==
  ASSUME NEW T, NEW s \in Seq(T), NEW m \in Range(s), NEW n \in Range(s), m # n
  PROVE  Prec(s, m, n) \/ Prec(s, n, m)
<1>1. DOMAIN s = 1..Len(s) /\ Len(s) \in Nat OBVIOUS
<1>2. PICK i \in 1..Len(s), j \in 1..Len(s) : s[i] = m /\ s[j] = n
  BY <1>1 DEF Range
<1>3. i # j BY <1>2
<1>4. i < j \/ j < i BY <1>1, <1>3
<1> QED BY <1>1, <1>2, <1>4 DEF Prec

\* The head stands before all others.
LEMMA HeadFirst ==
  ASSUME NEW T, NEW s \in Seq(T), s # <<>>, NEW n \in Range(s), n # Head(s)
  PROVE  Prec(s, Head(s), n)
<1>1. /\ DOMAIN s = 1..Len(s) /\ Len(s) \in Nat /\ Len(s) > 0
      /\ Head(s) = s[1]
  OBVIOUS
<1>2. PICK j \in 1..Len(s) : s[j] = n BY <1>1 DEF Range
<1>3. 1 < j /\ 1 \in 1..Len(s) BY <1>1, <1>2
<1> QED BY <1>1, <1>2, <1>3 DEF Prec

\* An appended node stands behind all others.
LEMMA PrecAppend ==
  ASSUME NEW T, NEW s \in Seq(T), NEW x \in T, NEW m, NEW n
  PROVE  Prec(Append(s, x), m, n) <=> Prec(s, m, n) \/ (m \in Range(s) /\ n = x)
<1> DEFINE a == Append(s, x)
<1>1. /\ Len(s) \in Nat /\ DOMAIN s = 1..Len(s)
      /\ DOMAIN a = 1..(Len(s) + 1) /\ a[Len(s) + 1] = x
      /\ \A i \in 1..Len(s) : a[i] = s[i]
  OBVIOUS
<1> HIDE DEF a
<1>2. ASSUME Prec(a, m, n) PROVE Prec(s, m, n) \/ (m \in Range(s) /\ n = x)
  <2>1. PICK i \in 1..(Len(s) + 1), j \in 1..(Len(s) + 1) :
          i < j /\ a[i] = m /\ a[j] = n
    BY <1>1, <1>2 DEF Prec
  <2>2. i \in 1..Len(s) /\ s[i] = m BY <1>1, <2>1
  <2>3. CASE j \in 1..Len(s) BY <1>1, <2>1, <2>2, <2>3 DEF Prec
  <2>4. CASE j = Len(s) + 1 BY <1>1, <2>1, <2>2, <2>4 DEF Range
  <2> QED BY <1>1, <2>3, <2>4
<1>3. ASSUME Prec(s, m, n) PROVE Prec(a, m, n)
  <2>1. PICK i \in 1..Len(s), j \in 1..Len(s) : i < j /\ s[i] = m /\ s[j] = n
    BY <1>1, <1>3 DEF Prec
  <2>2. i \in DOMAIN a /\ j \in DOMAIN a BY <1>1
  <2> QED BY <1>1, <2>1, <2>2 DEF Prec
<1>4. ASSUME m \in Range(s), n = x PROVE Prec(a, m, n)
  <2>1. PICK i \in 1..Len(s) : s[i] = m BY <1>1, <1>4 DEF Range
  <2>2. i \in DOMAIN a /\ Len(s) + 1 \in DOMAIN a /\ i < Len(s) + 1 BY <1>1
  <2> QED BY <1>1, <1>4, <2>1, <2>2 DEF Prec
<1> QED BY <1>2, <1>3, <1>4 DEF a

\* The tail keeps the order of the nodes behind the head.
LEMMA PrecTail ==
  ASSUME NEW T, NEW s \in Seq(T), s # <<>>, IsInjective(s), NEW m, NEW n
  PROVE  Prec(Tail(s), m, n) <=> Prec(s, m, n) /\ m # Head(s) /\ n # Head(s)
<1>1. /\ Len(s) \in Nat /\ Len(s) > 0 /\ DOMAIN s = 1..Len(s)
      /\ Head(s) = s[1] /\ Tail(s) \in Seq(T)
      /\ DOMAIN Tail(s) = 1..(Len(s) - 1)
      /\ \A i \in 1..(Len(s) - 1) : Tail(s)[i] = s[i + 1]
  OBVIOUS
<1>2. \A i, j \in 1..Len(s) : s[i] = s[j] => i = j BY <1>1 DEF IsInjective
<1>3. ASSUME Prec(Tail(s), m, n)
      PROVE  Prec(s, m, n) /\ m # Head(s) /\ n # Head(s)
  <2>1. PICK i \in 1..(Len(s) - 1), j \in 1..(Len(s) - 1) :
          i < j /\ Tail(s)[i] = m /\ Tail(s)[j] = n
    BY <1>1, <1>3 DEF Prec
  <2>2. /\ i + 1 \in 1..Len(s) /\ j + 1 \in 1..Len(s) /\ i + 1 < j + 1
        /\ s[i + 1] = m /\ s[j + 1] = n /\ 1 \in 1..Len(s)
        /\ i + 1 # 1 /\ j + 1 # 1
    BY <1>1, <2>1
  <2>3. Prec(s, m, n) BY <1>1, <2>2 DEF Prec
  <2>4. m # s[1] /\ n # s[1] BY <1>2, <2>2
  <2> QED BY <1>1, <2>3, <2>4
<1>4. ASSUME Prec(s, m, n), m # Head(s), n # Head(s) PROVE Prec(Tail(s), m, n)
  <2>1. PICK i \in 1..Len(s), j \in 1..Len(s) : i < j /\ s[i] = m /\ s[j] = n
    BY <1>1, <1>4 DEF Prec
  <2>2. i # 1 /\ j # 1 BY <1>1, <1>4, <2>1
  <2>3. /\ i - 1 \in 1..(Len(s) - 1) /\ j - 1 \in 1..(Len(s) - 1)
        /\ i - 1 < j - 1 /\ (i - 1) + 1 = i /\ (j - 1) + 1 = j
    BY <1>1, <2>1, <2>2
  <2>4. Tail(s)[i - 1] = m /\ Tail(s)[j - 1] = n BY <1>1, <2>1, <2>3
  <2> QED BY <1>1, <2>3, <2>4 DEF Prec
<1> QED BY <1>3, <1>4

\* Of two lists one behind the other, the nodes of the first stand before
\* those of the second.
LEMMA ConcatProps ==
  ASSUME NEW T, NEW s \in Seq(T), NEW u \in Seq(T)
  PROVE  /\ s \o u \in Seq(T)
         /\ Range(s \o u) = Range(s) \union Range(u)
         /\ \A m, n : Prec(s \o u, m, n) <=>
              \/ Prec(s, m, n) \/ Prec(u, m, n)
              \/ m \in Range(s) /\ n \in Range(u)
         /\ IsInjective(s) /\ IsInjective(u) /\ Range(s) \intersect Range(u) = {}
              => IsInjective(s \o u)
<1> DEFINE c == s \o u
<1>1. /\ Len(s) \in Nat /\ Len(u) \in Nat
      /\ DOMAIN s = 1..Len(s) /\ DOMAIN u = 1..Len(u)
      /\ c \in Seq(T) /\ DOMAIN c = 1..(Len(s) + Len(u))
      /\ \A i \in 1..Len(s) : c[i] = s[i]
      /\ \A i \in (Len(s) + 1)..(Len(s) + Len(u)) : c[i] = u[i - Len(s)]
  OBVIOUS
<1> HIDE DEF c
<1>2. ASSUME NEW i \in DOMAIN c
      PROVE  \/ i \in DOMAIN s /\ c[i] = s[i] /\ i <= Len(s)
             \/ /\ i - Len(s) \in DOMAIN u /\ c[i] = u[i - Len(s)]
                /\ i > Len(s)
  <2>1. CASE i \in 1..Len(s) BY <1>1, <2>1
  <2>2. CASE i \in (Len(s) + 1)..(Len(s) + Len(u)) BY <1>1, <2>2
  <2> QED BY <1>1, <1>2, <2>1, <2>2
<1>3. ASSUME NEW i \in DOMAIN s PROVE i \in DOMAIN c /\ c[i] = s[i]
  BY <1>1
<1>4. ASSUME NEW i \in DOMAIN u
      PROVE  /\ Len(s) + i \in DOMAIN c /\ c[Len(s) + i] = u[i]
  <2>1. Len(s) + i \in (Len(s) + 1)..(Len(s) + Len(u))
        /\ (Len(s) + i) - Len(s) = i
    BY <1>1
  <2>2. c[Len(s) + i] = u[(Len(s) + i) - Len(s)] BY <1>1, <2>1
  <2> QED BY <1>1, <2>1, <2>2
<1>5. Range(c) = Range(s) \union Range(u) BY <1>2, <1>3, <1>4 DEF Range
<1>6. ASSUME NEW m, NEW n, Prec(c, m, n)
      PROVE  Prec(s, m, n) \/ Prec(u, m, n) \/ (m \in Range(s) /\ n \in Range(u))
  <2>1. PICK i \in DOMAIN c, j \in DOMAIN c : i < j /\ c[i] = m /\ c[j] = n
    BY <1>6 DEF Prec
  <2>2. CASE i \in DOMAIN s /\ j \in DOMAIN s
    <3>1. s[i] = m /\ s[j] = n BY <1>3, <2>1, <2>2
    <3> QED BY <2>1, <2>2, <3>1 DEF Prec
  <2>3. CASE i \notin DOMAIN s
    <3>1. i > Len(s) /\ j > Len(s) /\ i \in Int /\ j \in Int
      BY <1>1, <1>2, <2>1, <2>3
    <3>2. /\ i - Len(s) \in DOMAIN u /\ u[i - Len(s)] = m
          /\ j - Len(s) \in DOMAIN u /\ u[j - Len(s)] = n
      BY <1>1, <1>2, <2>1, <3>1
    <3>3. i - Len(s) < j - Len(s) BY <1>1, <2>1, <3>1
    <3> QED BY <3>2, <3>3 DEF Prec
  <2>4. CASE i \in DOMAIN s /\ j \notin DOMAIN s
    <3>1. s[i] = m BY <1>3, <2>1, <2>4
    <3>2. j - Len(s) \in DOMAIN u /\ u[j - Len(s)] = n BY <1>2, <2>1, <2>4
    <3> QED BY <2>4, <3>1, <3>2 DEF Range
  <2> QED BY <2>2, <2>3, <2>4
<1>7. ASSUME NEW m, NEW n, Prec(s, m, n) PROVE Prec(c, m, n)
  BY <1>3, <1>7 DEF Prec
<1>8. ASSUME NEW m, NEW n, Prec(u, m, n) PROVE Prec(c, m, n)
  <2>1. PICK i \in DOMAIN u, j \in DOMAIN u : i < j /\ u[i] = m /\ u[j] = n
    BY <1>8 DEF Prec
  <2>2. Len(s) + i < Len(s) + j BY <1>1, <2>1
  <2> QED BY <1>4, <2>1, <2>2 DEF Prec
<1>9. ASSUME NEW m \in Range(s), NEW n \in Range(u) PROVE Prec(c, m, n)
  <2>1. PICK i \in DOMAIN s, j \in DOMAIN u : s[i] = m /\ u[j] = n
    BY DEF Range
  <2>2. i < Len(s) + j BY <1>1
  <2> QED BY <1>3, <1>4, <2>1, <2>2 DEF Prec
<1>10. ASSUME IsInjective(s), IsInjective(u), Range(s) \intersect Range(u) = {}
       PROVE  IsInjective(c)
  <2> SUFFICES ASSUME NEW i \in DOMAIN c, NEW j \in DOMAIN c, c[i] = c[j]
               PROVE  i = j
    BY DEF IsInjective
  <2>1. CASE i \in DOMAIN s /\ j \in DOMAIN s
    BY <1>3, <1>10, <2>1 DEF IsInjective
  <2>2. CASE i \notin DOMAIN s /\ j \notin DOMAIN s
    <3>1. /\ i - Len(s) \in DOMAIN u /\ j - Len(s) \in DOMAIN u
          /\ u[i - Len(s)] = u[j - Len(s)]
      BY <1>2, <2>2
    <3>2. i - Len(s) = j - Len(s) BY <1>10, <3>1 DEF IsInjective
    <3> QED BY <1>1, <3>2
  <2>3. CASE (i \in DOMAIN s) # (j \in DOMAIN s)
    <3>1. \A a \in DOMAIN s, b \in DOMAIN u : s[a] # u[b] BY <1>10 DEF Range
    <3> QED BY <1>2, <2>3, <3>1
  <2> QED BY <2>1, <2>2, <2>3
<1> QED BY <1>1, <1>5, <1>6, <1>7, <1>8, <1>9, <1>10 DEF c

\* Deleting moves the node at a position that stays to the rank of that
\* position.
LEMMA WithoutAt ==
  ASSUME NEW T, NEW s \in Seq(T), NEW S
  PROVE  LET I == Kept(s, S)
             N == Cardinality(I)
         IN /\ N \in Nat /\ DOMAIN Without(s, S) = 1..N
            /\ \A i \in I : /\ Rank(I, i) \in 1..N
                            /\ Without(s, S)[Rank(I, i)] = s[i]
            /\ \A j \in 1..N : \E i \in I : Rank(I, i) = j
            /\ \A i, k \in I : i < k <=> Rank(I, i) < Rank(I, k)
<1> DEFINE I == Kept(s, S)
           pos(j) == CHOOSE i \in I : Rank(I, i) = j
           N == Cardinality(I)
           r == Without(s, S)
<1>1. I \subseteq Nat /\ IsFiniteSet(I) /\ I \subseteq DOMAIN s
  <2>1. DOMAIN s = 1..Len(s) /\ Len(s) \in Nat OBVIOUS
  <2>2. IsFiniteSet(1..Len(s)) BY <2>1, FS_Interval
  <2>3. I \in SUBSET (1..Len(s)) BY <2>1 DEF Kept
  <2> QED BY <2>1, <2>2, <2>3, FS_Subset
<1>2. /\ N \in Nat
      /\ \A i \in I : Rank(I, i) \in 1..N
      /\ \A j \in 1..N : \E i \in I : Rank(I, i) = j
  BY <1>1, RankOnto
<1>3. r = [j \in 1..N |-> s[pos(j)]] BY DEF Without
<1> HIDE DEF I, N, r
<1>4. ASSUME NEW i \in I, NEW k \in I PROVE i < k <=> Rank(I, i) < Rank(I, k)
  <2>1. i \in Nat /\ k \in Nat /\ Rank(I, i) \in Int /\ Rank(I, k) \in Int
    BY <1>1, <1>2
  <2>2. i < k => Rank(I, i) < Rank(I, k) BY <1>1, RankMonotonic
  <2>3. k < i => Rank(I, k) < Rank(I, i) BY <1>1, RankMonotonic
  <2>4. i = k => Rank(I, k) = Rank(I, i) OBVIOUS
  <2> QED BY <2>1, <2>2, <2>3, <2>4
<1>5. ASSUME NEW i \in I PROVE r[Rank(I, i)] = s[i]
  <2>1. Rank(I, i) \in 1..N BY <1>2
  <2>2. pos(Rank(I, i)) \in I /\ Rank(I, pos(Rank(I, i))) = Rank(I, i)
    OBVIOUS
  <2>3. ASSUME NEW k \in I, k # i PROVE Rank(I, k) # Rank(I, i)
    <3>1. Rank(I, k) \in Int /\ Rank(I, i) \in Int BY <1>2
    <3> QED BY <1>1, <2>3, <3>1, RankInjective
  <2>4. pos(Rank(I, i)) = i BY <2>2, <2>3
  <2> QED BY <1>3, <2>1, <2>4
<1>6. DOMAIN r = 1..N BY <1>3
<1> QED BY <1>2, <1>4, <1>5, <1>6 DEF I, N, r

\* The nodes that stay keep their order.
LEMMA PrecWithout ==
  ASSUME NEW T, NEW s \in Seq(T), NEW S, NEW m, NEW n
  PROVE  Prec(Without(s, S), m, n) <=> Prec(s, m, n) /\ m \notin S /\ n \notin S
<1> DEFINE I == Kept(s, S)
           N == Cardinality(I)
           r == Without(s, S)
<1>1. /\ N \in Nat /\ DOMAIN r = 1..N
      /\ \A i \in I : Rank(I, i) \in 1..N /\ r[Rank(I, i)] = s[i]
      /\ \A j \in 1..N : \E i \in I : Rank(I, i) = j
      /\ \A i, k \in I : i < k <=> Rank(I, i) < Rank(I, k)
  BY WithoutAt
<1>2. I = {i \in DOMAIN s : s[i] \notin S} BY DEF Kept
<1> HIDE DEF I, N, r
<1>3. ASSUME Prec(r, m, n) PROVE Prec(s, m, n) /\ m \notin S /\ n \notin S
  <2>1. PICK a \in 1..N, b \in 1..N : a < b /\ r[a] = m /\ r[b] = n
    BY <1>1, <1>3 DEF Prec
  <2>2. PICK i \in I : Rank(I, i) = a BY <1>1
  <2>3. PICK k \in I : Rank(I, k) = b BY <1>1
  <2>4. i < k /\ s[i] = m /\ s[k] = n BY <1>1, <2>1, <2>2, <2>3
  <2> QED BY <1>2, <2>4 DEF Prec
<1>4. ASSUME Prec(s, m, n), m \notin S, n \notin S PROVE Prec(r, m, n)
  <2>1. PICK i \in DOMAIN s, k \in DOMAIN s : i < k /\ s[i] = m /\ s[k] = n
    BY <1>4 DEF Prec
  <2>2. i \in I /\ k \in I BY <1>2, <1>4, <2>1
  <2>3. /\ Rank(I, i) \in DOMAIN r /\ Rank(I, k) \in DOMAIN r
        /\ r[Rank(I, i)] = m /\ r[Rank(I, k)] = n
        /\ Rank(I, i) < Rank(I, k)
    BY <1>1, <2>1, <2>2
  <2> QED BY <2>3 DEF Prec
<1> QED BY <1>3, <1>4 DEF r

\* Deleting brings in no repetition.
LEMMA WithoutInjective ==
  ASSUME NEW T, NEW s \in Seq(T), NEW S, IsInjective(s)
  PROVE  IsInjective(Without(s, S))
<1> DEFINE I == Kept(s, S)
           N == Cardinality(I)
           r == Without(s, S)
<1>1. /\ N \in Nat /\ DOMAIN r = 1..N
      /\ \A i \in I : Rank(I, i) \in 1..N /\ r[Rank(I, i)] = s[i]
      /\ \A j \in 1..N : \E i \in I : Rank(I, i) = j
  BY WithoutAt
<1>2. I \subseteq DOMAIN s BY DEF Kept
<1> HIDE DEF I, N, r
<1> SUFFICES ASSUME NEW a \in 1..N, NEW b \in 1..N, r[a] = r[b] PROVE a = b
  BY <1>1 DEF IsInjective, r
<1>3. PICK i \in I : Rank(I, i) = a BY <1>1
<1>4. PICK k \in I : Rank(I, k) = b BY <1>1
<1>5. s[i] = s[k] BY <1>1, <1>3, <1>4
<1>6. i = k BY <1>2, <1>5 DEF IsInjective
<1> QED BY <1>3, <1>4, <1>6

\* Moving the head of the second list to the end of the first does not change
\* the two as one list, and appending to the second appends to the whole.
LEMMA ConcatMoves ==
  ASSUME NEW T, NEW s \in Seq(T), NEW u \in Seq(T), NEW x \in T
  PROVE  /\ u # <<>> => Append(s, Head(u)) \o Tail(u) = s \o u
         /\ s \o Append(u, x) = Append(s \o u, x)
<1>1. s \o Append(u, x) = Append(s \o u, x) OBVIOUS
<1>2. ASSUME u # <<>> PROVE Append(s, Head(u)) \o Tail(u) = s \o u
  BY <1>2
<1> QED BY <1>1, <1>2
=============================================================================
