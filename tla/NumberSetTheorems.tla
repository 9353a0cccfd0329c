------------------------- MODULE NumberSetTheorems --------------------------
(***************************************************************************)
(* Finite sets of numbers: every one has a greatest number, LIMIT takes a  *)
(* lower part of it of the size it says, and ORDER BY lists it, all of it, *)
(* once and in order.  All three follow from one fact: the ranks of n      *)
(* numbers are the numbers below n.                                        *)
(***************************************************************************)
EXTENDS NumberSets, Sequences, FiniteSetsExt, FiniteSetTheorems, FunctionTheorems,
        SequenceTheorems, TLAPS

\* The ranks of the members of a finite set are 0, 1, ... each of them once.
LEMMA Ranks ==
  ASSUME NEW S \in SUBSET Int, IsFiniteSet(S)
  PROVE  /\ Cardinality(S) \in Nat
         /\ \A c \in S : Rank(c, S) \in 0 .. Cardinality(S) - 1
         /\ \A c, d \in S : c < d <=> Rank(c, S) < Rank(d, S)
         /\ \A c, d \in S : Rank(c, S) = Rank(d, S) => c = d
         /\ \A i \in 0 .. Cardinality(S) - 1 : \E c \in S : Rank(c, S) = i
<1> DEFINE Below(c) == {d \in S : d < c}
           n == Cardinality(S)
           rank == [c \in S |-> Rank(c, S)]
<1>1. n \in Nat
  BY FS_CardinalityType
<1>2. ASSUME NEW c \in S
      PROVE  /\ IsFiniteSet(Below(c)) /\ Rank(c, S) = Cardinality(Below(c))
             /\ Rank(c, S) \in 0 .. n - 1 /\ Rank(c, S) \in Nat
  <2>1. Below(c) \in SUBSET S /\ Below(c) # S
    OBVIOUS
  <2>2. /\ IsFiniteSet(Below(c)) /\ Cardinality(Below(c)) <= n
        /\ Cardinality(Below(c)) # n /\ Cardinality(Below(c)) \in Nat
    BY <2>1, FS_Subset, FS_CardinalityType
  <2> QED
    BY <1>1, <2>2 DEF Rank
<1>3. ASSUME NEW c \in S, NEW d \in S, c < d
      PROVE  Rank(c, S) < Rank(d, S)
  <2>1. \A x \in Below(c) : x \in Below(d)
    BY <1>3
  <2>2. c \in Below(d) /\ c \notin Below(c)
    BY <1>3
  <2>3. Below(c) \in SUBSET Below(d) /\ Below(c) # Below(d)
    BY <2>1, <2>2
  <2>4. Cardinality(Below(c)) <= Cardinality(Below(d)) /\ Cardinality(Below(c)) # Cardinality(Below(d))
    BY <1>2, <2>3, FS_Subset
  <2> QED
    BY <1>2, <2>4
<1>4. \A c, d \in S : c < d <=> Rank(c, S) < Rank(d, S)
  <2>1. SUFFICES ASSUME NEW c \in S, NEW d \in S PROVE c < d <=> Rank(c, S) < Rank(d, S)
    OBVIOUS
  <2>2. Rank(c, S) \in Nat /\ Rank(d, S) \in Nat
    BY <1>2
  <2>3. CASE c < d
    BY <1>3, <2>3
  <2>4. CASE c = d
    BY <2>2, <2>4
  <2>5. CASE d < c
    <3>1. Rank(d, S) < Rank(c, S)
      BY <1>3, <2>5
    <3> QED
      BY <2>2, <2>5, <3>1
  <2> QED
    BY <2>3, <2>4, <2>5
<1>5. \A c, d \in S : Rank(c, S) = Rank(d, S) => c = d
  <2>1. SUFFICES ASSUME NEW c \in S, NEW d \in S, Rank(c, S) = Rank(d, S), c # d PROVE FALSE
    OBVIOUS
  <2>2. c < d \/ d < c
    BY <2>1
  <2>3. Rank(c, S) \in Nat /\ Rank(d, S) \in Nat
    BY <1>2
  <2> QED
    BY <1>3, <2>1, <2>2, <2>3
<1>6. rank \in Injection(S, 0 .. n - 1)
  <2>1. rank \in [S -> 0 .. n - 1]
    BY <1>2
  <2>2. \A c, d \in S : rank[c] = rank[d] => c = d
    BY <1>5
  <2> QED
    BY <2>1, <2>2 DEF Injection, IsInjective
<1>7. IsFiniteSet(0 .. n - 1) /\ Cardinality(0 .. n - 1) = n
  <2>1. IsFiniteSet(0 .. n - 1) /\ Cardinality(0 .. n - 1) = IF 0 > n - 1 THEN 0 ELSE (n - 1) - 0 + 1
    BY <1>1, FS_Interval
  <2> QED
    BY <1>1, <2>1
<1>8. rank \in Surjection(S, 0 .. n - 1)
  BY <1>6, <1>7, FS_Injection
<1>9. \A i \in 0 .. n - 1 : \E c \in S : rank[c] = i
  BY <1>8 DEF Surjection
<1>10. \A i \in 0 .. n - 1 : \E c \in S : Rank(c, S) = i
  BY <1>9
<1> QED
  BY <1>1, <1>2, <1>4, <1>5, <1>10

\* A nonempty finite set of numbers has a greatest one, which Max finds.
LEMMA MaxExists ==
  ASSUME NEW S \in SUBSET Int, IsFiniteSet(S), S # {}
  PROVE  Max(S) \in S /\ \A x \in S : x <= Max(S)
<1> DEFINE n == Cardinality(S)
<1>1. n \in Nat /\ n # 0
  BY FS_CardinalityType, FS_EmptySet
<1>2. PICK m \in S : Rank(m, S) = n - 1
  BY <1>1, Ranks
<1>3. ASSUME NEW x \in S PROVE m >= x
  <2>1. Rank(x, S) \in 0 .. n - 1 /\ (m < x <=> Rank(m, S) < Rank(x, S))
    BY Ranks
  <2>2. ~ m < x
    BY <1>1, <1>2, <2>1
  <2> QED
    BY <2>2
<1>4. \E x \in S : \A y \in S : x >= y
  BY <1>3
<1>5. Max(S) \in S /\ \A y \in S : Max(S) >= y
  BY <1>4 DEF Max
<1> QED
  BY <1>5

\* LIMIT n takes the n lowest numbers, or all when there are not as many.
LEMMA LowestPart ==
  ASSUME NEW S \in SUBSET Int, IsFiniteSet(S), NEW n \in Nat
  PROVE  /\ Lowest(n, S) \in SUBSET S
         /\ IsFiniteSet(Lowest(n, S))
         /\ \A c \in Lowest(n, S) : \A d \in S \ Lowest(n, S) : c < d
         /\ Cardinality(Lowest(n, S)) = IF Cardinality(S) <= n THEN Cardinality(S) ELSE n
         /\ Cardinality(S) <= n => Lowest(n, S) = S
<1> DEFINE L == Lowest(n, S)
           m == Cardinality(S)
<1>1. L \in SUBSET S /\ IsFiniteSet(L)
  BY FS_Subset DEF Lowest
<1>2. /\ m \in Nat
      /\ \A c \in S : Rank(c, S) \in 0 .. m - 1
      /\ \A c, d \in S : c < d <=> Rank(c, S) < Rank(d, S)
  BY Ranks
<1>3. \A c \in L : \A d \in S \ L : c < d
  <2>1. SUFFICES ASSUME NEW c \in L, NEW d \in S \ L PROVE c < d
    OBVIOUS
  <2>2. c \in S /\ Rank(c, S) < n /\ ~ Rank(d, S) < n
    BY DEF Lowest
  <2>3. Rank(c, S) \in Int /\ Rank(d, S) \in Int
    BY <1>2, <2>2
  <2>4. Rank(c, S) < Rank(d, S)
    BY <2>2, <2>3
  <2> QED
    BY <1>2, <2>2, <2>4
<1>4. m <= n => L = S
  <2>1. SUFFICES ASSUME m <= n PROVE \A c \in S : Rank(c, S) < n
    BY DEF Lowest
  <2> QED
    BY <1>2, <2>1
<1>5. m > n => Cardinality(L) = n
  <2>1. SUFFICES ASSUME m > n PROVE Cardinality(L) = n
    OBVIOUS
  <2> DEFINE rank == [c \in L |-> Rank(c, S)]
  <2>2. rank \in [L -> 0 .. n - 1]
    <3>1. \A c \in L : Rank(c, S) \in 0 .. n - 1
      BY <1>2 DEF Lowest
    <3> QED
      BY <3>1
  <2>3. \A c, d \in L : rank[c] = rank[d] => c = d
    BY <1>1, Ranks
  <2>4. \A i \in 0 .. n - 1 : \E c \in L : rank[c] = i
    <3>1. SUFFICES ASSUME NEW i \in 0 .. n - 1 PROVE \E c \in L : Rank(c, S) = i
      OBVIOUS
    <3>2. i \in 0 .. m - 1 /\ i < n
      BY <1>2, <2>1
    <3>3. PICK c \in S : Rank(c, S) = i
      BY <3>2, Ranks
    <3> QED
      BY <3>2, <3>3 DEF Lowest
  <2>5. rank \in Injection(L, 0 .. n - 1)
    BY <2>2, <2>3 DEF Injection, IsInjective
  <2>6. rank \in Surjection(L, 0 .. n - 1)
    BY <2>2, <2>4 DEF Surjection
  <2>7. IsFiniteSet(0 .. n - 1) /\ Cardinality(0 .. n - 1) = n
    <3>1. /\ IsFiniteSet(0 .. n - 1)
          /\ Cardinality(0 .. n - 1) = IF 0 > n - 1 THEN 0 ELSE (n - 1) - 0 + 1
      BY FS_Interval
    <3> QED
      BY <3>1
  <2> QED
    BY <2>5, <2>6, <2>7, FS_Injection
<1> QED
  BY <1>1, <1>2, <1>3, <1>4, <1>5

\* ORDER BY lists every number of the set once, the lower ones first.
LEMMA Listing ==
  ASSUME NEW S \in SUBSET Int, IsFiniteSet(S)
  PROVE  /\ InOrder(S) \in Seq(S)
         /\ Len(InOrder(S)) = Cardinality(S)
         /\ \A i, j \in 1 .. Cardinality(S) : i < j => InOrder(S)[i] < InOrder(S)[j]
         /\ \A c \in S : \E i \in 1 .. Cardinality(S) : InOrder(S)[i] = c
<1> DEFINE n == Cardinality(S)
           q == InOrder(S)
<1>1. /\ n \in Nat
      /\ \A c \in S : Rank(c, S) \in 0 .. n - 1
      /\ \A c, d \in S : c < d <=> Rank(c, S) < Rank(d, S)
      /\ \A c, d \in S : Rank(c, S) = Rank(d, S) => c = d
      /\ \A i \in 0 .. n - 1 : \E c \in S : Rank(c, S) = i
  BY Ranks
<1>2. ASSUME NEW i \in 1 .. n
      PROVE  q[i] \in S /\ Rank(q[i], S) = i - 1
  <2>1. i - 1 \in 0 .. n - 1
    BY <1>1
  <2>2. \E c \in S : Rank(c, S) = i - 1
    BY <1>1, <2>1
  <2>3. q[i] = CHOOSE c \in S : Rank(c, S) = i - 1
    BY DEF InOrder
  <2> QED
    BY <2>2, <2>3
<1>3. q \in [1 .. n -> S]
  BY <1>2 DEF InOrder
<1>4. q \in Seq(S) /\ Len(q) = n
  BY <1>1, <1>3
<1>5. \A i, j \in 1 .. n : i < j => q[i] < q[j]
  <2>1. SUFFICES ASSUME NEW i \in 1 .. n, NEW j \in 1 .. n, i < j PROVE q[i] < q[j]
    OBVIOUS
  <2>2. q[i] \in S /\ Rank(q[i], S) = i - 1 /\ q[j] \in S /\ Rank(q[j], S) = j - 1
    BY <1>2
  <2>3. Rank(q[i], S) < Rank(q[j], S)
    BY <2>1, <2>2
  <2> QED
    BY <1>1, <2>2, <2>3
<1>6. \A c \in S : \E i \in 1 .. n : q[i] = c
  <2>1. SUFFICES ASSUME NEW c \in S PROVE \E i \in 1 .. n : q[i] = c
    OBVIOUS
  <2>2. Rank(c, S) \in 0 .. n - 1 /\ Rank(c, S) + 1 \in 1 .. n /\ Rank(c, S) + 1 - 1 = Rank(c, S)
    BY <1>1
  <2>3. q[Rank(c, S) + 1] \in S /\ Rank(q[Rank(c, S) + 1], S) = Rank(c, S)
    BY <1>2, <2>2
  <2>4. q[Rank(c, S) + 1] = c
    BY <1>1, <2>3
  <2> QED
    BY <2>2, <2>4
<1> QED
  BY <1>4, <1>5, <1>6

-----------------------------------------------------------------------------
(* Pages.                                                                  *)

\* Numbers in order.
Ascending(s) == \A i, j \in 1 .. Len(s) : i < j => s[i] < s[j]

\* The members of a sequence.
Members(s) == {s[i] : i \in 1 .. Len(s)}

\* One row more than the page holds is asked for.  If it is there, the page is
\* not empty and every other number lies behind its last one, which is the next
\* cursor; if it is not, the page is all there is.
LEMMA PageOf ==
  ASSUME NEW S \in SUBSET Int, IsFiniteSet(S), NEW limit \in Nat \ {0},
         NEW rows, rows = Lowest(limit + 1, S),
         NEW page, page = Lowest(limit, rows)
  PROVE  /\ page \in SUBSET S /\ IsFiniteSet(page) /\ Cardinality(rows) \in Nat
         /\ Cardinality(rows) > limit =>
              /\ Max(page) \in page
              /\ \A x \in page : x <= Max(page)
              /\ \A x \in S \ page : Max(page) < x
         /\ Cardinality(rows) <= limit => page = S
<1>1. /\ rows \in SUBSET S /\ IsFiniteSet(rows)
      /\ \A c \in rows : \A d \in S \ rows : c < d
      /\ Cardinality(rows) = IF Cardinality(S) <= limit + 1 THEN Cardinality(S) ELSE limit + 1
      /\ Cardinality(S) <= limit + 1 => rows = S
  BY LowestPart
<1>2. /\ page \in SUBSET rows /\ IsFiniteSet(page)
      /\ \A c \in page : \A d \in rows \ page : c < d
      /\ Cardinality(page) = IF Cardinality(rows) <= limit THEN Cardinality(rows) ELSE limit
      /\ Cardinality(rows) <= limit => page = rows
  BY <1>1, LowestPart
<1>3. Cardinality(S) \in Nat /\ Cardinality(rows) \in Nat
  BY <1>1, FS_CardinalityType
<1>4. ASSUME Cardinality(rows) > limit
      PROVE  /\ Max(page) \in page
             /\ \A x \in page : x <= Max(page)
             /\ \A x \in S \ page : Max(page) < x
  <2>1. Cardinality(page) # 0
    BY <1>2, <1>3, <1>4
  <2>2. page # {} /\ page \in SUBSET Int
    BY <1>1, <1>2, <2>1, FS_EmptySet
  <2>3. Max(page) \in page /\ \A x \in page : x <= Max(page)
    BY <1>2, <2>2, MaxExists
  <2>4. \A x \in S \ page : Max(page) < x
    BY <1>1, <1>2, <2>3
  <2> QED
    BY <2>3, <2>4
<1>5. Cardinality(rows) <= limit => page = S
  BY <1>1, <1>2, <1>3
<1> QED
  BY <1>1, <1>2, <1>3, <1>4, <1>5

\* The greatest of numbers in order is the last.
LEMMA LastIsGreatest ==
  ASSUME NEW A \in SUBSET Int, NEW s \in Seq(A), Ascending(s), s # <<>>
  PROVE  /\ Len(s) \in Nat /\ Len(s) # 0
         /\ s[Len(s)] \in A /\ s[Len(s)] \in Members(s)
         /\ \A i \in 1 .. Len(s) : s[i] <= s[Len(s)]
<1>1. Len(s) \in Nat /\ Len(s) # 0
  BY EmptySeq, LenProperties
<1>2. \A i \in 1 .. Len(s) : s[i] \in A /\ s[i] \in Int
  BY ElementOfSeq
<1>3. Len(s) \in 1 .. Len(s)
  BY <1>1
<1>4. ASSUME NEW i \in 1 .. Len(s) PROVE s[i] <= s[Len(s)]
  <2>1. CASE i = Len(s)
    BY <1>2, <2>1
  <2>2. CASE i # Len(s)
    <3>1. i < Len(s)
      BY <1>1, <2>2
    <3>2. s[i] < s[Len(s)]
      BY <1>3, <3>1 DEF Ascending
    <3> QED
      BY <1>2, <1>3, <3>2
  <2> QED
    BY <2>1, <2>2
<1> QED
  BY <1>1, <1>2, <1>3, <1>4 DEF Members

\* Two parts in order, the first before the second, are in order together.
LEMMA Concatenation ==
  ASSUME NEW A \in SUBSET Int, NEW s \in Seq(A), NEW q \in Seq(A),
         Ascending(s), Ascending(q),
         \A i \in 1 .. Len(s) : \A j \in 1 .. Len(q) : s[i] < q[j],
         NEW t, t = s \o q
  PROVE  /\ t \in Seq(A) /\ Len(t) = Len(s) + Len(q)
         /\ Len(s) \in Nat /\ Len(q) \in Nat
         /\ Ascending(t)
         /\ \A x : x \in Members(t) <=> x \in Members(s) \/ x \in Members(q)
         /\ \A i \in 1 .. Len(s) : t[i] = s[i]
         /\ \A i \in 1 .. Len(q) : t[Len(s) + i] = q[i]
         /\ \A i \in Len(s) + 1 .. Len(t) : t[i] \in Members(q)
<1> DEFINE n == Len(q)
<1>1. n \in Nat /\ Len(s) \in Nat
  OBVIOUS
<1> HIDE DEF n
<1>2. /\ t \in Seq(A) /\ Len(t) = Len(s) + n
      /\ \A i \in 1 .. Len(s) : t[i] = s[i]
      /\ \A i \in 1 .. n : t[Len(s) + i] = q[i]
  <2>1. t \in Seq(A) /\ Len(t) = Len(s) + n
    BY ConcatProperties DEF n
  <2>2. \A i \in 1 .. Len(s) : t[i] = s[i]
    BY <1>1 DEF n
  <2>3. ASSUME NEW i \in 1 .. n PROVE t[Len(s) + i] = q[i]
    <3>1. /\ Len(s) + i \in 1 .. Len(s) + Len(q)
          /\ ~ Len(s) + i <= Len(s) /\ Len(s) + i - Len(s) = i
      BY <1>1 DEF n
    <3> QED
      BY <3>1
  <2> QED
    BY <2>1, <2>2, <2>3
<1>3. ASSUME NEW i \in 1 .. Len(t)
      PROVE  \/ i \in 1 .. Len(s) /\ t[i] = s[i]
             \/ i - Len(s) \in 1 .. n /\ t[i] = q[i - Len(s)]
  <2>1. CASE i <= Len(s)
    BY <1>1, <1>2, <2>1
  <2>2. CASE i > Len(s)
    <3>1. i - Len(s) \in 1 .. n /\ Len(s) + (i - Len(s)) = i
      BY <1>1, <1>2, <2>2
    <3> QED
      BY <1>2, <3>1
  <2> QED
    BY <1>1, <2>1, <2>2
<1>4. Ascending(t)
  <2>1. SUFFICES ASSUME NEW i \in 1 .. Len(t), NEW j \in 1 .. Len(t), i < j PROVE t[i] < t[j]
    BY DEF Ascending
  <2>2. CASE j \in 1 .. Len(s)
    <3>1. i \in 1 .. Len(s)
      BY <1>1, <2>1, <2>2
    <3> QED
      BY <1>2, <2>1, <2>2, <3>1 DEF Ascending
  <2>3. CASE j \notin 1 .. Len(s)
    <3>1. j - Len(s) \in 1 .. n /\ t[j] = q[j - Len(s)]
      BY <1>3, <2>3
    <3>2. CASE i \in 1 .. Len(s)
      BY <1>2, <3>1, <3>2 DEF n
    <3>3. CASE i \notin 1 .. Len(s)
      <4>1. i - Len(s) \in 1 .. n /\ t[i] = q[i - Len(s)]
        BY <1>3, <3>3
      <4>2. i - Len(s) < j - Len(s)
        BY <1>1, <2>1
      <4> QED
        BY <3>1, <4>1, <4>2 DEF Ascending, n
    <3> QED
      BY <3>2, <3>3
  <2> QED
    BY <2>2, <2>3
<1>5. ASSUME NEW x PROVE x \in Members(t) <=> x \in Members(s) \/ x \in Members(q)
  <2>1. ASSUME x \in Members(t) PROVE x \in Members(s) \/ x \in Members(q)
    <3>1. PICK i \in 1 .. Len(t) : x = t[i]
      BY <2>1 DEF Members
    <3> QED
      BY <1>3, <3>1 DEF Members, n
  <2>2. ASSUME x \in Members(s) PROVE x \in Members(t)
    <3>1. PICK i \in 1 .. Len(s) : x = s[i]
      BY <2>2 DEF Members
    <3>2. i \in 1 .. Len(t) /\ t[i] = s[i]
      BY <1>1, <1>2
    <3> QED
      BY <3>1, <3>2 DEF Members
  <2>3. ASSUME x \in Members(q) PROVE x \in Members(t)
    <3>1. PICK i \in 1 .. n : q[i] = x
      BY <2>3 DEF Members, n
    <3>2. Len(s) + i \in 1 .. Len(t) /\ t[Len(s) + i] = x
      BY <1>1, <1>2, <3>1
    <3> QED
      BY <3>2 DEF Members
  <2> QED
    BY <2>1, <2>2, <2>3
<1>6. ASSUME NEW i \in Len(s) + 1 .. Len(t) PROVE t[i] \in Members(q)
  <2>1. i \in 1 .. Len(t) /\ i \notin 1 .. Len(s)
    BY <1>1, <1>2
  <2> QED
    BY <1>3, <2>1 DEF Members, n
<1> QED
  BY <1>1, <1>2, <1>4, <1>5, <1>6 DEF n

\* A page lists its numbers in order; the last is the greatest.
LEMMA PageIsInOrder ==
  ASSUME NEW A \in SUBSET Int, NEW P \in SUBSET A, IsFiniteSet(P),
         NEW q, q = InOrder(P)
  PROVE  /\ q \in Seq(A) /\ Len(q) = Cardinality(P) /\ Cardinality(P) \in Nat
         /\ Ascending(q)
         /\ \A x : x \in Members(q) <=> x \in P
         /\ P # {} => q # <<>> /\ q[Len(q)] = Max(P)
<1>1. P \in SUBSET Int
  OBVIOUS
<1>2. q \in Seq(P) /\ Len(q) = Cardinality(P) /\ Cardinality(P) \in Nat
  BY <1>1, Listing, FS_CardinalityType
<1>3. \A i, j \in 1 .. Len(q) : i < j => q[i] < q[j]
  BY <1>1, <1>2, Listing
<1>4. \A c \in P : \E i \in 1 .. Len(q) : q[i] = c
  BY <1>1, <1>2, Listing
<1>5. \A i \in 1 .. Len(q) : q[i] \in P
  BY <1>2, ElementOfSeq
<1>6. q \in Seq(A)
  <2>1. q = [i \in 1 .. Len(q) |-> q[i]]
    BY <1>2
  <2>2. q \in [1 .. Len(q) -> A]
    BY <1>5, <2>1
  <2> QED
    BY <1>2, <2>2
<1>7. Ascending(q)
  BY <1>3 DEF Ascending
<1>8. \A x : x \in Members(q) <=> x \in P
  BY <1>4, <1>5 DEF Members
<1>9. ASSUME P # {} PROVE q # <<>> /\ q[Len(q)] = Max(P)
  <2>1. Max(P) \in P /\ \A x \in P : x <= Max(P)
    BY <1>1, <1>9, MaxExists
  <2>2. PICK i \in 1 .. Len(q) : q[i] = Max(P)
    BY <1>4, <2>1
  <2>3. q # <<>>
    BY <2>2
  <2>4. q[i] <= q[Len(q)] /\ Len(q) \in 1 .. Len(q)
    BY <1>6, <1>7, <2>3, LastIsGreatest
  <2>5. q[Len(q)] <= Max(P) /\ q[Len(q)] \in Int /\ Max(P) \in Int
    BY <1>1, <1>5, <2>1, <2>4
  <2> QED
    BY <2>2, <2>3, <2>4, <2>5
<1> QED
  BY <1>2, <1>6, <1>7, <1>8, <1>9

\* A page is put behind those before, and all its numbers lie behind theirs.
Extended(s, P) == s \o InOrder(P)
EndsBefore(s, P) == \A i \in 1 .. Len(s) : \A x \in P : s[i] < x

\* Such a page goes on in order and adds exactly its numbers.
LEMMA GoingOn ==
  ASSUME NEW A \in SUBSET Int, NEW s \in Seq(A), Ascending(s),
         NEW P \in SUBSET A, IsFiniteSet(P), EndsBefore(s, P)
  PROVE  /\ Extended(s, P) \in Seq(A) /\ Ascending(Extended(s, P))
         /\ \A x : x \in Members(Extended(s, P)) <=> x \in Members(s) \/ x \in P
<1> DEFINE q == InOrder(P)
           t == Extended(s, P)
<1>1. /\ q \in Seq(A) /\ Ascending(q)
      /\ \A x : x \in Members(q) <=> x \in P
  <2>1. q \in Seq(A) /\ Ascending(q)
    BY PageIsInOrder
  <2>2. \A x : x \in Members(q) <=> x \in P
    BY PageIsInOrder
  <2> QED
    BY <2>1, <2>2
<1>2. t = s \o q
  BY DEF Extended
<1> HIDE DEF q, t
<1>3. \A i \in 1 .. Len(s) : \A j \in 1 .. Len(q) : s[i] < q[j]
  BY <1>1 DEF Members, EndsBefore
<1>4. t \in Seq(A) /\ Ascending(t)
  BY <1>1, <1>2, <1>3, Concatenation
<1>5. \A x : x \in Members(t) <=> x \in Members(s) \/ x \in Members(q)
  BY <1>1, <1>2, <1>3, Concatenation
<1> QED
  BY <1>1, <1>4, <1>5 DEF t
=============================================================================
