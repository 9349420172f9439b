--------------------------- MODULE Reports_proofs ---------------------------
(***************************************************************************)
(* Proofs about what is written for a reader.  Compare, for every two      *)
(* games: whatever fields came, went, moved or changed, each difference is *)
(* told once, and what is said to have moved has.  TextDump, for every     *)
(* memory: what is farther to the right belongs to a line that is not.     *)
(***************************************************************************)
EXTENDS Compare, TextDump, FiniteSetTheorems, SequenceTheorems, WellFoundedInduction, TLAPS
-----------------------------------------------------------------------------
(* Orders *)

\* before has for any two of S which of them comes first.
Orders(before, S) ==
    /\ \A x \in S : <<x, x>> \notin before
    /\ \A x, y \in S : x # y => <<x, y>> \in before \/ <<y, x>> \in before
    /\ \A x, y, z \in S : <<x, y>> \in before /\ <<y, z>> \in before => <<x, z>> \in before

\* Everything of S is in the list, once.
LEMMA InOrderHasAll ==
    ASSUME NEW S, IsFiniteSet(S), NEW before, Orders(before, S)
    PROVE  InOrder(S, before) \in Bijection(1..Cardinality(S), S)
<1> DEFINE n       == Cardinality(S)
           Down(x) == {y \in S : <<y, x>> \in before}
           r(x)    == Cardinality(Down(x))
           f       == [x \in S |-> r(x) + 1]
           s       == InOrder(S, before)
<1>1. n \in Nat
  BY FS_CardinalityType
<1>2. \A x \in S : IsFiniteSet(Down(x)) /\ r(x) \in Nat /\ r(x) < n
  <2> SUFFICES ASSUME NEW x \in S PROVE IsFiniteSet(Down(x)) /\ r(x) \in Nat /\ r(x) < n
    OBVIOUS
  <2>1. Down(x) \subseteq S /\ x \notin Down(x)
    BY DEF Orders
  <2> HIDE DEF Down
  <2>2. IsFiniteSet(Down(x)) /\ r(x) <= n /\ (r(x) = n => Down(x) = S)
    BY <2>1, FS_Subset
  <2>3. r(x) \in Nat
    BY <2>2, FS_CardinalityType
  <2>4. r(x) # n
    BY <2>1, <2>2
  <2> HIDE DEF n, r
  <2> QED
    BY <1>1, <2>2, <2>3, <2>4
<1>3. \A x, y \in S : <<x, y>> \in before => r(x) < r(y)
  <2> SUFFICES ASSUME NEW x \in S, NEW y \in S, <<x, y>> \in before PROVE r(x) < r(y)
    OBVIOUS
  <2>1. Down(x) \subseteq Down(y) /\ x \in Down(y) /\ x \notin Down(x)
    BY DEF Orders
  <2>2. IsFiniteSet(Down(y)) /\ r(x) \in Nat /\ r(y) \in Nat
    BY <1>2
  <2> HIDE DEF Down
  <2>3. r(x) <= r(y) /\ (r(x) = r(y) => Down(x) = Down(y))
    BY <2>1, <2>2, FS_Subset
  <2>4. r(x) # r(y)
    BY <2>1, <2>3
  <2> HIDE DEF r
  <2> QED
    BY <2>2, <2>3, <2>4
<1>4. \A x, y \in S : r(x) = r(y) => x = y
  <2> SUFFICES ASSUME NEW x \in S, NEW y \in S, x # y PROVE r(x) # r(y)
    OBVIOUS
  <2>1. r(x) < r(y) \/ r(y) < r(x)
    BY <1>3 DEF Orders
  <2>2. r(x) \in Nat /\ r(y) \in Nat
    BY <1>2
  <2> HIDE DEF r
  <2> QED
    BY <2>1, <2>2
<1> HIDE DEF r, Down
<1>5. f \in Injection(S, 1..n)
  <2>1. f \in [S -> 1..n]
    <3> SUFFICES ASSUME NEW x \in S PROVE r(x) + 1 \in 1..n
      OBVIOUS
    <3>1. r(x) \in Nat /\ r(x) < n
      BY <1>2
    <3> HIDE DEF n
    <3> QED
      BY <1>1, <3>1
  <2>2. \A x, y \in S : f[x] = f[y] => x = y
    <3> SUFFICES ASSUME NEW x \in S, NEW y \in S, r(x) + 1 = r(y) + 1 PROVE x = y
      OBVIOUS
    <3>1. r(x) = r(y)
      BY <1>2
    <3> QED
      BY <1>4, <3>1
  <2> HIDE DEF f
  <2> QED
    BY <2>1, <2>2 DEF Injection, IsInjective
<1>6. f \in Surjection(S, 1..n)
  <2>1. IsFiniteSet(1..n) /\ Cardinality(1..n) = n
    <3> HIDE DEF n
    <3> QED
      BY <1>1, FS_Interval
  <2> HIDE DEF f
  <2> QED
    BY <1>5, <2>1, FS_Injection
<1>7. \A k \in 1..n : s[k] \in S /\ r(s[k]) = k - 1
  <2> SUFFICES ASSUME NEW k \in 1..n PROVE s[k] \in S /\ r(s[k]) = k - 1
    OBVIOUS
  <2>1. PICK x \in S : f[x] = k
    <3> HIDE DEF f
    <3> QED
      BY <1>6 DEF Surjection
  <2>2. r(x) = k - 1
    <3>1. r(x) + 1 = k /\ r(x) \in Nat
      BY <1>2, <2>1
    <3> HIDE DEF n
    <3> QED
      BY <1>1, <3>1
  <2>3. s[k] = CHOOSE y \in S : r(y) = k - 1
    BY DEF InOrder, r, Down
  <2> DEFINE m == k - 1
  <2>4. \E y \in S : r(y) = m
    BY <2>2
  <2> HIDE DEF s, m
  <2>5. s[k] = CHOOSE y \in S : r(y) = m
    BY <2>3 DEF m
  <2>6. s[k] \in S /\ r(s[k]) = m
    BY <2>4, <2>5, Zenon
  <2> QED
    BY <2>6 DEF m
<1>8. DOMAIN s = 1..n /\ s = [k \in 1..n |-> s[k]]
  <2> DEFINE pick(k) == CHOOSE x \in S : r(x) = k - 1
  <2>1. s = [k \in 1..n |-> pick(k)]
    BY DEF InOrder, r, Down
  <2> HIDE DEF s, n, pick
  <2> QED
    BY <2>1
<1> HIDE DEF s
<1>9. s \in [1..n -> S]
  BY <1>7, <1>8
<1>10. \A k, l \in 1..n : s[k] = s[l] => k = l
  <2> SUFFICES ASSUME NEW k \in 1..n, NEW l \in 1..n, s[k] = s[l] PROVE k = l
    OBVIOUS
  <2>1. k - 1 = l - 1
    BY <1>7
  <2> HIDE DEF n
  <2> QED
    BY <1>1, <2>1
<1>11. \A x \in S : \E k \in 1..n : s[k] = x
  <2> SUFFICES ASSUME NEW x \in S PROVE \E k \in 1..n : s[k] = x
    OBVIOUS
  <2> DEFINE k == r(x) + 1
  <2>1. k \in 1..n /\ k - 1 = r(x)
    <3>1. r(x) \in Nat /\ r(x) < n
      BY <1>2
    <3> HIDE DEF n
    <3> QED
      BY <1>1, <3>1
  <2> HIDE DEF k
  <2>2. s[k] \in S /\ r(s[k]) = r(x)
    BY <1>7, <2>1
  <2>3. s[k] = x
    BY <1>4, <2>2
  <2> QED
    BY <2>1, <2>3
<1>12. s \in Injection(1..n, S) /\ s \in Surjection(1..n, S)
  BY <1>9, <1>10, <1>11 DEF Injection, Surjection, IsInjective
<1> QED
  BY <1>12 DEF Bijection, s

IsSeq(s) == \E S : s \in Seq(S)

\* Whatever the order is, a list it is.
LEMMA InOrderDomain ==
    ASSUME NEW S, IsFiniteSet(S), NEW before
    PROVE  Cardinality(S) \in Nat /\ DOMAIN InOrder(S, before) = 1..Cardinality(S)
BY FS_CardinalityType DEF InOrder

LEMMA SortedHasAll ==
    ASSUME NEW S, IsFiniteSet(S), S \subseteq Nat
    PROVE  Sorted(S) \in Bijection(1..Cardinality(S), S)
<1> DEFINE before == {p \in S \X S : p[1] < p[2]}
<1>1. \A x, y \in S : <<x, y>> \in before <=> x < y
  OBVIOUS
<1> HIDE DEF before
<1>2. Orders(before, S)
  BY <1>1 DEF Orders
<1> QED
  BY <1>2, InOrderHasAll DEF Sorted, before

LEMMA SortedDomain ==
    ASSUME NEW S, IsFiniteSet(S)
    PROVE  Cardinality(S) \in Nat /\ DOMAIN Sorted(S) = 1..Cardinality(S)
BY InOrderDomain DEF Sorted
-----------------------------------------------------------------------------
(* Fields *)

\* A list of fields no two of which have the same name.
IsFields(tds) ==
    /\ Len(tds) \in Nat /\ DOMAIN tds = 1..Len(tds)
    /\ \A k, l \in DOMAIN tds : tds[k].name = tds[l].name => k = l
    /\ \A k \in DOMAIN tds : IsFiniteSet(DOMAIN tds[k].cmp) /\ IsFiniteSet(DOMAIN tds[k].ptr)

LEMMA ListOf ==
    ASSUME NEW n \in Nat, NEW F, DOMAIN F = 1..n, F = [k \in 1..n |-> F[k]]
    PROVE  IsSeq(F) /\ Len(F) = n
<1> DEFINE S == {F[k] : k \in 1..n}
<1>1. F \in [1..n -> S]
  OBVIOUS
<1> HIDE DEF S
<1>2. F \in Seq(S) /\ Len(F) = n
  BY <1>1
<1> QED
  BY <1>2 DEF IsSeq

LEMMA FieldsInOK ==
    ASSUME NEW p \in Pairs, NEW g \in 1..2, NEW c \in DOMAIN p[g]
    PROVE  IsFields(FieldsIn(p[g][c]))
<1> DEFINE tds    == p[g][c]
           S      == Compared(tds)
           before == {q \in S \X S : \/ tds[q[1]].offset < tds[q[2]].offset
                                     \/ tds[q[1]].offset = tds[q[2]].offset /\ q[1] < q[2]}
           order  == InOrder(S, before)
           fields == [k \in DOMAIN order |-> tds[order[k]]]
           n      == Cardinality(S)
<1>1. /\ IsFiniteSet(DOMAIN tds) /\ DOMAIN tds \subseteq Nat
      /\ \A k \in S : /\ tds[k].offset \in Nat
                      /\ IsFiniteSet(DOMAIN tds[k].cmp) /\ IsFiniteSet(DOMAIN tds[k].ptr)
      /\ \A k, l \in S : tds[k].name = tds[l].name => k = l
  BY PairsAssumption
<1>2. S \subseteq DOMAIN tds
  BY DEF Compared
<1> HIDE DEF tds, S
<1>3. IsFiniteSet(S) /\ S \subseteq Nat
  BY <1>1, <1>2, FS_Subset
<1>4. \A x, y \in S : <<x, y>> \in before <=> \/ tds[x].offset < tds[y].offset
                                              \/ tds[x].offset = tds[y].offset /\ x < y
  OBVIOUS
<1> HIDE DEF before
<1>5. Orders(before, S)
  <2>1. \A x \in S : <<x, x>> \notin before
    BY <1>1, <1>3, <1>4
  <2>2. \A x, y \in S : x # y => <<x, y>> \in before \/ <<y, x>> \in before
    BY <1>1, <1>3, <1>4
  <2>3. \A x, y, z \in S : <<x, y>> \in before /\ <<y, z>> \in before => <<x, z>> \in before
    BY <1>1, <1>3, <1>4
  <2> QED
    BY <2>1, <2>2, <2>3 DEF Orders
<1>6. order \in Bijection(1..n, S) /\ n \in Nat
  BY <1>3, <1>5, InOrderHasAll, FS_CardinalityType
<1> HIDE DEF order, n
<1>7. order \in [1..n -> S] /\ \A k, l \in 1..n : order[k] = order[l] => k = l
  BY <1>6 DEF Bijection, Injection, IsInjective
<1>8. DOMAIN fields = 1..n /\ \A k \in 1..n : fields[k] = tds[order[k]] /\ order[k] \in S
  BY <1>7
<1>9. fields = [k \in 1..n |-> fields[k]]
  BY <1>7
<1>10. FieldsIn(tds) = fields
  BY DEF FieldsIn, S, before, order
<1> HIDE DEF fields
<1>11. Len(fields) = n
  BY <1>6, <1>8, <1>9, ListOf
<1>12. IsFields(fields)
  <2>1. \A k, l \in 1..n : fields[k].name = fields[l].name => k = l
    BY <1>1, <1>7, <1>8
  <2>2. \A k \in 1..n : IsFiniteSet(DOMAIN fields[k].cmp) /\ IsFiniteSet(DOMAIN fields[k].ptr)
    BY <1>1, <1>8
  <2> QED
    BY <1>6, <1>8, <1>11, <2>1, <2>2 DEF IsFields
<1> QED
  BY <1>10, <1>12 DEF tds

-----------------------------------------------------------------------------
(* Two lists side by side *)

\* Both lists have been gone through, A up to x and B up to y, and mv found to have
\* moved: all shared fields in B up to y have been come by in A, and those in A up to
\* x that have not moved have been come by in B, in the same order.
Both(A, B) == Names(A) \cap Names(B)

Walked(A, B, x, y, mv) ==
    /\ x \in 1..(Len(A) + 1) /\ y \in 1..(Len(B) + 1) /\ mv \subseteq Both(A, B)
    /\ \A n \in mv : \E k \in DOMAIN A : k < x /\ A[k].name = n
    /\ \A l \in DOMAIN B : l < y /\ B[l].name \in Both(A, B) =>
          \E k \in DOMAIN A : k < x /\ A[k].name = B[l].name
    /\ \A k \in DOMAIN A, l \in DOMAIN B :
          k < x /\ A[k].name \notin mv /\ A[k].name = B[l].name => l < y
    /\ \A k1, k2 \in DOMAIN A, l1, l2 \in DOMAIN B :
          /\ k1 < k2 /\ k2 < x /\ A[k1].name \notin mv /\ A[k2].name \notin mv
          /\ A[k1].name = B[l1].name /\ A[k2].name = B[l2].name
          => l1 < l2
    /\ \A n \in mv : \E o \in Both(A, B) : Ahead(A, n, o) /\ Ahead(B, o, n)

LEMMA WalkedStart ==
    ASSUME NEW A, NEW B, IsFields(A), IsFields(B)
    PROVE  Walked(A, B, 1, 1, {})
<1>1. Len(A) \in Nat /\ Len(B) \in Nat /\ DOMAIN A = 1..Len(A) /\ DOMAIN B = 1..Len(B)
  BY DEF IsFields
<1> QED
  BY <1>1 DEF Walked

\* One field more of A that is not in B, or moved.
LEMMA WalkedPastA ==
    ASSUME NEW A, NEW B, IsFields(A), IsFields(B), NEW x, NEW y, NEW mv,
           Walked(A, B, x, y, mv), x <= Len(A), A[x].name \notin Both(A, B) \/ A[x].name \in mv
    PROVE  Walked(A, B, x + 1, y, mv)
<1>1. /\ Len(A) \in Nat /\ Len(B) \in Nat /\ DOMAIN A = 1..Len(A) /\ DOMAIN B = 1..Len(B)
      /\ x \in 1..(Len(A) + 1) /\ y \in 1..(Len(B) + 1) /\ x \in DOMAIN A
  BY DEF IsFields, Walked
<1>2. \A k \in DOMAIN A : k < x + 1 <=> k < x \/ k = x
  BY <1>1
<1>3. \A l \in DOMAIN B : A[x].name = B[l].name => A[x].name \in mv
  BY <1>1 DEF Both, Names
<1>4. x + 1 \in 1..(Len(A) + 1)
  BY <1>1
<1>5. \A k1, k2 \in DOMAIN A, l1, l2 \in DOMAIN B :
          /\ k1 < k2 /\ k2 < x + 1 /\ A[k1].name \notin mv /\ A[k2].name \notin mv
          /\ A[k1].name = B[l1].name /\ A[k2].name = B[l2].name
          => l1 < l2
  BY <1>2, <1>3 DEF Walked
<1> QED
  BY <1>2, <1>3, <1>4, <1>5 DEF Walked

\* One field more of B that is not in A, or moved.
LEMMA WalkedPastB ==
    ASSUME NEW A, NEW B, IsFields(A), IsFields(B), NEW x, NEW y, NEW mv,
           Walked(A, B, x, y, mv), y <= Len(B), B[y].name \notin Both(A, B) \/ B[y].name \in mv
    PROVE  Walked(A, B, x, y + 1, mv)
<1>1. /\ Len(A) \in Nat /\ Len(B) \in Nat /\ DOMAIN A = 1..Len(A) /\ DOMAIN B = 1..Len(B)
      /\ x \in 1..(Len(A) + 1) /\ y \in 1..(Len(B) + 1) /\ y \in DOMAIN B
  BY DEF IsFields, Walked
<1>2. /\ \A l \in DOMAIN B : l < y + 1 <=> l < y \/ l = y
      /\ y + 1 \in 1..(Len(B) + 1)
  BY <1>1
<1>3. \A l \in DOMAIN B : l < y + 1 /\ B[l].name \in Both(A, B) =>
          \E k \in DOMAIN A : k < x /\ A[k].name = B[l].name
  BY <1>2 DEF Walked
<1> QED
  BY <1>2, <1>3 DEF Walked

\* A field that is next in both.
LEMMA WalkedBoth ==
    ASSUME NEW A, NEW B, IsFields(A), IsFields(B), NEW x, NEW y, NEW mv,
           Walked(A, B, x, y, mv), x <= Len(A), y <= Len(B), A[x].name = B[y].name
    PROVE  Walked(A, B, x + 1, y + 1, mv)
<1>1. /\ Len(A) \in Nat /\ Len(B) \in Nat /\ DOMAIN A = 1..Len(A) /\ DOMAIN B = 1..Len(B)
      /\ x \in 1..(Len(A) + 1) /\ y \in 1..(Len(B) + 1) /\ x \in DOMAIN A /\ y \in DOMAIN B
  BY DEF IsFields, Walked
<1>2. /\ \A k \in DOMAIN A : k < x + 1 <=> k < x \/ k = x
      /\ \A l \in DOMAIN B : l < y + 1 <=> l < y \/ l = y
      /\ x + 1 \in 1..(Len(A) + 1) /\ y + 1 \in 1..(Len(B) + 1)
  BY <1>1
<1>3. \A l \in DOMAIN B : A[x].name = B[l].name => l = y
  BY <1>1 DEF IsFields
<1>4. \A l \in DOMAIN B : l < y + 1 /\ B[l].name \in Both(A, B) =>
          \E k \in DOMAIN A : k < x + 1 /\ A[k].name = B[l].name
  BY <1>1, <1>2 DEF Walked
<1>5. \A k \in DOMAIN A, l \in DOMAIN B :
          k < x + 1 /\ A[k].name \notin mv /\ A[k].name = B[l].name => l < y + 1
  BY <1>2, <1>3 DEF Walked
<1>6. \A k1, k2 \in DOMAIN A, l1, l2 \in DOMAIN B :
          /\ k1 < k2 /\ k2 < x + 1 /\ A[k1].name \notin mv /\ A[k2].name \notin mv
          /\ A[k1].name = B[l1].name /\ A[k2].name = B[l2].name
          => l1 < l2
  BY <1>2, <1>3 DEF Walked
<1>7. \A n \in mv : \E k \in DOMAIN A : k < x + 1 /\ A[k].name = n
  BY <1>2 DEF Walked
<1> QED
  BY <1>2, <1>4, <1>5, <1>6, <1>7 DEF Walked

\* A field that is next in A and not in B.
LEMMA WalkedMoved ==
    ASSUME NEW A, NEW B, IsFields(A), IsFields(B), NEW x, NEW y, NEW mv,
           Walked(A, B, x, y, mv), x <= Len(A), y <= Len(B), A[x].name # B[y].name,
           A[x].name \in Both(A, B), B[y].name \in Both(A, B), B[y].name \notin mv
    PROVE  Walked(A, B, x + 1, y, mv \cup {A[x].name})
<1> DEFINE n   == A[x].name
           o   == B[y].name
           now == mv \cup {n}
<1>1. /\ Len(A) \in Nat /\ Len(B) \in Nat /\ DOMAIN A = 1..Len(A) /\ DOMAIN B = 1..Len(B)
      /\ x \in 1..(Len(A) + 1) /\ y \in 1..(Len(B) + 1) /\ x \in DOMAIN A /\ y \in DOMAIN B
  BY DEF IsFields, Walked
<1>2. /\ \A k \in DOMAIN A : k < x + 1 <=> k < x \/ k = x
      /\ x + 1 \in 1..(Len(A) + 1)
  BY <1>1
<1>3. Ahead(A, n, o)
  <2>1. PICK k \in DOMAIN A : A[k].name = o
    BY DEF Both, Names
  <2>2. ~(k < x)
    BY <1>1, <2>1 DEF Walked
  <2>3. k # x
    BY <2>1
  <2> QED
    BY <1>1, <2>1, <2>2, <2>3 DEF Ahead
<1>4. Ahead(B, o, n)
  <2>1. PICK l \in DOMAIN B : B[l].name = n
    BY DEF Both, Names
  <2>2. ~(l < y)
    <3> SUFFICES ASSUME l < y PROVE FALSE
      OBVIOUS
    <3>1. PICK k \in DOMAIN A : k < x /\ A[k].name = B[l].name
      BY <2>1 DEF Walked
    <3>2. k = x
      BY <1>1, <2>1, <3>1 DEF IsFields
    <3> QED
      BY <1>1, <3>1, <3>2
  <2>3. l # y
    BY <2>1
  <2> QED
    BY <1>1, <2>1, <2>2, <2>3 DEF Ahead
<1>5. now \subseteq Both(A, B)
  BY DEF Walked
<1>6. \A m \in now : \E k \in DOMAIN A : k < x + 1 /\ A[k].name = m
  BY <1>1, <1>2 DEF Walked
<1>7. \A l \in DOMAIN B : l < y /\ B[l].name \in Both(A, B) =>
          \E k \in DOMAIN A : k < x + 1 /\ A[k].name = B[l].name
  BY <1>2 DEF Walked
<1>8. \A k \in DOMAIN A, l \in DOMAIN B :
          k < x + 1 /\ A[k].name \notin now /\ A[k].name = B[l].name => l < y
  BY <1>2 DEF Walked
<1>9. \A k1, k2 \in DOMAIN A, l1, l2 \in DOMAIN B :
          /\ k1 < k2 /\ k2 < x + 1 /\ A[k1].name \notin now /\ A[k2].name \notin now
          /\ A[k1].name = B[l1].name /\ A[k2].name = B[l2].name
          => l1 < l2
  BY <1>2 DEF Walked
<1>10. \A m \in now : \E q \in Both(A, B) : Ahead(A, m, q) /\ Ahead(B, q, m)
  BY <1>3, <1>4 DEF Walked
<1>11. y \in 1..(Len(B) + 1)
  BY <1>1
<1> HIDE DEF now
<1>12. Walked(A, B, x + 1, y, now)
  BY <1>2, <1>5, <1>6, <1>7, <1>8, <1>9, <1>10, <1>11 DEF Walked
<1> QED
  BY <1>12 DEF now

\* One of the lists is at its end.
LEMMA WalkedEnd ==
    ASSUME NEW A, NEW B, IsFields(A), IsFields(B), NEW x, NEW y, NEW mv,
           Walked(A, B, x, y, mv), ~(x <= Len(A) /\ y <= Len(B))
    PROVE  /\ \A n \in Both(A, B) : \E k \in DOMAIN A : k < x /\ A[k].name = n
           /\ \A n, o \in Both(A, B) \ mv : Ahead(A, n, o) => Ahead(B, n, o)
<1>1. /\ Len(A) \in Nat /\ Len(B) \in Nat /\ DOMAIN A = 1..Len(A) /\ DOMAIN B = 1..Len(B)
      /\ x \in 1..(Len(A) + 1) /\ y \in 1..(Len(B) + 1)
  BY DEF IsFields, Walked
<1>2. ASSUME NEW n \in Both(A, B) PROVE \E k \in DOMAIN A : k < x /\ A[k].name = n
  <2>1. PICK k \in DOMAIN A, l \in DOMAIN B : A[k].name = n /\ B[l].name = n
    BY DEF Both, Names
  <2>2. CASE ~(x <= Len(A))
    BY <1>1, <2>1, <2>2
  <2>3. CASE ~(y <= Len(B))
    <3>1. l < y
      BY <1>1, <2>3
    <3> QED
      BY <2>1, <3>1 DEF Walked
  <2> QED
    BY <2>2, <2>3
<1>3. ASSUME NEW n \in Both(A, B) \ mv, NEW o \in Both(A, B) \ mv, Ahead(A, n, o)
      PROVE  Ahead(B, n, o)
  <2>1. PICK k1 \in DOMAIN A, k2 \in DOMAIN A : k1 < k2 /\ A[k1].name = n /\ A[k2].name = o
    BY <1>3 DEF Ahead
  <2>2. k2 < x
    <3>1. PICK k \in DOMAIN A : k < x /\ A[k].name = o
      BY <1>2
    <3>2. k = k2
      BY <2>1, <3>1 DEF IsFields
    <3> QED
      BY <3>1, <3>2
  <2>3. PICK l1 \in DOMAIN B, l2 \in DOMAIN B : B[l1].name = n /\ B[l2].name = o
    BY DEF Both, Names
  <2>4. l1 < l2
    BY <2>1, <2>2, <2>3 DEF Walked
  <2> QED
    BY <2>3, <2>4 DEF Ahead
<1> QED
  BY <1>2, <1>3
-----------------------------------------------------------------------------
(* Lines *)

\* Nothing has been said in s of a class, or of what differs between its fields n.
Untold(s, c)    == \A k \in DOMAIN s : s[k][1] \notin {"moved", "differs"} \/ s[k][2] # c
Unsaid(s, c, n) == \A k \in DOMAIN s : ~Tells(s[k], c, n)

LEMMA SeqAppend ==
    ASSUME NEW s, NEW t, IsSeq(s), IsSeq(t)
    PROVE  /\ IsSeq(s \o t) /\ Len(s) \in Nat /\ Len(t) \in Nat
           /\ DOMAIN s = 1..Len(s) /\ DOMAIN t = 1..Len(t)
           /\ DOMAIN (s \o t) = 1..(Len(s) + Len(t))
           /\ \A n \in DOMAIN s : (s \o t)[n] = s[n]
           /\ \A n \in DOMAIN t : (s \o t)[Len(s) + n] = t[n]
<1>1. PICK S, T : s \in Seq(S) /\ t \in Seq(T)
  BY DEF IsSeq
<1>2. s \in Seq(S \cup T) /\ t \in Seq(S \cup T)
  BY <1>1
<1>3. s \o t \in Seq(S \cup T)
  BY <1>2
<1>4. IsSeq(s \o t)
  BY <1>3 DEF IsSeq
<1> QED
  BY <1>2, <1>3, <1>4

LEMMA Appended ==
    ASSUME NEW s, NEW t, IsSeq(s), IsSeq(t)
    PROVE  \A n \in DOMAIN (s \o t) :
              \/ n \in DOMAIN s /\ (s \o t)[n] = s[n]
              \/ \E m \in DOMAIN t : n = Len(s) + m /\ (s \o t)[n] = t[m]
<1> SUFFICES ASSUME NEW n \in DOMAIN (s \o t), n \notin DOMAIN s
             PROVE  \E m \in DOMAIN t : n = Len(s) + m /\ (s \o t)[n] = t[m]
  BY SeqAppend
<1> DEFINE m == n - Len(s)
<1>1. m \in DOMAIN t /\ n = Len(s) + m
  BY SeqAppend
<1> HIDE DEF m
<1> QED
  BY <1>1, SeqAppend

LEMMA UntoldBoth ==
    ASSUME NEW s, NEW t, IsSeq(s), IsSeq(t), NEW c, Untold(s, c), Untold(t, c)
    PROVE  Untold(s \o t, c)
<1>1. ASSUME NEW k \in DOMAIN (s \o t)
      PROVE  \/ \E m \in DOMAIN s : (s \o t)[k] = s[m]
             \/ \E m \in DOMAIN t : (s \o t)[k] = t[m]
  BY Appended
<1> QED
  BY <1>1 DEF Untold

LEMMA UnsaidBoth ==
    ASSUME NEW s, NEW t, IsSeq(s), IsSeq(t), NEW c, NEW n, Unsaid(s, c, n), Unsaid(t, c, n)
    PROVE  Unsaid(s \o t, c, n)
<1>1. ASSUME NEW k \in DOMAIN (s \o t)
      PROVE  \/ \E m \in DOMAIN s : (s \o t)[k] = s[m]
             \/ \E m \in DOMAIN t : (s \o t)[k] = t[m]
  BY Appended
<1> QED
  BY <1>1 DEF Unsaid

LEMMA SetBoth ==
    ASSUME NEW s, NEW t, IsSeq(s), IsSeq(t)
    PROVE  \A w : w \in ToSet(s \o t) <=> w \in ToSet(s) \/ w \in ToSet(t)
<1> DEFINE u == s \o t
<1>1. /\ \A k \in DOMAIN u : \/ k \in DOMAIN s /\ u[k] = s[k]
                             \/ \E m \in DOMAIN t : u[k] = t[m]
      /\ \A k \in DOMAIN s : k \in DOMAIN u /\ u[k] = s[k]
      /\ \A m \in DOMAIN t : Len(s) + m \in DOMAIN u /\ u[Len(s) + m] = t[m]
  BY SeqAppend, Appended
<1> HIDE DEF u
<1>2. \A w : w \in ToSet(u) <=> w \in ToSet(s) \/ w \in ToSet(t)
  BY <1>1 DEF ToSet
<1> QED
  BY <1>2 DEF u

LEMMA ToldStays ==
    ASSUME NEW s, NEW t, IsSeq(s), IsSeq(t), NEW c, NEW n, NEW told,
           ToldOnce(s, c, n, told), Unsaid(t, c, n)
    PROVE  ToldOnce(s \o t, c, n, told)
<1> DEFINE u == s \o t
<1>1. PICK p \in 0..Len(s) :
         /\ \A k \in DOMAIN told : p + k \in DOMAIN s /\ s[p + k] = told[k]
         /\ \A k \in DOMAIN s : Tells(s[k], c, n) => k > p /\ k - p \in DOMAIN told
  BY DEF ToldOnce
<1>2. /\ IsSeq(u) /\ Len(s) \in Nat /\ Len(t) \in Nat
      /\ DOMAIN u = 1..(Len(s) + Len(t))
      /\ \A k \in DOMAIN s : k \in DOMAIN u /\ u[k] = s[k]
  BY SeqAppend
<1>3. Len(u) = Len(s) + Len(t)
  BY <1>2 DEF IsSeq
<1>4. p \in 0..Len(u)
  BY <1>2, <1>3
<1>5. \A k \in DOMAIN u : Tells(u[k], c, n) => k \in DOMAIN s /\ u[k] = s[k]
  BY Appended DEF Unsaid
<1> HIDE DEF u
<1>6. \A k \in DOMAIN told : p + k \in DOMAIN u /\ u[p + k] = told[k]
  BY <1>1, <1>2
<1>7. \A k \in DOMAIN u : Tells(u[k], c, n) => k > p /\ k - p \in DOMAIN told
  BY <1>1, <1>5
<1>8. ToldOnce(u, c, n, told)
  BY <1>4, <1>6, <1>7 DEF ToldOnce
<1> QED
  BY <1>8 DEF u

LEMMA ToldNow ==
    ASSUME NEW s, NEW told, IsSeq(s), IsSeq(told), NEW c, NEW n, Unsaid(s, c, n)
    PROVE  ToldOnce(s \o told, c, n, told)
<1> DEFINE u == s \o told
           p == Len(s)
<1>1. /\ IsSeq(u) /\ p \in Nat /\ Len(told) \in Nat
      /\ DOMAIN u = 1..(p + Len(told)) /\ DOMAIN told = 1..Len(told)
      /\ \A k \in DOMAIN told : u[p + k] = told[k]
  BY SeqAppend
<1>2. Len(u) = p + Len(told)
  BY <1>1 DEF IsSeq
<1>3. \A k \in DOMAIN u : Tells(u[k], c, n) => \E m \in DOMAIN told : k = p + m
  BY Appended DEF Unsaid
<1> HIDE DEF u, p
<1>4. p \in 0..Len(u)
  BY <1>1, <1>2
<1>5. \A k \in DOMAIN told : p + k \in DOMAIN u /\ u[p + k] = told[k]
  BY <1>1
<1>6. \A k \in DOMAIN u : Tells(u[k], c, n) => k > p /\ k - p \in DOMAIN told
  BY <1>1, <1>3
<1>7. ToldOnce(u, c, n, told)
  BY <1>4, <1>5, <1>6 DEF ToldOnce
<1> QED
  BY <1>7 DEF u

\* Lines that all say what of names.
LEMMA SaidOf ==
    ASSUME NEW S, IsFiniteSet(S), NEW F, NEW G, F = [k \in DOMAIN Sorted(S) |-> G[k]]
    PROVE  IsSeq(F) /\ DOMAIN F = DOMAIN Sorted(S)
<1> DEFINE n == Cardinality(S)
<1>1. n \in Nat /\ DOMAIN Sorted(S) = 1..n
  BY SortedDomain
<1> HIDE DEF n
<1>2. F = [k \in 1..n |-> F[k]] /\ DOMAIN F = 1..n
  BY <1>1
<1> QED
  BY <1>1, <1>2, ListOf

\* What is said of the differences between two fields.
LEMMA DifferencesOK ==
    ASSUME NEW c, NEW td0, NEW td1, IsFiniteSet(DOMAIN td0.cmp), IsFiniteSet(DOMAIN td0.ptr)
    PROVE  LET told == Differences(c, td0, td1)
           IN  /\ IsSeq(told)
               /\ \A k \in DOMAIN told : /\ told[k][1] = "differs" /\ told[k][2] = c
                                         /\ told[k][3] = td0.name
<1> DEFINE S1   == {k \in DOMAIN td0.cmp : td0.cmp[k] # td1.cmp[k]}
           S2   == {k \in DOMAIN td0.ptr : (td0.ptr[k] = Null) # (td1.ptr[k] = Null)}
           cmp  == Sorted(S1)
           ptr  == Sorted(S2)
           t1   == [k \in DOMAIN cmp |-> <<"differs", c, td0.name, <<"cmp", cmp[k]>> >>]
           t2   == [k \in DOMAIN ptr |-> <<"differs", c, td0.name, <<"ptr", ptr[k]>> >>]
           Of(w) == w[1] = "differs" /\ w[2] = c /\ w[3] = td0.name
<1>1. IsFiniteSet(S1) /\ IsFiniteSet(S2)
  BY FS_Subset
<1>2. Differences(c, td0, td1) = t1 \o t2
  BY DEF Differences
<1> HIDE DEF S1, S2
<1>3. IsSeq(t1) /\ \A k \in DOMAIN t1 : Of(t1[k])
  <2>1. DOMAIN t1 = DOMAIN cmp /\ t1 = [k \in DOMAIN cmp |-> t1[k]] /\ \A k \in DOMAIN t1 : Of(t1[k])
    OBVIOUS
  <2> HIDE DEF t1, Of
  <2> QED
    BY <1>1, <2>1, SaidOf
<1>4. IsSeq(t2) /\ \A k \in DOMAIN t2 : Of(t2[k])
  <2>1. DOMAIN t2 = DOMAIN ptr /\ t2 = [k \in DOMAIN ptr |-> t2[k]] /\ \A k \in DOMAIN t2 : Of(t2[k])
    OBVIOUS
  <2> HIDE DEF t2, Of
  <2> QED
    BY <1>1, <2>1, SaidOf
<1> HIDE DEF t1, t2, Of
<1>5. IsSeq(t1 \o t2) /\ \A k \in DOMAIN (t1 \o t2) : Of((t1 \o t2)[k])
  <2>1. \A k \in DOMAIN (t1 \o t2) : \/ \E m \in DOMAIN t1 : (t1 \o t2)[k] = t1[m]
                                     \/ \E m \in DOMAIN t2 : (t1 \o t2)[k] = t2[m]
    BY <1>3, <1>4, Appended
  <2> QED
    BY <1>3, <1>4, <2>1, SeqAppend
<1> QED
  BY <1>2, <1>5 DEF Of

LEMMA Associative ==
    ASSUME NEW s, NEW t, NEW u, IsSeq(s), IsSeq(t), IsSeq(u)
    PROVE  (s \o t) \o u = s \o (t \o u)
<1>1. PICK S0, S1, S2 : s \in Seq(S0) /\ t \in Seq(S1) /\ u \in Seq(S2)
  BY DEF IsSeq
<1> DEFINE S == S0 \cup S1 \cup S2
<1>2. s \in Seq(S) /\ t \in Seq(S) /\ u \in Seq(S)
  BY <1>1
<1> HIDE DEF S
<1> QED
  BY <1>2
-----------------------------------------------------------------------------
(* The invariant *)

\* The fields of A up to x have been compared with those of B.
ToldUpTo(s, c, A, B, x) ==
    \A k \in DOMAIN A : A[k].name \in Names(B) =>
        IF k < x THEN ToldOnce(s, c, A[k].name, Differences(c, A[k], Named(A[k].name, B)))
        ELSE Unsaid(s, c, A[k].name)

\* The class that is being compared.
InClass ==
    LET c == Head(todo)
    IN  /\ todo # <<>> /\ td_lists = <<Saved(1, c), Saved(2, c)>>
        /\ Walked(Saved(1, c), Saved(2, c), i, j, moved) /\ moved = Gone(c)
        /\ ToldUpTo(out, c, Saved(1, c), Saved(2, c), i)

CompareInv ==
    /\ dm_lookup \in Pairs /\ IsSeq(out)
    /\ todo \in Seq(SharedClasses)
    /\ \A k, l \in DOMAIN todo : todo[k] = todo[l] => k = l
    /\ \A c \in SharedClasses : (\A k \in DOMAIN todo : todo[k] # c) => ClassTold(c)
    /\ \A k \in DOMAIN todo : k # 1 \/ td_lists = <<>> => Untold(out, todo[k])
    /\ td_lists # <<>> => InClass

LEMMA SavedOK ==
    ASSUME dm_lookup \in Pairs, NEW c \in SharedClasses
    PROVE  IsFields(Saved(1, c)) /\ IsFields(Saved(2, c))
BY FieldsInOK DEF SharedClasses, Saved

LEMMA HeadOK ==
    ASSUME NEW S, NEW s \in Seq(S), s # <<>>
    PROVE  /\ Head(s) \in S /\ 1 \in DOMAIN s /\ s[1] = Head(s) /\ Tail(s) \in Seq(S)
           /\ \A k \in DOMAIN Tail(s) : k + 1 \in DOMAIN s /\ Tail(s)[k] = s[k + 1] /\ k + 1 # 1
           /\ \A k \in DOMAIN s : k # 1 => k - 1 \in DOMAIN Tail(s) /\ Tail(s)[k - 1] = s[k]
OBVIOUS

\* What has been told of a class is not taken back.
LEMMA ClassStays ==
    ASSUME IsSeq(out), UNCHANGED dm_lookup, NEW t, IsSeq(t), out' = out \o t,
           NEW c, Untold(t, c), ClassTold(c)
    PROVE  ClassTold(c)'
<1>1. \A n : Unsaid(t, c, n)
  BY DEF Untold, Unsaid, Tells
<1>2. \A n : <<"moved", c, n>> \notin ToSet(t)
  BY DEF Untold, ToSet
<1>3. \A g : Saved(g, c)' = Saved(g, c)
  BY DEF Saved
<1>4. Shared(c)' = Shared(c)
  BY <1>3 DEF Shared
<1>5. Gone(c)' = Gone(c)
  BY <1>2, <1>4, SetBoth DEF Gone
<1>6. \A n, told : ToldOnce(out, c, n, told) => ToldOnce(out', c, n, told)
  BY <1>1, ToldStays
<1>7. \A g, n, o : Before(g, c, n, o)' = Before(g, c, n, o)
  BY <1>3 DEF Before
<1> QED
  BY <1>3, <1>4, <1>5, <1>6, <1>7 DEF ClassTold

\* What is the same after every step within a class.
LEMMA SameClass ==
    ASSUME CompareInv, UNCHANGED <<dm_lookup, todo>>
    PROVE  /\ Head(todo)' = Head(todo) /\ SharedClasses' = SharedClasses
           /\ \A g, b : Saved(g, b)' = Saved(g, b)
<1>1. dm_lookup' = dm_lookup /\ todo' = todo
  OBVIOUS
<1>2. Head(todo)' = Head(todo)
  BY <1>1
<1>3. \A g, b : FieldsIn(dm_lookup'[g][b]) = FieldsIn(dm_lookup[g][b])
  BY ONLY <1>1
<1>4. \A g, b : Saved(g, b)' = Saved(g, b)
  BY <1>3 DEF Saved
<1> QED
  BY <1>1, <1>2, <1>4 DEF SharedClasses

LEMMA InitInv ==
    ASSUME Init
    PROVE  CompareInv
<1>1. PICK p \in Pairs :
         LET names == [g \in 1..2 |-> DOMAIN p[g]]
         IN  /\ dm_lookup = p
             /\ todo = Sorted(names[1] \cap names[2])
             /\ out = [k \in DOMAIN Sorted(names[2] \ names[1]) |-> <<"added", Sorted(names[2] \ names[1])[k]>>]
                      \o [k \in DOMAIN Sorted(names[1] \ names[2]) |-> <<"dropped", Sorted(names[1] \ names[2])[k]>>]
  BY DEF Init
<1> DEFINE N1 == DOMAIN p[1]
           N2 == DOMAIN p[2]
           t1 == [k \in DOMAIN Sorted(N2 \ N1) |-> <<"added", Sorted(N2 \ N1)[k]>>]
           t2 == [k \in DOMAIN Sorted(N1 \ N2) |-> <<"dropped", Sorted(N1 \ N2)[k]>>]
           S  == N1 \cap N2
           n  == Cardinality(S)
<1>2. dm_lookup = p /\ todo = Sorted(S) /\ out = t1 \o t2 /\ td_lists = <<>>
  <2> DEFINE names == [g \in 1..2 |-> DOMAIN p[g]]
             said(what, s) == [k \in DOMAIN s |-> <<what, s[k]>>]
  <2>1. /\ dm_lookup = p /\ todo = Sorted(names[1] \cap names[2])
        /\ out = said("added", Sorted(names[2] \ names[1])) \o said("dropped", Sorted(names[1] \ names[2]))
    BY <1>1
  <2>2. names[1] = N1 /\ names[2] = N2
    OBVIOUS
  <2>3. t1 = said("added", Sorted(N2 \ N1)) /\ t2 = said("dropped", Sorted(N1 \ N2))
    OBVIOUS
  <2>4. td_lists = <<>>
    BY DEF Init
  <2> HIDE DEF names, said, N1, N2, t1, t2
  <2> QED
    BY <2>1, <2>2, <2>3, <2>4
<1>3. IsFiniteSet(N1) /\ IsFiniteSet(N2) /\ N1 \subseteq Nat /\ N2 \subseteq Nat
  BY PairsAssumption
<1>4. SharedClasses = S
  BY <1>2 DEF SharedClasses
<1> HIDE DEF N1, N2
<1>5. /\ IsFiniteSet(S) /\ S \subseteq Nat
      /\ IsFiniteSet(N1 \ N2) /\ IsFiniteSet(N2 \ N1)
  BY <1>3, FS_Subset
<1>6. IsSeq(t1) /\ \A k \in DOMAIN t1 : t1[k][1] = "added"
  <2>1. DOMAIN t1 = DOMAIN Sorted(N2 \ N1) /\ t1 = [k \in DOMAIN Sorted(N2 \ N1) |-> t1[k]]
        /\ \A k \in DOMAIN t1 : t1[k][1] = "added"
    OBVIOUS
  <2> HIDE DEF t1
  <2> QED
    BY <1>5, <2>1, SaidOf
<1>7. IsSeq(t2) /\ \A k \in DOMAIN t2 : t2[k][1] = "dropped"
  <2>1. DOMAIN t2 = DOMAIN Sorted(N1 \ N2) /\ t2 = [k \in DOMAIN Sorted(N1 \ N2) |-> t2[k]]
        /\ \A k \in DOMAIN t2 : t2[k][1] = "dropped"
    OBVIOUS
  <2> HIDE DEF t2
  <2> QED
    BY <1>5, <2>1, SaidOf
<1> HIDE DEF t1, t2, S
<1>8. IsSeq(out) /\ \A c : Untold(out, c)
  <2>1. \A c : Untold(t1, c) /\ Untold(t2, c)
    BY <1>6, <1>7 DEF Untold
  <2> QED
    BY <1>2, <1>6, <1>7, <2>1, SeqAppend, UntoldBoth
<1>9. n \in Nat /\ Sorted(S) \in Bijection(1..n, S)
  BY <1>5, FS_CardinalityType, SortedHasAll
<1> HIDE DEF n
<1>10. /\ todo \in [1..n -> S] /\ \A k, l \in 1..n : todo[k] = todo[l] => k = l
       /\ \A c \in S : \E k \in 1..n : todo[k] = c
  BY <1>2, <1>9 DEF Bijection, Injection, Surjection, IsInjective
<1>11. todo \in Seq(S) /\ DOMAIN todo = 1..n
  BY <1>9, <1>10
<1> QED
  BY <1>1, <1>2, <1>4, <1>8, <1>10, <1>11 DEF CompareInv

LEMMA StartClassInv ==
    ASSUME CompareInv, StartClass
    PROVE  CompareInv'
<1> DEFINE c  == Head(todo)
           A  == Saved(1, c)
           B  == Saved(2, c)
           new  == Without(B, Names(A))
           old  == Without(A, Names(B))
           t1 == [k \in DOMAIN new |-> <<"added", c, new[k]>>]
           t2 == [k \in DOMAIN old |-> <<"dropped", c, old[k]>>]
<1>1. /\ td_lists = <<>> /\ todo # <<>> /\ td_lists' = <<A, B>>
      /\ out' = (out \o t1) \o t2 /\ i' = 1 /\ j' = 1 /\ moved' = {}
      /\ UNCHANGED <<dm_lookup, todo>>
  <2> DEFINE tds == [g \in 1..2 |-> FieldsIn(dm_lookup[g][c])]
             say(what, names) == [k \in DOMAIN names |-> <<what, c, names[k]>>]
  <2>1. /\ td_lists = <<>> /\ todo # <<>> /\ td_lists' = tds
        /\ out' = (out \o say("added", Without(tds[2], Names(tds[1]))))
                      \o say("dropped", Without(tds[1], Names(tds[2])))
        /\ i' = 1 /\ j' = 1 /\ moved' = {}
        /\ UNCHANGED <<dm_lookup, todo>>
    BY DEF StartClass
  <2>2. tds[1] = A /\ tds[2] = B
    BY DEF Saved
  <2>3. tds = <<tds[1], tds[2]>>
    OBVIOUS
  <2>4. say("added", Without(tds[2], Names(tds[1]))) = t1
        /\ say("dropped", Without(tds[1], Names(tds[2]))) = t2
    BY ONLY <2>2
  <2> HIDE DEF tds, say, t1, t2, A, B
  <2> QED
    BY ONLY <2>1, <2>2, <2>3, <2>4
<1>2. c \in SharedClasses /\ 1 \in DOMAIN todo /\ todo[1] = c
  BY <1>1, HeadOK DEF CompareInv
<1>3. IsFields(A) /\ IsFields(B)
  BY <1>2, SavedOK DEF CompareInv
<1>4. ASSUME NEW tds, IsFields(tds), NEW names
      PROVE  \E n \in Nat : DOMAIN Without(tds, names) = 1..n
  <2> DEFINE S == {k \in DOMAIN tds : tds[k].name \notin names}
  <2>1. S \subseteq 1..Len(tds) /\ Len(tds) \in Nat
    BY <1>4 DEF IsFields
  <2>2. IsFiniteSet(S)
    BY <2>1, FS_Interval, FS_Subset
  <2>3. DOMAIN Without(tds, names) = DOMAIN Sorted(S)
    BY DEF Without
  <2> HIDE DEF S
  <2> QED
    BY <2>2, <2>3, SortedDomain
<1>5. IsSeq(t1) /\ IsSeq(t2)
  <2>1. PICK n1 \in Nat, n2 \in Nat : DOMAIN new = 1..n1 /\ DOMAIN old = 1..n2
    BY <1>3, <1>4
  <2> HIDE DEF new, old, c
  <2>2. /\ DOMAIN t1 = 1..n1 /\ t1 = [k \in 1..n1 |-> t1[k]]
        /\ DOMAIN t2 = 1..n2 /\ t2 = [k \in 1..n2 |-> t2[k]]
    BY <2>1
  <2> HIDE DEF t1, t2
  <2> QED
    BY <2>2, ListOf
<1>6. (\A k \in DOMAIN t1 : t1[k][1] = "added") /\ \A k \in DOMAIN t2 : t2[k][1] = "dropped"
  <2> HIDE DEF new, old, c
  <2> QED
    OBVIOUS
<1> HIDE DEF t1, t2, new, old, A, B
<1> DEFINE t == t1 \o t2
<1>7. \A b : Untold(t1, b) /\ Untold(t2, b)
  BY <1>6 DEF Untold
<1>8. IsSeq(t) /\ \A b : Untold(t, b)
  BY <1>5, <1>7, UntoldBoth, SeqAppend
<1>9. IsSeq(out) /\ out' = out \o t /\ IsSeq(out')
  <2>1. IsSeq(out)
    BY DEF CompareInv
  <2>2. (out \o t1) \o t2 = out \o t
    BY <1>5, <2>1, Associative
  <2> QED
    BY <1>1, <1>8, <2>1, <2>2, SeqAppend
<1> HIDE DEF t
<1>10. Untold(out, c) /\ Untold(out', c)
  <2>1. Untold(out, c)
    BY <1>1, <1>2 DEF CompareInv
  <2> QED
    BY <1>8, <1>9, <2>1, UntoldBoth
<1>11. Saved(1, c)' = A /\ Saved(2, c)' = B /\ Head(todo)' = c /\ SharedClasses' = SharedClasses
  BY <1>1, SameClass DEF A, B
<1>12. InClass'
  <2>1. Walked(A, B, i', j', moved')
    BY <1>1, <1>3, WalkedStart
  <2>2. Gone(c)' = {}
    <3>1. ASSUME NEW n, <<"moved", c, n>> \in ToSet(out')
          PROVE  FALSE
      <4>1. PICK k \in DOMAIN out' : out'[k] = <<"moved", c, n>>
        BY <3>1 DEF ToSet
      <4> HIDE DEF c
      <4> QED
        BY <1>10, <4>1 DEF Untold
    <3>2. Gone(c)' = {n \in Shared(c)' : <<"moved", c', n>> \in ToSet(out')}
      BY DEF Gone
    <3>3. c' = c
      BY <1>11
    <3> HIDE DEF c
    <3> QED
      BY <3>1, <3>2, <3>3
  <2>3. ToldUpTo(out', c, A, B, i')
    <3>1. \A n : Unsaid(out', c, n)
      <4> HIDE DEF c
      <4> QED
        BY <1>10 DEF Untold, Unsaid, Tells
    <3>2. \A k \in DOMAIN A : ~(k < 1)
      BY <1>3 DEF IsFields
    <3> QED
      BY <1>1, <3>1, <3>2 DEF ToldUpTo
  <2>4. todo' # <<>> /\ td_lists' = <<A, B>> /\ moved' = {}
    BY <1>1
  <2>5. Gone(Head(todo))' = Gone(c)' /\ Saved(1, Head(todo))' = A /\ Saved(2, Head(todo))' = B
    BY <1>1, <1>11
  <2> HIDE DEF c
  <2> QED
    BY <1>11, <2>1, <2>2, <2>3, <2>4, <2>5 DEF InClass
<1>13. ASSUME NEW b \in SharedClasses, \A k \in DOMAIN todo : todo[k] # b
       PROVE  ClassTold(b)'
  <2>1. ClassTold(b)
    BY <1>13 DEF CompareInv
  <2> QED
    BY <1>1, <1>8, <1>9, <2>1, ClassStays
<1>14. \A k \in DOMAIN todo : Untold(out', todo[k])
  <2>1. \A k \in DOMAIN todo : Untold(out, todo[k])
    BY <1>1 DEF CompareInv
  <2> QED
    BY <1>8, <1>9, <2>1, UntoldBoth
<1> HIDE DEF c
<1> QED
  BY <1>1, <1>9, <1>11, <1>12, <1>13, <1>14 DEF CompareInv

\* Where the loop is.
LEMMA LoopOK ==
    ASSUME CompareInv, td_lists # <<>>
    PROVE  LET c == Head(todo)
               A == Saved(1, c)
               B == Saved(2, c)
           IN  /\ c \in SharedClasses /\ 1 \in DOMAIN todo /\ todo[1] = c /\ todo # <<>>
               /\ IsFields(A) /\ IsFields(B) /\ td_lists = <<A, B>>
               /\ td_lists[1] = A /\ td_lists[2] = B
               /\ Walked(A, B, i, j, moved) /\ moved = Gone(c) /\ ToldUpTo(out, c, A, B, i)
<1>1. InClass /\ todo \in Seq(SharedClasses) /\ dm_lookup \in Pairs
  BY DEF CompareInv
<1> DEFINE c == Head(todo)
           A == Saved(1, c)
           B == Saved(2, c)
<1>2. /\ todo # <<>> /\ td_lists = <<A, B>>
      /\ Walked(A, B, i, j, moved) /\ moved = Gone(c) /\ ToldUpTo(out, c, A, B, i)
  BY <1>1 DEF InClass
<1>3. c \in SharedClasses /\ 1 \in DOMAIN todo /\ todo[1] = c
  BY <1>1, <1>2, HeadOK
<1>4. IsFields(A) /\ IsFields(B)
  BY <1>1, <1>3, SavedOK
<1> HIDE DEF A, B, c
<1>5. td_lists[1] = A /\ td_lists[2] = B
  BY <1>2
<1> QED
  BY <1>2, <1>3, <1>4, <1>5 DEF A, B, c

\* A step within a class says nothing of the others.
LEMMA StaysInClass ==
    ASSUME CompareInv, td_lists # <<>>, UNCHANGED <<dm_lookup, todo, td_lists>>,
           NEW t, IsSeq(t), out' = out \o t, NEW c, c = Head(todo), \A b : b # c => Untold(t, b),
           Walked(Saved(1, c), Saved(2, c), i', j', moved'), moved' = Gone(c)',
           ToldUpTo(out', c, Saved(1, c), Saved(2, c), i')
    PROVE  CompareInv'
<1>1. /\ c \in SharedClasses /\ 1 \in DOMAIN todo /\ todo[1] = c /\ todo # <<>>
      /\ td_lists = <<Saved(1, c), Saved(2, c)>>
  BY LoopOK
<1>2. /\ Head(todo)' = c /\ SharedClasses' = SharedClasses
      /\ \A g, b : Saved(g, b)' = Saved(g, b)
  BY SameClass
<1>3. InClass'
  <2>1. todo' # <<>> /\ td_lists' = <<Saved(1, c), Saved(2, c)>>
    BY <1>1
  <2>2. Gone(Head(todo))' = Gone(c)' /\ Saved(1, Head(todo))' = Saved(1, c)
        /\ Saved(2, Head(todo))' = Saved(2, c)
    BY <1>2
  <2> QED
    BY <1>2, <2>1, <2>2 DEF InClass
<1>4. IsSeq(out) /\ IsSeq(out')
  BY SeqAppend DEF CompareInv
<1>5. ASSUME NEW b \in SharedClasses, \A k \in DOMAIN todo : todo[k] # b
      PROVE  ClassTold(b)'
  <2>1. ClassTold(b) /\ b # c
    BY <1>1, <1>5 DEF CompareInv
  <2> QED
    BY <1>4, <2>1, ClassStays
<1>6. ASSUME NEW k \in DOMAIN todo, k # 1
      PROVE  Untold(out', todo[k])
  <2>1. Untold(out, todo[k]) /\ todo[k] # c
    BY <1>1, <1>6 DEF CompareInv
  <2> QED
    BY <1>4, <2>1, UntoldBoth
<1>7. td_lists' # <<>> /\ todo' = todo /\ dm_lookup' = dm_lookup
  OBVIOUS
<1> QED
  BY <1>2, <1>3, <1>4, <1>5, <1>6, <1>7 DEF CompareInv

LEMMA PassOverInv ==
    ASSUME CompareInv, PassOver
    PROVE  CompareInv'
<1> DEFINE c == Head(todo)
           A == Saved(1, c)
           B == Saved(2, c)
<1>1. /\ td_lists # <<>> /\ i <= Len(td_lists[1]) /\ j <= Len(td_lists[2])
      /\ UNCHANGED <<dm_lookup, todo, td_lists, moved, out>>
  BY DEF PassOver, InLoop
<1>2. \/ IsPassedOver(Td0) /\ i' = i + 1 /\ j' = j
      \/ IsPassedOver(Td1) /\ j' = j + 1 /\ i' = i
  BY DEF PassOver
<1>3. /\ c \in SharedClasses /\ 1 \in DOMAIN todo /\ todo[1] = c /\ todo # <<>>
      /\ IsFields(A) /\ IsFields(B) /\ td_lists = <<A, B>>
      /\ td_lists[1] = A /\ td_lists[2] = B
      /\ Walked(A, B, i, j, moved) /\ moved = Gone(c) /\ ToldUpTo(out, c, A, B, i)
  BY <1>1, LoopOK
<1>4. /\ Head(todo)' = c /\ SharedClasses' = SharedClasses
      /\ \A g, b : Saved(g, b)' = Saved(g, b)
  BY <1>1, SameClass
<1> HIDE DEF c, A, B
<1>5. /\ \/ A[i].name \notin Both(A, B) \/ A[i].name \in moved
         \/ ~(i' = i + 1 /\ j' = j)
      /\ \/ B[j].name \notin Both(A, B) \/ B[j].name \in moved
         \/ ~(j' = j + 1 /\ i' = i)
      /\ \/ i' = i + 1 /\ j' = j
         \/ j' = j + 1 /\ i' = i
  BY <1>2, <1>3, <1>1 DEF IsPassedOver, Td0, Td1, InBoth, Both, Walked
<1>6. Walked(A, B, i', j', moved)
  BY <1>1, <1>3, <1>5, WalkedPastA, WalkedPastB
<1>7. ToldUpTo(out', c, A, B, i')
  <2>1. CASE i' = i
    BY <1>1, <1>3, <2>1 DEF ToldUpTo
  <2>2. CASE i' = i + 1 /\ (A[i].name \notin Both(A, B) \/ A[i].name \in moved)
    <3>1. i \in Nat /\ DOMAIN A = 1..Len(A) /\ Len(A) \in Nat /\ i \in DOMAIN A
      BY <1>1, <1>3 DEF IsFields, Walked
    <3>2. A[i].name \notin Names(B)
      <4> SUFFICES ASSUME A[i].name \in Names(B) PROVE FALSE
        OBVIOUS
      <4>1. A[i].name \in moved
        BY <2>2, <3>1 DEF Both, Names
      <4>2. PICK k \in DOMAIN A : k < i /\ A[k].name = A[i].name
        BY <1>3, <4>1 DEF Walked
      <4> QED
        BY <1>3, <3>1, <4>2 DEF IsFields
    <3>3. \A k \in DOMAIN A : k < i + 1 <=> k < i \/ k = i
      BY <3>1
    <3> QED
      BY <1>1, <1>3, <2>2, <3>2, <3>3 DEF ToldUpTo
  <2> QED
    BY <1>1, <1>3, <1>5, <2>1, <2>2 DEF Walked
<1>8. Gone(c)' = Gone(c)
  <2>1. \A g, b : Saved(g, b)' = Saved(g, b)
    BY <1>4
  <2>2. c' = c
    BY <1>4 DEF c
  <2>3. Shared(c)' = Shared(c)
    BY <2>1, <2>2 DEF Shared
  <2> QED
    BY <1>1, <2>2, <2>3 DEF Gone
<1>9. IsSeq(<<>>) /\ out' = out \o <<>> /\ \A b : Untold(<<>>, b)
  BY <1>1 DEF CompareInv, IsSeq, Untold
<1> QED
  BY <1>1, <1>3, <1>6, <1>7, <1>8, <1>9, StaysInClass DEF A, B, c

LEMMA CompareFieldsInv ==
    ASSUME CompareInv, CompareFields
    PROVE  CompareInv'
<1> DEFINE is_moved == Td0.name # Td1.name
           told     == Differences(Head(todo), Td0, Named(Td0.name, td_lists[2]))
           line     == IF is_moved THEN << <<"moved", Head(todo), Td0.name>> >> ELSE <<>>
<1>1. /\ td_lists # <<>> /\ i <= Len(td_lists[1]) /\ j <= Len(td_lists[2])
      /\ UNCHANGED <<dm_lookup, todo, td_lists>>
  BY DEF CompareFields, InLoop
<1>2. /\ ~IsPassedOver(Td0) /\ ~IsPassedOver(Td1)
      /\ moved' = IF is_moved THEN moved \cup {Td0.name} ELSE moved
      /\ out' = (out \o line) \o told
      /\ i' = i + 1 /\ j' = IF is_moved THEN j ELSE j + 1
  BY DEF CompareFields
<1> HIDE DEF is_moved, told, line
<1>3. PICK c : c = Head(todo)
  OBVIOUS
<1> DEFINE A == Saved(1, c)
           B == Saved(2, c)
           n == A[i].name
           t == line \o told
<1>4. /\ c \in SharedClasses /\ 1 \in DOMAIN todo /\ todo[1] = c /\ todo # <<>>
      /\ IsFields(A) /\ IsFields(B) /\ td_lists = <<A, B>>
      /\ td_lists[1] = A /\ td_lists[2] = B
      /\ Walked(A, B, i, j, moved) /\ moved = Gone(c) /\ ToldUpTo(out, c, A, B, i)
  BY <1>1, <1>3, LoopOK
<1>5. \A g, b : Saved(g, b)' = Saved(g, b)
  BY <1>1, SameClass
<1>6. Td0 = A[i] /\ Td1 = B[j] /\ InBoth = Both(A, B)
  BY <1>4 DEF Td0, Td1, InBoth, Both
<1> HIDE DEF A, B
<1>7. /\ i \in DOMAIN A /\ j \in DOMAIN B /\ i \in Nat /\ i <= Len(A) /\ j <= Len(B)
      /\ DOMAIN A = 1..Len(A) /\ Len(A) \in Nat
  BY <1>1, <1>4 DEF IsFields, Walked
<1>8. /\ n \in Both(A, B) /\ n \notin moved
      /\ B[j].name \in Both(A, B) /\ B[j].name \notin moved
      /\ is_moved <=> n # B[j].name
  BY <1>2, <1>6 DEF IsPassedOver, is_moved
<1>9. told = Differences(c, A[i], Named(n, B)) /\ line = IF is_moved THEN << <<"moved", c, n>> >> ELSE <<>>
  BY <1>3, <1>4, <1>6 DEF told, line
<1>10. /\ IsSeq(told)
       /\ \A k \in DOMAIN told : told[k][1] = "differs" /\ told[k][2] = c /\ told[k][3] = n
  <2>1. IsFiniteSet(DOMAIN A[i].cmp) /\ IsFiniteSet(DOMAIN A[i].ptr)
    BY <1>4, <1>7 DEF IsFields
  <2> QED
    BY <1>9, <2>1, DifferencesOK
<1>11. /\ IsSeq(line) /\ \A k \in DOMAIN line : line[k][1] = "moved" /\ line[k][2] = c /\ line[k][3] = n
       /\ \A b : <<"moved", c, b>> \in ToSet(line) <=> is_moved /\ b = n
  <2> HIDE DEF n
  <2>1. CASE is_moved
    <3>1. line = << <<"moved", c, n>> >>
      BY <1>9, <2>1
    <3>2. DOMAIN line = 1..1 /\ line[1] = <<"moved", c, n>>
      BY <3>1
    <3>3. IsSeq(line)
      <4>1. line \in Seq({<<"moved", c, n>>})
        BY <3>1
      <4> QED
        BY <4>1 DEF IsSeq
    <3>4. \A k \in DOMAIN line : k = 1
      BY <3>2
    <3>5. ToSet(line) = {<<"moved", c, n>>}
      BY <3>2, <3>4 DEF ToSet
    <3> QED
      BY <2>1, <3>2, <3>3, <3>4, <3>5
  <2>2. CASE ~is_moved
    BY <1>9, <2>2 DEF IsSeq, ToSet
  <2> QED
    BY <2>1, <2>2
<1>12. IsSeq(out) /\ IsSeq(t) /\ out' = out \o t /\ IsSeq(out \o line) /\ IsSeq(out')
  <2>1. IsSeq(out)
    BY DEF CompareInv
  <2>2. (out \o line) \o told = out \o t
    BY <1>10, <1>11, <2>1, Associative
  <2> QED
    BY <1>2, <1>10, <1>11, <2>1, <2>2, SeqAppend
<1>13. \A b : b # c => Untold(t, b)
  <2>1. \A b : b # c => Untold(line, b) /\ Untold(told, b)
    BY <1>10, <1>11 DEF Untold
  <2> QED
    BY <1>10, <1>11, <2>1, UntoldBoth
<1>14. Walked(A, B, i', j', moved')
  <2>1. CASE is_moved
    BY <1>2, <1>4, <1>6, <1>7, <1>8, <2>1, WalkedMoved
  <2>2. CASE ~is_moved
    BY <1>2, <1>4, <1>7, <1>8, <2>2, WalkedBoth
  <2> QED
    BY <2>1, <2>2
<1>15. moved' = Gone(c)'
  <2>1. \A b : <<"moved", c, b>> \in ToSet(t) <=> is_moved /\ b = n
    <3>1. \A b : <<"moved", c, b>> \notin ToSet(told)
      BY <1>10 DEF ToSet
    <3> QED
      BY <1>10, <1>11, <3>1, SetBoth
  <2>2. \A b : <<"moved", c, b>> \in ToSet(out') <=> <<"moved", c, b>> \in ToSet(out) \/ (is_moved /\ b = n)
    BY <1>12, <2>1, SetBoth
  <2>3. Shared(c)' = Shared(c) /\ Shared(c) = Both(A, B)
    BY <1>5 DEF Shared, Both, A, B
  <2>4. Gone(c) = {b \in Both(A, B) : <<"moved", c, b>> \in ToSet(out)}
    BY <2>3 DEF Gone
  <2>5. Gone(c)' = {b \in Both(A, B) : <<"moved", c, b>> \in ToSet(out')}
    BY <2>3 DEF Gone
  <2>6. moved' = IF is_moved THEN moved \cup {n} ELSE moved
    BY <1>2, <1>6
  <2> HIDE DEF n
  <2> QED
    BY <1>4, <1>8, <2>2, <2>4, <2>5, <2>6
<1>16. ToldUpTo(out', c, A, B, i')
  <2>1. \A b : b # n => Unsaid(t, c, b)
    <3>1. \A b : b # n => Unsaid(line, c, b) /\ Unsaid(told, c, b)
      BY <1>10, <1>11 DEF Unsaid, Tells
    <3> QED
      BY <1>10, <1>11, <3>1, UnsaidBoth
  <2>2. ASSUME NEW k \in DOMAIN A, A[k].name \in Names(B), k < i
        PROVE  ToldOnce(out', c, A[k].name, Differences(c, A[k], Named(A[k].name, B)))
    <3>1. A[k].name # n
      BY <1>4, <1>7, <2>2 DEF IsFields
    <3>2. ToldOnce(out, c, A[k].name, Differences(c, A[k], Named(A[k].name, B)))
      BY <1>4, <2>2 DEF ToldUpTo
    <3> QED
      BY <1>12, <2>1, <3>1, <3>2, ToldStays
  <2>3. ToldOnce(out', c, n, Differences(c, A[i], Named(n, B)))
    <3>1. n \in Names(B)
      BY <1>8 DEF Both
    <3>2. Unsaid(out, c, n)
      BY <1>4, <1>7, <3>1 DEF ToldUpTo
    <3>3. Unsaid(line, c, n)
      BY <1>11 DEF Unsaid, Tells
    <3>4. Unsaid(out \o line, c, n)
      BY <1>11, <1>12, <3>2, <3>3, UnsaidBoth
    <3> QED
      BY <1>2, <1>9, <1>10, <1>12, <3>4, ToldNow
  <2>4. ASSUME NEW k \in DOMAIN A, A[k].name \in Names(B), k > i
        PROVE  Unsaid(out', c, A[k].name)
    <3>1. A[k].name # n
      BY <1>4, <1>7, <2>4 DEF IsFields
    <3>2. Unsaid(out, c, A[k].name)
      BY <1>4, <1>7, <2>4 DEF ToldUpTo
    <3> QED
      BY <1>12, <2>1, <3>1, <3>2, UnsaidBoth
  <2>5. \A k \in DOMAIN A : (k < i + 1 <=> k < i \/ k = i) /\ (~(k < i + 1) => k > i)
    BY <1>7
  <2> HIDE DEF n
  <2>6. i' = i + 1
    BY <1>2
  <2>7. ASSUME NEW k \in DOMAIN A, A[k].name \in Names(B), k < i'
        PROVE  ToldOnce(out', c, A[k].name, Differences(c, A[k], Named(A[k].name, B)))
    BY <2>2, <2>3, <2>5, <2>6, <2>7 DEF n
  <2> QED
    BY <2>4, <2>5, <2>6, <2>7 DEF ToldUpTo
<1> QED
  BY <1>1, <1>3, <1>12, <1>13, <1>14, <1>15, <1>16, StaysInClass DEF A, B

LEMMA EndClassInv ==
    ASSUME CompareInv, EndClass
    PROVE  CompareInv'
<1>1. /\ td_lists # <<>> /\ ~(i <= Len(td_lists[1]) /\ j <= Len(td_lists[2]))
      /\ td_lists' = <<>> /\ todo' = Tail(todo)
      /\ UNCHANGED <<dm_lookup, out>>
  BY DEF EndClass, InLoop
<1>2. PICK c : c = Head(todo)
  OBVIOUS
<1> DEFINE A == Saved(1, c)
           B == Saved(2, c)
<1>3. /\ c \in SharedClasses /\ 1 \in DOMAIN todo /\ todo[1] = c /\ todo # <<>>
      /\ IsFields(A) /\ IsFields(B)
      /\ td_lists[1] = A /\ td_lists[2] = B
      /\ Walked(A, B, i, j, moved) /\ moved = Gone(c) /\ ToldUpTo(out, c, A, B, i)
  BY <1>1, <1>2, LoopOK
<1>4. /\ Tail(todo) \in Seq(SharedClasses)
      /\ \A k \in DOMAIN Tail(todo) : k + 1 \in DOMAIN todo /\ Tail(todo)[k] = todo[k + 1] /\ k + 1 # 1
      /\ \A k \in DOMAIN todo : k # 1 => k - 1 \in DOMAIN Tail(todo) /\ Tail(todo)[k - 1] = todo[k]
  BY <1>3, HeadOK DEF CompareInv
<1>5. Shared(c) = Both(A, B)
  BY DEF Shared, Both
<1> HIDE DEF A, B
<1>6. /\ \A n \in Both(A, B) : \E k \in DOMAIN A : k < i /\ A[k].name = n
      /\ \A n, o \in Both(A, B) \ moved : Ahead(A, n, o) => Ahead(B, n, o)
      /\ \A n \in moved : \E o \in Both(A, B) : Ahead(A, n, o) /\ Ahead(B, o, n)
  <2>1. \A n \in moved : \E o \in Both(A, B) : Ahead(A, n, o) /\ Ahead(B, o, n)
    BY <1>3 DEF Walked
  <2>2. ~(i <= Len(A) /\ j <= Len(B))
    BY <1>1, <1>3
  <2> QED
    BY <1>3, <2>1, <2>2, WalkedEnd
<1>7. \A n \in Both(A, B) : ToldOnce(out, c, n, Differences(c, Named(n, A), Named(n, B)))
  <2> SUFFICES ASSUME NEW n \in Both(A, B)
               PROVE  ToldOnce(out, c, n, Differences(c, Named(n, A), Named(n, B)))
    OBVIOUS
  <2>1. PICK k \in DOMAIN A : k < i /\ A[k].name = n
    BY <1>6
  <2>2. Named(n, A) = A[k]
    <3> DEFINE l == CHOOSE l \in DOMAIN A : A[l].name = n
    <3>1. l \in DOMAIN A /\ A[l].name = n
      BY <2>1
    <3>2. l = k
      BY <1>3, <2>1, <3>1 DEF IsFields
    <3> QED
      BY <3>2 DEF Named
  <2>3. n \in Names(B)
    BY DEF Both
  <2> QED
    BY <1>3, <2>1, <2>2, <2>3 DEF ToldUpTo
<1>8. ClassTold(c)
  <2>1. \A n, o : (Before(1, c, n, o) <=> Ahead(A, n, o)) /\ (Before(2, c, n, o) <=> Ahead(B, n, o))
    BY DEF Before, A, B
  <2> QED
    BY <1>3, <1>5, <1>6, <1>7, <2>1 DEF ClassTold, A, B
<1>9. /\ dm_lookup' = dm_lookup /\ SharedClasses' = SharedClasses
      /\ \A b : ClassTold(b) => ClassTold(b)'
  <2>1. dm_lookup' = dm_lookup /\ SharedClasses' = SharedClasses
    BY <1>1 DEF SharedClasses
  <2>2. IsSeq(<<>>) /\ out' = out \o <<>> /\ IsSeq(out) /\ \A b : Untold(<<>>, b)
    BY <1>1 DEF CompareInv, IsSeq, Untold
  <2> QED
    BY <2>1, <2>2, ClassStays
<1>10. ASSUME NEW b \in SharedClasses, \A k \in DOMAIN todo' : todo'[k] # b
       PROVE  ClassTold(b)
  <2>1. CASE b = c
    BY <1>8, <2>1
  <2>2. CASE b # c
    <3>1. \A k \in DOMAIN todo : todo[k] # b
      BY <1>1, <1>3, <1>4, <1>10, <2>2
    <3> QED
      BY <3>1 DEF CompareInv
  <2> QED
    BY <2>1, <2>2
<1>11. \A k \in DOMAIN todo' : Untold(out', todo'[k])
  BY <1>1, <1>4 DEF CompareInv
<1>12. \A k, l \in DOMAIN todo' : todo'[k] = todo'[l] => k = l
  <2>1. \A k, l \in DOMAIN Tail(todo) : Tail(todo)[k] = Tail(todo)[l] => k + 1 = l + 1
    BY <1>4 DEF CompareInv
  <2>2. DOMAIN Tail(todo) \subseteq Nat
    BY <1>4
  <2> QED
    BY <1>1, <2>1, <2>2
<1>13. dm_lookup \in Pairs /\ IsSeq(out)
  BY DEF CompareInv
<1> QED
  BY <1>1, <1>4, <1>9, <1>10, <1>11, <1>12, <1>13 DEF CompareInv

LEMMA StutterInv ==
    ASSUME CompareInv, UNCHANGED vars
    PROVE  CompareInv'
<1>1. /\ td_lists' = td_lists /\ i' = i /\ j' = j /\ moved' = moved /\ todo' = todo
      /\ dm_lookup' = dm_lookup /\ out' = out
  BY DEF vars
<1> QED
  BY <1>1 DEF CompareInv, InClass, ClassTold, Gone, Shared, Saved, SharedClasses, Before

\* CompareInv is inductive.
THEOREM ComparedSoFar == Spec => []CompareInv
<1>1. Init => CompareInv
  BY InitInv
<1>2. CompareInv /\ [Next]_vars => CompareInv'
  BY StartClassInv, PassOverInv, CompareFieldsInv, EndClassInv, StutterInv DEF Next
<1> QED
  BY <1>1, <1>2, PTL DEF Spec

\* When all is compared, what differs between two fields of one name has been told, in
\* one place and nowhere else, and what is said to have moved has: the walk of the two
\* lists side by side, which passes over what is in one of them only, comes by every
\* field both have (compare_datamaps.py:123-153).
THEOREM EachDifferenceOnce == Spec => []DifferencesOnce
<1>1. CompareInv => DifferencesOnce
  <2> SUFFICES ASSUME CompareInv, Done, NEW c \in SharedClasses
               PROVE  ClassTold(c)
    BY DEF DifferencesOnce
  <2>1. \A k \in DOMAIN todo : todo[k] # c
    BY DEF Done
  <2> QED
    BY <2>1 DEF CompareInv
<1> QED
  BY <1>1, ComparedSoFar, PTL
-----------------------------------------------------------------------------
(* Sequences *)

\* A set of natural numbers has a least one.
LEMMA LeastOf ==
    ASSUME NEW S \in SUBSET Nat, S # {}
    PROVE  \E x \in S : \A y \in S : x <= y
<1> DEFINE R == {ss \in Nat \X Nat : ss[1] < ss[2]}
<1>1. IsWellFoundedOn(R, Nat)
  BY NatLessThanWellFounded DEF OpToRel
<1>2. PICK x \in S : \A y \in S : ~(<<y, x>> \in R)
  <2> HIDE DEF R
  <2> QED
    BY <1>1, WFMin
<1>3. ASSUME NEW y \in S PROVE x <= y
  <2>1. x \in Nat /\ y \in Nat
    OBVIOUS
  <2>2. ~(y < x)
    <3> SUFFICES ASSUME y < x PROVE <<y, x>> \in R
      BY <1>2
    <3> QED
      BY <2>1
  <2> QED
    BY <2>1, <2>2
<1> QED
  BY <1>3

\* What holds of 0, and of n + 1 if it holds of n, holds of all.
LEMMA Inductively ==
    ASSUME NEW S, 0 \in S, \A n \in Nat : n \in S => n + 1 \in S
    PROVE  \A n \in Nat : n \in S
<1> DEFINE Bad == {n \in Nat : n \notin S}
<1> SUFFICES ASSUME Bad # {} PROVE FALSE
  OBVIOUS
<1>1. PICK m \in Bad : \A l \in Bad : m <= l
  <2>1. Bad \in SUBSET Nat
    OBVIOUS
  <2> HIDE DEF Bad
  <2> QED
    BY <2>1, LeastOf
<1>2. m # 0
  BY <1>1
<1>3. m - 1 \in Nat /\ ~(m <= m - 1) /\ (m - 1) + 1 = m
  BY <1>1, <1>2
<1> QED
  BY <1>1, <1>3

\* A sequence of whatever it is.
Sequence(s) == \E S : s \in Seq(S)

LEMMA SequenceIs ==
    ASSUME NEW s, IsSequence(s)
    PROVE  Sequence(s) /\ DOMAIN s = 1..Len(s) /\ Len(s) \in Nat
<1> DEFINE n == Len(s)
           S == {s[k] : k \in 1..n}
<1>1. n \in Nat /\ s = [k \in 1..n |-> s[k]]
  BY DEF IsSequence
<1> HIDE DEF n
<1>2. \A k \in 1..n : s[k] \in S
  OBVIOUS
<1>3. s \in [1..n -> S]
  <2> HIDE DEF S
  <2> QED
    BY <1>1, <1>2
<1>4. s \in Seq(S)
  <2> HIDE DEF S
  <2> QED
    BY <1>1, <1>3, SeqDef
<1> QED
  BY <1>1, <1>4 DEF Sequence, n

LEMMA SequenceFacts ==
    ASSUME NEW s, Sequence(s)
    PROVE  DOMAIN s = 1..Len(s) /\ Len(s) \in Nat /\ (s = <<>> <=> Len(s) = 0)
<1>1. PICK S : s \in Seq(S)
  BY DEF Sequence
<1> QED
  BY <1>1, LenProperties, EmptySeq

LEMMA ConcatFacts ==
    ASSUME NEW s, NEW t, Sequence(s), Sequence(t)
    PROVE  /\ Sequence(s \o t)
           /\ Len(s \o t) = Len(s) + Len(t)
           /\ \A x \in 1..(Len(s) + Len(t)) :
                 (s \o t)[x] = IF x <= Len(s) THEN s[x] ELSE t[x - Len(s)]
<1>1. PICK S : s \in Seq(S)
  BY DEF Sequence
<1>2. PICK T : t \in Seq(T)
  BY DEF Sequence
<1>3. s \in Seq(S \cup T) /\ t \in Seq(S \cup T)
  BY <1>1, <1>2
<1>4. s \o t \in Seq(S \cup T)
  BY <1>3, ConcatProperties
<1> QED
  BY <1>3, <1>4, ConcatProperties DEF Sequence

LEMMA TailFacts ==
    ASSUME NEW s, Sequence(s), s # <<>>
    PROVE  /\ Sequence(Tail(s)) /\ Head(s) = s[1]
           /\ Len(s) > 0 /\ Len(Tail(s)) = Len(s) - 1
           /\ \A x \in 1..Len(Tail(s)) : Tail(s)[x] = s[x + 1]
<1>1. PICK S : s \in Seq(S)
  BY DEF Sequence
<1>2. Tail(s) \in Seq(S) /\ Head(s) = s[1] /\ Len(Tail(s)) = Len(s) - 1
  BY <1>1, HeadTailProperties
<1>3. \A x \in 1..Len(Tail(s)) : Tail(s)[x] = s[x + 1]
  BY <1>1, <1>2, HeadTailProperties
<1> QED
  BY <1>1, <1>2, <1>3, LenProperties DEF Sequence

\* Sequences one after another: where each of them ends.
LEMMA FlattenIs ==
    ASSUME NEW ss, NEW n \in Nat, Len(ss) = n, n # 0
    PROVE  \E f : /\ FlattenSeq(ss) = f[n] /\ f[1] = ss[1]
                  /\ \A x \in 1..n : x # 1 => f[x] = f[x - 1] \o ss[x]
<1> DEFINE Is(m, g) == g = [x \in 1..m |-> IF x = 1 THEN ss[x] ELSE g[x - 1] \o ss[x]]
           T == {m \in Nat : \E g : Is(m, g)}
<1>1. 0 \in T
  <2>1. Is(0, [x \in {} |-> 0])
    OBVIOUS
  <2> HIDE DEF Is
  <2> QED
    BY <2>1
<1>2. ASSUME NEW m \in Nat, m \in T PROVE m + 1 \in T
  <2>1. PICK g : Is(m, g)
    BY <1>2
  <2> DEFINE h == [x \in 1..(m + 1) |-> IF x = 1 THEN ss[x]
                                        ELSE IF x = m + 1 THEN g[m] \o ss[m + 1] ELSE g[x]]
  <2>2. ASSUME NEW x \in 1..(m + 1)
        PROVE  h[x] = IF x = 1 THEN ss[x] ELSE h[x - 1] \o ss[x]
    <3>1. CASE x = 1
      BY <3>1
    <3>2. CASE x # 1 /\ x = m + 1
      <4>1. m \in 1..m /\ m \in 1..(m + 1) /\ m # m + 1 /\ x - 1 = m
        BY <3>2
      <4>2. h[m] = g[m]
        <5>1. CASE m = 1
          <6>1. g[1] = ss[1]
            BY <2>1, <4>1, <5>1
          <6> QED
            BY <4>1, <5>1, <6>1
        <5>2. CASE m # 1
          BY <4>1, <5>2
        <5> QED
          BY <5>1, <5>2
      <4>3. h[x] = g[m] \o ss[m + 1]
        BY <3>2
      <4> HIDE DEF h
      <4> QED
        BY <3>2, <4>1, <4>2, <4>3
    <3>3. CASE x # 1 /\ x # m + 1
      <4>1. x \in 1..m /\ x - 1 \in 1..m /\ x - 1 \in 1..(m + 1) /\ x - 1 # m + 1
        BY <3>3
      <4>2. h[x] = g[x]
        BY <3>3
      <4>3. h[x - 1] = g[x - 1]
        <5>1. CASE x - 1 = 1
          <6>1. g[1] = ss[1] /\ 1 \in 1..(m + 1)
            BY <2>1, <4>1, <5>1
          <6>2. h[1] = ss[1]
            BY <6>1
          <6> HIDE DEF h
          <6> QED
            BY <5>1, <6>1, <6>2
        <5>2. CASE x - 1 # 1
          BY <4>1, <5>2
        <5> QED
          BY <5>1, <5>2
      <4>4. g[x] = g[x - 1] \o ss[x]
        BY <2>1, <3>3, <4>1
      <4> HIDE DEF h
      <4> QED
        BY <3>3, <4>2, <4>3, <4>4
    <3> QED
      BY <3>1, <3>2, <3>3
  <2>3. DOMAIN h = 1..(m + 1) /\ h = [x \in 1..(m + 1) |-> h[x]]
    OBVIOUS
  <2>4. Is(m + 1, h)
    <3> HIDE DEF h
    <3> QED
      BY <2>2, <2>3
  <2> HIDE DEF Is, h
  <2> QED
    BY <2>4
<1> HIDE DEF T
<1>3. n \in T
  BY <1>1, <1>2, Inductively
<1> DEFINE f == CHOOSE g : Is(n, g)
<1>4. Is(n, f)
  <2>1. \E g : Is(n, g)
    BY <1>3 DEF T
  <2> HIDE DEF Is
  <2> QED
    BY <2>1, Zenon
<1>5. FlattenSeq(ss) = f[n]
  <2>1. Len(ss) # 0
    OBVIOUS
  <2> QED
    BY <2>1 DEF FlattenSeq
<1> HIDE DEF f
<1>6. f[1] = ss[1]
  <2>1. 1 \in 1..n
    OBVIOUS
  <2> QED
    BY <1>4, <2>1
<1>7. ASSUME NEW x \in 1..n, x # 1 PROVE f[x] = f[x - 1] \o ss[x]
  BY <1>4, <1>7
<1> QED
  BY <1>5, <1>6, <1>7
-----------------------------------------------------------------------------
(* What the jobs do to the level *)

\* Between two jobs there is a level, and a line of that level that is finished, or one
\* that is begun, or a line at most one level less to the right that is finished.
State == [level : Nat, mode : {"line", "open", "any"}]
At(l, m) == [level |-> l, mode |-> m]

\* From what to what a job goes, with all that it calls.
Goes(c, a, b) ==
    \/ /\ c.op = "say" /\ Sequence(c.words) /\ c.words # <<>>
       /\ b.level = a.level
       /\ b.mode \in IF c.words[Len(c.words)] = NL THEN {"line", "any"} ELSE {"open"}
    \/ c.op = "in" /\ a.mode = "line" /\ b.mode = "any" /\ b.level = a.level + 1
    \/ c.op = "out" /\ a.mode # "open" /\ b.mode = "any" /\ a.level = b.level + 1
    \/ c.op = "value" /\ c.size \in Nat /\ b.level = a.level /\ b.mode \in {"line", "any"}
    \/ /\ c.op = "fields" /\ c.map \in AnyMap /\ c.top \in BOOLEAN
       /\ c = [op |-> "fields", map |-> c.map, top |-> c.top, data |-> c.data, at |-> c.at]
       /\ a.mode # "open" /\ (c.top => a.mode = "line") /\ b = At(a.level, "any")
    \/ /\ c.op = "field" /\ c.map \in DataMap /\ c.k \in Nat \ {0}
       /\ c.any \in BOOLEAN
       /\ c = [op |-> "field", map |-> c.map, data |-> c.data, at |-> c.at, k |-> c.k, any |-> c.any]
       /\ a.mode # "open" /\ b = At(a.level, "any")
    \/ c.op = "custom" /\ a.mode # "open" /\ b = At(a.level, "any")
    \/ c.op = "templates" /\ BlockOK(c.block) /\ a.mode # "open" /\ b = At(a.level, "any")

\* From what to what a sequence of jobs goes.
Path(s, st) ==
    /\ \A x \in 0..Len(s) : st[x] \in State
    /\ \A x \in 1..Len(s) : Goes(s[x], st[x - 1], st[x])

Runs(s, a, b) == Sequence(s) /\ \E st : Path(s, st) /\ st[0] = a /\ st[Len(s)] = b

LEMMA AtIs ==
    ASSUME NEW l \in Nat, NEW m \in {"line", "open", "any"}
    PROVE  At(l, m) \in State /\ At(l, m).level = l /\ At(l, m).mode = m
BY DEF At, State

LEMMA RunsNone ==
    ASSUME NEW a \in State
    PROVE  Runs(<<>>, a, a)
<1> DEFINE st == [x \in 0..0 |-> a]
<1>1. Len(<<>>) = 0 /\ Sequence(<<>>)
  <2>1. <<>> \in Seq({})
    OBVIOUS
  <2> QED
    BY <2>1 DEF Sequence
<1>2. Path(<<>>, st) /\ st[0] = a
  BY <1>1 DEF Path
<1> HIDE DEF st
<1> QED
  BY <1>1, <1>2 DEF Runs

LEMMA RunsOne ==
    ASSUME NEW a \in State, NEW b \in State, NEW c, Goes(c, a, b)
    PROVE  Runs(<<c>>, a, b)
<1> DEFINE st == [x \in 0..1 |-> IF x = 0 THEN a ELSE b]
<1>1. Len(<<c>>) = 1 /\ <<c>>[1] = c /\ Sequence(<<c>>)
  <2>1. <<c>> \in Seq({c})
    OBVIOUS
  <2> QED
    BY <2>1 DEF Sequence
<1>2. st[0] = a /\ st[1] = b
  OBVIOUS
<1> HIDE DEF st
<1>3. Path(<<c>>, st)
  <2>1. ASSUME NEW x \in 0..1 PROVE st[x] \in State
    BY <1>2
  <2>2. ASSUME NEW x \in 1..1 PROVE Goes(<<c>>[x], st[x - 1], st[x])
    <3>1. x = 1 /\ x - 1 = 0
      OBVIOUS
    <3> QED
      BY <1>1, <1>2, <3>1
  <2> QED
    BY <1>1, <2>1, <2>2 DEF Path
<1> QED
  BY <1>1, <1>2, <1>3 DEF Runs

LEMMA RunsBoth ==
    ASSUME NEW a, NEW b, NEW e, NEW s, NEW t, Runs(s, a, b), Runs(t, b, e)
    PROVE  Runs(s \o t, a, e)
<1>1. PICK f : Path(s, f) /\ f[0] = a /\ f[Len(s)] = b
  BY DEF Runs
<1>2. PICK g : Path(t, g) /\ g[0] = b /\ g[Len(t)] = e
  BY DEF Runs
<1>3. Sequence(s) /\ Sequence(t)
  BY DEF Runs
<1> DEFINE n == Len(s)
           m == Len(t)
           u == s \o t
           st == [x \in 0..(n + m) |-> IF x <= n THEN f[x] ELSE g[x - n]]
<1>4. n \in Nat /\ m \in Nat
  BY <1>3, SequenceFacts
<1>5. /\ Sequence(u) /\ Len(u) = n + m
      /\ \A x \in 1..(n + m) : u[x] = IF x <= n THEN s[x] ELSE t[x - n]
  BY <1>3, ConcatFacts
<1>6. \A x \in 0..(n + m) : st[x] = IF x <= n THEN f[x] ELSE g[x - n]
  OBVIOUS
<1>7. /\ \A x \in 0..n : f[x] \in State
      /\ \A x \in 1..n : Goes(s[x], f[x - 1], f[x])
      /\ \A x \in 0..m : g[x] \in State
      /\ \A x \in 1..m : Goes(t[x], g[x - 1], g[x])
      /\ f[0] = a /\ f[n] = b /\ g[0] = b /\ g[m] = e
  BY <1>1, <1>2 DEF Path
<1> HIDE DEF n, m, u, st
<1>8. ASSUME NEW x \in 0..(n + m) PROVE st[x] \in State
  <2>1. CASE x <= n
    <3>1. x \in 0..n
      BY <1>4, <2>1
    <3> QED
      BY <1>6, <1>7, <2>1, <3>1
  <2>2. CASE ~(x <= n)
    <3>1. x - n \in 0..m
      BY <1>4, <2>2
    <3> QED
      BY <1>6, <1>7, <2>2, <3>1
  <2> QED
    BY <2>1, <2>2
<1>9. ASSUME NEW x \in 1..(n + m) PROVE Goes(u[x], st[x - 1], st[x])
  <2>1. CASE x <= n
    <3>1. x \in 1..n /\ x \in 0..(n + m) /\ x - 1 \in 0..(n + m) /\ x - 1 <= n
      BY <1>4, <2>1
    <3>2. u[x] = s[x] /\ st[x] = f[x] /\ st[x - 1] = f[x - 1]
      BY <1>5, <1>6, <2>1, <3>1
    <3> QED
      BY <1>7, <3>1, <3>2
  <2>2. CASE ~(x <= n)
    <3>1. x - n \in 1..m /\ x \in 0..(n + m) /\ x - 1 \in 0..(n + m) /\ (x - n) - 1 = (x - 1) - n
      BY <1>4, <2>2
    <3>2. u[x] = t[x - n] /\ st[x] = g[x - n]
      BY <1>5, <1>6, <2>2, <3>1
    <3>3. st[x - 1] = g[(x - n) - 1]
      <4>1. CASE x - 1 <= n
        <5>1. x - 1 = n /\ (x - n) - 1 = 0
          BY <1>4, <2>2, <4>1
        <5>2. st[x - 1] = f[n]
          BY <1>6, <3>1, <4>1, <5>1
        <5> QED
          BY <1>7, <5>1, <5>2
      <4>2. CASE ~(x - 1 <= n)
        BY <1>6, <3>1, <4>2
      <4> QED
        BY <4>1, <4>2
    <3>4. Goes(t[x - n], g[(x - n) - 1], g[x - n])
      BY <1>7, <3>1
    <3> QED
      BY <3>2, <3>3, <3>4
  <2> QED
    BY <2>1, <2>2
<1>10. st[0] = a
  <2>1. 0 \in 0..(n + m) /\ 0 <= n
    BY <1>4
  <2> QED
    BY <1>6, <1>7, <2>1
<1>11. st[n + m] = e
  <2>1. n + m \in 0..(n + m)
    BY <1>4
  <2>2. CASE m = 0
    <3>1. n + m = n /\ n + m <= n
      BY <1>4, <2>2
    <3>2. st[n + m] = f[n]
      BY <1>6, <2>1, <3>1
    <3> QED
      BY <1>7, <2>2, <3>2
  <2>3. CASE m # 0
    <3>1. ~(n + m <= n) /\ (n + m) - n = m
      BY <1>4, <2>3
    <3> QED
      BY <1>6, <1>7, <2>1, <3>1
  <2> QED
    BY <2>2, <2>3
<1>12. Path(u, st)
  BY <1>5, <1>8, <1>9 DEF Path
<1>13. Runs(u, a, e)
  BY <1>5, <1>10, <1>11, <1>12 DEF Runs
<1> QED
  BY <1>13 DEF u

LEMMA SameSequence ==
    ASSUME NEW s, NEW t, Sequence(s), Sequence(t), Len(s) = Len(t), \A x \in 1..Len(s) : s[x] = t[x]
    PROVE  s = t
<1>1. PICK S : s \in Seq(S)
  BY DEF Sequence
<1>2. PICK T : t \in Seq(T)
  BY DEF Sequence
<1>3. s \in Seq(S \cup T) /\ t \in Seq(S \cup T)
  BY <1>1, <1>2
<1> QED
  BY <1>3, SeqEqual

LEMMA Tuples ==
    /\ \A c : Sequence(<<c>>) /\ Len(<<c>>) = 1 /\ <<c>>[1] = c
    /\ \A c, d : Sequence(<<c, d>>) /\ Len(<<c, d>>) = 2 /\ <<c, d>>[1] = c /\ <<c, d>>[2] = d
    /\ \A c, d, e : /\ Sequence(<<c, d, e>>) /\ Len(<<c, d, e>>) = 3
                    /\ <<c, d, e>>[1] = c /\ <<c, d, e>>[2] = d /\ <<c, d, e>>[3] = e
    /\ \A c, d, e, f :
          /\ Sequence(<<c, d, e, f>>) /\ Len(<<c, d, e, f>>) = 4
          /\ <<c, d, e, f>>[1] = c /\ <<c, d, e, f>>[2] = d /\ <<c, d, e, f>>[3] = e /\ <<c, d, e, f>>[4] = f
<1>1. ASSUME NEW c PROVE Sequence(<<c>>)
  <2>1. <<c>> \in Seq({c})
    OBVIOUS
  <2> QED
    BY <2>1 DEF Sequence
<1>2. ASSUME NEW c, NEW d PROVE Sequence(<<c, d>>)
  <2>1. <<c, d>> \in Seq({c, d})
    OBVIOUS
  <2> QED
    BY <2>1 DEF Sequence
<1>3. ASSUME NEW c, NEW d, NEW e PROVE Sequence(<<c, d, e>>)
  <2>1. <<c, d, e>> \in Seq({c, d, e})
    OBVIOUS
  <2> QED
    BY <2>1 DEF Sequence
<1>4. ASSUME NEW c, NEW d, NEW e, NEW f PROVE Sequence(<<c, d, e, f>>)
  <2>1. <<c, d, e, f>> \in Seq({c, d, e, f})
    OBVIOUS
  <2> QED
    BY <2>1 DEF Sequence
<1> QED
  BY <1>1, <1>2, <1>3, <1>4

LEMMA FirstAndTheRest ==
    ASSUME NEW s, NEW c, NEW t, Sequence(s), Sequence(t), Len(s) = Len(t) + 1, s[1] = c,
           \A x \in 1..Len(t) : s[x + 1] = t[x]
    PROVE  s = <<c>> \o t
<1> DEFINE u == <<c>>
<1>1. Sequence(u) /\ Len(u) = 1 /\ u[1] = c
  BY Tuples
<1>2. Len(t) \in Nat
  BY SequenceFacts
<1> HIDE DEF u
<1>3. /\ Sequence(u \o t) /\ Len(u \o t) = 1 + Len(t)
      /\ \A x \in 1..(1 + Len(t)) : (u \o t)[x] = IF x <= 1 THEN u[x] ELSE t[x - 1]
  <2>1. /\ Sequence(u \o t) /\ Len(u \o t) = Len(u) + Len(t)
        /\ \A x \in 1..(Len(u) + Len(t)) : (u \o t)[x] = IF x <= Len(u) THEN u[x] ELSE t[x - Len(u)]
    BY <1>1, ConcatFacts
  <2> QED
    BY <1>1, <2>1
<1>4. ASSUME NEW x \in 1..Len(s) PROVE s[x] = (u \o t)[x]
  <2>1. CASE x = 1
    BY <1>1, <1>2, <1>3, <2>1
  <2>2. CASE x # 1
    <3>1. x - 1 \in 1..Len(t) /\ (x - 1) + 1 = x /\ ~(x <= 1)
      BY <1>2, <2>2
    <3>2. s[x] = t[x - 1]
      BY <3>1
    <3>3. (u \o t)[x] = t[x - 1]
      BY <1>2, <1>3, <3>1
    <3> QED
      BY <3>2, <3>3
  <2> QED
    BY <2>1, <2>2
<1>5. s = u \o t
  <2>1. Len(s) = Len(u \o t)
    BY <1>2, <1>3
  <2> HIDE DEF Sequence
  <2> QED
    BY <1>3, <1>4, <2>1, SameSequence
<1> QED
  BY <1>5 DEF u

LEMMA OneAndTheRest ==
    /\ \A c, d : <<c, d>> = <<c>> \o <<d>>
    /\ \A c, d, e : <<c, d, e>> = <<c>> \o <<d, e>>
    /\ \A c, d, e, f : <<c, d, e, f>> = <<c>> \o <<d, e, f>>
<1>1. ASSUME NEW c, NEW d PROVE <<c, d>> = <<c>> \o <<d>>
  <2> DEFINE s == <<c, d>>
             t == <<d>>
  <2>1. Sequence(s) /\ Sequence(t) /\ Len(s) = Len(t) + 1 /\ Len(t) = 1
    BY Tuples
  <2>2. s[1] = c
    OBVIOUS
  <2>3. ASSUME NEW x \in 1..1 PROVE s[x + 1] = t[x]
    <3>1. CASE x = 1
      BY <3>1
    <3> QED
      BY <3>1
  <2> HIDE DEF s, t
  <2>4. \A x \in 1..Len(t) : s[x + 1] = t[x]
    BY <2>1, <2>3
  <2>5. s = <<c>> \o t
    BY <2>1, <2>2, <2>4, FirstAndTheRest
  <2> QED
    BY <2>5 DEF s, t
<1>2. ASSUME NEW c, NEW d, NEW e PROVE <<c, d, e>> = <<c>> \o <<d, e>>
  <2> DEFINE s == <<c, d, e>>
             t == <<d, e>>
  <2>1. Sequence(s) /\ Sequence(t) /\ Len(s) = Len(t) + 1 /\ Len(t) = 2
    BY Tuples
  <2>2. s[1] = c
    OBVIOUS
  <2>3. ASSUME NEW x \in 1..2 PROVE s[x + 1] = t[x]
    <3>1. CASE x = 1
      BY <3>1
    <3>2. CASE x = 2
      BY <3>2
    <3> QED
      BY <3>1, <3>2
  <2> HIDE DEF s, t
  <2>4. \A x \in 1..Len(t) : s[x + 1] = t[x]
    BY <2>1, <2>3
  <2>5. s = <<c>> \o t
    BY <2>1, <2>2, <2>4, FirstAndTheRest
  <2> QED
    BY <2>5 DEF s, t
<1>3. ASSUME NEW c, NEW d, NEW e, NEW f PROVE <<c, d, e, f>> = <<c>> \o <<d, e, f>>
  <2> DEFINE s == <<c, d, e, f>>
             t == <<d, e, f>>
  <2>1. Sequence(s) /\ Sequence(t) /\ Len(s) = Len(t) + 1 /\ Len(t) = 3
    BY Tuples
  <2>2. s[1] = c
    OBVIOUS
  <2>3. ASSUME NEW x \in 1..3 PROVE s[x + 1] = t[x]
    <3>1. CASE x = 1
      BY <3>1
    <3>2. CASE x = 2
      BY <3>2
    <3>3. CASE x = 3
      BY <3>3
    <3> QED
      BY <3>1, <3>2, <3>3
  <2> HIDE DEF s, t
  <2>4. \A x \in 1..Len(t) : s[x + 1] = t[x]
    BY <2>1, <2>3
  <2>5. s = <<c>> \o t
    BY <2>1, <2>2, <2>4, FirstAndTheRest
  <2> QED
    BY <2>5 DEF s, t
<1> QED
  BY <1>1, <1>2, <1>3

LEMMA RunsTwo ==
    ASSUME NEW a \in State, NEW b \in State, NEW e \in State,
           NEW c, NEW d, Goes(c, a, b), Goes(d, b, e)
    PROVE  Runs(<<c, d>>, a, e)
<1>1. Runs(<<c>>, a, b) /\ Runs(<<d>>, b, e)
  BY RunsOne
<1>2. <<c, d>> = <<c>> \o <<d>>
  BY OneAndTheRest
<1> QED
  BY <1>1, <1>2, RunsBoth

LEMMA RunsFirst ==
    ASSUME NEW s, NEW a, NEW b, Runs(s, a, b), s # <<>>
    PROVE  \E e \in State : a \in State /\ Goes(Head(s), a, e) /\ Runs(Tail(s), e, b)
<1>1. PICK st : Path(s, st) /\ st[0] = a /\ st[Len(s)] = b
  BY DEF Runs
<1>2. Sequence(s)
  BY DEF Runs
<1> DEFINE n == Len(s)
           t == Tail(s)
           g == [x \in 0..(n - 1) |-> st[x + 1]]
<1>3. /\ n \in Nat /\ n > 0 /\ Sequence(t) /\ Head(s) = s[1] /\ Len(t) = n - 1
      /\ \A x \in 1..(n - 1) : t[x] = s[x + 1]
  BY <1>2, SequenceFacts, TailFacts
<1>4. /\ \A x \in 0..n : st[x] \in State
      /\ \A x \in 1..n : Goes(s[x], st[x - 1], st[x])
  BY <1>1 DEF Path
<1>5. \A x \in 0..(n - 1) : g[x] = st[x + 1]
  OBVIOUS
<1>6. st[n] = b
  BY <1>1
<1> HIDE DEF n, t, g
<1>7. 0 \in 0..n /\ 1 \in 0..n /\ 1 \in 1..n /\ 1 - 1 = 0 /\ 0 \in 0..(n - 1) /\ n - 1 \in 0..(n - 1)
      /\ (n - 1) + 1 = n /\ 0 + 1 = 1
  BY <1>3
<1>8. a \in State /\ st[1] \in State /\ Goes(Head(s), a, st[1])
  BY <1>1, <1>3, <1>4, <1>7
<1>9. ASSUME NEW x \in 0..(n - 1) PROVE g[x] \in State
  <2>1. x + 1 \in 0..n
    BY <1>3
  <2> QED
    BY <1>4, <1>5, <2>1
<1>10. ASSUME NEW x \in 1..(n - 1) PROVE Goes(t[x], g[x - 1], g[x])
  <2>1. x + 1 \in 1..n /\ (x + 1) - 1 = x /\ x \in 0..(n - 1) /\ x - 1 \in 0..(n - 1) /\ (x - 1) + 1 = x
    BY <1>3
  <2>2. g[x] = st[x + 1] /\ g[x - 1] = st[x]
    BY <1>5, <2>1
  <2>3. Goes(s[x + 1], st[x], st[x + 1])
    BY <1>4, <2>1
  <2> QED
    BY <1>3, <2>2, <2>3
<1>11. Path(t, g) /\ g[0] = st[1] /\ g[Len(t)] = b
  <2>1. g[0] = st[1] /\ g[n - 1] = st[n]
    BY <1>5, <1>7
  <2> QED
    BY <1>3, <1>6, <1>9, <1>10, <2>1 DEF Path
<1>12. Runs(t, st[1], b)
  BY <1>3, <1>11 DEF Runs
<1> QED
  BY <1>8, <1>12 DEF t

\* A job before others.
LEMMA RunsMore ==
    ASSUME NEW a \in State, NEW b \in State, NEW e, NEW c, NEW s, Goes(c, a, b), Runs(s, b, e)
    PROVE  Runs(<<c>> \o s, a, e)
BY RunsOne, RunsBoth

\* Sequences of jobs each of which takes back what it was indented.
LEMMA RunsAll ==
    ASSUME NEW a \in State, NEW ss, NEW n \in Nat, Len(ss) = n, n = 0 => ss = <<>>,
           \A x \in 1..n : Runs(ss[x], a, a)
    PROVE  Runs(FlattenSeq(ss), a, a)
<1>1. CASE n = 0
  <2>1. FlattenSeq(ss) = <<>>
    BY <1>1 DEF FlattenSeq
  <2> QED
    BY <2>1, RunsNone
<1>2. CASE n # 0
  <2>1. PICK f : /\ FlattenSeq(ss) = f[n] /\ f[1] = ss[1]
                 /\ \A x \in 1..n : x # 1 => f[x] = f[x - 1] \o ss[x]
    BY <1>2, FlattenIs
  <2> DEFINE T == {m \in Nat : m \in 1..n => Runs(f[m], a, a)}
  <2>2. 0 \in T
    OBVIOUS
  <2>3. ASSUME NEW m \in Nat, m \in T PROVE m + 1 \in T
    <3> SUFFICES ASSUME m + 1 \in 1..n PROVE Runs(f[m + 1], a, a)
      OBVIOUS
    <3>1. CASE m = 0
      <4>1. m + 1 = 1 /\ 1 \in 1..n
        BY <3>1
      <4> QED
        BY <2>1, <4>1
    <3>2. CASE m # 0
      <4>1. m \in 1..n /\ m + 1 # 1 /\ (m + 1) - 1 = m
        BY <3>2
      <4>2. Runs(f[m], a, a) /\ Runs(ss[m + 1], a, a)
        BY <2>3, <4>1
      <4>3. f[m + 1] = f[m] \o ss[m + 1]
        BY <2>1, <4>1
      <4> QED
        BY <4>2, <4>3, RunsBoth
    <3> QED
      BY <3>1, <3>2
  <2> HIDE DEF T
  <2>4. n \in T
    BY <2>2, <2>3, Inductively
  <2>5. n \in 1..n
    BY <1>2
  <2> QED
    BY <2>1, <2>4, <2>5 DEF T
<1> QED
  BY <1>1, <1>2

LEMMA RunsEnd ==
    ASSUME NEW a, NEW b, Runs(<<>>, a, b)
    PROVE  a = b
<1>1. Len(<<>>) = 0
  OBVIOUS
<1> QED
  BY <1>1 DEF Runs
-----------------------------------------------------------------------------
(* What is written *)

Lines(W) == [indent : Nat, words : Seq(W)]
LinesOK(t) == \E W : t \in Seq(Lines(W))

\* No line is more than one level farther to the right than the line before it.
InSteps(t) == \A k \in 1..Len(t) : t[k].indent <= IF k = 1 THEN 0 ELSE t[k - 1].indent + 1

\* The last line is at least that far to the right.
Reached(t, l) == t # <<>> /\ t[Len(t)].indent >= l

\* A word may be written at level l: to a line that has been begun there, or to a new
\* one, which is then not too far to the right.
Ready(to, l) ==
    /\ to = [lines |-> to.lines, pending |-> to.pending] /\ to.pending \in BOOLEAN
    /\ LinesOK(to.lines) /\ InSteps(to.lines)
    /\ IF to.pending THEN l = 0 \/ Reached(to.lines, l - 1) ELSE Reached(to.lines, l)

\* A line that is begun ...
LEMMA NewLine ==
    ASSUME NEW t, LinesOK(t), InSteps(t), NEW l \in Nat, l = 0 \/ Reached(t, l - 1),
           NEW u, u = Append(t, [indent |-> l, words |-> <<>>])
    PROVE  LinesOK(u) /\ InSteps(u) /\ u # <<>> /\ u[Len(u)].indent = l
<1>1. PICK W : t \in Seq(Lines(W))
  BY DEF LinesOK
<1> DEFINE n == Len(t)
           line == [indent |-> l, words |-> <<>>]
<1>2. line \in Lines(W) /\ line.indent = l
  <2>1. <<>> \in Seq(W)
    OBVIOUS
  <2> QED
    BY <2>1 DEF Lines
<1> HIDE DEF line
<1>3. u = Append(t, line)
  BY DEF line
<1>4. /\ u \in Seq(Lines(W)) /\ n \in Nat /\ Len(u) = n + 1
      /\ u[n + 1] = line /\ \A k \in 1..n : u[k] = t[k]
  BY <1>1, <1>2, <1>3, AppendProperties, LenProperties
<1>5. \A k \in 1..n : t[k].indent \in Nat
  <2>1. \A k \in 1..n : t[k] \in Lines(W)
    BY <1>1, ElementOfSeq, LenProperties
  <2> QED
    BY <2>1 DEF Lines
<1>6. ASSUME NEW k \in 1..Len(u) PROVE u[k].indent <= IF k = 1 THEN 0 ELSE u[k - 1].indent + 1
  <2>1. CASE k = n + 1
    <3>1. CASE l = 0
      <4>1. u[k].indent = 0
        BY <1>2, <1>4, <2>1, <3>1
      <4>2. CASE k = 1
        BY <4>1, <4>2
      <4>3. CASE k # 1
        <5>1. k - 1 \in 1..n
          BY <1>4, <2>1, <4>3
        <5>2. u[k - 1].indent \in Nat
          BY <1>4, <1>5, <5>1
        <5> QED
          BY <4>1, <4>3, <5>2
      <4> QED
        BY <4>2, <4>3
    <3>2. CASE l # 0
      <4>1. t # <<>> /\ t[n].indent >= l - 1
        BY <3>2 DEF Reached
      <4>2. n # 0 /\ n \in 1..n /\ k - 1 = n /\ k # 1
        BY <1>1, <1>4, <2>1, <4>1, EmptySeq
      <4>3. u[k - 1].indent = t[n].indent /\ u[k].indent = l /\ t[n].indent \in Nat
        BY <1>2, <1>4, <1>5, <2>1, <4>2
      <4> QED
        BY <4>1, <4>2, <4>3
    <3> QED
      BY <3>1, <3>2
  <2>2. CASE k # n + 1
    <3>1. k \in 1..n /\ (k # 1 => k - 1 \in 1..n)
      BY <1>4, <2>2
    <3>2. u[k] = t[k] /\ (k # 1 => u[k - 1] = t[k - 1])
      BY <1>4, <3>1
    <3>3. t[k].indent <= IF k = 1 THEN 0 ELSE t[k - 1].indent + 1
      BY <3>1 DEF InSteps
    <3> QED
      BY <3>2, <3>3
  <2> QED
    BY <2>1, <2>2
<1>7. u # <<>>
  BY <1>4, EmptySeq
<1> QED
  BY <1>2, <1>4, <1>6, <1>7 DEF LinesOK, InSteps

LEMMA Worded ==
    ASSUME NEW r, NEW x, NEW w, NEW word, r = [indent |-> x, words |-> w]
    PROVE  [r EXCEPT !.words = Append(@, word)] = [indent |-> x, words |-> Append(w, word)]
OBVIOUS

Indexed(u, n) == u = [k \in 1..n |-> u[k]]

LEMMA Updated ==
    ASSUME NEW n \in Nat, NEW S, NEW u, Indexed(u, n), \A k \in 1..n : u[k] \in S
    PROVE  u \in Seq(S) /\ Len(u) = n
<1>1. u \in [1..n -> S]
  BY DEF Indexed
<1>2. u \in Seq(S)
  BY <1>1, SeqDef
<1>3. DOMAIN u = 1..n /\ DOMAIN u = 1..Len(u) /\ Len(u) \in Nat
  BY <1>1, <1>2, LenProperties
<1> QED
  BY <1>2, <1>3

\* ... and one that goes on.
LEMMA MoreWords ==
    ASSUME NEW t, LinesOK(t), InSteps(t), t # <<>>, NEW word,
           NEW u, u = [t EXCEPT ![Len(t)].words = Append(@, word)]
    PROVE  LinesOK(u) /\ InSteps(u) /\ u # <<>> /\ u[Len(u)].indent = t[Len(t)].indent
<1>1. PICK W : t \in Seq(Lines(W))
  BY DEF LinesOK
<1> DEFINE n == Len(t)
           V == W \cup {word}
<1>2. n \in Nat /\ n \in 1..n /\ DOMAIN t = 1..n
  BY <1>1, LenProperties, EmptySeq
<1>3. ASSUME NEW k \in 1..n PROVE t[k] \in Lines(W)
  BY <1>1, ElementOfSeq, LenProperties
<1>4. t[n].words \in Seq(W) /\ t[n].indent \in Nat /\ t[n] = [indent |-> t[n].indent, words |-> t[n].words]
  BY <1>2, <1>3 DEF Lines
<1> DEFINE last == [t[n] EXCEPT !.words = Append(@, word)]
<1>5. last = [indent |-> t[n].indent, words |-> Append(t[n].words, word)]
  <2> HIDE DEF n
  <2> QED
    BY <1>4, Worded
<1>6. Append(t[n].words, word) \in Seq(V)
  <2>1. t[n].words \in Seq(V) /\ word \in V
    BY <1>4
  <2> QED
    BY <2>1, AppendProperties
<1>7. last \in Lines(V) /\ last.indent = t[n].indent
  <2> HIDE DEF last, V
  <2> QED
    BY <1>4, <1>5, <1>6 DEF Lines
<1>8. u = [k \in 1..n |-> IF k = n THEN last ELSE t[k]]
  BY <1>2
<1>9. \A k \in 1..n : t[k] \in Lines(V)
  BY <1>3 DEF Lines
<1> HIDE DEF last, V, n
<1>10. u = [k \in 1..n |-> u[k]] /\ \A k \in 1..n : u[k] = IF k = n THEN last ELSE t[k]
  BY <1>8
<1>11. u \in Seq(Lines(V)) /\ Len(u) = n
  <2>1. \A k \in 1..n : u[k] \in Lines(V)
    BY <1>7, <1>9, <1>10
  <2>2. Indexed(u, n)
    BY <1>10 DEF Indexed
  <2> QED
    BY <1>2, <2>1, <2>2, Updated
<1>12. \A k \in 1..n : u[k].indent = t[k].indent
  BY <1>7, <1>8
<1>13. InSteps(u)
  <2>1. ASSUME NEW k \in 1..n PROVE u[k].indent <= IF k = 1 THEN 0 ELSE u[k - 1].indent + 1
    <3>1. t[k].indent <= IF k = 1 THEN 0 ELSE t[k - 1].indent + 1
      BY DEF InSteps, n
    <3>2. k # 1 => k - 1 \in 1..n
      BY <1>2
    <3> QED
      BY <1>12, <3>1, <3>2
  <2> QED
    BY <1>11, <2>1 DEF InSteps
<1>14. u # <<>>
  BY <1>2, <1>11, EmptySeq
<1> QED
  BY <1>2, <1>11, <1>12, <1>13, <1>14 DEF LinesOK, n

LEMMA WrittenKeeps ==
    ASSUME indent_lvl \in Nat, NEW to, Ready(to, indent_lvl), NEW word
    PROVE  /\ Ready(Written(to, word), indent_lvl)
           /\ Reached(Written(to, word).lines, indent_lvl)
           /\ Written(to, word).pending <=> word = NL
<1> DEFINE l == indent_lvl
           lines == IF to.pending THEN Append(to.lines, [indent |-> l, words |-> <<>>]) ELSE to.lines
           more == [lines EXCEPT ![Len(lines)].words = Append(@, word)]
           r == Written(to, word)
<1>1. r = IF word = NL THEN [lines |-> lines, pending |-> TRUE] ELSE [lines |-> more, pending |-> FALSE]
  BY DEF Written
<1>2. /\ to.pending \in BOOLEAN /\ LinesOK(to.lines) /\ InSteps(to.lines)
      /\ IF to.pending THEN l = 0 \/ Reached(to.lines, l - 1) ELSE Reached(to.lines, l)
  BY DEF Ready
<1>3. LinesOK(lines) /\ InSteps(lines) /\ lines # <<>> /\ lines[Len(lines)].indent >= l
  <2>1. CASE to.pending
    <3>1. lines = Append(to.lines, [indent |-> l, words |-> <<>>])
      BY <2>1
    <3> HIDE DEF lines
    <3>2. LinesOK(lines) /\ InSteps(lines) /\ lines # <<>> /\ lines[Len(lines)].indent = l
      BY <1>2, <2>1, <3>1, NewLine
    <3> QED
      BY <3>2
  <2>2. CASE ~to.pending
    <3>1. lines = to.lines
      BY <2>2
    <3> QED
      BY <1>2, <2>2, <3>1 DEF Reached
  <2> QED
    BY <2>1, <2>2
<1> HIDE DEF lines
<1>4. LinesOK(more) /\ InSteps(more) /\ more # <<>> /\ more[Len(more)].indent = lines[Len(lines)].indent
  BY <1>3, MoreWords
<1> HIDE DEF more, r
<1>5. l - 1 <= l
  OBVIOUS
<1>6. LinesOK(r.lines) /\ InSteps(r.lines) /\ r.lines # <<>> /\ r.lines[Len(r.lines)].indent >= l
  <2>1. CASE word = NL
    BY <1>1, <1>3, <2>1
  <2>2. CASE word # NL
    BY <1>1, <1>3, <1>4, <2>2
  <2> QED
    BY <2>1, <2>2
<1>7. r = [lines |-> r.lines, pending |-> r.pending] /\ r.pending = (word = NL)
  BY <1>1
<1>8. r.lines[Len(r.lines)].indent \in Nat
  <2>1. PICK W : r.lines \in Seq(Lines(W))
    BY <1>6 DEF LinesOK
  <2>2. r.lines[Len(r.lines)] \in Lines(W)
    BY <1>6, <2>1, LenProperties, EmptySeq, ElementOfSeq
  <2> QED
    BY <2>2 DEF Lines
<1>9. Reached(r.lines, l) /\ (l = 0 \/ Reached(r.lines, l - 1))
  BY <1>6, <1>8 DEF Reached
<1>10. Ready(r, l)
  BY <1>6, <1>7, <1>9 DEF Ready
<1> QED
  BY <1>7, <1>9, <1>10 DEF r

\* What ch_dump_text_printf has written when it has written k words.
LEMMA Prints ==
    ASSUME indent_lvl \in Nat, NEW words, Sequence(words),
           NEW to, to = [lines |-> text, pending |-> pending_nl], Ready(to, indent_lvl),
           NEW k \in 0..Len(words)
    PROVE  /\ Ready(AfterPrint(words)[k], indent_lvl)
           /\ k > 0 => /\ Reached(AfterPrint(words)[k].lines, indent_lvl)
                       /\ AfterPrint(words)[k].pending <=> words[k] = NL
<1> DEFINE n == Len(words)
           body(g, x) == IF x = 0 THEN [lines |-> text, pending |-> pending_nl]
                         ELSE Written(g[x - 1], words[x])
           Is(m, g) == g = [x \in 0..m |-> body(g, x)]
           T == {m \in Nat : \E g : Is(m, g)}
<1>1. n \in Nat
  BY SequenceFacts
<1>2. 0 \in T
  <2> DEFINE g == [x \in 0..0 |-> [lines |-> text, pending |-> pending_nl]]
  <2>1. Is(0, g)
    OBVIOUS
  <2> HIDE DEF Is, g
  <2> QED
    BY <2>1
<1>3. ASSUME NEW m \in Nat, m \in T PROVE m + 1 \in T
  <2>1. PICK g : Is(m, g)
    BY <1>3
  <2> DEFINE h == [x \in 0..(m + 1) |-> IF x = m + 1 THEN Written(g[m], words[m + 1]) ELSE g[x]]
  <2>2. ASSUME NEW x \in 0..(m + 1) PROVE h[x] = body(h, x)
    <3>1. CASE x = m + 1
      <4>1. h[x] = Written(g[m], words[m + 1]) /\ h[m] = g[m] /\ x # 0 /\ x - 1 = m
        BY <3>1
      <4> HIDE DEF h
      <4> QED
        BY <3>1, <4>1
    <3>2. CASE x # m + 1
      <4>1. x \in 0..m /\ h[x] = g[x] /\ (x # 0 => x - 1 \in 0..(m + 1) /\ x - 1 # m + 1)
        BY <3>2
      <4>2. x # 0 => h[x - 1] = g[x - 1]
        BY <4>1
      <4>3. g[x] = body(g, x)
        BY <2>1, <4>1
      <4> HIDE DEF h
      <4> QED
        BY <4>1, <4>2, <4>3
    <3> QED
      BY <3>1, <3>2
  <2>3. h = [x \in 0..(m + 1) |-> h[x]]
    OBVIOUS
  <2>4. Is(m + 1, h)
    <3> HIDE DEF h, body
    <3> QED
      BY <2>2, <2>3
  <2> HIDE DEF Is, h
  <2> QED
    BY <2>4
<1> HIDE DEF T
<1>4. n \in T
  BY <1>1, <1>2, <1>3, Inductively
<1> DEFINE f == CHOOSE g : Is(n, g)
<1>5. Is(n, f)
  <2>1. \E g : Is(n, g)
    BY <1>4 DEF T
  <2> HIDE DEF Is
  <2> QED
    BY <2>1, Zenon
<1>6. AfterPrint(words) = f
  BY DEF AfterPrint
<1> HIDE DEF f
<1>7. \A x \in 0..n : f[x] = body(f, x)
  BY <1>5
<1> DEFINE Good(x) == Ready(f[x], indent_lvl)
           After(x) == Reached(f[x].lines, indent_lvl) /\ (f[x].pending <=> words[x] = NL)
           U == {x \in Nat : x \in 0..n => Good(x) /\ (x > 0 => After(x))}
<1>8. 0 \in U
  <2>1. 0 \in 0..n
    BY <1>1
  <2>2. f[0] = to
    BY <1>7, <2>1
  <2>3. Good(0)
    BY <2>2
  <2> HIDE DEF Good, After
  <2> QED
    BY <2>3
<1>9. ASSUME NEW x \in Nat, x \in U PROVE x + 1 \in U
  <2> SUFFICES ASSUME x + 1 \in 0..n PROVE Good(x + 1) /\ After(x + 1)
    OBVIOUS
  <2>1. x \in 0..n /\ x + 1 # 0 /\ (x + 1) - 1 = x
    BY <1>1
  <2>2. Ready(f[x], indent_lvl)
    BY <1>9, <2>1
  <2>3. f[x + 1] = Written(f[x], words[x + 1])
    BY <1>7, <2>1
  <2> HIDE DEF body
  <2> QED
    BY <2>2, <2>3, WrittenKeeps
<1>10. k \in Nat
  BY <1>1
<1> HIDE DEF U, n
<1>11. k \in U
  BY <1>8, <1>9, <1>10, Inductively
<1>12. k \in 0..n
  BY DEF n
<1>13. Good(k) /\ (k > 0 => After(k))
  BY <1>11, <1>12 DEF U
<1> QED
  BY <1>6, <1>13
-----------------------------------------------------------------------------
(* What the functions call *)

LEMMA RunsThree ==
    ASSUME NEW a \in State, NEW b \in State, NEW e \in State, NEW g \in State,
           NEW c, NEW d, NEW f, Goes(c, a, b), Goes(d, b, e), Goes(f, e, g)
    PROVE  Runs(<<c, d, f>>, a, g)
<1>1. Runs(<<d, f>>, b, g)
  BY RunsTwo
<1>2. <<c, d, f>> = <<c>> \o <<d, f>>
  BY OneAndTheRest
<1> QED
  BY <1>1, <1>2, RunsMore

LEMMA RunsFour ==
    ASSUME NEW a \in State, NEW b \in State, NEW e \in State, NEW g \in State, NEW x \in State,
           NEW c, NEW d, NEW f, NEW h, Goes(c, a, b), Goes(d, b, e), Goes(f, e, g), Goes(h, g, x)
    PROVE  Runs(<<c, d, f, h>>, a, x)
<1>1. Runs(<<d, f, h>>, b, x)
  BY RunsThree
<1>2. <<c, d, f, h>> = <<c>> \o <<d, f, h>>
  BY OneAndTheRest
<1> QED
  BY <1>1, <1>2, RunsMore

LEMMA AppendIs ==
    ASSUME NEW s, NEW x, Sequence(s)
    PROVE  /\ Append(s, x) = s \o <<x>> /\ Sequence(Append(s, x))
           /\ Len(Append(s, x)) = Len(s) + 1 /\ Append(s, x)[Len(s) + 1] = x /\ Append(s, x) # <<>>
<1>1. PICK S : s \in Seq(S)
  BY DEF Sequence
<1>2. s \in Seq(S \cup {x}) /\ x \in S \cup {x}
  BY <1>1
<1>3. /\ Append(s, x) \in Seq(S \cup {x}) /\ Len(Append(s, x)) = Len(s) + 1 /\ Append(s, x)[Len(s) + 1] = x
      /\ Append(s, x) = s \o <<x>>
  BY <1>2, AppendProperties, AppendIsConcat
<1>4. Append(s, x) # <<>>
  BY <1>2, <1>3, LenProperties, EmptySeq
<1> QED
  BY <1>3, <1>4 DEF Sequence

LEMMA LineGoes ==
    ASSUME NEW words, Sequence(words), NEW a \in State
    PROVE  /\ At(a.level, "line") \in State /\ Goes(Line(words), a, At(a.level, "line"))
           /\ At(a.level, "any") \in State /\ Goes(Line(words), a, At(a.level, "any"))
<1> DEFINE c == Line(words)
<1>1. c.op = "say" /\ c.words = Append(words, NL)
  BY DEF Line, Say
<1>2. Sequence(c.words) /\ c.words # <<>> /\ c.words[Len(c.words)] = NL
  <2> DEFINE u == Append(words, NL)
  <2>1. Sequence(u) /\ u # <<>> /\ Len(u) = Len(words) + 1 /\ u[Len(words) + 1] = NL
    BY AppendIs
  <2> HIDE DEF u, c
  <2>2. c.words = u
    BY <1>1 DEF u
  <2> QED
    BY <2>1, <2>2
<1>3. a.level \in Nat
  BY DEF State
<1>4. /\ At(a.level, "line") \in State /\ At(a.level, "line").level = a.level
      /\ At(a.level, "line").mode = "line"
      /\ At(a.level, "any") \in State /\ At(a.level, "any").level = a.level /\ At(a.level, "any").mode = "any"
  BY <1>3, AtIs
<1> HIDE DEF c
<1>5. Goes(c, a, At(a.level, "line")) /\ Goes(c, a, At(a.level, "any"))
  BY <1>1, <1>2, <1>4 DEF Goes
<1> QED
  BY <1>4, <1>5 DEF c

LEMMA SayGoes ==
    ASSUME NEW w, w # NL, NEW a \in State
    PROVE  At(a.level, "open") \in State /\ Goes(Say(<<w>>), a, At(a.level, "open"))
<1> DEFINE c == Say(<<w>>)
<1>1. c.op = "say" /\ c.words = <<w>>
  BY DEF Say
<1>2. Sequence(c.words) /\ c.words # <<>> /\ c.words[Len(c.words)] = w
  <2> DEFINE u == <<w>>
  <2>1. Sequence(u) /\ Len(u) = 1 /\ u[1] = w
    BY Tuples
  <2>2. u # <<>>
    OBVIOUS
  <2> HIDE DEF u, c
  <2>3. c.words = u
    BY <1>1 DEF u
  <2> QED
    BY <2>1, <2>2, <2>3
<1>3. a.level \in Nat
  BY DEF State
<1>4. At(a.level, "open") \in State /\ At(a.level, "open").level = a.level /\ At(a.level, "open").mode = "open"
  BY <1>3, AtIs
<1> HIDE DEF c
<1>5. Goes(c, a, At(a.level, "open"))
  BY <1>1, <1>2, <1>4 DEF Goes
<1> QED
  BY <1>4, <1>5 DEF c

LEMMA InGoes ==
    ASSUME NEW l \in Nat
    PROVE  At(l, "line") \in State /\ At(l + 1, "any") \in State /\ Goes(In, At(l, "line"), At(l + 1, "any"))
<1>1. /\ At(l, "line") \in State /\ At(l, "line").level = l /\ At(l, "line").mode = "line"
      /\ At(l + 1, "any") \in State /\ At(l + 1, "any").level = l + 1 /\ At(l + 1, "any").mode = "any"
  BY AtIs
<1>2. In.op = "in"
  BY DEF In
<1> QED
  BY <1>1, <1>2 DEF Goes

LEMMA OutGoes ==
    ASSUME NEW l \in Nat
    PROVE  At(l, "any") \in State /\ At(l + 1, "any") \in State /\ Goes(Out, At(l + 1, "any"), At(l, "any"))
<1>1. /\ At(l, "any") \in State /\ At(l, "any").level = l /\ At(l, "any").mode = "any"
      /\ At(l + 1, "any") \in State /\ At(l + 1, "any").level = l + 1 /\ At(l + 1, "any").mode = "any"
  BY AtIs
<1>2. Out.op = "out"
  BY DEF Out
<1> QED
  BY <1>1, <1>2 DEF Goes

LEMMA ValueRuns ==
    ASSUME NEW ft, NEW size \in Nat, NEW data, NEW at, NEW always, NEW a \in State
    PROVE  At(a.level, "any") \in State /\ Runs(Value(ft, size, data, at, always), a, At(a.level, "any"))
<1> DEFINE c == [op |-> "value", ft |-> ft, size |-> size, data |-> data, at |-> at, always |-> always]
<1>1. c.op = "value" /\ c.size \in Nat
  OBVIOUS
<1>2. a.level \in Nat
  BY DEF State
<1>3. At(a.level, "any") \in State /\ At(a.level, "any").level = a.level /\ At(a.level, "any").mode = "any"
  BY <1>2, AtIs
<1>4. Value(ft, size, data, at, always) = <<c>>
  BY DEF Value
<1> HIDE DEF c
<1>5. Goes(c, a, At(a.level, "any"))
  BY <1>1, <1>3 DEF Goes
<1> QED
  BY <1>3, <1>4, <1>5, RunsOne

LEMMA FieldsGoes ==
    ASSUME NEW d \in AnyMap, NEW data, NEW at, NEW l \in Nat
    PROVE  At(l, "any") \in State /\ Goes(Fields(d, data, at), At(l, "line"), At(l, "any"))
<1> DEFINE c == Fields(d, data, at)
<1>1. /\ c.op = "fields" /\ c.map = d /\ c.top = TRUE
      /\ c = [op |-> "fields", map |-> c.map, top |-> c.top, data |-> c.data, at |-> c.at]
  BY DEF Fields
<1>2. /\ At(l, "line").level = l /\ At(l, "line").mode = "line" /\ At(l, "any") \in State
  BY AtIs
<1> HIDE DEF c
<1>3. Goes(c, At(l, "line"), At(l, "any"))
  BY <1>1, <1>2 DEF Goes
<1> QED
  BY <1>2, <1>3 DEF c

LEMMA ClassRuns ==
    ASSUME NEW d \in AnyMap, NEW data, NEW at, NEW a \in State
    PROVE  At(a.level, "any") \in State /\ Runs(Class(d, data, at), a, At(a.level, "any"))
<1>1. a.level \in Nat
  BY DEF State
<1>2. Sequence(<< <<"class", d>> >>)
  BY Tuples
<1>3. At(a.level, "line") \in State /\ Goes(Line(<< <<"class", d>> >>), a, At(a.level, "line"))
  BY <1>2, LineGoes
<1>4. At(a.level, "any") \in State /\ Goes(Fields(d, data, at), At(a.level, "line"), At(a.level, "any"))
  BY <1>1, FieldsGoes
<1> QED
  BY <1>3, <1>4, RunsTwo DEF Class

LEMMA ListIs ==
    ASSUME NEW n \in Nat, NEW u, Indexed(u, n)
    PROVE  Sequence(u) /\ Len(u) = n /\ (n = 0 => u = <<>>)
<1> DEFINE S == {u[k] : k \in 1..n}
<1>1. \A k \in 1..n : u[k] \in S
  OBVIOUS
<1> HIDE DEF S
<1>2. u \in Seq(S) /\ Len(u) = n
  BY <1>1, Updated
<1> QED
  BY <1>2, EmptySeq DEF Sequence

LEMMA FlattenSequence ==
    ASSUME NEW n \in Nat, NEW ss, Indexed(ss, n), \A x \in 1..n : Sequence(ss[x])
    PROVE  Sequence(FlattenSeq(ss))
<1>1. Len(ss) = n /\ Sequence(ss) /\ (n = 0 => ss = <<>>)
  BY ListIs
<1>2. CASE n = 0
  <2>1. FlattenSeq(ss) = ss
    BY <1>1, <1>2 DEF FlattenSeq
  <2> QED
    BY <1>1, <2>1
<1>3. CASE n # 0
  <2>1. PICK f : /\ FlattenSeq(ss) = f[n] /\ f[1] = ss[1]
                 /\ \A x \in 1..n : x # 1 => f[x] = f[x - 1] \o ss[x]
    BY <1>1, <1>3, FlattenIs
  <2> DEFINE T == {m \in Nat : m \in 1..n => Sequence(f[m])}
  <2>2. 0 \in T
    OBVIOUS
  <2>3. ASSUME NEW m \in Nat, m \in T PROVE m + 1 \in T
    <3> SUFFICES ASSUME m + 1 \in 1..n PROVE Sequence(f[m + 1])
      OBVIOUS
    <3>1. CASE m = 0
      <4>1. m + 1 = 1 /\ 1 \in 1..n
        BY <3>1
      <4> QED
        BY <2>1, <4>1
    <3>2. CASE m # 0
      <4>1. m \in 1..n /\ m + 1 # 1 /\ (m + 1) - 1 = m
        BY <3>2
      <4>2. Sequence(f[m]) /\ Sequence(ss[m + 1])
        BY <2>3, <4>1
      <4>3. f[m + 1] = f[m] \o ss[m + 1]
        BY <2>1, <4>1
      <4> QED
        BY <4>2, <4>3, ConcatFacts
    <3> QED
      BY <3>1, <3>2
  <2> HIDE DEF T
  <2>4. n \in T
    BY <2>2, <2>3, Inductively
  <2>5. n \in 1..n
    BY <1>3
  <2> QED
    BY <2>1, <2>4, <2>5 DEF T
<1> QED
  BY <1>2, <1>3

\* Jobs for each of n.
LEMMA RunsEach ==
    ASSUME NEW n \in Nat, NEW ss, Indexed(ss, n), NEW a \in State, \A x \in 1..n : Runs(ss[x], a, a)
    PROVE  Runs(FlattenSeq(ss), a, a)
BY ListIs, RunsAll

\* The words of a value.
LEMMA ValueWordsIs ==
    ASSUME NEW v, v.size \in Nat
    PROVE  Sequence(ValueWords(v))
<1> DEFINE ft == Reduced(v.ft)
           n == v.size \div ByteSize(ft)
           elems == [k \in 1..n |-> ElementAt(ft, v.data, v.at, k - 1)]
           word(k) == IF k = 1 THEN << <<"elem", elems[k]>> >> ELSE << <<"comma">>, <<"elem", elems[k]>> >>
           words == [k \in DOMAIN elems |-> word(k)]
           all == FlattenSeq(words)
           brackets == v.always \/ (n > 1 /\ ft # "CHARACTER")
<1>1. n \in Nat
  <2>1. ByteSize(ft) \in {1, 2, 4}
    <3> HIDE DEF ft
    <3> QED
      BY DEF ByteSize
  <2> HIDE DEF ft
  <2> QED
    BY <2>1
<1> HIDE DEF ft, n
<1>2. Indexed(words, n)
  <2>1. DOMAIN elems = 1..n
    OBVIOUS
  <2> HIDE DEF elems
  <2> QED
    BY <2>1 DEF Indexed
<1>3. ASSUME NEW k \in 1..n PROVE Sequence(words[k])
  <2>1. DOMAIN elems = 1..n
    OBVIOUS
  <2> HIDE DEF elems
  <2>2. words[k] = word(k)
    BY <2>1
  <2>3. CASE k = 1
    <3>1. word(k) = << <<"elem", elems[k]>> >>
      BY <2>3
    <3> HIDE DEF word, words
    <3> QED
      BY <2>2, <3>1, Tuples
  <2>4. CASE k # 1
    <3>1. word(k) = << <<"comma">>, <<"elem", elems[k]>> >>
      BY <2>4
    <3> HIDE DEF word, words
    <3> QED
      BY <2>2, <3>1, Tuples
  <2> QED
    BY <2>3, <2>4
<1>4. Sequence(all)
  <2> HIDE DEF words
  <2> QED
    BY <1>1, <1>2, <1>3, FlattenSequence
<1>5. Listed(elems, brackets) = IF brackets THEN << <<"[">> >> \o all \o << <<"]">> >> ELSE all
  BY DEF Listed
<1> HIDE DEF all, elems, brackets
<1>6. Sequence(Listed(elems, brackets))
  <2>1. Sequence(<< <<"[">> >> \o all \o << <<"]">> >>)
    BY <1>4, Tuples, ConcatFacts
  <2> QED
    BY <1>4, <1>5, <2>1
<1>7. ValueWords(v) = IF ft = "CHARACTER" /\ n # 1
                      THEN << <<"text", UpToZero(Bytes(v.data, v.at, v.size))>> >>
                      ELSE Listed(elems, brackets)
  BY DEF ValueWords, ft, n, elems, brackets
<1>8. CASE ft = "CHARACTER" /\ n # 1
  BY <1>7, <1>8, Tuples
<1>9. CASE ~(ft = "CHARACTER" /\ n # 1)
  BY <1>6, <1>7, <1>9
<1> QED
  BY <1>8, <1>9
-----------------------------------------------------------------------------
(* ... from the beginning of a line *)

Left(l) == At(l, "any")

LEMMA LeftIs ==
    ASSUME NEW l \in Nat
    PROVE  Left(l) \in State /\ Left(l).level = l /\ Left(l).mode = "any"
BY AtIs DEF Left

LEMMA LineRuns ==
    ASSUME NEW l \in Nat, NEW words, Sequence(words)
    PROVE  Runs(<<Line(words)>>, Left(l), Left(l))
<1>1. Left(l) \in State /\ Left(l).level = l
  BY LeftIs
<1>2. At(Left(l).level, "any") \in State /\ Goes(Line(words), Left(l), At(Left(l).level, "any"))
  BY <1>1, LineGoes
<1>3. At(Left(l).level, "any") = Left(l)
  BY <1>1 DEF Left
<1> QED
  BY <1>1, <1>2, <1>3, RunsOne

LEMMA LineInRuns ==
    ASSUME NEW l \in Nat, NEW words, Sequence(words)
    PROVE  Runs(<<Line(words), In>>, Left(l), Left(l + 1))
<1>1. Left(l) \in State /\ Left(l).level = l
  BY LeftIs
<1>2. At(l, "line") \in State /\ Goes(Line(words), Left(l), At(l, "line"))
  BY <1>1, LineGoes
<1>3. Left(l + 1) \in State /\ Goes(In, At(l, "line"), Left(l + 1))
  BY InGoes DEF Left
<1> QED
  BY <1>1, <1>2, <1>3, RunsTwo

LEMMA OutRuns ==
    ASSUME NEW l \in Nat
    PROVE  Runs(<<Out>>, Left(l + 1), Left(l))
<1>1. Left(l) \in State /\ Left(l + 1) \in State /\ Goes(Out, Left(l + 1), Left(l))
  BY OutGoes DEF Left
<1> QED
  BY <1>1, RunsOne

LEMMA ClassLeft ==
    ASSUME NEW l \in Nat, NEW d \in AnyMap, NEW data, NEW at
    PROVE  Runs(Class(d, data, at), Left(l), Left(l))
<1>1. Left(l) \in State /\ Left(l).level = l
  BY LeftIs
<1>2. Runs(Class(d, data, at), Left(l), At(Left(l).level, "any"))
  BY <1>1, ClassRuns
<1> QED
  BY <1>1, <1>2 DEF Left

LEMMA SayRuns ==
    ASSUME NEW l \in Nat, NEW w, w # NL
    PROVE  At(l, "open") \in State /\ Runs(<<Say(<<w>>)>>, Left(l), At(l, "open"))
<1>1. Left(l) \in State /\ Left(l).level = l
  BY LeftIs
<1>2. At(l, "open") \in State /\ Goes(Say(<<w>>), Left(l), At(l, "open"))
  BY <1>1, SayGoes
<1> QED
  BY <1>1, <1>2, RunsOne

LEMMA SayValueRuns ==
    ASSUME NEW l \in Nat, NEW w, w # NL, NEW ft, NEW size \in Nat, NEW data, NEW at, NEW always
    PROVE  Runs(<<Say(<<w>>)>> \o Value(ft, size, data, at, always), Left(l), Left(l))
<1>1. At(l, "open") \in State /\ At(l, "open").level = l
  BY AtIs
<1>2. Runs(Value(ft, size, data, at, always), At(l, "open"), At(At(l, "open").level, "any"))
  BY <1>1, ValueRuns
<1>3. Runs(Value(ft, size, data, at, always), At(l, "open"), Left(l))
  BY <1>1, <1>2 DEF Left
<1> QED
  BY <1>3, SayRuns, RunsBoth

LEMMA SayClassRuns ==
    ASSUME NEW l \in Nat, NEW w, w # NL, NEW d \in AnyMap, NEW data, NEW at
    PROVE  Runs(<<Say(<<w>>)>> \o Class(d, data, at), Left(l), Left(l))
<1>1. At(l, "open") \in State /\ At(l, "open").level = l
  BY AtIs
<1>2. Runs(Class(d, data, at), At(l, "open"), At(At(l, "open").level, "any"))
  BY <1>1, ClassRuns
<1>3. Runs(Class(d, data, at), At(l, "open"), Left(l))
  BY <1>1, <1>2 DEF Left
<1> QED
  BY <1>3, SayRuns, RunsBoth

LEMMA NotNL ==
    /\ \A x : <<"index", x>> # NL
    /\ \A x, y : <<"field", x, y>> # NL /\ <<"vector", x, y>> # NL /\ <<"variant", x, y>> # NL
<1>1. NL[1] = "nl"
  BY DEF NL
<1>2. ASSUME NEW x PROVE <<"index", x>>[1] = "index"
  OBVIOUS
<1>3. ASSUME NEW x, NEW y
      PROVE <<"field", x, y>>[1] = "field" /\ <<"vector", x, y>>[1] = "vector" /\ <<"variant", x, y>>[1] = "variant"
  OBVIOUS
<1>4. "index" # "nl" /\ "field" # "nl" /\ "vector" # "nl" /\ "variant" # "nl"
  OBVIOUS
<1> QED
  BY <1>1, <1>2, <1>3, <1>4

\* What is between a line and the end of what it indents.
LEMMA NestRuns ==
    ASSUME NEW l \in Nat, NEW words, Sequence(words), NEW s, Runs(s, Left(l + 1), Left(l + 1))
    PROVE  Runs(<<Line(words), In>> \o s \o <<Out>>, Left(l), Left(l))
<1>1. Runs(<<Line(words), In>> \o s, Left(l), Left(l + 1))
  BY LineInRuns, RunsBoth
<1> QED
  BY <1>1, OutRuns, RunsBoth
-----------------------------------------------------------------------------
(* ... for each of them *)

LEMMA EachRuns ==
    ASSUME NEW l \in Nat, NEW n \in Nat, NEW ss, Indexed(ss, n), \A x \in 1..n : Runs(ss[x], Left(l), Left(l))
    PROVE  Runs(FlattenSeq(ss), Left(l), Left(l))
BY LeftIs, RunsEach

LEMMA CustomRuns ==
    ASSUME NEW l \in Nat, NEW f, NEW data, NEW at
    PROVE  Runs(CustomJobs(f, data, at), Left(l), Left(l))
<1> DEFINE ptr == Pointer(f, data, at)
           c == [op |-> "custom", name |-> f.name, ptr |-> ptr[1]]
<1>1. Runs(<<Line(<< <<"not implemented", f.name>> >>)>>, Left(l), Left(l))
  BY LineRuns, Tuples
<1>2. Runs(<<Line(<< <<"null", f.name>> >>)>>, Left(l), Left(l))
  BY LineRuns, Tuples
<1>3. Runs(<<c>>, Left(l), Left(l))
  <2>1. c.op = "custom"
    OBVIOUS
  <2>2. Left(l) \in State /\ Left(l).mode = "any" /\ Left(l) = At(Left(l).level, "any")
    BY LeftIs DEF Left
  <2> HIDE DEF c
  <2>3. Goes(c, Left(l), Left(l))
    BY <2>1, <2>2 DEF Goes
  <2> QED
    BY <2>2, <2>3, RunsOne
<1>4. CustomJobs(f, data, at) = IF ~f.ops THEN <<Line(<< <<"not implemented", f.name>> >>)>>
                                ELSE IF ptr = Zero THEN <<Line(<< <<"null", f.name>> >>)>> ELSE <<c>>
  BY DEF CustomJobs
<1> HIDE DEF ptr, c
<1> QED
  BY <1>1, <1>2, <1>3, <1>4

LEMMA FieldRuns ==
    ASSUME NEW l \in Nat, NEW f, f.type \in FieldType, f.size \in Nat,
           f.type = "EMBEDDED" => f.map \in DataMap, NEW data, NEW at
    PROVE  Runs(FieldJobs(f, data, at), Left(l), Left(l))
<1>1. CASE f.type = "CUSTOM"
  BY <1>1, CustomRuns DEF FieldJobs
<1>2. CASE f.type = "EMBEDDED"
  <2>1. FieldJobs(f, data, at) = <<Line(<< <<"embedded", f.name, f.map>> >>), Fields(f.map, data, at + f.off)>>
    BY <1>2 DEF FieldJobs
  <2>2. Left(l) \in State /\ Left(l).level = l
    BY LeftIs
  <2>3. At(l, "line") \in State /\ Goes(Line(<< <<"embedded", f.name, f.map>> >>), Left(l), At(l, "line"))
    <3>1. Sequence(<< <<"embedded", f.name, f.map>> >>)
      BY Tuples
    <3> QED
      BY <2>2, <3>1, LineGoes
  <2>4. Goes(Fields(f.map, data, at + f.off), At(l, "line"), Left(l))
    BY <1>2, FieldsGoes DEF Left, AnyMap
  <2> QED
    BY <2>1, <2>2, <2>3, <2>4, RunsTwo
<1>3. CASE f.type \notin {"CUSTOM", "EMBEDDED"}
  <2>1. FieldJobs(f, data, at) =
           <<Say(<< <<"field", f.name, f.type>> >>)>> \o Value(f.type, f.size, data, at + f.off, FALSE)
    BY <1>3 DEF FieldJobs
  <2>2. <<"field", f.name, f.type>> # NL
    BY NotNL
  <2> QED
    BY <2>1, <2>2, SayValueRuns
<1> QED
  BY <1>1, <1>2, <1>3

LEMMA TrimmedIs ==
    ASSUME NEW s, IsSequence(s)
    PROVE  Sequence(Trimmed(s))
<1> DEFINE n == Len(s)
           I == {v \in 1..n : s[v] # NL}
           p == SelectInSeq(s, LAMBDA c : c # NL)
           q == SelectLastInSeq(s, LAMBDA c : c # NL)
<1>1. Sequence(s) /\ DOMAIN s = 1..n /\ n \in Nat
  BY SequenceIs
<1>2. CASE \A k \in DOMAIN s : s[k] \in {NL, Char(" ")}
  BY <1>1, <1>2 DEF Trimmed
<1>3. CASE ~\A k \in DOMAIN s : s[k] \in {NL, Char(" ")}
  <2>1. I # {} /\ I \in SUBSET Nat
    <3>1. PICK k \in DOMAIN s : s[k] # NL
      BY <1>3
    <3>2. k \in I
      BY <1>1, <3>1
    <3>3. I \in SUBSET Nat
      BY <1>1
    <3> QED
      BY <3>2, <3>3
  <2>2. p = Min(I)
    BY <2>1 DEF SelectInSeq
  <2>3. q = Max(I)
    BY <2>1 DEF SelectLastInSeq
  <2>4. \A v \in I : v \in Nat /\ v <= n
    BY <1>1
  <2> HIDE DEF I, n
  <2>5. Min(I) \in Nat
    <3>1. \E x \in I : \A y \in I : x <= y
      BY <2>1, LeastOf
    <3>2. Min(I) \in I
      BY <3>1 DEF Min
    <3> QED
      BY <2>1, <3>2
  <2>6. Max(I) \in Nat
    <3> DEFINE J == {n - v : v \in I}
    <3>1. J # {} /\ J \in SUBSET Nat
      <4>1. \A v \in I : n - v \in Nat
        BY <1>1, <2>4 DEF n
      <4> QED
        BY <2>1, <4>1
    <3>2. PICK x \in J : \A y \in J : x <= y
      <4> HIDE DEF J
      <4> QED
        BY <3>1, LeastOf
    <3>3. PICK z \in I : x = n - z
      OBVIOUS
    <3>4. ASSUME NEW y \in I PROVE z >= y
      <4>1. x <= n - y
        BY <3>2
      <4> QED
        BY <1>1, <2>4, <3>3, <4>1
    <3>5. Max(I) \in I
      BY <3>4 DEF Max
    <3> QED
      BY <2>1, <3>5
  <2>7. Trimmed(s) = SubSeq(s, p, q)
    BY <1>3 DEF Trimmed
  <2>8. p \in Int /\ q \in Int
    BY <2>2, <2>3, <2>5, <2>6
  <2> HIDE DEF p, q
  <2> DEFINE S == {s[v] : v \in p..q}
  <2>9. \A v \in p..q : s[v] \in S
    OBVIOUS
  <2> HIDE DEF S
  <2>10. SubSeq(s, p, q) \in Seq(S)
    BY <2>8, <2>9, SubSeqProperties
  <2> QED
    BY <2>7, <2>10 DEF Sequence
<1> QED
  BY <1>2, <1>3

LEMMA MapDataRuns ==
    ASSUME NEW l \in Nat, NEW s, IsSequence(s)
    PROVE  Runs(MapData(s), Left(l), Left(l))
<1>1. CASE NL \in ToSet(s)
  <2>1. MapData(s) = <<Line(<< <<"map_data">> >>), In, Line(Trimmed(s)), Out>>
    BY <1>1 DEF MapData
  <2>2. Left(l) \in State /\ Left(l).level = l /\ Left(l + 1) \in State
    BY LeftIs
  <2>3. At(l, "line") \in State /\ Goes(Line(<< <<"map_data">> >>), Left(l), At(l, "line"))
    BY <2>2, LineGoes, Tuples
  <2>4. Goes(In, At(l, "line"), Left(l + 1))
    BY InGoes DEF Left
  <2>5. Goes(Line(Trimmed(s)), Left(l + 1), Left(l + 1))
    <3>1. Left(l + 1).level = l + 1
      BY LeftIs
    <3> QED
      BY <2>2, <3>1, LineGoes, TrimmedIs DEF Left
  <2>6. Goes(Out, Left(l + 1), Left(l))
    BY OutGoes DEF Left
  <2> QED
    BY <2>1, <2>2, <2>3, <2>4, <2>5, <2>6, RunsFour
<1>2. CASE NL \notin ToSet(s)
  <2>1. MapData(s) = <<Line(<< <<"map data">> >> \o s)>>
    BY <1>2 DEF MapData
  <2>2. Sequence(<< <<"map data">> >> \o s)
    BY SequenceIs, Tuples, ConcatFacts
  <2> QED
    BY <2>1, <2>2, LineRuns
<1> QED
  BY <1>1, <1>2

LEMMA TemplateRuns ==
    ASSUME NEW l \in Nat, NEW t, t.map \in AnyMap, IsSequence(t.map_data), NEW k
    PROVE  Runs(TemplateJobs(t, k), Left(l), Left(l))
<1> DEFINE first == <<Line(<< <<"template", k - 1>> >>), In>>
           class == Class(t.map, t.data, 0)
           name == <<Line(<< <<"name", t.name>> >>)>>
           data == MapData(t.map_data)
<1>1. Runs(first, Left(l), Left(l + 1))
  BY LineInRuns, Tuples
<1>2. Runs(class, Left(l + 1), Left(l + 1))
  BY ClassLeft
<1>3. Runs(name, Left(l + 1), Left(l + 1))
  BY LineRuns, Tuples
<1>4. Runs(data, Left(l + 1), Left(l + 1))
  BY MapDataRuns
<1>5. TemplateJobs(t, k) = first \o class \o name \o data \o <<Out>>
  BY DEF TemplateJobs
<1> HIDE DEF first, class, name, data
<1>6. Runs(first \o class, Left(l), Left(l + 1))
  BY <1>1, <1>2, RunsBoth
<1>7. Runs(first \o class \o name, Left(l), Left(l + 1))
  BY <1>3, <1>6, RunsBoth
<1>8. Runs(first \o class \o name \o data, Left(l), Left(l + 1))
  BY <1>4, <1>7, RunsBoth
<1> QED
  BY <1>5, <1>8, OutRuns, RunsBoth
-----------------------------------------------------------------------------
(* The invariant *)

\* Where the dump is between two jobs, and that what is still to be called goes from
\* there back to the left.
Meets(a) ==
    /\ indent_lvl = a.level
    /\ a.mode # "open" => pending_nl
    /\ IF a.mode = "any" THEN a.level = 0 \/ Reached(text, a.level - 1) ELSE Reached(text, a.level)

Going == \E a \in State : Meets(a) /\ Runs(jobs, a, Left(0))

TextInv ==
    /\ indent_lvl \in Nat /\ pending_nl \in BOOLEAN
    /\ LinesOK(text) /\ InSteps(text)
    /\ err \in {"none", "file_io"}
    /\ err = "none" => Going
    /\ err # "none" => jobs = <<>>

LEMMA NextJob ==
    ASSUME TextInv, NEW op, Now(op)
    PROVE  /\ err = "none"
           /\ \E a \in State, b \in State :
                 /\ Meets(a) /\ Goes(Head(jobs), a, b) /\ Runs(Tail(jobs), b, Left(0))
                 /\ Head(jobs).op = op
<1>1. jobs # <<>> /\ Head(jobs).op = op
  BY DEF Now
<1>2. err = "none" /\ Going
  BY <1>1 DEF TextInv
<1>3. PICK a \in State : Meets(a) /\ Runs(jobs, a, Left(0))
  BY <1>2 DEF Going
<1>4. \E b \in State : a \in State /\ Goes(Head(jobs), a, b) /\ Runs(Tail(jobs), b, Left(0))
  BY <1>1, <1>3, RunsFirst
<1> QED
  BY <1>1, <1>2, <1>3, <1>4

LEMMA LastIs ==
    ASSUME NEW t, LinesOK(t), t # <<>>
    PROVE  t[Len(t)].indent \in Nat
<1>1. PICK W : t \in Seq(Lines(W))
  BY DEF LinesOK
<1>2. t[Len(t)] \in Lines(W)
  BY <1>1, LenProperties, EmptySeq, ElementOfSeq
<1> QED
  BY <1>2 DEF Lines

\* A line need not be at the level itself for another to begin.
LEMMA MeetsLeft ==
    ASSUME TextInv, NEW a \in State, Meets(a), a.mode # "open"
    PROVE  /\ a.level \in Nat /\ Left(a.level) \in State /\ Meets(Left(a.level))
<1>1. a.level \in Nat
  BY DEF State
<1>2. Left(a.level) \in State /\ Left(a.level).level = a.level /\ Left(a.level).mode = "any"
  BY <1>1, LeftIs
<1>3. a.level = 0 \/ Reached(text, a.level - 1)
  <2>1. CASE a.mode = "any"
    BY <2>1 DEF Meets
  <2>2. CASE a.mode # "any"
    <3>1. text # <<>> /\ text[Len(text)].indent >= a.level
      BY <2>2 DEF Meets, Reached
    <3>2. text[Len(text)].indent \in Nat
      BY <3>1, LastIs DEF TextInv
    <3> QED
      BY <1>1, <3>1, <3>2 DEF Reached
  <2> QED
    BY <2>1, <2>2
<1> QED
  BY <1>1, <1>2, <1>3 DEF Meets

LEMMA MeetsReady ==
    ASSUME TextInv, NEW a \in State, Meets(a),
           NEW to, to = [lines |-> text, pending |-> pending_nl]
    PROVE  Ready(to, indent_lvl)
<1>1. /\ indent_lvl \in Nat /\ a.level = indent_lvl /\ pending_nl \in BOOLEAN /\ LinesOK(text) /\ InSteps(text)
  BY DEF TextInv, Meets
<1>2. CASE a.mode = "any"
  <2>1. pending_nl /\ (indent_lvl = 0 \/ Reached(text, indent_lvl - 1))
    BY <1>1, <1>2 DEF Meets
  <2> QED
    BY <1>1, <2>1 DEF Ready
<1>3. CASE a.mode # "any"
  <2>1. Reached(text, indent_lvl)
    BY <1>1, <1>3 DEF Meets
  <2>2. text # <<>> /\ text[Len(text)].indent >= indent_lvl /\ text[Len(text)].indent \in Nat
    BY <1>1, <2>1, LastIs DEF Reached
  <2>3. indent_lvl = 0 \/ Reached(text, indent_lvl - 1)
    BY <1>1, <2>2 DEF Reached
  <2> QED
    BY <1>1, <2>1, <2>3 DEF Ready
<1> QED
  BY <1>2, <1>3

\* A job that calls others which go as it does.
LEMMA ThenKeeps ==
    ASSUME TextInv, err = "none", NEW a \in State, Meets(a), NEW b, NEW calls, Runs(calls, a, b),
           Runs(Tail(jobs), b, Left(0)), Then(calls)
    PROVE  TextInv'
<1>1. jobs' = calls \o Tail(jobs)
      /\ UNCHANGED <<text, pending_nl, indent_lvl, err>>
  BY DEF Then
<1>2. Runs(calls \o Tail(jobs), a, Left(0))
  BY RunsBoth
<1>3. Runs(jobs', a, Left(0))
  BY <1>1, <1>2
<1>4. Meets(a)'
  BY <1>1 DEF Meets
<1>5. Going'
  BY <1>3, <1>4 DEF Going
<1> QED
  BY <1>1, <1>5 DEF TextInv

LEMMA SayKeeps ==
    ASSUME TextInv, SayWords
    PROVE  TextInv'
<1>1. Now("say")
  BY DEF SayWords
<1>2. PICK a \in State, b \in State :
         Meets(a) /\ Goes(Head(jobs), a, b) /\ Runs(Tail(jobs), b, Left(0)) /\ Head(jobs).op = "say"
  BY <1>1, NextJob
<1> DEFINE words == Head(jobs).words
           n == Len(words)
           start == [lines |-> text, pending |-> pending_nl]
           to(k) == AfterPrint(words)[k]
<1>3. /\ Sequence(words) /\ words # <<>> /\ b.level = a.level
      /\ b.mode \in IF words[n] = NL THEN {"line", "any"} ELSE {"open"}
  BY <1>2 DEF Goes
<1>4. indent_lvl \in Nat /\ indent_lvl = a.level
  BY <1>2 DEF TextInv, Meets
<1>5. Ready(start, indent_lvl)
  BY <1>2, MeetsReady
<1>6. n \in Nat /\ n > 0
  BY <1>3, SequenceFacts
<1>7. ASSUME NEW k \in 0..n
      PROVE  /\ Ready(to(k), indent_lvl)
             /\ k > 0 => Reached(to(k).lines, indent_lvl) /\ (to(k).pending <=> words[k] = NL)
  <2> HIDE DEF words, start
  <2> QED
    BY <1>3, <1>4, <1>5, Prints DEF start
<1>8. indent_lvl' = indent_lvl
  BY DEF SayWords
<1>9. CASE /\ text' = to(n).lines /\ pending_nl' = to(n).pending
           /\ jobs' = Tail(jobs) /\ UNCHANGED err
  <2>1. n \in 0..n
    BY <1>6
  <2>2. Ready(to(n), indent_lvl) /\ Reached(to(n).lines, indent_lvl) /\ (to(n).pending <=> words[n] = NL)
    BY <1>6, <1>7, <2>1
  <2>3. LinesOK(text') /\ InSteps(text') /\ pending_nl' \in BOOLEAN
    BY <1>9, <2>2 DEF Ready
  <2>4. Reached(text', indent_lvl) /\ (pending_nl' <=> words[n] = NL)
    BY <1>9, <2>2
  <2>5. err' = "none" /\ Runs(jobs', b, Left(0))
    BY <1>1, <1>2, <1>9, NextJob
  <2>6. b.mode # "open" => pending_nl'
    BY <1>3, <2>4
  <2>7. indent_lvl = 0 \/ Reached(text', indent_lvl - 1)
    <3>1. text' # <<>> /\ text'[Len(text')].indent >= indent_lvl
      BY <2>4 DEF Reached
    <3>2. text'[Len(text')].indent \in Nat
      BY <2>3, <3>1, LastIs
    <3> QED
      BY <1>4, <3>1, <3>2 DEF Reached
  <2>8. Meets(b)'
    <3> HIDE DEF words, n
    <3> QED
      BY <1>3, <1>4, <1>8, <2>4, <2>6, <2>7 DEF Meets
  <2>9. Going'
    BY <2>5, <2>8 DEF Going
  <2> HIDE DEF words, n
  <2> QED
    BY <1>4, <1>8, <2>3, <2>5, <2>9 DEF TextInv
<1>10. CASE /\ \E k \in 0..n : text' = to(k).lines /\ pending_nl' = to(k).pending
            /\ jobs' = <<>> /\ err' = "file_io"
  <2>1. PICK k \in 0..n : text' = to(k).lines /\ pending_nl' = to(k).pending
    BY <1>10
  <2>2. LinesOK(text') /\ InSteps(text') /\ pending_nl' \in BOOLEAN
    BY <1>7, <2>1 DEF Ready
  <2> QED
    BY <1>4, <1>8, <1>10, <2>2 DEF TextInv
<1> QED
  BY <1>9, <1>10 DEF SayWords

LEMMA IndentKeeps ==
    ASSUME TextInv, Indent
    PROVE  TextInv'
<1>1. PICK op \in {"in", "out"} : Now(op)
  BY DEF Indent
<1>2. PICK a \in State, b \in State :
         Meets(a) /\ Goes(Head(jobs), a, b) /\ Runs(Tail(jobs), b, Left(0)) /\ Head(jobs).op = op
  BY <1>1, NextJob
<1>3. /\ indent_lvl' = IF op = "in" THEN indent_lvl + 1 ELSE indent_lvl - 1
      /\ jobs' = Tail(jobs) /\ UNCHANGED <<text, pending_nl, err>>
  BY <1>2 DEF Indent
<1>4. indent_lvl \in Nat /\ indent_lvl = a.level /\ a.level \in Nat /\ b.level \in Nat
  BY <1>2 DEF TextInv, Meets, State
<1>5. Meets(b)' /\ indent_lvl' \in Nat
  <2>1. CASE op = "in"
    <3>1. a.mode = "line" /\ b.mode = "any" /\ b.level = a.level + 1
      BY <1>2, <2>1 DEF Goes
    <3>2. pending_nl /\ Reached(text, a.level)
      BY <1>2, <3>1 DEF Meets
    <3>3. indent_lvl' = b.level /\ pending_nl' /\ Reached(text', b.level - 1)
      <4>1. b.level - 1 = a.level
        BY <1>4, <3>1
      <4> QED
        BY <1>3, <1>4, <2>1, <3>1, <3>2, <4>1
    <3> QED
      BY <1>4, <3>1, <3>3 DEF Meets
  <2>2. CASE op = "out"
    <3>1. a.mode # "open" /\ b.mode = "any" /\ a.level = b.level + 1
      BY <1>2, <2>2 DEF Goes
    <3>2. pending_nl /\ Meets(Left(a.level)) /\ Left(a.level).mode = "any" /\ Left(a.level).level = a.level
      BY <1>2, <1>4, <3>1, MeetsLeft, LeftIs DEF Meets
    <3>3. Reached(text, a.level - 1)
      BY <1>4, <3>1, <3>2 DEF Meets
    <3>4. text # <<>> /\ text[Len(text)].indent >= b.level /\ text[Len(text)].indent \in Nat
      BY <1>4, <3>1, <3>3, LastIs DEF Reached, TextInv
    <3>5. b.level = 0 \/ Reached(text, b.level - 1)
      BY <1>4, <3>4 DEF Reached
    <3>6. indent_lvl' = b.level
      BY <1>3, <1>4, <2>2, <3>1
    <3> QED
      BY <1>3, <1>4, <3>1, <3>2, <3>5, <3>6 DEF Meets
  <2> QED
    BY <2>1, <2>2
<1>6. Runs(jobs', b, Left(0))
  BY <1>2, <1>3
<1>7. Going'
  BY <1>5, <1>6 DEF Going
<1>8. err = "none"
  BY <1>1, NextJob
<1> QED
  BY <1>3, <1>5, <1>7, <1>8 DEF TextInv
-----------------------------------------------------------------------------
(* Classes and their fields *)

\* What goes from the left to the left.
LEMMA NextLeft ==
    ASSUME TextInv, NEW op \in {"fields", "field", "custom", "templates"}, Now(op)
    PROVE  \E a \in State :
              /\ err = "none" /\ Meets(a) /\ a.mode # "open"
              /\ a.level \in Nat /\ Meets(Left(a.level)) /\ Runs(Tail(jobs), Left(a.level), Left(0))
              /\ Goes(Head(jobs), a, Left(a.level)) /\ Head(jobs).op = op
<1>1. err = "none"
  BY NextJob
<1>2. PICK a \in State, b \in State :
         Meets(a) /\ Goes(Head(jobs), a, b) /\ Runs(Tail(jobs), b, Left(0)) /\ Head(jobs).op = op
  BY NextJob
<1>3. a.mode # "open" /\ b = Left(a.level)
  BY <1>2 DEF Goes, Left
<1>4. a.level \in Nat /\ Meets(Left(a.level))
  BY <1>2, <1>3, MeetsLeft
<1> QED
  BY <1>1, <1>2, <1>3, <1>4

LEMMA FieldGoes ==
    ASSUME NEW l \in Nat, NEW d, d.op = "field", d.map \in DataMap, d.k \in Nat \ {0}, d.any \in BOOLEAN,
           d = [op |-> "field", map |-> d.map, data |-> d.data, at |-> d.at, k |-> d.k, any |-> d.any]
    PROVE  Goes(d, Left(l), Left(l))
<1> DEFINE e == Left(l)
<1>1. e.level = l /\ e.mode = "any"
  BY LeftIs
<1>2. e = At(l, "any")
  BY DEF Left
<1> HIDE DEF e
<1>3. Goes(d, e, e)
  BY <1>1, <1>2 DEF Goes
<1> QED
  BY <1>3 DEF e

LEMMA AnyShown ==
    ASSUME NEW o, NEW m, NEW data, NEW at, NEW k, NEW any, NEW r,
           r = [op |-> o, map |-> m, data |-> data, at |-> at, k |-> k, any |-> any]
    PROVE  [r EXCEPT !.any = TRUE] = [op |-> o, map |-> m, data |-> data, at |-> at, k |-> k, any |-> TRUE]
<1>1. ASSUME NEW yes
      PROVE  [r EXCEPT !.any = yes] = [op |-> o, map |-> m, data |-> data, at |-> at, k |-> k, any |-> yes]
  OBVIOUS
<1> QED
  BY <1>1

LEMMA MapIs ==
    ASSUME NEW o, NEW m, NEW t, NEW data, NEW at, NEW n, NEW r,
           r = [op |-> o, map |-> m, top |-> t, data |-> data, at |-> at]
    PROVE  [r EXCEPT !.map = n] = [op |-> o, map |-> n, top |-> t, data |-> data, at |-> at]
OBVIOUS

LEMMA TopIs ==
    ASSUME NEW o, NEW m, NEW t, NEW data, NEW at, NEW r,
           r = [op |-> o, map |-> m, top |-> t, data |-> data, at |-> at]
    PROVE  [r EXCEPT !.top = FALSE] = [op |-> o, map |-> m, top |-> FALSE, data |-> data, at |-> at]
<1>1. ASSUME NEW no
      PROVE  [r EXCEPT !.top = no] = [op |-> o, map |-> m, top |-> no, data |-> data, at |-> at]
  OBVIOUS
<1> QED
  BY <1>1

LEMMA FirstField ==
    ASSUME NEW l \in Nat, NEW m \in DataMap, NEW data, NEW at,
           NEW d, d = [op |-> "field", map |-> m, data |-> data, at |-> at, k |-> 1, any |-> FALSE]
    PROVE  Goes(d, Left(l), Left(l))
<1>1. d.op = "field" /\ d.map \in DataMap /\ d.k \in Nat \ {0} /\ d.any \in BOOLEAN
  OBVIOUS
<1>2. d = [op |-> "field", map |-> d.map, data |-> d.data, at |-> d.at, k |-> d.k, any |-> d.any]
  OBVIOUS
<1> QED
  BY <1>1, <1>2, FieldGoes

\* Classes that a class derives from are one level farther to the right, each of them.
LEMMA FieldsKeeps ==
    ASSUME TextInv, DumpFields
    PROVE  TextInv'
<1>1. Now("fields")
  BY DEF DumpFields
<1>2. PICK a \in State :
         /\ err = "none" /\ Meets(a) /\ a.mode # "open"
         /\ a.level \in Nat /\ Meets(Left(a.level)) /\ Runs(Tail(jobs), Left(a.level), Left(0))
         /\ Goes(Head(jobs), a, Left(a.level)) /\ Head(jobs).op = "fields"
  BY <1>1, NextLeft
<1> DEFINE c == Head(jobs)
           l == a.level
           fields == [op |-> "field", map |-> c.map, data |-> c.data, at |-> c.at, k |-> 1, any |-> FALSE]
           base == [c EXCEPT !.map = BaseOf[c.map], !.top = FALSE]
           begins == IF c.top THEN <<>> ELSE <<Line(<< <<"inherited", c.map>> >>)>>
           rest == <<In, fields, Out, base>>
<1>3. /\ c.map \in AnyMap /\ c.top \in BOOLEAN /\ (c.top => a.mode = "line")
      /\ c = [op |-> "fields", map |-> c.map, top |-> c.top, data |-> c.data, at |-> c.at]
  BY <1>2 DEF Goes
<1>4. Left(l) \in State /\ Left(l).level = l /\ At(l, "line") \in State /\ Left(l + 1) \in State
      /\ Left(l + 1).level = l + 1 /\ Left(l + 1).mode = "any" /\ Left(l).mode = "any"
  BY <1>2, LeftIs, AtIs
<1>5. CASE c.map = NoMap
  <2>1. Then(<<>>)
    BY <1>5 DEF DumpFields
  <2>2. Runs(<<>>, Left(l), Left(l))
    BY <1>4, RunsNone
  <2> QED
    BY <1>2, <1>4, <2>1, <2>2, ThenKeeps
<1>6. CASE c.map # NoMap
  <2>1. c.map \in DataMap /\ BaseOf[c.map] \in AnyMap
    BY <1>3, <1>6, DumpsAssumption DEF AnyMap
  <2>2. Then(begins \o rest)
    BY <1>6 DEF DumpFields
  <2>3. Goes(fields, Left(l + 1), Left(l + 1))
    <3>1. l + 1 \in Nat
      BY <1>2
    <3>2. \A d : d = fields => Goes(d, Left(l + 1), Left(l + 1))
      <4> HIDE DEF c, l
      <4> QED
        BY <2>1, <3>1, FirstField
    <3> QED
      BY <3>2
  <2>4. Goes(base, Left(l), Left(l))
    <3>1. base = [op |-> "fields", map |-> BaseOf[c.map], top |-> FALSE, data |-> c.data, at |-> c.at]
      <4> DEFINE n == BaseOf[c.map]
      <4> DEFINE u == [c EXCEPT !.map = n]
      <4>1. base = [u EXCEPT !.top = FALSE]
        OBVIOUS
      <4> HIDE DEF c, n, base
      <4>2. u = [op |-> "fields", map |-> n, top |-> c.top, data |-> c.data, at |-> c.at]
        BY <1>3, MapIs
      <4> HIDE DEF u
      <4> QED
        BY <4>1, <4>2, TopIs DEF n
    <3> HIDE DEF base, c
    <3>2. /\ base.op = "fields" /\ base.map \in AnyMap /\ base.top = FALSE
          /\ base = [op |-> "fields", map |-> base.map, top |-> base.top, data |-> base.data, at |-> base.at]
      BY <2>1, <3>1
    <3>3. Left(l) = At(Left(l).level, "any")
      BY <1>4 DEF Left
    <3> HIDE DEF l
    <3> QED
      BY <1>4, <3>2, <3>3 DEF Goes
  <2>5. Goes(In, At(l, "line"), Left(l + 1)) /\ Goes(Out, Left(l + 1), Left(l))
    BY <1>2, InGoes, OutGoes DEF Left
  <2>6. Runs(rest, At(l, "line"), Left(l))
    <3> HIDE DEF fields, base, l
    <3> QED
      BY <1>4, <2>3, <2>4, <2>5, RunsFour
  <2>7. CASE c.top
    <3>1. a = At(l, "line")
      BY <1>2, <1>3, <2>7 DEF At, State
    <3>2. begins \o rest = rest
      <4>1. begins = <<>> /\ Sequence(rest)
        BY <2>6, <2>7 DEF Runs
      <4> HIDE DEF begins, rest
      <4> QED
        BY <4>1, ConcatEmptySeq DEF Sequence
    <3> HIDE DEF rest, begins, l
    <3> QED
      BY <1>2, <2>2, <2>6, <3>1, <3>2, ThenKeeps DEF l
  <2>8. CASE ~c.top
    <3>1. begins = <<Line(<< <<"inherited", c.map>> >>)>>
      BY <2>8
    <3>2. Goes(Line(<< <<"inherited", c.map>> >>), a, At(l, "line"))
      BY LineGoes, Tuples
    <3>3. Runs(begins, a, At(l, "line"))
      BY <1>4, <3>1, <3>2, RunsOne
    <3> HIDE DEF rest, begins
    <3>4. Runs(begins \o rest, a, Left(l))
      BY <2>6, <3>3, RunsBoth
    <3> QED
      BY <1>2, <2>2, <3>4, ThenKeeps
  <2> QED
    BY <2>7, <2>8
<1> QED
  BY <1>5, <1>6

LEMMA FieldKeeps ==
    ASSUME TextInv, DumpField
    PROVE  TextInv'
<1>1. Now("field")
  BY DEF DumpField
<1>2. PICK a \in State :
         /\ err = "none" /\ Meets(a) /\ a.mode # "open"
         /\ a.level \in Nat /\ Meets(Left(a.level)) /\ Runs(Tail(jobs), Left(a.level), Left(0))
         /\ Goes(Head(jobs), a, Left(a.level)) /\ Head(jobs).op = "field"
  BY <1>1, NextLeft
<1> DEFINE c == Head(jobs)
           l == a.level
           f == FieldsOf[c.map][c.k]
           next == [c EXCEPT !.k = @ + 1]
           shown == [next EXCEPT !.any = TRUE]
<1>3. /\ c.map \in DataMap /\ c.k \in Nat \ {0} /\ c.any \in BOOLEAN
      /\ c = [op |-> "field", map |-> c.map, data |-> c.data, at |-> c.at, k |-> c.k, any |-> c.any]
  BY <1>2 DEF Goes
<1>4. Left(l) \in State /\ Left(l).level = l /\ Left(l).mode = "any" /\ Left(l) = At(Left(l).level, "any")
  BY <1>2, LeftIs DEF Left
<1>5. ASSUME NEW d, NEW any \in BOOLEAN,
             d = [op |-> "field", map |-> c.map, data |-> c.data, at |-> c.at, k |-> c.k + 1, any |-> any]
      PROVE  Goes(d, Left(l), Left(l))
  <2> HIDE DEF c
  <2>1. /\ d.op = "field" /\ d.map \in DataMap /\ d.k \in Nat \ {0} /\ d.any \in BOOLEAN
        /\ d = [op |-> "field", map |-> d.map, data |-> d.data, at |-> d.at, k |-> d.k, any |-> d.any]
    BY <1>3, <1>5
  <2> QED
    BY <1>2, <2>1, FieldGoes
<1>6. Goes(next, Left(l), Left(l)) /\ Goes(shown, Left(l), Left(l))
  <2>1. next = [op |-> "field", map |-> c.map, data |-> c.data, at |-> c.at, k |-> c.k + 1, any |-> c.any]
    BY <1>3
  <2>2. shown = [op |-> "field", map |-> c.map, data |-> c.data, at |-> c.at, k |-> c.k + 1, any |-> TRUE]
    <3> HIDE DEF next, c
    <3> QED
      BY <2>1, AnyShown
  <2> HIDE DEF next, shown, c, l
  <2> QED
    BY <1>3, <1>5, <2>1, <2>2
<1>7. CASE c.k > Len(FieldsOf[c.map])
  <2> DEFINE calls == IF c.any THEN <<>> ELSE <<Line(<< <<"no fields">> >>)>>
  <2>1. Then(calls)
    BY <1>7 DEF DumpField
  <2>2. Runs(<<>>, Left(l), Left(l)) /\ Runs(<<Line(<< <<"no fields">> >>)>>, Left(l), Left(l))
    BY <1>2, <1>4, RunsNone, LineRuns, Tuples
  <2>3. Runs(calls, Left(l), Left(l))
    BY <2>2
  <2> HIDE DEF calls
  <2> QED
    BY <1>2, <1>4, <2>1, <2>3, ThenKeeps
<1>8. CASE c.k <= Len(FieldsOf[c.map]) /\ ~IsShown(f, c.data, c.at)
  <2>0. ~(c.k > Len(FieldsOf[c.map]))
    BY <1>3, <1>8, DumpsAssumption, SequenceIs
  <2>1. Then(<<next>>)
    BY <1>8, <2>0 DEF DumpField
  <2> HIDE DEF next
  <2>2. Runs(<<next>>, Left(l), Left(l))
    BY <1>4, <1>6, RunsOne
  <2> QED
    BY <1>2, <1>4, <2>1, <2>2, ThenKeeps
<1>9. CASE c.k <= Len(FieldsOf[c.map]) /\ IsShown(f, c.data, c.at)
  <2>0. IsSequence(FieldsOf[c.map]) /\ Len(FieldsOf[c.map]) \in Nat /\ c.k \in DOMAIN FieldsOf[c.map]
    BY <1>3, <1>9, DumpsAssumption, SequenceIs
  <2>1. f.type \in FieldType /\ f.size \in Nat /\ (f.type = "EMBEDDED" => f.map \in DataMap)
    BY <1>3, <2>0, DumpsAssumption
  <2> DEFINE calls == FieldJobs(f, c.data, c.at)
  <2>2. Then(Append(calls, shown))
    <3>1. ~(c.k > Len(FieldsOf[c.map]))
      BY <1>3, <1>9, <2>0
    <3> QED
      BY <1>9, <3>1 DEF DumpField
  <2> HIDE DEF shown, f, c, l
  <2>3. Runs(calls, Left(l), Left(l))
    BY <1>2, <2>1, FieldRuns DEF l
  <2> HIDE DEF calls
  <2>4. Runs(<<shown>>, Left(l), Left(l))
    BY <1>4, <1>6, RunsOne
  <2>5. Append(calls, shown) = calls \o <<shown>>
    BY <2>3, AppendIs DEF Runs
  <2>6. Runs(Append(calls, shown), Left(l), Left(l))
    BY <2>3, <2>4, <2>5, RunsBoth
  <2> QED
    BY <1>2, <1>4, <2>2, <2>6, ThenKeeps DEF l, c
<1>10. c.k > Len(FieldsOf[c.map]) \/ c.k <= Len(FieldsOf[c.map])
  BY <1>3, DumpsAssumption, SequenceIs
<1> QED
  BY <1>7, <1>8, <1>9, <1>10

LEMMA ValueKeeps ==
    ASSUME TextInv, DumpValue
    PROVE  TextInv'
<1>1. Now("value") /\ Then(<<Line(ValueWords(Head(jobs)))>>)
  BY DEF DumpValue
<1>2. PICK a \in State, b \in State :
         Meets(a) /\ Goes(Head(jobs), a, b) /\ Runs(Tail(jobs), b, Left(0)) /\ Head(jobs).op = "value"
  BY <1>1, NextJob
<1>3. Head(jobs).size \in Nat /\ b.level = a.level /\ b.mode \in {"line", "any"}
  BY <1>2 DEF Goes
<1>4. b = At(a.level, "line") \/ b = At(a.level, "any")
  BY <1>3 DEF State, At
<1>5. Sequence(ValueWords(Head(jobs)))
  BY <1>3, ValueWordsIs
<1>6. Goes(Line(ValueWords(Head(jobs))), a, b)
  BY <1>4, <1>5, LineGoes
<1>7. Runs(<<Line(ValueWords(Head(jobs)))>>, a, b)
  BY <1>6, RunsOne
<1>8. err = "none"
  BY <1>1, NextJob
<1> QED
  BY <1>1, <1>2, <1>7, <1>8, ThenKeeps
-----------------------------------------------------------------------------
(* Custom fields *)

LEMMA NextCustom ==
    ASSUME TextInv, NEW kind, DumpFns(kind)
    PROVE  /\ err = "none" /\ ObjectOK(Pointee) /\ Pointee.kind = kind
           /\ \E l \in Nat : /\ Left(l) \in State /\ Meets(Left(l)) /\ Runs(Tail(jobs), Left(l), Left(0))
<1>1. Now("custom") /\ Pointee.kind = kind /\ Head(jobs).ptr \in DOMAIN Object
  BY DEF DumpFns, Pointee
<1>2. ObjectOK(Pointee)
  BY <1>1, DumpsAssumption DEF Pointee
<1>3. PICK a \in State :
         /\ err = "none" /\ Meets(a) /\ a.mode # "open"
         /\ a.level \in Nat /\ Meets(Left(a.level)) /\ Runs(Tail(jobs), Left(a.level), Left(0))
         /\ Goes(Head(jobs), a, Left(a.level)) /\ Head(jobs).op = "custom"
  BY <1>1, NextLeft
<1>4. Left(a.level) \in State
  BY <1>3, LeftIs
<1> QED
  BY <1>1, <1>2, <1>3, <1>4

LEMMA VectorKeeps ==
    ASSUME TextInv, DumpVector
    PROVE  TextInv'
<1> DEFINE v == Pointee
           word == <<"vector", Head(jobs).name, v.n>>
           elem(k) == <<Say(<< <<"index", k - 1>> >>)>> \o Class(v.map, v.data, v.size * (k - 1))
           elems == [k \in 1..v.n |-> elem(k)]
           ones == <<Line(<<word>>), In>> \o FlattenSeq(elems) \o <<Out>>
           values == <<Say(<<word>>)>> \o Value(v.ft, v.size * v.n, v.data, 0, TRUE)
<1>1. DumpFns("vector")
  BY DEF DumpVector
<1>2. IF v.map # NoMap THEN Then(ones) ELSE Then(values)
  BY DEF DumpVector
<1>3. err = "none" /\ v.map \in AnyMap /\ v.n \in Nat /\ v.size \in Nat
  BY <1>1, NextCustom DEF ObjectOK
<1>4. PICK l \in Nat : Left(l) \in State /\ Meets(Left(l)) /\ Runs(Tail(jobs), Left(l), Left(0))
  BY <1>1, NextCustom
<1>5. Runs(ones, Left(l), Left(l))
  <2>1. ASSUME NEW k \in 1..v.n PROVE Runs(elem(k), Left(l + 1), Left(l + 1))
    <3>1. <<"index", k - 1>> # NL
      BY NotNL
    <3> HIDE DEF v
    <3> QED
      BY <1>3, <3>1, SayClassRuns
  <2>2. Indexed(elems, v.n)
    BY DEF Indexed
  <2>3. \A k \in 1..v.n : elems[k] = elem(k)
    OBVIOUS
  <2> HIDE DEF elems, elem, v
  <2>4. Runs(FlattenSeq(elems), Left(l + 1), Left(l + 1))
    <3>1. \A k \in 1..v.n : Runs(elems[k], Left(l + 1), Left(l + 1))
      BY <2>1, <2>3
    <3> QED
      BY <1>3, <2>2, <3>1, EachRuns
  <2> HIDE DEF word
  <2> QED
    BY <2>4, NestRuns, Tuples
<1>6. Runs(values, Left(l), Left(l))
  <2>1. word # NL
    BY NotNL
  <2>2. v.size * v.n \in Nat
    BY <1>3
  <2> HIDE DEF word, v
  <2> QED
    BY <2>1, <2>2, SayValueRuns
<1> HIDE DEF ones, values
<1> QED
  BY <1>2, <1>3, <1>4, <1>5, <1>6, ThenKeeps

LEMMA OutputKeeps ==
    ASSUME TextInv, DumpOutput
    PROVE  TextInv'
<1> DEFINE o == Pointee
           action(k) == Class(o.actions.map, o.actions.data, SizeOf[o.actions.map] * (k - 1))
           acts == [k \in 1..o.actions.n |-> action(k)]
           begins == <<Line(<< <<"output", Head(jobs).name>> >>), In>>
           value == Class(o.val.map, o.val.data, 0)
           events == <<Line(<< <<"events", o.actions.n>> >>), In>>
           calls == begins \o value \o events \o FlattenSeq(acts) \o <<Out, Out>>
<1>1. DumpFns("output") /\ Then(calls)
  BY DEF DumpOutput
<1>2. err = "none" /\ o.val.map \in AnyMap /\ o.actions.map \in AnyMap /\ o.actions.n \in Nat
  BY <1>1, NextCustom DEF ObjectOK
<1>3. PICK l \in Nat : Left(l) \in State /\ Meets(Left(l)) /\ Runs(Tail(jobs), Left(l), Left(0))
  BY <1>1, NextCustom
<1>4. Runs(begins, Left(l), Left(l + 1))
  BY LineInRuns, Tuples
<1>5. Runs(value, Left(l + 1), Left(l + 1))
  BY <1>2, ClassLeft
<1>6. Runs(events, Left(l + 1), Left((l + 1) + 1))
  BY LineInRuns, Tuples
<1>7. Runs(FlattenSeq(acts), Left((l + 1) + 1), Left((l + 1) + 1))
  <2>1. ASSUME NEW k \in 1..o.actions.n PROVE Runs(action(k), Left((l + 1) + 1), Left((l + 1) + 1))
    <3> HIDE DEF o
    <3> QED
      BY <1>2, ClassLeft
  <2>2. Indexed(acts, o.actions.n)
    BY DEF Indexed
  <2>3. \A k \in 1..o.actions.n : acts[k] = action(k)
    OBVIOUS
  <2> HIDE DEF acts, action, o
  <2>4. \A k \in 1..o.actions.n : Runs(acts[k], Left((l + 1) + 1), Left((l + 1) + 1))
    BY <2>1, <2>3
  <2> QED
    BY <1>2, <2>2, <2>4, EachRuns
<1>8. Runs(<<Out, Out>>, Left((l + 1) + 1), Left(l))
  <2>1. <<Out, Out>> = <<Out>> \o <<Out>>
    BY OneAndTheRest
  <2>2. Runs(<<Out>>, Left((l + 1) + 1), Left(l + 1)) /\ Runs(<<Out>>, Left(l + 1), Left(l))
    BY OutRuns
  <2> QED
    BY <2>1, <2>2, RunsBoth
<1>9. Runs(calls, Left(l), Left(l))
  <2> HIDE DEF begins, value, events, acts
  <2>1. Runs(begins \o value, Left(l), Left(l + 1))
    BY <1>4, <1>5, RunsBoth
  <2>2. Runs(begins \o value \o events, Left(l), Left((l + 1) + 1))
    BY <1>6, <2>1, RunsBoth
  <2>3. Runs(begins \o value \o events \o FlattenSeq(acts), Left(l), Left((l + 1) + 1))
    BY <1>7, <2>2, RunsBoth
  <2> QED
    BY <1>8, <2>3, RunsBoth
<1> HIDE DEF calls
<1> QED
  BY <1>1, <1>2, <1>3, <1>9, ThenKeeps

LEMMA VariantKeeps ==
    ASSUME TextInv, DumpVariant
    PROVE  TextInv'
<1> DEFINE v == Pointee
           word == <<"variant", Head(jobs).name, v.ft>>
           value == Value(v.ft, Len(v.data), v.data, 0, v.ft \in {"VECTOR", "POSITION_VECTOR"})
           empty == <<Line(<< <<"empty">> >>)>>
           calls == <<Say(<<word>>)>> \o (IF v.ft = "VOID" THEN empty ELSE value)
<1>1. DumpFns("variant") /\ Then(calls)
  BY DEF DumpVariant
<1>2. err = "none" /\ Len(v.data) \in Nat
  BY <1>1, NextCustom DEF ObjectOK
<1>3. PICK l \in Nat : Left(l) \in State /\ Meets(Left(l)) /\ Runs(Tail(jobs), Left(l), Left(0))
  BY <1>1, NextCustom
<1>4. word # NL
  BY NotNL
<1> HIDE DEF word
<1>5. Runs(<<Say(<<word>>)>> \o value, Left(l), Left(l))
  <2> DEFINE always == v.ft \in {"VECTOR", "POSITION_VECTOR"}
  <2>1. value = Value(v.ft, Len(v.data), v.data, 0, always)
    OBVIOUS
  <2> HIDE DEF v, value, always
  <2> QED
    BY <1>2, <1>4, <2>1, SayValueRuns
<1>6. Runs(<<Say(<<word>>)>> \o empty, Left(l), Left(l))
  <2>1. At(l, "open") \in State /\ At(l, "open").level = l
    BY AtIs
  <2>2. Goes(Line(<< <<"empty">> >>), At(l, "open"), Left(l))
    BY <2>1, LineGoes, Tuples DEF Left
  <2>3. Runs(empty, At(l, "open"), Left(l))
    BY <1>3, <2>1, <2>2, RunsOne
  <2> HIDE DEF empty
  <2> QED
    BY <1>4, <2>3, SayRuns, RunsBoth
<1>7. Runs(calls, Left(l), Left(l))
  <2> HIDE DEF value, empty, v
  <2>1. CASE v.ft = "VOID"
    BY <1>6, <2>1
  <2>2. CASE v.ft # "VOID"
    BY <1>5, <2>2
  <2> QED
    BY <2>1, <2>2
<1> HIDE DEF calls
<1> QED
  BY <1>1, <1>2, <1>3, <1>7, ThenKeeps

LEMMA ActivityKeeps ==
    ASSUME TextInv, DumpActivity
    PROVE  TextInv'
<1> DEFINE words == << <<IF Pointee.tagged THEN "named activity" ELSE "activity", Head(jobs).name>>,
                       <<"elem", Pointee.data>> >>
<1>1. DumpFns("activity") /\ Then(<<Line(words)>>)
  BY DEF DumpActivity
<1>2. PICK l \in Nat : Left(l) \in State /\ Meets(Left(l)) /\ Runs(Tail(jobs), Left(l), Left(0))
  BY <1>1, NextCustom
<1>3. Sequence(words)
  BY Tuples
<1> HIDE DEF words
<1>4. Runs(<<Line(words)>>, Left(l), Left(l))
  BY <1>3, LineRuns
<1>5. err = "none"
  BY <1>1, NextCustom
<1> QED
  BY <1>1, <1>2, <1>4, <1>5, ThenKeeps
-----------------------------------------------------------------------------
(* Templates, and the whole *)

LEMMA TemplatesKeeps ==
    ASSUME TextInv, DumpTemplates
    PROVE  TextInv'
<1> DEFINE b == Head(jobs).block
           word == <<"templates", Len(b)>>
           each == [k \in DOMAIN b |-> TemplateJobs(b[k], k)]
           calls == <<Line(<<word>>), In>> \o FlattenSeq(each) \o <<Out>>
<1>1. Now("templates") /\ Then(calls)
  BY DEF DumpTemplates
<1>2. PICK a \in State :
         /\ err = "none" /\ Meets(a) /\ a.mode # "open"
         /\ a.level \in Nat /\ Meets(Left(a.level)) /\ Runs(Tail(jobs), Left(a.level), Left(0))
         /\ Goes(Head(jobs), a, Left(a.level)) /\ Head(jobs).op = "templates"
  BY <1>1, NextLeft
<1> DEFINE l == a.level
<1>3. BlockOK(b)
  BY <1>2 DEF Goes
<1>4. DOMAIN b = 1..Len(b) /\ Len(b) \in Nat /\ \A k \in 1..Len(b) : b[k].map \in AnyMap /\ IsSequence(b[k].map_data)
  BY <1>3, SequenceIs DEF BlockOK
<1> HIDE DEF b
<1>5. Indexed(each, Len(b)) /\ \A k \in 1..Len(b) : each[k] = TemplateJobs(b[k], k)
  BY <1>4 DEF Indexed
<1> HIDE DEF each
<1>6. l \in Nat /\ l + 1 \in Nat
  BY <1>2
<1> HIDE DEF l
<1>7. \A k \in 1..Len(b) : Runs(each[k], Left(l + 1), Left(l + 1))
  BY <1>4, <1>5, <1>6, TemplateRuns
<1>8. Runs(FlattenSeq(each), Left(l + 1), Left(l + 1))
  BY <1>4, <1>5, <1>6, <1>7, EachRuns
<1>9. Runs(calls, Left(l), Left(l))
  <2> HIDE DEF word
  <2> QED
    BY <1>6, <1>8, NestRuns, Tuples
<1> HIDE DEF calls
<1>10. Left(l) \in State
  BY <1>6, LeftIs
<1> QED
  BY <1>1, <1>2, <1>9, <1>10, ThenKeeps DEF l

LEMMA ThingRuns ==
    ASSUME NEW t, ThingOK(t)
    PROVE  Runs(DumpThing(t), Left(0), Left(0))
<1>1. CASE t.kind = "class"
  BY <1>1, ClassLeft DEF DumpThing, ThingOK
<1>2. CASE t.kind # "class"
  <2> DEFINE c == [op |-> "templates", block |-> t.block]
  <2>1. c.op = "templates" /\ BlockOK(c.block)
    BY <1>2 DEF ThingOK
  <2>2. DumpThing(t) = <<c>>
    BY <1>2 DEF DumpThing
  <2> HIDE DEF c
  <2>3. Left(0) \in State /\ Left(0).mode = "any" /\ Left(0) = At(Left(0).level, "any")
    BY LeftIs DEF Left
  <2>4. Goes(c, Left(0), Left(0))
    BY <2>1, <2>3 DEF Goes
  <2> QED
    BY <2>2, <2>3, <2>4, RunsOne
<1> QED
  BY <1>1, <1>2

LEMMA InitHolds ==
    ASSUME DumpInit
    PROVE  TextInv
<1>1. PICK d \in Dumps : jobs = FlattenSeq([k \in DOMAIN d.things |-> DumpThing(d.things[k])])
  BY DEF DumpInit
<1> DEFINE t == d.things
           each == [k \in DOMAIN t |-> DumpThing(t[k])]
<1>2. IsSequence(t) /\ \A k \in DOMAIN t : ThingOK(t[k])
  BY DumpsAssumption
<1>3. DOMAIN t = 1..Len(t) /\ Len(t) \in Nat
  BY <1>2, SequenceIs
<1> HIDE DEF t
<1>4. Indexed(each, Len(t)) /\ \A k \in 1..Len(t) : each[k] = DumpThing(t[k])
  BY <1>3 DEF Indexed
<1>5. jobs = FlattenSeq(each)
  BY <1>1 DEF t
<1> HIDE DEF each
<1>6. \A k \in 1..Len(t) : Runs(each[k], Left(0), Left(0))
  BY <1>2, <1>3, <1>4, ThingRuns
<1>7. Runs(jobs, Left(0), Left(0))
  BY <1>3, <1>4, <1>5, <1>6, EachRuns
<1>8. Left(0) \in State /\ Left(0).level = 0 /\ Left(0).mode = "any"
  BY LeftIs
<1>9. text = <<>> /\ pending_nl = TRUE /\ indent_lvl = 0 /\ err = "none"
  BY DEF DumpInit
<1>10. Meets(Left(0))
  BY <1>8, <1>9 DEF Meets
<1>11. LinesOK(text) /\ InSteps(text)
  <2>1. text \in Seq(Lines({})) /\ Len(text) = 0
    BY <1>9
  <2> QED
    BY <2>1 DEF LinesOK, InSteps
<1> QED
  BY <1>7, <1>8, <1>9, <1>10, <1>11 DEF TextInv, Going

LEMMA NextKeeps ==
    ASSUME TextInv, [DumpNext]_dump_vars
    PROVE  TextInv'
<1>1. CASE UNCHANGED dump_vars
  <2>1. UNCHANGED <<jobs, text, pending_nl, indent_lvl, err>>
    BY <1>1 DEF dump_vars
  <2>2. Going => Going'
    BY <2>1 DEF Going, Meets
  <2> QED
    BY <2>1, <2>2 DEF TextInv
<1> QED
  BY <1>1, SayKeeps, IndentKeeps, FieldsKeeps, FieldKeeps, ValueKeeps, VectorKeeps, OutputKeeps,
     VariantKeeps, ActivityKeeps, TemplatesKeeps DEF DumpNext

\* The line that a line to the right is under is the last one before it that is not as
\* far to the right.
LEMMA StepsNest ==
    ASSUME NEW t, LinesOK(t), InSteps(t), NEW k \in DOMAIN t, t[k].indent > 0
    PROVE  \E v \in 1..(k - 1) :
              /\ t[v].indent + 1 = t[k].indent
              /\ \A q \in (v + 1)..(k - 1) : t[q].indent >= t[k].indent
<1> DEFINE n == Len(t)
           S == {x \in Nat : x < k /\ k - x \in 1..(k - 1) /\ t[k - x].indent < t[k].indent}
<1>1. PICK W : t \in Seq(Lines(W))
  BY DEF LinesOK
<1>2. DOMAIN t = 1..n /\ n \in Nat
  BY <1>1, LenProperties
<1>3. \A q \in 1..n : t[q].indent \in Nat
  <2>1. \A q \in 1..n : t[q] \in Lines(W)
    BY <1>1, ElementOfSeq, LenProperties
  <2> QED
    BY <2>1 DEF Lines
<1>4. \A q \in 1..n : t[q].indent <= IF q = 1 THEN 0 ELSE t[q - 1].indent + 1
  BY DEF InSteps
<1>5. k \in 1..n /\ k \in Nat
  BY <1>2
<1> HIDE DEF n
<1>6. k # 1 /\ 1 \in 1..(k - 1) /\ 1 \in 1..n
  <2>1. k # 1
    BY <1>3, <1>4, <1>5
  <2> QED
    BY <1>2, <1>5, <2>1
<1>7. t[1].indent = 0
  BY <1>3, <1>4, <1>6
<1>8. k - 1 \in S
  BY <1>3, <1>5, <1>6, <1>7
<1>9. S \in SUBSET Nat
  OBVIOUS
<1>10. PICK x \in S : \A y \in S : x <= y
  <2> HIDE DEF S
  <2> QED
    BY <1>8, <1>9, LeastOf
<1> DEFINE v == k - x
<1>11. x \in Nat /\ v \in 1..(k - 1) /\ t[v].indent < t[k].indent
  OBVIOUS
<1>12. ASSUME NEW q \in (v + 1)..(k - 1) PROVE t[q].indent >= t[k].indent
  <2>1. k - q \in Nat /\ k - q < x /\ k - q < k /\ k - (k - q) = q /\ q \in 1..(k - 1) /\ q \in 1..n
    BY <1>2, <1>5, <1>11
  <2>2. k - q \notin S
    <3> HIDE DEF S
    <3> QED
      BY <1>10, <1>11, <2>1
  <2>3. ~(t[q].indent < t[k].indent)
    BY <2>1, <2>2
  <2> QED
    BY <1>3, <1>5, <2>1, <2>3
<1>13. v + 1 \in 1..n /\ v + 1 # 1 /\ (v + 1) - 1 = v /\ v \in 1..n /\ (v + 1 = k \/ v + 1 \in (v + 1)..(k - 1))
  BY <1>2, <1>5, <1>11
<1> HIDE DEF v, S
<1>14. t[v + 1].indent >= t[k].indent
  <2>1. CASE v + 1 = k
    BY <1>3, <1>5, <2>1
  <2>2. CASE v + 1 \in (v + 1)..(k - 1)
    BY <1>12, <2>2
  <2> QED
    BY <1>13, <2>1, <2>2
<1>15. t[v + 1].indent <= t[v].indent + 1
  BY <1>4, <1>13
<1>16. t[v].indent + 1 = t[k].indent
  BY <1>3, <1>5, <1>11, <1>13, <1>14, <1>15
<1> QED
  BY <1>11, <1>12, <1>16

LEMMA InvNests ==
    ASSUME TextInv
    PROVE  LinesNest
<1>1. ASSUME NEW k \in DOMAIN text, text[k].indent > 0
      PROVE  \E q \in 1..(k - 1) :
                /\ text[q].indent + 1 = text[k].indent
                /\ \A x \in (q + 1)..(k - 1) : text[x].indent >= text[k].indent
  BY <1>1, StepsNest DEF TextInv
<1>2. ASSUME jobs = <<>>, err = "none" PROVE indent_lvl = 0
  <2>1. PICK a \in State : Meets(a) /\ Runs(<<>>, a, Left(0))
    BY <1>2 DEF TextInv, Going
  <2>2. a = Left(0)
    BY <2>1, RunsEnd
  <2> QED
    BY <2>1, <2>2, LeftIs DEF Meets
<1> QED
  BY <1>1, <1>2 DEF LinesNest

\* A line of the dump that is to the right is under a line one level less to the right,
\* whatever is dumped and wherever a write fails, and a dump that is done has gone back
\* to the left (ch_dump_fields.c, ch_dump_cr_*.c, ch_dump_block_templates.c).
THEOREM DumpNests == DumpSpec => []LinesNest
<1>1. DumpInit => TextInv
  BY InitHolds
<1>2. TextInv /\ [DumpNext]_dump_vars => TextInv'
  BY NextKeeps
<1>3. TextInv => LinesNest
  BY InvNests
<1> QED
  BY <1>1, <1>2, <1>3, PTL DEF DumpSpec
=============================================================================
