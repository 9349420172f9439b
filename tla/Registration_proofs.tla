------------------------ MODULE Registration_proofs ------------------------
(***************************************************************************)
(* Proofs about HashMap, whoever uses it: for every table, every hash and  *)
(* every growth; and about Registration, for every collection and every    *)
(* hash: what it does with the hashmap, what the hashmap is for it, and    *)
(* that every field is given its functions.                                *)
(***************************************************************************)
EXTENDS Registration, FiniteSetTheorems, WellFoundedInduction, TLAPS

\* In a ring of n buckets: the bucket d before p, which is also how far it is
\* from bucket d to p.
Back(n, p, d) == (p - d) % n

\* The next bucket.
Fwd(n, p) == (p + 1) % n

LEMMA Modulo ==
    ASSUME NEW n \in Nat \ {0}
    PROVE  /\ \A x \in 0..(n - 1) : x % n = x
           /\ \A x \in Int : -n <= x /\ x < 0 => x % n = x + n
           /\ n % n = 0
           /\ \A x \in Nat : x % n \in 0..(n - 1)
OBVIOUS

LEMMA BackIs ==
    ASSUME NEW n \in Nat \ {0}, NEW p \in 0..(n - 1), NEW d \in 0..(n - 1)
    PROVE  /\ Back(n, p, d) = IF d <= p THEN p - d ELSE p - d + n
           /\ Back(n, p, d) \in 0..(n - 1)
<1>1. CASE d <= p
  <2>1. p - d \in 0..(n - 1)
    BY <1>1
  <2> QED
    BY <1>1, <2>1, Modulo DEF Back
<1>2. CASE ~(d <= p)
  <2>1. p - d \in Int /\ -n <= p - d /\ p - d < 0
    BY <1>2
  <2>2. (p - d) % n = p - d + n
    BY <2>1, Modulo
  <2> QED
    BY <1>2, <2>2 DEF Back
<1> QED
  BY <1>1, <1>2

LEMMA FwdIs ==
    ASSUME NEW n \in Nat \ {0}, NEW p \in 0..(n - 1)
    PROVE  /\ Fwd(n, p) = IF p + 1 = n THEN 0 ELSE p + 1
           /\ Fwd(n, p) \in 0..(n - 1)
<1>1. CASE p + 1 = n
  BY <1>1, Modulo DEF Fwd
<1>2. CASE p + 1 # n
  <2>1. p + 1 \in 0..(n - 1)
    BY <1>2
  <2> QED
    BY <1>2, <2>1, Modulo DEF Fwd
<1> QED
  BY <1>1, <1>2

\* How far from bucket to bucket, and back.
LEMMA BackAgain ==
    ASSUME NEW n \in Nat \ {0}, NEW p \in 0..(n - 1), NEW q \in 0..(n - 1)
    PROVE  /\ Back(n, p, Back(n, p, q)) = q
           /\ Back(n, p, q) = 0 <=> p = q
<1>1. /\ Back(n, p, q) \in 0..(n - 1)
      /\ Back(n, p, q) = IF q <= p THEN p - q ELSE p - q + n
  BY BackIs
<1> DEFINE d == Back(n, p, q)
<1> HIDE DEF d
<1>2. Back(n, p, d) = IF d <= p THEN p - d ELSE p - d + n
  BY <1>1, BackIs DEF d
<1> QED
  BY <1>1, <1>2 DEF d

LEMMA BackNext ==
    ASSUME NEW n \in Nat \ {0}, NEW p \in 0..(n - 1), NEW d \in 1..(n - 1)
    PROVE  Back(n, Fwd(n, p), d) = Back(n, p, d - 1)
<1>1. d - 1 \in 0..(n - 1) /\ d \in 0..(n - 1)
  OBVIOUS
<1> DEFINE f == Fwd(n, p)
<1>2. f \in 0..(n - 1) /\ f = IF p + 1 = n THEN 0 ELSE p + 1
  BY FwdIs
<1> HIDE DEF f
<1>3. Back(n, f, d) = IF d <= f THEN f - d ELSE f - d + n
  BY <1>1, <1>2, BackIs
<1>4. Back(n, p, d - 1) = IF d - 1 <= p THEN p - (d - 1) ELSE p - (d - 1) + n
  BY <1>1, BackIs
<1>5. Back(n, f, d) = Back(n, p, d - 1)
  BY <1>1, <1>2, <1>3, <1>4
<1> QED
  BY <1>5 DEF f

\* One bucket farther, unless that is all the way round.
LEMMA Farther ==
    ASSUME NEW n \in Nat \ {0}, NEW p \in 0..(n - 1), NEW h \in 0..(n - 1),
           Back(n, p, h) + 1 < n
    PROVE  Back(n, Fwd(n, p), h) = Back(n, p, h) + 1
<1> DEFINE f == Fwd(n, p)
<1>1. f \in 0..(n - 1) /\ f = IF p + 1 = n THEN 0 ELSE p + 1
  BY FwdIs
<1> HIDE DEF f
<1>2. Back(n, f, h) = IF h <= f THEN f - h ELSE f - h + n
  BY <1>1, BackIs
<1>3. Back(n, p, h) = IF h <= p THEN p - h ELSE p - h + n
  BY BackIs
<1>4. Back(n, f, h) = Back(n, p, h) + 1
  BY <1>1, <1>2, <1>3
<1> QED
  BY <1>4 DEF f

\* Of two buckets as seen from h, the one that is farther is that much farther.
LEMMA Between ==
    ASSUME NEW n \in Nat \ {0}, NEW h \in 0..(n - 1), NEW p \in 0..(n - 1),
           NEW q \in 0..(n - 1), Back(n, p, h) <= Back(n, q, h)
    PROVE  Back(n, q, p) = Back(n, q, h) - Back(n, p, h)
<1>1. Back(n, p, h) = IF h <= p THEN p - h ELSE p - h + n
  BY BackIs
<1>2. Back(n, q, h) = IF h <= q THEN q - h ELSE q - h + n
  BY BackIs
<1>3. Back(n, q, p) = IF p <= q THEN q - p ELSE q - p + n
  BY BackIs
<1> QED
  BY <1>1, <1>2, <1>3
-----------------------------------------------------------------------------
(* A table b of n buckets, with the hashes H *)

Full == [dib : Nat \ {0}, item : Item]
Cell  == Full \cup {Free}
Table(n) == [0..(n - 1) -> Cell]

\* Full e, whose home is h, may be in bucket p of b: it knows how far it is from
\* home, and those in between are as far from theirs or farther.
MayBe(n, b, p, e, h) ==
    /\ e.dib = 1 + Back(n, p, h)
    /\ \A d \in 1..(e.dib - 1) : b[Back(n, p, d)].dib >= e.dib - d

InOrder(n, b, H) ==
    \A p \in 0..(n - 1) : b[p] # Free => MayBe(n, b, p, b[p], H[b[p].item.key] % n)

Taken(b) == {p \in DOMAIN b : b[p].dib # 0}

LEMMA CellFacts ==
    ASSUME NEW c \in Cell
    PROVE  /\ c.dib \in Nat
           /\ c = Free <=> c.dib = 0
           /\ c # Free => c \in Full /\ c.item \in Item /\ c.item.key \in Key
BY DEF Cell, Full, Free, Item

LEMMA TakenFacts ==
    ASSUME NEW n \in Nat, NEW b \in Table(n)
    PROVE  /\ IsFiniteSet(Taken(b)) /\ Cardinality(Taken(b)) \in Nat
           /\ Taken(b) \subseteq 0..(n - 1)
           /\ \A p \in 0..(n - 1) : p \in Taken(b) <=> b[p] # Free
           /\ Cardinality(Taken(b)) < n => \E p \in 0..(n - 1) : b[p] = Free
<1>1. DOMAIN b = 0..(n - 1) /\ \A p \in 0..(n - 1) : b[p] \in Cell
  BY DEF Table
<1>2. Taken(b) \in SUBSET (0..(n - 1))
  BY <1>1 DEF Taken
<1>3. IsFiniteSet(0..(n - 1)) /\ Cardinality(0..(n - 1)) = n
  BY FS_Interval
<1>4. IsFiniteSet(Taken(b)) /\ Cardinality(Taken(b)) \in Nat
  BY <1>2, <1>3, FS_Subset, FS_CardinalityType
<1>5. \A p \in 0..(n - 1) : p \in Taken(b) <=> b[p] # Free
  BY <1>1, CellFacts DEF Taken
<1>6. ASSUME Cardinality(Taken(b)) < n
      PROVE  \E p \in 0..(n - 1) : b[p] = Free
  <2>1. Taken(b) # 0..(n - 1)
    BY <1>3, <1>4, <1>6
  <2> QED
    BY <1>2, <1>5, <2>1
<1> QED
  BY <1>2, <1>4, <1>5, <1>6

\* An entry that is put into a bucket.
LEMMA PutFacts ==
    ASSUME NEW n \in Nat, NEW b \in Table(n), NEW p \in 0..(n - 1), NEW e \in Full,
           NEW c, c = [b EXCEPT ![p] = e]
    PROVE  c \in Table(n) /\ c[p] = e /\ \A q \in 0..(n - 1) : q # p => c[q] = b[q]
BY DEF Table, Cell

LEMMA TakenAfter ==
    ASSUME NEW n \in Nat, NEW b \in Table(n), NEW p \in 0..(n - 1), NEW e \in Full,
           NEW c \in Table(n), c[p] = e, \A q \in 0..(n - 1) : q # p => c[q] = b[q]
    PROVE  /\ b[p] = Free => Cardinality(Taken(c)) = Cardinality(Taken(b)) + 1
           /\ b[p] # Free => Taken(c) = Taken(b)
<1>1. e # Free
  BY DEF Full, Free
<1>2. Taken(c) = Taken(b) \cup {p}
  <2>1. Taken(b) \subseteq 0..(n - 1) /\ \A q \in 0..(n - 1) : q \in Taken(b) <=> b[q] # Free
    BY TakenFacts
  <2>2. Taken(c) \subseteq 0..(n - 1) /\ \A q \in 0..(n - 1) : q \in Taken(c) <=> c[q] # Free
    BY TakenFacts
  <2> QED
    BY <1>1, <2>1, <2>2
<1>3. ASSUME b[p] = Free PROVE Cardinality(Taken(c)) = Cardinality(Taken(b)) + 1
  <2>1. p \notin Taken(b) /\ IsFiniteSet(Taken(b))
    BY <1>3, TakenFacts
  <2> QED
    BY <1>2, <2>1, FS_AddElement
<1>4. ASSUME b[p] # Free PROVE Taken(c) = Taken(b)
  <2>1. p \in Taken(b)
    BY <1>4, TakenFacts
  <2> QED
    BY <1>2, <2>1
<1> QED
  BY <1>3, <1>4

\* Whoever may be in bucket p but leaves it to who is not nearer to home may be in
\* the next one: the round does not lead back home, as a bucket is free.
LEMMA MayGoOn ==
    ASSUME NEW n \in Nat \ {0}, NEW b \in Table(n), NEW p \in 0..(n - 1),
           NEW e \in Full, NEW h \in 0..(n - 1), MayBe(n, b, p, e, h),
           b[p].dib >= e.dib, NEW z \in 0..(n - 1), b[z] = Free,
           NEW g, g = [e EXCEPT !.dib = @ + 1]
    PROVE  /\ g \in Full /\ g.item = e.item /\ g.dib = e.dib + 1 /\ e.dib < n
           /\ MayBe(n, b, Fwd(n, p), g, h)
<1>1. e.dib \in Nat \ {0} /\ g \in Full /\ g.item = e.item /\ g.dib = e.dib + 1
  BY DEF Full
<1>2. /\ e.dib = 1 + Back(n, p, h) /\ Back(n, p, h) \in 0..(n - 1)
      /\ \A d \in 1..(e.dib - 1) : b[Back(n, p, d)].dib >= e.dib - d
  BY BackIs DEF MayBe
<1>3. \A q \in 0..(n - 1) : b[q] \in Cell
  BY DEF Table
<1>4. e.dib # n
  <2> SUFFICES ASSUME e.dib = n PROVE FALSE
    OBVIOUS
  <2> DEFINE d == Back(n, p, z)
  <2>1. d \in 0..(n - 1)
    BY BackIs
  <2>2. d \in 0..(n - 1) /\ Back(n, p, d) = z /\ (d = 0 <=> p = z)
    BY <2>1, BackAgain
  <2> HIDE DEF d
  <2>3. b[z].dib = 0
    BY DEF Free
  <2>4. CASE d = 0
    BY <1>1, <2>2, <2>3, <2>4
  <2>5. CASE d # 0
    <3>1. d \in 1..(e.dib - 1)
      BY <2>2, <2>5
    <3> QED
      BY <1>1, <1>2, <2>2, <2>3, <3>1
  <2> QED
    BY <2>4, <2>5
<1>5. e.dib < n
  <2> DEFINE d == Back(n, p, h)
  <2>1. d \in 0..(n - 1) /\ e.dib = 1 + d
    BY <1>2
  <2> HIDE DEF d
  <2> QED
    BY <1>4, <2>1
<1>6. g.dib = 1 + Back(n, Fwd(n, p), h)
  BY <1>1, <1>2, <1>5, Farther
<1>7. ASSUME NEW d \in 1..(g.dib - 1)
      PROVE  b[Back(n, Fwd(n, p), d)].dib >= g.dib - d
  <2>1. d \in 1..(n - 1) /\ d - 1 \in 0..(n - 1)
    BY <1>1, <1>5
  <2>2. Back(n, Fwd(n, p), d) = Back(n, p, d - 1) /\ Back(n, p, d - 1) \in 0..(n - 1)
    BY <2>1, BackNext, BackIs
  <2>3. b[p].dib \in Nat /\ b[Back(n, p, d - 1)].dib \in Nat
    BY <1>3, <2>2, CellFacts
  <2>4. CASE d = 1
    <3>1. Back(n, p, d - 1) = p
      BY <2>1, <2>4, BackIs
    <3> QED
      BY <1>1, <2>2, <2>3, <2>4, <3>1
  <2>5. CASE d # 1
    <3>1. d - 1 \in 1..(e.dib - 1)
      BY <1>1, <2>5
    <3>2. b[Back(n, p, d - 1)].dib >= e.dib - (d - 1)
      BY <1>2, <3>1
    <3> QED
      BY <1>1, <2>2, <2>3, <3>2
  <2> QED
    BY <2>4, <2>5
<1> QED
  BY <1>1, <1>5, <1>6, <1>7 DEF MayBe

\* Putting an entry where it may be, before who is nearer to home, keeps the order;
\* who was there may still be there.
LEMMA PutInOrder ==
    ASSUME NEW n \in Nat \ {0}, NEW b \in Table(n), NEW p \in 0..(n - 1),
           NEW e \in Full, NEW H \in [Key -> Nat], InOrder(n, b, H),
           MayBe(n, b, p, e, H[e.item.key] % n), b[p].dib < e.dib,
           NEW c, c = [b EXCEPT ![p] = e]
    PROVE  /\ InOrder(n, c, H)
           /\ \A q \in 0..(n - 1) : b[q].dib <= c[q].dib
           /\ b[p] # Free => MayBe(n, c, p, b[p], H[b[p].item.key] % n)
<1>1. /\ c \in Table(n) /\ c[p] = e
      /\ \A q \in 0..(n - 1) : q # p => c[q] = b[q]
  BY DEF Table, Cell
<1>2. \A q \in 0..(n - 1) : b[q].dib \in Nat /\ c[q].dib \in Nat
  <2>1. \A q \in 0..(n - 1) : b[q] \in Cell /\ c[q] \in Cell
    BY <1>1 DEF Table
  <2> QED
    BY <2>1, CellFacts
<1>3. \A q \in 0..(n - 1) : b[q].dib <= c[q].dib
  BY <1>1, <1>2
<1>4. ASSUME NEW q \in 0..(n - 1), NEW f \in Full, NEW h \in 0..(n - 1),
             MayBe(n, b, q, f, h)
      PROVE  MayBe(n, c, q, f, h)
  <2>1. f.dib \in Nat \ {0} /\ f.dib <= n
    <3>1. Back(n, q, h) \in 0..(n - 1) /\ f.dib = 1 + Back(n, q, h)
      BY <1>4, BackIs DEF MayBe
    <3> QED
      BY <3>1 DEF Full
  <2>2. ASSUME NEW d \in 1..(f.dib - 1) PROVE c[Back(n, q, d)].dib >= f.dib - d
    <3>1. d \in 0..(n - 1)
      BY <2>1
    <3>2. Back(n, q, d) \in 0..(n - 1)
      BY <3>1, BackIs
    <3>3. b[Back(n, q, d)].dib >= f.dib - d
      BY <1>4, <2>2 DEF MayBe
    <3> QED
      BY <1>2, <1>3, <2>1, <3>1, <3>2, <3>3
  <2> QED
    BY <1>4, <2>2 DEF MayBe
<1>5. \A f \in Full : H[f.item.key] % n \in 0..(n - 1)
  <2>1. \A f \in Full : H[f.item.key] \in Nat
    BY DEF Full, Item
  <2> QED
    BY <2>1, Modulo
<1>6. ASSUME NEW q \in 0..(n - 1), b[q] # Free
      PROVE  b[q] \in Full /\ MayBe(n, c, q, b[q], H[b[q].item.key] % n)
  <2>1. b[q] \in Full
    BY <1>6, CellFacts DEF Table
  <2>2. MayBe(n, b, q, b[q], H[b[q].item.key] % n)
    BY <1>6 DEF InOrder
  <2> QED
    BY <1>4, <1>5, <2>1, <2>2
<1>7. MayBe(n, c, p, e, H[e.item.key] % n)
  BY <1>4, <1>5
<1>8. InOrder(n, c, H)
  <2> SUFFICES ASSUME NEW q \in 0..(n - 1), c[q] # Free
               PROVE  MayBe(n, c, q, c[q], H[c[q].item.key] % n)
    BY DEF InOrder
  <2>1. CASE q = p
    BY <1>1, <1>7, <2>1
  <2>2. CASE q # p
    <3>1. c[q] = b[q] /\ b[q] # Free
      BY <1>1, <2>2
    <3> QED
      BY <1>6, <3>1
  <2> QED
    BY <2>1, <2>2
<1> QED
  BY <1>3, <1>6, <1>8
-----------------------------------------------------------------------------
(* The map, whoever uses it *)

\* The old buckets that a resize has still to move.
Rest == {p \in DOMAIN old.buckets : p >= old.next /\ old.buckets[p].dib # 0}

InHand == IF hand = Free THEN 0 ELSE 1

MapTypes ==
    /\ hash \in [Key -> Nat]
    /\ nbuckets \in Nat \ {0} /\ buckets \in Table(nbuckets)
    /\ count \in Nat /\ hand \in Cell
    /\ call.op \in {"none", "get", "set", "resize"}
    /\ call.op # "none" => call.item.key \in Key
    /\ call.op \in {"set", "resize"} => call.item \in Item

\* What is in hand may be where the loop is.
HandInv ==
    /\ hand # Free =>
          /\ at \in 0..(nbuckets - 1)
          /\ MayBe(nbuckets, buckets, at, hand, hash[hand.item.key] % nbuckets)
    /\ call.op = "get" => at \in 0..(nbuckets - 1)

\* Nothing is lost while the table grows, and there is room for what is on its way.
CountInv ==
    /\ call.op # "resize" => old = NoOld /\ count = Cardinality(Taken(buckets))
    /\ call.op \in {"none", "get"} => hand = Free /\ count < nbuckets
    /\ call.op = "set" => hand # Free
    /\ call.op \in {"set", "resize"} => count + 1 < nbuckets
    /\ call.op = "resize" =>
          /\ \E m \in Nat : /\ old \in [next : 0..m, buckets : Table(m)]
                            /\ Cardinality(DOMAIN old.buckets) = m
          /\ IsFiniteSet(Rest)
          /\ Cardinality(Taken(buckets)) + Cardinality(Rest) + InHand = count

MapInv == MapTypes /\ HandInv /\ CountInv /\ InOrder(nbuckets, buckets, hash)

LEMMA NumBuckets ==
    ASSUME NEW n \in Nat, NEW b \in Table(n)
    PROVE  DOMAIN b = 0..(n - 1) /\ Cardinality(DOMAIN b) = n
<1>1. DOMAIN b = 0..(n - 1)
  BY DEF Table
<1> QED
  BY <1>1, FS_Interval

LEMMA EmptyTable ==
    ASSUME NEW n \in Nat
    PROVE  /\ Buckets(n) \in Table(n) /\ Cardinality(DOMAIN Buckets(n)) = n
           /\ Taken(Buckets(n)) = {}
           /\ \A H : InOrder(n, Buckets(n), H)
           /\ \A p \in 0..(n - 1) : Buckets(n)[p] = Free
<1>1. /\ Buckets(n) \in Table(n) /\ DOMAIN Buckets(n) = 0..(n - 1)
      /\ \A p \in 0..(n - 1) : Buckets(n)[p] = Free
  BY DEF Buckets, Table, Cell
<1>2. Cardinality(DOMAIN Buckets(n)) = n
  BY <1>1, NumBuckets
<1>3. Taken(Buckets(n)) = {}
  BY <1>1 DEF Taken, Free
<1>4. \A H : InOrder(n, Buckets(n), H)
  BY <1>1 DEF InOrder
<1> QED
  BY <1>1, <1>2, <1>3, <1>4

LEMMA InitMap ==
    ASSUME NEW Hs, Hs \subseteq [Key -> Nat], MapInit(Hs)
    PROVE  MapInv
<1>1. /\ hash \in [Key -> Nat] /\ buckets = Buckets(Cap) /\ count = 0 /\ old = NoOld
      /\ hand = Free /\ call.op = "none"
  BY DEF MapInit, NoCall
<1>2. Cap \in Nat \ {0}
  BY CapAssumption
<1>3. nbuckets = Cap /\ buckets \in Table(Cap)
  BY <1>1, <1>2, EmptyTable DEF nbuckets
<1>4. Cardinality(Taken(buckets)) = 0
  BY <1>1, <1>2, EmptyTable, FS_EmptySet
<1>5. MapTypes
  BY <1>1, <1>2, <1>3 DEF MapTypes, Cell
<1>6. HandInv
  BY <1>1 DEF HandInv
<1>7. CountInv
  BY <1>1, <1>2, <1>3, <1>4 DEF CountInv
<1>8. InOrder(nbuckets, buckets, hash)
  BY <1>1, <1>2, <1>3, EmptyTable
<1> QED
  BY <1>5, <1>6, <1>7, <1>8 DEF MapInv

\* A call begins at the home of its key.
LEMMA AtHome ==
    ASSUME NEW n \in Nat \ {0}, NEW H \in [Key -> Nat], NEW key \in Key
    PROVE  /\ H[key] % n \in 0..(n - 1)
           /\ \A b, e : e.dib = 1 => MayBe(n, b, H[key] % n, e, H[key] % n)
<1>1. H[key] % n \in 0..(n - 1)
  BY Modulo
<1> DEFINE h == H[key] % n
<1>2. Back(n, h, h) = 0
  <2> HIDE DEF h
  <2>1. Back(n, h, h) = h - h
    BY <1>1, BackIs DEF h
  <2> QED
    BY <1>1, <2>1 DEF h
<1> QED
  BY <1>1, <1>2 DEF MayBe

\* The load factor leaves two buckets free.
LEMMA LoadFactor ==
    ASSUME NEW n \in Nat \ {0}, NEW c \in Nat, ~(c >= (n * 60) \div 100)
    PROVE  c + 1 < n
OBVIOUS

\* A round that does not end the loop: who is in hand then may be in the next bucket.
LEMMA PassFacts ==
    ASSUME MapTypes, InOrder(nbuckets, buckets, hash), hand # Free,
           at \in 0..(nbuckets - 1),
           MayBe(nbuckets, buckets, at, hand, hash[hand.item.key] % nbuckets),
           buckets[at] # Free, Cardinality(Taken(buckets)) < nbuckets, Pass
    PROVE  /\ buckets' \in Table(nbuckets) /\ nbuckets' = nbuckets
           /\ Taken(buckets') = Taken(buckets)
           /\ InOrder(nbuckets, buckets', hash)
           /\ at' \in 0..(nbuckets - 1) /\ at' = Fwd(nbuckets, at) /\ hand' \in Full
           /\ MayBe(nbuckets, buckets', at', hand', hash[hand'.item.key] % nbuckets)
<1> DEFINE n == nbuckets
<1>1. /\ n \in Nat \ {0} /\ buckets \in Table(n) /\ hash \in [Key -> Nat]
      /\ at' = Fwd(n, at)
  BY DEF MapTypes, Pass, After, Fwd
<1>2. hand \in Full /\ buckets[at] \in Full
  BY <1>1, CellFacts DEF MapTypes, Table
<1>3. hand.item.key \in Key /\ buckets[at].item.key \in Key
  BY <1>2 DEF Full, Item
<1>4. /\ hash[hand.item.key] % n \in 0..(n - 1)
      /\ hash[buckets[at].item.key] % n \in 0..(n - 1)
  BY <1>1, <1>3, AtHome
<1>5. PICK z \in 0..(n - 1) : buckets[z] = Free
  BY <1>1, TakenFacts
<1>6. hand.dib \in Nat /\ buckets[at].dib \in Nat
  BY <1>2 DEF Full
<1>7. at' \in 0..(n - 1)
  BY <1>1, FwdIs
<1>8. CASE Displaced(buckets[at])
  <2> DEFINE c == [buckets EXCEPT ![at] = hand]
             g == [buckets[at] EXCEPT !.dib = @ + 1]
  <2>1. buckets' = c /\ hand' = g
    BY <1>8 DEF Pass
  <2>2. /\ c \in Table(n) /\ c[at] = hand
        /\ \A q \in 0..(n - 1) : q # at => c[q] = buckets[q]
    BY <1>1, <1>2, PutFacts
  <2>3. Taken(c) = Taken(buckets)
    <3> HIDE DEF c
    <3> QED
      BY <1>1, <1>2, <2>2, TakenAfter
  <2>4. /\ c \in Table(n) /\ c[at] = hand /\ Taken(c) = Taken(buckets)
        /\ \A q \in 0..(n - 1) : q # at => c[q] = buckets[q]
    BY <2>2, <2>3
  <2>5. /\ InOrder(n, c, hash)
        /\ MayBe(n, c, at, buckets[at], hash[buckets[at].item.key] % n)
    BY <1>1, <1>2, <1>8, PutInOrder DEF Displaced
  <2>6. c[z] = Free /\ c[at].dib >= buckets[at].dib
    BY <1>5, <1>6, <1>8, <2>4 DEF Displaced
  <2>7. g \in Full /\ g.item = buckets[at].item
        /\ MayBe(n, c, Fwd(n, at), g, hash[buckets[at].item.key] % n)
    <3> HIDE DEF c
    <3> QED
      BY <1>1, <1>2, <1>4, <2>4, <2>5, <2>6, MayGoOn
  <2>8. nbuckets' = n
    BY <1>1, <2>1, <2>4, NumBuckets DEF nbuckets
  <2> QED
    BY <1>1, <1>7, <2>1, <2>4, <2>5, <2>7, <2>8
<1>9. CASE ~Displaced(buckets[at])
  <2> DEFINE g == [hand EXCEPT !.dib = @ + 1]
  <2>1. buckets' = buckets /\ hand' = g
    BY <1>9 DEF Pass
  <2>2. buckets[at].dib >= hand.dib
    BY <1>6, <1>9 DEF Displaced
  <2>3. g \in Full /\ g.item = hand.item
        /\ MayBe(n, buckets, Fwd(n, at), g, hash[hand.item.key] % n)
    BY <1>1, <1>2, <1>4, <1>5, <2>2, MayGoOn
  <2>4. nbuckets' = n
    BY <2>1 DEF nbuckets
  <2> QED
    BY <1>1, <1>7, <2>1, <2>3, <2>4
<1> QED
  BY <1>8, <1>9

\* A round that finds a free bucket for who is in hand.
LEMMA PlaceFacts ==
    ASSUME MapTypes, InOrder(nbuckets, buckets, hash), hand # Free,
           at \in 0..(nbuckets - 1),
           MayBe(nbuckets, buckets, at, hand, hash[hand.item.key] % nbuckets),
           buckets[at].dib = 0, buckets' = [buckets EXCEPT ![at] = hand]
    PROVE  /\ buckets' \in Table(nbuckets) /\ nbuckets' = nbuckets
           /\ Cardinality(Taken(buckets')) = Cardinality(Taken(buckets)) + 1
           /\ InOrder(nbuckets, buckets', hash) /\ buckets[at] = Free
<1> DEFINE n == nbuckets
           c == [buckets EXCEPT ![at] = hand]
<1>1. n \in Nat \ {0} /\ buckets \in Table(n) /\ hash \in [Key -> Nat]
  BY DEF MapTypes
<1>2. hand \in Full /\ buckets[at] = Free /\ buckets[at].dib < hand.dib
  <2>1. hand \in Full /\ buckets[at] \in Cell
    BY <1>1, CellFacts DEF MapTypes, Table
  <2> QED
    BY <2>1, CellFacts DEF Full
<1>3. c \in Table(n) /\ Cardinality(Taken(c)) = Cardinality(Taken(buckets)) + 1
  <2>1. c \in Table(n) /\ c[at] = hand /\ \A q \in 0..(n - 1) : q # at => c[q] = buckets[q]
    BY <1>1, <1>2 DEF Table, Cell
  <2> HIDE DEF c
  <2> QED
    BY <1>1, <1>2, <2>1, TakenAfter
<1>4. InOrder(n, c, hash)
  BY <1>1, <1>2, PutInOrder
<1>5. nbuckets' = n
  BY <1>1, <1>3, NumBuckets DEF nbuckets
<1> QED
  BY <1>2, <1>3, <1>4, <1>5
-----------------------------------------------------------------------------
(* Every step of the map keeps it *)

\* What the lemmas below use of the invariant.
LEMMA MapFacts ==
    ASSUME MapInv
    PROVE  /\ hash \in [Key -> Nat] /\ nbuckets \in Nat \ {0} /\ buckets \in Table(nbuckets)
           /\ count \in Nat /\ hand \in Cell
           /\ InOrder(nbuckets, buckets, hash)
           /\ nbuckets = Cardinality(DOMAIN buckets)
BY DEF MapInv, MapTypes, nbuckets

LEMMA SetKeeps ==
    ASSUME MapInv, NEW item \in Item, Set(item)
    PROVE  MapInv'
<1>1. /\ hash' = hash /\ count' = count /\ call.op = "none" /\ hand = Free /\ old = NoOld
      /\ count < nbuckets /\ count = Cardinality(Taken(buckets))
  BY DEF Set, Idle, MapInv, CountInv
<1>2. item.key \in Key
  BY DEF Item
<1>3. CASE Return("oom", item.key, NoItem) /\ UNCHANGED <<buckets, old, hand, at>>
  <2>1. call'.op = "none" /\ nbuckets' = nbuckets
    BY <1>3 DEF Return, NoCall, nbuckets
  <2>2. MapTypes'
    BY <1>1, <1>3, <2>1 DEF MapInv, MapTypes
  <2>3. HandInv'
    BY <1>1, <1>3, <2>1 DEF HandInv
  <2>4. CountInv'
    BY <1>1, <1>3, <2>1 DEF CountInv
  <2> QED
    BY <1>1, <1>3, <2>1, <2>2, <2>3, <2>4 DEF MapInv
<1>4. CASE /\ old' = [next |-> 0, buckets |-> buckets]
           /\ buckets' = Buckets(2 * nbuckets)
           /\ call' = [op |-> "resize", item |-> item]
           /\ UNCHANGED <<hand, at, last>>
  <2> DEFINE n == nbuckets
  <2>1. n \in Nat \ {0} /\ buckets \in Table(n) /\ 2 * n \in Nat \ {0}
    BY MapFacts
  <2>2. nbuckets' = 2 * n /\ buckets' \in Table(2 * n) /\ Taken(buckets') = {}
    BY <1>4, <2>1, EmptyTable DEF nbuckets
  <2>3. Cardinality(Taken(buckets')) = 0
    BY <2>2, FS_EmptySet
  <2>4. old'.next = 0 /\ old'.buckets = buckets /\ DOMAIN buckets = 0..(n - 1)
    BY <1>4, <2>1, NumBuckets
  <2>5. Rest' = Taken(buckets)
    <3>1. \A p \in 0..(n - 1) : p >= 0
      BY <2>1
    <3> QED
      BY <2>4, <3>1 DEF Rest, Taken
  <2>6. IsFiniteSet(Taken(buckets)) /\ Cardinality(Taken(buckets)) \in Nat
    BY <2>1, TakenFacts
  <2>7. InHand' = 0 /\ hand' = Free
    BY <1>1, <1>4 DEF InHand
  <2>8. old' \in [next : 0..n, buckets : Table(n)] /\ Cardinality(DOMAIN old'.buckets) = n
    <3>1. 0 \in 0..n
      BY <2>1
    <3> QED
      BY <1>4, <2>1, <2>4, <3>1 DEF nbuckets
  <2>9. count + 1 < 2 * n
    BY <1>1, <2>1, <2>6
  <2>10. MapTypes'
    BY <1>1, <1>2, <1>4, <2>1, <2>2 DEF MapInv, MapTypes
  <2>11. HandInv'
    BY <1>4, <2>7 DEF HandInv
  <2>12. CountInv'
    <3>1. \E m \in Nat : /\ old' \in [next : 0..m, buckets : Table(m)]
                         /\ Cardinality(DOMAIN old'.buckets) = m
      BY <2>1, <2>8
    <3>2. Cardinality(Taken(buckets')) + Cardinality(Rest') + InHand' = count'
      BY <1>1, <2>3, <2>5, <2>6, <2>7
    <3> QED
      BY <1>1, <1>4, <2>2, <2>5, <2>6, <2>9, <3>1, <3>2 DEF CountInv
  <2>13. InOrder(nbuckets', buckets', hash')
    BY <1>4, <2>1, <2>2, EmptyTable
  <2> QED
    BY <2>10, <2>11, <2>12, <2>13 DEF MapInv
<1>5. CASE /\ count < growat
           /\ Start("set", item) /\ hand' = [dib |-> 1, item |-> item]
           /\ UNCHANGED <<buckets, old, last>>
  <2>1. /\ call'.op = "set" /\ call'.item = item /\ at' = hash[item.key] % nbuckets
        /\ nbuckets' = nbuckets /\ hand'.dib = 1 /\ hand'.item = item
    BY <1>5 DEF Start, Home, nbuckets
  <2>2. count + 1 < nbuckets
    BY <1>1, <1>5, MapFacts, LoadFactor DEF growat
  <2>3. hand' \in Full /\ hand' # Free
    BY <1>5 DEF Full, Free
  <2>4. MapTypes'
    BY <1>1, <1>2, <1>5, <2>1, <2>3 DEF MapInv, MapTypes, Cell
  <2>5. HandInv'
    BY <1>1, <1>2, <1>5, <2>1, MapFacts, AtHome DEF HandInv
  <2>6. CountInv'
    BY <1>1, <1>5, <2>1, <2>2, <2>3 DEF CountInv
  <2> QED
    BY <1>1, <1>5, <2>1, <2>4, <2>5, <2>6 DEF MapInv
<1>6. count < growat \/ count >= growat
  BY <1>1, MapFacts DEF growat
<1> QED
  BY <1>3, <1>4, <1>5, <1>6, MapFacts DEF Set, growat

\* What a resize has still to move, one bucket later.
LEMMA RestNext ==
    ASSUME NEW m \in Nat, old \in [next : 0..m, buckets : Table(m)], old.next # m,
           old' = [old EXCEPT !.next = @ + 1], IsFiniteSet(Rest)
    PROVE  /\ old.next \in 0..(m - 1) /\ old.buckets[old.next] \in Cell
           /\ old' \in [next : 0..m, buckets : Table(m)] /\ old'.buckets = old.buckets
           /\ IsFiniteSet(Rest')
           /\ old.buckets[old.next].dib = 0 => Rest' = Rest
           /\ old.buckets[old.next].dib # 0 =>
                 /\ Rest = Rest' \cup {old.next} /\ old.next \notin Rest'
                 /\ Cardinality(Rest) = Cardinality(Rest') + 1
<1> DEFINE k == old.next
           b == old.buckets
<1>1. /\ k \in 0..(m - 1) /\ b[k] \in Cell /\ DOMAIN b = 0..(m - 1)
      /\ old'.next = k + 1 /\ old'.buckets = b
      /\ old' \in [next : 0..m, buckets : Table(m)]
  BY DEF Table
<1>2. Rest = {p \in 0..(m - 1) : p >= k /\ b[p].dib # 0}
  BY <1>1 DEF Rest
<1>3. Rest' = {p \in 0..(m - 1) : p >= k + 1 /\ b[p].dib # 0}
  BY <1>1 DEF Rest
<1>4. k \notin Rest' /\ Rest' = Rest \ {k}
  <2> HIDE DEF b, k
  <2> QED
    BY <1>1, <1>2, <1>3
<1>5. IsFiniteSet(Rest')
  BY <1>4, FS_Subset
<1>6. ASSUME b[k].dib = 0 PROVE Rest' = Rest
  BY <1>2, <1>4, <1>6
<1>7. ASSUME b[k].dib # 0
      PROVE  /\ Rest = Rest' \cup {k} /\ k \notin Rest'
             /\ Cardinality(Rest) = Cardinality(Rest') + 1
  <2>1. k \in Rest
    <3> HIDE DEF b, k
    <3> QED
      BY <1>1, <1>2, <1>7
  <2>2. Rest = Rest' \cup {k}
    BY <1>4, <2>1
  <2> QED
    BY <1>4, <1>5, <2>2, FS_AddElement
<1> QED
  BY <1>1, <1>5, <1>6, <1>7

LEMMA ResizeNextKeeps ==
    ASSUME MapInv, ResizeNext
    PROVE  MapInv'
<1>1. /\ hash' = hash /\ buckets' = buckets /\ count' = count /\ nbuckets' = nbuckets
      /\ call.op = "resize" /\ hand = Free /\ call.item \in Item
      /\ count + 1 < nbuckets
      /\ IsFiniteSet(Rest) /\ Cardinality(Taken(buckets)) + Cardinality(Rest) + InHand = count
  BY DEF ResizeNext, nbuckets, MapInv, MapTypes, CountInv
<1>2. PICK m \in Nat : /\ old \in [next : 0..m, buckets : Table(m)]
                       /\ Cardinality(DOMAIN old.buckets) = m
  BY <1>1 DEF MapInv, CountInv
<1>3. InHand = 0 /\ Cardinality(Taken(buckets)) \in Nat /\ Cardinality(Rest) \in Nat
  BY <1>1, MapFacts, TakenFacts, FS_CardinalityType DEF InHand
<1>4. CASE old.next = m
  <2>1. /\ old' = NoOld /\ call' = [op |-> "set", item |-> call.item]
        /\ at' = hash[call.item.key] % nbuckets
        /\ hand' = [dib |-> 1, item |-> call.item]
    BY <1>2, <1>4 DEF ResizeNext, Start, Home
  <2>2. Rest = {}
    <3>1. DOMAIN old.buckets = 0..(m - 1)
      BY <1>2 DEF Table
    <3> QED
      BY <1>4, <3>1 DEF Rest
  <2>3. count = Cardinality(Taken(buckets))
    BY <1>1, <1>3, <2>2, FS_EmptySet
  <2>4. hand' \in Full /\ hand' # Free /\ hand'.dib = 1 /\ hand'.item = call.item
    BY <1>1, <2>1 DEF Full, Free
  <2>5. call.item.key \in Key
    BY <1>1 DEF Item
  <2>6. MapTypes'
    BY <1>1, <2>1, <2>4, <2>5 DEF MapInv, MapTypes, Cell
  <2>7. HandInv'
    BY <1>1, <2>1, <2>4, <2>5, MapFacts, AtHome DEF HandInv
  <2>8. CountInv'
    BY <1>1, <2>1, <2>3, <2>4 DEF CountInv
  <2> QED
    BY <1>1, <2>6, <2>7, <2>8 DEF MapInv
<1>5. CASE old.next # m
  <2> DEFINE entry == old.buckets[old.next]
  <2>1. /\ old' = [old EXCEPT !.next = @ + 1] /\ call' = call
        /\ IF entry.dib = 0 THEN UNCHANGED <<hand, at>>
           ELSE hand' = [entry EXCEPT !.dib = 1] /\ at' = Home(entry.item.key)
    BY <1>2, <1>5 DEF ResizeNext
  <2>2. /\ entry \in Cell /\ IsFiniteSet(Rest')
        /\ old' \in [next : 0..m, buckets : Table(m)] /\ old'.buckets = old.buckets
        /\ entry.dib = 0 => Rest' = Rest
        /\ entry.dib # 0 => Cardinality(Rest) = Cardinality(Rest') + 1
    BY <1>1, <1>2, <1>5, <2>1, RestNext
  <2> HIDE DEF entry
  <2>3. CASE entry.dib = 0
    <3>1. InHand' = 0 /\ hand' = Free
      BY <1>1, <2>1, <2>3 DEF InHand
    <3>2. MapTypes'
      BY <1>1, <2>1, <3>1 DEF MapInv, MapTypes, Cell
    <3>3. HandInv'
      BY <1>1, <2>1, <3>1 DEF HandInv
    <3>4. CountInv'
      <4>1. Cardinality(Taken(buckets')) + Cardinality(Rest') + InHand' = count'
        BY <1>1, <1>3, <2>2, <2>3, <3>1
      <4>2. \E k \in Nat : /\ old' \in [next : 0..k, buckets : Table(k)]
                           /\ Cardinality(DOMAIN old'.buckets) = k
        BY <1>2, <2>2
      <4> QED
        BY <1>1, <2>1, <2>2, <4>1, <4>2 DEF CountInv
    <3> QED
      BY <1>1, <3>2, <3>3, <3>4 DEF MapInv
  <2>4. CASE entry.dib # 0
    <3>1. entry \in Full /\ entry.item \in Item /\ entry.item.key \in Key
      BY <2>2, <2>4, CellFacts
    <3>2. /\ hand' \in Full /\ hand'.dib = 1 /\ hand'.item = entry.item
          /\ at' = hash[hand'.item.key] % nbuckets
      BY <2>1, <2>4, <3>1 DEF Full, Home
    <3>3. hand' # Free /\ InHand' = 1
      BY <3>2 DEF Free, InHand
    <3>4. MapTypes'
      BY <1>1, <2>1, <3>2 DEF MapInv, MapTypes, Cell
    <3>5. HandInv'
      BY <1>1, <2>1, <3>1, <3>2, MapFacts, AtHome DEF HandInv
    <3>6. CountInv'
      <4>1. Cardinality(Rest') \in Nat
        BY <2>2, FS_CardinalityType
      <4>2. Cardinality(Taken(buckets')) + Cardinality(Rest') + InHand' = count'
        BY <1>1, <1>3, <2>2, <2>4, <3>3, <4>1
      <4>3. \E k \in Nat : /\ old' \in [next : 0..k, buckets : Table(k)]
                           /\ Cardinality(DOMAIN old'.buckets) = k
        BY <1>2, <2>2
      <4> QED
        BY <1>1, <2>1, <2>2, <4>2, <4>3 DEF CountInv
    <3> QED
      BY <1>1, <3>4, <3>5, <3>6 DEF MapInv
  <2> QED
    BY <2>3, <2>4
<1> QED
  BY <1>4, <1>5

\* When a round of a loop begins, who is in hand may be where the loop is, and at
\* least one bucket is free.
LEMMA RoundFacts ==
    ASSUME MapInv, hand # Free
    PROVE  /\ MapTypes /\ InOrder(nbuckets, buckets, hash)
           /\ at \in 0..(nbuckets - 1) /\ buckets[at] \in Cell
           /\ MayBe(nbuckets, buckets, at, hand, hash[hand.item.key] % nbuckets)
           /\ call.op \in {"set", "resize"} /\ count + 1 < nbuckets
           /\ Cardinality(Taken(buckets)) \in Nat
           /\ Cardinality(Taken(buckets)) < nbuckets
<1>1. /\ MapTypes /\ InOrder(nbuckets, buckets, hash) /\ at \in 0..(nbuckets - 1)
      /\ MayBe(nbuckets, buckets, at, hand, hash[hand.item.key] % nbuckets)
  BY DEF MapInv, HandInv
<1>2. buckets[at] \in Cell
  BY <1>1, MapFacts DEF Table
<1>3. call.op \in {"set", "resize"} /\ count + 1 < nbuckets
  BY <1>1 DEF MapInv, MapTypes, CountInv
<1>4. Cardinality(Taken(buckets)) \in Nat /\ count \in Nat /\ nbuckets \in Nat
  BY MapFacts, TakenFacts
<1>5. ASSUME call.op = "set" PROVE Cardinality(Taken(buckets)) < nbuckets
  <2>1. count = Cardinality(Taken(buckets))
    BY <1>5 DEF MapInv, CountInv
  <2> QED
    BY <1>3, <1>4, <2>1
<1>6. ASSUME call.op = "resize" PROVE Cardinality(Taken(buckets)) < nbuckets
  <2>1. /\ IsFiniteSet(Rest)
        /\ Cardinality(Taken(buckets)) + Cardinality(Rest) + InHand = count
    BY <1>6 DEF MapInv, CountInv
  <2>2. Cardinality(Rest) \in Nat /\ InHand \in Nat
    BY <2>1, FS_CardinalityType DEF InHand
  <2> QED
    BY <1>3, <1>4, <2>1, <2>2
<1>7. Cardinality(Taken(buckets)) < nbuckets
  BY <1>3, <1>5, <1>6
<1> QED
  BY <1>1, <1>2, <1>3, <1>4, <1>7

LEMMA ResizePlaceKeeps ==
    ASSUME MapInv, ResizePlace
    PROVE  MapInv'
<1>1. /\ hash' = hash /\ count' = count /\ old' = old /\ call' = call
      /\ call.op = "resize" /\ hand # Free
  BY DEF ResizePlace
<1>2. /\ IsFiniteSet(Rest) /\ count + 1 < nbuckets
      /\ Cardinality(Taken(buckets)) + Cardinality(Rest) + InHand = count
      /\ \E m \in Nat : /\ old \in [next : 0..m, buckets : Table(m)]
                        /\ Cardinality(DOMAIN old.buckets) = m
  BY <1>1 DEF MapInv, CountInv
<1>3. InHand = 1 /\ Rest' = Rest /\ Cardinality(Rest) \in Nat
  BY <1>1, <1>2, FS_CardinalityType DEF InHand, Rest
<1>4. CASE buckets[at].dib = 0
  <2>1. buckets' = [buckets EXCEPT ![at] = hand] /\ hand' = Free
    BY <1>4 DEF ResizePlace
  <2>2. /\ buckets' \in Table(nbuckets) /\ nbuckets' = nbuckets
        /\ Cardinality(Taken(buckets')) = Cardinality(Taken(buckets)) + 1
        /\ InOrder(nbuckets, buckets', hash)
    BY <1>1, <1>4, <2>1, RoundFacts, PlaceFacts
  <2>3. MapTypes'
    BY <1>1, <2>1, <2>2 DEF MapInv, MapTypes, Cell
  <2>4. HandInv'
    BY <1>1, <2>1 DEF HandInv
  <2>5. CountInv'
    <3>1. Cardinality(Taken(buckets')) + Cardinality(Rest') + InHand' = count'
      <4>1. InHand' = 0
        BY <2>1 DEF InHand
      <4> QED
        BY <1>1, <1>2, <1>3, <2>2, <4>1, RoundFacts
    <3> QED
      BY <1>1, <1>2, <1>3, <2>2, <3>1 DEF CountInv
  <2> QED
    BY <1>1, <2>2, <2>3, <2>4, <2>5 DEF MapInv
<1>5. CASE buckets[at].dib # 0
  <2>1. Pass /\ buckets[at] # Free
    BY <1>1, <1>5 DEF ResizePlace, Free
  <2>2. /\ buckets' \in Table(nbuckets) /\ nbuckets' = nbuckets
        /\ Taken(buckets') = Taken(buckets)
        /\ InOrder(nbuckets, buckets', hash)
        /\ at' \in 0..(nbuckets - 1) /\ hand' \in Full
        /\ MayBe(nbuckets, buckets', at', hand', hash[hand'.item.key] % nbuckets)
    BY <1>1, <2>1, RoundFacts, PassFacts
  <2>3. hand' # Free /\ InHand' = 1
    BY <2>2 DEF Full, Free, InHand
  <2>4. MapTypes'
    BY <1>1, <2>2 DEF MapInv, MapTypes, Cell
  <2>5. HandInv'
    BY <1>1, <2>2 DEF HandInv
  <2>6. CountInv'
    BY <1>1, <1>2, <1>3, <2>2, <2>3 DEF CountInv
  <2> QED
    BY <1>1, <2>2, <2>4, <2>5, <2>6 DEF MapInv
<1> QED
  BY <1>4, <1>5

\* An item takes the place of one with the same key.
LEMMA ReplaceItem ==
    ASSUME NEW n \in Nat \ {0}, NEW b \in Table(n), NEW H \in [Key -> Nat],
           InOrder(n, b, H), NEW p \in 0..(n - 1), b[p] # Free, NEW item \in Item,
           item.key = b[p].item.key, NEW c \in Table(n),
           c[p] = [dib |-> b[p].dib, item |-> item], \A q \in 0..(n - 1) : q # p => c[q] = b[q]
    PROVE  /\ InOrder(n, c, H)
           /\ \A q \in 0..(n - 1) : c[q].dib = b[q].dib
<1>1. b[p] \in Full
  BY CellFacts DEF Table
<1>2. c[p].dib = b[p].dib /\ c[p].item = item
  OBVIOUS
<1>3. \A q \in 0..(n - 1) : c[q].dib = b[q].dib
  BY <1>2
<1>4. InOrder(n, c, H)
  <2> SUFFICES ASSUME NEW q \in 0..(n - 1), c[q] # Free
               PROVE  MayBe(n, c, q, c[q], H[c[q].item.key] % n)
    BY DEF InOrder
  <2>1. b[q] # Free /\ c[q].item.key = b[q].item.key /\ c[q].dib = b[q].dib
    BY <1>2
  <2>2. b[q] \in Full
    BY <2>1, CellFacts DEF Table
  <2> DEFINE h == H[b[q].item.key] % n
  <2>3. /\ b[q].dib = 1 + Back(n, q, h)
        /\ \A d \in 1..(b[q].dib - 1) : b[Back(n, q, d)].dib >= b[q].dib - d
    BY <2>1 DEF InOrder, MayBe
  <2>4. h \in 0..(n - 1)
    BY <2>2, AtHome DEF Full, Item
  <2> HIDE DEF h
  <2>5. Back(n, q, h) \in 0..(n - 1)
    BY <2>4, BackIs
  <2>6. ASSUME NEW d \in 1..(b[q].dib - 1)
        PROVE  c[Back(n, q, d)].dib = b[Back(n, q, d)].dib
    <3>1. d \in 0..(n - 1)
      BY <2>3, <2>5
    <3> QED
      BY <1>3, <3>1, BackIs
  <2> QED
    BY <2>1, <2>3, <2>6 DEF MayBe, h
<1> QED
  BY <1>3, <1>4

LEMMA SetRoundKeeps ==
    ASSUME MapInv, SetRound
    PROVE  MapInv'
<1>1. /\ hash' = hash /\ old' = old /\ call.op = "set" /\ hand # Free
      /\ old = NoOld /\ count = Cardinality(Taken(buckets)) /\ count + 1 < nbuckets
      /\ count \in Nat
  BY DEF SetRound, MapInv, MapTypes, CountInv
<1>2. hand \in Full /\ hand.item \in Item
  BY <1>1, MapFacts, CellFacts
<1>3. CASE buckets[at].dib = 0
  <2>1. /\ buckets' = [buckets EXCEPT ![at] = hand] /\ count' = count + 1 /\ hand' = Free
        /\ call' = NoCall
    BY <1>3 DEF SetRound, Return
  <2>2. /\ buckets' \in Table(nbuckets) /\ nbuckets' = nbuckets
        /\ Cardinality(Taken(buckets')) = Cardinality(Taken(buckets)) + 1
        /\ InOrder(nbuckets, buckets', hash)
    BY <1>1, <1>3, <2>1, RoundFacts, PlaceFacts
  <2>3. call'.op = "none"
    BY <2>1 DEF NoCall
  <2>4. MapTypes'
    BY <1>1, <2>1, <2>2, <2>3 DEF MapInv, MapTypes, Cell
  <2>5. HandInv'
    BY <2>1, <2>3 DEF HandInv
  <2>6. CountInv'
    BY <1>1, <2>1, <2>2, <2>3 DEF CountInv
  <2> QED
    BY <1>1, <2>2, <2>4, <2>5, <2>6 DEF MapInv
<1>4. CASE buckets[at].dib # 0 /\ Matches(buckets[at], hand.item.key)
  <2>1. /\ buckets' = [buckets EXCEPT ![at].item = hand.item] /\ hand' = Free
        /\ call' = NoCall /\ count' = count
    BY <1>4 DEF SetRound, Return
  <2>2. buckets[at] # Free /\ hand.item.key = buckets[at].item.key
    BY <1>4 DEF Matches, Free
  <2>3. /\ buckets[at] \in Full /\ at \in 0..(nbuckets - 1) /\ buckets \in Table(nbuckets)
    BY <1>1, <2>2, MapFacts, RoundFacts, CellFacts
  <2>4. /\ buckets'[at] = [dib |-> buckets[at].dib, item |-> hand.item]
        /\ \A q \in 0..(nbuckets - 1) : q # at => buckets'[q] = buckets[q]
        /\ DOMAIN buckets' = 0..(nbuckets - 1)
    BY <2>1, <2>3 DEF Table, Full
  <2>5. buckets' \in Table(nbuckets)
    <3>1. buckets'[at] \in Cell
      BY <1>2, <2>3, <2>4 DEF Cell, Full
    <3>2. \A q \in 0..(nbuckets - 1) : buckets'[q] \in Cell
      BY <2>3, <2>4, <3>1 DEF Table
    <3>3. buckets' = [q \in 0..(nbuckets - 1) |-> buckets'[q]]
      BY <2>1, <2>4
    <3> QED
      BY <3>2, <3>3 DEF Table
  <2>6. /\ buckets' \in Table(nbuckets) /\ InOrder(nbuckets, buckets', hash)
        /\ \A q \in 0..(nbuckets - 1) : buckets'[q].dib = buckets[q].dib
    BY <1>2, <2>2, <2>3, <2>4, <2>5, MapFacts, ReplaceItem
  <2>7. Taken(buckets') = Taken(buckets)
    BY <2>6, MapFacts, NumBuckets DEF Taken
  <2>8. /\ buckets' \in Table(nbuckets) /\ InOrder(nbuckets, buckets', hash)
        /\ Taken(buckets') = Taken(buckets)
    BY <2>6, <2>7
  <2>9. call'.op = "none"
    BY <2>1 DEF NoCall
  <2>10. nbuckets' = nbuckets
    BY <2>8, MapFacts, NumBuckets DEF nbuckets
  <2>11. MapTypes'
    BY <1>1, <2>1, <2>8, <2>9, <2>10 DEF MapInv, MapTypes, Cell
  <2>12. HandInv'
    BY <2>1, <2>9 DEF HandInv
  <2>13. CountInv'
    BY <1>1, <2>1, <2>8, <2>9, <2>10, MapFacts DEF CountInv
  <2> QED
    BY <1>1, <2>8, <2>10, <2>11, <2>12, <2>13 DEF MapInv
<1>5. CASE buckets[at].dib # 0 /\ ~Matches(buckets[at], hand.item.key)
  <2>1. Pass /\ buckets[at] # Free /\ count' = count /\ call' = call
    BY <1>5 DEF SetRound, Free
  <2>2. /\ buckets' \in Table(nbuckets) /\ nbuckets' = nbuckets
        /\ Taken(buckets') = Taken(buckets)
        /\ InOrder(nbuckets, buckets', hash)
        /\ at' \in 0..(nbuckets - 1) /\ hand' \in Full
        /\ MayBe(nbuckets, buckets', at', hand', hash[hand'.item.key] % nbuckets)
    BY <1>1, <2>1, RoundFacts, PassFacts
  <2>3. hand' # Free
    BY <2>2 DEF Full, Free
  <2>4. MapTypes'
    BY <1>1, <2>1, <2>2 DEF MapInv, MapTypes, Cell
  <2>5. HandInv'
    BY <1>1, <2>1, <2>2 DEF HandInv
  <2>6. CountInv'
    BY <1>1, <2>1, <2>2, <2>3 DEF CountInv
  <2> QED
    BY <1>1, <2>2, <2>4, <2>5, <2>6 DEF MapInv
<1> QED
  BY <1>3, <1>4, <1>5

LEMMA GetKeeps ==
    ASSUME MapInv, NEW key \in Key, Get(key)
    PROVE  MapInv'
<1>1. /\ hash' = hash /\ buckets' = buckets /\ count' = count /\ old' = old /\ hand' = hand
      /\ nbuckets' = nbuckets /\ call.op = "none"
      /\ call'.op = "get" /\ call'.item.key = key /\ at' = hash[key] % nbuckets
  BY DEF Get, Idle, Start, Home, nbuckets
<1>2. MapTypes'
  BY <1>1 DEF MapInv, MapTypes
<1>3. HandInv'
  BY <1>1, MapFacts, AtHome DEF HandInv, MapInv, CountInv
<1>4. CountInv'
  BY <1>1 DEF MapInv, CountInv
<1> QED
  BY <1>1, <1>2, <1>3, <1>4 DEF MapInv

LEMMA GetRoundKeeps ==
    ASSUME MapInv, GetRound
    PROVE  MapInv'
<1>1. /\ hash' = hash /\ buckets' = buckets /\ count' = count /\ old' = old /\ hand' = hand
      /\ nbuckets' = nbuckets /\ call.op = "get" /\ hand = Free /\ at \in 0..(nbuckets - 1)
  BY DEF GetRound, nbuckets, MapInv, HandInv, CountInv
<1>2. \/ call'.op = "none"
      \/ call' = call /\ at' = Fwd(nbuckets, at)
  BY DEF GetRound, Return, NoCall, After, Fwd
<1>3. call' = call => at' \in 0..(nbuckets - 1)
  BY <1>1, <1>2, MapFacts, FwdIs
<1>4. MapTypes'
  BY <1>1, <1>2 DEF MapInv, MapTypes
<1>5. HandInv'
  BY <1>1, <1>2, <1>3 DEF HandInv
<1>6. CountInv'
  BY <1>1, <1>2 DEF MapInv, CountInv
<1> QED
  BY <1>1, <1>4, <1>5, <1>6 DEF MapInv

LEMMA IterKeeps ==
    ASSUME MapInv, Iter
    PROVE  MapInv'
<1>1. /\ hash' = hash /\ buckets' = buckets /\ count' = count /\ old' = old /\ hand' = hand
      /\ nbuckets' = nbuckets /\ at' = at /\ call.op = "none" /\ call'.op = "none"
  BY DEF Iter, Idle, Return, NoCall, nbuckets
<1>2. MapTypes' /\ HandInv' /\ CountInv'
  BY <1>1 DEF MapInv, MapTypes, HandInv, CountInv
<1> QED
  BY <1>1, <1>2 DEF MapInv

LEMMA StutterKeeps ==
    ASSUME MapInv, UNCHANGED map_vars
    PROVE  MapInv'
<1>1. /\ hash' = hash /\ buckets' = buckets /\ count' = count /\ old' = old /\ hand' = hand
      /\ nbuckets' = nbuckets /\ at' = at /\ call' = call
  BY DEF map_vars, nbuckets
<1>2. Rest' = Rest /\ InHand' = InHand
  BY <1>1 DEF Rest, InHand
<1>3. MapTypes' /\ HandInv' /\ CountInv'
  BY <1>1, <1>2 DEF MapInv, MapTypes, HandInv, CountInv
<1> QED
  BY <1>1, <1>3 DEF MapInv

\* At least one bucket is free, where every search ends.
LEMMA SomeFree ==
    ASSUME MapInv
    PROVE  \E p \in 0..(nbuckets - 1) : buckets[p] = Free
<1>1. /\ nbuckets \in Nat /\ count \in Nat /\ buckets \in Table(nbuckets)
      /\ call.op \in {"none", "get", "set", "resize"}
  BY DEF MapInv, MapTypes
<1>2. Cardinality(Taken(buckets)) \in Nat
  BY <1>1, TakenFacts
<1>3. ASSUME call.op # "resize" PROVE Cardinality(Taken(buckets)) < nbuckets
  BY <1>1, <1>3 DEF MapInv, CountInv
<1>4. ASSUME call.op = "resize" PROVE Cardinality(Taken(buckets)) < nbuckets
  <2>1. /\ IsFiniteSet(Rest) /\ count + 1 < nbuckets
        /\ Cardinality(Taken(buckets)) + Cardinality(Rest) + InHand = count
    BY <1>4 DEF MapInv, CountInv
  <2>2. Cardinality(Rest) \in Nat /\ InHand \in Nat
    BY <2>1, FS_CardinalityType DEF InHand
  <2> QED
    BY <1>1, <1>2, <2>1, <2>2
<1>5. Cardinality(Taken(buckets)) < nbuckets
  BY <1>3, <1>4
<1> QED
  BY <1>1, <1>5, TakenFacts

LEMMA InvRobinHood == MapInv => RobinHood
<1> SUFFICES ASSUME MapInv PROVE RobinHood
  OBVIOUS
<1> DEFINE n == nbuckets
<1>1. /\ n \in Nat \ {0} /\ buckets \in Table(n) /\ InOrder(n, buckets, hash)
      /\ DOMAIN buckets = 0..(n - 1)
  BY MapFacts, NumBuckets
<1>2. \E p \in DOMAIN buckets : buckets[p].dib = 0
  BY <1>1, SomeFree DEF Free
<1>3. ASSUME NEW p \in DOMAIN buckets, buckets[p].dib # 0
      PROVE  /\ buckets[p].dib = Distance(p)
             /\ \A d \in 1..(buckets[p].dib - 1) :
                   buckets[(p - d) % nbuckets].dib >= buckets[p].dib - d
  <2>1. MayBe(n, buckets, p, buckets[p], hash[buckets[p].item.key] % n)
    BY <1>1, <1>3 DEF InOrder, Free
  <2> QED
    BY <2>1 DEF MayBe, Back, Distance, Home
<1>4. Idle => count = Cardinality({p \in DOMAIN buckets : buckets[p].dib # 0})
  BY DEF Idle, MapInv, CountInv, Taken
<1> QED
  BY <1>2, <1>3, <1>4 DEF RobinHood
-----------------------------------------------------------------------------
(* Every key is there at most once, and a search finds it *)

\* There is no item with a key in b.
Without(b, key) == \A p \in DOMAIN b : b[p].dib # 0 => b[p].item.key # key

\* No two items in b have the same key.
OnceIn(b) ==
    \A p, q \in DOMAIN b :
        b[p].dib # 0 /\ b[q].dib # 0 /\ b[p].item.key = b[q].item.key => p = q

\* A search for a key whose home is h has come to bucket p and not passed the key.
NotPassed(n, b, p, h, key) ==
    \A d \in 1..Back(n, p, h) :
        b[Back(n, p, d)].dib # 0 => b[Back(n, p, d)].item.key # key

\* The next bucket is farther from h, or h itself.
LEMMA NextOrHome ==
    ASSUME NEW n \in Nat \ {0}, NEW p \in 0..(n - 1), NEW h \in 0..(n - 1)
    PROVE  \/ Back(n, p, h) + 1 < n /\ Back(n, Fwd(n, p), h) = Back(n, p, h) + 1
           \/ Back(n, p, h) + 1 = n /\ Back(n, Fwd(n, p), h) = 0
<1> DEFINE f == Fwd(n, p)
<1>1. f \in 0..(n - 1) /\ f = IF p + 1 = n THEN 0 ELSE p + 1
  BY FwdIs
<1> HIDE DEF f
<1>2. Back(n, f, h) = IF h <= f THEN f - h ELSE f - h + n
  BY <1>1, BackIs
<1>3. Back(n, p, h) = IF h <= p THEN p - h ELSE p - h + n
  BY BackIs
<1> QED
  BY <1>1, <1>2, <1>3 DEF f

LEMMA NotPassedOn ==
    ASSUME NEW n \in Nat \ {0}, NEW b \in Table(n), NEW p \in 0..(n - 1),
           NEW h \in 0..(n - 1), NEW key, NotPassed(n, b, p, h, key),
           b[p].dib # 0 => b[p].item.key # key
    PROVE  NotPassed(n, b, Fwd(n, p), h, key)
<1>1. CASE Back(n, p, h) + 1 < n /\ Back(n, Fwd(n, p), h) = Back(n, p, h) + 1
  <2> SUFFICES ASSUME NEW d \in 1..(Back(n, p, h) + 1),
                      b[Back(n, Fwd(n, p), d)].dib # 0
               PROVE  b[Back(n, Fwd(n, p), d)].item.key # key
    BY <1>1 DEF NotPassed
  <2>1. Back(n, p, h) \in 0..(n - 1)
    BY BackIs
  <2>2. d \in 1..(n - 1)
    BY <1>1, <2>1
  <2>3. Back(n, Fwd(n, p), d) = Back(n, p, d - 1)
    BY <2>2, BackNext
  <2>4. CASE d = 1
    <3>1. Back(n, p, d - 1) = p
      BY <2>4, BackIs
    <3> QED
      BY <2>3, <3>1
  <2>5. CASE d # 1
    <3>1. d - 1 \in 1..Back(n, p, h)
      BY <2>1, <2>2, <2>5
    <3> QED
      BY <2>3, <3>1 DEF NotPassed
  <2> QED
    BY <2>4, <2>5
<1>2. CASE Back(n, Fwd(n, p), h) = 0
  BY <1>2 DEF NotPassed
<1> QED
  BY <1>1, <1>2, NextOrHome

\* Robin hood order pays off: whoever is nearer to home than the searched key would
\* be, or an empty bucket, says that the key is nowhere.
LEMMA NotThere ==
    ASSUME NEW n \in Nat \ {0}, NEW b \in Table(n), NEW H \in [Key -> Nat],
           InOrder(n, b, H), NEW key \in Key, NEW p \in 0..(n - 1),
           NotPassed(n, b, p, H[key] % n, key), b[p].dib < 1 + Back(n, p, H[key] % n)
    PROVE  Without(b, key)
<1> DEFINE h == H[key] % n
<1>1. h \in 0..(n - 1)
  BY AtHome
<1>2. DOMAIN b = 0..(n - 1)
  BY NumBuckets
<1> SUFFICES ASSUME NEW q \in 0..(n - 1), b[q].dib # 0, b[q].item.key = key
             PROVE  FALSE
  BY <1>2 DEF Without
<1>3. MayBe(n, b, q, b[q], h)
  BY DEF InOrder, Free
<1>4. NotPassed(n, b, p, h, key) /\ b[p].dib < 1 + Back(n, p, h)
  OBVIOUS
<1> HIDE DEF h
<1>5. /\ b[q].dib = 1 + Back(n, q, h)
      /\ \A d \in 1..(b[q].dib - 1) : b[Back(n, q, d)].dib >= b[q].dib - d
  BY <1>3 DEF MayBe
<1>6. /\ Back(n, p, h) \in 0..(n - 1) /\ Back(n, q, h) \in 0..(n - 1)
      /\ Back(n, p, q) \in 0..(n - 1) /\ Back(n, q, p) \in 0..(n - 1)
  BY <1>1, BackIs
<1>7. b[p].dib \in Nat
  BY CellFacts DEF Table
<1>8. CASE Back(n, q, h) < Back(n, p, h)
  <2>1. Back(n, p, q) = Back(n, p, h) - Back(n, q, h)
    BY <1>1, <1>6, <1>8, Between
  <2>2. Back(n, p, q) \in 1..Back(n, p, h)
    BY <1>6, <1>8, <2>1
  <2>3. Back(n, p, Back(n, p, q)) = q
    BY BackAgain
  <2> QED
    BY <1>4, <2>2, <2>3 DEF NotPassed
<1>9. CASE Back(n, p, h) <= Back(n, q, h)
  <2>1. Back(n, q, p) = Back(n, q, h) - Back(n, p, h)
    BY <1>1, <1>9, Between
  <2>2. Back(n, q, Back(n, q, p)) = p /\ (Back(n, q, p) = 0 <=> q = p)
    BY BackAgain
  <2>3. CASE q = p
    BY <1>4, <1>5, <1>6, <1>7, <2>3
  <2>4. CASE q # p
    <3>1. Back(n, q, p) \in 1..(b[q].dib - 1)
      BY <1>5, <1>6, <2>1, <2>2, <2>4
    <3>2. b[p].dib >= b[q].dib - Back(n, q, p)
      BY <1>5, <2>2, <3>1
    <3> QED
      BY <1>4, <1>5, <1>6, <1>7, <2>1, <3>2
  <2> QED
    BY <2>3, <2>4
<1> QED
  BY <1>6, <1>8, <1>9

\* An item with a new key is put into a bucket.
LEMMA PutOnce ==
    ASSUME NEW n \in Nat, NEW b \in Table(n), NEW p \in 0..(n - 1), NEW e \in Full,
           OnceIn(b), Without(b, e.item.key), NEW c \in Table(n), c[p] = e,
           \A q \in 0..(n - 1) : q # p => c[q] = b[q]
    PROVE  /\ OnceIn(c)
           /\ b[p] # Free => Without(c, b[p].item.key)
           /\ \A key : Without(b, key) /\ key # e.item.key => Without(c, key)
<1>1. DOMAIN b = 0..(n - 1) /\ DOMAIN c = 0..(n - 1)
  BY NumBuckets
<1>2. b[p] # Free => b[p].dib # 0
  BY CellFacts DEF Table
<1>3. OnceIn(c)
  BY <1>1 DEF OnceIn, Without
<1>4. b[p] # Free => Without(c, b[p].item.key)
  BY <1>1, <1>2 DEF OnceIn, Without
<1>5. \A key : Without(b, key) /\ key # e.item.key => Without(c, key)
  BY <1>1 DEF Without
<1> QED
  BY <1>3, <1>4, <1>5

\* Who is in hand is no longer, or not yet, in a bucket.
Extra == HasDisplaced \/ (call.op = "resize" /\ hand # Free)

KeysInv ==
    /\ OnceIn(buckets)
    /\ Extra => Without(buckets, hand.item.key)
    /\ call.op = "resize" =>
          /\ OnceIn(old.buckets)
          /\ \A p \in Rest :
                /\ Without(buckets, old.buckets[p].item.key)
                /\ hand # Free => hand.item.key # old.buckets[p].item.key

\* item has been put into a bucket of b, and since then the loop has gone on to p
\* through buckets that were taken, and not all the way round.
Behind(n, b, p, item) ==
    \E q \in 0..(n - 1) :
        /\ q # p /\ b[q].dib # 0 /\ b[q].item = item
        /\ \A d \in 1..Back(n, p, q) : b[Back(n, p, d)].dib # 0

Searching ==
    NotPassed(nbuckets, buckets, at, hash[call.item.key] % nbuckets, call.item.key)

SearchInv ==
    /\ call.op = "get" => Searching
    /\ call.op = "set" /\ ~HasDisplaced => hand.item = call.item /\ Searching
    /\ HasDisplaced => Behind(nbuckets, buckets, at, call.item)

DictInv == KeysInv /\ SearchInv

\* A step of the dictionary, or none that it can see.
DictStep == Dict!Next \/ UNCHANGED <<Contents, Result, passed>>

LEMMA ContentsIs ==
    Contents = {buckets[p].item : p \in Taken(buckets)}
               \cup (IF Extra THEN {hand.item} ELSE {})
               \cup {old.buckets[p].item : p \in Rest}
BY DEF Contents, ItemsOf, Extra, Taken, Rest

LEMMA ContentsNext ==
    Contents' = {buckets'[p].item : p \in Taken(buckets')}
                \cup (IF Extra' THEN {hand'.item} ELSE {})
                \cup {old'.buckets[p].item : p \in Rest'}
BY DEF Contents, ItemsOf, Extra, Taken, Rest

LEMMA ContentsParts ==
    /\ Contents = ItemsOf(buckets) \cup (IF Extra THEN {hand.item} ELSE {})
                  \cup {old.buckets[p].item : p \in Rest}
    /\ Contents' = ItemsOf(buckets') \cup (IF Extra' THEN {hand'.item} ELSE {})
                   \cup {old'.buckets[p].item : p \in Rest'}
BY DEF Contents, Extra, Rest

LEMMA NoRest == old = NoOld => Rest = {}
<1>1. DOMAIN Buckets(0) = {}
  BY DEF Buckets
<1> QED
  BY <1>1 DEF Rest, NoOld

\* Outside of a resize.
LEMMA ContentsSet ==
    ASSUME MapInv, call.op # "resize"
    PROVE  Contents = {buckets[p].item : p \in Taken(buckets)}
                      \cup (IF HasDisplaced THEN {hand.item} ELSE {})
<1>1. Rest = {}
  BY NoRest DEF MapInv, CountInv
<1> QED
  BY <1>1, ContentsIs DEF Extra

\* A search begins.
LEMMA SearchBegins ==
    ASSUME NEW n \in Nat \ {0}, NEW H \in [Key -> Nat], NEW key \in Key, NEW b
    PROVE  NotPassed(n, b, H[key] % n, H[key] % n, key)
<1>1. H[key] % n \in 0..(n - 1)
  BY AtHome
<1>2. Back(n, H[key] % n, H[key] % n) = 0
  BY <1>1, BackAgain
<1> QED
  BY <1>2 DEF NotPassed

LEMMA SetDict ==
    ASSUME MapInv, DictInv, NEW item \in Item, Set(item)
    PROVE  DictInv' /\ DictStep /\ Contents' = Contents
<1>1. /\ hash' = hash /\ call.op = "none" /\ hand = Free /\ old = NoOld /\ passed' = passed
  BY DEF Set, Idle, MapInv, CountInv
<1>2. /\ ~HasDisplaced /\ ~Extra /\ Result = last
      /\ Contents = {buckets[p].item : p \in Taken(buckets)}
  BY <1>1, ContentsSet DEF HasDisplaced, Extra, Result
<1>3. item.key \in Key /\ OnceIn(buckets)
  BY DEF Item, DictInv, KeysInv
<1>4. CASE Return("oom", item.key, NoItem) /\ UNCHANGED <<buckets, old, hand, at>>
  <2>1. call'.op = "none" /\ last' = Answer("oom", item.key, NoItem)
    BY <1>4 DEF Return, NoCall
  <2>2. ~HasDisplaced' /\ ~Extra' /\ Result' = last'
    BY <2>1 DEF HasDisplaced, Extra, Result
  <2>3. Rest' = {} /\ Taken(buckets)' = Taken(buckets)
    BY <1>1, <1>4, NoRest DEF Rest, Taken
  <2>4. Contents' = {buckets'[p].item : p \in Taken(buckets')}
    BY <2>2, <2>3, ContentsNext
  <2>5. Contents' = Contents
    BY <1>2, <1>4, <2>3, <2>4
  <2>6. Dict!SetFails(item)
    BY <1>1, <2>1, <2>2, <2>5 DEF Dict!SetFails, Dict!Answer, Answer
  <2>7. Dict!Next
    BY <2>6 DEF Dict!Next, Dict!Item, Item
  <2>8. DictInv'
    BY <1>3, <1>4, <2>1, <2>2 DEF DictInv, KeysInv, SearchInv
  <2> QED
    BY <2>5, <2>7, <2>8 DEF DictStep
<1>5. CASE /\ old' = [next |-> 0, buckets |-> buckets]
           /\ buckets' = Buckets(2 * nbuckets)
           /\ call' = [op |-> "resize", item |-> item]
           /\ UNCHANGED <<hand, at, last>>
  <2> DEFINE n == nbuckets
  <2>1. n \in Nat \ {0} /\ buckets \in Table(n) /\ 2 * n \in Nat \ {0}
    BY MapFacts
  <2>2. buckets' \in Table(2 * n) /\ Taken(buckets') = {}
    BY <1>5, <2>1, EmptyTable
  <2>3. old'.next = 0 /\ old'.buckets = buckets /\ DOMAIN buckets = 0..(n - 1)
    BY <1>5, <2>1, NumBuckets
  <2>4. Rest' = Taken(buckets)
    <3>1. \A p \in 0..(n - 1) : p >= 0
      BY <2>1
    <3> QED
      BY <2>3, <3>1 DEF Rest, Taken
  <2>5. /\ ~HasDisplaced' /\ ~Extra' /\ Result' = Result /\ call'.op = "resize"
        /\ hand' = Free
    BY <1>1, <1>2, <1>5 DEF HasDisplaced, Extra, Result
  <2>6. Contents' = {old'.buckets[p].item : p \in Rest'}
    <3>1. {buckets'[p].item : p \in Taken(buckets')} = {}
      BY <2>2
    <3>2. Contents' = {buckets'[p].item : p \in Taken(buckets')}
                      \cup (IF Extra' THEN {hand'.item} ELSE {})
                      \cup {old'.buckets[p].item : p \in Rest'}
      BY ContentsNext
    <3> QED
      BY <2>5, <3>1, <3>2
  <2>7. Contents' = Contents
    BY <1>2, <2>3, <2>4, <2>6
  <2>8. \A key : Without(buckets', key)
    BY <2>2 DEF Without, Taken
  <2>9. OnceIn(buckets')
    BY <2>2 DEF OnceIn, Taken
  <2>10. KeysInv'
    BY <1>3, <2>3, <2>5, <2>8, <2>9 DEF KeysInv
  <2>11. SearchInv'
    BY <2>5 DEF SearchInv
  <2> QED
    BY <1>1, <2>5, <2>7, <2>10, <2>11 DEF DictInv, DictStep
<1>6. CASE /\ Start("set", item) /\ hand' = [dib |-> 1, item |-> item]
           /\ UNCHANGED <<buckets, old, last>>
  <2>1. /\ call'.op = "set" /\ call'.item = item /\ at' = hash[item.key] % nbuckets
        /\ nbuckets' = nbuckets /\ hand'.item = item
    BY <1>6 DEF Start, Home, nbuckets
  <2>2. ~HasDisplaced' /\ ~Extra' /\ Result' = Result
    BY <1>2, <1>6, <2>1 DEF HasDisplaced, Extra, Result
  <2>3. Rest' = {} /\ Taken(buckets)' = Taken(buckets)
    BY <1>1, <1>6, NoRest DEF Rest, Taken
  <2>4. Contents' = {buckets'[p].item : p \in Taken(buckets')}
    BY <2>2, <2>3, ContentsNext
  <2>5. Contents' = Contents
    BY <1>2, <1>6, <2>3, <2>4
  <2>6. Searching'
    BY <1>1, <1>3, <1>6, <2>1, MapFacts, SearchBegins DEF Searching
  <2>7. DictInv'
    BY <1>3, <1>6, <2>1, <2>2, <2>6 DEF DictInv, KeysInv, SearchInv
  <2> QED
    BY <1>1, <2>2, <2>5, <2>7 DEF DictStep
<1> QED
  BY <1>4, <1>5, <1>6 DEF Set

LEMMA ResizeNextDict ==
    ASSUME MapInv, DictInv, ResizeNext
    PROVE  DictInv' /\ DictStep /\ Contents' = Contents
<1>1. /\ hash' = hash /\ buckets' = buckets /\ nbuckets' = nbuckets /\ last' = last
      /\ passed' = passed
      /\ call.op = "resize" /\ hand = Free /\ call.item \in Item /\ IsFiniteSet(Rest)
  BY DEF ResizeNext, nbuckets, MapInv, MapTypes, CountInv
<1>2. /\ ~HasDisplaced /\ ~Extra /\ Result = last
      /\ Contents = {buckets[p].item : p \in Taken(buckets)}
                    \cup {old.buckets[p].item : p \in Rest}
  <2>1. ~HasDisplaced /\ ~Extra /\ Result = last
    BY <1>1 DEF HasDisplaced, Extra, Result
  <2> QED
    BY <2>1, ContentsIs
<1>3. PICK m \in Nat : /\ old \in [next : 0..m, buckets : Table(m)]
                       /\ Cardinality(DOMAIN old.buckets) = m
  BY <1>1 DEF MapInv, CountInv
<1>4. Taken(buckets') = Taken(buckets)
  BY <1>1
<1>5. KeysInv
  BY DEF DictInv
<1>6. CASE old.next = m
  <2>1. /\ old' = NoOld /\ call' = [op |-> "set", item |-> call.item]
        /\ at' = hash[call.item.key] % nbuckets
        /\ hand' = [dib |-> 1, item |-> call.item]
    BY <1>3, <1>6 DEF ResizeNext, Start, Home
  <2>2. ~HasDisplaced' /\ ~Extra' /\ Result' = Result /\ call'.op = "set"
    BY <1>1, <1>2, <2>1 DEF HasDisplaced, Extra, Result
  <2>3. Rest = {} /\ Rest' = {}
    <3>1. DOMAIN old.buckets = 0..(m - 1)
      BY <1>3 DEF Table
    <3>2. Rest = {}
      BY <1>6, <3>1 DEF Rest
    <3>3. Rest' = {}
      BY <2>1 DEF Rest, NoOld, Buckets
    <3> QED
      BY <3>2, <3>3
  <2>4. Contents' = {buckets'[p].item : p \in Taken(buckets')}
    BY <2>2, <2>3, ContentsNext
  <2>5. Contents' = Contents
    BY <1>1, <1>2, <1>4, <2>3, <2>4
  <2>6. call.item.key \in Key
    BY <1>1 DEF Item
  <2>7. Searching'
    BY <1>1, <2>1, <2>6, MapFacts, SearchBegins DEF Searching
  <2>8. DictInv'
    BY <1>1, <1>5, <2>1, <2>2, <2>7 DEF DictInv, KeysInv, SearchInv
  <2> QED
    BY <1>1, <2>2, <2>5, <2>8 DEF DictStep
<1>7. CASE old.next # m
  <2> DEFINE entry == old.buckets[old.next]
  <2>1. /\ old' = [old EXCEPT !.next = @ + 1] /\ call' = call
        /\ IF entry.dib = 0 THEN UNCHANGED <<hand, at>>
           ELSE hand' = [entry EXCEPT !.dib = 1] /\ at' = Home(entry.item.key)
    BY <1>3, <1>7 DEF ResizeNext
  <2>2. /\ entry \in Cell /\ old'.buckets = old.buckets
        /\ entry.dib = 0 => Rest' = Rest
        /\ entry.dib # 0 => Rest = Rest' \cup {old.next} /\ old.next \notin Rest'
    BY <1>1, <1>3, <1>7, <2>1, RestNext
  <2>3. ~HasDisplaced' /\ Result' = Result
    BY <1>1, <1>2, <2>1 DEF HasDisplaced, Result
  <2>4. OnceIn(old.buckets) /\ \A p \in Rest : Without(buckets, old.buckets[p].item.key)
    BY <1>1, <1>5 DEF KeysInv
  <2>5. CASE entry.dib = 0
    <3>1. hand' = Free /\ ~Extra' /\ Rest' = Rest
      BY <1>1, <2>1, <2>2, <2>3, <2>5 DEF Extra
    <3>2. Contents' = Contents
      BY <1>1, <1>2, <1>4, <2>2, <3>1, ContentsNext
    <3>3. DictInv'
      BY <1>1, <1>5, <2>1, <2>2, <2>3, <2>4, <3>1 DEF DictInv, KeysInv, SearchInv
    <3> QED
      BY <1>1, <2>3, <3>2, <3>3 DEF DictStep
  <2>6. CASE entry.dib # 0
    <3> HIDE DEF entry
    <3>1. entry \in Full
      BY <2>2, <2>6, CellFacts
    <3>2. hand'.item = entry.item /\ hand'.dib = 1
      BY <2>1, <2>6, <3>1 DEF Full
    <3>3. hand' # Free /\ Extra'
      BY <1>1, <2>1, <3>2 DEF Extra, Free
    <3>4. old.next \in Rest /\ Rest = Rest' \cup {old.next} /\ old.next \notin Rest'
      BY <2>2, <2>6
    <3>5. {old.buckets[p].item : p \in Rest} =
              {entry.item} \cup {old.buckets[p].item : p \in Rest'}
      BY <3>4 DEF entry
    <3>6. Contents' = {buckets[p].item : p \in Taken(buckets)} \cup {entry.item}
                      \cup {old.buckets[p].item : p \in Rest'}
      BY <1>1, <1>4, <2>2, <3>2, <3>3, ContentsNext
    <3>7. Contents' = Contents
      BY <1>2, <3>5, <3>6
    <3>8. Without(buckets, entry.item.key)
      BY <2>4, <3>4 DEF entry
    <3>9. \A p \in Rest : p \in DOMAIN old.buckets /\ old.buckets[p].dib # 0
      BY DEF Rest
    <3>10. \A p \in Rest' : entry.item.key # old.buckets[p].item.key
      BY <2>4, <3>4, <3>9 DEF OnceIn, entry
    <3>11. KeysInv'
      BY <1>1, <1>5, <2>1, <2>2, <2>4, <3>2, <3>3, <3>4, <3>8, <3>10 DEF KeysInv
    <3>12. SearchInv'
      BY <1>1, <2>1, <2>3 DEF SearchInv
    <3> QED
      BY <1>1, <2>3, <3>7, <3>11, <3>12 DEF DictInv, DictStep
  <2> QED
    BY <2>5, <2>6
<1> QED
  BY <1>6, <1>7

\* The items of a table into which one is put.
LEMMA ItemsPut ==
    ASSUME NEW n \in Nat, NEW b \in Table(n), NEW p \in 0..(n - 1), NEW e \in Full,
           NEW c \in Table(n), c[p] = e, \A q \in 0..(n - 1) : q # p => c[q] = b[q]
    PROVE  /\ b[p] = Free => ItemsOf(c) = ItemsOf(b) \cup {e.item}
           /\ b[p] # Free => ItemsOf(c) \cup {b[p].item} = ItemsOf(b) \cup {e.item}
<1>1. /\ Taken(b) \subseteq 0..(n - 1) /\ \A q \in 0..(n - 1) : q \in Taken(b) <=> b[q] # Free
      /\ Taken(c) \subseteq 0..(n - 1) /\ \A q \in 0..(n - 1) : q \in Taken(c) <=> c[q] # Free
  BY TakenFacts
<1>2. e # Free
  BY DEF Full, Free
<1>3. p \in Taken(c) /\ \A q \in 0..(n - 1) : q # p => (q \in Taken(c) <=> q \in Taken(b))
  BY <1>1, <1>2
<1>4. /\ ItemsOf(c) = {c[q].item : q \in Taken(c)}
      /\ ItemsOf(b) = {b[q].item : q \in Taken(b)}
  BY DEF ItemsOf, Taken
<1>5. ItemsOf(c) = {b[q].item : q \in Taken(b) \ {p}} \cup {e.item}
  BY <1>1, <1>3, <1>4
<1>6. CASE b[p] = Free
  <2>1. Taken(b) \ {p} = Taken(b)
    BY <1>1, <1>6
  <2> QED
    BY <1>4, <1>5, <1>6, <2>1
<1>7. CASE b[p] # Free
  <2>1. ItemsOf(b) = {b[q].item : q \in Taken(b) \ {p}} \cup {b[p].item}
    BY <1>1, <1>7, <1>4
  <2> QED
    BY <1>5, <1>7, <2>1
<1> QED
  BY <1>6, <1>7

\* What a round does to the buckets and to who is in hand.
LEMMA RoundPuts ==
    ASSUME MapInv, hand # Free,
           \/ buckets[at].dib = 0 /\ buckets' = [buckets EXCEPT ![at] = hand]
           \/ buckets[at].dib # 0 /\ Pass /\ Displaced(buckets[at])
    PROVE  /\ hand \in Full /\ at \in 0..(nbuckets - 1) /\ buckets \in Table(nbuckets)
           /\ buckets' \in Table(nbuckets) /\ buckets'[at] = hand
           /\ \A q \in 0..(nbuckets - 1) : q # at => buckets'[q] = buckets[q]
           /\ buckets[at].dib = 0 <=> buckets[at] = Free
           /\ Pass => hand'.item = buckets[at].item
<1>1. /\ hand \in Full /\ at \in 0..(nbuckets - 1) /\ buckets \in Table(nbuckets)
      /\ buckets[at] \in Cell
  BY MapFacts, RoundFacts, CellFacts
<1>2. buckets' = [buckets EXCEPT ![at] = hand]
  BY DEF Pass
<1>3. /\ buckets' \in Table(nbuckets) /\ buckets'[at] = hand
      /\ \A q \in 0..(nbuckets - 1) : q # at => buckets'[q] = buckets[q]
  BY <1>1, <1>2 DEF Table, Cell
<1>4. buckets[at].dib = 0 <=> buckets[at] = Free
  BY <1>1, CellFacts
<1>5. ASSUME Pass PROVE hand'.item = buckets[at].item
  <2>1. Pass /\ Displaced(buckets[at]) => hand' = [buckets[at] EXCEPT !.dib = @ + 1]
    BY DEF Pass
  <2>2. Displaced(buckets[at])
    <3>1. CASE buckets[at].dib = 0
      BY <1>1, <3>1 DEF Displaced, Full
    <3> QED
      BY <3>1
  <2>3. CASE buckets[at] \in Full
    BY <1>5, <2>1, <2>2, <2>3 DEF Full
  <2>4. CASE buckets[at] = Free
    BY <1>5, <2>1, <2>2, <2>4 DEF Free
  <2> QED
    BY <1>1, <2>3, <2>4, CellFacts
<1> QED
  BY <1>1, <1>3, <1>4, <1>5

\* A round that only goes on to the next bucket.
LEMMA PassesBy ==
    ASSUME MapInv, hand # Free, buckets[at].dib # 0, Pass
    PROVE  /\ nbuckets' = nbuckets /\ at' = Fwd(nbuckets, at) /\ hand' # Free
           /\ ~Displaced(buckets[at]) => buckets' = buckets /\ hand'.item = hand.item
<1>1. hand \in Full
  BY MapFacts, CellFacts
<1>2. nbuckets' = nbuckets /\ at' = Fwd(nbuckets, at) /\ hand' \in Full
  BY RoundFacts, PassFacts DEF Free
<1>3. ~Displaced(buckets[at]) => buckets' = buckets /\ hand'.item = hand.item
  BY <1>1 DEF Pass, Full
<1> QED
  BY <1>2, <1>3 DEF Full, Free

LEMMA ResizePlaceDict ==
    ASSUME MapInv, DictInv, ResizePlace
    PROVE  DictInv' /\ DictStep /\ Contents' = Contents
<1>1. /\ hash' = hash /\ old' = old /\ call' = call /\ last' = last /\ passed' = passed
      /\ call.op = "resize" /\ hand # Free /\ Rest' = Rest
  BY DEF ResizePlace, Rest
<1>2. /\ ~HasDisplaced /\ ~HasDisplaced' /\ Extra /\ Result' = Result
      /\ SearchInv' /\ (Extra' <=> hand' # Free)
  BY <1>1 DEF HasDisplaced, Extra, Result, SearchInv
<1>3. /\ OnceIn(buckets) /\ Without(buckets, hand.item.key) /\ OnceIn(old.buckets)
      /\ \A p \in Rest : /\ Without(buckets, old.buckets[p].item.key)
                         /\ hand.item.key # old.buckets[p].item.key
  BY <1>1, <1>2 DEF DictInv, KeysInv
<1> DEFINE items == ItemsOf(buckets)
           rest  == {old.buckets[p].item : p \in Rest}
<1>4. Contents = items \cup {hand.item} \cup rest
  BY <1>2, ContentsParts
<1>5. CASE buckets[at].dib = 0
  <2>1. buckets' = [buckets EXCEPT ![at] = hand] /\ hand' = Free
    BY <1>5 DEF ResizePlace
  <2>2. /\ hand \in Full /\ at \in 0..(nbuckets - 1) /\ buckets \in Table(nbuckets)
        /\ buckets' \in Table(nbuckets) /\ buckets'[at] = hand
        /\ \A q \in 0..(nbuckets - 1) : q # at => buckets'[q] = buckets[q]
        /\ buckets[at] = Free
    BY <1>1, <1>5, <2>1, RoundPuts
  <2>3. ItemsOf(buckets') = items \cup {hand.item}
    BY <2>2, MapFacts, ItemsPut
  <2>4. Contents' = items \cup {hand.item} \cup rest
    BY <1>1, <1>2, <2>1, <2>3, ContentsParts
  <2>5. OnceIn(buckets') /\ \A p \in Rest : Without(buckets', old.buckets[p].item.key)
    BY <1>3, <2>2, MapFacts, PutOnce
  <2>6. KeysInv'
    BY <1>1, <1>2, <1>3, <2>1, <2>5 DEF KeysInv
  <2> QED
    BY <1>1, <1>2, <1>4, <2>4, <2>6 DEF DictInv, DictStep
<1>6. CASE buckets[at].dib # 0 /\ Displaced(buckets[at])
  <2>1. Pass
    BY <1>6 DEF ResizePlace
  <2>2. /\ hand \in Full /\ at \in 0..(nbuckets - 1) /\ buckets \in Table(nbuckets)
        /\ buckets' \in Table(nbuckets) /\ buckets'[at] = hand
        /\ \A q \in 0..(nbuckets - 1) : q # at => buckets'[q] = buckets[q]
        /\ buckets[at] # Free /\ hand'.item = buckets[at].item
    BY <1>1, <1>6, <2>1, RoundPuts
  <2>3. hand' # Free
    BY <1>1, <1>6, <2>1, PassesBy
  <2>4. ItemsOf(buckets') \cup {buckets[at].item} =
            items \cup {hand.item}
    BY <2>2, MapFacts, ItemsPut
  <2>5. Contents' = ItemsOf(buckets') \cup {buckets[at].item}
                    \cup rest
    BY <1>1, <1>2, <2>2, <2>3, ContentsParts
  <2>6. /\ OnceIn(buckets') /\ Without(buckets', buckets[at].item.key)
        /\ \A p \in Rest : Without(buckets', old.buckets[p].item.key)
    BY <1>3, <2>2, MapFacts, PutOnce
  <2>7. \A p \in Rest : buckets[at].item.key # old.buckets[p].item.key
    <3>1. at \in DOMAIN buckets
      BY <2>2, MapFacts, NumBuckets
    <3> QED
      BY <1>3, <1>6, <3>1 DEF Without
  <2>8. KeysInv'
    BY <1>1, <1>2, <1>3, <2>2, <2>6, <2>7 DEF KeysInv
  <2> QED
    BY <1>1, <1>2, <1>4, <2>4, <2>5, <2>8 DEF DictInv, DictStep
<1>7. CASE buckets[at].dib # 0 /\ ~Displaced(buckets[at])
  <2>1. Pass
    BY <1>7 DEF ResizePlace
  <2>2. buckets' = buckets /\ hand'.item = hand.item /\ hand' # Free
    BY <1>1, <1>7, <2>1, PassesBy
  <2>3. Contents' = items \cup {hand.item} \cup rest
    BY <1>1, <1>2, <2>2, ContentsParts
  <2>4. KeysInv'
    BY <1>1, <1>2, <1>3, <2>2 DEF KeysInv
  <2> QED
    BY <1>1, <1>2, <1>4, <2>3, <2>4 DEF DictInv, DictStep
<1> QED
  BY <1>5, <1>6, <1>7

\* An item that has been put into a bucket stays behind when the loop goes on.
LEMMA StaysBehind ==
    ASSUME NEW n \in Nat \ {0}, NEW b \in Table(n), NEW p \in 0..(n - 1), NEW item,
           Behind(n, b, p, item), b[p].dib # 0, NEW z \in 0..(n - 1), b[z].dib = 0,
           NEW c, \A q \in 0..(n - 1) : q # p => c[q] = b[q], c[p].dib # 0
    PROVE  Behind(n, c, Fwd(n, p), item)
<1>1. PICK q \in 0..(n - 1) :
          /\ q # p /\ b[q].dib # 0 /\ b[q].item = item
          /\ \A d \in 1..Back(n, p, q) : b[Back(n, p, d)].dib # 0
  BY DEF Behind
<1>2. Back(n, p, q) \in 0..(n - 1) /\ Back(n, p, z) \in 0..(n - 1)
  BY BackIs
<1>3. p # z
  OBVIOUS
<1>4. Back(n, p, z) # 0
  BY <1>3, BackAgain
<1>5. Back(n, p, q) \in 0..(n - 1) /\ Back(n, p, z) \in 0..(n - 1) /\ Back(n, p, z) # 0
  BY <1>2, <1>4
<1>6. Back(n, p, q) + 1 # n
  <2> SUFFICES ASSUME Back(n, p, q) + 1 = n PROVE FALSE
    OBVIOUS
  <2>1. Back(n, p, z) \in 1..Back(n, p, q)
    BY <1>5
  <2>2. Back(n, p, Back(n, p, z)) = z
    BY BackAgain
  <2> QED
    BY <1>1, <2>1, <2>2
<1>7. Back(n, p, q) + 1 < n /\ Back(n, Fwd(n, p), q) = Back(n, p, q) + 1
  BY <1>5, <1>6, NextOrHome
<1>8. q # Fwd(n, p)
  <2>1. Fwd(n, p) \in 0..(n - 1)
    BY FwdIs
  <2> QED
    BY <1>5, <1>7, <2>1, BackAgain
<1>9. ASSUME NEW d \in 1..(Back(n, p, q) + 1)
      PROVE  c[Back(n, Fwd(n, p), d)].dib # 0
  <2>1. d \in 1..(n - 1) /\ d - 1 \in 0..(n - 1)
    BY <1>5, <1>7
  <2>2. Back(n, Fwd(n, p), d) = Back(n, p, d - 1) /\ Back(n, p, d - 1) \in 0..(n - 1)
    BY <2>1, BackNext, BackIs
  <2>3. b[Back(n, p, d - 1)].dib # 0
    <3>1. CASE d = 1
      <4>1. Back(n, p, d - 1) = p
        BY <3>1, BackIs
      <4> QED
        BY <4>1
    <3>2. CASE d # 1
      <4>1. d - 1 \in 1..Back(n, p, q)
        BY <1>5, <2>1, <3>2
      <4> QED
        BY <1>1, <4>1
    <3> QED
      BY <3>1, <3>2
  <2> QED
    BY <2>2, <2>3
<1> QED
  BY <1>1, <1>7, <1>8, <1>9 DEF Behind

\* When it is put there.
LEMMA FirstBehind ==
    ASSUME NEW n \in Nat, 1 < n, NEW p \in 0..(n - 1), NEW c, NEW item,
           c[p].dib # 0, c[p].item = item
    PROVE  Behind(n, c, Fwd(n, p), item)
<1>1. Back(n, p, p) = 0
  BY BackAgain
<1>2. Back(n, Fwd(n, p), p) = 1 /\ Fwd(n, p) \in 0..(n - 1)
  BY <1>1, NextOrHome, FwdIs
<1>3. p # Fwd(n, p)
  BY <1>2, BackAgain
<1>4. Back(n, Fwd(n, p), 1) = p
  BY <1>2, BackAgain
<1> QED
  BY <1>2, <1>3, <1>4 DEF Behind

\* What the dictionary says of a key that is in no bucket.
LEMMA FoundNone ==
    ASSUME NEW key, Contents = ItemsOf(buckets), Without(buckets, key)
    PROVE  /\ Dict!Found(key) = NoItem
           /\ {other \in Contents : other.key # key} = Contents
<1>1. \A x \in Contents : x.key # key
  BY DEF ItemsOf, Without
<1> QED
  BY <1>1 DEF Dict!Found

\* And of one that is in bucket p.
LEMMA FoundOne ==
    ASSUME Contents = ItemsOf(buckets), OnceIn(buckets), NEW p \in DOMAIN buckets,
           buckets[p].dib # 0
    PROVE  /\ buckets[p].item \in Contents
           /\ \A x \in Contents : x.key = buckets[p].item.key => x = buckets[p].item
           /\ Dict!Found(buckets[p].item.key) = buckets[p].item
<1>1. buckets[p].item \in Contents
  BY DEF ItemsOf
<1>2. \A x \in Contents : x.key = buckets[p].item.key => x = buckets[p].item
  BY DEF ItemsOf, OnceIn
<1>3. Dict!Found(buckets[p].item.key) = buckets[p].item
  BY <1>1, <1>2 DEF Dict!Found
<1> QED
  BY <1>1, <1>2, <1>3

\* A new item in the dictionary.
LEMMA SetsNew ==
    ASSUME NEW item \in Item, Contents = ItemsOf(buckets), Without(buckets, item.key),
           Contents' = Contents \cup {item}, Result' = Answer("set", item.key, NoItem),
           passed' = passed
    PROVE  Dict!Next
<1>1. /\ Dict!Found(item.key) = NoItem
      /\ {other \in Contents : other.key # item.key} = Contents
  BY FoundNone
<1>2. Dict!Set(item)
  BY <1>1 DEF Dict!Set, Dict!Answer, Answer
<1> QED
  BY <1>2 DEF Dict!Next, Dict!Item, Item

\* What a round of hashmap_set begins with, and which items there are after it.
LEMMA SetRoundFacts ==
    ASSUME MapInv, DictInv, SetRound
    PROVE  /\ hash' = hash /\ passed' = passed /\ call.op = "set" /\ hand # Free
           /\ call' = NoCall \/ call' = call
           /\ call.item \in Item /\ hand \in Full /\ hand.item \in Item /\ OnceIn(buckets)
           /\ at \in 0..(nbuckets - 1) /\ at \in DOMAIN buckets
           /\ nbuckets \in Nat \ {0} /\ buckets \in Table(nbuckets) /\ 1 < nbuckets
           /\ (Extra <=> HasDisplaced) /\ (Extra' <=> HasDisplaced')
           /\ Contents = ItemsOf(buckets) \cup (IF HasDisplaced THEN {hand.item} ELSE {})
           /\ Contents' = ItemsOf(buckets')
                          \cup (IF HasDisplaced' THEN {hand'.item} ELSE {})
<1>1. /\ hash' = hash /\ passed' = passed /\ old' = old /\ call.op = "set"
      /\ call' = NoCall \/ call' = call
  BY DEF SetRound, Return
<1>2. hand # Free /\ old = NoOld /\ call.item \in Item /\ count \in Nat /\ count + 1 < nbuckets
  BY <1>1 DEF MapInv, MapTypes, CountInv
<1>3. hand \in Full /\ hand.item \in Item /\ OnceIn(buckets)
  BY <1>2, MapFacts, CellFacts DEF DictInv, KeysInv
<1>4. /\ at \in 0..(nbuckets - 1) /\ at \in DOMAIN buckets
      /\ nbuckets \in Nat \ {0} /\ buckets \in Table(nbuckets)
  BY <1>2, MapFacts, RoundFacts, NumBuckets
<1>5. (Extra <=> HasDisplaced) /\ (Extra' <=> HasDisplaced')
  BY <1>1 DEF Extra, NoCall
<1>6. {old.buckets[p].item : p \in Rest} = {} /\ {old'.buckets[p].item : p \in Rest'} = {}
  <2>1. Rest = {} /\ Rest' = {}
    BY <1>1, <1>2, NoRest DEF Rest
  <2> QED
    BY <2>1
<1>7. /\ Contents = ItemsOf(buckets) \cup (IF HasDisplaced THEN {hand.item} ELSE {})
      /\ Contents' = ItemsOf(buckets') \cup (IF HasDisplaced' THEN {hand'.item} ELSE {})
  BY <1>5, <1>6, ContentsParts
<1>8. 1 < nbuckets
  BY <1>2, <1>4
<1> QED
  BY <1>1, <1>2, <1>3, <1>4, <1>5, <1>7, <1>8

\* The call has been carried out, as far as the dictionary can see.
Committed == HasDisplaced \/ (Idle /\ last.op = "set")

\* What it does.
SetsItem(item) ==
    ~Committed /\ Committed' /\ Contents' = {x \in Contents : x.key # item.key} \cup {item}

\* A round with an entry that has been displaced: the dictionary sees nothing of it.
LEMMA DisplacedRound ==
    ASSUME MapInv, DictInv, SetRound, HasDisplaced
    PROVE  DictInv' /\ UNCHANGED <<Contents, Result, passed>> /\ Committed /\ Committed'
<1> DEFINE n == nbuckets
<1>1. /\ Without(buckets, hand.item.key) /\ hand.item.key # call.item.key
      /\ Behind(n, buckets, at, call.item)
      /\ Result = Answer("set", call.item.key, NoItem)
      /\ Contents = ItemsOf(buckets) \cup {hand.item}
  BY SetRoundFacts DEF DictInv, KeysInv, SearchInv, HasDisplaced, Result
<1>2. Committed
  BY DEF Committed
<1>3. CASE buckets[at].dib = 0
  <2>1. /\ buckets' = [buckets EXCEPT ![at] = hand] /\ call' = NoCall
        /\ last' = Answer("set", call.item.key, NoItem)
    BY <1>3 DEF SetRound, Return
  <2>2. ~HasDisplaced' /\ Result' = Result /\ Committed'
    BY <1>1, <2>1 DEF HasDisplaced, NoCall, Result, Committed, Idle, Answer
  <2>3. /\ buckets' \in Table(n) /\ buckets'[at] = hand /\ buckets[at] = Free
        /\ \A q \in 0..(n - 1) : q # at => buckets'[q] = buckets[q]
    BY <1>3, <2>1, SetRoundFacts, RoundPuts
  <2>4. ItemsOf(buckets') = ItemsOf(buckets) \cup {hand.item}
    BY <2>3, SetRoundFacts, ItemsPut
  <2>5. OnceIn(buckets')
    BY <1>1, <2>3, SetRoundFacts, PutOnce
  <2>6. DictInv'
    BY <2>1, <2>2, <2>5, SetRoundFacts DEF DictInv, KeysInv, SearchInv, NoCall
  <2> QED
    BY <1>1, <1>2, <2>2, <2>4, <2>6, SetRoundFacts
<1>4. CASE buckets[at].dib # 0
  <2>1. buckets[at].item.key # hand.item.key
    BY <1>1, <1>4, SetRoundFacts DEF Without
  <2>2. Pass /\ call' = call /\ last' = last
    BY <1>4, <2>1 DEF SetRound, Matches
  <2>3. nbuckets' = n /\ at' = Fwd(n, at) /\ hand' # Free
    BY <1>4, <2>2, SetRoundFacts, PassesBy
  <2>4. PICK z \in 0..(n - 1) : buckets[z].dib = 0
    BY SomeFree DEF Free
  <2>5. CASE Displaced(buckets[at])
    <3>1. /\ buckets' \in Table(n) /\ buckets'[at] = hand /\ buckets[at] # Free
          /\ \A q \in 0..(n - 1) : q # at => buckets'[q] = buckets[q]
          /\ hand'.item = buckets[at].item
      BY <1>4, <2>2, <2>5, SetRoundFacts, RoundPuts
    <3>2. buckets[at].item.key # call.item.key
      <4>1. PICK q \in 0..(n - 1) : q # at /\ buckets[q].dib # 0 /\ buckets[q].item = call.item
        BY <1>1 DEF Behind
      <4>2. q \in DOMAIN buckets
        BY SetRoundFacts, NumBuckets
      <4> QED
        BY <1>4, <4>1, <4>2, SetRoundFacts DEF OnceIn
    <3>3. HasDisplaced' /\ Result' = Result
      BY <1>1, <2>2, <3>1, <3>2, SetRoundFacts DEF HasDisplaced, Result
    <3>4. ItemsOf(buckets') \cup {buckets[at].item} = ItemsOf(buckets) \cup {hand.item}
      BY <3>1, SetRoundFacts, ItemsPut
    <3>5. OnceIn(buckets') /\ Without(buckets', buckets[at].item.key)
      BY <1>1, <3>1, SetRoundFacts, PutOnce
    <3>6. buckets'[at].dib # 0
      BY <3>1, SetRoundFacts DEF Full
    <3>7. Behind(n, buckets', Fwd(n, at), call.item)
      BY <1>1, <1>4, <2>4, <3>1, <3>6, SetRoundFacts, StaysBehind
    <3>8. DictInv'
      BY <2>2, <2>3, <3>1, <3>3, <3>5, <3>7, SetRoundFacts
         DEF DictInv, KeysInv, SearchInv
    <3> QED
      BY <1>1, <1>2, <3>1, <3>3, <3>4, <3>8, SetRoundFacts DEF Committed
  <2>6. CASE ~Displaced(buckets[at])
    <3>1. buckets' = buckets /\ hand'.item = hand.item
      BY <1>4, <2>2, <2>6, SetRoundFacts, PassesBy
    <3>2. HasDisplaced' /\ Result' = Result
      BY <1>1, <2>2, <3>1, SetRoundFacts DEF HasDisplaced, Result
    <3>3. Behind(n, buckets, Fwd(n, at), call.item)
      BY <1>1, <1>4, <2>4, SetRoundFacts, StaysBehind
    <3>4. DictInv'
      BY <1>1, <2>2, <2>3, <3>1, <3>2, <3>3, SetRoundFacts DEF DictInv, KeysInv, SearchInv
    <3> QED
      BY <1>1, <1>2, <3>1, <3>2, <3>4, SetRoundFacts DEF Committed
  <2> QED
    BY <2>5, <2>6
<1> QED
  BY <1>3, <1>4

\* A round with the item of the call.
LEMMA OwnRound ==
    ASSUME MapInv, DictInv, SetRound, ~HasDisplaced
    PROVE  /\ DictInv' /\ DictStep
           /\ \/ SetsItem(call.item)
              \/ ~Committed /\ Contents' = Contents /\ ~HasDisplaced' /\ call' = call
<1> DEFINE n == nbuckets
           key == call.item.key
           h == hash[key] % n
<1>1. /\ hand.item = call.item /\ NotPassed(n, buckets, at, h, key)
      /\ Result = last /\ Contents = ItemsOf(buckets) /\ key \in Key /\ h \in 0..(n - 1)
      /\ hand.dib = 1 + Back(n, at, h)
  <2>1. hand.item = call.item /\ Searching /\ Result = last /\ Contents = ItemsOf(buckets)
    BY SetRoundFacts DEF DictInv, SearchInv, Result
  <2>2. key \in Key
    BY SetRoundFacts DEF Item
  <2>3. h \in 0..(n - 1)
    BY <2>2, MapFacts, AtHome
  <2>4. hand.dib = 1 + Back(n, at, h)
    BY <2>1, SetRoundFacts, RoundFacts DEF MayBe
  <2> QED
    BY <2>1, <2>2, <2>3, <2>4 DEF Searching
<1>2. buckets[at].dib < hand.dib => Without(buckets, key)
  <2>1. InOrder(n, buckets, hash) /\ hash \in [Key -> Nat]
    BY MapFacts
  <2>2. ASSUME buckets[at].dib < 1 + Back(n, at, h) PROVE Without(buckets, key)
    BY <1>1, <2>1, <2>2, SetRoundFacts, NotThere
  <2> QED
    BY <1>1, <2>2
<1>3. ~Committed /\ ~Idle
  BY SetRoundFacts DEF Committed, Idle
<1>4. Without(buckets, key) => {x \in Contents : x.key # key} = Contents
  BY <1>1, FoundNone
<1>5. CASE buckets[at].dib = 0
  <2>1. /\ buckets' = [buckets EXCEPT ![at] = hand] /\ call' = NoCall
        /\ last' = Answer("set", key, NoItem)
    BY <1>5 DEF SetRound, Return
  <2>2. ~HasDisplaced' /\ Result' = Answer("set", key, NoItem)
    BY <2>1 DEF HasDisplaced, NoCall, Result
  <2>3. /\ buckets' \in Table(n) /\ buckets'[at] = hand /\ buckets[at] = Free
        /\ \A q \in 0..(n - 1) : q # at => buckets'[q] = buckets[q]
    BY <1>5, <2>1, SetRoundFacts, RoundPuts
  <2>4. ItemsOf(buckets') = ItemsOf(buckets) \cup {hand.item}
    BY <2>3, SetRoundFacts, ItemsPut
  <2>5. Without(buckets, key)
    BY <1>2, <1>5, SetRoundFacts DEF Full
  <2>6. OnceIn(buckets')
    BY <1>1, <2>3, <2>5, SetRoundFacts, PutOnce
  <2>7. DictInv'
    BY <2>1, <2>2, <2>6, SetRoundFacts DEF DictInv, KeysInv, SearchInv, NoCall
  <2>8. Contents' = Contents \cup {call.item}
    BY <1>1, <2>2, <2>4, SetRoundFacts
  <2>9. Dict!Next
    BY <1>1, <2>2, <2>5, <2>8, SetRoundFacts, SetsNew
  <2>10. SetsItem(call.item)
    BY <1>3, <1>4, <2>1, <2>5, <2>8 DEF SetsItem, Committed, Idle, NoCall, Answer
  <2> QED
    BY <2>7, <2>9, <2>10 DEF DictStep
<1>6. CASE buckets[at].dib # 0 /\ buckets[at].item.key = key
  <2>1. /\ buckets' = [buckets EXCEPT ![at].item = call.item] /\ call' = NoCall
        /\ last' = Answer("set", key, buckets[at].item)
    BY <1>1, <1>6 DEF SetRound, Return, Matches
  <2>2. ~HasDisplaced' /\ Result' = Answer("set", key, buckets[at].item)
    BY <2>1 DEF HasDisplaced, NoCall, Result
  <2>3. /\ \A x \in Contents : x.key = key => x = buckets[at].item
        /\ Dict!Found(key) = buckets[at].item
    BY <1>1, <1>6, SetRoundFacts, FoundOne
  <2>4. /\ DOMAIN buckets' = DOMAIN buckets
        /\ buckets'[at].item = call.item /\ buckets'[at].dib = buckets[at].dib
        /\ \A q \in DOMAIN buckets : q # at => buckets'[q] = buckets[q]
    <3>1. buckets[at] \in Full
      BY <1>6, SetRoundFacts, CellFacts DEF Table
    <3> QED
      BY <2>1, <3>1, SetRoundFacts DEF Table, Full
  <2>5. OnceIn(buckets')
    BY <1>6, <2>4, SetRoundFacts DEF OnceIn
  <2>6. ItemsOf(buckets') = {other \in ItemsOf(buckets) : other.key # key} \cup {call.item}
    <3>1. at \in Taken(buckets) /\ Taken(buckets') = Taken(buckets)
      BY <1>6, <2>4, SetRoundFacts DEF Taken
    <3>2. /\ ItemsOf(buckets') = {buckets'[p].item : p \in Taken(buckets)}
          /\ ItemsOf(buckets) = {buckets[p].item : p \in Taken(buckets)}
      BY <3>1 DEF ItemsOf, Taken
    <3>3. \A p \in Taken(buckets) : /\ p # at => buckets'[p] = buckets[p]
                                    /\ buckets[p].item.key = key <=> p = at
      BY <1>6, <2>4, SetRoundFacts DEF Taken, OnceIn
    <3> QED
      BY <2>4, <3>1, <3>2, <3>3
  <2>7. Contents' = {other \in Contents : other.key # key} \cup {call.item}
    BY <1>1, <2>2, <2>6, SetRoundFacts
  <2>8. Dict!Set(call.item)
    BY <2>2, <2>3, <2>7, SetRoundFacts DEF Dict!Set, Dict!Answer, Answer
  <2>9. Dict!Next
    BY <2>8, SetRoundFacts DEF Dict!Next, Dict!Item, Item
  <2>10. DictInv'
    BY <2>1, <2>2, <2>5, SetRoundFacts DEF DictInv, KeysInv, SearchInv, NoCall
  <2>11. SetsItem(call.item)
    BY <1>3, <2>1, <2>7 DEF SetsItem, Committed, Idle, NoCall, Answer
  <2> QED
    BY <2>9, <2>10, <2>11 DEF DictStep
<1>7. CASE buckets[at].dib # 0 /\ buckets[at].item.key # key
  <2>1. Pass /\ call' = call /\ last' = last
    BY <1>1, <1>7 DEF SetRound, Matches
  <2>2. nbuckets' = n /\ at' = Fwd(n, at) /\ hand' # Free
    BY <1>7, <2>1, SetRoundFacts, PassesBy
  <2>3. CASE Displaced(buckets[at])
    <3>1. /\ buckets' \in Table(n) /\ buckets'[at] = hand /\ buckets[at] # Free
          /\ \A q \in 0..(n - 1) : q # at => buckets'[q] = buckets[q]
          /\ hand'.item = buckets[at].item
      BY <1>7, <2>1, <2>3, SetRoundFacts, RoundPuts
    <3>2. HasDisplaced' /\ Result' = Answer("set", key, NoItem)
      BY <1>7, <2>1, <3>1, SetRoundFacts DEF HasDisplaced, Result
    <3>3. Without(buckets, key)
      BY <1>2, <2>3 DEF Displaced
    <3>4. ItemsOf(buckets') \cup {buckets[at].item} = ItemsOf(buckets) \cup {hand.item}
      BY <3>1, SetRoundFacts, ItemsPut
    <3>5. OnceIn(buckets') /\ Without(buckets', buckets[at].item.key)
      BY <1>1, <3>1, <3>3, SetRoundFacts, PutOnce
    <3>6. buckets'[at].dib # 0 /\ buckets'[at].item = call.item
      BY <1>1, <3>1, SetRoundFacts DEF Full
    <3>7. Behind(n, buckets', Fwd(n, at), call.item)
      BY <3>6, SetRoundFacts, FirstBehind
    <3>8. DictInv'
      BY <2>1, <2>2, <3>1, <3>2, <3>5, <3>7, SetRoundFacts DEF DictInv, KeysInv, SearchInv
    <3>9. Contents' = Contents \cup {call.item}
      BY <1>1, <3>1, <3>2, <3>4, SetRoundFacts
    <3>10. Dict!Next
      BY <1>1, <3>2, <3>3, <3>9, SetRoundFacts, SetsNew
    <3>11. SetsItem(call.item)
      BY <1>3, <1>4, <3>2, <3>3, <3>9 DEF SetsItem, Committed
    <3> QED
      BY <3>8, <3>10, <3>11 DEF DictStep
  <2>4. CASE ~Displaced(buckets[at])
    <3>1. buckets' = buckets /\ hand'.item = hand.item
      BY <1>7, <2>1, <2>4, SetRoundFacts, PassesBy
    <3>2. ~HasDisplaced' /\ Result' = Result
      BY <1>1, <2>1, <3>1, SetRoundFacts DEF HasDisplaced, Result
    <3>3. NotPassed(n, buckets, Fwd(n, at), h, key)
      BY <1>1, <1>7, SetRoundFacts, NotPassedOn
    <3>4. Searching'
      BY <2>1, <2>2, <3>1, <3>3, SetRoundFacts DEF Searching
    <3>5. DictInv'
      BY <1>1, <2>1, <3>1, <3>2, <3>4, SetRoundFacts DEF DictInv, KeysInv, SearchInv
    <3> QED
      BY <1>1, <1>3, <2>1, <3>1, <3>2, <3>5, SetRoundFacts DEF DictStep
  <2> QED
    BY <2>3, <2>4
<1> QED
  BY <1>5, <1>6, <1>7

LEMMA SetRoundDict ==
    ASSUME MapInv, DictInv, SetRound
    PROVE  /\ DictInv' /\ DictStep
           /\ \/ SetsItem(call.item)
              \/ Contents' = Contents /\ Committed' = Committed /\ (Idle' => Committed')
<1>1. CASE HasDisplaced
  BY <1>1, DisplacedRound DEF DictStep
<1>2. CASE ~HasDisplaced
  <2>1. /\ DictInv' /\ DictStep
        /\ \/ SetsItem(call.item)
           \/ ~Committed /\ Contents' = Contents /\ ~HasDisplaced' /\ call' = call
    BY <1>2, OwnRound
  <2>2. call' = call => ~Idle'
    BY SetRoundFacts DEF Idle
  <2> QED
    BY <2>1, <2>2 DEF Committed
<1> QED
  BY <1>1, <1>2

LEMMA OnlyLooks ==
    ASSUME MapInv, DictInv, call.op \in {"none", "get"}, call'.op \in {"none", "get"},
           UNCHANGED <<hash, buckets, old, hand>>
    PROVE  /\ KeysInv' /\ ~HasDisplaced /\ ~HasDisplaced' /\ Result = last /\ Result' = last'
           /\ Contents = ItemsOf(buckets) /\ Contents' = Contents /\ nbuckets' = nbuckets
<1>1. ~HasDisplaced /\ ~HasDisplaced' /\ ~Extra /\ ~Extra' /\ Result = last /\ Result' = last'
  BY DEF HasDisplaced, Extra, Result
<1>2. old = NoOld
  BY DEF MapInv, CountInv
<1>3. Rest = {} /\ Rest' = {}
  BY <1>2, NoRest DEF Rest
<1>4. Contents = ItemsOf(buckets) /\ Contents' = ItemsOf(buckets)
  BY <1>1, <1>3, ContentsParts
<1>5. KeysInv'
  BY <1>1 DEF DictInv, KeysInv
<1> QED
  BY <1>1, <1>4, <1>5 DEF nbuckets

LEMMA GetDict ==
    ASSUME MapInv, DictInv, NEW key \in Key, Get(key)
    PROVE  DictInv' /\ DictStep /\ Contents' = Contents
<1>1. /\ UNCHANGED <<hash, buckets, old, hand>> /\ last' = last /\ passed' = passed
      /\ call.op = "none" /\ call'.op = "get" /\ call'.item.key = key
      /\ at' = hash[key] % nbuckets
  BY DEF Get, Idle, Start, Home
<1>2. /\ KeysInv' /\ ~HasDisplaced' /\ Result' = Result /\ Contents' = Contents
      /\ nbuckets' = nbuckets
  BY <1>1, OnlyLooks
<1>3. Searching'
  BY <1>1, <1>2, MapFacts, SearchBegins DEF Searching
<1> QED
  BY <1>1, <1>2, <1>3 DEF DictInv, SearchInv, DictStep

LEMMA GetRoundDict ==
    ASSUME MapInv, DictInv, GetRound
    PROVE  /\ DictInv' /\ DictStep /\ Contents' = Contents
           /\ \/ UNCHANGED <<call, last>>
              \/ /\ call'.op = "none" /\ Result = last
                 /\ last' = Answer("get", call.item.key, Dict!Found(call.item.key))
<1> DEFINE n == nbuckets
           key == call.item.key
           h == hash[key] % n
<1>1. /\ UNCHANGED <<hash, buckets, old, hand>> /\ passed' = passed
  BY DEF GetRound
<1>2. /\ call.op = "get" /\ call'.op \in {"none", "get"} /\ at \in 0..(n - 1) /\ key \in Key
      /\ OnceIn(buckets) /\ NotPassed(n, buckets, at, h, key)
  <2>1. call.op = "get" /\ call'.op \in {"none", "get"}
    BY DEF GetRound, Return, NoCall
  <2> QED
    BY <2>1 DEF MapInv, MapTypes, HandInv, DictInv, KeysInv, SearchInv, Searching
<1>3. /\ KeysInv' /\ ~HasDisplaced' /\ Result' = last' /\ Result = last
      /\ Contents = ItemsOf(buckets) /\ Contents' = Contents /\ nbuckets' = nbuckets
  BY <1>1, <1>2, OnlyLooks
<1>4. /\ n \in Nat \ {0} /\ buckets \in Table(n) /\ InOrder(n, buckets, hash)
      /\ hash \in [Key -> Nat] /\ at \in DOMAIN buckets /\ h \in 0..(n - 1)
  BY <1>2, MapFacts, NumBuckets, AtHome
<1>5. CASE buckets[at].dib = 0
  <2>1. call' = NoCall /\ last' = Answer("get", key, NoItem)
    BY <1>2, <1>5 DEF GetRound, Return
  <2>2. Without(buckets, key)
    <3>1. 0 < 1 + Back(n, at, h)
      BY <1>2, <1>4, BackIs
    <3> QED
      BY <1>2, <1>4, <1>5, <3>1, NotThere
  <2>3. Dict!Found(key) = NoItem
    BY <1>3, <2>2, FoundNone
  <2>4. Dict!Get(key)
    BY <1>1, <1>3, <2>1, <2>3 DEF Dict!Get, Dict!Answer, Answer
  <2>5. Dict!Next
    BY <1>2, <2>4 DEF Dict!Next
  <2> QED
    BY <1>3, <2>1, <2>3, <2>5 DEF DictInv, SearchInv, DictStep, NoCall
<1>6. CASE buckets[at].dib # 0 /\ buckets[at].item.key = key
  <2>1. call' = NoCall /\ last' = Answer("get", key, buckets[at].item)
    BY <1>2, <1>6 DEF GetRound, Return, Matches
  <2>2. Dict!Found(key) = buckets[at].item
    BY <1>2, <1>3, <1>4, <1>6, FoundOne
  <2>3. Dict!Get(key)
    BY <1>1, <1>3, <2>1, <2>2 DEF Dict!Get, Dict!Answer, Answer
  <2>4. Dict!Next
    BY <1>2, <2>3 DEF Dict!Next
  <2> QED
    BY <1>3, <2>1, <2>2, <2>4 DEF DictInv, SearchInv, DictStep, NoCall
<1>7. CASE buckets[at].dib # 0 /\ buckets[at].item.key # key
  <2>1. at' = Fwd(n, at) /\ call' = call /\ last' = last
    BY <1>2, <1>7 DEF GetRound, Matches, After, Fwd
  <2>2. NotPassed(n, buckets, Fwd(n, at), h, key)
    BY <1>2, <1>4, <1>7, NotPassedOn
  <2>3. Searching'
    BY <1>1, <1>3, <2>1, <2>2 DEF Searching
  <2>4. DictInv'
    BY <1>2, <1>3, <2>1, <2>3 DEF DictInv, SearchInv
  <2>5. Result' = Result
    BY <1>3, <2>1
  <2> QED
    BY <1>1, <1>3, <2>1, <2>4, <2>5 DEF DictStep
<1> QED
  BY <1>5, <1>6, <1>7

\* The iteration has passed what is before the cursor.
Iterated ==
    /\ cursor \in Nat
    /\ passed = {buckets[p].item : p \in {q \in DOMAIN buckets : q < cursor /\ buckets[q].dib # 0}}

LEMMA LeastOf ==
    ASSUME NEW S \in SUBSET Nat, S # {}
    PROVE  \E x \in S : \A y \in S : x <= y
<1> DEFINE R == {ss \in Nat \X Nat : ss[1] < ss[2]}
<1>1. IsWellFoundedOn(R, Nat)
  BY NatLessThanWellFounded DEF OpToRel
<1>2. PICK x \in S : \A y \in S : ~(<<y, x>> \in R)
  <2> HIDE DEF R
  <2> QED
    BY <1>1, WFMin
<1>3. ASSUME NEW y \in S PROVE x <= y
  <2>1. x \in Nat /\ y \in Nat /\ <<y, x>> \in Nat \X Nat
    OBVIOUS
  <2>2. ~(y < x)
    <3> SUFFICES ASSUME y < x PROVE <<y, x>> \in R
      BY <1>2
    <3> QED
      BY <2>1
  <2> QED
    BY <2>1, <2>2
<1> QED
  BY <1>3

LEMMA IterDict ==
    ASSUME MapInv, DictInv, Iterated, Iter
    PROVE  /\ DictInv' /\ DictStep /\ Contents' = Contents /\ Iterated'
           /\ call'.op = "none"
           /\ \/ last'.op = "end" /\ passed' = Contents /\ passed' = passed
              \/ /\ last'.op = "iter" /\ last'.ans \in Contents
                 /\ passed' = passed \cup {last'.ans}
<1> DEFINE rest == {p \in DOMAIN buckets : p >= cursor /\ buckets[p].dib # 0}
           p0 == CHOOSE p \in rest : \A q \in rest : p <= q
           before(c) == {q \in DOMAIN buckets : q < c /\ buckets[q].dib # 0}
<1>1. /\ UNCHANGED <<hash, buckets, old, hand>> /\ call.op = "none" /\ call' = NoCall
      /\ call'.op = "none"
  BY DEF Iter, Idle, Return, NoCall
<1>2. /\ KeysInv' /\ ~HasDisplaced' /\ Result' = last' /\ Contents = ItemsOf(buckets)
      /\ Contents' = Contents
  BY <1>1, OnlyLooks
<1>3. /\ nbuckets \in Nat \ {0} /\ buckets \in Table(nbuckets)
      /\ DOMAIN buckets = 0..(nbuckets - 1) /\ OnceIn(buckets) /\ cursor \in Nat
  BY MapFacts, NumBuckets DEF DictInv, KeysInv, Iterated
<1>4. DictInv'
  BY <1>1, <1>2 DEF DictInv, SearchInv
<1>5. CASE rest = {}
  <2>1. cursor' = nbuckets /\ passed' = passed /\ last' = Answer("end", NoItem, NoItem)
    BY <1>5 DEF Iter, Return
  <2>2. before(cursor) = Taken(buckets) /\ before(nbuckets) = Taken(buckets)
    BY <1>3, <1>5 DEF Taken
  <2>3. passed = Contents
    BY <1>2, <2>2 DEF Iterated, ItemsOf, Taken
  <2>4. Dict!EndIter
    BY <1>2, <2>1, <2>3 DEF Dict!EndIter, Dict!Answer, Answer
  <2>5. Iterated'
    BY <1>1, <1>3, <2>1, <2>2 DEF Iterated
  <2>6. last'.op = "end"
    BY <2>1 DEF Answer
  <2> QED
    BY <1>1, <1>2, <1>4, <2>1, <2>3, <2>4, <2>5, <2>6 DEF DictStep, Dict!Next
<1>6. CASE rest # {}
  <2>1. p0 \in rest /\ \A q \in rest : p0 <= q
    <3>1. \E p \in rest : \A q \in rest : p <= q
      <4>1. rest \subseteq Nat
        BY <1>3
      <4> HIDE DEF rest
      <4> QED
        BY <1>6, <4>1, LeastOf
    <3> QED
      BY <3>1
  <2>2. /\ cursor' = p0 + 1 /\ passed' = passed \cup {buckets[p0].item}
        /\ last' = Answer("iter", buckets[p0].item.key, buckets[p0].item)
    BY <1>6 DEF Iter, Return
  <2> HIDE DEF p0
  <2>3. p0 \in Nat /\ p0 \in DOMAIN buckets /\ buckets[p0].dib # 0 /\ p0 >= cursor
    BY <1>3, <2>1
  <2>4. before(p0 + 1) = before(cursor) \cup {p0}
    BY <1>3, <2>1, <2>3
  <2>5. Iterated'
    BY <1>1, <2>2, <2>3, <2>4 DEF Iterated
  <2>6. buckets[p0].item \in Contents \ passed
    <3>1. buckets[p0].item \in Contents
      BY <1>2, <2>3 DEF ItemsOf
    <3>2. \A q \in before(cursor) : buckets[q].item # buckets[p0].item
      BY <1>3, <2>3 DEF OnceIn
    <3> QED
      BY <3>1, <3>2 DEF Iterated
  <2>7. buckets[p0].item \in Item
    BY <1>3, <2>3, CellFacts DEF Table, Free
  <2>8. Dict!Pass(buckets[p0].item)
    BY <1>2, <2>2, <2>6 DEF Dict!Pass, Dict!Answer, Answer
  <2>9. Dict!Next
    BY <2>7, <2>8 DEF Dict!Next, Dict!Item, Item
  <2>10. /\ last'.op = "iter" /\ last'.ans \in Contents
         /\ passed' = passed \cup {last'.ans}
    BY <2>2, <2>6 DEF Answer
  <2> QED
    BY <1>1, <1>2, <1>4, <2>5, <2>9, <2>10 DEF DictStep
<1> QED
  BY <1>5, <1>6

LEMMA StutterDict ==
    ASSUME MapInv, DictInv, UNCHANGED map_vars
    PROVE  DictInv' /\ UNCHANGED <<Contents, Result, passed>>
<1>1. UNCHANGED <<hash, buckets, count, old, hand, at, call, last, passed>>
  BY DEF map_vars
<1>2. /\ Rest' = Rest /\ nbuckets' = nbuckets /\ HasDisplaced' = HasDisplaced
      /\ Extra' = Extra /\ Result' = Result
  BY <1>1 DEF Rest, nbuckets, HasDisplaced, Extra, Result
<1>3. Contents' = Contents
  BY <1>1, <1>2, ContentsParts
<1>4. KeysInv' /\ SearchInv'
  BY <1>1, <1>2 DEF DictInv, KeysInv, SearchInv, Searching
<1> QED
  BY <1>1, <1>2, <1>3, <1>4 DEF DictInv

\* An empty map.
LEMMA InitDict ==
    ASSUME NEW Hs, MapInit(Hs)
    PROVE  /\ DictInv /\ Contents = {} /\ Iterated /\ Idle
           /\ Result = Answer("new", NoItem, NoItem)
<1>1. /\ buckets = Buckets(Cap) /\ old = NoOld /\ hand = Free /\ call.op = "none"
      /\ cursor = 0 /\ passed = {} /\ last = Answer("new", NoItem, NoItem)
  BY DEF MapInit, NoCall
<1>2. ~HasDisplaced /\ ~Extra /\ Result = last
  BY <1>1 DEF HasDisplaced, Extra, Result
<1>3. \A p \in DOMAIN buckets : buckets[p].dib = 0
  BY <1>1 DEF Buckets, Free
<1>4. Contents = {}
  <2>1. ItemsOf(buckets) = {}
    BY <1>3 DEF ItemsOf
  <2>2. Rest = {}
    BY <1>1, NoRest
  <2> QED
    BY <1>2, <2>1, <2>2, ContentsParts
<1>5. DictInv
  BY <1>1, <1>2, <1>3 DEF DictInv, KeysInv, SearchInv, OnceIn
<1>6. Iterated
  BY <1>1, <1>3 DEF Iterated
<1> QED
  BY <1>1, <1>2, <1>4, <1>5, <1>6 DEF Idle

\* The call that a step of the map leaves in progress.
LEMMA MapStepCall ==
    ASSUME MapStep
    PROVE  /\ call.op \in {"get", "set", "resize"}
           /\ UNCHANGED <<cursor, passed>>
           /\ \/ call'.op = "none"
              \/ call'.item = call.item /\ call'.op = call.op
              \/ call'.item = call.item /\ call'.op = "set" /\ call.op = "resize"
           /\ call.op = "get" => UNCHANGED buckets
BY DEF MapStep, ResizeNext, ResizePlace, SetRound, GetRound, Return, Start, NoCall

\* A step of the map, seen by who has made the call.
LEMMA MapStepKeeps ==
    ASSUME MapInv, DictInv, MapStep
    PROVE  /\ MapInv' /\ DictInv' /\ DictStep
           /\ call.op = "get" => Contents' = Contents
           /\ call.op # "get" =>
                 \/ SetsItem(call.item)
                 \/ Contents' = Contents /\ Committed' = Committed /\ (Idle' => Committed')
<1>1. CASE ResizeNext
  <2>1. Contents' = Contents /\ MapInv' /\ DictInv' /\ DictStep
    BY <1>1, ResizeNextKeeps, ResizeNextDict
  <2>2. call.op = "resize" /\ call'.op \in {"resize", "set"} /\ ~HasDisplaced /\ ~HasDisplaced'
    <3>1. call.op = "resize" /\ ~HasDisplaced
      BY <1>1 DEF ResizeNext, HasDisplaced
    <3>2. \/ call' = call
          \/ call' = [op |-> "set", item |-> call.item] /\ hand' = [dib |-> 1, item |-> call.item]
      BY <1>1 DEF ResizeNext, Start
    <3> QED
      BY <3>1, <3>2 DEF HasDisplaced
  <2> QED
    BY <2>1, <2>2 DEF Committed, Idle
<1>2. CASE ResizePlace
  <2>1. Contents' = Contents /\ MapInv' /\ DictInv' /\ DictStep
    BY <1>2, ResizePlaceKeeps, ResizePlaceDict
  <2>2. call.op = "resize" /\ call' = call
    BY <1>2 DEF ResizePlace
  <2> QED
    BY <2>1, <2>2 DEF Committed, Idle, HasDisplaced
<1>3. CASE SetRound
  <2>1. call.op # "get"
    BY <1>3 DEF SetRound
  <2> QED
    BY <1>3, <2>1, SetRoundKeeps, SetRoundDict
<1>4. CASE GetRound
  <2>1. call.op = "get"
    BY <1>4 DEF GetRound
  <2> QED
    BY <1>4, <2>1, GetRoundKeeps, GetRoundDict
<1> QED
  BY <1>1, <1>2, <1>3, <1>4 DEF MapStep

\* What there is for a key is the only item with it.
LEMMA FoundIs ==
    ASSUME MapInv, DictInv, call.op \in {"none", "get"}, NoItem \notin Item, NEW key
    PROVE  IF Dict!Found(key) = NoItem THEN \A x \in Contents : x.key # key
           ELSE /\ Dict!Found(key) \in Contents /\ Dict!Found(key).key = key
                /\ \A x \in Contents : x.key = key => x = Dict!Found(key)
<1>1. /\ nbuckets \in Nat \ {0} /\ buckets \in Table(nbuckets)
      /\ DOMAIN buckets = 0..(nbuckets - 1) /\ OnceIn(buckets)
  BY MapFacts, NumBuckets DEF DictInv, KeysInv
<1>2. Contents = ItemsOf(buckets)
  BY ContentsSet DEF HasDisplaced, ItemsOf, Taken
<1>3. CASE Without(buckets, key)
  BY <1>2, <1>3, FoundNone DEF ItemsOf, Without
<1>4. ASSUME NEW p \in DOMAIN buckets, buckets[p].dib # 0, buckets[p].item.key = key
      PROVE  /\ Dict!Found(key) # NoItem /\ Dict!Found(key) \in Contents
             /\ Dict!Found(key).key = key
             /\ \A x \in Contents : x.key = key => x = Dict!Found(key)
  <2>1. buckets[p].item \in Item
    BY <1>1, <1>4, CellFacts DEF Table, Free
  <2>2. buckets[p].item # NoItem
    BY <2>1
  <2> QED
    BY <1>1, <1>2, <1>4, <2>2, FoundOne
<1> QED
  BY <1>3, <1>4 DEF Without
-----------------------------------------------------------------------------
(* Registration *)

\* The items of fields and of functions, in the collection fs.
IsField(fs, x) ==
    \E f \in DOMAIN fs : fs[f].off \in Key /\ x = [key |-> fs[f].field, val |-> <<"td", f>>]

IsOps(fs, x) ==
    \E f \in DOMAIN fs, e \in DOMAIN Examples :
        fs[f].off \in Key /\ x = [key |-> fs[f].off, val |-> <<"ops", Examples[e].ops>>]

Known(fs, x) == IsField(fs, x) \/ IsOps(fs, x)

\* The calls that are made before the iteration begins.
Entering == {"field", "field added", "example", "example found", "ops added"}

RegTypes ==
    /\ fields \in Collections /\ i \in Nat \ {0}
    /\ rpc \in Entering \cup {"fixup", "entry", "ops found", "done"}
    /\ rpc = "field added" => i <= Len(fields)
    /\ rpc \in {"example found", "ops added"} => i <= Len(Examples)

\* What there is for a key in C, the answer that a search will give.
FoundIn(C, key) ==
    IF \E x \in C : x.key = key THEN CHOOSE x \in C : x.key = key ELSE NoItem

LEMMA FoundThere == \A key : Dict!Found(key) = FoundIn(Contents, key)
BY DEF Dict!Found, FoundIn

\* Which call is in progress, and whose answer there is.
Calls ==
    /\ rpc \in {"field", "example", "fixup", "entry", "done"} => Idle
    /\ rpc \in {"field added", "ops added"} => call.op # "get"
    /\ rpc \in {"example found", "ops found"} => call.op \in {"none", "get"}
    /\ rpc = "example found" /\ ~Idle => call.item.key = Examples[i].field
    /\ rpc = "example found" /\ Idle => last.ans = FoundIn(Contents, Examples[i].field)
    /\ rpc = "entry" => \/ last.op = "end" /\ passed = Contents
                        \/ last.op = "iter" /\ last.ans \in Contents
    /\ rpc = "ops found" =>
          /\ i \in DOMAIN fields /\ fields[i].off \in Key
          /\ ~Idle => call.item.key = fields[i].off
          /\ Idle => last.ans = FoundIn(Contents, fields[i].off)

Items ==
    /\ \A x \in Contents : Known(fields, x)
    /\ call.op \in {"set", "resize"} => Known(fields, call.item)

\* Once the iteration has begun nothing is entered any more.
Iteration ==
    /\ rpc \in Entering => cursor = 0 /\ passed = {}
    /\ rpc \in {"fixup", "entry", "ops found"} => Iterated

RegInv == MapInv /\ DictInv /\ RegTypes /\ Calls /\ Items /\ Iteration

LEMMA AnElement ==
    ASSUME NEW S, NEW seq \in Seq(S), NEW k \in DOMAIN seq
    PROVE  seq[k] \in S
OBVIOUS

LEMMA AFieldIs ==
    ASSUME NEW c \in Collections, NEW f \in Nat \ {0}, f <= Len(c)
    PROVE  /\ f \in DOMAIN c /\ c[f].field \in Key /\ c[f].off \in Key \cup {NoOps}
           /\ <<"td", f>> \in Value
<1>1. c \in Seq([field : Key, off : Key \cup {NoOps}])
  BY RegistrationAssumption
<1>2. f \in DOMAIN c
  BY <1>1
<1>3. c[f] \in [field : Key, off : Key \cup {NoOps}]
  BY <1>1, <1>2, AnElement
<1> QED
  BY <1>2, <1>3, RegistrationAssumption

LEMMA AnExampleIs ==
    ASSUME NEW e \in Nat \ {0}, e <= Len(Examples)
    PROVE  e \in DOMAIN Examples /\ Examples[e].field \in Key /\ <<"ops", Examples[e].ops>> \in Value
<1> DEFINE O == {Examples[d].ops : d \in DOMAIN Examples}
<1>1. Examples \in Seq([field : Key, ops : O])
  BY RegistrationAssumption
<1>2. e \in DOMAIN Examples
  BY <1>1
<1>3. Examples[e].field \in Key
  <2> HIDE DEF O
  <2>1. Examples[e] \in [field : Key, ops : O]
    BY <1>1, <1>2, AnElement
  <2> QED
    BY <2>1
<1> QED
  BY <1>2, <1>3, RegistrationAssumption

LEMMA RegInitInv == RegInit => RegInv
<1> SUFFICES ASSUME RegInit PROVE RegInv
  OBVIOUS
<1>1. fields \in Collections /\ MapInit(Hashes) /\ rpc \in {"field", "done"} /\ i = 1
  BY DEF RegInit
<1>2. MapInv
  BY <1>1, InitMap, RegistrationAssumption
<1>3. DictInv /\ Contents = {} /\ Iterated /\ Idle
  BY <1>1, InitDict
<1>4. RegTypes /\ Calls /\ Items
  <2>1. RegTypes
    <3>1. i \in Nat \ {0}
      BY <1>1
    <3>2. rpc \in Entering \cup {"fixup", "entry", "ops found", "done"}
      BY <1>1 DEF Entering
    <3>3. rpc # "field added" /\ rpc \notin {"example found", "ops added"}
      BY <1>1
    <3> QED
      BY <1>1, <3>1, <3>2, <3>3 DEF RegTypes
  <2>2. Calls
    BY <1>1, <1>3 DEF Calls
  <2>3. Items
    BY <1>3 DEF Items, Idle
  <2> QED
    BY <2>1, <2>2, <2>3
<1>5. Iteration
  BY <1>1 DEF Iteration, Entering, MapInit
<1> QED
  BY <1>2, <1>3, <1>4, <1>5 DEF RegInv

\* An item is entered, or there is no memory for it.
LEMMA SetKnown ==
    ASSUME RegInv, NEW x \in Item, Known(fields, x), Set(x), fields' = fields
    PROVE  /\ MapInv' /\ DictInv' /\ DictStep /\ Items'
           /\ call'.op # "get" /\ UNCHANGED <<cursor, passed>>
<1>1. MapInv' /\ DictInv' /\ DictStep /\ Contents' = Contents
  BY SetKeeps, SetDict DEF RegInv
<1>2. /\ call'.op = "none" \/ (call'.op \in {"set", "resize"} /\ call'.item = x)
      /\ UNCHANGED <<cursor, passed>>
  BY DEF Set, Return, Start, NoCall
<1>3. Items'
  BY <1>1, <1>2 DEF Items, RegInv
<1> QED
  BY <1>1, <1>2, <1>3

LEMMA GetKnown ==
    ASSUME RegInv, NEW key \in Key, Get(key), fields' = fields
    PROVE  /\ MapInv' /\ DictInv' /\ DictStep /\ Items'
           /\ call'.op = "get" /\ call'.item.key = key
           /\ UNCHANGED <<cursor, passed, buckets>>
<1>1. MapInv' /\ DictInv' /\ DictStep /\ Contents' = Contents
  BY GetKeeps, GetDict DEF RegInv
<1>2. /\ call'.op = "get" /\ call'.item.key = key
      /\ UNCHANGED <<cursor, passed, buckets>>
  BY DEF Get, Start
<1>3. Items'
  BY <1>1, <1>2 DEF Items, RegInv
<1> QED
  BY <1>1, <1>2, <1>3

LEMMA Quiet ==
    ASSUME RegInv, UNCHANGED map_vars, fields' = fields
    PROVE  /\ MapInv' /\ DictInv' /\ Items'
           /\ UNCHANGED <<Contents, Result, passed, cursor, call, last, buckets>>
           /\ Idle' = Idle /\ DictStep
<1>1. MapInv' /\ DictInv' /\ UNCHANGED <<Contents, Result, passed>>
  BY StutterKeeps, StutterDict DEF RegInv
<1>2. UNCHANGED <<cursor, call, last, buckets>>
  BY DEF map_vars
<1>3. Items'
  BY <1>1, <1>2 DEF Items, RegInv
<1> QED
  BY <1>1, <1>2, <1>3 DEF Idle, DictStep

\* What a search may return for key: the only item of C with it, if there is one.
Finds(C, key, x) ==
    IF x = NoItem THEN \A y \in C : y.key # key
    ELSE x \in C /\ x.key = key /\ \A y \in C : y.key = key => y = x

LEMMA SearchFinds ==
    ASSUME RegInv, Idle, NEW key
    PROVE  Finds(Contents, key, FoundIn(Contents, key))
<1>1. NoItem \notin Item
  BY RegistrationAssumption
<1> QED
  BY <1>1, FoundIs, FoundThere DEF RegInv, Idle, Finds

LEMMA AddFieldKeeps == ASSUME RegInv, AddField PROVE RegInv' /\ DictStep
<1>1. rpc = "field" /\ i <= Len(fields) /\ fields' = fields /\ fields \in Collections /\ i \in Nat \ {0}
  BY DEF AddField, RegInv, RegTypes
<1>2. cursor = 0 /\ passed = {} /\ Idle
  BY <1>1 DEF RegInv, Iteration, Calls, Entering
<1>3. CASE fields[i].off = NoOps
  <2>1. rpc' = rpc /\ i' = i + 1 /\ UNCHANGED map_vars
    BY <1>3 DEF AddField
  <2>2. /\ MapInv' /\ DictInv' /\ Items' /\ DictStep
        /\ UNCHANGED <<Contents, Result, passed, cursor, call, last>> /\ Idle'
    BY <1>1, <1>2, <2>1, Quiet
  <2>3. RegTypes' /\ Calls' /\ Iteration'
    BY <1>1, <1>2, <2>1, <2>2 DEF RegTypes, Calls, Iteration, Entering
  <2> QED
    BY <2>2, <2>3 DEF RegInv
<1>4. CASE fields[i].off # NoOps
  <2>1. Set(FieldItem(i)) /\ rpc' = "field added" /\ i' = i
    BY <1>4 DEF AddField
  <2>2. /\ i \in DOMAIN fields /\ fields[i].field \in Key /\ fields[i].off \in Key
        /\ <<"td", i>> \in Value
    BY <1>1, <1>4, AFieldIs
  <2>3. FieldItem(i) \in Item /\ Known(fields, FieldItem(i))
    BY <2>2 DEF FieldItem, Item, Known, IsField
  <2>4. /\ MapInv' /\ DictInv' /\ Items' /\ DictStep
        /\ call'.op # "get" /\ UNCHANGED <<cursor, passed>>
    BY <1>1, <2>1, <2>3, SetKnown
  <2>5. RegTypes' /\ Calls' /\ Iteration'
    BY <1>1, <1>2, <2>1, <2>4 DEF RegTypes, Calls, Iteration, Entering
  <2> QED
    BY <2>4, <2>5 DEF RegInv
<1> QED
  BY <1>3, <1>4

LEMMA FieldAddedKeeps == ASSUME RegInv, FieldAdded PROVE RegInv' /\ DictStep
<1>1. /\ rpc = "field added" /\ Idle /\ UNCHANGED map_vars /\ fields' = fields
      /\ i \in Nat \ {0} /\ fields \in Collections /\ cursor = 0 /\ passed = {}
  BY DEF FieldAdded, RegInv, RegTypes, Iteration, Entering
<1>2. \/ rpc' = "done" /\ i' = i
      \/ rpc' = "field" /\ i' = i + 1
  <2>1. CASE last.op = "oom"
    BY <2>1 DEF FieldAdded, Fail
  <2>2. CASE last.op # "oom"
    BY <2>2 DEF FieldAdded
  <2> QED
    BY <2>1, <2>2
<1>3. /\ MapInv' /\ DictInv' /\ Items' /\ DictStep /\ Idle'
      /\ UNCHANGED <<cursor, passed, call, last>>
  BY <1>1, Quiet
<1>4. i' \in Nat \ {0}
  <2>1. i \in Nat \ {0}
    BY <1>1
  <2> QED
    BY <1>2, <2>1
<1>5. RegTypes' /\ Calls' /\ Iteration'
  BY <1>1, <1>2, <1>3, <1>4 DEF RegTypes, Calls, Iteration, Entering
<1> QED
  BY <1>3, <1>5 DEF RegInv

LEMMA EndFieldsKeeps == ASSUME RegInv, EndFields PROVE RegInv' /\ DictStep
<1>1. /\ rpc = "field" /\ Idle /\ UNCHANGED map_vars /\ fields' = fields
      /\ fields \in Collections /\ cursor = 0 /\ passed = {}
      /\ rpc' = "example" /\ i' = 1
  BY DEF EndFields, RegInv, RegTypes, Calls, Iteration, Entering
<1>2. /\ MapInv' /\ DictInv' /\ Items' /\ DictStep /\ Idle'
      /\ UNCHANGED <<cursor, passed, call, last>>
  BY <1>1, Quiet
<1>3. i' \in Nat \ {0}
  BY <1>1
<1>4. RegTypes' /\ Calls' /\ Iteration'
  BY <1>1, <1>2, <1>3 DEF RegTypes, Calls, Iteration, Entering
<1> QED
  BY <1>2, <1>4 DEF RegInv

LEMMA FindExampleKeeps == ASSUME RegInv, FindExample PROVE RegInv' /\ DictStep
<1>1. /\ rpc = "example" /\ i <= Len(Examples) /\ fields' = fields /\ i' = i
      /\ i \in Nat \ {0} /\ fields \in Collections /\ cursor = 0 /\ passed = {}
      /\ Get(Examples[i].field) /\ rpc' = "example found"
  BY DEF FindExample, RegInv, RegTypes, Iteration, Entering
<1>2. Examples[i].field \in Key
  BY <1>1, AnExampleIs
<1>3. /\ MapInv' /\ DictInv' /\ Items' /\ DictStep
      /\ call'.op = "get" /\ call'.item.key = Examples[i].field
      /\ UNCHANGED <<cursor, passed>>
  BY <1>1, <1>2, GetKnown
<1>4. ~Idle'
  BY <1>3 DEF Idle
<1>5. RegTypes' /\ Calls' /\ Iteration'
  BY <1>1, <1>3, <1>4 DEF RegTypes, Calls, Iteration, Entering
<1> QED
  BY <1>3, <1>5 DEF RegInv

\* An item whose key is a field's is a field's.
LEMMA WhoseKey ==
    ASSUME NEW c \in Collections, NEW x, Known(c, x),
           NEW e \in DOMAIN Examples, x.key = Examples[e].field
    PROVE  \E f \in DOMAIN c : /\ c[f].off \in Key /\ c[f].field = x.key
                               /\ x.val = <<"td", f>>
<1>1. CASE IsField(c, x)
  <2>1. PICK f \in DOMAIN c :
            c[f].off \in Key /\ x = [key |-> c[f].field, val |-> <<"td", f>>]
    BY <1>1 DEF IsField
  <2> QED
    BY <2>1
<1>2. CASE IsOps(c, x)
  <2>1. PICK f \in DOMAIN c : x.key = c[f].off
    BY <1>2 DEF IsOps
  <2>2. Examples[e].field # c[f].off
    BY RegistrationAssumption
  <2> QED
    BY <2>1, <2>2
<1> QED
  BY <1>1, <1>2 DEF Known

LEMMA ExampleFoundKeeps == ASSUME RegInv, ExampleFound PROVE RegInv' /\ DictStep
<1>1. /\ rpc = "example found" /\ Idle /\ fields' = fields /\ i <= Len(Examples)
      /\ i \in Nat \ {0} /\ fields \in Collections /\ cursor = 0 /\ passed = {}
  BY DEF ExampleFound, RegInv, RegTypes, Iteration, Entering
<1>2. CASE last.ans = NoItem
  <2>1. rpc' = "example" /\ i' = i + 1 /\ UNCHANGED map_vars
    BY <1>2 DEF ExampleFound
  <2>2. /\ MapInv' /\ DictInv' /\ Items' /\ DictStep /\ Idle'
        /\ UNCHANGED <<cursor, passed, call, last>>
    BY <1>1, <2>1, Quiet
  <2>3. i' \in Nat \ {0}
    <3>1. i \in Nat \ {0} /\ i' = i + 1
      BY <1>1, <2>1
    <3> QED
      BY <3>1
  <2>4. RegTypes' /\ Calls' /\ Iteration'
    BY <1>1, <2>1, <2>2, <2>3 DEF RegTypes, Calls, Iteration, Entering
  <2> QED
    BY <2>2, <2>4 DEF RegInv
<1>3. CASE last.ans # NoItem
  <2> DEFINE off == fields[last.ans.val[2]].off
  <2>1. Set(Registered(off, i)) /\ rpc' = "ops added" /\ i' = i
    BY <1>3 DEF ExampleFound
  <2>2. /\ i \in DOMAIN Examples /\ <<"ops", Examples[i].ops>> \in Value
    BY <1>1, AnExampleIs
  <2>3. Known(fields, last.ans) /\ last.ans.key = Examples[i].field
    <3>1. last.ans = FoundIn(Contents, Examples[i].field)
      BY <1>1 DEF RegInv, Calls
    <3>2. last.ans \in Contents /\ last.ans.key = Examples[i].field
      BY <1>1, <1>3, <3>1, SearchFinds DEF Finds
    <3> QED
      BY <3>2 DEF RegInv, Items
  <2>4. PICK f \in DOMAIN fields : last.ans.val = <<"td", f>> /\ fields[f].off \in Key
    BY <1>1, <2>2, <2>3, WhoseKey
  <2>5. off = fields[f].off
    BY <2>4
  <2> HIDE DEF off
  <2>6. Registered(off, i) = [key |-> fields[f].off, val |-> <<"ops", Examples[i].ops>>]
    BY <2>5 DEF Registered, OpsItem
  <2>7. Registered(off, i) \in Item
    BY <2>2, <2>4, <2>6 DEF Item
  <2>8. Known(fields, Registered(off, i))
    BY <2>2, <2>4, <2>6 DEF Known, IsOps
  <2>9. /\ MapInv' /\ DictInv' /\ Items' /\ DictStep
        /\ call'.op # "get" /\ UNCHANGED <<cursor, passed>>
    BY <1>1, <2>1, <2>7, <2>8, SetKnown
  <2>10. RegTypes' /\ Calls' /\ Iteration'
    BY <1>1, <2>1, <2>9 DEF RegTypes, Calls, Iteration, Entering
  <2> QED
    BY <2>9, <2>10 DEF RegInv
<1> QED
  BY <1>2, <1>3

LEMMA OpsAddedKeeps == ASSUME RegInv, OpsAdded PROVE RegInv' /\ DictStep
<1>1. /\ rpc = "ops added" /\ Idle /\ UNCHANGED map_vars /\ fields' = fields
      /\ i \in Nat \ {0} /\ fields \in Collections /\ cursor = 0 /\ passed = {}
  BY DEF OpsAdded, RegInv, RegTypes, Iteration, Entering
<1>2. \/ rpc' = "done" /\ i' = i
      \/ rpc' = "example" /\ i' = i + 1
  <2>1. CASE last.op = "oom"
    BY <2>1 DEF OpsAdded, Fail
  <2>2. CASE last.op # "oom"
    BY <2>2 DEF OpsAdded
  <2> QED
    BY <2>1, <2>2
<1>3. /\ MapInv' /\ DictInv' /\ Items' /\ DictStep /\ Idle'
      /\ UNCHANGED <<cursor, passed, call, last>>
  BY <1>1, Quiet
<1>4. i' \in Nat \ {0}
  <2>1. i \in Nat \ {0}
    BY <1>1
  <2> QED
    BY <1>2, <2>1
<1>5. RegTypes' /\ Calls' /\ Iteration'
  BY <1>1, <1>2, <1>3, <1>4 DEF RegTypes, Calls, Iteration, Entering
<1> QED
  BY <1>3, <1>5 DEF RegInv

LEMMA EndExamplesKeeps == ASSUME RegInv, EndExamples PROVE RegInv' /\ DictStep
<1>1. /\ rpc = "example" /\ Idle /\ UNCHANGED map_vars /\ fields' = fields /\ i' = i
      /\ i \in Nat \ {0} /\ fields \in Collections /\ cursor = 0 /\ passed = {}
      /\ rpc' = "fixup"
  BY DEF EndExamples, RegInv, RegTypes, Calls, Iteration, Entering
<1>2. /\ MapInv' /\ DictInv' /\ Items' /\ DictStep /\ Idle'
      /\ UNCHANGED <<cursor, passed, call, last, buckets>>
  BY <1>1, Quiet
<1>3. Iterated
  <2>1. \A p \in DOMAIN buckets : ~(p < 0)
    BY MapFacts, NumBuckets DEF RegInv
  <2>2. {buckets[p].item : p \in {q \in DOMAIN buckets : q < 0 /\ buckets[q].dib # 0}} = {}
    BY <2>1
  <2> QED
    BY <1>1, <2>2 DEF Iterated
<1>4. Iterated'
  BY <1>2, <1>3 DEF Iterated
<1>5. RegTypes' /\ Calls' /\ Iteration'
  BY <1>1, <1>2, <1>4 DEF RegTypes, Calls, Iteration, Entering
<1> QED
  BY <1>2, <1>5 DEF RegInv

LEMMA NextEntryKeeps == ASSUME RegInv, NextEntry PROVE RegInv' /\ DictStep
<1>1. /\ rpc = "fixup" /\ fields' = fields /\ i' = i /\ rpc' = "entry" /\ Iter
      /\ i \in Nat \ {0} /\ fields \in Collections /\ Iterated
  BY DEF NextEntry, RegInv, RegTypes, Iteration
<1>2. /\ MapInv' /\ DictInv' /\ DictStep /\ Contents' = Contents /\ Iterated'
      /\ call'.op = "none"
      /\ \/ last'.op = "end" /\ passed' = Contents
         \/ last'.op = "iter" /\ last'.ans \in Contents
  BY <1>1, IterKeeps, IterDict DEF RegInv
<1>3. Idle'
  BY <1>2 DEF Idle
<1>4. Items'
  BY <1>1, <1>2 DEF Items, RegInv
<1>5. RegTypes' /\ Calls' /\ Iteration'
  BY <1>1, <1>2, <1>3 DEF RegTypes, Calls, Iteration, Entering
<1> QED
  BY <1>2, <1>4, <1>5 DEF RegInv

LEMMA EntryKeeps == ASSUME RegInv, Entry PROVE RegInv' /\ DictStep
<1>1. /\ rpc = "entry" /\ Idle /\ fields' = fields
      /\ i \in Nat \ {0} /\ fields \in Collections /\ Iterated
  BY DEF Entry, RegInv, RegTypes, Iteration
<1>2. CASE last.op = "end" \/ last.ans.val[1] = "ops"
  <2>1. rpc' \in {"done", "fixup"} /\ i' = i /\ UNCHANGED map_vars
    BY <1>2 DEF Entry
  <2>2. /\ MapInv' /\ DictInv' /\ Items' /\ DictStep /\ Idle'
        /\ UNCHANGED <<cursor, passed, call, last, buckets>>
    BY <1>1, <2>1, Quiet
  <2>3. Iterated'
    BY <1>1, <2>2 DEF Iterated
  <2>4. RegTypes' /\ Calls' /\ Iteration'
    BY <1>1, <2>1, <2>2, <2>3 DEF RegTypes, Calls, Iteration, Entering
  <2> QED
    BY <2>2, <2>4 DEF RegInv
<1>3. CASE last.op # "end" /\ last.ans.val[1] # "ops"
  <2> DEFINE f == last.ans.val[2]
  <2>1. rpc' = "ops found" /\ i' = f /\ Get(fields[f].off)
    BY <1>3 DEF Entry
  <2>2. Known(fields, last.ans)
    BY <1>1, <1>3 DEF RegInv, Calls, Items
  <2>3. ~IsOps(fields, last.ans)
    <3> SUFFICES ASSUME IsOps(fields, last.ans) PROVE FALSE
      OBVIOUS
    <3>1. PICK e \in DOMAIN Examples : last.ans.val = <<"ops", Examples[e].ops>>
      BY DEF IsOps
    <3> QED
      BY <1>3, <3>1
  <2>4. f \in DOMAIN fields /\ fields[f].off \in Key
    <3> HIDE DEF f
    <3>1. IsField(fields, last.ans)
      BY <2>2, <2>3 DEF Known
    <3>2. PICK g \in DOMAIN fields :
              /\ fields[g].off \in Key
              /\ last.ans = [key |-> fields[g].field, val |-> <<"td", g>>]
      BY <3>1 DEF IsField
    <3>3. fields[g].off \in Key /\ last.ans.val = <<"td", g>>
      BY <3>2
    <3>4. f = g
      BY <3>3 DEF f
    <3> QED
      BY <3>3, <3>4
  <2>5. f \in Nat \ {0}
    <3> HIDE DEF f
    <3>1. fields \in Seq([field : Key, off : Key \cup {NoOps}])
      BY <1>1, RegistrationAssumption
    <3> QED
      BY <2>4, <3>1
  <2> HIDE DEF f
  <2>6. /\ MapInv' /\ DictInv' /\ Items' /\ DictStep /\ call'.op = "get" /\ ~Idle'
        /\ call'.item.key = fields[f].off
        /\ UNCHANGED <<cursor, passed, buckets>>
    BY <1>1, <2>1, <2>4, GetKnown DEF Idle
  <2>7. Iterated'
    BY <1>1, <2>6 DEF Iterated
  <2>8. RegTypes' /\ Iteration'
    BY <1>1, <2>1, <2>5, <2>7 DEF RegTypes, Iteration, Entering
  <2>9. Calls'
    <3>1. i' \in DOMAIN fields' /\ fields'[i'].off \in Key /\ call'.item.key = fields'[i'].off
      BY <1>1, <2>1, <2>4, <2>6
    <3> QED
      BY <2>1, <2>6, <3>1 DEF Calls
  <2> QED
    BY <2>6, <2>8, <2>9 DEF RegInv
<1> QED
  BY <1>2, <1>3

LEMMA OpsFoundKeeps == ASSUME RegInv, OpsFound PROVE RegInv' /\ DictStep
<1>1. /\ rpc = "ops found" /\ Idle /\ fields' = fields /\ i' = i /\ rpc' = "fixup"
      /\ UNCHANGED map_vars
      /\ i \in Nat \ {0} /\ fields \in Collections /\ Iterated
  BY DEF OpsFound, RegInv, RegTypes, Iteration
<1>2. /\ MapInv' /\ DictInv' /\ Items' /\ DictStep /\ Idle'
      /\ UNCHANGED <<cursor, passed, call, last, buckets>>
  BY <1>1, Quiet
<1>3. Iterated'
  BY <1>1, <1>2 DEF Iterated
<1>4. RegTypes' /\ Calls' /\ Iteration'
  BY <1>1, <1>2, <1>3 DEF RegTypes, Calls, Iteration, Entering
<1> QED
  BY <1>2, <1>4 DEF RegInv

LEMMA MapStepReg == ASSUME RegInv, MapStep, UNCHANGED reg_vars PROVE RegInv' /\ DictStep
<1>1. UNCHANGED <<fields, rpc, i>>
  BY DEF reg_vars
<1>2. /\ MapInv' /\ DictInv' /\ DictStep
      /\ call.op = "get" => Contents' = Contents
      /\ call.op # "get" => Contents' \subseteq Contents \cup {call.item}
  BY MapStepKeeps DEF RegInv, SetsItem
<1>3. /\ call.op \in {"get", "set", "resize"} /\ UNCHANGED <<cursor, passed>>
      /\ \/ call'.op = "none"
         \/ call'.item = call.item /\ call'.op = call.op
         \/ call'.item = call.item /\ call'.op = "set" /\ call.op = "resize"
      /\ call.op = "get" => UNCHANGED buckets
  BY MapStepCall
<1>4. ~Idle
  BY <1>3 DEF Idle
<1>5. rpc \in {"field added", "ops added", "example found", "ops found"}
  BY <1>4 DEF RegInv, RegTypes, Calls, Entering
<1>6. Items'
  <2>1. call.op # "get" => Known(fields, call.item)
    BY <1>3 DEF RegInv, Items
  <2>2. \A x \in Contents' : Known(fields, x)
    BY <1>2, <2>1 DEF RegInv, Items
  <2>3. call'.op \in {"set", "resize"} => Known(fields, call'.item)
    BY <1>3, <2>1
  <2> QED
    BY <1>1, <2>2, <2>3 DEF Items
<1>7. RegTypes'
  BY <1>1 DEF RegInv, RegTypes
<1>8. Calls'
  <2>1. rpc \in {"field added", "ops added"} => call'.op # "get"
    BY <1>3 DEF RegInv, Calls
  <2>2. rpc \in {"example found", "ops found"} => call.op = "get" /\ call'.op \in {"none", "get"}
    BY <1>3, <1>4 DEF RegInv, Calls
  <2>3. ASSUME call.op = "get"
        PROVE  \/ ~Idle' /\ call'.item.key = call.item.key
               \/ Idle' /\ last'.ans = FoundIn(Contents', call.item.key)
    <3> DEFINE key == call.item.key
    <3>1. GetRound
      BY <2>3 DEF MapStep, ResizeNext, ResizePlace, SetRound
    <3>2. \/ UNCHANGED <<call, last>>
          \/ call'.op = "none" /\ last' = Answer("get", key, FoundIn(Contents, key))
      BY <3>1, GetRoundDict, FoundThere DEF RegInv
    <3>3. CASE UNCHANGED <<call, last>>
      BY <1>4, <3>3 DEF Idle
    <3>4. CASE call'.op = "none" /\ last' = Answer("get", key, FoundIn(Contents, key))
      <4>1. Idle' /\ last'.ans = FoundIn(Contents, key)
        BY <3>4 DEF Idle, Answer
      <4>2. Contents' = Contents
        BY <1>2, <2>3
      <4> QED
        BY <4>1, <4>2
    <3> QED
      BY <3>2, <3>3, <3>4
  <2>4. rpc = "example found" => call.item.key = Examples[i].field
    BY <1>4 DEF RegInv, Calls
  <2>5. rpc = "ops found" =>
            i \in DOMAIN fields /\ fields[i].off \in Key /\ call.item.key = fields[i].off
    BY <1>4 DEF RegInv, Calls
  <2> QED
    BY <1>1, <1>5, <2>1, <2>2, <2>3, <2>4, <2>5 DEF Calls
<1>9. Iteration'
  <2>1. ASSUME rpc = "ops found" PROVE Iterated'
    <3>1. call.op = "get" /\ Iterated
      BY <1>3, <1>4, <2>1 DEF RegInv, Calls, Iteration
    <3> QED
      BY <1>3, <3>1 DEF Iterated
  <2> QED
    BY <1>1, <1>3, <1>5, <2>1 DEF RegInv, Iteration, Entering
<1> QED
  BY <1>2, <1>6, <1>7, <1>8, <1>9 DEF RegInv

LEMMA RegStep == RegInv /\ [Next]_vars => RegInv' /\ DictStep
<1> SUFFICES ASSUME RegInv, [Next]_vars PROVE RegInv' /\ DictStep
  OBVIOUS
<1>1. CASE MapStep /\ UNCHANGED reg_vars
  BY <1>1, MapStepReg
<1>2. CASE AddField
  BY <1>2, AddFieldKeeps
<1>3. CASE FieldAdded
  BY <1>3, FieldAddedKeeps
<1>4. CASE EndFields
  BY <1>4, EndFieldsKeeps
<1>5. CASE FindExample
  BY <1>5, FindExampleKeeps
<1>6. CASE ExampleFound
  BY <1>6, ExampleFoundKeeps
<1>7. CASE OpsAdded
  BY <1>7, OpsAddedKeeps
<1>8. CASE EndExamples
  BY <1>8, EndExamplesKeeps
<1>9. CASE NextEntry
  BY <1>9, NextEntryKeeps
<1>10. CASE Entry
  BY <1>10, EntryKeeps
<1>11. CASE OpsFound
  BY <1>11, OpsFoundKeeps
<1>12. CASE UNCHANGED vars
  <2>1. UNCHANGED map_vars /\ UNCHANGED <<fields, rpc, i>>
    BY <1>12 DEF vars, reg_vars
  <2>2. /\ MapInv' /\ DictInv' /\ Items' /\ Idle' = Idle /\ DictStep
        /\ UNCHANGED <<Contents, cursor, passed, call, last, buckets>>
    BY <2>1, Quiet
  <2>3. RegTypes' /\ Calls' /\ Iteration'
    BY <2>1, <2>2 DEF RegInv, RegTypes, Calls, Iteration, Iterated
  <2> QED
    BY <2>2, <2>3 DEF RegInv
<1> QED
  BY <1>1, <1>2, <1>3, <1>4, <1>5, <1>6, <1>7, <1>8, <1>9, <1>10, <1>11, <1>12 DEF Next

\* The table of the hashmap is always in robin hood order and never full, whatever
\* the hashes are and however often it grows (hashmap.c; resize0, hashmap_set).
THEOREM InRobinHoodOrder == Spec => []RobinHood
<1>1. RegInit => RegInv
  BY RegInitInv
<1>2. RegInv /\ [Next]_vars => RegInv'
  BY RegStep
<1>3. RegInv => RobinHood
  BY InvRobinHood DEF RegInv
<1> QED
  BY <1>1, <1>2, <1>3, PTL DEF Spec

\* The registration sees a dictionary: growth, displacement and searches that begin
\* among other keys are hidden (hashmap.c; hashmap_set, hashmap_get, hashmap_iter).
THEOREM MapIsDictionary == Spec => IsDictionary
<1>1. RegInit => RegInv
  BY RegInitInv
<1>2. RegInv /\ [Next]_vars => RegInv'
  BY RegStep
<1>3. RegInit => Dict!Init
  <2> SUFFICES ASSUME RegInit PROVE Dict!Init
    OBVIOUS
  <2>1. MapInit(Hashes)
    BY DEF RegInit
  <2>2. Contents = {} /\ Result = Answer("new", NoItem, NoItem) /\ passed = {}
    BY <2>1, InitDict DEF MapInit
  <2> QED
    BY <2>2 DEF Dict!Init, Dict!Answer, Answer
<1>4. RegInv /\ [Next]_vars => [Dict!Next]_<<Contents, Result, passed>>
  BY RegStep DEF DictStep
<1> QED
  BY <1>1, <1>2, <1>3, <1>4, PTL DEF Spec, IsDictionary, Dict!Spec
-----------------------------------------------------------------------------
(* Every field gets its functions *)

Pair(fs, f) == [key |-> fs[f].field, val |-> <<"td", f>>]
Funcs(off, e) == [key |-> off, val |-> <<"ops", Examples[e].ops>>]

\* The registrations for the ops at off, and those of them before e.
Exs(fs, off) == {e \in DOMAIN Examples :
                    \E f \in DOMAIN fs : /\ fs[f].field = Examples[e].field
                                         /\ fs[f].off = off /\ off # NoOps}

Before(fs, off, e) == {d \in Exs(fs, off) : d < e}

Final(fs, f) == IF Exs(fs, fs[f].off) = {} THEN NoOps
                ELSE Examples[CHOOSE e \in Exs(fs, fs[f].off) :
                                 \A d \in Exs(fs, fs[f].off) : d <= e].ops

\* The fields before n are in C.
FieldsIn(fs, C, n) == \A f \in DOMAIN fs : f < n /\ fs[f].off # NoOps => Pair(fs, f) \in C

\* The functions of the registrations before n are in C, for each ops the last ones.
OpsIn(fs, C, n) ==
    \A f \in DOMAIN fs : fs[f].off # NoOps =>
        \/ Before(fs, fs[f].off, n) = {} /\ \A x \in C : x.key # fs[f].off
        \/ \E e \in Before(fs, fs[f].off, n) :
              (\A d \in Before(fs, fs[f].off, n) : d <= e) /\ Funcs(fs[f].off, e) \in C

\* The fields in P have the functions that they are to have.
FixedUp(fs, os, P) ==
    \A f \in DOMAIN fs : fs[f].off # NoOps /\ Pair(fs, f) \in P => os[f] = Final(fs, f)

Apart(fs) == \A f, g \in DOMAIN fs : fs[f].field = fs[g].field => f = g

Instead(C, x) == {y \in C : y.key # x.key} \cup {x}

\* A field is entered.
LEMMA EnterField ==
    ASSUME NEW fs \in Collections, Apart(fs), NEW C, NEW k \in DOMAIN fs, NEW n \in Nat,
           NEW m, FieldsIn(fs, C, n), n <= k, OpsIn(fs, C, m)
    PROVE  /\ FieldsIn(fs, Instead(C, Pair(fs, k)), n)
           /\ OpsIn(fs, Instead(C, Pair(fs, k)), m)
           /\ Pair(fs, k) \in Instead(C, Pair(fs, k))
<1> DEFINE D == Instead(C, Pair(fs, k))
<1>1. \A x \in D : x \in C \/ x = Pair(fs, k)
  BY DEF Instead
<1>2. \A x \in C : x.key # fs[k].field => x \in D
  BY DEF Instead, Pair
<1>3. DOMAIN fs \subseteq Nat
  <2>1. fs \in Seq([field : Key, off : Key \cup {NoOps}])
    BY RegistrationAssumption
  <2> QED
    BY <2>1
<1> HIDE DEF D
<1>4. FieldsIn(fs, D, n)
  <2> SUFFICES ASSUME NEW f \in DOMAIN fs, f < n, fs[f].off # NoOps PROVE Pair(fs, f) \in D
    BY DEF FieldsIn
  <2>1. Pair(fs, f) \in C /\ Pair(fs, f).key = fs[f].field
    BY DEF FieldsIn, Pair
  <2>2. f # k
    BY <1>3
  <2> QED
    BY <1>2, <2>1, <2>2 DEF Apart
<1>5. OpsIn(fs, D, m)
  <2> SUFFICES ASSUME NEW f \in DOMAIN fs, fs[f].off # NoOps
               PROVE  \/ Before(fs, fs[f].off, m) = {} /\ \A x \in D : x.key # fs[f].off
                      \/ \E e \in Before(fs, fs[f].off, m) :
                            /\ \A d \in Before(fs, fs[f].off, m) : d <= e
                            /\ Funcs(fs[f].off, e) \in D
    BY DEF OpsIn
  <2>1. fs[k].field # fs[f].off
    BY RegistrationAssumption
  <2>2. Pair(fs, k).key # fs[f].off
    BY <2>1 DEF Pair
  <2>3. \A e : Funcs(fs[f].off, e) \in C => Funcs(fs[f].off, e) \in D
    BY <1>2, <2>1 DEF Funcs
  <2>4. (\A x \in C : x.key # fs[f].off) => \A x \in D : x.key # fs[f].off
    BY <1>1, <2>2
  <2> QED
    BY <2>3, <2>4 DEF OpsIn
<1> QED
  BY <1>4, <1>5 DEF D, Instead

\* The functions of a registration are entered.
LEMMA EnterOps ==
    ASSUME NEW fs \in Collections, Apart(fs), NEW C, NEW g \in DOMAIN fs, fs[g].off # NoOps,
           NEW n \in DOMAIN Examples, fs[g].field = Examples[n].field,
           NEW m, FieldsIn(fs, C, m), OpsIn(fs, C, n)
    PROVE  /\ FieldsIn(fs, Instead(C, Funcs(fs[g].off, n)), m)
           /\ OpsIn(fs, Instead(C, Funcs(fs[g].off, n)), n + 1)
<1> DEFINE off == fs[g].off
           it == Funcs(off, n)
           D == Instead(C, it)
<1>1. /\ \A x \in D : x \in C \/ x = it
      /\ \A x \in C : x.key # off => x \in D
      /\ it \in D /\ it.key = off
  BY DEF Instead, Funcs
<1>2. DOMAIN Examples \subseteq Nat
  <2>1. Examples \in Seq([field : Key, ops : {Examples[e].ops : e \in DOMAIN Examples}])
    BY RegistrationAssumption
  <2> QED
    BY <2>1
<1> HIDE DEF D, it
<1>3. FieldsIn(fs, D, m)
  <2> SUFFICES ASSUME NEW f \in DOMAIN fs, f < m, fs[f].off # NoOps PROVE Pair(fs, f) \in D
    BY DEF FieldsIn
  <2>1. Pair(fs, f) \in C /\ Pair(fs, f).key = fs[f].field
    BY DEF FieldsIn, Pair
  <2>2. fs[f].field # off
    BY RegistrationAssumption
  <2> QED
    BY <1>1, <2>1, <2>2
<1>4. ASSUME NEW f \in DOMAIN fs, fs[f].off # NoOps
      PROVE  \/ Before(fs, fs[f].off, n + 1) = {} /\ \A x \in D : x.key # fs[f].off
             \/ \E e \in Before(fs, fs[f].off, n + 1) :
                   /\ \A d \in Before(fs, fs[f].off, n + 1) : d <= e
                   /\ Funcs(fs[f].off, e) \in D
  <2>1. CASE fs[f].off = off
    <3>1. n \in Before(fs, off, n + 1)
      BY <1>2 DEF Before, Exs
    <3>2. \A d \in Before(fs, off, n + 1) : d <= n
      BY <1>2 DEF Before, Exs
    <3>3. Funcs(off, n) \in D
      BY <1>1 DEF it
    <3> QED
      BY <2>1, <3>1, <3>2, <3>3
  <2>2. CASE fs[f].off # off
    <3>1. n \notin Exs(fs, fs[f].off)
      <4> SUFFICES ASSUME NEW h \in DOMAIN fs, fs[h].field = Examples[n].field,
                          fs[h].off = fs[f].off
                   PROVE  FALSE
        BY DEF Exs
      <4>1. h = g
        BY DEF Apart
      <4> QED
        BY <2>2, <4>1
    <3>2. Before(fs, fs[f].off, n + 1) = Before(fs, fs[f].off, n)
      <4>1. Exs(fs, fs[f].off) \subseteq Nat
        BY <1>2 DEF Exs
      <4> QED
        BY <1>2, <3>1, <4>1 DEF Before
    <3>3. \A e : Funcs(fs[f].off, e) \in C => Funcs(fs[f].off, e) \in D
      <4>1. \A e : Funcs(fs[f].off, e).key # off
        BY <2>2 DEF Funcs
      <4> QED
        BY <1>1, <4>1
    <3>4. (\A x \in C : x.key # fs[f].off) => \A x \in D : x.key # fs[f].off
      BY <1>1, <2>2
    <3> QED
      <4>1. \/ Before(fs, fs[f].off, n) = {} /\ \A x \in C : x.key # fs[f].off
            \/ \E e \in Before(fs, fs[f].off, n) :
                  /\ \A d \in Before(fs, fs[f].off, n) : d <= e
                  /\ Funcs(fs[f].off, e) \in C
        BY <1>4 DEF OpsIn
      <4> QED
        BY <3>2, <3>3, <3>4, <4>1
  <2> QED
    BY <2>1, <2>2
<1>5. OpsIn(fs, D, n + 1)
  BY <1>4 DEF OpsIn
<1> QED
  BY <1>3, <1>5 DEF D, it

\* No field is an example of the registration.
LEMMA SkipOps ==
    ASSUME NEW fs \in Collections, NEW C, NEW n \in DOMAIN Examples, OpsIn(fs, C, n),
           \A f \in DOMAIN fs : fs[f].field = Examples[n].field => fs[f].off = NoOps
    PROVE  OpsIn(fs, C, n + 1)
<1>1. DOMAIN Examples \subseteq Nat
  <2>1. Examples \in Seq([field : Key, ops : {Examples[e].ops : e \in DOMAIN Examples}])
    BY RegistrationAssumption
  <2> QED
    BY <2>1
<1>2. \A off : Before(fs, off, n + 1) = Before(fs, off, n)
  <2> SUFFICES ASSUME NEW off PROVE Before(fs, off, n + 1) = Before(fs, off, n)
    OBVIOUS
  <2>1. n \notin Exs(fs, off) /\ Exs(fs, off) \subseteq Nat
    BY <1>1 DEF Exs
  <2> QED
    BY <1>1, <2>1 DEF Before
<1> QED
  BY <1>2 DEF OpsIn

\* When all registrations are entered, what is found for the ops of a field is Final.
LEMMA FindsFinal ==
    ASSUME NEW fs, NEW C, OpsIn(fs, C, Len(Examples) + 1), NEW f \in DOMAIN fs,
           fs[f].off # NoOps, NEW x, Finds(C, fs[f].off, x)
    PROVE  (IF x = NoItem THEN NoOps ELSE x.val[2]) = Final(fs, f)
<1> DEFINE S == Exs(fs, fs[f].off)
<1>1. Before(fs, fs[f].off, Len(Examples) + 1) = S
  <2>1. Examples \in Seq([field : Key, ops : {Examples[e].ops : e \in DOMAIN Examples}])
    BY RegistrationAssumption
  <2>2. \A d \in DOMAIN Examples : d < Len(Examples) + 1
    BY <2>1
  <2> QED
    BY <2>2 DEF Before, Exs
<1>2. S \subseteq Nat
  <2>1. Examples \in Seq([field : Key, ops : {Examples[e].ops : e \in DOMAIN Examples}])
    BY RegistrationAssumption
  <2>2. DOMAIN Examples \subseteq Nat
    BY <2>1
  <2> QED
    BY <2>2 DEF Exs
<1> HIDE DEF S
<1>3. \/ S = {} /\ \A y \in C : y.key # fs[f].off
      \/ \E e \in S : (\A d \in S : d <= e) /\ Funcs(fs[f].off, e) \in C
  BY <1>1 DEF OpsIn
<1>4. CASE S = {}
  <2>1. x = NoItem
    BY <1>3, <1>4 DEF Finds
  <2> QED
    BY <1>4, <2>1 DEF Final, S
<1>5. CASE S # {}
  <2>1. PICK e \in S : (\A d \in S : d <= e) /\ Funcs(fs[f].off, e) \in C
    BY <1>3, <1>5
  <2>2. x # NoItem /\ x = Funcs(fs[f].off, e)
    BY <2>1 DEF Funcs, Finds
  <2>3. \A a \in S : (\A d \in S : d <= a) => a = e
    BY <1>2, <2>1
  <2>4. (CHOOSE a \in S : \A d \in S : d <= a) = e
    BY <2>1, <2>3
  <2>5. Final(fs, f) = Examples[e].ops
    BY <1>5, <2>4 DEF Final, S
  <2>6. x.val[2] = Examples[e].ops
    BY <2>2 DEF Funcs
  <2> QED
    BY <2>2, <2>5, <2>6
<1> QED
  BY <1>4, <1>5
\* Where the iteration, which changes the fields, is.
Changing == {"fixup", "entry", "ops found"}

\* What there is of the fields and functions, in each phase.
AtFields ==
    /\ FieldsIn(fields, Contents, i) /\ OpsIn(fields, Contents, 1)
    /\ rpc = "field added" =>
          /\ ~Idle => call.item = Pair(fields, i)
          /\ Committed => Pair(fields, i) \in Contents
          /\ Idle => last.op = "oom" \/ Committed

AtExamples ==
    /\ FieldsIn(fields, Contents, Len(fields) + 1)
    /\ OpsIn(fields, Contents, IF rpc = "ops added" /\ Committed THEN i + 1 ELSE i)
    /\ rpc = "ops added" =>
          /\ ~Idle => \E g \in DOMAIN fields :
                         /\ fields[g].field = Examples[i].field /\ fields[g].off # NoOps
                         /\ call.item = Funcs(fields[g].off, i)
          /\ Idle => last.op = "oom" \/ Committed

AtFixup ==
    /\ FieldsIn(fields, Contents, Len(fields) + 1)
    /\ OpsIn(fields, Contents, Len(Examples) + 1)
    /\ rpc = "fixup" => FixedUp(fields, ops, passed)
    /\ rpc = "entry" =>
          FixedUp(fields, ops, IF last.op = "end" THEN passed ELSE passed \ {last.ans})
    /\ rpc = "ops found" => FixedUp(fields, ops, passed \ {Pair(fields, i)})

FieldInv ==
    /\ DOMAIN ops = DOMAIN fields
    /\ \A f \in DOMAIN fields : fields[f].off = NoOps => ops[f] = NoOps
    /\ rpc \in {"field", "field added"} => AtFields
    /\ rpc \in {"example", "example found", "ops added"} => AtExamples
    /\ rpc \in Changing => AtFixup
    /\ rpc = "done" /\ reg_err = "none" => \A f \in DOMAIN fields : ops[f] = Final(fields, f)

LEMMA FieldNumbers ==
    ASSUME RegInv
    PROVE  DOMAIN fields = 1..Len(fields) /\ Len(fields) \in Nat /\ i \in Nat \ {0}
<1>1. fields \in Seq([field : Key, off : Key \cup {NoOps}])
  BY RegistrationAssumption DEF RegInv, RegTypes
<1>2. i \in Nat \ {0}
  BY DEF RegInv, RegTypes
<1>3. DOMAIN fields = 1..Len(fields) /\ Len(fields) \in Nat
  BY <1>1
<1> QED
  BY <1>2, <1>3

LEMMA ExampleNumbers == DOMAIN Examples = 1..Len(Examples) /\ Len(Examples) \in Nat
<1>1. Examples \in Seq([field : Key, ops : {Examples[e].ops : e \in DOMAIN Examples}])
  BY RegistrationAssumption
<1> QED
  BY <1>1

\* A call that enters an item has not done so yet.
LEMMA SetBegins ==
    ASSUME RegInv, NEW x \in Item, Set(x)
    PROVE  /\ ~Committed' /\ Contents' = Contents
           /\ ~Idle' => call'.item = x
           /\ Idle' => last'.op = "oom"
<1>1. Contents' = Contents
  BY SetDict DEF RegInv
<1>2. CASE Return("oom", x.key, NoItem)
  <2>1. call'.op = "none" /\ last'.op = "oom"
    BY <1>2 DEF Return, NoCall, Answer
  <2> QED
    BY <1>1, <2>1 DEF Committed, HasDisplaced, Idle
<1>3. CASE call' = [op |-> "resize", item |-> x]
  BY <1>1, <1>3 DEF Committed, HasDisplaced, Idle
<1>4. CASE Start("set", x) /\ hand' = [dib |-> 1, item |-> x]
  <2>1. call' = [op |-> "set", item |-> x] /\ hand'.item = x
    BY <1>4 DEF Start
  <2> QED
    BY <1>1, <2>1 DEF Committed, HasDisplaced, Idle
<1> QED
  BY <1>2, <1>3, <1>4 DEF Set

LEMMA FieldInvInit == RegInit => FieldInv
<1> SUFFICES ASSUME RegInit PROVE FieldInv
  OBVIOUS
<1>1. /\ fields \in Collections /\ MapInit(Hashes) /\ i = 1 /\ rpc \in {"field", "done"}
      /\ ops = [f \in DOMAIN fields |-> fields[f].off]
      /\ rpc = "done" => reg_err = "oom"
  BY DEF RegInit
<1>2. Contents = {}
  BY <1>1, InitDict
<1>3. DOMAIN fields = 1..Len(fields)
  BY RegInitInv, FieldNumbers
<1>4. FieldsIn(fields, Contents, 1)
  BY <1>3 DEF FieldsIn
<1>5. OpsIn(fields, Contents, 1)
  <2>1. \A off : Before(fields, off, 1) = {}
    BY ExampleNumbers DEF Before, Exs
  <2> QED
    BY <1>2, <2>1 DEF OpsIn
<1> QED
  BY <1>1, <1>4, <1>5 DEF FieldInv, AtFields, Changing

LEMMA AddFieldFills ==
    ASSUME RegInv, FieldInv, Unique, AddField PROVE FieldInv'
<1>1. /\ rpc = "field" /\ i <= Len(fields) /\ fields' = fields
      /\ i \in DOMAIN fields /\ FieldsIn(fields, Contents, i) /\ OpsIn(fields, Contents, 1)
  <2>1. rpc = "field" /\ i <= Len(fields) /\ fields' = fields
    BY DEF AddField
  <2>2. i \in DOMAIN fields
    BY <2>1, FieldNumbers
  <2> QED
    BY <2>1, <2>2 DEF FieldInv, AtFields
<1>2. CASE fields[i].off = NoOps
  <2>1. ops' = [ops EXCEPT ![i] = NoOps] /\ i' = i + 1 /\ rpc' = "field" /\ UNCHANGED map_vars
    BY <1>1, <1>2 DEF AddField
  <2>2. Contents' = Contents
    BY <1>1, <2>1, Quiet
  <2>3. FieldsIn(fields, Contents, i + 1)
    <3>1. \A f \in DOMAIN fields : f < i + 1 => f < i \/ f = i
      BY FieldNumbers
    <3> QED
      BY <1>1, <1>2, <3>1 DEF FieldsIn
  <2>4. AtFields'
    BY <1>1, <2>1, <2>2, <2>3 DEF AtFields
  <2> QED
    BY <1>1, <2>1, <2>4 DEF FieldInv, Changing
<1>3. CASE fields[i].off # NoOps
  <2>1. Set(Pair(fields, i)) /\ rpc' = "field added" /\ i' = i /\ ops' = ops
    BY <1>3 DEF AddField, FieldItem, Pair
  <2>2. Pair(fields, i) \in Item
    <3>1. fields[i].field \in Key /\ <<"td", i>> \in Value
      BY <1>1, FieldNumbers, AFieldIs DEF RegInv, RegTypes
    <3> QED
      BY <3>1 DEF Pair, Item
  <2>3. /\ ~Committed' /\ Contents' = Contents
        /\ ~Idle' => call'.item = Pair(fields, i)
        /\ Idle' => last'.op = "oom"
    BY <2>1, <2>2, SetBegins
  <2>4. AtFields'
    BY <1>1, <2>1, <2>3 DEF AtFields
  <2> QED
    BY <1>1, <2>1, <2>4 DEF FieldInv, Changing
<1> QED
  BY <1>2, <1>3

LEMMA FieldAddedFills ==
    ASSUME RegInv, FieldInv, FieldAdded PROVE FieldInv'
<1>1. /\ rpc = "field added" /\ Idle /\ fields' = fields /\ ops' = ops /\ UNCHANGED map_vars
      /\ FieldsIn(fields, Contents, i) /\ OpsIn(fields, Contents, 1)
      /\ last.op = "oom" \/ Pair(fields, i) \in Contents
  BY DEF FieldAdded, FieldInv, AtFields
<1>2. Contents' = Contents
  BY <1>1, Quiet
<1>3. CASE last.op = "oom"
  <2>1. rpc' = "done" /\ reg_err' = "oom"
    BY <1>3 DEF FieldAdded, Fail
  <2> QED
    BY <1>1, <2>1 DEF FieldInv, Changing
<1>4. CASE last.op # "oom"
  <2>1. rpc' = "field" /\ i' = i + 1
    BY <1>4 DEF FieldAdded
  <2>2. FieldsIn(fields, Contents, i + 1)
    <3>1. \A f \in DOMAIN fields : f < i + 1 => f < i \/ f = i
      BY FieldNumbers
    <3> QED
      BY <1>1, <1>4, <3>1 DEF FieldsIn
  <2>3. AtFields'
    BY <1>1, <1>2, <2>1, <2>2 DEF AtFields
  <2> QED
    BY <1>1, <2>1, <2>3 DEF FieldInv, Changing
<1> QED
  BY <1>3, <1>4

LEMMA EndFieldsFills ==
    ASSUME RegInv, FieldInv, EndFields PROVE FieldInv'
<1>1. /\ rpc = "field" /\ i > Len(fields) /\ rpc' = "example" /\ i' = 1
      /\ fields' = fields /\ ops' = ops /\ UNCHANGED map_vars
      /\ FieldsIn(fields, Contents, i) /\ OpsIn(fields, Contents, 1)
  BY DEF EndFields, FieldInv, AtFields
<1>2. Contents' = Contents
  BY <1>1, Quiet
<1>3. FieldsIn(fields, Contents, Len(fields) + 1)
  BY <1>1, FieldNumbers DEF FieldsIn
<1>4. AtExamples'
  BY <1>1, <1>2, <1>3 DEF AtExamples
<1> QED
  BY <1>1, <1>4 DEF FieldInv, Changing

LEMMA FindExampleFills ==
    ASSUME RegInv, FieldInv, FindExample PROVE FieldInv'
<1>1. /\ rpc = "example" /\ rpc' = "example found" /\ i' = i /\ i <= Len(Examples)
      /\ fields' = fields /\ ops' = ops /\ Get(Examples[i].field)
  BY DEF FindExample
<1>2. Contents' = Contents
  <2>1. Examples[i].field \in Key
    BY <1>1, FieldNumbers, AnExampleIs
  <2> QED
    BY <1>1, <2>1, GetDict DEF RegInv
<1>3. AtExamples'
  BY <1>1, <1>2 DEF AtExamples, FieldInv
<1> QED
  BY <1>1, <1>3 DEF FieldInv, Changing

LEMMA ExampleFoundFills ==
    ASSUME RegInv, FieldInv, Unique, ExampleFound PROVE FieldInv'
<1>1. /\ rpc = "example found" /\ Idle /\ fields' = fields /\ ops' = ops
      /\ FieldsIn(fields, Contents, Len(fields) + 1) /\ OpsIn(fields, Contents, i)
      /\ last.ans = FoundIn(Contents, Examples[i].field)
  BY DEF ExampleFound, FieldInv, AtExamples, RegInv, Calls
<1>2. i \in DOMAIN Examples /\ fields \in Collections
  <2>1. i \in Nat \ {0} /\ i <= Len(Examples) /\ fields \in Collections
    BY <1>1, FieldNumbers DEF RegInv, RegTypes
  <2> QED
    BY <2>1, ExampleNumbers
<1>3. CASE last.ans = NoItem
  <2>1. rpc' = "example" /\ i' = i + 1 /\ UNCHANGED map_vars
    BY <1>3 DEF ExampleFound
  <2>2. Contents' = Contents
    BY <1>1, <2>1, Quiet
  <2>3. \A x \in Contents : x.key # Examples[i].field
    BY <1>1, <1>3, SearchFinds DEF Finds
  <2>4. ASSUME NEW f \in DOMAIN fields, fields[f].field = Examples[i].field
        PROVE  fields[f].off = NoOps
    <3> SUFFICES ASSUME fields[f].off # NoOps PROVE FALSE
      OBVIOUS
    <3>1. f < Len(fields) + 1
      BY FieldNumbers
    <3>2. Pair(fields, f) \in Contents
      BY <1>1, <3>1 DEF FieldsIn
    <3> QED
      BY <2>3, <2>4, <3>2 DEF Pair
  <2>5. OpsIn(fields, Contents, i + 1)
    BY <1>1, <1>2, <2>4, SkipOps
  <2>6. AtExamples'
    BY <1>1, <2>1, <2>2, <2>5 DEF AtExamples
  <2> QED
    BY <1>1, <2>1, <2>6 DEF FieldInv, Changing
<1>4. CASE last.ans # NoItem
  <2> DEFINE off == fields[last.ans.val[2]].off
  <2>1. Set(Funcs(off, i)) /\ rpc' = "ops added" /\ i' = i
    BY <1>4 DEF ExampleFound, Registered, OpsItem, Funcs
  <2>2. last.ans \in Contents /\ last.ans.key = Examples[i].field
    BY <1>1, <1>4, SearchFinds DEF Finds
  <2>3. Known(fields, last.ans)
    BY <2>2 DEF RegInv, Items
  <2>4. PICK g \in DOMAIN fields : /\ fields[g].off \in Key /\ fields[g].field = last.ans.key
                                   /\ last.ans.val = <<"td", g>>
    BY <1>2, <2>2, <2>3, WhoseKey
  <2>5. off = fields[g].off
    BY <2>4
  <2> HIDE DEF off
  <2>6. off # NoOps
    BY <2>4, <2>5, RegistrationAssumption
  <2>7. Funcs(off, i) \in Item
    <3>1. <<"ops", Examples[i].ops>> \in Value
      BY <1>2, RegistrationAssumption
    <3> QED
      BY <2>4, <2>5, <3>1 DEF Funcs, Item
  <2>8. /\ ~Committed' /\ Contents' = Contents
        /\ ~Idle' => call'.item = Funcs(off, i)
        /\ Idle' => last'.op = "oom"
    BY <2>1, <2>7, SetBegins
  <2>9. AtExamples'
    BY <1>1, <2>1, <2>2, <2>4, <2>5, <2>6, <2>8 DEF AtExamples
  <2> QED
    BY <1>1, <2>1, <2>9 DEF FieldInv, Changing
<1> QED
  BY <1>3, <1>4

LEMMA OpsAddedFills ==
    ASSUME RegInv, FieldInv, OpsAdded PROVE FieldInv'
<1>1. /\ rpc = "ops added" /\ Idle /\ fields' = fields /\ ops' = ops /\ UNCHANGED map_vars
      /\ FieldsIn(fields, Contents, Len(fields) + 1)
      /\ last.op = "oom" \/ OpsIn(fields, Contents, i + 1)
  BY DEF OpsAdded, FieldInv, AtExamples
<1>2. Contents' = Contents
  BY <1>1, Quiet
<1>3. CASE last.op = "oom"
  <2>1. rpc' = "done" /\ reg_err' = "oom"
    BY <1>3 DEF OpsAdded, Fail
  <2> QED
    BY <1>1, <2>1 DEF FieldInv, Changing
<1>4. CASE last.op # "oom"
  <2>1. rpc' = "example" /\ i' = i + 1
    BY <1>4 DEF OpsAdded
  <2>2. AtExamples'
    BY <1>1, <1>2, <1>4, <2>1 DEF AtExamples
  <2> QED
    BY <1>1, <2>1, <2>2 DEF FieldInv, Changing
<1> QED
  BY <1>3, <1>4

LEMMA EndExamplesFills ==
    ASSUME RegInv, FieldInv, EndExamples PROVE FieldInv'
<1>1. /\ rpc = "example" /\ i > Len(Examples) /\ rpc' = "fixup"
      /\ fields' = fields /\ ops' = ops /\ UNCHANGED map_vars
      /\ FieldsIn(fields, Contents, Len(fields) + 1) /\ OpsIn(fields, Contents, i)
  BY DEF EndExamples, FieldInv, AtExamples
<1>2. Contents' = Contents /\ passed' = passed
  BY <1>1, Quiet
<1>3. passed = {}
  BY <1>1 DEF RegInv, Iteration, Entering
<1>4. OpsIn(fields, Contents, Len(Examples) + 1)
  <2>1. \A off : Before(fields, off, i) = Before(fields, off, Len(Examples) + 1)
    BY <1>1, FieldNumbers, ExampleNumbers DEF Before, Exs
  <2> QED
    BY <1>1, <2>1 DEF OpsIn
<1>5. FixedUp(fields, ops, passed)
  BY <1>3 DEF FixedUp
<1>6. AtFixup'
  BY <1>1, <1>2, <1>4, <1>5 DEF AtFixup
<1> QED
  BY <1>1, <1>6 DEF FieldInv, Changing

LEMMA NextEntryFills ==
    ASSUME RegInv, FieldInv, NextEntry PROVE FieldInv'
<1>1. /\ rpc = "fixup" /\ rpc' = "entry" /\ fields' = fields /\ ops' = ops /\ Iter
      /\ FieldsIn(fields, Contents, Len(fields) + 1)
      /\ OpsIn(fields, Contents, Len(Examples) + 1)
      /\ FixedUp(fields, ops, passed) /\ Iterated
  BY DEF NextEntry, FieldInv, AtFixup, Changing, RegInv, Iteration
<1>2. /\ Contents' = Contents
      /\ \/ last'.op = "end" /\ passed' = passed
         \/ last'.op = "iter" /\ passed' = passed \cup {last'.ans}
  BY <1>1, IterDict DEF RegInv
<1>3. FixedUp(fields, ops, IF last'.op = "end" THEN passed' ELSE passed' \ {last'.ans})
  BY <1>1, <1>2 DEF FixedUp
<1>4. AtFixup'
  BY <1>1, <1>2, <1>3 DEF AtFixup
<1> QED
  BY <1>1, <1>4 DEF FieldInv, Changing

LEMMA EntryFills ==
    ASSUME RegInv, FieldInv, Entry PROVE FieldInv'
<1>1. /\ rpc = "entry" /\ Idle /\ fields' = fields /\ ops' = ops
      /\ FieldsIn(fields, Contents, Len(fields) + 1)
      /\ OpsIn(fields, Contents, Len(Examples) + 1)
      /\ \/ last.op = "end" /\ passed = Contents
         \/ last.op = "iter" /\ last.ans \in Contents
      /\ FixedUp(fields, ops, IF last.op = "end" THEN passed ELSE passed \ {last.ans})
  BY DEF Entry, FieldInv, AtFixup, Changing, RegInv, Calls
<1>2. CASE last.op = "end"
  <2>1. rpc' = "done"
    BY <1>2 DEF Entry
  <2>2. FixedUp(fields, ops, Contents)
    BY <1>1, <1>2
  <2>3. ASSUME NEW f \in DOMAIN fields, fields[f].off # NoOps PROVE ops[f] = Final(fields, f)
    <3>1. Pair(fields, f) \in Contents
      BY <1>1, <2>3, FieldNumbers DEF FieldsIn
    <3> QED
      BY <2>2, <2>3, <3>1 DEF FixedUp
  <2>4. ASSUME NEW f \in DOMAIN fields, fields[f].off = NoOps PROVE ops[f] = Final(fields, f)
    <3>1. Exs(fields, fields[f].off) = {}
      BY <2>4 DEF Exs
    <3> QED
      BY <2>4, <3>1 DEF Final, FieldInv
  <2> QED
    BY <1>1, <2>1, <2>3, <2>4 DEF FieldInv, Changing
<1>3. CASE last.op # "end" /\ last.ans.val[1] = "ops"
  <2>1. rpc' = "fixup" /\ UNCHANGED map_vars
    BY <1>3 DEF Entry
  <2>2. Contents' = Contents /\ passed' = passed
    BY <1>1, <2>1, Quiet
  <2>3. \A f : Pair(fields, f) # last.ans
    BY <1>3 DEF Pair
  <2>4. FixedUp(fields, ops, passed)
    BY <1>1, <1>3, <2>3 DEF FixedUp
  <2>5. AtFixup'
    BY <1>1, <2>1, <2>2, <2>4 DEF AtFixup
  <2> QED
    BY <1>1, <2>1, <2>5 DEF FieldInv, Changing
<1>4. CASE last.op # "end" /\ last.ans.val[1] # "ops"
  <2>1. /\ rpc' = "ops found" /\ i' = last.ans.val[2]
        /\ Get(fields[last.ans.val[2]].off)
    BY <1>4 DEF Entry
  <2>2. Known(fields, last.ans)
    BY <1>1, <1>4 DEF RegInv, Items
  <2>3. ~IsOps(fields, last.ans)
    <3> SUFFICES ASSUME IsOps(fields, last.ans) PROVE FALSE
      OBVIOUS
    <3>1. PICK e \in DOMAIN Examples : last.ans.val = <<"ops", Examples[e].ops>>
      BY DEF IsOps
    <3> QED
      BY <1>4, <3>1
  <2>4. PICK g \in DOMAIN fields : fields[g].off \in Key /\ last.ans = Pair(fields, g)
    BY <2>2, <2>3 DEF Known, IsField, Pair
  <2>5. last.ans.val[2] = g
    BY <2>4 DEF Pair
  <2>6. Contents' = Contents /\ passed' = passed
    <3>1. Get(fields[g].off)
      BY <2>1, <2>5
    <3> QED
      BY <2>4, <3>1, GetDict DEF RegInv, Get
  <2>7. FixedUp(fields, ops, passed \ {Pair(fields, g)})
    BY <1>1, <1>4, <2>4
  <2>8. AtFixup'
    BY <1>1, <2>1, <2>5, <2>6, <2>7 DEF AtFixup
  <2> QED
    BY <1>1, <2>1, <2>8 DEF FieldInv, Changing
<1> QED
  BY <1>2, <1>3, <1>4

LEMMA OpsFoundFills ==
    ASSUME RegInv, FieldInv, OpsFound PROVE FieldInv'
<1>1. /\ rpc = "ops found" /\ Idle /\ fields' = fields /\ rpc' = "fixup" /\ UNCHANGED map_vars
      /\ ops' = [ops EXCEPT ![i] = IF last.ans = NoItem THEN NoOps ELSE last.ans.val[2]]
      /\ FieldsIn(fields, Contents, Len(fields) + 1)
      /\ OpsIn(fields, Contents, Len(Examples) + 1)
      /\ FixedUp(fields, ops, passed \ {Pair(fields, i)})
      /\ i \in DOMAIN fields /\ fields[i].off \in Key
      /\ last.ans = FoundIn(Contents, fields[i].off)
  BY DEF OpsFound, FieldInv, AtFixup, Changing, RegInv, Calls
<1>2. Contents' = Contents /\ passed' = passed
  BY <1>1, Quiet
<1>3. fields[i].off # NoOps
  BY <1>1, RegistrationAssumption
<1>4. Finds(Contents, fields[i].off, last.ans)
  BY <1>1, SearchFinds
<1>5. (IF last.ans = NoItem THEN NoOps ELSE last.ans.val[2]) = Final(fields, i)
  <2>1. OpsIn(fields, Contents, Len(Examples) + 1) /\ i \in DOMAIN fields
    BY <1>1
  <2> QED
    BY <1>3, <1>4, <2>1, FindsFinal
<1>6. /\ DOMAIN ops' = DOMAIN fields /\ ops'[i] = Final(fields, i)
      /\ \A f \in DOMAIN fields : f # i => ops'[f] = ops[f]
  BY <1>1, <1>5 DEF FieldInv
<1>7. FixedUp(fields, ops', passed)
  <2> SUFFICES ASSUME NEW f \in DOMAIN fields, fields[f].off # NoOps, Pair(fields, f) \in passed,
                      f # i
               PROVE  ops'[f] = Final(fields, f)
    BY <1>6 DEF FixedUp
  <2>1. Pair(fields, f) # Pair(fields, i)
    <3>1. Pair(fields, f).val[2] = f /\ Pair(fields, i).val[2] = i
      BY DEF Pair
    <3> QED
      BY <3>1
  <2> QED
    BY <1>1, <1>6, <2>1 DEF FixedUp
<1>8. AtFixup'
  BY <1>1, <1>2, <1>7 DEF AtFixup
<1>9. \A f \in DOMAIN fields : fields[f].off = NoOps => ops'[f] = NoOps
  BY <1>3, <1>6 DEF FieldInv
<1> QED
  BY <1>1, <1>6, <1>8, <1>9 DEF FieldInv, Changing

LEMMA MapStepFills ==
    ASSUME RegInv, FieldInv, Unique, MapStep, UNCHANGED reg_vars PROVE FieldInv'
<1>1. UNCHANGED <<fields, ops, rpc, i, reg_err>> /\ fields \in Collections
  BY DEF reg_vars, RegInv, RegTypes
<1>2. /\ call.op \in {"get", "set", "resize"} /\ passed' = passed
      /\ \/ call'.op = "none"
         \/ call'.item = call.item /\ call'.op # "none"
  BY MapStepCall
<1>3. ~Idle /\ (~Idle' => call'.item = call.item)
  BY <1>2 DEF Idle
<1>4. rpc \in {"field added", "ops added", "example found", "ops found"}
  BY <1>3 DEF RegInv, RegTypes, Calls, Entering
<1>5. ASSUME call.op # "get"
      PROVE  \/ ~Committed /\ Committed' /\ Contents' = Instead(Contents, call.item)
             \/ Contents' = Contents /\ Committed' = Committed /\ (Idle' => Committed')
  BY <1>5, MapStepKeeps DEF RegInv, SetsItem, Instead
<1>6. CASE rpc = "field added"
  <2>1. call.op # "get" /\ call.item = Pair(fields, i) /\ AtFields
    BY <1>3, <1>6 DEF RegInv, Calls, FieldInv, AtFields
  <2>2. i \in DOMAIN fields /\ i \in Nat
    <3>1. i <= Len(fields)
      BY <1>6 DEF RegInv, RegTypes
    <3> QED
      BY <3>1, FieldNumbers
  <2>3. CASE Committed' /\ Contents' = Instead(Contents, call.item)
    <3>1. /\ FieldsIn(fields, Contents', i) /\ OpsIn(fields, Contents', 1)
          /\ Pair(fields, i) \in Contents'
      <4>1. Apart(fields) /\ FieldsIn(fields, Contents, i) /\ OpsIn(fields, Contents, 1)
        BY <2>1 DEF AtFields, Unique, Apart
      <4>2. /\ FieldsIn(fields, Instead(Contents, Pair(fields, i)), i)
            /\ OpsIn(fields, Instead(Contents, Pair(fields, i)), 1)
            /\ Pair(fields, i) \in Instead(Contents, Pair(fields, i))
        <5>1. i <= i
          BY <2>2
        <5> QED
          BY <1>1, <2>2, <4>1, <5>1, EnterField
      <4> QED
        BY <2>1, <2>3, <4>2
    <3> QED
      BY <1>1, <1>3, <1>6, <2>1, <2>3, <3>1 DEF FieldInv, AtFields, Changing
  <2>4. CASE Contents' = Contents /\ Committed' = Committed /\ (Idle' => Committed')
    BY <1>1, <1>3, <1>6, <2>1, <2>4 DEF FieldInv, AtFields, Changing
  <2> QED
    BY <1>5, <2>1, <2>3, <2>4
<1>7. CASE rpc = "ops added"
  <2>1. call.op # "get" /\ AtExamples
    BY <1>7 DEF RegInv, Calls, FieldInv
  <2>2. PICK g \in DOMAIN fields :
            /\ fields[g].field = Examples[i].field /\ fields[g].off # NoOps
            /\ call.item = Funcs(fields[g].off, i)
    BY <1>3, <1>7, <2>1 DEF AtExamples
  <2>3. i \in DOMAIN Examples
    <3>1. i <= Len(Examples)
      BY <1>7 DEF RegInv, RegTypes
    <3> QED
      BY <3>1, FieldNumbers, ExampleNumbers
  <2>4. CASE ~Committed /\ Committed' /\ Contents' = Instead(Contents, call.item)
    <3>1. /\ FieldsIn(fields, Contents', Len(fields) + 1) /\ OpsIn(fields, Contents', i + 1)
      <4>1. /\ Apart(fields) /\ FieldsIn(fields, Contents, Len(fields) + 1)
            /\ OpsIn(fields, Contents, i)
        BY <2>1, <2>4 DEF AtExamples, Unique, Apart
      <4> QED
        BY <1>1, <2>2, <2>3, <2>4, <4>1, EnterOps
    <3>2. AtExamples'
      BY <1>1, <1>3, <1>7, <2>2, <2>4, <3>1 DEF AtExamples
    <3> QED
      BY <1>1, <1>7, <3>2 DEF FieldInv, Changing
  <2>5. CASE Contents' = Contents /\ Committed' = Committed /\ (Idle' => Committed')
    <3>1. AtExamples'
      BY <1>1, <1>3, <1>7, <2>1, <2>2, <2>5 DEF AtExamples
    <3> QED
      BY <1>1, <1>7, <3>1 DEF FieldInv, Changing
  <2> QED
    BY <1>5, <2>1, <2>4, <2>5
<1>8. CASE rpc \in {"example found", "ops found"}
  <2>1. call.op = "get"
    BY <1>3, <1>8 DEF RegInv, Calls, Idle
  <2>2. Contents' = Contents
    BY <2>1, MapStepKeeps DEF RegInv
  <2> QED
    BY <1>1, <1>2, <1>8, <2>2 DEF FieldInv, AtExamples, AtFixup, Changing
<1> QED
  BY <1>4, <1>6, <1>7, <1>8

LEMMA FieldStep == RegInv /\ FieldInv /\ Unique /\ [Next]_vars => FieldInv'
<1> SUFFICES ASSUME RegInv, FieldInv, Unique, [Next]_vars PROVE FieldInv'
  OBVIOUS
<1>1. CASE MapStep /\ UNCHANGED reg_vars
  BY <1>1, MapStepFills
<1>2. CASE AddField
  BY <1>2, AddFieldFills
<1>3. CASE FieldAdded
  BY <1>3, FieldAddedFills
<1>4. CASE EndFields
  BY <1>4, EndFieldsFills
<1>5. CASE FindExample
  BY <1>5, FindExampleFills
<1>6. CASE ExampleFound
  BY <1>6, ExampleFoundFills
<1>7. CASE OpsAdded
  BY <1>7, OpsAddedFills
<1>8. CASE EndExamples
  BY <1>8, EndExamplesFills
<1>9. CASE NextEntry
  BY <1>9, NextEntryFills
<1>10. CASE Entry
  BY <1>10, EntryFills
<1>11. CASE OpsFound
  BY <1>11, OpsFoundFills
<1>12. CASE UNCHANGED vars
  <2>1. UNCHANGED map_vars /\ UNCHANGED <<fields, ops, rpc, i, reg_err>>
    BY <1>12 DEF vars, reg_vars
  <2>2. UNCHANGED <<Contents, passed, last, call, hand>> /\ Idle' = Idle
    BY <2>1, Quiet DEF map_vars
  <2>3. Committed' = Committed
    BY <2>2 DEF Committed, HasDisplaced, Idle
  <2> QED
    BY <2>1, <2>2, <2>3 DEF FieldInv, AtFields, AtExamples, AtFixup, Changing
<1> QED
  BY <1>1, <1>2, <1>3, <1>4, <1>5, <1>6, <1>7, <1>8, <1>9, <1>10, <1>11, <1>12 DEF Next

LEMMA FieldsKept == RegInv /\ [Next]_vars => Unique' = Unique
<1> SUFFICES ASSUME RegInv, [Next]_vars PROVE fields' = fields
  BY DEF Unique
<1> QED
  BY DEF Next, vars, reg_vars, AddField, FieldAdded, EndFields, FindExample, ExampleFound,
         OpsAdded, EndExamples, NextEntry, Entry, OpsFound

\* After a registration that succeeded every field has the functions registered for
\* the ops that it has in the game, or NULL, and no offset is left for the reader to
\* call (custom_restore/registration/ch_reg.c; ch_register_all, ch_register_cb).
THEOREM EveryFieldHasItsOps == Spec => []OpsOfField
<1> DEFINE Inv == RegInv /\ (Unique => FieldInv)
<1>1. RegInit => Inv
  BY RegInitInv, FieldInvInit
<1>2. Inv /\ [Next]_vars => Inv'
  <2> SUFFICES ASSUME Inv, [Next]_vars PROVE Inv'
    OBVIOUS
  <2>1. RegInv' /\ Unique' = Unique
    BY RegStep, FieldsKept
  <2>2. Unique => FieldInv'
    BY FieldStep
  <2> QED
    BY <2>1, <2>2
<1>3. Inv => OpsOfField
  <2>1. \A off : For(off) = Exs(fields, off)
    BY DEF For, Exs
  <2> QED
    BY <2>1 DEF OpsOfField, FieldInv, Final
<1> HIDE DEF Inv
<1> QED
  BY <1>1, <1>2, <1>3, PTL DEF Spec
=============================================================================
