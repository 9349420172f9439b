------------------------- MODULE Collection_proofs -------------------------
(***************************************************************************)
(* Proofs about Collection, for every set of datamaps without circles and  *)
(* every layout of their fields.                                           *)
(***************************************************************************)
EXTENDS Collection, FiniteSetTheorems, SequenceTheorems, TLAPS

TD == [name : STRING, type : {"simple", "custom", "embedded"}, ch_offset : Nat,
       total_size_bytes : Nat, n_elems : Nat, embedded_map : Nat]
DM == [class_name : Name, module_name : GameModule, base_map : Nat,
       fields : Nat, n_fields : Nat, ch_size : Nat]

\* The order of the sorted datamaps.
OrderInv ==
    /\ in \in Inputs
    /\ stage = "sort" => sorted = <<>> /\ dms = <<>> /\ tds = <<>>
    /\ stage # "sort" =>
          /\ sorted \in Seq(in.maps)
          /\ \A a, b \in 1..Len(sorted) : a < b => Before(sorted[a], sorted[b])
          /\ \A d \in in.maps : \E k \in 1..Len(sorted) : sorted[k] = d

\* Types, as far as the layout needs them.
LayoutTypes ==
    /\ dms \in Seq(DM) /\ tds \in Seq(TD)
    /\ first \in Nat /\ j \in Nat \ {0} /\ ch_off \in Nat
    /\ Len(dms) <= Len(sorted)
    /\ stage = "field" => Len(dms) < Len(sorted) /\ 0 < first /\ first <= Len(tds) + 1

\* Where the room of a field ends.
RoomEnd(td) == td.ch_offset + Room(td.type, td.total_size_bytes)

\* In t, the fields from k on to before e lie one after the other from lo to hi.
Row(t, k, e, lo, hi) ==
    /\ \A l \in 1..Len(t) : k <= l /\ l < e => lo <= t[l].ch_offset /\ RoomEnd(t[l]) <= hi
    /\ \A l, o \in 1..Len(t) : k <= l /\ l < o /\ o < e => RoomEnd(t[l]) <= t[o].ch_offset

\* SizeAt, for a sequence d of datamaps.
SizeIn(d, i) == IF i \in DOMAIN d THEN d[i].ch_size ELSE 0

\* Class i of d: its base comes before, and its fields in t lie one after the
\* other between the base and the class's size.
ClassOK(d, t, i) ==
    /\ d[i].base_map < i
    /\ d[i].fields + d[i].n_fields <= Len(t) + 1
    /\ SizeIn(d, d[i].base_map) <= d[i].ch_size
    /\ d[i].fields # 0 =>
          Row(t, d[i].fields, d[i].fields + d[i].n_fields,
              SizeIn(d, d[i].base_map), d[i].ch_size)

\* The class that is being filled in, whose base is number b.
RowOpen(b) ==
    /\ SizeIn(dms, b) <= ch_off
    /\ Row(tds, first, Len(tds) + 1, SizeIn(dms, b), ch_off)

LayoutInv ==
    /\ \A i \in 1..Len(dms) : ClassOK(dms, tds, i)
    /\ stage = "field" => RowOpen(IndexOf(BaseOf[Current]))

IInv == OrderInv /\ LayoutTypes /\ LayoutInv
-----------------------------------------------------------------------------
(* Sorting *)

LEMMA BeforeIsStrict ==
    ASSUME NEW d \in DataMap, NEW e \in DataMap, Before(d, e)
    PROVE  d # e
<1>1. /\ ModRank[ModOf[d]] \in Nat /\ Visits[d] \in Nat /\ NameRank[NameOf[d]] \in Nat
  BY GraphAssumption, RanksAssumption, NoCircles
<1> QED
  BY <1>1 DEF Before

\* A datamap sorts after those that it refers to.
LEMMA PartsSortBefore ==
    ASSUME NEW d \in DataMap, NEW p \in Parts(d)
    PROVE  p \in DataMap /\ ~Before(d, p) /\ d # p
<1>1. p \in DataMap /\ ModOf[p] = ModOf[d] /\ Visits[p] < Visits[d]
  BY GraphAssumption, NoCircles DEF Parts
<1>2. Visits[p] \in Nat /\ Visits[d] \in Nat /\ ModRank[ModOf[d]] \in Nat
  BY <1>1, GraphAssumption, RanksAssumption, NoCircles
<1> QED
  BY <1>1, <1>2 DEF Before

LEMMA InputFacts ==
    ASSUME in \in Inputs
    PROVE  /\ in.maps \subseteq DataMap /\ IsFiniteSet(in.maps) /\ Closed(in.maps)
           /\ \A d, e \in in.maps : NameOf[d] = NameOf[e] => d = e
BY InputsAssumption DEF Clash

\* qsort leaves every datamap in the list.
LEMMA SortKeepsAll ==
    ASSUME in \in Inputs, NEW s \in [1..Cardinality(in.maps) -> in.maps],
           \A a, b \in DOMAIN s : a < b => Before(s[a], s[b])
    PROVE  /\ s \in Seq(in.maps) /\ Len(s) = Cardinality(in.maps)
           /\ \A d \in in.maps : \E k \in 1..Len(s) : s[k] = d
<1> DEFINE n == Cardinality(in.maps)
<1>1. n \in Nat /\ IsFiniteSet(in.maps) /\ in.maps \subseteq DataMap
  BY InputFacts, FS_CardinalityType
<1>2. s \in Seq(in.maps) /\ Len(s) = n
  BY <1>1
<1>3. \A a, b \in 1..n : s[a] = s[b] => a = b
  <2> SUFFICES ASSUME NEW a \in 1..n, NEW b \in 1..n, a < b
               PROVE  s[a] # s[b]
    BY <1>1
  <2>1. Before(s[a], s[b]) /\ s[a] \in DataMap /\ s[b] \in DataMap
    BY <1>1
  <2> QED
    BY <2>1, BeforeIsStrict
<1>4. s \in Injection(1..n, in.maps)
  BY <1>3 DEF Injection, IsInjective
<1>5. IsFiniteSet(1..n) /\ Cardinality(1..n) = n
  BY <1>1, FS_Interval
<1>6. s \in Surjection(1..n, in.maps)
  BY <1>1, <1>4, <1>5, FS_Injection
<1> QED
  BY <1>2, <1>6 DEF Surjection

\* "This guarantees that all the dependencies of each map are before it in the
\* list" (ch_recv.c:637).
LEMMA SortedDependencies ==
    ASSUME OrderInv, stage # "sort", NEW i \in 1..Len(sorted),
           NEW p \in Parts(sorted[i])
    PROVE  \E k \in 1..(i - 1) : sorted[k] = p
<1>1. Len(sorted) \in Nat /\ sorted[i] \in in.maps /\ in.maps \subseteq DataMap
  BY InputFacts DEF OrderInv
<1>2. p \in in.maps
  BY <1>1, InputFacts DEF OrderInv, Closed
<1>3. PICK k \in 1..Len(sorted) : sorted[k] = p
  BY <1>2 DEF OrderInv
<1>4. ~Before(sorted[i], p) /\ sorted[i] # p
  BY <1>1, PartsSortBefore
<1>5. ~(i < k) /\ i # k
  BY <1>1, <1>3, <1>4 DEF OrderInv
<1> QED
  BY <1>1, <1>3, <1>5

\* The entry found by name is the datamap's own, and a base's comes earlier.
LEMMA IndexFacts ==
    ASSUME OrderInv, stage # "sort", NEW d \in in.maps
    PROVE  IndexOf(d) \in 1..Len(sorted) /\ sorted[IndexOf(d)] = d
<1>1. d # NoMap
  BY InputFacts, GraphAssumption DEF OrderInv
<1>a. /\ Len(sorted) \in Nat /\ DOMAIN sorted = 1..Len(sorted)
      /\ \A i \in 1..Len(sorted) : sorted[i] \in in.maps
  BY DEF OrderInv
<1>2. \E i \in DOMAIN sorted : NameOf[sorted[i]] = NameOf[d]
  BY <1>a DEF OrderInv
<1>3. /\ IndexOf(d) \in DOMAIN sorted
      /\ NameOf[sorted[IndexOf(d)]] = NameOf[d]
  BY <1>1, <1>2 DEF IndexOf
<1> QED
  BY <1>a, <1>3, InputFacts DEF OrderInv

LEMMA RefIndex ==
    ASSUME OrderInv, stage # "sort", NEW i \in 1..Len(sorted),
           NEW p \in Parts(sorted[i])
    PROVE  IndexOf(p) \in 1..(i - 1)
<1>1. PICK k \in 1..(i - 1) : sorted[k] = p
  BY SortedDependencies
<1>2. Len(sorted) \in Nat /\ p \in in.maps /\ k \in 1..Len(sorted)
  BY <1>1 DEF OrderInv
<1>3. IndexOf(p) \in 1..Len(sorted) /\ sorted[IndexOf(p)] = p
  BY <1>2, IndexFacts
<1>4. in.maps \subseteq DataMap /\ p \in DataMap
  BY <1>2, InputFacts DEF OrderInv
<1>5. ASSUME IndexOf(p) # k PROVE FALSE
  <2>a. \A a, b \in 1..Len(sorted) : a < b => Before(sorted[a], sorted[b])
    BY DEF OrderInv
  <2>b. IndexOf(p) < k \/ k < IndexOf(p)
    BY <1>2, <1>3, <1>5
  <2>1. Before(p, p)
    BY <1>1, <1>2, <1>3, <2>a, <2>b
  <2> QED
    BY <2>1, <1>4, BeforeIsStrict
<1> QED
  BY <1>1, <1>5

LEMMA BaseIndex ==
    ASSUME OrderInv, stage # "sort", NEW i \in 1..Len(sorted)
    PROVE  IndexOf(BaseOf[sorted[i]]) \in Nat /\ IndexOf(BaseOf[sorted[i]]) < i
<1>1. CASE BaseOf[sorted[i]] = NoMap
  <2>1. Len(sorted) \in Nat
    BY DEF OrderInv
  <2> QED
    BY <1>1, <2>1 DEF IndexOf
<1>2. CASE BaseOf[sorted[i]] # NoMap
  <2>1. BaseOf[sorted[i]] \in Parts(sorted[i])
    BY <1>2 DEF Parts
  <2>2. Len(sorted) \in Nat
    BY DEF OrderInv
  <2> QED
    BY <2>1, <2>2, RefIndex
<1> QED
  BY <1>1, <1>2
-----------------------------------------------------------------------------
(* Fields in a row *)

LEMMA AlignFacts ==
    ASSUME NEW x \in Nat
    PROVE  AlignPtr(x) \in Nat /\ x <= AlignPtr(x)
BY DEF AlignPtr, PtrSize

LEMMA RoomFacts ==
    ASSUME NEW td \in TD
    PROVE  /\ Room(td.type, td.total_size_bytes) \in Nat
           /\ td.type = "custom" => Room(td.type, td.total_size_bytes) = PtrSize
           /\ td.type # "custom" =>
                 td.total_size_bytes <= Room(td.type, td.total_size_bytes)
<1>1. td.total_size_bytes \in Nat
  BY DEF TD
<1>2. /\ AlignPtr(td.total_size_bytes) \in Nat
      /\ td.total_size_bytes <= AlignPtr(td.total_size_bytes)
  BY <1>1, AlignFacts
<1>3. CASE td.type = "custom"
  BY <1>3 DEF Room, PtrSize
<1>4. CASE td.type # "custom" /\ td.total_size_bytes > 3
  BY <1>1, <1>2, <1>4 DEF Room
<1>5. CASE td.type # "custom" /\ td.total_size_bytes = 3
  BY <1>5 DEF Room
<1>6. CASE td.type # "custom" /\ td.total_size_bytes < 3
  BY <1>1, <1>6 DEF Room
<1> QED
  BY <1>1, <1>3, <1>4, <1>5, <1>6

LEMMA RoomEndFacts ==
    ASSUME NEW td \in TD
    PROVE  td.ch_offset \in Nat /\ RoomEnd(td) \in Nat /\ td.ch_offset <= RoomEnd(td)
<1>1. Room(td.type, td.total_size_bytes) \in Nat
  BY RoomFacts
<1>2. td.ch_offset \in Nat
  BY DEF TD
<1> QED
  BY <1>1, <1>2 DEF RoomEnd

\* What is written later leaves a row alone.
LEMMA RowStable ==
    ASSUME NEW t \in Seq(TD), NEW td \in TD, NEW k \in Nat, NEW e \in Nat,
           e <= Len(t) + 1, NEW lo, NEW hi, Row(t, k, e, lo, hi)
    PROVE  Row(Append(t, td), k, e, lo, hi)
<1>1. /\ Len(Append(t, td)) = Len(t) + 1 /\ Len(t) \in Nat
      /\ \A l \in 1..Len(t) : Append(t, td)[l] = t[l]
  BY AppendProperties, LenProperties
<1> DEFINE u == Append(t, td)
<1>2. \A l \in 1..Len(u) : l < e => l \in 1..Len(t) /\ u[l] = t[l]
  BY <1>1
<1> HIDE DEF u
<1>3. ASSUME NEW l \in 1..Len(u), k <= l, l < e
      PROVE  lo <= u[l].ch_offset /\ RoomEnd(u[l]) <= hi
  BY <1>2, <1>3 DEF Row
<1>4. ASSUME NEW l \in 1..Len(u), NEW o \in 1..Len(u), k <= l, l < o, o < e
      PROVE  RoomEnd(u[l]) <= u[o].ch_offset
  <2>1. l < e
    BY <1>1, <1>4 DEF u
  <2>2. l \in 1..Len(t) /\ u[l] = t[l] /\ o \in 1..Len(t) /\ u[o] = t[o]
    BY <2>1, <1>2, <1>4
  <2> QED
    BY <2>2, <1>4 DEF Row
<1>5. Row(u, k, e, lo, hi)
  BY <1>3, <1>4 DEF Row
<1> QED
  BY <1>5 DEF u

\* A field that is written at the end of a row makes it longer.
LEMMA RowAppend ==
    ASSUME NEW t \in Seq(TD), NEW td \in TD, NEW k \in Nat, NEW lo \in Nat,
           lo <= td.ch_offset, Row(t, k, Len(t) + 1, lo, td.ch_offset)
    PROVE  Row(Append(t, td), k, Len(t) + 2, lo, RoomEnd(td))
<1> DEFINE u == Append(t, td)
<1>1. /\ Len(u) = Len(t) + 1 /\ Len(t) \in Nat /\ u[Len(t) + 1] = td
      /\ \A l \in 1..Len(t) : u[l] = t[l]
  BY AppendProperties, LenProperties
<1>2. td.ch_offset \in Nat /\ RoomEnd(td) \in Nat /\ td.ch_offset <= RoomEnd(td)
  BY RoomEndFacts
<1>3. \A l \in 1..Len(t) : t[l] \in TD
  BY ElementOfSeq
<1>4. \A l \in 1..Len(t) : RoomEnd(t[l]) \in Nat
  BY <1>3, RoomEndFacts
<1>5. ASSUME NEW l \in 1..Len(u), k <= l
      PROVE  lo <= u[l].ch_offset /\ RoomEnd(u[l]) <= RoomEnd(td)
  <2>1. CASE l = Len(t) + 1
    BY <1>1, <1>2, <2>1
  <2>2. CASE l # Len(t) + 1
    <3>1. l \in 1..Len(t) /\ l < Len(t) + 1
      BY <1>1, <2>2
    <3>2. lo <= t[l].ch_offset /\ RoomEnd(t[l]) <= td.ch_offset
      BY <1>5, <3>1 DEF Row
    <3> QED
      BY <1>1, <1>2, <1>4, <3>1, <3>2
  <2> QED
    BY <2>1, <2>2
<1>6. ASSUME NEW l \in 1..Len(u), NEW o \in 1..Len(u), k <= l, l < o
      PROVE  RoomEnd(u[l]) <= u[o].ch_offset
  <2>1. l \in 1..Len(t) /\ l < Len(t) + 1
    BY <1>1, <1>6
  <2>2. CASE o = Len(t) + 1
    BY <1>1, <1>6, <2>1, <2>2 DEF Row
  <2>3. CASE o # Len(t) + 1
    <3>1. o \in 1..Len(t) /\ o < Len(t) + 1
      BY <1>1, <2>3
    <3> QED
      BY <1>1, <1>6, <2>1, <3>1 DEF Row
  <2> QED
    BY <2>2, <2>3
<1> HIDE DEF u
<1>7. Row(u, k, Len(t) + 2, lo, RoomEnd(td))
  BY <1>5, <1>6 DEF Row
<1> QED
  BY <1>7 DEF u

LEMMA RowWider ==
    ASSUME NEW t \in Seq(TD), NEW k \in Nat, NEW e \in Nat, NEW lo \in Nat,
           NEW hi \in Nat, NEW top \in Nat, hi <= top, Row(t, k, e, lo, hi)
    PROVE  Row(t, k, e, lo, top)
<1>1. \A l \in 1..Len(t) : t[l] \in TD
  BY ElementOfSeq
<1>2. \A l \in 1..Len(t) : RoomEnd(t[l]) \in Nat
  BY <1>1, RoomEndFacts
<1> QED
  BY <1>2 DEF Row
-----------------------------------------------------------------------------
(* Classes *)

LEMMA SizeType ==
    ASSUME NEW d \in Seq(DM), NEW i
    PROVE  SizeIn(d, i) \in Nat
<1>1. CASE i \in DOMAIN d
  <2>1. d[i] \in DM
    BY <1>1
  <2> QED
    BY <1>1, <2>1 DEF SizeIn, DM
<1>2. CASE i \notin DOMAIN d
  BY <1>2 DEF SizeIn
<1> QED
  BY <1>1, <1>2

\* A field that is written later leaves a class alone.
LEMMA ClassKeepsFields ==
    ASSUME NEW d \in Seq(DM), NEW t \in Seq(TD), NEW td \in TD,
           NEW i \in 1..Len(d), ClassOK(d, t, i)
    PROVE  ClassOK(d, Append(t, td), i)
<1>1. Len(Append(t, td)) = Len(t) + 1 /\ Len(t) \in Nat
  BY AppendProperties, LenProperties
<1>2. d[i] \in DM
  BY ElementOfSeq
<1>3. d[i].fields \in Nat /\ d[i].n_fields \in Nat
  BY <1>2 DEF DM
<1>4. d[i].fields + d[i].n_fields <= Len(t) + 1
  BY DEF ClassOK
<1>5. ASSUME d[i].fields # 0
      PROVE  Row(Append(t, td), d[i].fields, d[i].fields + d[i].n_fields,
                 SizeIn(d, d[i].base_map), d[i].ch_size)
  <2>1. Row(t, d[i].fields, d[i].fields + d[i].n_fields,
            SizeIn(d, d[i].base_map), d[i].ch_size)
    BY <1>5 DEF ClassOK
  <2>2. d[i].fields + d[i].n_fields \in Nat
    BY <1>3
  <2> QED
    BY <2>1, <2>2, <1>3, <1>4, RowStable
<1>6. d[i].fields + d[i].n_fields <= Len(Append(t, td)) + 1
  BY <1>1, <1>3, <1>4
<1>7. d[i].base_map < i /\ SizeIn(d, d[i].base_map) <= d[i].ch_size
  BY DEF ClassOK
<1> QED
  BY <1>5, <1>6, <1>7 DEF ClassOK

\* So does a class that is written later: the base of a class comes before it.
LEMMA ClassKeepsMaps ==
    ASSUME NEW d \in Seq(DM), NEW t \in Seq(TD), NEW dm \in DM,
           NEW i \in 1..Len(d), ClassOK(d, t, i)
    PROVE  ClassOK(Append(d, dm), t, i)
<1> DEFINE e == Append(d, dm)
<1>1. /\ Len(e) = Len(d) + 1 /\ Len(d) \in Nat /\ DOMAIN d = 1..Len(d)
      /\ DOMAIN e = 1..(Len(d) + 1) /\ e[i] = d[i]
      /\ \A l \in 1..Len(d) : e[l] = d[l]
  BY AppendProperties, LenProperties
<1>2. d[i] \in DM
  BY ElementOfSeq
<1>3. d[i].base_map \in Nat /\ d[i].base_map < i
  BY <1>2 DEF DM, ClassOK
<1> HIDE DEF e
<1>4. SizeIn(e, d[i].base_map) = SizeIn(d, d[i].base_map)
  BY <1>1, <1>3 DEF SizeIn
<1>5. ClassOK(e, t, i)
  BY <1>1, <1>4 DEF ClassOK
<1> QED
  BY <1>5 DEF e
-----------------------------------------------------------------------------
(* Each action *)

\* The datamap being filled in and its fields.
LEMMA CurrentFacts ==
    ASSUME OrderInv, stage # "sort", dms \in Seq(DM), Len(dms) < Len(sorted)
    PROVE  /\ Len(dms) + 1 \in 1..Len(sorted) /\ Current \in in.maps
           /\ Current \in DataMap /\ FieldsOf[Current] \in Seq(Field)
           /\ IndexOf(BaseOf[Current]) \in Nat
           /\ IndexOf(BaseOf[Current]) < Len(dms) + 1
<1>1. Len(dms) \in Nat /\ Len(sorted) \in Nat /\ sorted \in Seq(in.maps)
  BY DEF OrderInv
<1>2. Len(dms) + 1 \in 1..Len(sorted)
  BY <1>1
<1>3. Current \in in.maps /\ Current \in DataMap
  BY <1>1, <1>2, InputFacts DEF Current, OrderInv
<1>4. FieldsOf[Current] \in Seq(Field)
  BY <1>3, FieldsAssumption
<1>5. /\ IndexOf(BaseOf[Current]) \in Nat
      /\ IndexOf(BaseOf[Current]) < Len(dms) + 1
  BY <1>2, BaseIndex DEF Current
<1> QED
  BY <1>2, <1>3, <1>4, <1>5

LEMMA InitInv == Init => IInv
<1> SUFFICES ASSUME Init PROVE IInv
  OBVIOUS
<1>1. OrderInv
  BY DEF Init, OrderInv
<1>2. LayoutTypes
  BY DEF Init, LayoutTypes
<1>3. LayoutInv
  BY DEF Init, LayoutInv
<1> QED
  BY <1>1, <1>2, <1>3 DEF IInv

LEMMA SortInv ==
    ASSUME IInv, Sort
    PROVE  IInv'
<1>1. PICK s \in [1..Cardinality(in.maps) -> in.maps] :
          /\ \A a, b \in DOMAIN s : a < b => Before(s[a], s[b])
          /\ sorted' = s
  BY DEF Sort
<1>2. in \in Inputs /\ dms = <<>> /\ tds = <<>> /\ stage' = "map"
  BY DEF IInv, OrderInv, Sort
<1>3. /\ s \in Seq(in.maps) /\ Len(s) = Cardinality(in.maps)
      /\ \A d \in in.maps : \E k \in 1..Len(s) : s[k] = d
  BY <1>1, <1>2, SortKeepsAll
<1>4. OrderInv'
  <2>1. DOMAIN s = 1..Len(s)
    BY <1>3
  <2> QED
    BY <1>1, <1>2, <1>3, <2>1 DEF OrderInv, Sort, Before
<1>5. LayoutTypes'
  BY <1>1, <1>2, <1>3 DEF IInv, LayoutTypes, Sort
<1>6. LayoutInv'
  BY <1>2 DEF LayoutInv, Sort
<1> QED
  BY <1>4, <1>5, <1>6 DEF IInv

LEMMA StartMapInv ==
    ASSUME IInv, StartMap
    PROVE  IInv'
<1>1. /\ OrderInv /\ stage # "sort" /\ dms \in Seq(DM) /\ Len(dms) < Len(sorted)
      /\ tds \in Seq(TD)
  BY DEF IInv, LayoutTypes, StartMap
<1>2. Len(tds) \in Nat /\ first' = Len(tds) + 1
  BY <1>1 DEF StartMap
<1> DEFINE b == IndexOf(BaseOf[Current])
<1>3. ch_off' = SizeIn(dms, b) /\ ch_off' \in Nat
  BY <1>1, SizeType DEF StartMap, SizeAt, SizeIn
<1>4. OrderInv'
  BY DEF IInv, OrderInv, StartMap
<1>5. LayoutTypes'
  BY <1>1, <1>2, <1>3 DEF IInv, LayoutTypes, StartMap
<1>6. LayoutInv'
  <2>1. \A i \in 1..Len(dms') : ClassOK(dms', tds', i)
    BY DEF IInv, LayoutInv, StartMap
  <2>2. (IndexOf(BaseOf[Current]))' = b
    BY DEF StartMap, IndexOf, Current
  <2>3. Row(tds, Len(tds) + 1, Len(tds) + 1, SizeIn(dms, b), ch_off')
    BY <1>2 DEF Row
  <2>4. RowOpen(IndexOf(BaseOf[Current]))'
    BY <1>2, <1>3, <2>2, <2>3 DEF RowOpen, StartMap
  <2> QED
    BY <2>1, <2>4 DEF LayoutInv
<1> QED
  BY <1>4, <1>5, <1>6 DEF IInv

\* The type description that is written for a saved field.
LEMMA WrittenFacts ==
    ASSUME IInv, stage = "field", j <= Len(FieldsOf[Current]), NEW f,
           f = FieldsOf[Current][j]
    PROVE  [name |-> f.name, type |-> f.type, ch_offset |-> ch_off,
            total_size_bytes |-> f.size, n_elems |-> f.n,
            embedded_map |-> IndexOf(f.map)] \in TD
<1>1. /\ OrderInv /\ stage # "sort" /\ dms \in Seq(DM) /\ Len(dms) < Len(sorted)
      /\ ch_off \in Nat /\ j \in Nat \ {0}
  BY DEF IInv, LayoutTypes
<1>2. Current \in DataMap /\ FieldsOf[Current] \in Seq(Field)
  BY <1>1, CurrentFacts
<1>3. j \in 1..Len(FieldsOf[Current]) /\ j \in DOMAIN FieldsOf[Current]
  BY <1>1, <1>2
<1>4. f \in Field
  BY <1>2, <1>3, ElementOfSeq
<1>5. IndexOf(f.map) \in Nat
  <2>1. CASE f.map = NoMap
    BY <2>1 DEF IndexOf
  <2>2. CASE f.map # NoMap
    <3>1. f.map \in Parts(Current)
      BY <1>2, <1>3, <2>2, FieldsAssumption
    <3>2. Len(dms) + 1 \in 1..Len(sorted)
      BY <1>1, CurrentFacts
    <3>3. IndexOf(f.map) \in 1..(Len(dms) + 1 - 1)
      BY <1>1, <3>1, <3>2, RefIndex DEF Current
    <3> QED
      BY <3>3
  <2> QED
    BY <2>1, <2>2
<1> QED
  BY <1>1, <1>4, <1>5 DEF Field, TD

LEMMA WriteFieldInv ==
    ASSUME IInv, WriteField
    PROVE  IInv'
<1> DEFINE f  == FieldsOf[Current][j]
           td == [name |-> f.name, type |-> f.type, ch_offset |-> ch_off,
                  total_size_bytes |-> f.size, n_elems |-> f.n,
                  embedded_map |-> IndexOf(f.map)]
           b  == IndexOf(BaseOf[Current])
<1>1. /\ OrderInv /\ stage = "field" /\ stage' = "field" /\ dms \in Seq(DM)
      /\ Len(dms) < Len(sorted) /\ tds \in Seq(TD) /\ ch_off \in Nat
      /\ first \in Nat /\ 0 < first /\ first <= Len(tds) + 1 /\ j \in Nat \ {0}
      /\ dms' = dms /\ sorted' = sorted /\ in' = in /\ first' = first /\ j' = j + 1
  BY DEF IInv, LayoutTypes, WriteField
<1>2. OrderInv'
  BY <1>1 DEF OrderInv
<1>3. (IndexOf(BaseOf[Current]))' = b
  BY <1>1 DEF IndexOf, Current
<1>4. /\ \A i \in 1..Len(dms) : ClassOK(dms, tds, i)
      /\ SizeIn(dms, b) <= ch_off
      /\ Row(tds, first, Len(tds) + 1, SizeIn(dms, b), ch_off)
  BY <1>1 DEF IInv, LayoutInv, RowOpen
<1>5. CASE f.save
  <2>1. td \in TD
    BY <1>1, WrittenFacts DEF WriteField
  <2>2. tds' = Append(tds, td) /\ ch_off' = RoomEnd(td) /\ td.ch_offset = ch_off
    BY <1>5 DEF WriteField, RoomEnd
  <2> HIDE DEF td
  <2>3. /\ tds' \in Seq(TD) /\ Len(tds') = Len(tds) + 1 /\ Len(tds) \in Nat
        /\ ch_off' \in Nat /\ ch_off <= ch_off'
    BY <1>1, <2>1, <2>2, AppendProperties, LenProperties, RoomEndFacts
  <2>4. LayoutTypes'
    BY <1>1, <2>3 DEF LayoutTypes
  <2>5. \A i \in 1..Len(dms) : ClassOK(dms, tds', i)
    BY <1>1, <1>4, <2>1, <2>2, ClassKeepsFields
  <2>6. SizeIn(dms, b) \in Nat
    BY <1>1, SizeType
  <2>7. Row(tds', first, Len(tds) + 2, SizeIn(dms, b), ch_off')
    BY <1>1, <1>4, <2>1, <2>2, <2>6, RowAppend
  <2>8. Len(tds') + 1 = Len(tds) + 2 /\ SizeIn(dms, b) <= ch_off'
    BY <1>1, <1>4, <2>3, <2>6
  <2>9. RowOpen(IndexOf(BaseOf[Current]))'
    BY <1>1, <1>3, <2>7, <2>8 DEF RowOpen
  <2> QED
    BY <1>1, <1>2, <2>4, <2>5, <2>9 DEF IInv, LayoutInv
<1>6. CASE ~f.save
  <2>1. tds' = tds /\ ch_off' = ch_off
    BY <1>6 DEF WriteField
  <2>2. LayoutTypes'
    BY <1>1, <2>1 DEF LayoutTypes
  <2>3. RowOpen(IndexOf(BaseOf[Current]))'
    BY <1>1, <1>3, <1>4, <2>1 DEF RowOpen
  <2> QED
    BY <1>1, <1>2, <1>4, <2>1, <2>2, <2>3 DEF IInv, LayoutInv
<1> QED
  BY <1>5, <1>6

LEMMA EndMapInv ==
    ASSUME IInv, EndMap
    PROVE  IInv'
<1> DEFINE b  == IndexOf(BaseOf[Current])
           g  == IF Len(tds) < first THEN 0 ELSE first
           dm == FilledMap(g, AlignPtr(ch_off))
<1>1. /\ OrderInv /\ stage = "field" /\ stage' = "map" /\ dms \in Seq(DM)
      /\ Len(dms) < Len(sorted) /\ tds \in Seq(TD) /\ ch_off \in Nat
      /\ first \in Nat /\ 0 < first /\ first <= Len(tds) + 1 /\ j \in Nat \ {0}
      /\ dms' = Append(dms, dm) /\ sorted' = sorted /\ in' = in /\ tds' = tds
      /\ first' = first /\ j' = j /\ ch_off' = ch_off
  BY DEF IInv, LayoutTypes, EndMap
<1>2. Current \in DataMap /\ b \in Nat /\ b < Len(dms) + 1
  BY <1>1, CurrentFacts
<1>3. Len(tds) \in Nat /\ Len(dms) \in Nat /\ Len(sorted) \in Nat
  BY <1>1 DEF OrderInv
<1>4. AlignPtr(ch_off) \in Nat /\ ch_off <= AlignPtr(ch_off)
  BY <1>1, AlignFacts
<1>5. /\ dm.base_map = b /\ dm.fields = g /\ dm.n_fields = Len(tds) + 1 - first
      /\ dm.ch_size = AlignPtr(ch_off) /\ g \in Nat /\ dm.n_fields \in Nat
  BY <1>1, <1>3 DEF FilledMap
<1>6. dm \in DM
  <2>1. NameOf[Current] \in Name /\ ModOf[Current] \in GameModule
    BY <1>2, GraphAssumption
  <2> QED
    BY <1>2, <1>4, <1>5, <2>1 DEF FilledMap, DM
<1> HIDE DEF dm
<1>7. /\ dms' \in Seq(DM) /\ Len(dms') = Len(dms) + 1 /\ dms'[Len(dms) + 1] = dm
      /\ \A l \in 1..Len(dms) : dms'[l] = dms[l]
  BY <1>1, <1>6, AppendProperties, LenProperties
<1>8. OrderInv' /\ LayoutTypes'
  BY <1>1, <1>3, <1>7 DEF OrderInv, LayoutTypes
<1>9. /\ \A i \in 1..Len(dms) : ClassOK(dms, tds, i)
      /\ SizeIn(dms, b) <= ch_off
      /\ Row(tds, first, Len(tds) + 1, SizeIn(dms, b), ch_off)
  BY <1>1 DEF IInv, LayoutInv, RowOpen
<1>10. \A i \in 1..Len(dms) : ClassOK(dms', tds, i)
  BY <1>1, <1>6, <1>9, ClassKeepsMaps
<1>11. ClassOK(dms', tds, Len(dms) + 1)
  <2>1. SizeIn(dms', b) = SizeIn(dms, b)
    BY <1>2, <1>3, <1>7 DEF SizeIn
  <2>2. SizeIn(dms, b) \in Nat /\ SizeIn(dms, b) <= AlignPtr(ch_off)
    BY <1>1, <1>4, <1>9, SizeType
  <2>3. Row(tds, first, Len(tds) + 1, SizeIn(dms, b), AlignPtr(ch_off))
    BY <1>1, <1>3, <1>4, <1>9, <2>2, RowWider
  <2>4. /\ g + dm.n_fields <= Len(tds) + 1
        /\ g # 0 => g = first /\ g + dm.n_fields = Len(tds) + 1
    BY <1>1, <1>3, <1>5
  <2> HIDE DEF g
  <2> QED
    BY <1>2, <1>5, <1>7, <2>1, <2>2, <2>3, <2>4 DEF ClassOK
<1>12. LayoutInv'
  <2>1. \A i \in 1..Len(dms') : i \in 1..Len(dms) \/ i = Len(dms) + 1
    BY <1>3, <1>7
  <2> QED
    BY <1>1, <1>10, <1>11, <2>1 DEF LayoutInv
<1> QED
  BY <1>8, <1>12 DEF IInv

\* From WriteToDisk on, the layout stays as it is.
LEMMA LaidOutInv ==
    ASSUME IInv, stage # "sort", stage' \notin {"sort", "field"}, UNCHANGED wvars
    PROVE  IInv'
<1>1. OrderInv' /\ LayoutTypes' /\ LayoutInv'
  BY DEF IInv, OrderInv, LayoutTypes, LayoutInv, wvars
<1> QED
  BY <1>1 DEF IInv

LEMMA NextInv == IInv /\ [Next]_vars => IInv'
<1> SUFFICES ASSUME IInv, [Next]_vars PROVE IInv'
  OBVIOUS
<1>1. CASE Sort
  BY <1>1, SortInv
<1>2. CASE StartMap
  BY <1>2, StartMapInv
<1>3. CASE WriteField
  BY <1>3, WriteFieldInv
<1>4. CASE EndMap
  BY <1>4, EndMapInv
<1>5. CASE WriteToDisk
  BY <1>5, LaidOutInv DEF WriteToDisk
<1>6. CASE LoadFile
  BY <1>6, LaidOutInv DEF LoadFile
<1>7. CASE VerifyHeader
  BY <1>7, LaidOutInv DEF VerifyHeader
<1>8. CASE FixupMap
  BY <1>8, LaidOutInv DEF FixupMap
<1>9. CASE CreateLookup
  BY <1>9, LaidOutInv DEF CreateLookup, wvars
<1>10. CASE UNCHANGED vars
  <2>1. OrderInv' /\ LayoutTypes' /\ LayoutInv'
    BY <1>10 DEF IInv, OrderInv, LayoutTypes, LayoutInv, RowOpen, IndexOf, Current,
                 vars, wvars
  <2> QED
    BY <2>1 DEF IInv
<1> QED
  BY <1>1, <1>2, <1>3, <1>4, <1>5, <1>6, <1>7, <1>8, <1>9, <1>10 DEF Next

LEMMA LayoutInvariant == Spec => []IInv
BY InitInv, NextInv, PTL DEF Spec
-----------------------------------------------------------------------------
(* What follows *)

\* By the time a class is laid out, the classes it derives from or embeds have
\* a place and a size, whatever the datamaps and however they are named
\* (ch_cmp_datamaps, ch_recv.c:635-657).
THEOREM DependenciesComeFirst == Spec => []DependenciesFirst
<1>1. IInv => DependenciesFirst
  <2> SUFFICES ASSUME IInv, NEW i \in DOMAIN sorted, NEW p \in Parts(sorted[i])
               PROVE  \E k \in 1..(i - 1) : sorted[k] = p
    BY DEF DependenciesFirst
  <2>1. OrderInv /\ stage # "sort" /\ i \in 1..Len(sorted)
    BY DEF IInv, OrderInv
  <2> QED
    BY <2>1, SortedDependencies
<1> QED
  BY <1>1, LayoutInvariant, PTL

\* What restoring a field writes, unless it embeds a class that does not fit.
LEMMA EndInRoom ==
    ASSUME IInv, EmbeddedFits, NEW i \in Filled, NEW k \in FieldsAt(i)
    PROVE  EndOf(k) \in Nat /\ EndOf(k) <= RoomEnd(tds[k])
<1>1. k \in 1..Len(tds) /\ tds \in Seq(TD) /\ dms \in Seq(DM)
  BY DEF IInv, LayoutTypes, FieldsAt
<1>2. tds[k] \in TD
  BY <1>1, ElementOfSeq
<1> DEFINE td == tds[k]
           r  == Room(td.type, td.total_size_bytes)
<1>3. /\ td.ch_offset \in Nat /\ td.total_size_bytes \in Nat /\ r \in Nat
      /\ td.type = "custom" => r = PtrSize
      /\ td.type # "custom" => td.total_size_bytes <= r
      /\ td.type \in {"simple", "custom", "embedded"}
      /\ RoomEnd(td) = td.ch_offset + r
  BY <1>2, RoomFacts DEF TD, RoomEnd
<1> HIDE DEF r
<1>4. CASE td.type = "simple"
  BY <1>3, <1>4 DEF EndOf
<1>5. CASE td.type = "custom"
  BY <1>3, <1>5 DEF EndOf, PtrSize
<1>6. CASE td.type = "embedded"
  <2>1. td.n_elems = 1 /\ SizeAt(td.embedded_map) <= td.total_size_bytes
    BY <1>6 DEF EmbeddedFits
  <2>2. (td.n_elems - 1) * td.total_size_bytes = 0
    BY <1>3, <2>1
  <2>3. SizeAt(td.embedded_map) \in Nat
    BY <1>1, SizeType DEF SizeAt, SizeIn
  <2>4. EndOf(k) = td.ch_offset + (0 + SizeAt(td.embedded_map))
    BY <1>6, <2>2 DEF EndOf
  <2> QED
    BY <1>3, <1>6, <2>1, <2>3, <2>4
<1> QED
  BY <1>3, <1>4, <1>5, <1>6

LEMMA FittingLayout ==
    ASSUME IInv, EmbeddedFits
    PROVE  FieldsApart /\ ClassInItsSize
<1>1. /\ dms \in Seq(DM) /\ tds \in Seq(TD)
      /\ \A i \in Filled : i \in 1..Len(dms) /\ ClassOK(dms, tds, i)
  BY DEF IInv, LayoutTypes, LayoutInv, Filled
<1>2. \A i : SizeAt(i) = SizeIn(dms, i) /\ SizeAt(i) \in Nat
  BY <1>1, SizeType DEF SizeAt, SizeIn
<1>3. ASSUME NEW i \in Filled, NEW k \in FieldsAt(i)
      PROVE  /\ tds[k].ch_offset \in Nat /\ dms[i].ch_size \in Nat
             /\ EndOf(k) \in Nat /\ RoomEnd(tds[k]) \in Nat
             /\ EndOf(k) <= RoomEnd(tds[k])
             /\ SizeAt(dms[i].base_map) <= tds[k].ch_offset
             /\ RoomEnd(tds[k]) <= dms[i].ch_size
  <2>1. tds[k] \in TD /\ dms[i] \in DM /\ k \in 1..Len(tds)
    BY <1>1, <1>3, ElementOfSeq DEF FieldsAt
  <2>2. Row(tds, dms[i].fields, dms[i].fields + dms[i].n_fields,
            SizeIn(dms, dms[i].base_map), dms[i].ch_size)
    BY <1>1, <1>3 DEF ClassOK, FieldsAt
  <2> QED
    BY <1>2, <1>3, <2>1, <2>2, EndInRoom, RoomEndFacts DEF Row, FieldsAt, DM
<1>4. ASSUME NEW i \in Filled, NEW k \in FieldsAt(i), NEW l \in FieldsAt(i), k < l
      PROVE  EndOf(k) <= tds[l].ch_offset
  <2>1. Row(tds, dms[i].fields, dms[i].fields + dms[i].n_fields,
            SizeIn(dms, dms[i].base_map), dms[i].ch_size)
    BY <1>1, <1>4 DEF ClassOK, FieldsAt
  <2>2. RoomEnd(tds[k]) <= tds[l].ch_offset
    BY <1>1, <1>4, <2>1 DEF Row, FieldsAt
  <2> QED
    BY <1>3, <1>4, <2>2
<1>5. ASSUME NEW i \in Filled
      PROVE  SizeAt(dms[i].base_map) <= dms[i].ch_size
  BY <1>1, <1>2 DEF ClassOK
<1>6. ASSUME NEW i \in Filled, NEW k \in FieldsAt(i)
      PROVE  EndOf(k) <= dms[i].ch_size
  BY <1>3
<1> QED
  BY <1>3, <1>4, <1>5, <1>6 DEF FieldsApart, ClassInItsSize

\* Where every embedded field is no array and embeds a class that is not larger
\* packed than in the game, restoring the fields of a class writes each of them,
\* and the part of the base class, to bytes of its own (ch_recv.c:541-588).
THEOREM EmbeddedFitsApart == Spec => [](EmbeddedFits => FieldsApart)
<1>1. IInv => (EmbeddedFits => FieldsApart)
  BY FittingLayout
<1> QED
  BY <1>1, LayoutInvariant, PTL

\* In the same case all that restoring a class writes is in the ch_size bytes
\* that are allocated for it (ch_recv.c:574-583, ch_save.h:113).
THEOREM EmbeddedFitsInside == Spec => [](EmbeddedFits => ClassInItsSize)
<1>1. IInv => (EmbeddedFits => ClassInItsSize)
  BY FittingLayout
<1> QED
  BY <1>1, LayoutInvariant, PTL
-----------------------------------------------------------------------------
(* The file on disk *)

\* A field embeds a class that is filled in, and takes some room.
FieldOK(td, n) ==
    /\ td.embedded_map <= n
    /\ td.type # "custom" => 0 < td.total_size_bytes

\* Before the file is written, and while the reader can still reject it.
FileInv ==
    /\ \A k \in 1..Len(tds) : FieldOK(tds[k], Len(dms))
    /\ \A i \in 1..Len(dms) : dms[i].fields = 0 <=> dms[i].n_fields = 0
    /\ fixed \in Nat /\ fixed <= Len(dms)
    /\ stage \notin {"sort", "map", "field"} =>
          Len(dms) = Len(sorted) /\ disk \in 0..FileSize
    /\ AcceptedIfWhole

LEMMA ImageIsFinite ==
    ASSUME NEW S, IsFiniteSet(S), NEW f, f = [x \in S |-> f[x]]
    PROVE  IsFiniteSet({f[x] : x \in S})
<1> DEFINE T == {f[x] : x \in S}
<1>1. f \in Surjection(S, T)
  BY DEF Surjection
<1> QED
  BY <1>1, FS_Surjection

\* The sizes of the sections; there is a datamap and a linked name.
LEMMA SectionFacts ==
    ASSUME OrderInv, LayoutTypes
    PROVE  /\ Len(dms) \in Nat /\ Len(tds) \in Nat /\ StringsSize \in Nat
           /\ Cardinality(in.links) \in Nat /\ Cardinality(in.links) > 0
<1>1. /\ IsFiniteSet(in.maps) /\ IsFiniteSet(in.links) /\ in.links # {}
  BY InputsAssumption DEF OrderInv
<1>2. Len(dms) \in Nat /\ Len(tds) \in Nat /\ DOMAIN tds = 1..Len(tds)
  BY DEF LayoutTypes
<1>3. Cardinality(in.links) \in Nat /\ Cardinality(in.links) # 0
  BY <1>1, FS_CardinalityType, FS_EmptySet
<1>4. IsFiniteSet({NameOf[d] : d \in in.maps})
  <2> DEFINE f == [d \in in.maps |-> NameOf[d]]
  <2>1. IsFiniteSet({f[d] : d \in in.maps})
    <3> HIDE DEF f
    <3>1. f = [d \in in.maps |-> f[d]]
      BY DEF f
    <3> QED
      BY <1>1, <3>1, ImageIsFinite
  <2> QED
    BY <2>1
<1>5. IsFiniteSet({ModOf[d] : d \in in.maps})
  <2> DEFINE f == [d \in in.maps |-> ModOf[d]]
  <2>1. IsFiniteSet({f[d] : d \in in.maps})
    <3> HIDE DEF f
    <3>1. f = [d \in in.maps |-> f[d]]
      BY DEF f
    <3> QED
      BY <1>1, <3>1, ImageIsFinite
  <2> QED
    BY <2>1
<1>6. IsFiniteSet({l[1] : l \in in.links})
  <2> DEFINE f == [l \in in.links |-> l[1]]
  <2>1. IsFiniteSet({f[l] : l \in in.links})
    <3> HIDE DEF f
    <3>1. f = [l \in in.links |-> f[l]]
      BY DEF f
    <3> QED
      BY <1>1, <3>1, ImageIsFinite
  <2> QED
    BY <2>1
<1>7. IsFiniteSet({tds[k].name : k \in DOMAIN tds})
  <2> DEFINE f == [k \in DOMAIN tds |-> tds[k].name]
  <2>1. IsFiniteSet({f[k] : k \in DOMAIN tds})
    <3> HIDE DEF f
    <3>1. f = [k \in DOMAIN tds |-> f[k]]
      BY DEF f
    <3>2. IsFiniteSet(DOMAIN tds)
      BY <1>2, FS_Interval
    <3> QED
      BY <3>1, <3>2, ImageIsFinite
  <2> QED
    BY <2>1
<1>8. IsFiniteSet(Strings)
  BY <1>4, <1>5, <1>6, FS_Union DEF Strings
<1>9. /\ Cardinality(Strings) \in Nat
      /\ Cardinality({tds[k].name : k \in DOMAIN tds}) \in Nat
  BY <1>7, <1>8, FS_CardinalityType
<1>10. StringsSize \in Nat
  BY <1>9 DEF StringsSize
<1> QED
  BY <1>2, <1>3, <1>10

\* The sections lie one after the other, up to the end of the file.
LEMMA SectionsInFile ==
    ASSUME OrderInv, LayoutTypes
    PROVE  /\ dms_off \in Nat /\ tds_off \in Nat /\ strs_off \in Nat /\ lnks_off \in Nat
           /\ HeaderSize \in Nat /\ HeaderSize < dms_off
           /\ tds_off = dms_off + MapSize * Len(dms)
           /\ strs_off = tds_off + FieldSize * Len(tds)
           /\ dms_off <= tds_off /\ tds_off <= strs_off /\ strs_off <= lnks_off
           /\ FileSize = lnks_off + LinkSize * Cardinality(in.links)
           /\ lnks_off + LinkSize <= FileSize /\ FileSize \in Nat
BY SectionFacts DEF dms_off, tds_off, strs_off, lnks_off, FileSize, HeaderSize, MapSize,
                    FieldSize, LinkSize, PtrSize

\* The header of a whole file passes.
LEMMA WholeHeaderOK ==
    ASSUME OrderInv, LayoutTypes, Len(dms) # 0, disk = FileSize
    PROVE  HeaderOK
<1>1. Len(dms) \in Nat /\ Cardinality(in.links) \in Nat /\ Cardinality(in.links) > 0
  BY SectionFacts
<1>2. disk >= HeaderSize
  BY SectionsInFile DEF LinkSize
<1>3. \A off \in {dms_off, tds_off, lnks_off, strs_off} : Inside(off)
  BY SectionsInFile DEF Inside, HeaderSize, LinkSize
<1>4. Inside(dms_off + MapSize * Len(dms) - 1)
  BY <1>1, SectionsInFile DEF Inside, HeaderSize, MapSize, LinkSize
<1>5. Inside(lnks_off + LinkSize * Cardinality(in.links) - 1)
  BY <1>1, SectionsInFile DEF Inside, HeaderSize, LinkSize
<1> QED
  BY <1>2, <1>3, <1>4, <1>5 DEF HeaderOK

\* A file that passes is whole: its last byte is there.
LEMMA HeaderOKIsWhole ==
    ASSUME OrderInv, LayoutTypes, disk \in 0..FileSize, HeaderOK
    PROVE  disk = FileSize
<1>1. Inside(lnks_off + LinkSize * Cardinality(in.links) - 1)
  BY DEF HeaderOK
<1>2. /\ FileSize \in Nat /\ disk \in Nat /\ disk <= FileSize
      /\ FileSize = lnks_off + LinkSize * Cardinality(in.links)
  BY SectionsInFile
<1>3. lnks_off \in Nat /\ Cardinality(in.links) \in Nat
  BY SectionFacts, SectionsInFile
<1>4. FileSize - 1 < disk
  BY <1>1, <1>2, <1>3 DEF Inside, LinkSize
<1> QED
  BY <1>2, <1>4

\* A field has some room in its class.
LEMMA FieldHasRoom ==
    ASSUME NEW td \in TD, NEW n, FieldOK(td, n)
    PROVE  td.ch_offset < RoomEnd(td)
<1>1. /\ td.ch_offset \in Nat /\ td.total_size_bytes \in Nat
      /\ Room(td.type, td.total_size_bytes) \in Nat
      /\ td.type = "custom" => Room(td.type, td.total_size_bytes) = 4
      /\ td.type # "custom" => td.total_size_bytes <= Room(td.type, td.total_size_bytes)
  BY RoomFacts DEF TD, PtrSize
<1>2. Room(td.type, td.total_size_bytes) > 0
  BY <1>1 DEF FieldOK
<1> QED
  BY <1>1, <1>2 DEF RoomEnd

\* Nor is any class of a whole file rejected.
LEMMA WholeMapsOK ==
    ASSUME IInv, FileInv, disk = FileSize, NEW i \in 1..Len(dms)
    PROVE  MapOK(i)
<1>1. /\ OrderInv /\ LayoutTypes /\ dms \in Seq(DM) /\ tds \in Seq(TD)
      /\ ClassOK(dms, tds, i) /\ Len(dms) \in Nat /\ Len(tds) \in Nat
  BY SectionFacts DEF IInv, LayoutTypes, LayoutInv
<1>2. dms[i] \in DM
  BY <1>1, ElementOfSeq
<1>3. /\ dms[i].base_map \in Nat /\ dms[i].fields \in Nat /\ dms[i].n_fields \in Nat
      /\ dms[i].ch_size \in Nat
  BY <1>2 DEF DM
<1>4. ASSUME NEW m \in Nat, m # 0, m <= Len(dms)
      PROVE  Inside(dms_off + MapSize * (m - 1))
  BY <1>1, <1>4, SectionsInFile DEF Inside, MapSize, LinkSize, HeaderSize
<1>5. dms[i].base_map # 0 => Inside(dms_off + MapSize * (dms[i].base_map - 1))
  BY <1>1, <1>3, <1>4 DEF ClassOK
<1>6. (dms[i].fields = 0) <=> (dms[i].n_fields = 0)
  BY DEF FileInv
<1>7. dms[i].fields + dms[i].n_fields <= Len(tds) + 1
  BY <1>1 DEF ClassOK
<1>8. dms[i].fields # 0 => Inside(tds_off + FieldSize * (dms[i].fields - 1))
  <2> SUFFICES ASSUME dms[i].fields # 0
               PROVE  Inside(tds_off + FieldSize * (dms[i].fields - 1))
    OBVIOUS
  <2>1. dms[i].fields <= Len(tds)
    BY <1>1, <1>3, <1>6, <1>7
  <2>2. /\ tds_off \in Nat /\ strs_off = tds_off + 36 * Len(tds) /\ strs_off \in Nat
        /\ 0 < tds_off /\ strs_off < disk /\ disk \in Nat
    BY <1>1, SectionsInFile DEF FieldSize, LinkSize, HeaderSize
  <2>3. /\ dms[i].fields - 1 \in Nat /\ dms[i].fields - 1 < Len(tds)
    BY <1>1, <1>3, <2>1
  <2> QED
    BY <1>1, <2>2, <2>3 DEF Inside, FieldSize
<1>9. ASSUME NEW k \in dms[i].fields..(dms[i].fields + dms[i].n_fields - 1), k # 0
      PROVE  /\ tds[k].embedded_map # 0 =>
                   Inside(dms_off + MapSize * (tds[k].embedded_map - 1))
             /\ tds[k].ch_offset < dms[i].ch_size
  <2>1. /\ k \in 1..Len(tds) /\ dms[i].fields # 0 /\ dms[i].fields <= k
        /\ k < dms[i].fields + dms[i].n_fields
    BY <1>1, <1>3, <1>6, <1>7, <1>9
  <2>2. tds[k] \in TD /\ FieldOK(tds[k], Len(dms))
    BY <1>1, <2>1, ElementOfSeq DEF FileInv
  <2>3. tds[k].embedded_map \in Nat /\ tds[k].embedded_map <= Len(dms)
    BY <2>2 DEF TD, FieldOK
  <2>4. RoomEnd(tds[k]) <= dms[i].ch_size
    BY <1>1, <2>1 DEF ClassOK, Row
  <2>5. tds[k].ch_offset < RoomEnd(tds[k]) /\ tds[k].ch_offset \in Nat
        /\ RoomEnd(tds[k]) \in Nat
    BY <2>2, FieldHasRoom, RoomEndFacts
  <2> QED
    BY <1>3, <1>4, <2>3, <2>4, <2>5
<1> QED
  BY <1>5, <1>6, <1>8, <1>9 DEF MapOK

LEMMA WriteFieldKeepsFile ==
    ASSUME IInv, FileInv, WriteField
    PROVE  FileInv'
<1> DEFINE f  == FieldsOf[Current][j]
           td == [name |-> f.name, type |-> f.type, ch_offset |-> ch_off,
                  total_size_bytes |-> f.size, n_elems |-> f.n,
                  embedded_map |-> IndexOf(f.map)]
<1>1. /\ OrderInv /\ stage = "field" /\ stage' = "field" /\ dms \in Seq(DM)
      /\ Len(dms) < Len(sorted) /\ tds \in Seq(TD) /\ j \in Nat \ {0}
      /\ dms' = dms /\ fixed' = fixed /\ Len(dms) \in Nat
  BY DEF IInv, LayoutTypes, WriteField
<1>2. CASE f.save
  <2>1. td \in TD /\ tds' = Append(tds, td)
    BY <1>1, <1>2, WrittenFacts DEF WriteField
  <2>2. /\ Current \in DataMap /\ FieldsOf[Current] \in Seq(Field)
        /\ Len(dms) + 1 \in 1..Len(sorted)
    BY <1>1, CurrentFacts
  <2>3. j \in DOMAIN FieldsOf[Current]
    BY <1>1, <2>2 DEF WriteField
  <2>4. f \in Field
    BY <2>2, <2>3, ElementOfSeq
  <2>a. f.size \in Nat /\ (f.type # "custom" => f.size > 0)
    BY <2>2, <2>3, <2>4, FieldsAssumption DEF Field
  <2>5. IndexOf(f.map) <= Len(dms)
    <3>1. CASE f.map = NoMap
      BY <1>1, <3>1 DEF IndexOf
    <3>2. CASE f.map # NoMap
      <4>1. f.map \in Parts(sorted[Len(dms) + 1])
        BY <2>2, <2>3, <3>2, FieldsAssumption DEF Current
      <4>2. IndexOf(f.map) \in 1..(Len(dms) + 1 - 1)
        BY <1>1, <2>2, <4>1, RefIndex
      <4> QED
        BY <1>1, <4>2
    <3> QED
      BY <3>1, <3>2
  <2>6. FieldOK(td, Len(dms))
    BY <2>a, <2>5 DEF FieldOK
  <2> HIDE DEF td
  <2>7. /\ Len(tds') = Len(tds) + 1 /\ Len(tds) \in Nat /\ tds'[Len(tds) + 1] = td
        /\ \A k \in 1..Len(tds) : tds'[k] = tds[k]
    BY <1>1, <2>1, AppendProperties, LenProperties
  <2>8. \A k \in 1..Len(tds') : FieldOK(tds'[k], Len(dms))
    BY <2>6, <2>7 DEF FileInv
  <2> QED
    BY <1>1, <2>8 DEF FileInv, AcceptedIfWhole
<1>3. CASE ~f.save
  <2>1. tds' = tds
    BY <1>3 DEF WriteField
  <2> QED
    BY <1>1, <2>1 DEF FileInv, AcceptedIfWhole
<1> QED
  BY <1>2, <1>3

LEMMA EndMapKeepsFile ==
    ASSUME IInv, FileInv, EndMap
    PROVE  FileInv'
<1> DEFINE g  == IF Len(tds) < first THEN 0 ELSE first
           dm == FilledMap(g, AlignPtr(ch_off))
<1>1. /\ OrderInv /\ stage = "field" /\ stage' = "map" /\ dms \in Seq(DM)
      /\ tds \in Seq(TD) /\ first \in Nat /\ 0 < first /\ first <= Len(tds) + 1
      /\ dms' = Append(dms, dm) /\ tds' = tds /\ fixed' = fixed /\ Len(tds) \in Nat
  BY DEF IInv, LayoutTypes, EndMap
<1>2. dm.fields = g /\ dm.n_fields = Len(tds) + 1 - first
  BY DEF FilledMap
<1>3. dm.fields = 0 <=> dm.n_fields = 0
  BY <1>1, <1>2
<1> HIDE DEF dm
<1>4. dms' \in Seq(DM)
  BY EndMapInv DEF IInv, LayoutTypes
<1>5. /\ Len(dms') = Len(dms) + 1 /\ Len(dms) \in Nat /\ dms'[Len(dms) + 1] = dm
      /\ \A i \in 1..Len(dms) : dms'[i] = dms[i]
  BY <1>1, LenProperties
<1>6. \A i \in 1..Len(dms') : dms'[i].fields = 0 <=> dms'[i].n_fields = 0
  BY <1>3, <1>5 DEF FileInv
<1>7. ASSUME NEW k \in 1..Len(tds) PROVE FieldOK(tds[k], Len(dms) + 1)
  <2>1. tds[k] \in TD
    BY <1>1, ElementOfSeq
  <2> QED
    BY <1>5, <2>1 DEF FileInv, FieldOK, TD
<1>8. fixed \in Nat /\ fixed <= Len(dms) + 1
  BY <1>5 DEF FileInv
<1> QED
  BY <1>1, <1>5, <1>6, <1>7, <1>8 DEF FileInv, AcceptedIfWhole

\* From WriteToDisk on only the reader is at work.
LEMMA ReaderKeepsFile ==
    ASSUME IInv, FileInv,
           WriteToDisk \/ LoadFile \/ VerifyHeader \/ FixupMap \/ CreateLookup
    PROVE  FileInv'
<1>1. /\ OrderInv /\ LayoutTypes /\ UNCHANGED wvars
      /\ FileSize \in Nat /\ Len(dms) \in Nat
  BY SectionFacts, SectionsInFile
     DEF IInv, WriteToDisk, LoadFile, VerifyHeader, FixupMap, CreateLookup
<1>2. FileSize' = FileSize /\ dms' = dms /\ tds' = tds /\ sorted' = sorted
  BY <1>1 DEF wvars, FileSize, dms_off, StringsSize, Strings
<1>3. CASE WriteToDisk
  BY <1>1, <1>2, <1>3 DEF FileInv, AcceptedIfWhole, WriteToDisk
<1>4. CASE LoadFile
  BY <1>2, <1>4 DEF FileInv, AcceptedIfWhole, LoadFile
<1>5. CASE VerifyHeader
  <2>1. stage = "bytes" /\ disk' = disk /\ fixed' = fixed
    BY <1>5 DEF VerifyHeader
  <2>2. disk \in 0..FileSize /\ Len(dms) = Len(sorted)
    BY <2>1 DEF FileInv
  <2>3. Len(dms) # 0
    <3>1. in.maps # {} /\ sorted \in Seq(in.maps)
          /\ \A d \in in.maps : \E k \in 1..Len(sorted) : sorted[k] = d
      BY <1>1, <2>1, InputsAssumption DEF OrderInv
    <3> QED
      BY <2>2, <3>1
  <2>4. CASE HeaderOK
    <3>1. stage' = "fixup" /\ disk = FileSize
      BY <1>1, <1>5, <2>2, <2>4, HeaderOKIsWhole DEF VerifyHeader
    <3> QED
      BY <1>2, <2>1, <2>2, <3>1 DEF FileInv, AcceptedIfWhole
  <2>5. CASE ~HeaderOK
    <3>1. stage' = "rejected" /\ disk # FileSize
      BY <1>1, <1>5, <2>3, <2>5, WholeHeaderOK DEF VerifyHeader
    <3>2. disk < FileSize
      BY <1>1, <2>2, <3>1
    <3> QED
      BY <1>2, <2>1, <2>2, <3>1, <3>2 DEF FileInv, AcceptedIfWhole
  <2> QED
    BY <2>4, <2>5
<1>6. CASE FixupMap
  <2>1. stage = "fixup" /\ fixed < Len(dms) /\ fixed \in Nat /\ disk = FileSize
    BY <1>6 DEF FixupMap, FileInv, AcceptedIfWhole
  <2>2. fixed + 1 \in 1..Len(dms)
    BY <1>1, <2>1
  <2>3. MapOK(fixed + 1)
    BY <2>1, <2>2, WholeMapsOK
  <2>4. fixed' = fixed + 1 /\ stage' = stage /\ disk' = disk
    BY <1>6, <2>3 DEF FixupMap
  <2> QED
    BY <1>2, <2>1, <2>2, <2>4 DEF FileInv, AcceptedIfWhole
<1>7. CASE CreateLookup
  BY <1>2, <1>7 DEF FileInv, AcceptedIfWhole, CreateLookup
<1> QED
  BY <1>3, <1>4, <1>5, <1>6, <1>7

LEMMA InitFile == Init => FileInv
BY DEF Init, FileInv, AcceptedIfWhole

LEMMA NextFile == IInv /\ FileInv /\ [Next]_vars => FileInv'
<1> SUFFICES ASSUME IInv, FileInv, [Next]_vars PROVE FileInv'
  OBVIOUS
<1>1. CASE Sort
  BY <1>1 DEF Sort, FileInv, AcceptedIfWhole
<1>2. CASE StartMap
  BY <1>2 DEF StartMap, FileInv, AcceptedIfWhole
<1>3. CASE WriteField
  BY <1>3, WriteFieldKeepsFile
<1>4. CASE EndMap
  BY <1>4, EndMapKeepsFile
<1>5. CASE WriteToDisk \/ LoadFile \/ VerifyHeader \/ FixupMap \/ CreateLookup
  BY <1>5, ReaderKeepsFile
<1>6. CASE UNCHANGED vars
  BY <1>6 DEF vars, wvars, FileInv, AcceptedIfWhole, FileSize, dms_off, StringsSize, Strings
<1> QED
  BY <1>1, <1>2, <1>3, <1>4, <1>5, <1>6 DEF Next

LEMMA FileInvariant == Spec => []FileInv
BY InitFile, NextFile, LayoutInvariant, PTL DEF Spec

\* The reader rejects every file that was cut short, and no other: neither the
\* checks of the header nor those of the classes, for collections of any size
\* (ch_archive.c:104-142).
THEOREM OnlyWholeAccepted == Spec => []AcceptedIfWhole
<1>1. FileInv => AcceptedIfWhole
  BY DEF FileInv
<1> QED
  BY <1>1, FileInvariant, PTL
-----------------------------------------------------------------------------
(* What the file means *)

\* IndexOf, for sorted datamaps s.
IndexIn(s, d) ==
    IF d = NoMap THEN 0 ELSE CHOOSE i \in DOMAIN s : NameOf[s[i]] = NameOf[d]

\* A field f is written as td.
FieldAs(s, f, td) ==
    /\ td.name = f.name /\ td.type = f.type
    /\ f.map # NoMap => td.embedded_map = IndexIn(s, f.map)

\* The saved ones of the first k fields of d are in the type descriptions t,
\* from number fst on.
Written(s, t, d, fst, k) ==
    \A o \in 1..k : FieldsOf[d][o].save =>
        /\ fst + SavedUpTo(d, o) - 1 \in 1..Len(t)
        /\ FieldAs(s, FieldsOf[d][o], t[fst + SavedUpTo(d, o) - 1])

\* Datamap d is written as dm, its fields in t.
WrittenAs(s, d, dm, t) ==
    /\ dm.class_name = NameOf[d] /\ dm.module_name = ModOf[d]
    /\ dm.base_map = IndexIn(s, BaseOf[d])
    /\ dm.n_fields = SavedUpTo(d, Len(FieldsOf[d]))
    /\ Written(s, t, d, dm.fields, Len(FieldsOf[d]))

MeaningInv ==
    /\ stage = "field" =>
          /\ j <= Len(FieldsOf[Current]) + 1
          /\ Len(tds) + 1 - first = SavedUpTo(Current, j - 1)
          /\ Written(sorted, tds, Current, first, j - 1)
    /\ \A i \in 1..Len(dms) : WrittenAs(sorted, sorted[i], dms[i], tds)
    /\ stage = "loaded" => lookup = MapEntries \cup LinkEntries

LEMMA SavedStep ==
    ASSUME NEW d, NEW k \in Nat
    PROVE  /\ SavedUpTo(d, 0) = 0
           /\ SavedUpTo(d, k) \in Nat
           /\ SavedUpTo(d, k + 1) =
                 SavedUpTo(d, k) + IF FieldsOf[d][k + 1].save THEN 1 ELSE 0
<1> DEFINE S(n) == {o \in 1..n : FieldsOf[d][o].save}
<1>1. S(0) = {}
  OBVIOUS
<1>2. SavedUpTo(d, 0) = 0
  BY <1>1, FS_EmptySet DEF SavedUpTo
<1>3. IsFiniteSet(1..k) /\ S(k) \in SUBSET (1..k)
  BY FS_Interval
<1>4. IsFiniteSet(S(k))
  BY <1>3, FS_Subset
<1>5. SavedUpTo(d, k) \in Nat
  BY <1>4, FS_CardinalityType DEF SavedUpTo
<1>6. CASE FieldsOf[d][k + 1].save
  <2>1. S(k + 1) = S(k) \cup {k + 1} /\ k + 1 \notin S(k)
    BY <1>6
  <2>2. Cardinality(S(k + 1)) = Cardinality(S(k)) + 1
    BY <1>4, <2>1, FS_AddElement
  <2> QED
    BY <1>2, <1>5, <1>6, <2>2 DEF SavedUpTo
<1>7. CASE ~FieldsOf[d][k + 1].save
  <2>1. S(k + 1) = S(k)
    BY <1>7
  <2>2. SavedUpTo(d, k + 1) = SavedUpTo(d, k)
    BY <2>1, Zenon DEF SavedUpTo
  <2> QED
    BY <1>2, <1>5, <1>7, <2>2
<1> QED
  BY <1>6, <1>7

\* A saved field is counted.
LEMMA SavedCounts ==
    ASSUME NEW d, NEW o \in Nat \ {0}, FieldsOf[d][o].save
    PROVE  SavedUpTo(d, o) \in Nat /\ SavedUpTo(d, o) > 0
<1>1. o - 1 \in Nat /\ o - 1 + 1 = o
  OBVIOUS
<1>2. SavedUpTo(d, o - 1) \in Nat /\ SavedUpTo(d, o) = SavedUpTo(d, o - 1) + 1
  BY <1>1, SavedStep
<1> QED
  BY <1>2

\* What is written later leaves the fields of a datamap alone.
LEMMA WrittenStable ==
    ASSUME NEW s, NEW t \in Seq(TD), NEW td \in TD, NEW d, NEW fst, NEW k,
           Written(s, t, d, fst, k)
    PROVE  Written(s, Append(t, td), d, fst, k)
<1> DEFINE u == Append(t, td)
<1>1. /\ Len(u) = Len(t) + 1 /\ Len(t) \in Nat
      /\ \A l \in 1..Len(t) : l \in 1..Len(u) /\ u[l] = t[l]
  BY AppendProperties, LenProperties
<1> HIDE DEF u
<1>2. Written(s, u, d, fst, k)
  BY <1>1 DEF Written
<1> QED
  BY <1>2 DEF u

\* The fields of a datamap that is filled in, when another field is written.
LEMMA MapsStayWritten ==
    ASSUME MeaningInv, tds \in Seq(TD), NEW td \in TD, NEW i \in 1..Len(dms)
    PROVE  WrittenAs(sorted, sorted[i], dms[i], Append(tds, td))
<1>1. WrittenAs(sorted, sorted[i], dms[i], tds)
  BY DEF MeaningInv
<1> QED
  BY <1>1, WrittenStable DEF WrittenAs

LEMMA WriteFieldKeepsMeaning ==
    ASSUME IInv, MeaningInv, WriteField
    PROVE  MeaningInv'
<1> DEFINE f  == FieldsOf[Current][j]
           td == [name |-> f.name, type |-> f.type, ch_offset |-> ch_off,
                  total_size_bytes |-> f.size, n_elems |-> f.n,
                  embedded_map |-> IndexOf(f.map)]
<1>1. /\ OrderInv /\ stage = "field" /\ stage' = "field" /\ tds \in Seq(TD)
      /\ Len(tds) \in Nat /\ first \in Nat /\ j \in Nat \ {0}
      /\ dms' = dms /\ sorted' = sorted /\ first' = first /\ j' = j + 1
      /\ j <= Len(FieldsOf[Current]) /\ dms \in Seq(DM) /\ Len(dms) < Len(sorted)
  BY DEF IInv, LayoutTypes, WriteField
<1>2. Current' = Current
  BY <1>1 DEF Current
<1>3. Len(FieldsOf[Current]) \in Nat
  BY <1>1, CurrentFacts
<1>4. j + 1 <= Len(FieldsOf[Current]) + 1 /\ j - 1 \in Nat /\ j - 1 + 1 = j
      /\ j + 1 - 1 = j
  BY <1>1, <1>3
<1>5. /\ SavedUpTo(Current, j - 1) \in Nat
      /\ SavedUpTo(Current, j) = SavedUpTo(Current, j - 1) + IF f.save THEN 1 ELSE 0
  BY <1>4, SavedStep
<1>6. /\ Len(tds) + 1 - first = SavedUpTo(Current, j - 1)
      /\ Written(sorted, tds, Current, first, j - 1)
  BY <1>1 DEF MeaningInv
<1>7. CASE f.save
  <2>1. td \in TD /\ tds' = Append(tds, td)
    BY <1>1, <1>7, WrittenFacts DEF WriteField
  <2>2. FieldAs(sorted, f, td)
    BY DEF FieldAs, IndexIn, IndexOf
  <2> HIDE DEF td
  <2>3. Len(tds') = Len(tds) + 1 /\ tds'[Len(tds) + 1] = td
    BY <1>1, <2>1, AppendProperties, LenProperties
  <2>4. Written(sorted, tds', Current, first, j - 1)
    BY <1>1, <1>6, <2>1, WrittenStable
  <2>5. /\ first + SavedUpTo(Current, j) - 1 = Len(tds) + 1
        /\ Len(tds') + 1 - first = SavedUpTo(Current, j)
    <3>1. SavedUpTo(Current, j) = SavedUpTo(Current, j - 1) + 1
      BY <1>5, <1>7
    <3> DEFINE a == SavedUpTo(Current, j - 1)
               b == SavedUpTo(Current, j)
               m == Len(tds)
               n == Len(tds')
    <3>2. m \in Nat /\ first \in Nat /\ n = m + 1 /\ m + 1 - first = a /\ b = a + 1
      BY <1>1, <1>6, <2>3, <3>1
    <3> HIDE DEF a, b, m, n
    <3>3. first + b - 1 = m + 1 /\ n + 1 - first = b
      BY <3>2
    <3> QED
      BY <3>3 DEF a, b, m, n
  <2>6. Written(sorted, tds', Current, first, j)
    <3> SUFFICES ASSUME NEW o \in 1..j, FieldsOf[Current][o].save
                 PROVE  /\ first + SavedUpTo(Current, o) - 1 \in 1..Len(tds')
                        /\ FieldAs(sorted, FieldsOf[Current][o],
                                   tds'[first + SavedUpTo(Current, o) - 1])
      BY DEF Written
    <3>1. CASE o = j
      BY <1>1, <2>2, <2>3, <2>5, <3>1
    <3>2. CASE o # j
      <4>1. o \in 1..(j - 1)
        BY <1>1, <3>2
      <4> QED
        BY <2>4, <4>1 DEF Written
    <3> QED
      BY <3>1, <3>2
  <2>7. \A i \in 1..Len(dms) : WrittenAs(sorted, sorted[i], dms[i], tds')
    BY <1>1, <2>1, MapsStayWritten
  <2> QED
    BY <1>1, <1>2, <1>4, <2>5, <2>6, <2>7 DEF MeaningInv
<1>8. CASE ~f.save
  <2>1. tds' = tds
    BY <1>8 DEF WriteField
  <2>2. Len(tds) + 1 - first = SavedUpTo(Current, j)
    BY <1>5, <1>6, <1>8
  <2>3. Written(sorted, tds, Current, first, j)
    <3>1. \A o \in 1..j : o \in 1..(j - 1) \/ o = j
      BY <1>1
    <3> QED
      BY <1>6, <1>8, <3>1 DEF Written
  <2> QED
    BY <1>1, <1>2, <1>4, <2>1, <2>2, <2>3 DEF MeaningInv
<1> QED
  BY <1>7, <1>8

LEMMA StartMapKeepsMeaning ==
    ASSUME IInv, MeaningInv, StartMap
    PROVE  MeaningInv'
<1>1. /\ OrderInv /\ stage = "map" /\ stage' = "field" /\ tds \in Seq(TD)
      /\ Len(tds) \in Nat /\ first' = Len(tds) + 1 /\ j' = 1
      /\ dms' = dms /\ sorted' = sorted /\ tds' = tds
      /\ dms \in Seq(DM) /\ Len(dms) < Len(sorted)
  BY DEF IInv, LayoutTypes, StartMap
<1>2. Current' = Current
  BY <1>1 DEF Current
<1>3. Len(FieldsOf[Current]) \in Nat
  BY <1>1, CurrentFacts
<1>4. SavedUpTo(Current, 0) = 0
  BY SavedStep, 0 \in Nat
<1>5. /\ j' <= Len(FieldsOf[Current]) + 1 /\ j' - 1 = 0
      /\ Len(tds') + 1 - first' = SavedUpTo(Current, 0)
  BY <1>1, <1>3, <1>4
<1>6. Written(sorted, tds, Current, first, j - 1)'
  BY <1>5 DEF Written
<1> QED
  BY <1>1, <1>2, <1>5, <1>6 DEF MeaningInv

LEMMA EndMapKeepsMeaning ==
    ASSUME IInv, MeaningInv, EndMap
    PROVE  MeaningInv'
<1> DEFINE g  == IF Len(tds) < first THEN 0 ELSE first
           dm == FilledMap(g, AlignPtr(ch_off))
<1>1. /\ OrderInv /\ stage = "field" /\ stage' = "map" /\ dms \in Seq(DM)
      /\ tds \in Seq(TD) /\ first \in Nat /\ 0 < first /\ first <= Len(tds) + 1
      /\ dms' = Append(dms, dm) /\ tds' = tds /\ sorted' = sorted /\ Len(tds) \in Nat
      /\ j \in Nat /\ Len(dms) < Len(sorted) /\ j > Len(FieldsOf[Current])
  BY DEF IInv, LayoutTypes, EndMap
<1>2. Len(FieldsOf[Current]) \in Nat
  BY <1>1, CurrentFacts
<1>3. j - 1 = Len(FieldsOf[Current])
  BY <1>1, <1>2 DEF MeaningInv
<1> DEFINE n == Len(FieldsOf[Current])
<1>4. Len(tds) + 1 - first = SavedUpTo(Current, n) /\ Written(sorted, tds, Current, first, n)
  BY <1>1, <1>3 DEF MeaningInv
<1>5. Written(sorted, tds, Current, g, n)
  <2>1. CASE first <= Len(tds)
    BY <1>1, <1>4, <2>1
  <2>2. CASE ~(first <= Len(tds))
    <3>1. ASSUME NEW o \in 1..n, FieldsOf[Current][o].save PROVE FALSE
      <4>1. first + SavedUpTo(Current, o) - 1 \in 1..Len(tds)
        BY <1>4, <3>1 DEF Written
      <4>2. SavedUpTo(Current, o) \in Nat /\ SavedUpTo(Current, o) > 0
        BY <1>2, <3>1, SavedCounts
      <4> QED
        BY <1>1, <2>2, <4>1, <4>2
    <3> QED
      BY <3>1 DEF Written
  <2> QED
    BY <2>1, <2>2
<1>6. WrittenAs(sorted, Current, dm, tds)
  BY <1>4, <1>5 DEF WrittenAs, FilledMap, IndexIn, IndexOf
<1>7. dms' \in Seq(DM)
  BY EndMapInv DEF IInv, LayoutTypes
<1> HIDE DEF dm
<1>8. /\ Len(dms') = Len(dms) + 1 /\ Len(dms) \in Nat /\ dms'[Len(dms) + 1] = dm
      /\ \A i \in 1..Len(dms) : dms'[i] = dms[i]
  BY <1>1, <1>7, LenProperties
<1>9. \A i \in 1..Len(dms') : WrittenAs(sorted, sorted[i], dms'[i], tds)
  <2>1. \A i \in 1..Len(dms') : i \in 1..Len(dms) \/ i = Len(dms) + 1
    BY <1>8
  <2>2. \A i \in 1..Len(dms) : WrittenAs(sorted, sorted[i], dms[i], tds)
    BY DEF MeaningInv
  <2> QED
    BY <1>6, <1>8, <2>1, <2>2 DEF Current
<1> QED
  BY <1>1, <1>9 DEF MeaningInv

LEMMA InitMeaning == Init => MeaningInv
BY DEF Init, MeaningInv

LEMMA NextMeaning == IInv /\ MeaningInv /\ [Next]_vars => MeaningInv'
<1> SUFFICES ASSUME IInv, MeaningInv, [Next]_vars PROVE MeaningInv'
  OBVIOUS
<1>1. CASE Sort
  <2>1. dms = <<>> /\ dms' = dms /\ stage' = "map"
    BY <1>1 DEF Sort, IInv, OrderInv
  <2> QED
    BY <2>1 DEF MeaningInv
<1>2. CASE StartMap
  BY <1>2, StartMapKeepsMeaning
<1>3. CASE WriteField
  BY <1>3, WriteFieldKeepsMeaning
<1>4. CASE EndMap
  BY <1>4, EndMapKeepsMeaning
<1>5. CASE WriteToDisk \/ LoadFile \/ VerifyHeader \/ FixupMap
  <2>1. UNCHANGED wvars /\ stage' \notin {"field", "loaded"}
    BY <1>5 DEF WriteToDisk, LoadFile, VerifyHeader, FixupMap
  <2> QED
    BY <2>1 DEF MeaningInv, wvars
<1>6. CASE CreateLookup
  <2>1. /\ UNCHANGED wvars /\ stage' = "loaded"
        /\ lookup' = MapEntries \cup LinkEntries
    BY <1>6 DEF CreateLookup
  <2>2. MapEntries' = MapEntries /\ LinkEntries' = LinkEntries
    BY <2>1 DEF wvars, MapEntries, LinkEntries, IndexOf
  <2> QED
    BY <2>1, <2>2 DEF MeaningInv, wvars
<1>7. CASE UNCHANGED vars
  BY <1>7 DEF vars, wvars, MeaningInv, Current, MapEntries, LinkEntries, IndexOf
<1> QED
  BY <1>1, <1>2, <1>3, <1>4, <1>5, <1>6, <1>7 DEF Next

LEMMA MeaningInvariant == Spec => []MeaningInv
BY InitMeaning, NextMeaning, LayoutInvariant, PTL DEF Spec

LEMMA SortedOnce ==
    ASSUME OrderInv, stage # "sort", NEW a \in 1..Len(sorted), NEW b \in 1..Len(sorted),
           sorted[a] = sorted[b]
    PROVE  a = b
<1>a. /\ sorted \in Seq(in.maps) /\ in.maps \subseteq DataMap
      /\ \A k, l \in 1..Len(sorted) : k < l => Before(sorted[k], sorted[l])
  BY InputFacts DEF OrderInv
<1>1. Len(sorted) \in Nat /\ sorted[a] \in DataMap
  BY <1>a
<1>2. /\ a < b => Before(sorted[a], sorted[a])
      /\ b < a => Before(sorted[a], sorted[a])
  BY <1>a
<1>3. ~Before(sorted[a], sorted[a])
  BY <1>1, BeforeIsStrict
<1>4. ~(a < b) /\ ~(b < a)
  BY <1>2, <1>3
<1> QED
  BY <1>1, <1>4

\* The number of a datamap that is referred to.
LEMMA PartIndex ==
    ASSUME OrderInv, stage # "sort", NEW d \in in.maps, NEW p \in Parts(d)
    PROVE  /\ p # NoMap /\ p \in in.maps
           /\ IndexOf(p) \in 1..Len(sorted) /\ sorted[IndexOf(p)] = p
<1>1. p \in in.maps
  BY InputFacts DEF OrderInv, Closed
<1>2. p \in DataMap /\ NoMap \notin DataMap
  BY <1>1, InputFacts, GraphAssumption DEF OrderInv
<1> QED
  BY <1>1, <1>2, IndexFacts

\* When the file is loaded, all that was kept is in it, under its name.
LEMMA LoadedFacts ==
    ASSUME IInv, FileInv, MeaningInv, stage = "loaded"
    PROVE  /\ OrderInv /\ Filled = 1..Len(sorted) /\ Len(sorted) \in Nat
           /\ lookup = MapEntries \cup LinkEntries
           /\ \A i \in 1..Len(sorted) :
                 /\ sorted[i] \in in.maps
                 /\ WrittenAs(sorted, sorted[i], dms[i], tds)
                 /\ dms[i].class_name = NameOf[sorted[i]]
<1>1. OrderInv /\ dms \in Seq(DM) /\ Len(dms) = Len(sorted)
  BY DEF IInv, LayoutTypes, FileInv
<1>2. Filled = 1..Len(sorted) /\ Len(sorted) \in Nat /\ sorted \in Seq(in.maps)
  BY <1>1 DEF Filled, OrderInv
<1>3. lookup = MapEntries \cup LinkEntries
  BY DEF MeaningInv
<1>4. \A i \in 1..Len(sorted) : sorted[i] \in in.maps
  BY <1>2
<1>5. \A i \in 1..Len(sorted) : WrittenAs(sorted, sorted[i], dms[i], tds)
  BY <1>1 DEF MeaningInv
<1> QED
  BY <1>1, <1>2, <1>3, <1>4, <1>5 DEF WrittenAs

\* An entry by class name is that of the class.
LEMMA MapEntry ==
    ASSUME IInv, FileInv, MeaningInv, stage = "loaded", NEW d \in in.maps, NEW i
    PROVE  <<NameOf[d], i>> \in MapEntries <=> i = IndexOf(d)
<1>1. /\ OrderInv /\ Filled = 1..Len(sorted) /\ DOMAIN dms = 1..Len(sorted)
      /\ \A k \in 1..Len(sorted) :
            sorted[k] \in in.maps /\ dms[k].class_name = NameOf[sorted[k]]
  BY LoadedFacts DEF Filled
<1>2. IndexOf(d) \in 1..Len(sorted) /\ sorted[IndexOf(d)] = d
  BY <1>1, IndexFacts
<1>3. ASSUME <<NameOf[d], i>> \in MapEntries PROVE i = IndexOf(d)
  <2>1. i \in 1..Len(sorted) /\ dms[i].class_name = NameOf[d]
    BY <1>1, <1>3 DEF MapEntries
  <2>2. sorted[i] = d
    BY <1>1, <2>1, InputFacts DEF OrderInv
  <2> QED
    BY <1>1, <1>2, <2>1, <2>2, SortedOnce
<1>4. <<NameOf[d], IndexOf(d)>> \in MapEntries
  BY <1>1, <1>2 DEF MapEntries
<1> QED
  BY <1>3, <1>4

\* No linked name is that of a class, and each leads to its class.
LEMMA LinkEntry ==
    ASSUME in \in Inputs
    PROVE  /\ \A d \in in.maps : \A i : <<NameOf[d], i>> \notin LinkEntries
           /\ \A l \in in.links : \A i : \A d \in in.maps : l[2] = NameOf[d] =>
                 (<<l[1], i>> \in LinkEntries <=> i = IndexOf(d))
<1>1. /\ \A d \in in.maps : \A l \in in.links : l[1] # NameOf[d]
      /\ \A l, o \in in.links : l[1] = o[1] => l = o
  BY InputsAssumption
<1>2. \A d \in in.maps : (CHOOSE e \in in.maps : NameOf[e] = NameOf[d]) = d
  BY InputFacts
<1>3. \A d \in in.maps : \A i : <<NameOf[d], i>> \notin LinkEntries
  BY <1>1 DEF LinkEntries
<1>4. ASSUME NEW l \in in.links, NEW i, NEW d \in in.maps, l[2] = NameOf[d]
      PROVE  <<l[1], i>> \in LinkEntries <=> i = IndexOf(d)
  <2>1. (CHOOSE e \in in.maps : NameOf[e] = l[2]) = d
    BY <1>2, <1>4
  <2>2. ASSUME <<l[1], i>> \in LinkEntries PROVE i = IndexOf(d)
    <3>1. PICK o \in in.links :
              <<l[1], i>> = <<o[1], IndexOf(CHOOSE e \in in.maps : NameOf[e] = o[2])>>
      BY <2>2 DEF LinkEntries
    <3>2. o = l
      BY <1>1, <3>1
    <3> QED
      BY <2>1, <3>1, <3>2
  <2>3. <<l[1], IndexOf(d)>> \in LinkEntries
    BY <2>1 DEF LinkEntries
  <2> QED
    BY <2>2, <2>3
<1> QED
  BY <1>3, <1>4

\* A name leads to one entry.
LEMMA OneEntry ==
    ASSUME IInv, FileInv, MeaningInv, stage = "loaded", NEW d \in in.maps
    PROVE  Cardinality({e \in lookup : e[1] = NameOf[d]}) = 1
<1>1. lookup = MapEntries \cup LinkEntries /\ in \in Inputs
  BY LoadedFacts DEF OrderInv
<1>2. /\ \A e \in MapEntries : e = <<e[1], e[2]>>
      /\ \A e \in LinkEntries : e = <<e[1], e[2]>>
  BY DEF MapEntries, LinkEntries
<1>3. <<NameOf[d], IndexOf(d)>> \in MapEntries
  BY MapEntry
<1>4. ASSUME NEW e \in lookup, e[1] = NameOf[d]
      PROVE  e = <<NameOf[d], IndexOf(d)>>
  <2>1. e \in MapEntries /\ e = <<NameOf[d], e[2]>>
    BY <1>1, <1>2, <1>4, LinkEntry
  <2> QED
    BY <2>1, MapEntry
<1>5. {e \in lookup : e[1] = NameOf[d]} = {<<NameOf[d], IndexOf(d)>>}
  <2> DEFINE x == <<NameOf[d], IndexOf(d)>>
  <2>1. x \in lookup /\ x[1] = NameOf[d]
    BY <1>1, <1>3
  <2> HIDE DEF x
  <2>2. \A e \in lookup : e[1] = NameOf[d] => e = x
    BY <1>4 DEF x
  <2>3. {e \in lookup : e[1] = NameOf[d]} = {x}
    BY <2>1, <2>2
  <2> QED
    BY <2>3 DEF x
<1> QED
  BY <1>5, FS_Singleton

\* The base that is found is the class of that name.
LEMMA BaseFound ==
    ASSUME IInv, FileInv, MeaningInv, stage = "loaded", NEW d \in in.maps
    PROVE  dms[IndexOf(d)].base_map =
               IF BaseOf[d] = NoMap THEN 0
               ELSE CHOOSE b \in Filled : dms[b].class_name = NameOf[BaseOf[d]]
<1>1. /\ OrderInv /\ Filled = 1..Len(sorted)
      /\ \A k \in 1..Len(sorted) :
            /\ sorted[k] \in in.maps /\ dms[k].class_name = NameOf[sorted[k]]
            /\ WrittenAs(sorted, sorted[k], dms[k], tds)
  BY LoadedFacts
<1>2. IndexOf(d) \in 1..Len(sorted) /\ sorted[IndexOf(d)] = d
  BY <1>1, IndexFacts
<1>3. dms[IndexOf(d)].base_map = IndexOf(BaseOf[d])
  <2>1. dms[IndexOf(d)].base_map = IndexIn(sorted, BaseOf[d])
    BY <1>1, <1>2 DEF WrittenAs
  <2> QED
    BY <2>1 DEF IndexIn, IndexOf
<1>4. CASE BaseOf[d] = NoMap
  BY <1>3, <1>4 DEF IndexOf
<1>5. CASE BaseOf[d] # NoMap
  <2> DEFINE p == BaseOf[d]
  <2>1. p \in Parts(d)
    BY <1>5 DEF Parts
  <2>2. p \in in.maps /\ IndexOf(p) \in 1..Len(sorted) /\ sorted[IndexOf(p)] = p
    BY <1>1, <2>1, PartIndex
  <2>3. ASSUME NEW b \in Filled, dms[b].class_name = NameOf[p]
        PROVE  b = IndexOf(p)
    <3>1. b \in 1..Len(sorted) /\ sorted[b] \in in.maps /\ NameOf[sorted[b]] = NameOf[p]
      BY <1>1, <2>3
    <3>2. \A m, n \in in.maps : NameOf[m] = NameOf[n] => m = n
      BY <1>1, InputFacts DEF OrderInv
    <3>3. sorted[b] = p
      BY <2>2, <3>1, <3>2
    <3> QED
      BY <1>1, <2>2, <3>1, <3>3, SortedOnce
  <2>4. IndexOf(p) \in Filled /\ dms[IndexOf(p)].class_name = NameOf[p]
    BY <1>1, <2>2
  <2>5. (CHOOSE b \in Filled : dms[b].class_name = NameOf[p]) = IndexOf(p)
    BY <2>3, <2>4
  <2> QED
    BY <1>3, <1>5, <2>5
<1> QED
  BY <1>4, <1>5

\* The saved fields are found where the reader looks for them.
LEMMA FieldsFound ==
    ASSUME IInv, FileInv, MeaningInv, stage = "loaded", NEW d \in in.maps,
           NEW k \in DOMAIN FieldsOf[d], FieldsOf[d][k].save, NEW f, NEW td,
           f = FieldsOf[d][k], td = tds[dms[IndexOf(d)].fields + SavedUpTo(d, k) - 1]
    PROVE  /\ td.name = f.name /\ td.type = f.type
           /\ f.map # NoMap => dms[td.embedded_map].class_name = NameOf[f.map]
<1>1. /\ OrderInv
      /\ \A i \in 1..Len(sorted) :
            /\ dms[i].class_name = NameOf[sorted[i]]
            /\ WrittenAs(sorted, sorted[i], dms[i], tds)
  BY LoadedFacts
<1>2. IndexOf(d) \in 1..Len(sorted) /\ sorted[IndexOf(d)] = d /\ d \in DataMap
  BY <1>1, IndexFacts, InputFacts DEF OrderInv
<1>3. FieldsOf[d] \in Seq(Field) /\ k \in 1..Len(FieldsOf[d])
  BY <1>2, FieldsAssumption
<1>4. FieldAs(sorted, f, td)
  BY <1>1, <1>2, <1>3 DEF WrittenAs, Written
<1>5. ASSUME f.map # NoMap
      PROVE  dms[td.embedded_map].class_name = NameOf[f.map]
  <2>1. f.map \in Parts(d)
    BY <1>2, <1>5, FieldsAssumption
  <2>2. IndexOf(f.map) \in 1..Len(sorted) /\ sorted[IndexOf(f.map)] = f.map
    BY <1>1, <2>1, PartIndex
  <2>3. td.embedded_map = IndexOf(f.map)
    BY <1>4, <1>5 DEF FieldAs, IndexIn, IndexOf
  <2> QED
    BY <1>1, <2>2, <2>3
<1> QED
  BY <1>4, <1>5 DEF FieldAs

\* What the reader has loaded means what the exe kept: each name, of a class or
\* linked, leads to its datamap and to no other, with the module, the base and
\* the saved fields it had in the game, for every set of datamaps and every
\* order of their names (ch_recv.c:447-606, ch_archive.c:104-182).
THEOREM LoadedMeansKept == Spec => []MeansTheSame
<1>1. IInv /\ FileInv /\ MeaningInv => MeansTheSame
  <2> SUFFICES ASSUME IInv, FileInv, MeaningInv, stage = "loaded"
               PROVE  MeansTheSame
    BY DEF MeansTheSame
  <2>1. /\ OrderInv /\ in \in Inputs /\ Filled = 1..Len(sorted)
        /\ lookup = MapEntries \cup LinkEntries
        /\ \A i \in 1..Len(sorted) : WrittenAs(sorted, sorted[i], dms[i], tds)
    BY LoadedFacts DEF OrderInv
  <2>2. ASSUME NEW d \in in.maps
        PROVE  /\ IndexOf(d) \in Filled /\ <<NameOf[d], IndexOf(d)>> \in lookup
               /\ dms[IndexOf(d)].module_name = ModOf[d]
               /\ dms[IndexOf(d)].n_fields = SavedUpTo(d, Len(FieldsOf[d]))
    <3>1. IndexOf(d) \in 1..Len(sorted) /\ sorted[IndexOf(d)] = d
      BY <2>1, IndexFacts
    <3>2. <<NameOf[d], IndexOf(d)>> \in lookup
      BY <2>1, MapEntry
    <3> QED
      BY <2>1, <3>1, <3>2 DEF WrittenAs
  <2>3. ASSUME NEW l \in in.links, NEW i \in Filled
        PROVE  <<l[1], i>> \in lookup <=> <<l[2], i>> \in lookup
    <3>1. PICK d \in in.maps : l[2] = NameOf[d]
      BY <2>1, InputsAssumption
    <3>2. <<l[2], i>> \in lookup <=> i = IndexOf(d)
      BY <2>1, <3>1, MapEntry, LinkEntry
    <3>3. <<l[1], i>> \notin MapEntries
      <4>1. /\ \A m \in in.maps : l[1] # NameOf[m]
            /\ \A k \in 1..Len(sorted) :
                  sorted[k] \in in.maps /\ dms[k].class_name = NameOf[sorted[k]]
        BY <2>1, InputsAssumption, LoadedFacts
      <4> QED
        BY <2>1, <4>1 DEF MapEntries, Filled
    <3>4. <<l[1], i>> \in lookup <=> i = IndexOf(d)
      BY <2>1, <3>1, <3>3, LinkEntry
    <3> QED
      BY <3>2, <3>4
  <2>4. ASSUME NEW d \in in.maps
        PROVE  \A k \in DOMAIN FieldsOf[d] :
                  LET f  == FieldsOf[d][k]
                      td == tds[dms[IndexOf(d)].fields + SavedUpTo(d, k) - 1]
                  IN  f.save =>
                        /\ td.name = f.name /\ td.type = f.type
                        /\ f.map # NoMap =>
                              dms[td.embedded_map].class_name = NameOf[f.map]
    BY FieldsFound
  <2>5. ASSUME NEW d \in in.maps
        PROVE  Cardinality({e \in lookup : e[1] = NameOf[d]}) = 1
    BY OneEntry
  <2>6. ASSUME NEW d \in in.maps
        PROVE  dms[IndexOf(d)].base_map =
                   IF BaseOf[d] = NoMap THEN 0
                   ELSE CHOOSE b \in Filled : dms[b].class_name = NameOf[BaseOf[d]]
    BY BaseFound
  <2> QED
    BY <2>2, <2>3, <2>4, <2>5, <2>6 DEF MeansTheSame
<1> QED
  BY <1>1, LayoutInvariant, FileInvariant, MeaningInvariant, PTL
=============================================================================
