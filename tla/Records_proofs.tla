--------------------------- MODULE Records_proofs ---------------------------
(***************************************************************************)
(* Proofs about Records, for every collection of datamaps and every file,  *)
(* whole or not: the parser reads inside the file, and what reads a field  *)
(* stays inside the field's record.                                        *)
(***************************************************************************)
EXTENDS Records, SequenceTheorems, FiniteSetTheorems, TLAPS

\* A reader that has overflowed ends one byte before where it is.
Reader == {r \in [cur : Nat, end : Nat] : r.end >= r.cur - 1}

Path == Seq(NameCell)

SavedField == {f \in Field : f.type = "embedded" => f.map \in DataMap}

\* The jobs.
ClassJob  == [op : {"class"}, sym : NameCell, fields : Seq(SavedField), path : Path]
FieldsJob == [op : {"records"}, fields : Seq(SavedField), path : Path, left : Nat,
              cookie : Nat]
FieldJob  == [op : FieldType, n : Nat, size : Nat, map : DataMap \cup {NoMap}, path : Path]
ListJob   == [op : {"list"}, path : Path, k : NameCell]
OtherJob  == [op : {"npc", "conditions", "navigator"}]
EndJob    == [op : {"end"}, after : {r \in Reader : r.cur # 0}, check_match : BOOLEAN,
              catches : BOOLEAN]
FirstJob  == [op : {"symbols"}]

Read == ClassJob \cup FieldsJob \cup FieldJob \cup ListJob \cup OtherJob
Job  == Read \cup EndJob \cup FirstJob

LEMMA JobKinds ==
    ASSUME NEW j \in Job
    PROVE  /\ j.op = "class" => j \in ClassJob
           /\ j.op = "records" => j \in FieldsJob
           /\ j.op \in FieldType => j \in FieldJob
           /\ j.op = "list" => j \in ListJob
           /\ j.op = "end" => j \in EndJob
           /\ j.op \notin {"end", "symbols"} => j \in Read
BY DEF Job, Read, ClassJob, FieldsJob, FieldJob, FieldType, ListJob, OtherJob, EndJob,
   FirstJob

LEMMA ReadIsNoEnd ==
    ASSUME NEW j \in Read
    PROVE  j.op # "end" /\ j.op # "symbols"
BY DEF Read, ClassJob, FieldsJob, FieldJob, FieldType, ListJob, OtherJob
-----------------------------------------------------------------------------
(* Readers *)

\* Skipping never moves the end of a reader back.
LEMMA SkipOK ==
    ASSUME NEW r \in Reader, NEW n \in Nat
    PROVE  /\ Skip(r, n).end <= r.end /\ Skip(r, n).end \in Int
           /\ r.cur # 0 => Skip(r, n).cur # 0
           /\ Skip(r, n).cur \in Nat /\ Skip(r, n).cur >= r.cur
           /\ r.cur # 0 \/ ~Overflowed(Skip(r, n)) => Skip(r, n) \in Reader
           /\ ~Overflowed(Skip(r, n)) => ~Overflowed(r) /\ Skip(r, n).cur = r.cur + n
BY DEF Reader, Skip, CouldSkip, Overflowed, SetOverflowed

\* A reader that has overflowed stays so.
LEMMA StaysOverflowed ==
    ASSUME NEW r \in [cur : Nat, end : Int], NEW n \in Nat
    PROVE  /\ Skip(r, n) \in [cur : Nat, end : Int]
           /\ ~Overflowed(Skip(r, n)) => ~Overflowed(r)
BY DEF Skip, CouldSkip, Overflowed, SetOverflowed

LEMMA ReadNumOK ==
    ASSUME File \in Seq(Nat), NEW r \in Reader, r.end <= Len(File)
    PROVE  /\ ReadNum(r).n \in Nat
           /\ ReadNum(r).br = Skip(r, 1)
           /\ ReadNum(r).n # 0 => ~Overflowed(Skip(r, 1))
BY DEF Reader, ReadNum, Skip, CouldSkip, Overflowed

LEMMA ReadSymbolOK ==
    ASSUME File \in Seq(Nat), NEW r \in Reader, r.end <= Len(File)
    PROVE  /\ ReadSymbol(r).br = Skip(r, 1)
           /\ ReadSymbol(r).err = "none" => ~Overflowed(Skip(r, 1))
BY ReadNumOK DEF ReadSymbol

\* A chunk ends inside its reader, and what follows it inside it too.
LEMMA SplitOK ==
    ASSUME NEW r \in Reader, NEW n \in Nat, ~Overflowed(r), r.cur # 0
    PROVE  LET split == SplitSkipSwap(r, n)
           IN  /\ split.chunk \in Reader /\ split.after \in Reader
               /\ split.chunk.end <= split.after.cur /\ split.after.end <= r.end
               /\ split.chunk.cur = r.cur /\ ~Overflowed(split.chunk)
               /\ split.chunk.end <= r.end
<1>1. r.cur \in Nat /\ r.end \in Nat /\ r.cur <= r.end /\ r = [cur |-> r.cur, end |-> r.end]
  BY DEF Reader, Overflowed
<1>2. CASE CouldSkip(r, n)
  <2>1. /\ SplitSkipSwap(r, n).chunk = [cur |-> r.cur, end |-> r.cur + n]
        /\ SplitSkipSwap(r, n).after = [cur |-> r.cur + n, end |-> r.end]
    BY <1>1, <1>2 DEF SplitSkipSwap
  <2>2. r.cur + n <= r.end
    BY <1>2 DEF CouldSkip
  <2> QED
    BY <1>1, <2>1, <2>2 DEF Reader, Overflowed
<1>3. CASE ~CouldSkip(r, n)
  <2>1. /\ SplitSkipSwap(r, n).chunk = r
        /\ SplitSkipSwap(r, n).after = [cur |-> r.end, end |-> r.end - 1]
    BY <1>3 DEF SplitSkipSwap, SetOverflowed
  <2> QED
    BY <1>1, <2>1 DEF Reader, Overflowed
<1> QED
  BY <1>2, <1>3

\* So does a record.
LEMMA StartRecordOK ==
    ASSUME File \in Seq(Nat), NEW r \in Reader, r.end <= Len(File),
           StartRecord(r).err = "none"
    PROVE  /\ StartRecord(r).br \in Reader /\ StartRecord(r).after \in Reader
           /\ StartRecord(r).br.end <= StartRecord(r).after.cur
           /\ StartRecord(r).after.end <= r.end /\ StartRecord(r).br.end <= r.end
           /\ StartRecord(r).br.cur # 0 /\ StartRecord(r).after.cur # 0
           /\ ~Overflowed(StartRecord(r).br)
<1> DEFINE size == ReadNum(r)  r1 == Skip(r, 1)  r2 == Skip(r1, 1)
<1>1. size.n \in Nat /\ size.br = r1 /\ ~Overflowed(r1)
  BY ReadNumOK DEF StartRecord
<1>2. r1 \in Reader /\ r1.end <= r.end /\ r1.cur = r.cur + 1
  BY <1>1, SkipOK
<1>3. r.end \in Nat /\ r.cur \in Nat /\ r1.end \in Nat
  BY <1>2 DEF Reader
<1>4. r1.end <= Len(File) /\ r1.cur # 0
  BY <1>2, <1>3
<1>5. ReadSymbol(r1).err = "none" /\ ReadSymbol(r1).br = r2 /\ ~Overflowed(r2)
  <2> HIDE DEF r1
  <2>1. ReadSymbol(size.br).err = "none"
    BY <1>1 DEF StartRecord
  <2> QED
    BY <1>1, <1>2, <1>4, <2>1, ReadSymbolOK DEF r1
<1>6. r2 \in Reader /\ r2.end <= r1.end /\ r2.cur = r1.cur + 1 /\ r2.end \in Int
  <2> HIDE DEF r1
  <2> QED
    BY <1>2, <1>4, <1>5, SkipOK
<1> DEFINE split == SplitSkipSwap(r2, size.n)
<1>7. StartRecord(r).br = split.chunk /\ StartRecord(r).after = split.after
  BY <1>1, <1>5 DEF StartRecord
<1> HIDE DEF r1, r2, size
<1>8. /\ split.chunk \in Reader /\ split.after \in Reader
      /\ split.chunk.end <= split.after.cur /\ split.after.end <= r2.end
      /\ split.chunk.cur = r2.cur /\ ~Overflowed(split.chunk)
      /\ split.chunk.end <= r2.end
  BY <1>1, <1>2, <1>3, <1>5, <1>6, SplitOK
<1> HIDE DEF split
<1>9. /\ split.after.end \in Nat /\ split.chunk.end \in Nat
      /\ split.after.cur \in Nat /\ split.chunk.cur \in Nat
  BY <1>8 DEF Reader
<1>10. r2.cur \in Nat /\ r2.cur > 0
  BY <1>2, <1>3, <1>6
<1>11. split.chunk.cur <= split.chunk.end
  BY <1>8, <1>9 DEF Overflowed
<1>12. split.after.cur # 0
  BY <1>8, <1>9, <1>10, <1>11
<1> QED
  BY <1>2, <1>3, <1>6, <1>7, <1>8, <1>9, <1>10, <1>12

\* A string is part of what is left.
LEMMA StrLenOK ==
    ASSUME NEW r \in Reader
    PROVE  StrLen(r) \in Nat /\ StrLen(r) <= Remaining(r)
<1> DEFINE S == {k \in 1..Remaining(r) : \A l \in 1..k : File[r.cur + l] # 0}
<1>1. Remaining(r) \in Nat
  BY DEF Remaining, Overflowed, Reader
<1>2. IsFiniteSet(1..Remaining(r)) /\ Cardinality(1..Remaining(r)) = Remaining(r)
  BY <1>1, FS_Interval
<1>3. Cardinality(S) <= Remaining(r) /\ Cardinality(S) \in Nat
  BY <1>2, FS_Subset, FS_CardinalityType
<1> QED
  BY <1>3 DEF StrLen

LEMMA AvailableOK ==
    ASSUME NEW r \in Reader, NEW n \in Nat
    PROVE  Available(r, n) \in Nat /\ Available(r, n) <= Remaining(r) /\ Available(r, n) <= n
<1>1. Remaining(r) \in Nat
  BY DEF Remaining, Overflowed, Reader
<1> QED
  BY <1>1 DEF Available

LEMMA AfterStrOfOK ==
    ASSUME NEW r \in Reader, NEW n \in Nat
    PROVE  /\ AfterStrOf(r, n) \in Reader /\ AfterStrOf(r, n).end <= r.end
           /\ r.cur # 0 => AfterStrOf(r, n).cur # 0
<1> DEFINE k == Available(r, n)
<1>1. k \in Nat /\ k <= Remaining(r)
  BY AvailableOK
<1> HIDE DEF k
<1>2. Skip(r, k) \in Reader /\ Skip(r, k).end <= r.end /\ (r.cur # 0 => Skip(r, k).cur # 0)
  BY <1>1 DEF Skip, CouldSkip, Overflowed, SetOverflowed, Remaining, Reader
<1> QED
  BY <1>2 DEF AfterStrOf, k

LEMMA AfterStrOK ==
    ASSUME NEW r \in Reader
    PROVE  /\ AfterStr(r) \in Reader /\ AfterStr(r).end <= r.end
           /\ r.cur # 0 => AfterStr(r).cur # 0
<1>1. StrLen(r) + 1 \in Nat
  BY StrLenOK
<1> QED
  BY <1>1, AfterStrOfOK DEF AfterStr

LEMMA CellsOK ==
    ASSUME File \in Seq(Nat), NEW r \in Reader, r.end <= Len(File),
           NEW n \in Nat, n <= Remaining(r)
    PROVE  Cells(r, n) \in Seq(Nat)
<1>1. r.cur + n <= Len(File) \/ n = 0
  BY DEF Remaining, Overflowed, Reader
<1>2. \A i \in (r.cur + 1)..(r.cur + n) : File[i] \in Nat
  BY <1>1 DEF Reader
<1> QED
  BY <1>2, SubSeqProperties DEF Cells, Reader

LEMMA StringsOfOK ==
    ASSUME File \in Seq(Nat), NEW r \in Reader, r.end <= Len(File), NEW n \in Nat,
           NEW s \in StringsOf(r, n)
    PROVE  s \in Seq(Nat)
<1> DEFINE k == Available(r, n)  rest(m) == [i \in 1..m |-> Garbage]
<1>1. k \in Nat /\ k <= Remaining(r) /\ k <= n
  BY AvailableOK
<1>2. Cells(r, StrLen(r)) \in Seq(Nat) /\ Cells(r, k) \in Seq(Nat)
  BY <1>1, StrLenOK, CellsOK
<1> HIDE DEF k
<1>3. \A m \in 0..(n - k) : rest(m) \in Seq(Nat)
  BY <1>1, MapsAssumption
<1> HIDE DEF rest
<1>4. \A m \in 0..(n - k) : Cells(r, k) \o rest(m) \in Seq(Nat)
  BY <1>2, <1>3, ConcatProperties
<1>5. s = Cells(r, StrLen(r)) \/ \E m \in 0..(n - k) : s = Cells(r, k) \o rest(m)
  BY DEF StringsOf, k, rest
<1> QED
  BY <1>2, <1>4, <1>5

LEMMA StringsOK ==
    ASSUME File \in Seq(Nat), NEW r \in Reader, r.end <= Len(File), NEW s \in Strings(r)
    PROVE  s \in Seq(Nat)
BY StrLenOK, StringsOfOK DEF Strings
-----------------------------------------------------------------------------
(* Stacks of jobs *)

Ends(s) == {k \in DOMAIN s : s[k].op = "end"}

\* A reader that ends at e is inside of the records in s, each of which is
\* inside the next.
Fenced(s, e) ==
    \A k \in Ends(s) :
        /\ e <= s[k].after.cur
        /\ s[k].after.end <= Len(File)
        /\ \A l \in Ends(s) : k < l => s[k].after.end <= s[l].after.cur

LEMMA EndsAreReaders ==
    ASSUME NEW s \in Seq(Job), NEW k \in Ends(s)
    PROVE  k \in Nat /\ s[k].after \in Reader /\ s[k].after.cur \in Nat
           /\ s[k].after.end \in Nat
<1>1. k \in DOMAIN s /\ s[k] \in Job /\ s[k].op = "end" /\ k \in Nat
  BY DEF Ends
<1>2. s[k].after \in Reader
  BY <1>1, JobKinds DEF EndJob
<1> QED
  BY <1>1, <1>2 DEF Reader

\* Jobs that are put before those on the stack, ...
LEMMA FencedPush ==
    ASSUME NEW t \in Seq(Job), NEW jobs \in Seq(Read), NEW e \in Int, NEW e2 \in Int,
           e2 <= e, Fenced(t, e)
    PROVE  jobs \o t \in Seq(Job) /\ Fenced(jobs \o t, e2)
<1> DEFINE s == jobs \o t  n == Len(jobs)
<1>1. jobs \in Seq(Job)
  BY DEF Job
<1>2. /\ s \in Seq(Job) /\ n \in Nat /\ DOMAIN s = 1..(n + Len(t))
      /\ \A i \in DOMAIN s : s[i] = IF i <= n THEN jobs[i] ELSE t[i - n]
  BY <1>1, ConcatProperties
<1>3. ASSUME NEW k \in Ends(s)
      PROVE  k \in Nat /\ k - n \in Ends(t) /\ s[k] = t[k - n]
  <2>1. k \in 1..(n + Len(t)) /\ s[k].op = "end"
    BY <1>2, <1>3 DEF Ends
  <2>2. k > n
    <3> SUFFICES ASSUME k <= n
                 PROVE  FALSE
      BY <1>2, <2>1
    <3>1. s[k] = jobs[k] /\ jobs[k] \in Read
      BY <1>2, <2>1
    <3> QED
      BY <2>1, <3>1, ReadIsNoEnd
  <2> QED
    BY <1>2, <2>1, <2>2 DEF Ends
<1> HIDE DEF s, n
<1>4. ASSUME NEW k \in Ends(s)
      PROVE  /\ e2 <= s[k].after.cur /\ s[k].after.end <= Len(File)
             /\ \A l \in Ends(s) : k < l => s[k].after.end <= s[l].after.cur
  <2>1. k - n \in Ends(t) /\ s[k] = t[k - n] /\ s[k].after.cur \in Nat
    BY <1>3, <1>4, EndsAreReaders
  <2>2. e <= s[k].after.cur /\ s[k].after.end <= Len(File)
    BY <2>1 DEF Fenced
  <2>3. ASSUME NEW l \in Ends(s), k < l
        PROVE  s[k].after.end <= s[l].after.cur
    <3>1. l - n \in Ends(t) /\ s[l] = t[l - n] /\ k - n < l - n
      BY <1>2, <1>3, <1>4, <2>3
    <3> QED
      BY <2>1, <3>1 DEF Fenced
  <2> QED
    BY <2>1, <2>2, <2>3
<1> QED
  BY <1>2, <1>4 DEF Fenced, s

\* ... a record that is opened inside the innermost one, ...
LEMMA FencedOpen ==
    ASSUME NEW t \in Seq(Job), NEW x \in EndJob, NEW e \in Int, NEW c \in Int,
           Fenced(t, e), x.after.end <= e, e <= Len(File), c <= x.after.cur, c <= e,
           File \in Seq(Nat)
    PROVE  <<x>> \o t \in Seq(Job) /\ Fenced(<<x>> \o t, c)
<1> DEFINE s == <<x>> \o t
<1>1. x \in Job /\ x.op = "end" /\ x.after \in Reader
  BY DEF Job, EndJob
<1>2. x.after.end \in Nat /\ x.after.cur \in Nat /\ x.after.end >= x.after.cur - 1
  BY <1>1 DEF Reader
<1>3. /\ s \in Seq(Job) /\ DOMAIN s = 1..(1 + Len(t)) /\ s[1] = x
      /\ \A i \in DOMAIN s : i # 1 => s[i] = t[i - 1]
  <2>1. <<x>> \in Seq(Job) /\ Len(<<x>>) = 1 /\ <<x>>[1] = x
    BY <1>1
  <2> QED
    BY <2>1, ConcatProperties
<1>4. ASSUME NEW k \in Ends(s), k # 1
      PROVE  k - 1 \in Ends(t) /\ s[k] = t[k - 1] /\ k > 1
  BY <1>3, <1>4 DEF Ends
<1>5. \A k \in Ends(s) : k \in Nat
  BY <1>3 DEF Ends
<1>6. Len(File) \in Nat
  OBVIOUS
<1> HIDE DEF s
<1>7. ASSUME NEW k \in Ends(s)
      PROVE  /\ c <= s[k].after.cur /\ s[k].after.end <= Len(File)
             /\ \A l \in Ends(s) : k < l => s[k].after.end <= s[l].after.cur
  <2>1. CASE k = 1
    <3>1. ASSUME NEW l \in Ends(s), k < l
          PROVE  x.after.end <= s[l].after.cur
      <4>0. l # 1
        BY <1>5, <2>1, <3>1
      <4>1. l - 1 \in Ends(t) /\ s[l] = t[l - 1]
        BY <1>4, <4>0
      <4>2. e <= t[l - 1].after.cur /\ t[l - 1].after.cur \in Nat
        BY <4>1, EndsAreReaders DEF Fenced
      <4> QED
        BY <1>2, <4>1, <4>2
    <3> QED
      BY <1>2, <1>3, <1>6, <2>1, <3>1
  <2>2. CASE k # 1
    <3>1. k - 1 \in Ends(t) /\ s[k] = t[k - 1] /\ k > 1
      BY <1>4, <2>2
    <3>2. e <= s[k].after.cur /\ s[k].after.end <= Len(File) /\ s[k].after.cur \in Nat
      BY <3>1, EndsAreReaders DEF Fenced
    <3>3. c <= s[k].after.cur
      BY <3>2
    <3>4. ASSUME NEW l \in Ends(s), k < l
          PROVE  s[k].after.end <= s[l].after.cur
      <4>1. l - 1 \in Ends(t) /\ s[l] = t[l - 1] /\ k - 1 < l - 1
        BY <1>4, <1>5, <3>1, <3>4
      <4> QED
        BY <3>1, <4>1 DEF Fenced
    <3> QED
      BY <3>2, <3>3, <3>4
  <2> QED
    BY <2>1, <2>2
<1> QED
  BY <1>3, <1>7 DEF Fenced, s

\* ... and jobs that are done or given up.
LEMMA FencedDrop ==
    ASSUME NEW s \in Seq(Job), NEW m \in 1..(Len(s) + 1), NEW e \in Int, Fenced(s, e)
    PROVE  SubSeq(s, m, Len(s)) \in Seq(Job) /\ Fenced(SubSeq(s, m, Len(s)), e)
<1> DEFINE t == SubSeq(s, m, Len(s))
<1>1. /\ t \in Seq(Job) /\ DOMAIN t = 1..(Len(s) - m + 1)
      /\ \A i \in DOMAIN t : t[i] = s[m + i - 1]
  <2>1. \A i \in m..Len(s) : s[i] \in Job
    OBVIOUS
  <2> QED
    BY <2>1, SubSeqProperties
<1>2. ASSUME NEW k \in Ends(t)
      PROVE  k \in Nat /\ m + k - 1 \in Ends(s) /\ t[k] = s[m + k - 1]
  BY <1>1, <1>2 DEF Ends
<1> HIDE DEF t
<1>3. ASSUME NEW k \in Ends(t)
      PROVE  /\ e <= t[k].after.cur /\ t[k].after.end <= Len(File)
             /\ \A l \in Ends(t) : k < l => t[k].after.end <= t[l].after.cur
  <2>1. m + k - 1 \in Ends(s) /\ t[k] = s[m + k - 1] /\ k \in Nat
    BY <1>2, <1>3
  <2>2. ASSUME NEW l \in Ends(t), k < l
        PROVE  t[k].after.end <= t[l].after.cur
    <3>1. m + l - 1 \in Ends(s) /\ t[l] = s[m + l - 1] /\ m + k - 1 < m + l - 1
      BY <1>2, <2>1, <2>2
    <3> QED
      BY <2>1, <3>1 DEF Fenced
  <2> QED
    BY <2>1, <2>2 DEF Fenced
<1> QED
  BY <1>1, <1>3 DEF Fenced, t

LEMMA FencedTail ==
    ASSUME NEW s \in Seq(Job), s # <<>>, NEW e \in Int, Fenced(s, e)
    PROVE  Tail(s) \in Seq(Job) /\ Fenced(Tail(s), e)
<1>1. Tail(s) = SubSeq(s, 2, Len(s)) /\ 2 \in 1..(Len(s) + 1)
  BY TailIsSubSeq
<1> QED
  BY <1>1, FencedDrop

\* What follows the innermost record is inside the others.
LEMMA FencedLeave ==
    ASSUME NEW s \in Seq(Job), s # <<>>, Head(s).op = "end", NEW e \in Int, Fenced(s, e)
    PROVE  /\ Head(s) \in EndJob /\ Head(s).after.end <= Len(File)
           /\ Tail(s) \in Seq(Job) /\ Fenced(Tail(s), Head(s).after.end)
<1>1. Head(s) = s[1] /\ 1 \in Ends(s)
  BY DEF Ends
<1>2. s[1] \in EndJob /\ s[1].after.end \in Nat
  BY <1>1, JobKinds, EndsAreReaders
<1>3. Tail(s) \in Seq(Job) /\ Fenced(Tail(s), e)
  BY FencedTail
<1>4. ASSUME NEW k \in Ends(Tail(s))
      PROVE  Tail(s)[k] = s[k + 1] /\ k + 1 \in Ends(s) /\ k + 1 > 1
  BY HeadTailProperties, <1>4 DEF Ends
<1>5. ASSUME NEW k \in Ends(Tail(s))
      PROVE  s[1].after.end <= Tail(s)[k].after.cur
  BY <1>1, <1>4, <1>5 DEF Fenced
<1> QED
  BY <1>1, <1>2, <1>3, <1>5 DEF Fenced
-----------------------------------------------------------------------------
(* The jobs of the calls *)

LEMMA MapFacts ==
    ASSUME NEW d \in DataMap
    PROVE  /\ NameOf[d] \in NameCell /\ FieldsOf[d] \in Seq(SavedField)
           /\ Chain[d] \in Seq(DataMap)
<1>1. FieldsOf[d] \in Seq(Field) /\ NameOf[d] \in NameCell /\ Chain[d] \in Seq(DataMap)
  BY MapsAssumption
<1>2. \A k \in DOMAIN FieldsOf[d] :
         FieldsOf[d][k].type = "embedded" => FieldsOf[d][k].map \in DataMap
  BY MapsAssumption
<1>3. \A k \in 1..Len(FieldsOf[d]) : FieldsOf[d][k] \in SavedField
  BY <1>1, <1>2 DEF SavedField
<1> QED
  BY <1>1, <1>3

LEMMA ClassIsJob ==
    ASSUME NEW sym \in NameCell, NEW fields \in Seq(SavedField), NEW path \in Path
    PROVE  Class(sym, fields, path) \in Read
BY DEF Class, Read, ClassJob

LEMMA RecursiveOK ==
    ASSUME NEW d \in DataMap, NEW path \in Path
    PROVE  Recursive(d, path) \in Seq(Read)
<1>1. Len(Chain[d]) \in Nat /\ \A k \in 1..Len(Chain[d]) : Chain[d][k] \in DataMap
  BY MapFacts
<1>2. \A k \in 1..Len(Chain[d]) :
         Class(NameOf[Chain[d][k]], FieldsOf[Chain[d][k]], path) \in Read
  BY <1>1, MapFacts, ClassIsJob
<1> QED
  BY <1>1, <1>2 DEF Recursive

LEMMA Division ==
    ASSUME NEW i \in Nat, NEW n \in Nat, n # 0
    PROVE  i % n \in 0..(n - 1) /\ i \div n \in Nat
OBVIOUS

LEMMA Factor ==
    ASSUME NEW a \in Nat, NEW b \in Nat, NEW i \in 1..(a * b)
    PROVE  b # 0
<1> SUFFICES ASSUME b = 0
             PROVE  FALSE
  OBVIOUS
<1>1. a * 0 = 0
  OBVIOUS
<1> QED
  BY <1>1

LEMMA ElementsOK ==
    ASSUME NEW f \in SavedField, f.type = "embedded", NEW path \in Path
    PROVE  Elements(f, path) \in Seq(Read)
<1> DEFINE n    == Len(Chain[f.map])
           d(i) == Chain[f.map][1 + ((i - 1) % n)]
           k(i) == 1 + ((i - 1) \div n)
<1>1. f.map \in DataMap /\ f.n \in Nat /\ n \in Nat
  BY MapFacts DEF SavedField, Field
<1>2. f.n * n \in Nat
  BY <1>1
<1>3. ASSUME NEW i \in 1..(f.n * n)
      PROVE  Class(NameOf[d(i)], FieldsOf[d(i)], Append(path, k(i))) \in Read
  <2>0. 1..n = 1..Len(Chain[f.map]) /\ i \in Int
    BY <1>2
  <2> HIDE DEF n
  <2>1. n # 0
    BY <1>1, Factor
  <2>2. i - 1 \in Nat
    BY <1>2, <1>3
  <2>3. (i - 1) % n \in 0..(n - 1) /\ (i - 1) \div n \in Nat
    BY <1>1, <2>1, <2>2, Division
  <2>4. 1 + ((i - 1) % n) \in 1..n /\ k(i) \in NameCell
    BY <1>1, <2>3 DEF NameCell
  <2>5. d(i) \in DataMap
    BY <1>1, <2>0, <2>4, MapFacts
  <2>6. Append(path, k(i)) \in Path
    BY <2>4 DEF Path
  <2> QED
    BY <2>5, <2>6, MapFacts, ClassIsJob
<1>4. Elements(f, path) =
        [i \in 1..(f.n * n) |-> Class(NameOf[d(i)], FieldsOf[d(i)], Append(path, k(i)))]
  BY DEF Elements
<1> HIDE DEF n, d, k
<1> QED
  BY <1>2, <1>3, <1>4

LEMMA FieldJobsOK ==
    ASSUME NEW f \in SavedField, NEW path \in Path
    PROVE  FieldJobs(f, path) \in Seq(Read)
<1>1. CASE f.type = "embedded"
  BY <1>1, ElementsOK DEF FieldJobs
<1>2. CASE f.type = "custom"
  BY <1>2 DEF FieldJobs
<1>3. CASE f.type \notin {"embedded", "custom"}
  <2> DEFINE j == [op |-> f.type, n |-> f.n, size |-> f.size, map |-> f.map, path |-> path]
  <2>1. j \in FieldJob
    BY <1>3 DEF FieldJob, SavedField, Field
  <2>2. FieldJobs(f, path) = <<j>> /\ j \in Read
    BY <1>3, <2>1 DEF FieldJobs, Read
  <2> QED
    BY <2>2
<1> QED
  BY <1>1, <1>2, <1>3

LEMMA ElemsFieldOK ==
    ASSUME NEW n \in Nat, NEW map \in DataMap \cup {NoMap}
    PROVE  <<ElemsField(n, map)>> \in Seq(SavedField)
<1>1. Elems \in NameCell /\ NoMap \notin DataMap
  BY MapsAssumption
<1> DEFINE f == ElemsField(n, map)
<1>2. f \in Field
  BY <1>1 DEF ElemsField, Field, FieldType
<1>3. f.type = "embedded" => f.map \in DataMap
  BY <1>1 DEF ElemsField
<1>4. f \in SavedField
  BY <1>2, <1>3 DEF SavedField
<1> QED
  BY <1>4

LEMMA OtherIsJob ==
    ASSUME NEW op \in {"npc", "conditions", "navigator"}
    PROVE  [op |-> op] \in Read
BY DEF Read, OtherJob

LEMMA EntityOK ==
    ASSUME NEW d \in DataMap
    PROVE  Entity(d) \in Seq(Read)
<1>0. <<>> \in Path
  BY DEF Path
<1>1. Recursive(d, <<>>) \in Seq(Read)
  BY <1>0, RecursiveOK
<1>2. NpcHeader \in DataMap
  BY MapsAssumption
<1>3. <<NameOf[NpcHeader]>> \in Path
  BY <1>2, MapFacts DEF Path
<1>4. Append(Recursive(NpcHeader, <<NameOf[NpcHeader]>>), [op |-> "npc"]) \in Seq(Read)
  BY <1>2, <1>3, RecursiveOK, OtherIsJob, AppendProperties
<1> QED
  BY <1>1, <1>4, ConcatProperties DEF Entity
-----------------------------------------------------------------------------
(* The invariant *)

\* What is restored has a place and consists of cells.
Value(e) == e[1] \in Path /\ e[2] \in Seq(Nat)

Inv ==
    /\ File \in Seq(Nat)
    /\ br \in Reader /\ br.end <= Len(File)
    /\ br.cur = 0 => stack = <<>> \/ (Head(stack).op = "symbols" /\ Ends(stack) = {})
    /\ stack \in Seq(Job) /\ Fenced(stack, br.end)
    /\ \A e \in restored : Value(e)
    /\ no_mem \in BOOLEAN

LEMMA InvImplies ==
    Inv => TypeOK /\ ReadsInFile /\ RecordsNest
<1> SUFFICES ASSUME Inv
             PROVE  TypeOK /\ ReadsInFile /\ RecordsNest
  OBVIOUS
<1>1. Records = Ends(stack)
  BY DEF Records, Ends
<1>2. \A k \in Records : stack[k].after \in [cur : Nat, end : Nat]
  BY <1>1, EndsAreReaders DEF Inv, Reader
<1>3. TypeOK
  BY <1>2 DEF Inv, TypeOK, Reader, Value, Path, File
<1>4. ReadsInFile /\ RecordsNest
  BY <1>1 DEF Inv, ReadsInFile, RecordsNest, Fenced
<1> QED
  BY <1>3, <1>4

LEMMA InitInv ==
    Init => Inv
<1> SUFFICES ASSUME Init
             PROVE  Inv
  OBVIOUS
<1>1. File \in Seq(Nat) /\ save.class \in DataMap
  BY SavesAssumption DEF Init, File
<1>2. br \in Reader /\ br.end <= Len(File)
  BY <1>1 DEF Init, Reader
<1>3. stack \in Seq(Job) /\ Head(stack).op = "symbols" /\ Ends(stack) = {}
  <2> DEFINE first == [op |-> "symbols"]
  <2>1. Entity(save.class) \in Seq(Read) /\ Entity(save.class) \in Seq(Job)
    BY <1>1, EntityOK DEF Job
  <2>2. <<first>> \in Seq(Job) /\ Len(<<first>>) = 1 /\ <<first>>[1] = first
    BY DEF Job, FirstJob
  <2>3. stack = <<first>> \o Entity(save.class)
    BY DEF Init
  <2>4. /\ stack \in Seq(Job) /\ stack # <<>> /\ stack[1] = first
        /\ \A k \in DOMAIN stack : k # 1 => stack[k] \in Read
    <3> HIDE DEF first
    <3> QED
      BY <2>1, <2>2, <2>3, ConcatProperties
  <2>5. Head(stack) = first /\ first.op = "symbols"
    BY <2>4
  <2>6. \A k \in DOMAIN stack : stack[k].op # "end"
    BY <2>4, ReadIsNoEnd
  <2> QED
    BY <2>4, <2>5, <2>6 DEF Ends
<1>4. Fenced(stack, br.end)
  BY <1>3 DEF Fenced
<1> QED
  BY <1>1, <1>2, <1>3, <1>4 DEF Init, Inv

\* Only before the symbol table a reader is at the beginning of the file.
LEMMA HasBegun ==
    ASSUME Inv, stack # <<>>, Head(stack).op # "symbols"
    PROVE  br.cur # 0
BY DEF Inv

\* A step preserves it with a reader inside the last one and more to read.
LEMMA MoreKeepsInv ==
    ASSUME Inv, stack # <<>>, NEW jobs \in Seq(Read), Then(jobs),
           br' \in Reader, br'.end <= br.end, br'.cur # 0, UNCHANGED save,
           \A e \in restored' : Value(e), no_mem' \in BOOLEAN
    PROVE  Inv'
<1>1. br.end \in Int /\ br'.end \in Int /\ Len(File) \in Int
  BY DEF Inv, Reader
<1>2. Tail(stack) \in Seq(Job) /\ Fenced(Tail(stack), br.end)
  BY <1>1, FencedTail DEF Inv
<1>3. stack' \in Seq(Job) /\ Fenced(stack', br'.end)
  BY <1>1, <1>2, FencedPush DEF Then
<1>4. br'.end <= Len(File)
  BY <1>1 DEF Inv
<1> QED
  BY <1>3, <1>4 DEF Inv, Fenced, File, Value

\* So does one that only takes a job off the stack.
LEMMA DoneKeepsInv ==
    ASSUME Inv, stack # <<>>, br.cur # 0, Then(<<>>), UNCHANGED <<save, br, restored>>,
           no_mem' \in BOOLEAN
    PROVE  Inv'
<1>1. <<>> \in Seq(Read)
  OBVIOUS
<1>2. br' \in Reader /\ br'.end <= br.end /\ br'.cur # 0
  BY DEF Inv, Reader
<1>3. \A e \in restored' : Value(e)
  BY DEF Inv
<1> QED
  BY <1>1, <1>2, <1>3, MoreKeepsInv

\* So does one that opens a record.
LEMMA OpenKeepsInv ==
    ASSUME Inv, stack # <<>>, NEW jobs \in Seq(Read), NEW more \in Seq(Read),
           NEW check_match \in BOOLEAN, NEW catches \in BOOLEAN,
           StartRecord(br).err = "none",
           Then(jobs \o (<<EndRecord(StartRecord(br).after, check_match, catches)>> \o more)),
           br' \in Reader, br'.end <= StartRecord(br).br.end, br'.cur # 0,
           UNCHANGED <<save, restored, no_mem>>
    PROVE  Inv'
<1> DEFINE rec == StartRecord(br)
           x == EndRecord(rec.after, check_match, catches)
           t == Tail(stack)
<1>1. /\ rec.br \in Reader /\ rec.after \in Reader /\ rec.br.end <= rec.after.cur
      /\ rec.after.end <= br.end /\ rec.br.end <= br.end /\ rec.after.cur # 0
  BY StartRecordOK DEF Inv
<1>2. /\ br.end \in Int /\ br'.end \in Int /\ Len(File) \in Int /\ rec.br.end \in Int
      /\ rec.after.end \in Int /\ rec.after.cur \in Int /\ br.end <= Len(File)
  BY <1>1 DEF Inv, Reader
<1>3. x \in EndJob /\ x.after = rec.after
  BY <1>1 DEF EndJob, EndRecord
<1> HIDE DEF rec
<1>4. t \in Seq(Job) /\ Fenced(t, br.end)
  BY <1>2, FencedTail DEF Inv
<1>5. more \o t \in Seq(Job) /\ Fenced(more \o t, br.end)
  <2> HIDE DEF t
  <2> QED
    BY <1>2, <1>4, FencedPush
<1>6. /\ <<x>> \o (more \o t) \in Seq(Job)
      /\ Fenced(<<x>> \o (more \o t), rec.br.end)
  <2> HIDE DEF x, t
  <2> QED
    BY <1>1, <1>2, <1>3, <1>5, FencedOpen DEF Inv
<1>7. /\ jobs \o (<<x>> \o (more \o t)) \in Seq(Job)
      /\ Fenced(jobs \o (<<x>> \o (more \o t)), br'.end)
  <2> HIDE DEF x, t
  <2>1. br'.end <= rec.br.end
    BY DEF rec
  <2> QED
    BY <1>2, <1>6, <2>1, FencedPush
<1>8. stack' = jobs \o (<<x>> \o (more \o t))
  <2>1. stack' = (jobs \o (<<x>> \o more)) \o t
    BY DEF Then, x, rec, t
  <2>2. jobs \in Seq(Job) /\ more \in Seq(Job) /\ <<x>> \in Seq(Job)
    BY <1>3 DEF Job
  <2> HIDE DEF x, t
  <2>3. (<<x>> \o more) \in Seq(Job) /\ (<<x>> \o more) \o t = <<x>> \o (more \o t)
    BY <1>4, <2>2, ConcatProperties, ConcatAssociative
  <2> DEFINE m == <<x>> \o more
  <2>4. m \in Seq(Job) /\ m \o t = <<x>> \o (more \o t) /\ stack' = (jobs \o m) \o t
    BY <2>1, <2>3
  <2> HIDE DEF m
  <2>5. (jobs \o m) \o t = jobs \o (m \o t)
    <3>1. jobs \in Seq(Job) /\ m \in Seq(Job) /\ t \in Seq(Job)
      BY <1>4, <2>2, <2>4
    <3> QED
      BY ONLY <3>1, ConcatAssociative
  <2> QED
    BY <2>4, <2>5
<1>9. br'.end <= Len(File)
  BY <1>1, <1>2 DEF rec
<1> HIDE DEF x, t
<1> QED
  BY <1>7, <1>8, <1>9 DEF Inv, Fenced, File, Value

\* So does an error, ...
LEMMA FailKeepsInv ==
    ASSUME Inv, stack # <<>>, NEW e, Fail(e), UNCHANGED save, no_mem' \in BOOLEAN
    PROVE  Inv'
<1>1. br' = br /\ restored' = restored
  BY DEF Fail
<1>2. br.end \in Int
  BY DEF Inv, Reader
<1>3. stack' \in Seq(Job) /\ Fenced(stack', br.end) /\ (br.cur = 0 => stack' = <<>>)
  <2>0. br.cur = 0 => stack' = <<>>
    BY DEF Fail, Inv, Ends
  <2>1. CASE stack' = <<>>
    BY <2>1 DEF Fenced, Ends
  <2>2. CASE \E k \in DOMAIN stack : stack' = SubSeq(stack, k, Len(stack))
    <3>1. PICK k \in DOMAIN stack : stack' = SubSeq(stack, k, Len(stack))
      BY <2>2
    <3>2. k \in 1..(Len(stack) + 1)
      BY DEF Inv
    <3> QED
      BY <1>2, <2>0, <3>1, <3>2, FencedDrop DEF Inv
  <2> QED
    BY <2>0, <2>1, <2>2 DEF Fail
<1> QED
  BY <1>1, <1>3 DEF Inv, Fenced, File, Value

\* ... and the end of a record.
LEMMA LeaveKeepsInv ==
    ASSUME Inv, LeaveRecord
    PROVE  Inv'
<1>1. /\ stack # <<>> /\ Head(stack).op = "end"
      /\ UNCHANGED <<save, no_mem>>
  BY DEF LeaveRecord, Now
<1>2. ASSUME Fail("bad_block_end")
      PROVE  Inv'
  BY <1>1, <1>2, FailKeepsInv DEF Inv
<1>3. ASSUME br' = Head(stack).after, Then(<<>>), UNCHANGED restored
      PROVE  Inv'
  <2>1. br.end \in Int
    BY DEF Inv, Reader
  <2>2. /\ Head(stack) \in EndJob /\ Head(stack).after.end <= Len(File)
        /\ Tail(stack) \in Seq(Job) /\ Fenced(Tail(stack), Head(stack).after.end)
    BY <1>1, <2>1, FencedLeave DEF Inv
  <2>3. br' \in Reader /\ br'.cur # 0
    BY <1>3, <2>2 DEF EndJob
  <2>4. stack' = Tail(stack)
    BY <1>3, <2>2, ConcatEmptySeq DEF Then
  <2> QED
    BY <1>1, <1>3, <2>2, <2>3, <2>4 DEF Inv, Fenced, File, Value
<1> QED
  BY <1>2, <1>3 DEF LeaveRecord

LEMMA NoMore ==
    <<>> \in Seq(Read)
OBVIOUS

LEMMA ReaderIsInside ==
    ASSUME Inv
    PROVE  File \in Seq(Nat) /\ br \in Reader /\ br.end <= Len(File) /\ br.end \in Nat
           /\ br.cur \in Nat /\ Len(File) \in Nat
BY DEF Inv, Reader

LEMMA SymbolsKeepsInv ==
    ASSUME Inv, ReadSymbolTable
    PROVE  Inv'
<1> DEFINE size == ReadNum(br)  n == ReadNum(size.br)  split == SplitSkip(n.br, size.n)
<1>1. stack # <<>> /\ UNCHANGED <<save, no_mem>>
  BY DEF ReadSymbolTable, Now
<1>2. ASSUME NEW e, Fail(e)
      PROVE  Inv'
  BY <1>1, <1>2, FailKeepsInv DEF Inv
<1>3. ASSUME ~Overflowed(split.after), br' = split.after, Then(<<>>), UNCHANGED restored
      PROVE  Inv'
  <2>1. size.n \in Nat /\ size.br = Skip(br, 1)
    BY ReadNumOK, ReaderIsInside
  <2>2. split.after = Skip(n.br, size.n) /\ n.br = Skip(size.br, 1)
    BY DEF SplitSkip, ReadNum
  <2> DEFINE r0 == Skip(br, 1)  r1 == Skip(r0, 1)  r2 == Skip(r1, size.n)
  <2> HIDE DEF size
  <2>3. split.after = r2 /\ size.n \in Nat
    BY <2>1, <2>2
  <2>4. br \in [cur : Nat, end : Int]
    BY ReaderIsInside DEF Reader
  <2>5. r0 \in [cur : Nat, end : Int] /\ (~Overflowed(r0) => ~Overflowed(br))
    BY <2>4, StaysOverflowed
  <2> HIDE DEF r0
  <2>6. r1 \in [cur : Nat, end : Int] /\ (~Overflowed(r1) => ~Overflowed(r0))
    BY <2>5, StaysOverflowed
  <2> HIDE DEF r1
  <2>7. ~Overflowed(r2) /\ (~Overflowed(r2) => ~Overflowed(r1))
    BY <1>3, <2>3, <2>6, StaysOverflowed
  <2>8. r0 \in Reader /\ r0.end <= br.end /\ r0.cur # 0
    BY <2>5, <2>6, <2>7, ReaderIsInside, SkipOK DEF r0
  <2>9. r1 \in Reader /\ r1.end <= r0.end /\ r1.cur # 0
    BY <2>6, <2>7, <2>8, SkipOK DEF r1
  <2>10. r2 \in Reader /\ r2.end <= r1.end /\ r2.cur # 0
    BY <2>3, <2>7, <2>9, SkipOK
  <2>11. br' \in Reader /\ br'.end <= br.end /\ br'.cur # 0
    <3>1. r0.end \in Nat /\ r1.end \in Nat /\ r2.end \in Nat
      BY <2>8, <2>9, <2>10 DEF Reader
    <3> HIDE DEF r2, split
    <3> QED
      BY <1>3, <2>3, <2>8, <2>9, <2>10, <3>1, ReaderIsInside
  <2> QED
    BY <1>1, <1>3, <2>11, NoMore, MoreKeepsInv DEF Inv
<1> QED
  BY <1>2, <1>3 DEF ReadSymbolTable

LEMMA ClassKeepsInv ==
    ASSUME Inv, RestoreFields
    PROVE  Inv'
<1> DEFINE c      == Head(stack)
           marker == ReadNum(br)
           sym    == ReadSymbol(marker.br)
           n      == ReadNum(sym.br)
           job    == [op |-> "records", fields |-> c.fields, path |-> c.path,
                      left |-> n.n, cookie |-> 0]
<1>1. stack # <<>> /\ c.op = "class" /\ UNCHANGED <<save, no_mem>>
  BY DEF RestoreFields, Now
<1>2. ASSUME NEW e, Fail(e)
      PROVE  Inv'
  BY <1>1, <1>2, FailKeepsInv DEF Inv
<1>3. ASSUME marker.n = 4, sym.err = "none", br' = n.br, Then(<<job>>),
             UNCHANGED restored
      PROVE  Inv'
  <2> DEFINE r1 == Skip(br, 1)  r2 == Skip(r1, 1)  r3 == Skip(r2, 1)
  <2>1. marker.br = r1 /\ ~Overflowed(r1)
    BY <1>3, ReadNumOK, ReaderIsInside
  <2>2. r1 \in Reader /\ r1.end <= br.end /\ r1.cur # 0
    BY <2>1, ReaderIsInside, SkipOK
  <2>3. r1.end <= Len(File) /\ r1.end \in Nat
    <3>1. r1.end \in Nat
      BY <2>2 DEF Reader
    <3> HIDE DEF r1
    <3> QED
      BY <2>2, <3>1, ReaderIsInside
  <2> HIDE DEF marker, r1
  <2>4. sym.br = r2 /\ ~Overflowed(r2)
    BY <1>3, <2>1, <2>2, <2>3, ReaderIsInside, ReadSymbolOK
  <2>5. r2 \in Reader /\ r2.end <= r1.end /\ r2.cur # 0
    <3>1. r1.cur \in Nat
      BY <2>2 DEF Reader
    <3> QED
      BY <2>2, <2>4, <3>1, SkipOK
  <2>6. r2.end <= Len(File) /\ r2.end \in Nat
    <3>1. r2.end \in Nat
      BY <2>5 DEF Reader
    <3> HIDE DEF r2
    <3> QED
      BY <2>3, <2>5, <3>1, ReaderIsInside
  <2> HIDE DEF sym, r2
  <2>7. n.br = r3 /\ n.n \in Nat
    BY <2>4, <2>5, <2>6, ReaderIsInside, ReadNumOK
  <2>8. r3 \in Reader /\ r3.end <= r2.end /\ r3.cur # 0
    BY <2>5, SkipOK
  <2>9. br' \in Reader /\ br'.end <= br.end /\ br'.cur # 0
    <3>1. r3.end \in Nat
      BY <2>8 DEF Reader
    <3> HIDE DEF r3, n
    <3> QED
      BY <1>3, <2>2, <2>3, <2>5, <2>6, <2>7, <2>8, <3>1, ReaderIsInside
  <2>10. job \in Read
    <3>1. c \in ClassJob
      BY <1>1, JobKinds, HeadTailProperties DEF Inv
    <3>2. c.fields \in Seq(SavedField) /\ c.path \in Path
      BY <3>1 DEF ClassJob
    <3> HIDE DEF c, n
    <3> QED
      BY <2>7, <3>2 DEF Read, FieldsJob
  <2>11. <<job>> \in Seq(Read)
    <3> HIDE DEF job
    <3> QED
      BY <2>10
  <2> QED
    BY <1>1, <1>3, <2>9, <2>11, MoreKeepsInv DEF Inv
<1> QED
  BY <1>2, <1>3 DEF RestoreFields

\* A record begins inside the reader, if at all.
LEMMA RecordOK ==
    ASSUME Inv, StartRecord(br).err = "none"
    PROVE  StartRecord(br).br \in Reader /\ StartRecord(br).br.cur # 0
           /\ ~Overflowed(StartRecord(br).br)
           /\ StartRecord(br).br.end \in Nat
BY ReaderIsInside, StartRecordOK DEF Reader

LEMMA NextRecordIsJob ==
    ASSUME NEW r \in FieldsJob, r.left # 0, NEW k \in Nat
    PROVE  [r EXCEPT !.left = @ - 1, !.cookie = k] \in Read
<1>1. r.left \in Nat
  BY DEF FieldsJob
<1>2. r.left - 1 \in Nat
  BY <1>1
<1>3. [r EXCEPT !.left = @ - 1, !.cookie = k] \in FieldsJob
  BY <1>2 DEF FieldsJob
<1> QED
  BY <1>3 DEF Read

LEMMA RecordKeepsInv ==
    ASSUME Inv, RestoreRecord
    PROVE  Inv'
<1> DEFINE r     == Head(stack)
           rec   == StartRecord(br)
           found == FoundFrom(r.fields, r.cookie, rec.symbol)
           next(k) == [r EXCEPT !.left = @ - 1, !.cookie = k]
           x     == EndRecord(rec.after, FALSE, FALSE)
<1>1. stack # <<>> /\ r.op = "records" /\ UNCHANGED <<save, no_mem>>
  BY DEF RestoreRecord, Now
<1>2. ASSUME NEW e, Fail(e)
      PROVE  Inv'
  BY <1>1, <1>2, FailKeepsInv DEF Inv
<1>3. ASSUME Then(<<>>), UNCHANGED <<br, restored>>
      PROVE  Inv'
  BY <1>1, <1>3, HasBegun, DoneKeepsInv DEF Inv
<1>4. r \in FieldsJob
  BY <1>1, JobKinds, HeadTailProperties DEF Inv
<1>5. r.fields \in Seq(SavedField) /\ r.path \in Path /\ r.left \in Nat
  BY <1>4 DEF FieldsJob
<1>6. ASSUME NEW k \in found, r.left # 0, rec.err = "none", br' \in {rec.br, [rec.br EXCEPT !.cur = rec.br.end]},
             Then(FieldJobs(r.fields[k], Append(r.path, rec.symbol)) \o <<x, next(k)>>),
             UNCHANGED restored
      PROVE  Inv'
  <2>1. k \in DOMAIN r.fields /\ r.fields[k].name = rec.symbol /\ k \in Nat
    BY <1>5 DEF FoundFrom
  <2>2. r.fields[k] \in SavedField /\ rec.symbol \in NameCell
    <3>1. r.fields[k] \in SavedField
      BY <1>5, <2>1
    <3> QED
      BY <2>1, <3>1 DEF SavedField, Field
  <2>3. Append(r.path, rec.symbol) \in Path
    BY <1>5, <2>2 DEF Path
  <2> DEFINE jobs == FieldJobs(r.fields[k], Append(r.path, rec.symbol))
  <2>4. jobs \in Seq(Read)
    BY <2>2, <2>3, FieldJobsOK
  <2>5. next(k) \in Read
    BY <1>4, <1>6, <2>1, NextRecordIsJob
  <2>6. <<x, next(k)>> = <<x>> \o <<next(k)>> /\ <<next(k)>> \in Seq(Read)
    <3> HIDE DEF x, next
    <3> QED
      BY <2>5
  <2>7. Then(jobs \o (<<x>> \o <<next(k)>>))
    BY <1>6, <2>6
  <2>8. br' \in Reader /\ br'.end <= rec.br.end /\ br'.cur # 0
    BY <1>6, RecordOK DEF Reader, Overflowed
  <2> HIDE DEF jobs, next
  <2> QED
    BY <1>1, <1>6, <2>4, <2>6, <2>7, <2>8, OpenKeepsInv
<1> QED
  BY <1>2, <1>3, <1>6 DEF RestoreRecord

LEMMA SimpleKeepsInv ==
    ASSUME Inv, RestoreSimple
    PROVE  Inv'
<1> DEFINE f == Head(stack)
<1>1. stack # <<>> /\ f.op = "simple" /\ UNCHANGED <<save, no_mem>>
  BY DEF RestoreSimple, Now
<1>2. ASSUME NEW e, Fail(e)
      PROVE  Inv'
  BY <1>1, <1>2, FailKeepsInv DEF Inv
<1>3. f \in FieldJob /\ br.cur # 0
  BY <1>1, HasBegun, JobKinds, HeadTailProperties DEF Inv, FieldType
<1>4. f.size \in Nat /\ f.path \in Path
  BY <1>3 DEF FieldJob
<1>5. ASSUME f.size # 0, ~(Remaining(br) < f.size), Store(f.path, Cells(br, f.size)),
             br' = Skip(br, f.size), Then(<<>>)
      PROVE  Inv'
  <2> HIDE DEF f
  <2>1. f.size <= Remaining(br)
    BY <1>4, <1>5, ReaderIsInside DEF Remaining
  <2>2. CouldSkip(br, f.size)
    BY <1>4, <1>5, <2>1, ReaderIsInside DEF CouldSkip, Remaining, Overflowed
  <2>3. br' = [br EXCEPT !.cur = @ + f.size] /\ br.cur + f.size <= br.end
    BY <1>5, <2>2 DEF Skip, CouldSkip
  <2>4. br' \in Reader /\ br'.end <= br.end /\ br'.cur # 0
    <3>1. br'.cur = br.cur + f.size /\ br'.end = br.end /\ br' \in [cur : Nat, end : Nat]
      BY <1>4, <2>3, ReaderIsInside DEF Reader
    <3>2. br.cur \in Nat /\ f.size \in Nat /\ br.cur # 0
      BY <1>3, <1>4, ReaderIsInside
    <3>3. br'.cur # 0 /\ br'.end >= br'.cur - 1
      BY <2>3, <3>1, <3>2, ReaderIsInside
    <3> QED
      BY <3>1, <3>3, ReaderIsInside DEF Reader
  <2>5. Value(<<f.path, Cells(br, f.size)>>)
    BY <1>4, <2>1, CellsOK, ReaderIsInside DEF Value
  <2>6. \A e \in restored' : Value(e)
    BY <1>5, <2>5 DEF Store, Inv
  <2> QED
    BY <1>1, <1>5, <2>4, <2>6, NoMore, MoreKeepsInv DEF Inv
<1> QED
  BY <1>2, <1>5 DEF RestoreSimple

LEMMA StringKeepsInv ==
    ASSUME Inv, RestoreString
    PROVE  Inv'
<1> DEFINE f == Head(stack)  rest == [f EXCEPT !.n = @ - 1]
<1>1. stack # <<>> /\ f.op = "string" /\ UNCHANGED save /\ no_mem' \in BOOLEAN
  BY DEF RestoreString, Now, Inv
<1>2. f \in FieldJob /\ br.cur # 0
  BY <1>1, HasBegun, JobKinds, HeadTailProperties DEF Inv, FieldType
<1>3. f.n \in Nat /\ f.path \in Path
  BY <1>2 DEF FieldJob
<1>4. ASSUME Then(<<>>), UNCHANGED <<br, restored>>
      PROVE  Inv'
  BY <1>1, <1>2, <1>4, DoneKeepsInv
<1>5. ASSUME f.n # 0, Then(<<rest>>), br' \in Reader, br'.end <= br.end, br'.cur # 0,
             \A e \in restored' : Value(e)
      PROVE  Inv'
  <2>1. rest \in FieldJob
    BY <1>2, <1>3, <1>5 DEF FieldJob
  <2>2. <<rest>> \in Seq(Read)
    <3> HIDE DEF rest
    <3> QED
      BY <2>1 DEF Read
  <2> QED
    BY <1>1, <1>5, <2>2, MoreKeepsInv
<1>6. ASSUME f.n # 0, NEW s \in Strings(br), Store(Append(f.path, f.n), s)
      PROVE  \A e \in restored' : Value(e)
  <2> HIDE DEF f
  <2>1. Append(f.path, f.n) \in Path
    BY <1>3, <1>6 DEF Path, NameCell
  <2>2. Value(<<Append(f.path, f.n), s>>)
    BY <2>1, StringsOK, ReaderIsInside DEF Value
  <2> QED
    BY <1>6, <2>2 DEF Store, Inv
<1>7. AfterStr(br) \in Reader /\ AfterStr(br).end <= br.end /\ AfterStr(br).cur # 0
  BY <1>2, AfterStrOK, ReaderIsInside
<1>8. br.end <= br.end /\ \A e \in restored : Value(e)
  BY ReaderIsInside DEF Inv
<1> QED
  BY <1>2, <1>4, <1>5, <1>6, <1>7, <1>8, ReaderIsInside DEF RestoreString

LEMMA VectorKeepsInv ==
    ASSUME Inv, RestoreVector
    PROVE  Inv'
<1> DEFINE v == Head(stack)
           n == ReadNum(br)
           one(k) == Class(Uv, <<ElemsField(0, v.map)>>, Append(v.path, k))
           all == Class(Elems, <<ElemsField(n.n, NoMap)>>, v.path)
<1>1. stack # <<>> /\ v.op = "vector" /\ UNCHANGED <<save, no_mem>>
  BY DEF RestoreVector, Now
<1>2. ASSUME NEW e, Fail(e)
      PROVE  Inv'
  BY <1>1, <1>2, FailKeepsInv DEF Inv
<1>3. v \in FieldJob /\ br.cur # 0
  BY <1>1, HasBegun, JobKinds, HeadTailProperties DEF Inv, FieldType
<1>4. v.map \in DataMap \cup {NoMap} /\ v.path \in Path
  BY <1>3 DEF FieldJob
<1>5. n.n \in Nat /\ n.br = Skip(br, 1)
  BY ReadNumOK, ReaderIsInside
<1>6. Uv \in NameCell /\ Elems \in NameCell
  BY MapsAssumption
<1>7. ASSUME ~Overflowed(n.br), br' = n.br, UNCHANGED restored,
             NEW jobs \in Seq(Read), Then(jobs)
      PROVE  Inv'
  <2>1. n.br \in Reader /\ n.br.end <= br.end /\ n.br.cur # 0
    BY <1>3, <1>5, <1>7, SkipOK, ReaderIsInside
  <2> QED
    BY <1>1, <1>7, <2>1, MoreKeepsInv DEF Inv
<1>8. <<all>> \in Seq(Read)
  <2> HIDE DEF v, n
  <2>1. all \in Read
    BY <1>4, <1>5, <1>6, ElemsFieldOK, ClassIsJob
  <2> QED
    BY <2>1
<1>9. [k \in 1..n.n |-> one(k)] \in Seq(Read)
  <2> HIDE DEF v, n
  <2>1. ASSUME NEW k \in 1..n.n
        PROVE  one(k) \in Read
    <3>1. Append(v.path, k) \in Path
      BY <1>4, <1>5 DEF Path, NameCell
    <3> QED
      BY <1>4, <1>6, <3>1, ElemsFieldOK, ClassIsJob
  <2> QED
    BY <1>5, <2>1
<1> QED
  BY <1>2, <1>7, <1>8, <1>9 DEF RestoreVector

LEMMA VariantJobsOK ==
    ASSUME NEW ft \in Nat, NEW path \in Path
    PROVE  VariantJobs(ft, path) \in Seq(Read)
<1> DEFINE job(op, size, at) ==
        [op |-> op, n |-> 1, size |-> size, map |-> NoMap, path |-> at]
<1>1. Append(path, 1) \in Path
  BY DEF Path, NameCell
<1>2. \A op \in {"simple", "string"}, size \in Nat, at \in Path : job(op, size, at) \in Read
  BY DEF Read, FieldJob, FieldType
<1>3. /\ job("simple", 1, Append(path, 1)) \in Read
      /\ job("simple", 3, Append(path, 1)) \in Read
      /\ job("string", 1, path) \in Read
  BY <1>1, <1>2
<1>4. CASE ft \in VariantNumbers
  <2>0. ft \notin VariantVectors /\ ft # FIELD_STRING
    BY <1>4 DEF VariantNumbers, VariantVectors, FIELD_STRING
  <2>1. VariantJobs(ft, path) = <<job("simple", 1, Append(path, 1))>>
    BY <1>4, <2>0, Zenon DEF VariantJobs
  <2> QED
    BY <1>3, <2>1
<1>5. CASE ft \in VariantVectors
  <2>0. ft \notin VariantNumbers /\ ft # FIELD_STRING
    BY <1>5 DEF VariantNumbers, VariantVectors, FIELD_STRING
  <2>1. VariantJobs(ft, path) = <<job("simple", 3, Append(path, 1))>>
    BY <1>5, <2>0, Zenon DEF VariantJobs
  <2> QED
    BY <1>3, <2>1
<1>6. CASE ft = FIELD_STRING
  <2>1. VariantJobs(ft, path) = <<job("string", 1, path)>>
    BY <1>6 DEF VariantJobs, VariantNumbers, VariantVectors, FIELD_STRING
  <2> QED
    BY <1>3, <2>1
<1>7. CASE ft \notin VariantNumbers \cup VariantVectors \cup {FIELD_STRING}
  <2>1. VariantJobs(ft, path) = <<>>
    BY <1>7 DEF VariantJobs
  <2> QED
    BY <2>1
<1> QED
  BY <1>4, <1>5, <1>6, <1>7

LEMMA VariantKeepsInv ==
    ASSUME Inv, RestoreVariant
    PROVE  Inv'
<1> DEFINE v == Head(stack)
           ft == ReadNum(br)
           jobs == VariantJobs(ft.n, v.path)
           type == IF jobs = <<>> THEN FIELD_VOID ELSE ft.n
<1>1. stack # <<>> /\ v.op = "variant" /\ UNCHANGED <<save, no_mem>>
  BY DEF RestoreVariant, Now
<1>2. ASSUME NEW e, Fail(e)
      PROVE  Inv'
  BY <1>1, <1>2, FailKeepsInv DEF Inv
<1>3. v \in FieldJob /\ br.cur # 0
  BY <1>1, HasBegun, JobKinds, HeadTailProperties DEF Inv, FieldType
<1>4. v.path \in Path
  BY <1>3 DEF FieldJob
<1>5. ft.n \in Nat /\ ft.br = Skip(br, 1)
  BY ReadNumOK, ReaderIsInside
<1>6. jobs \in Seq(Read) /\ type \in Nat
  <2> HIDE DEF v, ft
  <2> QED
    BY <1>4, <1>5, VariantJobsOK DEF FIELD_VOID
<1>7. ASSUME br' = ft.br, Store(v.path, <<type>>), Then(jobs)
      PROVE  Inv'
  <2>0. br' = Skip(br, 1) /\ br \in Reader /\ br.cur # 0
    BY <1>3, <1>5, <1>7, ReaderIsInside
  <2> HIDE DEF v, ft, jobs, type
  <2>1. br' \in Reader /\ br'.end <= br.end /\ br'.cur # 0
    BY <2>0, SkipOK
  <2>2. Value(<<v.path, <<type>>>>)
    BY <1>4, <1>6 DEF Value
  <2>3. \A e \in restored' : Value(e)
    BY <1>7, <2>2 DEF Store, Inv
  <2> QED
    BY <1>1, <1>6, <1>7, <2>1, <2>3, MoreKeepsInv DEF Inv
<1> QED
  BY <1>2, <1>7 DEF RestoreVariant

LEMMA OutputKeepsInv ==
    ASSUME Inv, RestoreOutput
    PROVE  Inv'
<1> DEFINE o == Head(stack)
           n == ReadNum(br)
           part(k) == IF k = 1
                      THEN Class(OutputValue, FieldsOf[BaseOutput], Append(o.path, 1))
                      ELSE Class(EntityOutput, FieldsOf[EventAction], Append(o.path, k))
           jobs == [k \in 1..(n.n + 1) |-> part(k)]
<1>1. stack # <<>> /\ o.op = "output" /\ UNCHANGED <<save, no_mem>>
  BY DEF RestoreOutput, Now
<1>2. ASSUME NEW e, Fail(e)
      PROVE  Inv'
  BY <1>1, <1>2, FailKeepsInv DEF Inv
<1>3. ASSUME Then(<<>>), UNCHANGED <<br, restored>>
      PROVE  Inv'
  BY <1>1, <1>3, HasBegun, DoneKeepsInv DEF Inv
<1>4. o \in FieldJob /\ br.cur # 0
  BY <1>1, HasBegun, JobKinds, HeadTailProperties DEF Inv, FieldType
<1>5. o.path \in Path
  BY <1>4 DEF FieldJob
<1>6. n.n \in Nat /\ n.br = Skip(br, 1)
  BY ReadNumOK, ReaderIsInside
<1>7. ASSUME NoMap \notin {BaseOutput, EventAction}, br' = n.br, Then(jobs),
             UNCHANGED restored
      PROVE  Inv'
  <2>1. br' \in Reader /\ br'.end <= br.end /\ br'.cur # 0
    BY <1>4, <1>6, <1>7, SkipOK, ReaderIsInside
  <2>2. BaseOutput \in DataMap /\ EventAction \in DataMap
    BY <1>7, MapsAssumption
  <2>3. OutputValue \in NameCell /\ EntityOutput \in NameCell
    BY MapsAssumption
  <2> HIDE DEF o, n
  <2>4. ASSUME NEW k \in 1..(n.n + 1)
        PROVE  part(k) \in Read
    <3>1. Append(o.path, k) \in Path /\ Append(o.path, 1) \in Path
      BY <1>5, <1>6 DEF Path, NameCell
    <3> QED
      BY <2>2, <2>3, <3>1, MapFacts, ClassIsJob
  <2> HIDE DEF part
  <2>5. jobs \in Seq(Read)
    BY <1>6, <2>4
  <2> HIDE DEF jobs
  <2> QED
    BY <1>1, <1>7, <2>1, <2>5, MoreKeepsInv DEF Inv
<1> QED
  BY <1>2, <1>3, <1>7 DEF RestoreOutput

\* The number with a tag in its upper half says how long a name is.
LEMMA TaggedLen ==
    ASSUME NEW i \in Nat, IsTagged(i)
    PROVE  NameLen(i) \in Nat
  BY MapsAssumption DEF IsTagged, NameLen, NameCell

LEMMA ActivityKeepsInv ==
    ASSUME Inv, RestoreActivity
    PROVE  Inv'
<1> DEFINE a == Head(stack)
           idx == ReadNum(br)
           n == NameLen(idx.n)
           r == Skip(br, 1)
<1>1. stack # <<>> /\ a.op = "activity" /\ Then(<<>>) /\ UNCHANGED <<save, no_mem>>
  BY DEF RestoreActivity, Now
<1>2. a \in FieldJob /\ br.cur # 0
  BY <1>1, HasBegun, JobKinds, HeadTailProperties DEF Inv, FieldType
<1>3. a.path \in Path /\ Append(a.path, 1) \in Path
  BY <1>2 DEF FieldJob, Path, NameCell
<1>4. idx.n \in Nat /\ idx.br = r
  BY ReadNumOK, ReaderIsInside
<1>5. r \in Reader /\ r.end <= br.end /\ r.cur # 0
  BY <1>2, ReaderIsInside, SkipOK
<1> HIDE DEF r
<1>6. r.end <= Len(File) /\ r.end \in Nat
  <2>1. r.end \in Nat
    BY <1>5 DEF Reader
  <2> QED
    BY <1>5, <2>1, ReaderIsInside
<1>7. ASSUME NEW path \in Path, NEW s \in Seq(Nat), Store(path, s),
             br' \in Reader, br'.end <= br.end, br'.cur # 0
      PROVE  Inv'
  <2>1. Value(<<path, s>>)
    BY DEF Value
  <2>2. \A e \in restored' : Value(e)
    BY <1>7, <2>1 DEF Store, Inv
  <2> QED
    BY <1>1, <1>7, <2>2, NoMore, MoreKeepsInv DEF Inv
<1>8. CASE IsTagged(idx.n)
  <2>1. n \in Nat
    BY <1>4, <1>8, TaggedLen
  <2>2. PICK s \in StringsOf(r, n) : Store(Append(a.path, 1), s) /\ br' = AfterStrOf(r, n)
    BY <1>4, <1>8 DEF RestoreActivity
  <2> HIDE DEF a, idx, n
  <2>3. s \in Seq(Nat)
    BY <1>5, <1>6, <2>1, StringsOfOK, ReaderIsInside
  <2>4. br' \in Reader /\ br'.end <= r.end /\ br'.cur # 0
    BY <1>5, <2>1, <2>2, AfterStrOfOK
  <2>5. br'.end \in Int /\ br.end \in Int
    BY <2>4, ReaderIsInside DEF Reader
  <2> QED
    BY <1>3, <1>5, <1>6, <1>7, <2>2, <2>3, <2>4, <2>5
<1>9. CASE ~IsTagged(idx.n)
  <2>1. Store(a.path, <<idx.n>>) /\ br' = r
    BY <1>4, <1>9 DEF RestoreActivity
  <2>2. <<idx.n>> \in Seq(Nat)
    <3> HIDE DEF idx
    <3> QED
      BY <1>4
  <2> HIDE DEF a, idx
  <2> QED
    BY <1>3, <1>5, <1>7, <2>1, <2>2
<1> QED
  BY <1>8, <1>9

LEMMA NpcKeepsInv ==
    ASSUME Inv, RestoreNpc
    PROVE  Inv'
<1> DEFINE conds == IF HeaderVersion >= WithConditions THEN <<[op |-> "conditions"]>> ELSE <<>>
           nav   == IF HeaderVersion >= WithNavigator THEN <<[op |-> "navigator"]>> ELSE <<>>
<1>1. stack # <<>> /\ Head(stack).op = "npc" /\ Then(conds \o nav) /\ UNCHANGED <<save, br, restored, no_mem>>
  BY DEF RestoreNpc, Now
<1>2. conds \in Seq(Read) /\ nav \in Seq(Read)
  BY OtherIsJob
<1>3. conds \o nav \in Seq(Read)
  <2> HIDE DEF conds, nav
  <2> QED
    BY <1>2, ConcatProperties
<1>4. br' \in Reader /\ br'.end <= br.end /\ br'.cur # 0
  BY <1>1, HasBegun, ReaderIsInside
<1> HIDE DEF conds, nav
<1> QED
  BY <1>1, <1>3, <1>4, MoreKeepsInv DEF Inv

LEMMA ListIsJob ==
    ASSUME NEW path \in Path, NEW k \in NameCell
    PROVE  [op |-> "list", path |-> path, k |-> k] \in Read
BY DEF Read, ListJob

LEMMA ConditionsKeepsInv ==
    ASSUME Inv, RestoreConditions
    PROVE  Inv'
<1> DEFINE rec  == StartRecord(br)
           jobs == [i \in Lists |-> [op |-> "list", path |-> <<NameOf[Npc], i>>, k |-> 1]]
           x    == EndRecord(rec.after, TRUE, FALSE)
<1>1. stack # <<>> /\ UNCHANGED <<save, no_mem>>
  BY DEF RestoreConditions, Now
<1>2. ASSUME NEW e, Fail(e)
      PROVE  Inv'
  BY <1>1, <1>2, FailKeepsInv DEF Inv
<1>3. ASSUME rec.err = "none", br' = rec.br, Then(jobs \o <<x>>), UNCHANGED restored
      PROVE  Inv'
  <2>1. jobs \in Seq(Read)
    <3>1. Npc \in DataMap
      BY MapsAssumption
    <3>2. NameOf[Npc] \in NameCell
      BY <3>1, MapFacts
    <3>3. \A i \in 1..4 : <<NameOf[Npc], i>> \in Path
      BY <3>2 DEF Path, NameCell
    <3>4. 1 \in NameCell
      BY DEF NameCell
    <3>5. \A i \in 1..4 : [op |-> "list", path |-> <<NameOf[Npc], i>>, k |-> 1] \in Read
      BY <3>3, <3>4, ListIsJob
    <3> QED
      BY <3>5 DEF Lists
  <2>2. <<x>> = <<x>> \o <<>>
    OBVIOUS
  <2>3. Then(jobs \o (<<x>> \o <<>>))
    BY <1>3, <2>2
  <2>4. rec.br \in Reader /\ rec.br.end <= rec.br.end /\ rec.br.cur # 0
    BY <1>3, RecordOK
  <2> HIDE DEF jobs
  <2> QED
    BY <1>1, <1>3, <2>1, <2>3, <2>4, NoMore, OpenKeepsInv
<1> QED
  BY <1>2, <1>3 DEF RestoreConditions

LEMMA ListKeepsInv ==
    ASSUME Inv, RestoreList
    PROVE  Inv'
<1> DEFINE l == Head(stack)  rest == [l EXCEPT !.k = @ + 1]
<1>1. stack # <<>> /\ l.op = "list" /\ UNCHANGED <<save, no_mem>>
  BY DEF RestoreList, Now
<1>2. PICK s \in Strings(br) :
          /\ br' = AfterStr(br)
          /\ IF s = <<>> THEN Then(<<>>) /\ UNCHANGED restored
             ELSE Store(Append(l.path, l.k), s) /\ Then(<<rest>>)
  BY DEF RestoreList
<1>3. br' \in Reader /\ br'.end <= br.end /\ br'.cur # 0
  BY <1>1, <1>2, HasBegun, AfterStrOK, ReaderIsInside
<1>4. l \in ListJob
  BY <1>1, JobKinds, HeadTailProperties DEF Inv
<1>5. l.path \in Path /\ l.k \in NameCell
  BY <1>4 DEF ListJob
<1>6. rest \in ListJob
  BY <1>4, <1>5 DEF ListJob, NameCell
<1>7. <<rest>> \in Seq(Read)
  <2> HIDE DEF rest
  <2> QED
    BY <1>6 DEF Read
<1>8. CASE s = <<>>
  BY <1>1, <1>2, <1>3, <1>8, NoMore, MoreKeepsInv DEF Inv
<1>9. CASE s # <<>>
  <2> HIDE DEF l, rest
  <2>1. Append(l.path, l.k) \in Path
    BY <1>5 DEF Path
  <2>2. Value(<<Append(l.path, l.k), s>>)
    BY <2>1, StringsOK, ReaderIsInside DEF Value
  <2>3. \A e \in restored' : Value(e)
    BY <1>2, <1>9, <2>2 DEF Store, Inv
  <2> QED
    BY <1>1, <1>2, <1>3, <1>7, <1>9, <2>3, MoreKeepsInv DEF Inv
<1> QED
  BY <1>8, <1>9

LEMMA NavigatorKeepsInv ==
    ASSUME Inv, RestoreNavigator
    PROVE  Inv'
<1> DEFINE rec     == StartRecord(br)
           version == ReadNum(rec.br)
           job     == [op |-> "vector", n |-> 1, size |-> 0, map |-> Waypoint,
                       path |-> <<NameOf[Waypoint]>>]
           jobs    == IF version.n = NavigatorVersion /\ Waypoint # NoMap
                      THEN <<job>> ELSE <<>>
           x       == EndRecord(rec.after, FALSE, TRUE)
<1>1. stack # <<>> /\ UNCHANGED <<save, no_mem>>
  BY DEF RestoreNavigator, Now
<1>2. ASSUME NEW e, Fail(e)
      PROVE  Inv'
  BY <1>1, <1>2, FailKeepsInv DEF Inv
<1>3. ASSUME rec.err = "none", br' = version.br, Then(jobs \o <<x>>), UNCHANGED restored
      PROVE  Inv'
  <2>1. jobs \in Seq(Read)
    <3>1. ASSUME Waypoint # NoMap
          PROVE  <<job>> \in Seq(Read)
      <4>1. Waypoint \in DataMap
        BY <3>1, MapsAssumption
      <4>2. <<NameOf[Waypoint]>> \in Path
        BY <4>1, MapFacts DEF Path
      <4>3. job \in Read
        BY <4>1, <4>2 DEF Read, FieldJob, FieldType
      <4> HIDE DEF job
      <4> QED
        BY <4>3
    <3> HIDE DEF job
    <3> QED
      BY <3>1
  <2>2. <<x>> = <<x>> \o <<>>
    OBVIOUS
  <2>3. Then(jobs \o (<<x>> \o <<>>))
    BY <1>3, <2>2
  <2>4. rec.br \in Reader /\ rec.br.cur # 0
    BY <1>3, RecordOK
  <2>5. version.br = Skip(rec.br, 1)
    BY DEF ReadNum
  <2>6. version.br \in Reader /\ version.br.end <= rec.br.end /\ version.br.cur # 0
    <3> HIDE DEF rec, version
    <3> QED
      BY <2>4, <2>5, SkipOK
  <2> HIDE DEF jobs, version
  <2> QED
    BY <1>1, <1>3, <2>1, <2>3, <2>6, NoMore, OpenKeepsInv
<1> QED
  BY <1>2, <1>3 DEF RestoreNavigator

LEMMA OutOfMemoryKeepsInv ==
    ASSUME Inv, OutOfMemory
    PROVE  Inv'
BY FailKeepsInv DEF OutOfMemory
-----------------------------------------------------------------------------
LEMMA NextInv ==
    Inv /\ [Next]_vars => Inv'
<1> SUFFICES ASSUME Inv, [Next]_vars
             PROVE  Inv'
  OBVIOUS
<1>1. CASE Next
  BY <1>1, SymbolsKeepsInv, ClassKeepsInv, RecordKeepsInv, LeaveKeepsInv,
     SimpleKeepsInv, StringKeepsInv, VectorKeepsInv,
     VariantKeepsInv, OutputKeepsInv, ActivityKeepsInv, NpcKeepsInv,
     ConditionsKeepsInv, ListKeepsInv, NavigatorKeepsInv, OutOfMemoryKeepsInv
  DEF Next
<1>2. CASE UNCHANGED vars
  BY <1>2 DEF vars, Inv, Fenced, Ends, File, Value
<1> QED
  BY <1>1, <1>2

THEOREM Safety ==
    Spec => []Inv
BY InitInv, NextInv, PTL DEF Spec

\* What is restored has a place in the classes and consists of cells of the file
\* or of uninitialised memory, and every reader is one (ch_field_reader.c).
THEOREM TypesAreCorrect ==
    Spec => []TypeOK
BY Safety, InvImplies, PTL

\* Whatever is in a file and wherever it ends, nothing is read beyond its end
\* (ch_byte_reader.h, ch_br_start_record).
THEOREM ReadsStayInFile ==
    Spec => []ReadsInFile
BY Safety, InvImplies, PTL

\* What reads a field of a record cannot reach what follows the record, nor what
\* follows any record around it (ch_br_start_record, ch_br_end_record).
THEOREM RecordsAreFenced ==
    Spec => []RecordsNest
BY Safety, InvImplies, PTL
=============================================================================
