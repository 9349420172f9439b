----------------------------- MODULE Dump_proofs -----------------------------
(***************************************************************************)
(* Proofs about SaveFile and Dump, for every save and every collection     *)
(* with it: the parser reads inside the file, nothing it could not restore *)
(* goes untold, the dump follows a pointer that is not there only after an *)
(* error, and what has been restored it shows once.                        *)
(***************************************************************************)
EXTENDS Dump, FiniteSetTheorems, WellFoundedInduction, TLAPS

\* Readers of a save; only one that has overflowed may be anywhere.
Reader(s) == {r \in [cur : Int, end : Int] :
                 r.cur <= Len(s.file) /\ r.end <= Len(s.file) /\ (r.cur <= r.end => r.cur >= 0)}

Header == [name : STRING, loc : Nat \cup {-1}, body : Nat \cup {-1}]
Info   == [classname : STRING \cup {Nothing}, size : Nat, location : Nat]
-----------------------------------------------------------------------------
(* Readers *)

LEMMA FileOK ==
    ASSUME NEW s \in Saves
    PROVE  /\ DOMAIN s.file = 1..Len(s.file) /\ Len(s.file) \in Nat
           /\ \A c \in DOMAIN s.file :
                 /\ s.file[c].n \in Nat
                 /\ s.file[c].is = "class" => s.file[c].val \notin NotWhole /\ Fits(s.file[c])
BY SavesAssumption

LEMMA SkipOK ==
    ASSUME NEW s \in Saves, NEW r \in Reader(s), NEW n \in Nat
    PROVE  Skip(r, n) \in Reader(s)
BY FileOK DEF Reader, Skip, CouldSkip, Overflowed, SetOverflowed

LEMMA JmpRelOK ==
    ASSUME NEW s \in Saves, NEW r \in Reader(s), NEW n \in Nat
    PROVE  JmpRel(r, n) \in Reader(s)
BY FileOK DEF Reader, JmpRel, CouldSkip, Overflowed, SetOverflowed

LEMMA SplitSkipOK ==
    ASSUME NEW s \in Saves, NEW r \in Reader(s), NEW n \in Nat
    PROVE  SplitSkip(r, n).chunk \in Reader(s) /\ SplitSkip(r, n).after \in Reader(s)
<1>1. SplitSkip(r, n).after \in Reader(s)
  BY SkipOK DEF SplitSkip
<1>2. SplitSkip(r, n).chunk \in Reader(s)
  BY FileOK DEF Reader, SplitSkip, CouldSkip, Overflowed
<1> QED
  BY <1>1, <1>2

LEMMA SplitSkipSwapOK ==
    ASSUME NEW s \in Saves, NEW r \in Reader(s), NEW n \in Nat
    PROVE  SplitSkipSwap(r, n).chunk \in Reader(s) /\ SplitSkipSwap(r, n).after \in Reader(s)
BY FileOK DEF Reader, SplitSkipSwap, CouldSkip, Overflowed, SetOverflowed

LEMMA AstrayOK ==
    ASSUME NEW s \in Saves, NEW r \in Reader(s), NEW x \in Astray(r)
    PROVE  x \in Reader(s)
<1>1. CASE x = SetOverflowed(r)
  BY <1>1, FileOK DEF Reader, SetOverflowed
<1>2. CASE x # SetOverflowed(r)
  <2>1. PICK c \in r.cur..r.end, e \in {r.cur, r.end} : x = [cur |-> c, end |-> e]
    BY <1>2 DEF Astray
  <2> QED
    BY <2>1, FileOK DEF Reader
<1> QED
  BY <1>1, <1>2

\* What a reader reads is in the file, or it is nothing at all.
LEMMA AheadOK ==
    ASSUME save \in Saves, NEW r \in Reader(save), NEW k \in Nat, k # 0
    PROVE  /\ CouldSkip(r, k) => r.cur + k \in DOMAIN save.file
           /\ Ahead(r, k).n \in Nat
           /\ Ahead(r, k).is = "class" =>
                 Ahead(r, k).val \notin NotWhole /\ Fits(Ahead(r, k))
<1>1. CASE CouldSkip(r, k)
  <2>1. r.cur + k \in 1..Len(save.file)
    BY <1>1, FileOK DEF Reader, CouldSkip, Overflowed
  <2> QED
    BY <1>1, <2>1, FileOK DEF Ahead
<1>2. CASE ~CouldSkip(r, k)
  BY <1>2 DEF Ahead, Zero
<1> QED
  BY <1>1, <1>2

LEMMA NumOK ==
    ASSUME save \in Saves, NEW r \in Reader(save), NEW k \in Nat, k # 0
    PROVE  Num(r, k) \in Nat
BY AheadOK DEF Num

\* A class that is restored is whole.
LEMMA RestorableOK ==
    ASSUME save \in Saves, NEW r \in Reader(save), NEW sym, Restorable(r, sym)
    PROVE  /\ Ahead(r, 1).val \notin NotWhole
           /\ Ahead(r, 1).sym = sym /\ Fits(Ahead(r, 1))
BY AheadOK DEF Restorable, IsClass

LEMMA RestoredClassOK ==
    ASSUME save \in Saves, NEW r \in Reader(save), NEW sym, NEW dm
    PROVE  \/ RestoredClass(r, sym, dm) \in Unrestored
           \/ /\ Restorable(r, sym)
              /\ RestoredClass(r, sym, dm) = Ahead(r, 1).val
              /\ RestoredClass(r, sym, dm) \notin NotWhole
BY RestorableOK DEF RestoredClass, Unrestored

\* A set of natural numbers with something in it has a least one.
LEMMA LeastOf ==
    ASSUME NEW S \in SUBSET Nat, S # {}
    PROVE  \E x \in S : \A y \in S : x <= y
<1> DEFINE R == {ss \in Nat \X Nat : ss[1] < ss[2]}
<1>1. IsWellFoundedOn(R, Nat)
  BY NatLessThanWellFounded DEF OpToRel
<1>2. PICK x \in S : \A y \in S : ~(<<y, x>> \in R)
  <2> HIDE DEF R
  <2> QED
    BY <1>1, WFMin
<1>3. ASSUME NEW y \in S PROVE x <= y
  <2>1. x \in Nat /\ y \in Nat /\ <<y, x>> \in Nat \X Nat
    OBVIOUS
  <2>2. ~(y < x)
    <3> SUFFICES ASSUME y < x PROVE <<y, x>> \in R
      BY <1>2
    <3> QED
      BY <2>1
  <2> QED
    BY <2>1, <2>2
<1> QED
  BY <1>3

\* Restorables is the largest number there is.
LEMMA RestorablesIs ==
    ASSUME NEW r, NEW sym, NEW n \in Nat
    PROVE  /\ Restorables(r, sym, n) \in 0..n
           /\ \A l \in 1..Restorables(r, sym, n) : Restorable(Skip(r, l - 1), sym)
<1> DEFINE good == {k \in 0..n : \A l \in 1..k : Restorable(Skip(r, l - 1), sym)}
           short == {k \in 0..n : n - k \in good}
<1>1. 0 \in good
  OBVIOUS
<1>2. n \in short
  BY <1>1
<1>3. PICK x \in short : \A y \in short : x <= y
  <2>1. short \in SUBSET Nat /\ short # {}
    BY <1>2
  <2> HIDE DEF short
  <2> QED
    BY <2>1, LeastOf
<1>4. n - x \in good
  OBVIOUS
<1>5. ASSUME NEW l \in good PROVE l <= n - x
  <2>1. l \in 0..n /\ n - l \in 0..n /\ n - (n - l) = l
    OBVIOUS
  <2>2. n - l \in short
    BY <2>1
  <2> QED
    BY <1>3, <2>1, <2>2
<1>6. Restorables(r, sym, n) = CHOOSE k \in good : \A l \in good : l <= k
  BY DEF Restorables
<1>7. Restorables(r, sym, n) \in good
  <2> HIDE DEF good
  <2> QED
    BY <1>4, <1>5, <1>6
<1> QED
  BY <1>7

\* An array that is restored is whole.
LEMMA ArrayWhole ==
    ASSUME save \in Saves, NEW r \in Reader(save), NEW sym, NEW n \in Nat,
           NEW k \in 1..Restorables(r, sym, n)
    PROVE  /\ Restored(r, Restorables(r, sym, n), n)[k] \notin NotWhole
           /\ Restored(r, Restorables(r, sym, n), n)[k] = Ahead(r, k).val
           /\ Ahead(r, k).sym = sym /\ Fits(Ahead(r, k))
<1>1. Restorable(Skip(r, k - 1), sym) /\ k \in 1..n /\ k - 1 \in Nat
  BY RestorablesIs
<1>2. Skip(r, k - 1) \in Reader(save)
  BY <1>1, SkipOK
<1>3. CouldSkip(Skip(r, k - 1), 1)
  BY <1>1 DEF Restorable, IsClass, Ahead, Zero
<1>4. CouldSkip(r, k) /\ Skip(r, k - 1).cur + 1 = r.cur + k
  BY <1>1, <1>3, FileOK DEF Reader, Skip, CouldSkip, Overflowed, SetOverflowed
<1>5. Ahead(r, k) = Ahead(Skip(r, k - 1), 1)
  BY <1>3, <1>4 DEF Ahead
<1>6. Restored(r, Restorables(r, sym, n), n)[k] = Ahead(r, k).val
  BY <1>1, RestorablesIs DEF Restored
<1> QED
  BY <1>1, <1>2, <1>5, <1>6, RestorableOK
-----------------------------------------------------------------------------
(* What is parsed *)

BlockField == {"vec_idx", "header_parsed", "body_parsed", "version", "count", "table", "queue",
               "items"}
FileField  == {"type", "save_header", "headers", "adjacent_levels", "light_styles", "patched",
               "blocks"}
FileType   == {"invalid", ".hl1", ".hl2", ".hl3"}

IsFile(f) ==
    /\ DOMAIN f = FileField /\ f.type \in FileType /\ f.headers \in Seq(Header)
    /\ DOMAIN f.blocks = Blocks
    /\ \A b \in Blocks : DOMAIN f.blocks[b] = BlockField

IsParsed(p) ==
    /\ DOMAIN p = {"game_header", "global_state", "state_files"}
    /\ Len(p.state_files) \in Nat /\ DOMAIN p.state_files = 1..Len(p.state_files)
    /\ \A k \in DOMAIN p.state_files : IsFile(p.state_files[k])

\* Something was said of element i of block b of state file k, 0 for the block.
Told(log, k, b, i) == \E e \in log : e[1] = k /\ e[2] = b /\ e[3] = i

\* A block of which the header was parsed, and the body not yet.
HeaderSound(f, b) ==
    LET block == f.blocks[b]
    IN  block.header_parsed =>
           /\ b \in Handled /\ block.vec_idx \in DOMAIN f.headers
           /\ b = "Entities" => /\ block.count \in Nat /\ DOMAIN block.table = 1..block.count
                                /\ \A i \in 1..block.count : block.table[i] \in Info

Unread(block) == ~block.body_parsed /\ block.items = <<>> /\ block.queue = Nothing

\* There is a body.
HasBody(f, b) == f.blocks[b].header_parsed /\ f.headers[f.blocks[b].vec_idx].body # -1

\* Nothing is to be restored of an entity.
Left(info) == info.classname = Nothing \/ info.size = 0

EntityTold(log, k, block, i) ==
    \/ Told(log, k, "Entities", i)
    \/ Left(block.table[i]) /\ block.items[i] = Nothing
    \/ ~Left(block.table[i]) /\ block.items[i] \notin NotWhole

Entire(log, k, b, block) ==
    /\ block.body_parsed
    /\ b = "Entities" => /\ DOMAIN block.items = 1..block.count
                         /\ \A i \in 1..block.count : EntityTold(log, k, block, i)
    /\ b # "Entities" => /\ block.version = BlockVersion
                         /\ \A i \in DOMAIN block.items : block.items[i] \notin NotWhole
    /\ b = "EventQueue" => block.queue \notin NotWhole

\* Of a block with a body something was said, or it is all there.
BodyTold(log, k, f, b) == HasBody(f, b) => Told(log, k, b, 0) \/ Entire(log, k, b, f.blocks[b])

\* The first n headers, those that are somewhere.
HeadersTold(log, k, f, n) ==
    \A h \in DOMAIN f.headers : h <= n =>
        \/ f.headers[h].loc = -1
        \/ Told(log, k, f.headers[h].name, 0)
        \/ f.headers[h].name \in Blocks /\ f.blocks[f.headers[h].name].header_parsed

Fresh(f) ==
    /\ f.headers = <<>>
    /\ \A b \in Blocks : ~f.blocks[b].header_parsed /\ Unread(f.blocks[b])

\* The first n headers of a file have been gone through,
HeadersRead(log, k, f, n) ==
    /\ \A b \in Blocks : HeaderSound(f, b) /\ Unread(f.blocks[b])
    /\ HeadersTold(log, k, f, n)

\* or all of them and n blocks,
BodiesRead(log, k, f, n) ==
    /\ f.save_header # Nothing
    /\ \A b \in Blocks : HeaderSound(f, b)
    /\ HeadersTold(log, k, f, Len(f.headers))
    /\ \A j \in DOMAIN BlockOrder :
          IF j <= n THEN BodyTold(log, k, f, BlockOrder[j]) ELSE Unread(f.blocks[BlockOrder[j]])

\* or all the headers and n entities.
EntitiesRead(log, k, f, n) ==
    LET block == f.blocks["Entities"]
    IN  /\ f.save_header # Nothing
        /\ \A b \in Blocks : HeaderSound(f, b)
        /\ HeadersTold(log, k, f, Len(f.headers))
        /\ \A b \in Blocks \ {"Entities"} : Unread(f.blocks[b])
        /\ HasBody(f, "Entities")
        /\ DOMAIN block.items = 1..block.count
        /\ \A i \in 1..block.count :
              IF i <= n THEN EntityTold(log, k, block, i) ELSE block.items[i] = Nothing

\* A state file is done.
FileTold(log, k, f) ==
    /\ f.type # "invalid"
    /\ f.type = ".hl1" => BodiesRead(log, k, f, Len(BlockOrder))

-----------------------------------------------------------------------------
(* The invariant of the parser *)

ReadersOK ==
    /\ save \in Saves /\ br \in Reader(save) /\ br_cur_base \in Reader(save)
    /\ locals \in [sf : Nat, k : Nat, i : Nat, after_sf : Reader(save), after_bodies : Reader(save),
                   base : Reader(save), headers_size : Nat, bodies_size : Nat]

InFile == {".hl1", ".hl2", ".hl3", "block_header", "bodies", "block_body", "entity"}

FileNow == parsed.state_files[locals.sf]

\* How far the state file is that is being parsed.
NowOK ==
    /\ pc \in InFile => /\ locals.sf \in DOMAIN parsed.state_files
                        /\ FileNow.type = IF pc \in FileType THEN pc ELSE ".hl1"
    /\ pc \in {".hl1", ".hl2", ".hl3"} => Fresh(FileNow)
    /\ pc = "block_header" => locals.k # 0 /\ HeadersRead(logged, locals.sf, FileNow, locals.k - 1)
    /\ pc = "bodies" => BodiesRead(logged, locals.sf, FileNow, 0)
    /\ pc = "block_body" => locals.k # 0 /\ BodiesRead(logged, locals.sf, FileNow, locals.k - 1)
    /\ pc = "entity" => /\ locals.k = 1 /\ locals.i # 0
                        /\ EntitiesRead(logged, locals.sf, FileNow, locals.i - 1)

\* Those before it and those after it.
OthersOK ==
    pc \in InFile \cup {"state_file"} =>
        /\ locals.sf # 0
        /\ parsed.game_header \notin NotWhole /\ parsed.global_state \notin NotWhole
        /\ \A k \in DOMAIN parsed.state_files :
              /\ k < locals.sf => FileTold(logged, k, parsed.state_files[k])
              /\ k > locals.sf \/ (k = locals.sf /\ pc = "state_file") => Fresh(parsed.state_files[k])

\* A parse that succeeds has gone through everything.
DoneOK ==
    pc = "parsed" /\ err = "none" =>
        /\ parsed.game_header \notin NotWhole /\ parsed.global_state \notin NotWhole
        /\ \A k \in DOMAIN parsed.state_files : FileTold(logged, k, parsed.state_files[k])

ParseInv == ReadersOK /\ IsParsed(parsed) /\ NowOK /\ OthersOK /\ DoneOK

-----------------------------------------------------------------------------
(* What steps have in common *)

LEMMA ToldOK ==
    ASSUME NEW l1, NEW l2, l1 \subseteq l2, NEW k, NEW b, NEW i, Told(l1, k, b, i)
    PROVE  Told(l2, k, b, i)
BY DEF Told

\* What is logged is told.
LEMMA LogTells ==
    ASSUME NEW b, NEW i, NEW what, Log(b, i, what)
    PROVE  Told(logged', locals.sf, b, i) /\ logged \subseteq logged'
<1> DEFINE e == <<locals.sf, b, i, what>>
<1>1. e[1] = locals.sf /\ e[2] = b /\ e[3] = i
  OBVIOUS
<1>2. logged' = logged \cup {e}
  BY DEF Log
<1> HIDE DEF e
<1> QED
  BY <1>1, <1>2 DEF Told

LEMMA BodyToldOK ==
    ASSUME NEW l1, NEW l2, l1 \subseteq l2, NEW k, NEW f, NEW b, BodyTold(l1, k, f, b)
    PROVE  BodyTold(l2, k, f, b)
BY ToldOK DEF BodyTold, Entire, EntityTold

LEMMA HeadersToldOK ==
    ASSUME NEW l1, NEW l2, l1 \subseteq l2, NEW k, NEW f, NEW n, HeadersTold(l1, k, f, n)
    PROVE  HeadersTold(l2, k, f, n)
BY ToldOK DEF HeadersTold

LEMMA BodiesReadOK ==
    ASSUME NEW l1, NEW l2, l1 \subseteq l2, NEW k, NEW f, NEW n, BodiesRead(l1, k, f, n)
    PROVE  BodiesRead(l2, k, f, n)
BY BodyToldOK, HeadersToldOK DEF BodiesRead

LEMMA FileToldOK ==
    ASSUME NEW l1, NEW l2, l1 \subseteq l2, NEW k, NEW f, FileTold(l1, k, f)
    PROVE  FileTold(l2, k, f)
BY BodiesReadOK DEF FileTold

\* A state file is exchanged for another one.
LEMMA FileChanged ==
    ASSUME NEW p, IsParsed(p), NEW k \in DOMAIN p.state_files, NEW f, IsFile(f),
           NEW q, q = [p EXCEPT !.state_files[k] = f]
    PROVE  /\ IsParsed(q)
           /\ q.game_header = p.game_header /\ q.global_state = p.global_state
           /\ DOMAIN q.state_files = DOMAIN p.state_files
           /\ q.state_files[k] = f
           /\ \A j \in DOMAIN p.state_files : j # k => q.state_files[j] = p.state_files[j]
<1>1. /\ DOMAIN q = {"game_header", "global_state", "state_files"}
      /\ q.game_header = p.game_header /\ q.global_state = p.global_state
      /\ q.state_files = [p.state_files EXCEPT ![k] = f]
  BY DEF IsParsed
<1>2. /\ DOMAIN q.state_files = DOMAIN p.state_files
      /\ q.state_files[k] = f
      /\ \A j \in DOMAIN p.state_files : j # k => q.state_files[j] = p.state_files[j]
  BY <1>1
<1>3. Len(q.state_files) = Len(p.state_files)
  BY <1>2 DEF IsParsed
<1> QED
  BY <1>1, <1>2, <1>3 DEF IsParsed

\* A block of it.
WithBlock(f, b, block) == [f EXCEPT !.blocks[b] = block]

LEMMA BlockChanged ==
    ASSUME NEW f, IsFile(f), NEW b \in Blocks, NEW block, DOMAIN block = BlockField
    PROVE  LET g == WithBlock(f, b, block)
           IN  /\ IsFile(g)
               /\ g.type = f.type /\ g.save_header = f.save_header /\ g.headers = f.headers
               /\ g.blocks[b] = block
               /\ \A c \in Blocks : c # b => g.blocks[c] = f.blocks[c]
<1> DEFINE g == WithBlock(f, b, block)
<1>1. g = [f EXCEPT !.blocks[b] = block]
  BY DEF WithBlock
<1> HIDE DEF g
<1>2. /\ DOMAIN g = FileField /\ g.type = f.type /\ g.save_header = f.save_header
      /\ g.headers = f.headers /\ g.blocks = [f.blocks EXCEPT ![b] = block]
  BY <1>1 DEF IsFile, FileField
<1>3. /\ DOMAIN g.blocks = Blocks /\ g.blocks[b] = block
      /\ \A c \in Blocks : c # b => g.blocks[c] = f.blocks[c]
  BY <1>2 DEF IsFile
<1>4. IsFile(g)
  BY <1>2, <1>3 DEF IsFile
<1> QED
  BY <1>2, <1>3, <1>4 DEF g

\* The parse fails.
LEMMA Fails ==
    ASSUME pc' = "parsed", err' # "none"
    PROVE  NowOK' /\ OthersOK' /\ DoneOK'
BY DEF NowOK, OthersOK, DoneOK, InFile

\* The parser goes on in a state file, with what is f of it now.
LEMMA GoesOn ==
    ASSUME ParseInv, pc \in InFile, pc' \in InFile,
           NEW f, IsFile(f), parsed' = [parsed EXCEPT !.state_files[locals.sf] = f],
           locals'.sf = locals.sf, logged \subseteq logged'
    PROVE  /\ IsParsed(parsed') /\ OthersOK' /\ DoneOK'
           /\ (locals.sf \in DOMAIN parsed.state_files)' /\ FileNow' = f
<1>1. locals.sf \in DOMAIN parsed.state_files
  BY DEF ParseInv, NowOK
<1>2. /\ IsParsed(parsed')
      /\ parsed'.game_header = parsed.game_header /\ parsed'.global_state = parsed.global_state
      /\ DOMAIN parsed'.state_files = DOMAIN parsed.state_files
      /\ parsed'.state_files[locals.sf] = f
      /\ \A j \in DOMAIN parsed.state_files :
            j # locals.sf => parsed'.state_files[j] = parsed.state_files[j]
  BY <1>1, FileChanged DEF ParseInv
<1>3. FileNow' = f
  BY <1>2 DEF FileNow
<1>4. DoneOK'
  BY DEF DoneOK, InFile
<1>5. locals.sf \in Nat /\ DOMAIN parsed.state_files \subseteq Nat
  BY DEF ParseInv, ReadersOK, IsParsed
<1>6. ASSUME NEW k \in DOMAIN parsed'.state_files
      PROVE  /\ k < locals.sf => FileTold(logged', k, parsed'.state_files[k])
             /\ k > locals.sf => Fresh(parsed'.state_files[k])
  BY <1>2, <1>5, <1>6, FileToldOK DEF ParseInv, OthersOK
<1>7. OthersOK'
  <2>1. pc' # "state_file" /\ locals.sf # 0
    BY DEF ParseInv, OthersOK, InFile
  <2> QED
    BY <1>2, <1>6, <2>1 DEF ParseInv, OthersOK
<1> QED
  BY <1>1, <1>2, <1>3, <1>4, <1>7

\* The same, when nothing of the state file has changed.
LEMMA GoesOnSame ==
    ASSUME ParseInv, pc \in InFile, pc' \in InFile, parsed' = parsed,
           locals'.sf = locals.sf, logged \subseteq logged'
    PROVE  /\ IsParsed(parsed') /\ OthersOK' /\ DoneOK'
           /\ (locals.sf \in DOMAIN parsed.state_files)' /\ FileNow' = FileNow
<1>1. DoneOK' /\ FileNow' = FileNow /\ (locals.sf \in DOMAIN parsed.state_files)'
  BY DEF DoneOK, InFile, FileNow, ParseInv, NowOK
<1>2. pc' # "state_file" /\ pc # "state_file"
  BY DEF InFile
<1>3. OthersOK'
  BY <1>2, FileToldOK DEF ParseInv, OthersOK
<1> QED
  BY <1>1, <1>3 DEF ParseInv

LEMMA InitOK ==
    ASSUME Init
    PROVE  ParseInv
<1>1. save \in Saves /\ Len(save.file) \in Nat
  BY FileOK DEF Init
<1>2. br \in Reader(save) /\ br_cur_base \in Reader(save)
  BY <1>1 DEF Init, Reader
<1>3. ReadersOK
  BY <1>1, <1>2 DEF Init, ReadersOK
<1>4. IsParsed(parsed)
  BY DEF Init, IsParsed
<1>5. NowOK /\ OthersOK /\ DoneOK
  BY DEF Init, NowOK, OthersOK, DoneOK, InFile
<1> QED
  BY <1>3, <1>4, <1>5 DEF ParseInv

LEMMA ReadSymbolTableOK ==
    ASSUME save \in Saves, NEW r \in Reader(save), NEW size \in Nat
    PROVE  ReadSymbolTable(r, size).br \in Reader(save)
<1>1. SplitSkip(r, size).after \in Reader(save)
  BY SplitSkipOK
<1> QED
  BY <1>1 DEF ReadSymbolTable

\* The header and the global state.
LEMMA ParseHeaderOK ==
    ASSUME ParseInv, ParseHeader
    PROVE  ParseInv'
<1>1. Skip(br, 4) \in Reader(save) /\ Num(br, 4) \in Nat /\ Num(br, 2) \in Nat
  BY SkipOK, NumOK DEF ParseInv, ReadersOK
<1>2. ReadSymbolTable(Skip(br, 4), Num(br, 4)).br \in Reader(save)
  BY <1>1, ReadSymbolTableOK DEF ParseInv, ReadersOK
<1>3. IsParsed(parsed)' /\ save' = save /\ br_cur_base' = br_cur_base
  BY DEF ParseHeader, ParseInv, Return, readers
<1>4. CASE pc' = "parsed"
  <2>1. err' # "none" /\ UNCHANGED <<br, locals>>
    BY <1>4 DEF ParseHeader, Return, readers
  <2>2. ReadersOK'
    BY <1>3, <2>1 DEF ParseInv, ReadersOK
  <2> QED
    BY <1>3, <1>4, <2>1, <2>2, Fails DEF ParseInv
<1>5. CASE pc' # "parsed"
  <2>1. /\ br' = ReadSymbolTable(Skip(br, 4), Num(br, 4)).br
        /\ locals' = [locals EXCEPT !.headers_size = Num(br, 2)] /\ pc' = "globals"
    BY <1>5 DEF ParseHeader, Return
  <2>2. ReadersOK'
    BY <1>1, <1>2, <1>3, <2>1 DEF ParseInv, ReadersOK
  <2>3. NowOK' /\ OthersOK' /\ DoneOK'
    BY <2>1 DEF NowOK, OthersOK, DoneOK, InFile
  <2> QED
    BY <1>3, <2>2, <2>3 DEF ParseInv
<1> QED
  BY <1>4, <1>5

LEMMA FitsIs ==
    ASSUME NEW c, Fits(c)
    PROVE  /\ c.sym = "GameHeader" => c.val \in Nat
           /\ c.sym = "EventQueue" => c.val \in Nat
           /\ c.sym = "Save Header" => c.val \in [connections : Nat, styles : Nat]
           /\ c.sym = "ETABLE" => c.val \in Info
           /\ c.sym = "headers" => c.val \in Seq(Header)
BY DEF Fits, Info, Header

LEMMA EmptyFileOK == IsFile(EmptyFile) /\ Fresh(EmptyFile)
<1>1. DOMAIN EmptyFile = FileField /\ EmptyFile.type \in FileType /\ EmptyFile.headers = <<>>
  BY DEF EmptyFile, FileField, FileType
<1>2. DOMAIN EmptyFile.blocks = Blocks /\ \A b \in Blocks : EmptyFile.blocks[b] = EmptyBlock
  BY DEF EmptyFile
<1>3. /\ DOMAIN EmptyBlock = BlockField
      /\ ~EmptyBlock.header_parsed /\ Unread(EmptyBlock)
  BY DEF EmptyBlock, BlockField, Unread
<1> QED
  BY <1>1, <1>2, <1>3 DEF IsFile, Fresh

LEMMA ParseGlobalsOK ==
    ASSUME ParseInv, ParseGlobals
    PROVE  ParseInv'
<1> DEFINE split  == SplitSkipSwap(br, locals.headers_size)
           header == RestoredClass(split.chunk, "GameHeader", "GAME_HEADER")
           global == IF header \in Unrestored THEN Nothing
                     ELSE RestoredClass(Skip(split.chunk, 1), "GLOBAL", "CGlobalState")
           n      == IF header # 0 THEN header ELSE Num(split.after, 1)
           after  == IF header # 0 THEN split.after ELSE Skip(split.after, 1)
           read   == [parsed EXCEPT !.game_header = header, !.global_state = global]
<1>1. /\ split.chunk \in Reader(save) /\ split.after \in Reader(save)
      /\ Skip(split.after, 1) \in Reader(save) /\ Skip(split.chunk, 1) \in Reader(save)
  BY SplitSkipSwapOK, SkipOK DEF ParseInv, ReadersOK
<1>2. Num(split.after, 1) \in Nat
  BY <1>1, NumOK DEF ParseInv, ReadersOK
<1>3. IsParsed(read)
  BY DEF ParseInv, IsParsed
<1>4. /\ save' = save /\ br_cur_base' = br_cur_base /\ logged' = logged
      /\ \/ pc' = "parsed" /\ err' = "overflow" /\ UNCHANGED <<br, locals, parsed>>
         \/ /\ pc' = "parsed" /\ err' = "bad_class" /\ parsed' = read
            /\ br' \in Astray(split.chunk) /\ UNCHANGED locals
         \/ pc' = "parsed" /\ err' = "overflow" /\ parsed' = read /\ br' = after /\ UNCHANGED locals
         \/ /\ global \notin Unrestored
            /\ parsed' = [read EXCEPT !.state_files = [k \in 1..n |-> EmptyFile]]
            /\ br' = after /\ locals' = [locals EXCEPT !.sf = 1] /\ pc' = "state_file"
  BY DEF ParseGlobals, Return
<1>5. br' \in Reader(save)
  <2> HIDE DEF split, header, global, read
  <2> QED
    BY <1>1, <1>4, AstrayOK DEF ParseInv, ReadersOK
<1>6. ReadersOK'
  <2> HIDE DEF split, header, global, n, after, read
  <2>1. locals' = locals \/ locals' = [locals EXCEPT !.sf = 1]
    BY <1>4
  <2> QED
    BY <1>4, <1>5, <2>1 DEF ParseInv, ReadersOK
<1>7. CASE pc' = "parsed"
  <2>1. IsParsed(parsed') /\ err' # "none"
    <3> HIDE DEF split, header, global, n, after, read
    <3> QED
      BY <1>3, <1>4, <1>7 DEF ParseInv
  <2> QED
    BY <1>6, <1>7, <2>1, Fails DEF ParseInv
<1>8. CASE pc' # "parsed"
  <2>1. /\ global \notin Unrestored
        /\ parsed' = [read EXCEPT !.state_files = [k \in 1..n |-> EmptyFile]]
        /\ locals' = [locals EXCEPT !.sf = 1] /\ pc' = "state_file"
    <3> HIDE DEF split, header, global, n, after, read
    <3> QED
      BY <1>4, <1>8
  <2>2. header \notin Unrestored
    BY <2>1 DEF Unrestored
  <2>3. /\ header \notin NotWhole
        /\ Restorable(split.chunk, "GameHeader") /\ header = Ahead(split.chunk, 1).val
    <3> HIDE DEF split
    <3> QED
      BY <1>1, <2>2, RestoredClassOK DEF ParseInv, ReadersOK
  <2>4. header \in Nat
    <3>1. Fits(Ahead(split.chunk, 1)) /\ Ahead(split.chunk, 1).sym = "GameHeader"
      <4> HIDE DEF split
      <4> QED
        BY <1>1, <2>3, RestorableOK DEF ParseInv, ReadersOK
    <3> HIDE DEF split, header
    <3> QED
      BY <2>3, <3>1, FitsIs
  <2>5. global \notin NotWhole
    <3>1. global = RestoredClass(Skip(split.chunk, 1), "GLOBAL", "CGlobalState")
      BY <2>2
    <3> HIDE DEF split, global
    <3> QED
      BY <1>1, <2>1, <3>1, RestoredClassOK DEF ParseInv, ReadersOK
  <2>6. n \in Nat
    BY <1>2, <2>4
  <2>7. /\ parsed'.game_header = header /\ parsed'.global_state = global
        /\ DOMAIN parsed' = {"game_header", "global_state", "state_files"}
        /\ parsed'.state_files = [k \in 1..n |-> EmptyFile]
    <3> HIDE DEF header, global, n
    <3> QED
      BY <2>1 DEF ParseInv, IsParsed
  <2>8. DOMAIN parsed'.state_files = 1..n /\ Len(parsed'.state_files) = n
    <3> HIDE DEF n
    <3> QED
      BY <2>6, <2>7
  <2>9. \A k \in 1..n : parsed'.state_files[k] = EmptyFile
    <3> HIDE DEF n
    <3> QED
      BY <2>7
  <2> HIDE DEF header, global, n
  <2>10. IsParsed(parsed')
    BY <2>6, <2>7, <2>8, <2>9, EmptyFileOK DEF IsParsed
  <2>11. NowOK' /\ DoneOK'
    BY <2>1 DEF NowOK, DoneOK, InFile
  <2>12. locals'.sf = 1
    BY <2>1 DEF ParseInv, ReadersOK
  <2>13. OthersOK'
    <3>1. \A k \in DOMAIN parsed'.state_files : ~(k < 1) /\ Fresh(parsed'.state_files[k])
      BY <2>6, <2>8, <2>9, EmptyFileOK
    <3> QED
      BY <2>3, <2>5, <2>7, <2>12, <3>1 DEF OthersOK
  <2> QED
    BY <1>6, <2>10, <2>11, <2>13 DEF ParseInv
<1> QED
  BY <1>7, <1>8

LEMMA ParseStateFileOK ==
    ASSUME ParseInv, ParseStateFile
    PROVE  ParseInv'
<1> DEFINE ext   == Ahead(br, 1).sym
           split == SplitSkipSwap(Skip(br, 2), Num(br, 2))
<1>1. split.chunk \in Reader(save) /\ split.after \in Reader(save)
  <2>1. Skip(br, 2) \in Reader(save) /\ Num(br, 2) \in Nat
    BY SkipOK, NumOK DEF ParseInv, ReadersOK
  <2> QED
    BY <2>1, SplitSkipSwapOK DEF ParseInv, ReadersOK
<1> HIDE DEF ext, split
<1>2. /\ pc = "state_file" /\ save' = save /\ br_cur_base' = br_cur_base /\ logged' = logged
      /\ \/ /\ pc' = "parsed" /\ UNCHANGED <<br, locals, parsed>>
            /\ err' # "none" \/ locals.sf > Len(parsed.state_files)
         \/ /\ locals.sf <= Len(parsed.state_files) /\ ext \in {".hl1", ".hl2", ".hl3"}
            /\ br' = split.chunk /\ locals' = [locals EXCEPT !.after_sf = split.after]
            /\ parsed' = [parsed EXCEPT !.state_files[locals.sf].type = ext]
            /\ pc' = ext
  <2>1. locals.sf > Len(parsed.state_files) \/ locals.sf <= Len(parsed.state_files)
    BY DEF ParseInv, ReadersOK, IsParsed
  <2> QED
    BY <2>1 DEF ParseStateFile, Return, ext, split
<1>3. ReadersOK'
  BY <1>1, <1>2 DEF ParseInv, ReadersOK
<1>4. CASE pc' = "parsed"
  <2>1. UNCHANGED <<br, locals, parsed>> /\ (err' # "none" \/ locals.sf > Len(parsed.state_files))
    BY <1>2, <1>4
  <2>2. NowOK' /\ OthersOK'
    BY <1>4 DEF NowOK, OthersOK, InFile
  <2>3. ASSUME locals.sf > Len(parsed.state_files)
        PROVE  \A k \in DOMAIN parsed.state_files : FileTold(logged, k, parsed.state_files[k])
    <3>1. \A k \in DOMAIN parsed.state_files : k < locals.sf
      BY <2>3 DEF ParseInv, ReadersOK, IsParsed
    <3> QED
      BY <1>2, <3>1 DEF ParseInv, OthersOK
  <2>4. DoneOK'
    BY <1>2, <2>1, <2>3 DEF ParseInv, OthersOK, DoneOK
  <2> QED
    BY <1>3, <2>1, <2>2, <2>4 DEF ParseInv
<1>5. CASE pc' # "parsed"
  <2> DEFINE f == [parsed.state_files[locals.sf] EXCEPT !.type = ext]
  <2>1. /\ locals.sf <= Len(parsed.state_files) /\ ext \in {".hl1", ".hl2", ".hl3"}
        /\ locals' = [locals EXCEPT !.after_sf = split.after]
        /\ parsed' = [parsed EXCEPT !.state_files[locals.sf] = f]
        /\ pc' = ext
    BY <1>2, <1>5
  <2>2. locals.sf \in DOMAIN parsed.state_files /\ locals'.sf = locals.sf
    BY <1>2, <2>1 DEF ParseInv, ReadersOK, IsParsed, OthersOK
  <2>3. IsFile(parsed.state_files[locals.sf]) /\ Fresh(parsed.state_files[locals.sf])
    BY <1>2, <2>2 DEF ParseInv, IsParsed, OthersOK
  <2>4. /\ DOMAIN f = FileField /\ f.type = ext
        /\ f.headers = parsed.state_files[locals.sf].headers
        /\ f.blocks = parsed.state_files[locals.sf].blocks
    BY <2>3 DEF IsFile, FileField
  <2> HIDE DEF f
  <2>5. IsFile(f) /\ Fresh(f)
    BY <2>1, <2>3, <2>4 DEF IsFile, Fresh, FileType
  <2>6. /\ IsParsed(parsed')
        /\ parsed'.game_header = parsed.game_header /\ parsed'.global_state = parsed.global_state
        /\ DOMAIN parsed'.state_files = DOMAIN parsed.state_files
        /\ parsed'.state_files[locals.sf] = f
        /\ \A j \in DOMAIN parsed.state_files :
              j # locals.sf => parsed'.state_files[j] = parsed.state_files[j]
    BY <2>1, <2>2, <2>5, FileChanged DEF ParseInv
  <2>7. NowOK'
    <3>1. FileNow' = f /\ locals'.sf = locals.sf
      BY <2>2, <2>6 DEF FileNow
    <3> QED
      BY <2>1, <2>2, <2>4, <2>5, <2>6, <3>1 DEF NowOK, InFile, FileType
  <2>8. OthersOK'
    <3>1. \A k \in DOMAIN parsed.state_files :
             /\ k < locals.sf => k # locals.sf /\ FileTold(logged, k, parsed.state_files[k])
             /\ k > locals.sf => k # locals.sf /\ Fresh(parsed.state_files[k])
      BY <1>2, <2>2 DEF ParseInv, ReadersOK, IsParsed, OthersOK
    <3>2. parsed.game_header \notin NotWhole /\ parsed.global_state \notin NotWhole
          /\ locals.sf # 0
      BY <1>2 DEF ParseInv, OthersOK
    <3>3. pc' # "state_file"
      BY <2>1
    <3> QED
      BY <1>2, <2>2, <2>6, <3>1, <3>2, <3>3 DEF OthersOK
  <2>9. DoneOK'
    BY <1>5 DEF DoneOK
  <2> QED
    BY <1>3, <2>6, <2>7, <2>8, <2>9 DEF ParseInv
<1> QED
  BY <1>4, <1>5

\* The state file is told, and the next one begins.
LEMMA NextStateFileOK ==
    ASSUME ParseInv, pc \in InFile, NextStateFile, UNCHANGED <<save, br_cur_base, logged>>,
           IsParsed(parsed'),
           parsed'.game_header = parsed.game_header, parsed'.global_state = parsed.global_state,
           DOMAIN parsed'.state_files = DOMAIN parsed.state_files,
           FileTold(logged, locals.sf, parsed'.state_files[locals.sf]),
           \A j \in DOMAIN parsed.state_files :
              j # locals.sf => parsed'.state_files[j] = parsed.state_files[j]
    PROVE  ParseInv'
<1>1. /\ br' = locals.after_sf /\ locals' = [locals EXCEPT !.sf = @ + 1] /\ pc' = "state_file"
  BY DEF NextStateFile
<1>2. ReadersOK' /\ locals'.sf = locals.sf + 1 /\ locals.sf \in Nat
  BY <1>1 DEF ParseInv, ReadersOK
<1>3. NowOK' /\ DoneOK'
  BY <1>1 DEF NowOK, DoneOK, InFile
<1>4. OthersOK'
  <2>1. pc # "state_file"
    BY DEF InFile
  <2>2. ASSUME NEW k \in DOMAIN parsed'.state_files
        PROVE  /\ k < locals'.sf => FileTold(logged, k, parsed'.state_files[k])
               /\ k > locals'.sf \/ k = locals'.sf => Fresh(parsed'.state_files[k])
    <3>1. k \in Nat /\ k \in DOMAIN parsed.state_files
      BY DEF IsParsed
    <3>2. CASE k = locals.sf
      BY <1>2, <3>1, <3>2
    <3>3. CASE k < locals.sf
      BY <1>2, <2>1, <3>1, <3>3 DEF ParseInv, OthersOK
    <3>4. CASE k > locals.sf
      BY <1>2, <2>1, <3>1, <3>4 DEF ParseInv, OthersOK
    <3> QED
      BY <1>2, <3>1, <3>2, <3>3, <3>4
  <2>3. parsed.game_header \notin NotWhole /\ parsed.global_state \notin NotWhole
    BY DEF ParseInv, OthersOK
  <2> QED
    BY <1>2, <2>2, <2>3 DEF OthersOK
<1> QED
  BY <1>2, <1>3, <1>4 DEF ParseInv

LEMMA ParseHl2OK ==
    ASSUME ParseInv, ParseHl2
    PROVE  ParseInv'
<1>1. /\ pc = ".hl2" /\ UNCHANGED <<save, br_cur_base, st, parsed, logged>>
      /\ \/ pc' = "parsed" /\ err' # "none" /\ UNCHANGED <<br, locals>>
         \/ NextStateFile
  BY DEF ParseHl2, Return
<1>2. CASE NextStateFile
  <2>1. FileTold(logged, locals.sf, parsed.state_files[locals.sf])
    BY <1>1 DEF ParseInv, NowOK, FileTold, FileNow, InFile, FileType
  <2> QED
    BY <1>1, <1>2, <2>1, NextStateFileOK DEF ParseInv, InFile
<1>3. CASE ~NextStateFile
  <2>1. ReadersOK' /\ IsParsed(parsed')
    BY <1>1, <1>3 DEF ParseInv, ReadersOK
  <2> QED
    BY <1>1, <1>3, <2>1, Fails DEF ParseInv
<1> QED
  BY <1>2, <1>3

LEMMA ParseHl3OK ==
    ASSUME ParseInv, ParseHl3
    PROVE  ParseInv'
<1> DEFINE f == [FileNow EXCEPT !.patched = Num(br, 1)]
<1>1. /\ pc = ".hl3" /\ UNCHANGED <<save, br_cur_base, st, logged>>
      /\ \/ pc' = "parsed" /\ err' # "none" /\ UNCHANGED <<br, locals>>
         \/ NextStateFile
      /\ parsed' = [parsed EXCEPT !.state_files[locals.sf] = f]
  BY DEF ParseHl3, Return, FileNow
<1>2. locals.sf \in DOMAIN parsed.state_files /\ IsFile(FileNow) /\ FileNow.type = ".hl3"
  BY <1>1 DEF ParseInv, NowOK, FileNow, InFile, FileType, IsParsed
<1>3. /\ DOMAIN f = FileField /\ f.type = FileNow.type
      /\ f.headers = FileNow.headers /\ f.blocks = FileNow.blocks
  BY <1>2 DEF IsFile, FileField
<1> HIDE DEF f
<1>4. IsFile(f) /\ FileTold(logged, locals.sf, f)
  BY <1>2, <1>3 DEF IsFile, FileTold
<1>5. /\ IsParsed(parsed')
      /\ parsed'.game_header = parsed.game_header /\ parsed'.global_state = parsed.global_state
      /\ DOMAIN parsed'.state_files = DOMAIN parsed.state_files
      /\ parsed'.state_files[locals.sf] = f
      /\ \A j \in DOMAIN parsed.state_files :
            j # locals.sf => parsed'.state_files[j] = parsed.state_files[j]
  BY <1>1, <1>2, <1>4, FileChanged DEF ParseInv
<1>6. CASE NextStateFile
  BY <1>1, <1>4, <1>5, <1>6, NextStateFileOK DEF InFile
<1>7. CASE ~NextStateFile
  <2>1. ReadersOK'
    BY <1>1, <1>7 DEF ParseInv, ReadersOK
  <2> QED
    BY <1>1, <1>5, <1>7, <2>1, Fails DEF ParseInv
<1> QED
  BY <1>6, <1>7

LEMMA ParseHl1OK ==
    ASSUME ParseInv, ParseHl1
    PROVE  ParseInv'
<1> DEFINE table == ReadSymbolTable(Skip(br, 5), Num(br, 2))
           sizes == Skip(table.br, 2)
           vec   == Ahead(sizes, 1)
           f     == [FileNow EXCEPT !.headers = vec.val]
           now   == [locals EXCEPT !.k = 1, !.headers_size = Num(table.br, 1),
                                   !.bodies_size = Num(table.br, 2)]
<1>1. table.br \in Reader(save) /\ sizes \in Reader(save) /\ Skip(sizes, 1) \in Reader(save)
  <2>1. Skip(br, 5) \in Reader(save) /\ Num(br, 2) \in Nat
    BY SkipOK, NumOK DEF ParseInv, ReadersOK
  <2>2. table.br \in Reader(save)
    BY <2>1, ReadSymbolTableOK DEF ParseInv, ReadersOK
  <2> HIDE DEF table
  <2> QED
    BY <2>2, SkipOK DEF ParseInv, ReadersOK
<1>2. Num(table.br, 1) \in Nat /\ Num(table.br, 2) \in Nat
  <2> HIDE DEF table
  <2> QED
    BY <1>1, NumOK DEF ParseInv, ReadersOK
<1>3. /\ pc = ".hl1" /\ UNCHANGED <<save, logged>>
      /\ \/ /\ pc' = "parsed" /\ err' # "none" /\ UNCHANGED <<locals, parsed>>
            /\ br_cur_base' \in {br_cur_base, table.br}
            /\ br' = br \/ br' \in Astray(sizes)
         \/ /\ vec.is = "class" /\ vec.sym = "headers"
            /\ br' = Skip(sizes, 1) /\ br_cur_base' = table.br /\ locals' = now
            /\ parsed' = [parsed EXCEPT !.state_files[locals.sf] = f]
            /\ pc' = "block_header"
  BY DEF ParseHl1, Return, readers, FileNow
<1>4. ReadersOK'
  <2> HIDE DEF table, sizes
  <2>1. br' \in Reader(save) /\ br_cur_base' \in Reader(save)
    BY <1>1, <1>3, AstrayOK DEF ParseInv, ReadersOK
  <2>2. CASE locals' = locals
    BY <1>3, <2>1, <2>2 DEF ParseInv, ReadersOK
  <2>3. CASE locals' = now
    BY <1>2, <1>3, <2>1, <2>3 DEF ParseInv, ReadersOK
  <2> HIDE DEF now
  <2> QED
    BY <1>3, <2>2, <2>3
<1>5. CASE pc' = "parsed"
  <2> HIDE DEF table, sizes, vec, f, now
  <2>1. err' # "none" /\ IsParsed(parsed')
    BY <1>3, <1>5 DEF ParseInv
  <2> QED
    BY <1>4, <1>5, <2>1, Fails DEF ParseInv
<1>6. CASE pc' # "parsed"
  <2>1. /\ vec.is = "class" /\ vec.sym = "headers" /\ locals' = now
        /\ parsed' = [parsed EXCEPT !.state_files[locals.sf] = f] /\ pc' = "block_header"
    <3> HIDE DEF table, sizes, vec, f, now
    <3> QED
      BY <1>3, <1>6
  <2>2. vec.val \in Seq(Header)
    <3>1. Fits(vec)
      <4> HIDE DEF sizes
      <4> QED
        BY <1>1, <2>1, AheadOK DEF ParseInv, ReadersOK
    <3> HIDE DEF vec
    <3> QED
      BY <2>1, <3>1, FitsIs
  <2> HIDE DEF vec
  <2>3. locals'.sf = locals.sf /\ locals'.k = 1
    BY <2>1 DEF ParseInv, ReadersOK
  <2>4. IsFile(FileNow) /\ Fresh(FileNow) /\ FileNow.type = ".hl1"
    BY <1>3 DEF ParseInv, NowOK, IsParsed, FileNow, InFile, FileType
  <2>5. /\ DOMAIN f = FileField /\ f.type = FileNow.type
        /\ f.headers = vec.val /\ f.blocks = FileNow.blocks
    BY <2>4 DEF IsFile, FileField
  <2> HIDE DEF f
  <2>6. IsFile(f)
    BY <2>2, <2>4, <2>5 DEF IsFile
  <2>7. HeadersRead(logged, locals.sf, f, 0)
    <3>1. \A b \in Blocks : HeaderSound(f, b) /\ Unread(f.blocks[b])
      BY <2>4, <2>5 DEF Fresh, HeaderSound
    <3>2. HeadersTold(logged, locals.sf, f, 0)
      <4>1. \A h \in DOMAIN f.headers : ~(h <= 0)
        BY <2>2, <2>5
      <4> QED
        BY <4>1 DEF HeadersTold
    <3> QED
      BY <3>1, <3>2 DEF HeadersRead
  <2>8. pc \in InFile /\ pc' \in InFile
    BY <1>3, <2>1 DEF InFile
  <2>9. /\ IsParsed(parsed') /\ OthersOK' /\ DoneOK'
        /\ (locals.sf \in DOMAIN parsed.state_files)' /\ FileNow' = f
    BY <1>3, <2>1, <2>3, <2>6, <2>8, GoesOn
  <2>10. NowOK'
    BY <1>3, <2>1, <2>3, <2>4, <2>5, <2>7, <2>9 DEF NowOK, InFile, FileType
  <2> QED
    BY <1>4, <2>9, <2>10 DEF ParseInv
<1> QED
  BY <1>5, <1>6

\* A header is something said, or it is sound.
LEMMA HeaderRead ==
    ASSUME NEW l1, NEW l2, l1 \subseteq l2, NEW sf, NEW f, IsFile(f), NEW k \in Nat, k # 0,
           HeadersRead(l1, sf, f, k - 1), k \in DOMAIN f.headers,
           NEW b \in Blocks, b = f.headers[k].name, ~f.blocks[b].header_parsed,
           NEW block, DOMAIN block = BlockField, Unread(block),
           Told(l2, sf, b, 0) \/ block.header_parsed,
           block.header_parsed =>
              /\ b \in Handled /\ block.vec_idx \in DOMAIN f.headers
              /\ b = "Entities" => /\ block.count \in Nat /\ DOMAIN block.table = 1..block.count
                                   /\ \A i \in 1..block.count : block.table[i] \in Info,
           NEW g, g.headers = f.headers, g.blocks[b] = block,
           \A c \in Blocks : c # b => g.blocks[c] = f.blocks[c]
    PROVE  HeadersRead(l2, sf, g, k)
<1>2. ASSUME NEW c \in Blocks PROVE HeaderSound(g, c) /\ Unread(g.blocks[c])
  BY DEF HeadersRead, HeaderSound
<1>3. ASSUME NEW h \in DOMAIN g.headers, h <= k, g.headers[h].loc # -1
      PROVE  \/ Told(l2, sf, g.headers[h].name, 0)
             \/ g.headers[h].name \in Blocks /\ g.blocks[g.headers[h].name].header_parsed
  <2>1. CASE h = k
    BY <2>1
  <2>2. CASE h # k
    <3>1. h <= k - 1
      BY <1>3, <2>2 DEF IsFile
    <3>2. \/ Told(l1, sf, f.headers[h].name, 0)
          \/ f.headers[h].name \in Blocks /\ f.blocks[f.headers[h].name].header_parsed
      BY <1>3, <3>1 DEF HeadersRead, HeadersTold
    <3> QED
      BY <3>2, ToldOK
  <2> QED
    BY <2>1, <2>2
<1> QED
  BY <1>2, <1>3 DEF HeadersRead, HeadersTold

LEMMA BlockHeaderOK ==
    ASSUME save \in Saves, NEW r \in Reader(save), NEW b, NEW block, DOMAIN block = BlockField,
           NEW header, header = BlockHeader(b, r, block)
    PROVE  /\ DOMAIN header.block = BlockField
           /\ Unread(block) => Unread(header.block)
           /\ header.block.vec_idx = block.vec_idx
           /\ header.block.header_parsed = block.header_parsed
           /\ header.block.items = block.items
           /\ header.ok /\ b = "Entities" =>
                 /\ header.block.count \in Nat
                 /\ DOMAIN header.block.table = 1..header.block.count
                 /\ \A i \in 1..header.block.count : header.block.table[i] \in Info
<1> DEFINE n    == Num(r, 1)
           good == Restorables(Skip(r, 1), "ETABLE", n)
           table == Restored(Skip(r, 1), good, n)
<1>1. n \in Nat /\ Skip(r, 1) \in Reader(save)
  BY NumOK, SkipOK
<1>2. DOMAIN table = 1..n
  <2> HIDE DEF good, n
  <2> QED
    BY DEF Restored
<1>3. ASSUME good = n, NEW i \in 1..n PROVE table[i] \in Info
  <2>1. i \in 1..good
    BY <1>3
  <2> HIDE DEF n
  <2>2. /\ table[i] = Ahead(Skip(r, 1), i).val
        /\ Ahead(Skip(r, 1), i).sym = "ETABLE" /\ Fits(Ahead(Skip(r, 1), i))
    BY <1>1, <2>1, ArrayWhole
  <2> QED
    BY <2>2, FitsIs
<1>4. /\ \/ header.block = block
         \/ header.block = [block EXCEPT !.version = n]
         \/ header.block = [block EXCEPT !.count = n]
         \/ header.block = [block EXCEPT !.count = n, !.table = table]
      /\ header.ok /\ b = "Entities" =>
            good = n /\ header.block = [block EXCEPT !.count = n, !.table = table]
  BY DEF BlockHeader
<1> HIDE DEF n, good, table
<1>5. /\ DOMAIN header.block = BlockField
      /\ header.block.vec_idx = block.vec_idx
      /\ header.block.header_parsed = block.header_parsed
      /\ header.block.body_parsed = block.body_parsed
      /\ header.block.items = block.items
      /\ header.block.queue = block.queue
  BY <1>4 DEF BlockField
<1>6. ASSUME header.ok, b = "Entities" PROVE header.block.count = n /\ header.block.table = table
  BY <1>4, <1>6 DEF BlockField
<1> QED
  BY <1>1, <1>2, <1>3, <1>4, <1>5, <1>6 DEF Unread

LEMMA RestoreBlockHeaderOK ==
    ASSUME ParseInv, RestoreBlockHeader
    PROVE  ParseInv'
<1> DEFINE k      == locals.k
           h      == FileNow.headers[k]
           r      == JmpRel(br_cur_base, h.loc)
           block  == [FileNow.blocks[h.name] EXCEPT !.vec_idx = k]
           header == BlockHeader(h.name, r, block)
           Says(b) == \E what : Log(b, 0, what)
           Sets(new) == parsed' = [parsed EXCEPT !.state_files[locals.sf] =
                                      WithBlock(FileNow, h.name, new)]
<1>1. /\ pc = "block_header" /\ pc' = "block_header" /\ k <= Len(FileNow.headers)
      /\ locals' = [locals EXCEPT !.k = @ + 1] /\ UNCHANGED <<save, br_cur_base>>
  BY DEF RestoreBlockHeader, FileNow, Sf
<1>2. /\ locals.sf \in DOMAIN parsed.state_files /\ IsFile(FileNow) /\ FileNow.type = ".hl1"
      /\ k \in Nat /\ k # 0 /\ HeadersRead(logged, locals.sf, FileNow, k - 1)
  BY <1>1 DEF ParseInv, NowOK, ReadersOK, IsParsed, FileNow, InFile, FileType
<1>3. k \in DOMAIN FileNow.headers /\ h \in Header
  BY <1>1, <1>2 DEF IsFile
<1>4. \/ h.name \notin Blocks /\ Says(h.name) /\ UNCHANGED <<br, parsed>>
      \/ h.name \in Blocks /\ h.loc = -1 /\ UNCHANGED <<br, parsed, logged>>
      \/ h.name \in Blocks /\ h.loc # -1 /\ FileNow.blocks[h.name].header_parsed
         /\ UNCHANGED <<br, parsed>> /\ Says(h.name)
      \/ h.name \in Blocks /\ h.loc # -1 /\ ~FileNow.blocks[h.name].header_parsed
         /\ Says(h.name) /\ br' \in {br, r} /\ Sets(block)
      \/ h.name \in Blocks /\ h.loc # -1 /\ ~FileNow.blocks[h.name].header_parsed
         /\ h.name \in Handled /\ header.ok /\ br' = r /\ UNCHANGED logged
         /\ Sets([header.block EXCEPT !.header_parsed = TRUE])
      \/ h.name \in Blocks /\ h.loc # -1 /\ ~FileNow.blocks[h.name].header_parsed
         /\ Says(h.name) /\ br' \in Astray(r) /\ Sets(header.block)
  BY DEF RestoreBlockHeader, SetBlock, WithBlock, FileNow, Sf, HeaderKnown
<1>5. ASSUME h.loc # -1 PROVE r \in Reader(save)
  <2>1. h.loc \in Nat
    BY <1>3, <1>5 DEF Header
  <2>2. save \in Saves /\ br_cur_base \in Reader(save)
    BY DEF ParseInv, ReadersOK
  <2> HIDE DEF h, k
  <2>3. JmpRel(br_cur_base, h.loc) \in Reader(save)
    BY <2>1, <2>2, JmpRelOK
  <2> QED
    BY <2>3
<1>6. ASSUME NEW b, Says(b) PROVE Told(logged', locals.sf, b, 0) /\ logged \subseteq logged'
  BY <1>6, LogTells
<1>7. logged \subseteq logged'
  <2> HIDE DEF h, r, block, header, Sets, Says
  <2> QED
    BY <1>4, <1>6
<1>8. ReadersOK'
  <2> HIDE DEF h, r, block, header, Sets, Says
  <2>1. br' \in Reader(save)
    BY <1>4, <1>5, AstrayOK DEF ParseInv, ReadersOK
  <2> QED
    BY <1>1, <2>1 DEF ParseInv, ReadersOK
<1>9. pc \in InFile /\ pc' \in InFile /\ locals'.sf = locals.sf /\ locals'.k = k + 1
  BY <1>1 DEF ParseInv, ReadersOK, InFile
<1>10. ASSUME parsed' = parsed,
              h.loc = -1 \/ Told(logged', locals.sf, h.name, 0)
       PROVE  ParseInv'
  <2>1. /\ IsParsed(parsed') /\ OthersOK' /\ DoneOK'
        /\ (locals.sf \in DOMAIN parsed.state_files)' /\ FileNow' = FileNow
    BY <1>7, <1>9, <1>10, GoesOnSame
  <2>2. HeadersRead(logged', locals.sf, FileNow, k)
    <3>1. HeadersTold(logged', locals.sf, FileNow, k - 1)
      BY <1>2, <1>7, HeadersToldOK DEF HeadersRead
    <3>2. \A i \in DOMAIN FileNow.headers : i <= k => i <= k - 1 \/ i = k
      BY <1>2 DEF IsFile
    <3>3. HeadersTold(logged', locals.sf, FileNow, k)
      BY <1>10, <3>1, <3>2 DEF HeadersTold
    <3> QED
      BY <1>2, <3>3 DEF HeadersRead
  <2>3. NowOK'
    <3>1. locals'.k # 0 /\ locals'.k - 1 = k
      BY <1>2, <1>9
    <3> QED
      BY <1>1, <1>2, <1>9, <2>1, <2>2, <3>1 DEF NowOK, InFile, FileType
  <2> QED
    BY <1>8, <2>1, <2>3 DEF ParseInv
<1>11. ASSUME h.name \in Blocks, NEW new, Sets(new),
              DOMAIN new = BlockField, Unread(new), ~FileNow.blocks[h.name].header_parsed,
              Told(logged', locals.sf, h.name, 0) \/ new.header_parsed,
              new.header_parsed =>
                 /\ h.name \in Handled /\ new.vec_idx \in DOMAIN FileNow.headers
                 /\ h.name = "Entities" => /\ new.count \in Nat /\ DOMAIN new.table = 1..new.count
                                           /\ \A i \in 1..new.count : new.table[i] \in Info
       PROVE  ParseInv'
  <2> DEFINE g == WithBlock(FileNow, h.name, new)
  <2>1. /\ IsFile(g) /\ g.type = FileNow.type
        /\ g.headers = FileNow.headers /\ g.blocks[h.name] = new
        /\ \A c \in Blocks : c # h.name => g.blocks[c] = FileNow.blocks[c]
    <3>1. DOMAIN new = BlockField /\ h.name \in Blocks /\ IsFile(FileNow)
      BY <1>2, <1>11
    <3> HIDE DEF h, k
    <3> QED
      BY <3>1, BlockChanged
  <2>2. parsed' = [parsed EXCEPT !.state_files[locals.sf] = g]
    BY <1>11
  <2> HIDE DEF g
  <2>5. HeadersRead(logged', locals.sf, g, k)
    BY <1>2, <1>3, <1>7, <1>11, <2>1, HeaderRead
  <2>3. /\ IsParsed(parsed') /\ OthersOK' /\ DoneOK'
        /\ (locals.sf \in DOMAIN parsed.state_files)' /\ FileNow' = g
    BY <1>7, <1>9, <2>1, <2>2, GoesOn
  <2>4. NowOK'
    <3>1. locals'.k # 0 /\ locals'.k - 1 = k
      BY <1>2, <1>9
    <3> QED
      BY <1>1, <1>2, <1>9, <2>1, <2>3, <2>5, <3>1 DEF NowOK, InFile, FileType
  <2> QED
    BY <1>8, <2>3, <2>4 DEF ParseInv
<1>12. ASSUME h.name \in Blocks
       PROVE  /\ DOMAIN block = BlockField /\ Unread(block) /\ block.vec_idx = k
              /\ block.header_parsed = FileNow.blocks[h.name].header_parsed
  <2>1. DOMAIN FileNow.blocks[h.name] = BlockField /\ Unread(FileNow.blocks[h.name])
    BY <1>2, <1>12 DEF IsFile, HeadersRead
  <2> HIDE DEF h
  <2> QED
    BY <2>1 DEF BlockField, Unread
<1>13. ASSUME h.name \in Blocks, h.loc # -1
       PROVE  /\ DOMAIN header.block = BlockField /\ Unread(header.block)
              /\ header.block.vec_idx = k
              /\ header.block.header_parsed = FileNow.blocks[h.name].header_parsed
              /\ header.ok /\ h.name = "Entities" =>
                    /\ header.block.count \in Nat
                    /\ DOMAIN header.block.table = 1..header.block.count
                    /\ \A i \in 1..header.block.count : header.block.table[i] \in Info
  <2>1. r \in Reader(save) /\ save \in Saves
    BY <1>5, <1>13 DEF ParseInv, ReadersOK
  <2>2. DOMAIN block = BlockField /\ Unread(block) /\ block.vec_idx = k
        /\ block.header_parsed = FileNow.blocks[h.name].header_parsed
    BY <1>12, <1>13
  <2> HIDE DEF h, r, block
  <2> QED
    BY <2>1, <2>2, BlockHeaderOK
<1>14. CASE h.name \in Blocks /\ h.loc # -1 /\ ~FileNow.blocks[h.name].header_parsed
            /\ Says(h.name) /\ br' \in {br, r} /\ Sets(block)
  <2> HIDE DEF Says, Sets, block
  <2> QED
    BY <1>6, <1>11, <1>12, <1>14
<1>15. CASE h.name \in Blocks /\ h.loc # -1 /\ ~FileNow.blocks[h.name].header_parsed
            /\ h.name \in Handled /\ header.ok /\ br' = r /\ UNCHANGED logged
            /\ Sets([header.block EXCEPT !.header_parsed = TRUE])
  <2> DEFINE new == [header.block EXCEPT !.header_parsed = TRUE]
  <2>1. /\ DOMAIN new = BlockField /\ Unread(new) /\ new.header_parsed
        /\ new.vec_idx = k /\ new.count = header.block.count /\ new.table = header.block.table
    <3> HIDE DEF header
    <3> QED
      BY <1>13, <1>15 DEF BlockField, Unread
  <2> HIDE DEF Sets, header, new, h
  <2>2. h.name = "Entities" => /\ new.count \in Nat /\ DOMAIN new.table = 1..new.count
                               /\ \A i \in 1..new.count : new.table[i] \in Info
    BY <1>13, <1>15, <2>1
  <2>3. Sets(new)
    BY <1>15 DEF new
  <2> QED
    BY <1>3, <1>11, <1>15, <2>1, <2>2, <2>3
<1>16. CASE h.name \in Blocks /\ h.loc # -1 /\ ~FileNow.blocks[h.name].header_parsed
            /\ Says(h.name) /\ br' \in Astray(r) /\ Sets(header.block)
  <2> HIDE DEF Says, Sets, header
  <2> QED
    BY <1>6, <1>11, <1>13, <1>16
<1> HIDE DEF Says, Sets, header, block, r, h
<1> QED
  BY <1>4, <1>6, <1>10, <1>14, <1>15, <1>16

LEMMA RestoreSaveTablesOK ==
    ASSUME ParseInv, RestoreSaveTables
    PROVE  ParseInv'
<1> DEFINE base   == JmpRel(br_cur_base, locals.headers_size)
           header == RestoredClass(base, "Save Header", "SAVE_HEADER")
           levels == Restorables(Skip(base, 1), "ADJACENCY", header.connections)
           styled == Skip(base, 1 + header.connections)
           styles == Restorables(styled, "LIGHTSTYLE", header.styles)
           f1 == [FileNow EXCEPT !.save_header = header]
           f2 == [FileNow EXCEPT !.save_header = header,
                                 !.adjacent_levels =
                                     Restored(Skip(base, 1), levels, header.connections),
                                 !.light_styles =
                                     Restored(styled, IF levels = header.connections
                                                      THEN styles ELSE 0, header.styles)]
<1>1. /\ pc = "block_header" /\ locals.k > Len(FileNow.headers)
      /\ UNCHANGED <<save, locals, logged>>
      /\ \/ pc' = "parsed" /\ err' # "none" /\ br' = base /\ UNCHANGED <<br_cur_base, parsed>>
         \/ /\ header \in Unrestored /\ pc' = "parsed" /\ err' # "none" /\ br' \in Astray(base)
            /\ br_cur_base' = base
            /\ parsed' = [parsed EXCEPT !.state_files[locals.sf] = f1]
         \/ /\ header \notin Unrestored /\ pc' = "parsed" /\ err' # "none" /\ br' \in Astray(base)
            /\ br_cur_base' = base
            /\ parsed' = [parsed EXCEPT !.state_files[locals.sf] = f2]
         \/ /\ header \notin Unrestored /\ pc' = "bodies" /\ br' = Skip(styled, styles)
            /\ br_cur_base' = base /\ styles = header.styles
            /\ parsed' = [parsed EXCEPT !.state_files[locals.sf] = f2]
  BY DEF RestoreSaveTables, Return, Rebase, FileNow, Sf
<1>2. base \in Reader(save)
  BY JmpRelOK DEF ParseInv, ReadersOK
<1>3. ASSUME header \notin Unrestored
      PROVE  header \in [connections : Nat, styles : Nat] /\ header \notin NotWhole
  <2> HIDE DEF base
  <2>1. /\ header \notin NotWhole /\ header = Ahead(base, 1).val
        /\ Restorable(base, "Save Header")
    BY <1>2, <1>3, RestoredClassOK DEF ParseInv, ReadersOK
  <2> HIDE DEF header
  <2>2. Fits(Ahead(base, 1)) /\ Ahead(base, 1).sym = "Save Header"
    BY <1>2, <2>1, RestorableOK DEF ParseInv, ReadersOK
  <2> QED
    BY <2>1, <2>2, FitsIs
<1>4. ReadersOK'
  <2>1. ASSUME header \notin Unrestored, styles = header.styles
        PROVE  Skip(styled, styles) \in Reader(save)
    <3>1. header.connections \in Nat /\ header.styles \in Nat /\ 1 + header.connections \in Nat
      <4> HIDE DEF header
      <4> QED
        BY <1>3, <2>1
    <3>2. styled \in Reader(save)
      <4> HIDE DEF base, header
      <4> QED
        BY <1>2, <3>1, SkipOK DEF ParseInv, ReadersOK
    <3> HIDE DEF base, header, styled, styles
    <3> QED
      BY <2>1, <3>1, <3>2, SkipOK DEF ParseInv, ReadersOK
  <2> HIDE DEF base, header, levels, styled, styles, f1, f2
  <2>2. br' \in Reader(save) /\ br_cur_base' \in Reader(save)
    BY <1>1, <1>2, <2>1, AstrayOK DEF ParseInv, ReadersOK
  <2> QED
    BY <1>1, <2>2 DEF ParseInv, ReadersOK
<1>5. /\ locals.sf \in DOMAIN parsed.state_files /\ IsFile(FileNow) /\ FileNow.type = ".hl1"
      /\ locals.k \in Nat /\ locals.k # 0
      /\ HeadersRead(logged, locals.sf, FileNow, locals.k - 1)
  BY <1>1 DEF ParseInv, NowOK, ReadersOK, IsParsed, FileNow, InFile, FileType
<1>6. ASSUME NEW f, f = f1 \/ f = f2
      PROVE  /\ IsFile(f)
             /\ f.type = FileNow.type /\ f.save_header = header
             /\ f.headers = FileNow.headers /\ f.blocks = FileNow.blocks
  <2> HIDE DEF header
  <2>1. /\ DOMAIN f = FileField /\ f.type = FileNow.type /\ f.save_header = header
        /\ f.headers = FileNow.headers /\ f.blocks = FileNow.blocks
    <3>1. CASE f = f1
      BY <1>5, <3>1 DEF IsFile, FileField
    <3>2. CASE f = f2
      BY <1>5, <3>2 DEF IsFile, FileField
    <3> QED
      BY <1>6, <3>1, <3>2
  <2> QED
    BY <1>5, <2>1 DEF IsFile
<1>7. IsParsed(parsed')
  <2> HIDE DEF base, header, levels, styled, styles, f1, f2
  <2>1. IsFile(f1) /\ IsFile(f2)
    BY <1>6
  <2> QED
    BY <1>1, <1>5, <2>1, FileChanged DEF ParseInv
<1>8. CASE pc' = "parsed"
  <2>1. err' # "none"
    <3> HIDE DEF base, header, levels, styled, styles, f1, f2
    <3> QED
      BY <1>1, <1>8
  <2> QED
    BY <1>4, <1>7, <1>8, <2>1, Fails DEF ParseInv
<1>9. CASE pc' # "parsed"
  <2> HIDE DEF base, levels, styled, styles, f1, f2, header
  <2>1. /\ header \notin NotWhole /\ pc' = "bodies"
        /\ parsed' = [parsed EXCEPT !.state_files[locals.sf] = f2]
    BY <1>1, <1>3, <1>9
  <2>2. /\ IsFile(f2) /\ f2.type = ".hl1" /\ f2.save_header = header
        /\ f2.headers = FileNow.headers /\ f2.blocks = FileNow.blocks
    BY <1>5, <1>6
  <2>3. BodiesRead(logged, locals.sf, f2, 0)
    <3>1. \A h \in DOMAIN FileNow.headers : h <= locals.k - 1
      BY <1>1, <1>5 DEF IsFile
    <3>2. HeadersTold(logged, locals.sf, f2, Len(f2.headers))
      BY <1>5, <2>2, <3>1 DEF HeadersRead, HeadersTold
    <3>3. \A b \in Blocks : HeaderSound(f2, b) /\ Unread(f2.blocks[b])
      BY <1>5, <2>2 DEF HeadersRead, HeaderSound
    <3>4. \A j \in DOMAIN BlockOrder : ~(j <= 0) /\ BlockOrder[j] \in Blocks
      BY DEF BlockOrder, Blocks
    <3>5. f2.save_header # Nothing
      BY <2>1, <2>2 DEF NotWhole
    <3> QED
      BY <3>2, <3>3, <3>4, <3>5 DEF BodiesRead
  <2>4. pc \in InFile /\ pc' \in InFile /\ locals' = locals /\ logged' = logged
    BY <1>1, <2>1 DEF InFile
  <2>5. /\ IsParsed(parsed') /\ OthersOK' /\ DoneOK'
        /\ (locals.sf \in DOMAIN parsed.state_files)' /\ FileNow' = f2
    BY <2>1, <2>2, <2>4, GoesOn
  <2>6. NowOK'
    BY <2>1, <2>2, <2>3, <2>4, <2>5 DEF NowOK, InFile, FileType
  <2> QED
    BY <1>4, <2>5, <2>6 DEF ParseInv
<1> QED
  BY <1>8, <1>9

LEMMA RestoreBlockBodiesOK ==
    ASSUME ParseInv, RestoreBlockBodies
    PROVE  ParseInv'
<1> DEFINE split == SplitSkip(br, locals.bodies_size)
<1>1. /\ pc = "bodies" /\ pc' = "block_body" /\ br' = split.after
      /\ locals' = [locals EXCEPT !.k = 1, !.base = split.chunk, !.after_bodies = split.after]
      /\ UNCHANGED <<save, br_cur_base, parsed, logged>>
  BY DEF RestoreBlockBodies
<1>2. split.chunk \in Reader(save) /\ split.after \in Reader(save)
  BY SplitSkipOK DEF ParseInv, ReadersOK
<1> HIDE DEF split
<1>3. ReadersOK' /\ locals'.sf = locals.sf /\ locals'.k = 1
  BY <1>1, <1>2 DEF ParseInv, ReadersOK
<1>4. pc \in InFile /\ pc' \in InFile
  BY <1>1 DEF InFile
<1>5. /\ IsParsed(parsed') /\ OthersOK' /\ DoneOK'
      /\ (locals.sf \in DOMAIN parsed.state_files)' /\ FileNow' = FileNow
  BY <1>1, <1>3, <1>4, GoesOnSame
<1>6. FileNow.type = ".hl1" /\ BodiesRead(logged, locals.sf, FileNow, 0)
  BY <1>1 DEF ParseInv, NowOK, InFile, FileType
<1>7. NowOK'
  <2>1. locals'.k # 0 /\ locals'.k - 1 = 0
    BY <1>3
  <2> QED
    BY <1>1, <1>3, <1>5, <1>6, <2>1 DEF NowOK, InFile, FileType
<1> QED
  BY <1>3, <1>5, <1>7 DEF ParseInv

LEMMA EndHl1OK ==
    ASSUME ParseInv, EndHl1
    PROVE  ParseInv'
<1>1. /\ pc = "block_body" /\ locals.k > Len(BlockOrder)
      /\ UNCHANGED <<save, br_cur_base, parsed, logged>>
      /\ \/ pc' = "parsed" /\ err' # "none" /\ UNCHANGED <<br, locals>>
         \/ NextStateFile
  BY DEF EndHl1, Return
<1>2. CASE NextStateFile
  <2>1. /\ FileNow.type = ".hl1" /\ locals.k \in Nat
        /\ BodiesRead(logged, locals.sf, FileNow, locals.k - 1)
    BY <1>1 DEF ParseInv, NowOK, InFile, FileType, ReadersOK
  <2>2. /\ Len(BlockOrder) = 8
        /\ \A j \in DOMAIN BlockOrder : j <= locals.k - 1 /\ j <= Len(BlockOrder)
    BY <1>1, <2>1 DEF BlockOrder
  <2>3. BodiesRead(logged, locals.sf, FileNow, Len(BlockOrder))
    BY <2>1, <2>2 DEF BodiesRead
  <2>4. FileTold(logged, locals.sf, FileNow)
    BY <2>1, <2>3 DEF FileTold
  <2>5. pc \in InFile
    BY <1>1 DEF InFile
  <2> QED
    BY <1>1, <1>2, <2>4, <2>5, NextStateFileOK DEF ParseInv, FileNow
<1>3. CASE ~NextStateFile
  <2>1. ReadersOK' /\ IsParsed(parsed')
    BY <1>1, <1>3 DEF ParseInv, ReadersOK
  <2> QED
    BY <1>1, <1>3, <2>1, Fails DEF ParseInv
<1> QED
  BY <1>2, <1>3

LEMMA OutOfMemoryOK ==
    ASSUME ParseInv, OutOfMemory
    PROVE  ParseInv'
<1>1. /\ pc' = "parsed" /\ err' # "none"
      /\ UNCHANGED <<save, br, br_cur_base, st, locals, parsed, logged>>
  BY DEF OutOfMemory, Return, readers
<1>2. ReadersOK' /\ IsParsed(parsed')
  BY <1>1 DEF ParseInv, ReadersOK
<1> QED
  BY <1>1, <1>2, Fails DEF ParseInv

\* An array that is restored, of classes the collection knows.
LEMMA ArrayOK ==
    ASSUME save \in Saves, NEW r \in Reader(save), NEW dm, NEW sym, NEW n \in Nat,
           Array(r, dm, sym, n).ok
    PROVE  /\ DOMAIN Array(r, dm, sym, n).items = 1..n
           /\ \A k \in 1..n : Array(r, dm, sym, n).items[k] \notin NotWhole
           /\ Restorables(r, sym, n) = n
<1>1. Restorables(r, sym, n) = n
  BY DEF Array
<1>2. Array(r, dm, sym, n).items = Restored(r, Restorables(r, sym, n), n)
  BY DEF Array
<1>3. DOMAIN Restored(r, Restorables(r, sym, n), n) = 1..n
  BY DEF Restored
<1> QED
  BY <1>1, <1>2, <1>3, ArrayWhole

\* What a body makes of a block.
BodyMakes(body, b, block) ==
    /\ DOMAIN body.block = BlockField
    /\ body.block.header_parsed = block.header_parsed /\ body.block.vec_idx = block.vec_idx
    /\ body.ok => /\ body.block.version = BlockVersion
                  /\ \A i \in DOMAIN body.block.items : body.block.items[i] \notin NotWhole
                  /\ b = "EventQueue" => body.block.queue \notin NotWhole

LEMMA TemplatesBodyOK ==
    ASSUME save \in Saves, NEW r \in Reader(save), NEW block, DOMAIN block = BlockField
    PROVE  BodyMakes(TemplatesBody(r, block), "Templates", block)
<1> DEFINE dm    == "TemplateEntityData_t"
           n     == Num(r, 2)
           array == Array(Skip(r, 2), dm, dm, n)
           tried == 1 + Restorables(Skip(r, 2), dm, n)
           items == [k \in DOMAIN array.items |-> IF k <= tried THEN array.items[k] ELSE Nothing]
           body  == TemplatesBody(r, block)
<1>1. n \in Nat /\ Skip(r, 2) \in Reader(save)
  BY NumOK, SkipOK
<1>2. \/ body.block = block /\ ~body.ok
      \/ /\ block.version = BlockVersion /\ body.block = [block EXCEPT !.items = items]
         /\ body.ok => array.ok
  BY DEF TemplatesBody
<1>3. ASSUME array.ok, NEW i \in DOMAIN items PROVE items[i] \notin NotWhole
  <2>1. /\ DOMAIN array.items = 1..n /\ \A k \in 1..n : array.items[k] \notin NotWhole
        /\ tried = 1 + n
    <3> HIDE DEF n
    <3> QED
      BY <1>1, <1>3, ArrayOK
  <2> HIDE DEF n, array, tried
  <2>2. items[i] = array.items[i] /\ i \in 1..n
    BY <1>1, <1>3, <2>1
  <2> QED
    BY <2>1, <2>2
<1> HIDE DEF n, array, items, body
<1>4. CASE body.block = block /\ ~body.ok
  BY <1>4 DEF BodyMakes, body
<1>5. CASE /\ block.version = BlockVersion /\ body.block = [block EXCEPT !.items = items]
           /\ body.ok => array.ok
  <2>1. /\ DOMAIN body.block = BlockField
        /\ body.block.header_parsed = block.header_parsed /\ body.block.vec_idx = block.vec_idx
        /\ body.block.version = BlockVersion /\ body.block.items = items
    BY <1>5 DEF BlockField
  <2> QED
    BY <1>3, <1>5, <2>1 DEF BodyMakes, body
<1> QED
  BY <1>2, <1>4, <1>5

LEMMA EventQueueBodyOK ==
    ASSUME save \in Saves, NEW r \in Reader(save), NEW block, DOMAIN block = BlockField
    PROVE  BodyMakes(EventQueueBody(r, block), "EventQueue", block)
<1> DEFINE queue == RestoredClass(r, "EventQueue", "CEventQueue")
           array == Array(Skip(r, 1), "EventQueuePrioritizedEvent_t", "PEvent", queue)
           body  == EventQueueBody(r, block)
<1>1. \/ body.block = block /\ ~body.ok
      \/ body.block = [block EXCEPT !.queue = queue] /\ ~body.ok
      \/ /\ block.version = BlockVersion /\ queue \notin Unrestored
         /\ body.block = [block EXCEPT !.queue = queue, !.items = array.items]
         /\ body.ok => array.ok
  BY DEF EventQueueBody
<1>2. ASSUME queue \notin Unrestored PROVE queue \in Nat /\ queue \notin NotWhole
  <2>1. /\ queue \notin NotWhole /\ queue = Ahead(r, 1).val
        /\ Restorable(r, "EventQueue")
    BY <1>2, RestoredClassOK
  <2> HIDE DEF queue
  <2>2. Fits(Ahead(r, 1)) /\ Ahead(r, 1).sym = "EventQueue"
    BY <2>1, RestorableOK
  <2> QED
    BY <2>1, <2>2, FitsIs
<1>3. ASSUME queue \notin Unrestored, array.ok, NEW i \in DOMAIN array.items
      PROVE  array.items[i] \notin NotWhole
  <2>1. queue \in Nat /\ Skip(r, 1) \in Reader(save)
    BY <1>2, <1>3, SkipOK
  <2> HIDE DEF queue
  <2> QED
    BY <1>3, <2>1, ArrayOK
<1> HIDE DEF queue, array, body
<1>4. CASE body.block = block /\ ~body.ok
  BY <1>4 DEF BodyMakes, body
<1>5. CASE body.block = [block EXCEPT !.queue = queue] /\ ~body.ok
  <2>1. /\ DOMAIN body.block = BlockField
        /\ body.block.header_parsed = block.header_parsed /\ body.block.vec_idx = block.vec_idx
    BY <1>5 DEF BlockField
  <2> QED
    BY <1>5, <2>1 DEF BodyMakes, body
<1>6. CASE /\ block.version = BlockVersion /\ queue \notin Unrestored
           /\ body.block = [block EXCEPT !.queue = queue, !.items = array.items]
           /\ body.ok => array.ok
  <2>1. /\ DOMAIN body.block = BlockField
        /\ body.block.header_parsed = block.header_parsed /\ body.block.vec_idx = block.vec_idx
        /\ body.block.version = BlockVersion /\ body.block.items = array.items
        /\ body.block.queue = queue
    BY <1>6 DEF BlockField
  <2> QED
    BY <1>2, <1>3, <1>6, <2>1 DEF BodyMakes, body
<1> QED
  BY <1>1, <1>4, <1>5, <1>6

LEMMA BlocksAre ==
    /\ DOMAIN BlockOrder = 1..8 /\ Len(BlockOrder) = 8 /\ BlockOrder[1] = "Entities"
    /\ \A j \in 1..8 : BlockOrder[j] \in Blocks /\ (BlockOrder[j] = "Entities" => j = 1)
    /\ \A i, j \in 1..8 : BlockOrder[i] = BlockOrder[j] => i = j
    /\ "Entities" \in Blocks /\ \A b \in Blocks : \E j \in 1..8 : b = BlockOrder[j]
BY DEF BlockOrder, Blocks

\* g is f, but for the body of b.
Kept(f, g, b) ==
    /\ g.headers = f.headers /\ g.save_header = f.save_header
    /\ \A c \in Blocks : c # b => g.blocks[c] = f.blocks[c]
    /\ g.blocks[b].header_parsed = f.blocks[b].header_parsed

\* One block more has been gone through.
LEMMA BodyRead ==
    ASSUME NEW l1, NEW l2, l1 \subseteq l2, NEW sf, NEW f, NEW k \in 1..8, NEW n, n = k - 1,
           BodiesRead(l1, sf, f, n),
           NEW g, Kept(f, g, BlockOrder[k]), HeaderSound(g, BlockOrder[k]), BodyTold(l2, sf, g, BlockOrder[k])
    PROVE  BodiesRead(l2, sf, g, k)
<1>1. \A c \in Blocks : HeaderSound(g, c)
  BY DEF Kept, BodiesRead, HeaderSound
<1>2. HeadersTold(l2, sf, g, Len(g.headers))
  <2>1. HeadersTold(l1, sf, g, Len(g.headers))
    <3>1. /\ HeadersTold(l1, sf, f, Len(f.headers)) /\ g.headers = f.headers
          /\ \A c \in Blocks : f.blocks[c].header_parsed => g.blocks[c].header_parsed
      BY DEF BodiesRead, Kept
    <3> QED
      BY <3>1 DEF HeadersTold
  <2> QED
    BY <2>1, HeadersToldOK
<1>3. ASSUME NEW j \in 1..8, j <= k PROVE BodyTold(l2, sf, g, BlockOrder[j])
  <2>1. CASE j = k
    BY <2>1
  <2>2. CASE j # k
    <3>1. /\ BlockOrder[j] # BlockOrder[k] /\ BlockOrder[j] \in Blocks
          /\ j <= n /\ j \in DOMAIN BlockOrder
      BY <1>3, <2>2, BlocksAre
    <3>2. BodyTold(l1, sf, f, BlockOrder[j])
      BY <3>1 DEF BodiesRead
    <3>3. BodyTold(l1, sf, g, BlockOrder[j])
      BY <3>1, <3>2 DEF Kept, BodyTold, HasBody
    <3> QED
      BY <3>3, BodyToldOK
  <2> QED
    BY <2>1, <2>2
<1>4. ASSUME NEW j \in 1..8, ~(j <= k) PROVE Unread(g.blocks[BlockOrder[j]])
  <2>1. /\ BlockOrder[j] # BlockOrder[k] /\ BlockOrder[j] \in Blocks
        /\ ~(j <= n) /\ j \in DOMAIN BlockOrder
    BY <1>4, BlocksAre
  <2> QED
    BY <2>1 DEF Kept, BodiesRead
<1>5. g.save_header # Nothing
  BY DEF Kept, BodiesRead
<1> QED
  BY <1>1, <1>2, <1>3, <1>4, <1>5, BlocksAre DEF BodiesRead

LEMMA RestoreBlockBodyOK ==
    ASSUME ParseInv, RestoreBlockBody
    PROVE  ParseInv'
<1> DEFINE k     == locals.k
           b     == BlockOrder[k]
           block == FileNow.blocks[b]
           loc   == FileNow.headers[block.vec_idx].body
           r     == JmpRel(locals.base, loc)
           body  == IF b = "Templates" THEN TemplatesBody(r, block) ELSE EventQueueBody(r, block)
           next  == locals' = [locals EXCEPT !.k = @ + 1] /\ pc' = pc
           items == [i \in 1..block.count |-> Nothing]
           Says  == \E what : Log(b, 0, what)
           Sets(new) == parsed' = [parsed EXCEPT !.state_files[locals.sf] =
                                      WithBlock(FileNow, b, new)]
<1>1. /\ pc = "block_body" /\ k <= Len(BlockOrder) /\ UNCHANGED <<save, br_cur_base>>
      /\ \/ ~HasBody(FileNow, b) /\ next /\ UNCHANGED <<br, parsed, logged>>
         \/ HasBody(FileNow, b) /\ Says /\ next /\ br' = r /\ UNCHANGED parsed
         \/ /\ HasBody(FileNow, b) /\ b = "Entities" /\ Sets([block EXCEPT !.items = items])
            /\ locals' = [locals EXCEPT !.i = 1] /\ pc' = "entity" /\ br' = r /\ UNCHANGED logged
         \/ /\ HasBody(FileNow, b) /\ b # "Entities" /\ body.ok /\ next
            /\ Sets([body.block EXCEPT !.body_parsed = TRUE]) /\ br' = r /\ UNCHANGED logged
         \/ /\ HasBody(FileNow, b) /\ b # "Entities" /\ next
            /\ Sets(body.block) /\ Says /\ br' \in Astray(r)
  BY DEF RestoreBlockBody, SetBlock, WithBlock, FileNow, Sf, HasBody, BodyReader
<1>2. /\ locals.sf \in DOMAIN parsed.state_files /\ IsFile(FileNow) /\ FileNow.type = ".hl1"
      /\ k \in Nat /\ k # 0 /\ BodiesRead(logged, locals.sf, FileNow, k - 1)
  BY <1>1 DEF ParseInv, NowOK, ReadersOK, IsParsed, FileNow, InFile, FileType
<1>3. k \in 1..8 /\ b \in Blocks /\ (b = "Entities" => k = 1) /\ (k = 1 => b = "Entities")
  <2>1. k <= 8
    BY <1>1, BlocksAre
  <2>2. k \in 1..8
    BY <1>2, <2>1
  <2> QED
    BY <2>2, BlocksAre
<1>4. /\ HeaderSound(FileNow, b) /\ Unread(block) /\ DOMAIN block = BlockField
  <2>1. k \in DOMAIN BlockOrder /\ ~(k <= k - 1)
    BY <1>3, BlocksAre
  <2> QED
    BY <1>2, <1>3, <2>1 DEF BodiesRead, IsFile
<1>5. ASSUME HasBody(FileNow, b) PROVE r \in Reader(save)
  <2>1. block.vec_idx \in DOMAIN FileNow.headers /\ loc # -1
    BY <1>4, <1>5 DEF HasBody, HeaderSound
  <2>2. FileNow.headers[block.vec_idx] \in Header
    <3> HIDE DEF block
    <3> QED
      BY <1>2, <2>1 DEF IsFile
  <2>3. loc \in Nat
    <3> HIDE DEF block
    <3> QED
      BY <2>1, <2>2 DEF Header
  <2>4. save \in Saves /\ locals.base \in Reader(save)
    BY DEF ParseInv, ReadersOK
  <2> HIDE DEF loc
  <2> QED
    BY <2>3, <2>4, JmpRelOK
<1>6. ASSUME Says PROVE Told(logged', locals.sf, b, 0) /\ logged \subseteq logged'
  BY <1>6, LogTells
<1>7. logged \subseteq logged'
  <2> HIDE DEF k, b, block, loc, r, body, next, items, Says, Sets
  <2> QED
    BY <1>1, <1>6
<1>8. ReadersOK'
  <2>1. /\ br' \in Reader(save) /\ UNCHANGED <<save, br_cur_base>>
        /\ next \/ locals' = [locals EXCEPT !.i = 1]
    <3> HIDE DEF k, b, block, loc, r, body, next, items, Says, Sets
    <3> QED
      BY <1>1, <1>5, AstrayOK DEF ParseInv, ReadersOK
  <2> QED
    BY <2>1 DEF ParseInv, ReadersOK
<1>9. pc \in InFile
  BY <1>1 DEF InFile
<1>10. ASSUME next, NEW g, FileNow' = g, g.type = ".hl1", BodiesRead(logged', locals.sf, g, k),
              /\ IsParsed(parsed') /\ OthersOK' /\ DoneOK'
              /\ (locals.sf \in DOMAIN parsed.state_files)'
       PROVE  ParseInv'
  <2>1. locals'.sf = locals.sf /\ locals'.k # 0 /\ locals'.k - 1 = k /\ pc' = "block_body"
    <3>1. /\ pc = "block_body"
          /\ locals' = [locals EXCEPT !.k = @ + 1] /\ pc' = pc
      BY <1>1, <1>10
    <3> QED
      BY <1>2, <3>1 DEF ParseInv, ReadersOK
  <2>2. NowOK'
    BY <1>10, <2>1 DEF NowOK, InFile, FileType
  <2> QED
    BY <1>8, <1>10, <2>2 DEF ParseInv
<1>11. ASSUME next PROVE locals'.sf = locals.sf /\ pc' \in InFile
  BY <1>9, <1>11 DEF ParseInv, ReadersOK
<1>12. ASSUME next, parsed' = parsed,
              ~HasBody(FileNow, b) \/ Told(logged', locals.sf, b, 0)
       PROVE  ParseInv'
  <2>1. /\ IsParsed(parsed') /\ OthersOK' /\ DoneOK'
        /\ (locals.sf \in DOMAIN parsed.state_files)' /\ FileNow' = FileNow
    BY <1>7, <1>9, <1>11, <1>12, GoesOnSame
  <2>2. BodyTold(logged', locals.sf, FileNow, b)
    BY <1>12 DEF BodyTold
  <2>3. BodiesRead(logged', locals.sf, FileNow, k)
    <3>1. b = BlockOrder[k] /\ k \in 1..8 /\ Kept(FileNow, FileNow, b)
      BY <1>3 DEF Kept
    <3> HIDE DEF k, b, block
    <3> QED
      BY <1>2, <1>4, <1>7, <2>2, <3>1, BodyRead
  <2> QED
    BY <1>2, <1>10, <1>12, <2>1, <2>3
<1>13. ASSUME next, b # "Entities", NEW new, Sets(new), DOMAIN new = BlockField,
              new.header_parsed = block.header_parsed, new.vec_idx = block.vec_idx,
              Told(logged', locals.sf, b, 0) \/ Entire(logged', locals.sf, b, new)
       PROVE  ParseInv'
  <2> DEFINE g == WithBlock(FileNow, b, new)
  <2>1. /\ IsFile(g) /\ g.type = FileNow.type
        /\ g.headers = FileNow.headers /\ g.save_header = FileNow.save_header
        /\ g.blocks[b] = new
        /\ \A c \in Blocks : c # b => g.blocks[c] = FileNow.blocks[c]
    <3> HIDE DEF b
    <3> QED
      BY <1>2, <1>3, <1>13, BlockChanged
  <2>2. parsed' = [parsed EXCEPT !.state_files[locals.sf] = g]
    BY <1>13
  <2> HIDE DEF g
  <2>3. /\ IsParsed(parsed') /\ OthersOK' /\ DoneOK'
        /\ (locals.sf \in DOMAIN parsed.state_files)' /\ FileNow' = g
    BY <1>7, <1>9, <1>11, <1>13, <2>1, <2>2, GoesOn
  <2>4. HeaderSound(g, b)
    BY <1>4, <1>13, <2>1 DEF HeaderSound
  <2>5. BodyTold(logged', locals.sf, g, b)
    BY <1>13, <2>1 DEF BodyTold
  <2>6. BodiesRead(logged', locals.sf, g, k)
    <3>1. b = BlockOrder[k] /\ k \in 1..8 /\ Kept(FileNow, g, b)
      BY <1>3, <1>13, <2>1 DEF Kept
    <3> HIDE DEF k, b, block
    <3> QED
      BY <1>2, <1>7, <2>4, <2>5, <3>1, BodyRead
  <2> QED
    BY <1>2, <1>10, <1>13, <2>1, <2>3, <2>6
<1>14. ASSUME HasBody(FileNow, b), b # "Entities"
       PROVE  BodyMakes(body, b, block)
  <2>1. b \in {"Templates", "EventQueue"}
    BY <1>4, <1>14 DEF HasBody, HeaderSound, Handled
  <2>2. r \in Reader(save) /\ save \in Saves
    BY <1>5, <1>14 DEF ParseInv, ReadersOK
  <2>3. CASE b = "Templates"
    <3> HIDE DEF b, block, r
    <3> QED
      BY <1>4, <2>2, <2>3, TemplatesBodyOK
  <2>4. CASE b = "EventQueue"
    <3> HIDE DEF b, block, r
    <3> QED
      BY <1>4, <2>2, <2>4, EventQueueBodyOK
  <2> QED
    BY <2>1, <2>3, <2>4
<1>15. CASE /\ HasBody(FileNow, b) /\ b = "Entities" /\ Sets([block EXCEPT !.items = items])
            /\ locals' = [locals EXCEPT !.i = 1] /\ pc' = "entity" /\ br' = r /\ UNCHANGED logged
  <2> DEFINE new == [block EXCEPT !.items = items]
             g   == WithBlock(FileNow, b, new)
  <2>1. /\ DOMAIN new = BlockField /\ new.items = items
        /\ new.header_parsed = block.header_parsed /\ new.vec_idx = block.vec_idx
        /\ new.count = block.count /\ new.table = block.table
    <3> HIDE DEF block, items
    <3> QED
      BY <1>4 DEF BlockField
  <2> HIDE DEF new
  <2>2. /\ IsFile(g) /\ g.type = FileNow.type
        /\ g.headers = FileNow.headers /\ g.save_header = FileNow.save_header
        /\ g.blocks[b] = new
        /\ \A c \in Blocks : c # b => g.blocks[c] = FileNow.blocks[c]
    <3> HIDE DEF b
    <3> QED
      BY <1>2, <1>3, <2>1, BlockChanged
  <2>3. parsed' = [parsed EXCEPT !.state_files[locals.sf] = g]
    BY <1>15 DEF new
  <2> HIDE DEF g
  <2>4. locals'.sf = locals.sf /\ locals'.i = 1 /\ locals'.k = 1 /\ pc' \in InFile
    BY <1>3, <1>15 DEF ParseInv, ReadersOK, InFile
  <2>5. /\ IsParsed(parsed') /\ OthersOK' /\ DoneOK'
        /\ (locals.sf \in DOMAIN parsed.state_files)' /\ FileNow' = g
    BY <1>7, <1>9, <2>2, <2>3, <2>4, GoesOn
  <2>6. block.count \in Nat
    BY <1>4, <1>15 DEF HasBody, HeaderSound
  <2>7. EntitiesRead(logged, locals.sf, g, 0)
    <3>1. \A c \in Blocks : HeaderSound(g, c)
      BY <1>2, <1>4, <2>1, <2>2 DEF BodiesRead, HeaderSound
    <3>2. HeadersTold(logged, locals.sf, g, Len(g.headers))
      BY <1>2, <2>1, <2>2 DEF BodiesRead, HeadersTold
    <3>3. \A c \in Blocks \ {"Entities"} : Unread(g.blocks[c])
      <4>1. ASSUME NEW c \in Blocks \ {"Entities"} PROVE Unread(FileNow.blocks[c])
        <5>1. PICK j \in 1..8 : c = BlockOrder[j]
          BY BlocksAre
        <5>2. j \in DOMAIN BlockOrder /\ ~(j <= k - 1)
          BY <1>3, <1>15, BlocksAre
        <5> QED
          BY <1>2, <5>1, <5>2 DEF BodiesRead
      <4> QED
        BY <1>15, <2>2, <4>1
    <3>4. HasBody(g, "Entities")
      BY <1>15, <2>1, <2>2 DEF HasBody
    <3>5. /\ DOMAIN items = 1..block.count
          /\ \A i \in 1..block.count : items[i] = Nothing /\ ~(i <= 0)
      <4> HIDE DEF block
      <4> QED
        BY <2>6
    <3>6. g.save_header # Nothing
      BY <1>2, <2>2 DEF BodiesRead
    <3>7. /\ g.blocks["Entities"] = new /\ DOMAIN new.items = 1..new.count
          /\ \A i \in 1..new.count : new.items[i] = Nothing /\ ~(i <= 0)
      <4> HIDE DEF b, block, items
      <4> QED
        BY <1>15, <2>1, <2>2, <3>5
    <3> HIDE DEF k, b, block, items
    <3> QED
      BY <3>1, <3>2, <3>3, <3>4, <3>6, <3>7 DEF EntitiesRead
  <2>8. NowOK'
    <3>1. locals'.i # 0 /\ locals'.i - 1 = 0 /\ logged' = logged
      BY <1>15, <2>4
    <3> QED
      BY <1>2, <1>15, <2>2, <2>4, <2>5, <2>7, <3>1 DEF NowOK, InFile, FileType
  <2> QED
    BY <1>8, <2>5, <2>8 DEF ParseInv
<1>16. CASE /\ HasBody(FileNow, b) /\ b # "Entities" /\ body.ok /\ next
            /\ Sets([body.block EXCEPT !.body_parsed = TRUE]) /\ br' = r /\ UNCHANGED logged
  <2> DEFINE new == [body.block EXCEPT !.body_parsed = TRUE]
  <2>1. BodyMakes(body, b, block) /\ body.ok
    BY <1>14, <1>16
  <2>2. /\ DOMAIN new = BlockField /\ new.items = body.block.items /\ new.queue = body.block.queue
        /\ new.header_parsed = block.header_parsed /\ new.vec_idx = block.vec_idx
        /\ new.version = body.block.version /\ new.body_parsed
    <3> HIDE DEF body, block
    <3> QED
      BY <2>1 DEF BodyMakes, BlockField
  <2>3. Sets(new)
    BY <1>16
  <2> HIDE DEF new, body, block, Sets, next, b
  <2>4. Entire(logged', locals.sf, b, new)
    BY <1>16, <2>1, <2>2 DEF BodyMakes, Entire
  <2> QED
    BY <1>13, <1>16, <2>2, <2>3, <2>4
<1>17. CASE /\ HasBody(FileNow, b) /\ b # "Entities" /\ next
            /\ Sets(body.block) /\ Says /\ br' \in Astray(r)
  <2>1. BodyMakes(body, b, block) /\ Told(logged', locals.sf, b, 0)
    BY <1>6, <1>14, <1>17
  <2> HIDE DEF body, block, Sets, next, b, Says
  <2> QED
    BY <1>13, <1>17, <2>1 DEF BodyMakes
<1> HIDE DEF k, b, block, loc, r, body, next, items, Says, Sets
<1> QED
  BY <1>1, <1>6, <1>12, <1>15, <1>16, <1>17

\* g is f, but for entity i.
KeptBut(f, g, i) ==
    LET was == f.blocks["Entities"]
        is  == g.blocks["Entities"]
    IN  /\ Kept(f, g, "Entities")
        /\ is.vec_idx = was.vec_idx /\ is.count = was.count /\ is.table = was.table
        /\ DOMAIN is.items = DOMAIN was.items
        /\ \A j \in DOMAIN was.items : j # i => is.items[j] = was.items[j]

\* One entity more has been gone through.
LEMMA EntityRead ==
    ASSUME NEW l1, NEW l2, l1 \subseteq l2, NEW sf, NEW f, NEW i \in Nat, NEW n, n = i - 1,
           EntitiesRead(l1, sf, f, n), NEW g, KeptBut(f, g, i),
           EntityTold(l2, sf, g.blocks["Entities"], i)
    PROVE  EntitiesRead(l2, sf, g, i)
<1> DEFINE was == f.blocks["Entities"]
           is  == g.blocks["Entities"]
<1>1. /\ g.headers = f.headers /\ g.save_header = f.save_header
      /\ \A c \in Blocks : c # "Entities" => g.blocks[c] = f.blocks[c]
      /\ is.header_parsed = was.header_parsed
      /\ is.vec_idx = was.vec_idx /\ is.count = was.count /\ is.table = was.table
      /\ DOMAIN is.items = DOMAIN was.items
      /\ \A j \in DOMAIN was.items : j # i => is.items[j] = was.items[j]
  BY DEF KeptBut, Kept
<1>2. "Entities" \in Blocks
  BY BlocksAre
<1>3. /\ f.save_header # Nothing /\ HeadersTold(l1, sf, f, Len(f.headers))
      /\ \A b \in Blocks : HeaderSound(f, b)
      /\ \A b \in Blocks \ {"Entities"} : Unread(f.blocks[b])
      /\ HasBody(f, "Entities") /\ DOMAIN was.items = 1..was.count
      /\ \A j \in 1..was.count :
            IF j <= n THEN EntityTold(l1, sf, was, j) ELSE was.items[j] = Nothing
  BY DEF EntitiesRead
<1>4. \A b \in Blocks : HeaderSound(g, b)
  BY <1>1, <1>3 DEF HeaderSound
<1>5. HeadersTold(l2, sf, g, Len(g.headers))
  <2>1. HeadersTold(l1, sf, g, Len(g.headers))
    <3>1. \A c \in Blocks : f.blocks[c].header_parsed => g.blocks[c].header_parsed
      BY <1>1
    <3> QED
      BY <1>1, <1>3, <3>1 DEF HeadersTold
  <2> QED
    BY <2>1, HeadersToldOK
<1>6. HasBody(g, "Entities")
  BY <1>1, <1>3 DEF HasBody
<1>7. was.count \in Nat
  BY <1>2, <1>3 DEF HeaderSound, HasBody
<1>8. ASSUME NEW j \in 1..is.count, j <= i PROVE EntityTold(l2, sf, is, j)
  <2>1. CASE j = i
    BY <2>1
  <2>2. CASE j # i
    <3>1. j <= n /\ j \in 1..was.count /\ is.items[j] = was.items[j]
      BY <1>1, <1>3, <1>7, <1>8, <2>2
    <3>2. EntityTold(l1, sf, was, j)
      BY <1>3, <3>1
    <3> HIDE DEF was, is
    <3> QED
      BY <1>1, <3>1, <3>2, ToldOK DEF EntityTold
  <2> QED
    BY <2>1, <2>2
<1>9. ASSUME NEW j \in 1..is.count, ~(j <= i) PROVE is.items[j] = Nothing
  <2>1. ~(j <= n) /\ j \in 1..was.count /\ is.items[j] = was.items[j]
    BY <1>1, <1>3, <1>7, <1>9
  <2> QED
    BY <1>3, <2>1
<1>10. g.save_header # Nothing /\ \A b \in Blocks \ {"Entities"} : Unread(g.blocks[b])
  BY <1>1, <1>3
<1>11. DOMAIN is.items = 1..is.count
  BY <1>1, <1>3
<1> QED
  BY <1>4, <1>5, <1>6, <1>8, <1>9, <1>10, <1>11 DEF EntitiesRead

LEMMA RestoreEntityOK ==
    ASSUME ParseInv, RestoreEntity
    PROVE  ParseInv'
<1> DEFINE block  == FileNow.blocks["Entities"]
           i      == locals.i
           info   == block.table[i]
           r      == JmpRel(br_cur_base, info.location)
           entity == Entity(r, info.classname)
           failed == ~Restorable(r, info.classname) \/ info.classname \notin DataMap
           new    == [block EXCEPT !.items[i] = entity]
           Says   == \E what : Log("Entities", i, what)
           next   == locals' = [locals EXCEPT !.i = @ + 1] /\ pc' = pc
           Sets   == parsed' = [parsed EXCEPT !.state_files[locals.sf] =
                                   WithBlock(FileNow, "Entities", new)]
<1>1. /\ pc = "entity" /\ i <= block.count /\ UNCHANGED <<save, br_cur_base>> /\ next
      /\ \/ Left(info) /\ UNCHANGED <<br, parsed, logged>>
         \/ ~Left(info) /\ Says /\ br' = r /\ UNCHANGED parsed
         \/ ~Left(info) /\ failed /\ Sets /\ Says /\ br' \in Astray(r)
         \/ ~Left(info) /\ ~failed /\ Sets /\ br' = Skip(r, 1) /\ UNCHANGED logged
  BY DEF RestoreEntity, AfterEntity, SetBlock, WithBlock, FileNow, Sf, Left
<1>2. /\ locals.sf \in DOMAIN parsed.state_files /\ IsFile(FileNow) /\ FileNow.type = ".hl1"
      /\ locals.k = 1 /\ i \in Nat /\ i # 0 /\ EntitiesRead(logged, locals.sf, FileNow, i - 1)
  BY <1>1 DEF ParseInv, NowOK, ReadersOK, IsParsed, FileNow, InFile, FileType
<1>3. "Entities" \in Blocks /\ DOMAIN block = BlockField
  BY <1>2, BlocksAre DEF IsFile
<1>4. /\ DOMAIN block.items = 1..block.count /\ block.count \in Nat
      /\ \A j \in 1..block.count : block.table[j] \in Info
      /\ \A j \in 1..block.count : ~(j <= i - 1) => block.items[j] = Nothing
  BY <1>2, <1>3 DEF EntitiesRead, HasBody, HeaderSound
<1>5. i \in 1..block.count /\ info \in Info /\ block.items[i] = Nothing
  <2>1. i \in 1..block.count /\ ~(i <= i - 1)
    <3> HIDE DEF block
    <3> QED
      BY <1>1, <1>2, <1>4
  <2> HIDE DEF block, i
  <2> QED
    BY <1>4, <2>1
<1>6. r \in Reader(save) /\ save \in Saves
  <2>1. info.location \in Nat /\ save \in Saves /\ br_cur_base \in Reader(save)
    <3> HIDE DEF info
    <3> QED
      BY <1>5 DEF Info, ParseInv, ReadersOK
  <2> HIDE DEF info
  <2> QED
    BY <2>1, JmpRelOK
<1>7. ASSUME Says PROVE Told(logged', locals.sf, "Entities", i) /\ logged \subseteq logged'
  <2> HIDE DEF i
  <2> QED
    BY <1>7, LogTells
<1>8. logged \subseteq logged'
  <2> HIDE DEF block, i, info, r, entity, failed, new, Says, next, Sets
  <2> QED
    BY <1>1, <1>7
<1>9. ReadersOK' /\ locals'.sf = locals.sf /\ locals'.k = 1 /\ locals'.i = i + 1
      /\ pc' = "entity"
  <2>1. br' \in Reader(save)
    <3> HIDE DEF block, i, info, r, entity, failed, new, Says, next, Sets
    <3> QED
      BY <1>1, <1>6, AstrayOK, SkipOK DEF ParseInv, ReadersOK
  <2>2. next /\ UNCHANGED <<save, br_cur_base>> /\ pc = "entity"
    BY <1>1
  <2> QED
    BY <1>2, <2>1, <2>2 DEF ParseInv, ReadersOK
<1>10. ASSUME NEW g, FileNow' = g, g.type = ".hl1", EntitiesRead(logged', locals.sf, g, i),
              /\ IsParsed(parsed') /\ OthersOK' /\ DoneOK'
              /\ (locals.sf \in DOMAIN parsed.state_files)'
       PROVE  ParseInv'
  <2>1. locals'.i # 0 /\ locals'.i - 1 = i
    BY <1>2, <1>9
  <2> HIDE DEF i
  <2>2. NowOK'
    BY <1>9, <1>10, <2>1 DEF NowOK, InFile, FileType
  <2> QED
    BY <1>9, <1>10, <2>2 DEF ParseInv
<1>11. pc \in InFile /\ pc' \in InFile
  BY <1>1, <1>9 DEF InFile
<1>12. ASSUME parsed' = parsed, Left(info) \/ Told(logged', locals.sf, "Entities", i)
       PROVE  ParseInv'
  <2>1. /\ IsParsed(parsed') /\ OthersOK' /\ DoneOK'
        /\ (locals.sf \in DOMAIN parsed.state_files)' /\ FileNow' = FileNow
    BY <1>8, <1>9, <1>11, <1>12, GoesOnSame
  <2>2. EntityTold(logged', locals.sf, block, i) /\ KeptBut(FileNow, FileNow, i)
    BY <1>5, <1>12 DEF EntityTold, KeptBut, Kept
  <2>3. EntitiesRead(logged', locals.sf, FileNow, i)
    <3> HIDE DEF i
    <3> QED
      BY <1>2, <1>8, <2>2, EntityRead
  <2> QED
    BY <1>2, <1>10, <2>1, <2>3
<1>13. ASSUME Sets, ~Left(info), Told(logged', locals.sf, "Entities", i) \/ entity \notin NotWhole
       PROVE  ParseInv'
  <2> DEFINE g == WithBlock(FileNow, "Entities", new)
  <2>1. /\ DOMAIN new = BlockField
        /\ new.header_parsed = block.header_parsed /\ new.vec_idx = block.vec_idx
        /\ new.count = block.count /\ new.table = block.table
        /\ new.items = [block.items EXCEPT ![i] = entity]
    <3> HIDE DEF block, entity, i
    <3> QED
      BY <1>3 DEF BlockField
  <2> HIDE DEF new
  <2>2. /\ DOMAIN new.items = DOMAIN block.items /\ new.items[i] = entity
        /\ \A j \in DOMAIN block.items : j # i => new.items[j] = block.items[j]
    <3> HIDE DEF block, entity, i
    <3> QED
      BY <1>4, <1>5, <2>1
  <2>3. /\ IsFile(g) /\ g.type = FileNow.type
        /\ g.headers = FileNow.headers /\ g.save_header = FileNow.save_header
        /\ g.blocks["Entities"] = new
        /\ \A c \in Blocks : c # "Entities" => g.blocks[c] = FileNow.blocks[c]
    BY <1>2, <1>3, <2>1, BlockChanged
  <2>4. parsed' = [parsed EXCEPT !.state_files[locals.sf] = g]
    BY <1>13 DEF new
  <2> HIDE DEF g
  <2>5. /\ IsParsed(parsed') /\ OthersOK' /\ DoneOK'
        /\ (locals.sf \in DOMAIN parsed.state_files)' /\ FileNow' = g
    BY <1>8, <1>9, <1>11, <2>3, <2>4, GoesOn
  <2>6. KeptBut(FileNow, g, i)
    BY <2>1, <2>2, <2>3 DEF KeptBut, Kept
  <2>7. EntityTold(logged', locals.sf, g.blocks["Entities"], i)
    <3>1. new.table[i] = info /\ new.items[i] = entity
      BY <2>1, <2>2
    <3> HIDE DEF info, entity, i, block
    <3> QED
      BY <1>13, <2>3, <3>1 DEF EntityTold
  <2>8. EntitiesRead(logged', locals.sf, g, i)
    <3> HIDE DEF i
    <3> QED
      BY <1>2, <1>8, <2>6, <2>7, EntityRead
  <2> QED
    BY <1>2, <1>10, <2>3, <2>5, <2>8
<1>14. ASSUME ~failed PROVE entity \notin NotWhole
  <2>1. Restorable(r, info.classname) /\ info.classname \in DataMap
    BY <1>14
  <2>2. entity = Ahead(r, 1).val
    <3> HIDE DEF r, info
    <3> QED
      BY <2>1 DEF Entity, Restorable
  <2>3. Ahead(r, 1).val \notin NotWhole
    <3> HIDE DEF r, info
    <3> QED
      BY <1>6, <2>1, RestorableOK
  <2> QED
    BY <2>2, <2>3
<1> HIDE DEF block, i, info, r, entity, failed, new, Says, next, Sets
<1> QED
  BY <1>1, <1>7, <1>12, <1>13, <1>14

LEMMA EndEntitiesOK ==
    ASSUME ParseInv, EndEntities
    PROVE  ParseInv'
<1> DEFINE block == FileNow.blocks["Entities"]
           new   == [block EXCEPT !.body_parsed = TRUE]
           g     == WithBlock(FileNow, "Entities", new)
<1>1. /\ pc = "entity" /\ locals.i > block.count
      /\ UNCHANGED <<save, br, br_cur_base, st, logged>>
      /\ locals' = [locals EXCEPT !.k = @ + 1] /\ pc' = "block_body"
      /\ parsed' = [parsed EXCEPT !.state_files[locals.sf] = g]
  BY DEF EndEntities, SetBlock, WithBlock, FileNow, Sf, readers
<1>2. /\ locals.sf \in DOMAIN parsed.state_files /\ IsFile(FileNow) /\ FileNow.type = ".hl1"
      /\ locals.k = 1 /\ locals.i \in Nat
      /\ EntitiesRead(logged, locals.sf, FileNow, locals.i - 1)
  BY <1>1 DEF ParseInv, NowOK, ReadersOK, IsParsed, FileNow, InFile, FileType
<1>3. "Entities" \in Blocks /\ DOMAIN block = BlockField
  BY <1>2, BlocksAre DEF IsFile
<1>4. /\ DOMAIN new = BlockField /\ new.body_parsed
      /\ new.header_parsed = block.header_parsed /\ new.vec_idx = block.vec_idx
      /\ new.count = block.count /\ new.table = block.table /\ new.items = block.items
  <2> HIDE DEF block
  <2> QED
    BY <1>3 DEF BlockField
<1> HIDE DEF new
<1>5. /\ IsFile(g) /\ g.type = FileNow.type
      /\ g.headers = FileNow.headers /\ g.save_header = FileNow.save_header
      /\ g.blocks["Entities"] = new
      /\ \A c \in Blocks : c # "Entities" => g.blocks[c] = FileNow.blocks[c]
  BY <1>2, <1>3, <1>4, BlockChanged
<1> HIDE DEF g
<1>6. ReadersOK' /\ locals'.sf = locals.sf /\ locals'.k = 2
  BY <1>1, <1>2 DEF ParseInv, ReadersOK
<1>7. pc \in InFile /\ pc' \in InFile /\ logged' = logged
  BY <1>1 DEF InFile
<1>8. /\ IsParsed(parsed') /\ OthersOK' /\ DoneOK'
      /\ (locals.sf \in DOMAIN parsed.state_files)' /\ FileNow' = g
  BY <1>1, <1>5, <1>6, <1>7, GoesOn
<1>9. BodiesRead(logged, locals.sf, g, 1)
  <2>1. /\ FileNow.save_header # Nothing
        /\ HeadersTold(logged, locals.sf, FileNow, Len(FileNow.headers))
        /\ \A b \in Blocks : HeaderSound(FileNow, b)
        /\ \A b \in Blocks \ {"Entities"} : Unread(FileNow.blocks[b])
        /\ HasBody(FileNow, "Entities") /\ DOMAIN block.items = 1..block.count
        /\ \A j \in 1..block.count : j <= locals.i - 1 =>
              EntityTold(logged, locals.sf, block, j)
    BY <1>2 DEF EntitiesRead
  <2>2. block.count \in Nat
    BY <1>3, <2>1 DEF HeaderSound, HasBody
  <2> HIDE DEF block
  <2>3. \A j \in 1..block.count : EntityTold(logged, locals.sf, new, j)
    <3>1. \A j \in 1..block.count : j <= locals.i - 1
      BY <1>1, <1>2, <2>2
    <3> QED
      BY <1>4, <2>1, <3>1 DEF EntityTold
  <2>4. BodyTold(logged, locals.sf, g, "Entities")
    BY <1>4, <1>5, <2>1, <2>3 DEF BodyTold, Entire
  <2>5. \A b \in Blocks : HeaderSound(g, b)
    BY <1>4, <1>5, <2>1 DEF HeaderSound, block
  <2>6. HeadersTold(logged, locals.sf, g, Len(g.headers))
    <3>1. \A c \in Blocks : FileNow.blocks[c].header_parsed => g.blocks[c].header_parsed
      BY <1>4, <1>5 DEF block
    <3> QED
      BY <1>5, <2>1, <3>1 DEF HeadersTold
  <2>7. \A b \in Blocks \ {"Entities"} : Unread(g.blocks[b])
    BY <1>5, <2>1
  <2>8. ASSUME NEW j \in 1..8
        PROVE  IF j <= 1 THEN BodyTold(logged, locals.sf, g, BlockOrder[j])
               ELSE Unread(g.blocks[BlockOrder[j]])
    <3>1. CASE j <= 1
      <4>1. BlockOrder[j] = "Entities"
        BY <3>1, BlocksAre
      <4> QED
        BY <2>4, <3>1, <4>1
    <3>2. CASE ~(j <= 1)
      <4>1. BlockOrder[j] \in Blocks \ {"Entities"}
        BY <3>2, BlocksAre
      <4> QED
        BY <2>7, <3>2, <4>1
    <3> QED
      BY <3>1, <3>2
  <2> QED
    BY <1>5, <2>1, <2>5, <2>6, <2>8, BlocksAre DEF BodiesRead
<1>10. NowOK'
  <2>1. locals'.k # 0 /\ locals'.k - 1 = 1
    BY <1>6
  <2> QED
    BY <1>1, <1>2, <1>5, <1>6, <1>7, <1>8, <1>9, <2>1 DEF NowOK, InFile, FileType
<1> QED
  BY <1>6, <1>8, <1>10 DEF ParseInv

LEMMA ParseNextOK ==
    ASSUME ParseInv, ParseNext
    PROVE  ParseInv'
BY ParseHeaderOK, ParseGlobalsOK, ParseStateFileOK, ParseHl2OK, ParseHl3OK, ParseHl1OK,
   RestoreBlockHeaderOK, RestoreSaveTablesOK, RestoreBlockBodiesOK, RestoreBlockBodyOK,
   RestoreEntityOK, EndEntitiesOK, EndHl1OK, OutOfMemoryOK DEF ParseNext

LEMMA ParseStays ==
    ASSUME ParseInv, UNCHANGED parse_vars
    PROVE  ParseInv'
<1>1. UNCHANGED <<save, br, br_cur_base, st, locals, pc, parsed, logged, err>>
  BY DEF parse_vars, readers
<1>2. ReadersOK' /\ IsParsed(parsed')
  BY <1>1 DEF ParseInv, ReadersOK
<1>3. NowOK' /\ OthersOK' /\ DoneOK'
  BY <1>1 DEF ParseInv, NowOK, OthersOK, DoneOK, FileNow
<1> QED
  BY <1>2, <1>3 DEF ParseInv

-----------------------------------------------------------------------------
(* The dump *)

\* A parse without an error, of a save all the blocks of which have a body.
Untroubled ==
    /\ err = "none" /\ logged = {}
    /\ \A k \in DOMAIN parsed.state_files : \A h \in DOMAIN parsed.state_files[k].headers :
          parsed.state_files[k].headers[h].body # -1

DumpInv ==
    /\ dpc # "start" => pc = "parsed"
    /\ at \in [sf : Nat, k : Nat, i : Nat] /\ at.sf # 0 /\ at.k # 0 /\ at.i # 0
    /\ dpc \in {"block", "item"} => at.sf \in DOMAIN parsed.state_files /\ File.type = ".hl1"
    /\ dpc = "item" => at.k \in 1..8 /\ Block.header_parsed
    /\ dpc = "crashed" => ~Untroubled

\* In a block that is dumped after such a parse everything is there.
LEMMA UntroubledBlock ==
    ASSUME ParseInv, pc = "parsed", Untroubled, NEW sf \in DOMAIN parsed.state_files,
           NEW f, f = parsed.state_files[sf], f.type = ".hl1", NEW b \in Blocks,
           f.blocks[b].header_parsed
    PROVE  Entire(logged, sf, b, f.blocks[b]) /\ b \in Handled
<1>1. BodiesRead(logged, sf, f, Len(BlockOrder))
  BY DEF ParseInv, DoneOK, Untroubled, FileTold
<1>2. PICK j \in 1..8 : b = BlockOrder[j]
  BY BlocksAre
<1>3. BodyTold(logged, sf, f, b) /\ HeaderSound(f, b)
  <2>1. j \in DOMAIN BlockOrder /\ j <= Len(BlockOrder)
    BY BlocksAre
  <2> QED
    BY <1>1, <1>2, <2>1 DEF BodiesRead
<1>4. f.blocks[b].vec_idx \in DOMAIN f.headers /\ b \in Handled
  BY <1>3 DEF HeaderSound
<1>5. HasBody(f, b)
  BY <1>4 DEF HasBody, Untroubled
<1>6. ~Told(logged, sf, b, 0)
  BY DEF Told, Untroubled
<1> QED
  BY <1>3, <1>4, <1>5, <1>6 DEF BodyTold

LEMMA DumpSavOK ==
    ASSUME ParseInv, DumpInv, DumpSav, UNCHANGED parse_vars
    PROVE  DumpInv'
<1>1. /\ pc = "parsed" /\ UNCHANGED <<pc, parsed, logged, err, at>>
      /\ \/ Nothing \in {parsed.game_header, parsed.global_state} /\ dpc' = "crashed"
         \/ dpc' = "state_file"
  BY DEF DumpSav, Crash, parse_vars
<1>2. ASSUME Nothing \in {parsed.game_header, parsed.global_state} PROVE ~Untroubled'
  BY <1>1, <1>2 DEF ParseInv, DoneOK, Untroubled, NotWhole
<1> QED
  BY <1>1, <1>2 DEF DumpInv

LEMMA DumpStateFileOK ==
    ASSUME ParseInv, DumpInv, DumpStateFile, UNCHANGED parse_vars
    PROVE  DumpInv'
<1>1. /\ dpc = "state_file" /\ UNCHANGED <<pc, parsed, logged, err>>
      /\ pc = "parsed" /\ at \in [sf : Nat, k : Nat, i : Nat] /\ at.sf # 0 /\ at.k # 0 /\ at.i # 0
      /\ at.sf <= Len(parsed.state_files)
  BY DEF DumpStateFile, DumpInv, parse_vars
<1>2. at.sf \in DOMAIN parsed.state_files /\ File.type \in FileType
  BY <1>1 DEF ParseInv, IsParsed, IsFile, File
<1>3. CASE File.type = ".hl1"
  <2>1. \/ File.save_header = Nothing /\ dpc' = "crashed" /\ at' = at
        \/ dpc' = "block" /\ at' = [at EXCEPT !.k = 1]
    BY <1>3 DEF DumpStateFile, Crash
  <2>2. ASSUME File.save_header = Nothing PROVE ~Untroubled'
    BY <1>1, <1>2, <1>3, <2>2 DEF ParseInv, DoneOK, FileTold, BodiesRead, Untroubled, File
  <2>3. CASE dpc' = "crashed"
    BY <1>1, <2>1, <2>2, <2>3 DEF DumpInv
  <2>4. CASE dpc' = "block" /\ at' = [at EXCEPT !.k = 1]
    BY <1>1, <1>2, <1>3, <2>4 DEF DumpInv, File
  <2> QED
    BY <2>1, <2>3, <2>4
<1>4. CASE File.type # ".hl1"
  <2>1. dpc' = dpc /\ at' = [at EXCEPT !.sf = @ + 1]
    BY <1>2, <1>4 DEF DumpStateFile, FileType
  <2> QED
    BY <1>1, <2>1 DEF DumpInv
<1> QED
  BY <1>3, <1>4

LEMMA DumpBlockOK ==
    ASSUME ParseInv, DumpInv, DumpBlock, UNCHANGED parse_vars
    PROVE  DumpInv'
<1>1. /\ dpc = "block" /\ UNCHANGED <<pc, parsed, logged, err>> /\ pc = "parsed"
      /\ at \in [sf : Nat, k : Nat, i : Nat] /\ at.sf # 0 /\ at.k # 0 /\ at.i # 0
      /\ at.sf \in DOMAIN parsed.state_files /\ File.type = ".hl1" /\ at.k \in 1..8
  BY BlocksAre DEF DumpBlock, DumpInv, parse_vars
<1> DEFINE b == BlockOrder[at.k]
<1>2. \/ at' = [at EXCEPT !.k = @ + 1] /\ dpc' = dpc
      \/ Block.header_parsed /\ Absent(b, Block) /\ dpc' = "crashed" /\ at' = at
      \/ Block.header_parsed /\ dpc' = "item" /\ at' = [at EXCEPT !.i = 1]
  BY DEF DumpBlock, Crash, IsDumped
<1>3. ASSUME Block.header_parsed, Absent(b, Block), Untroubled PROVE FALSE
  <2>1. b \in Blocks /\ Block = parsed.state_files[at.sf].blocks[b]
    BY <1>1, BlocksAre DEF Block, File
  <2> HIDE DEF b
  <2>2. Entire(logged, at.sf, b, Block)
    BY <1>1, <1>3, <2>1, UntroubledBlock DEF File
  <2>3. CASE b = "Entities"
    <3>1. DOMAIN Block.items = 1..Block.count
      BY <2>2, <2>3 DEF Entire
    <3>2. Block.count > 0 /\ Block.items = <<>>
      BY <1>3, <2>3 DEF Absent
    <3>3. Block.count \in Nat
      <4>1. HeaderSound(parsed.state_files[at.sf], b)
        BY <1>1, <1>3, <2>1 DEF ParseInv, DoneOK, FileTold, BodiesRead, Untroubled, File
      <4> QED
        BY <1>3, <2>1, <2>3, <4>1 DEF HeaderSound
    <3> QED
      BY <3>1, <3>2, <3>3
  <2>4. CASE b = "EventQueue"
    BY <1>3, <2>2, <2>4 DEF Entire, Absent, NotWhole
  <2> QED
    BY <1>3, <2>3, <2>4 DEF Absent
<1>4. CASE at' = [at EXCEPT !.k = @ + 1] /\ dpc' = dpc
  BY <1>1, <1>4 DEF DumpInv, File
<1>5. CASE Block.header_parsed /\ Absent(b, Block) /\ dpc' = "crashed" /\ at' = at
  <2>1. ~Untroubled'
    BY <1>1, <1>3, <1>5 DEF Untroubled
  <2> QED
    BY <1>1, <1>5, <2>1 DEF DumpInv
<1>6. CASE Block.header_parsed /\ dpc' = "item" /\ at' = [at EXCEPT !.i = 1]
  BY <1>1, <1>6 DEF DumpInv, File, Block
<1> QED
  BY <1>2, <1>4, <1>5, <1>6

LEMMA DumpItemOK ==
    ASSUME ParseInv, DumpInv, DumpItem, UNCHANGED parse_vars
    PROVE  DumpInv'
<1> DEFINE b    == BlockOrder[at.k]
           item == Block.items[at.i]
<1>1. /\ dpc = "item" /\ UNCHANGED <<pc, parsed, logged, err>> /\ pc = "parsed"
      /\ at \in [sf : Nat, k : Nat, i : Nat] /\ at.sf # 0 /\ at.k # 0 /\ at.i # 0
      /\ at.sf \in DOMAIN parsed.state_files /\ File.type = ".hl1" /\ at.k \in 1..8
      /\ Block.header_parsed /\ at.i \in DOMAIN Block.items
  BY DEF DumpItem, DumpInv, parse_vars
<1>2. \/ at' = [at EXCEPT !.i = @ + 1] /\ dpc' = dpc
      \/ item \in Unshowable(b) /\ dpc' = "crashed" /\ at' = at
  BY DEF DumpItem, Crash, NextItem
<1>3. ASSUME item \in Unshowable(b), Untroubled PROVE FALSE
  <2>1. b \in Blocks /\ Block = parsed.state_files[at.sf].blocks[b]
    BY <1>1, BlocksAre DEF Block, File
  <2> HIDE DEF b
  <2>2. Entire(logged, at.sf, b, Block)
    BY <1>1, <1>3, <2>1, UntroubledBlock DEF File
  <2>3. at.i \in DOMAIN Block.items
    BY <1>1
  <2>4. CASE b = "Entities"
    <3>1. EntityTold(logged, at.sf, Block, at.i)
      BY <2>2, <2>3, <2>4 DEF Entire
    <3>2. ~Told(logged, at.sf, "Entities", at.i)
      BY <1>3 DEF Told, Untroubled
    <3>3. item \in {Headless, Outputless}
      BY <1>3, <2>4 DEF Unshowable
    <3> QED
      BY <3>1, <3>2, <3>3, NothingAssumption DEF EntityTold, NotWhole
  <2>5. CASE b = "Templates"
    <3>1. item \in {Nothing, Partial}
      BY <1>3, <2>5 DEF Unshowable
    <3> QED
      BY <2>2, <2>3, <2>5, <3>1 DEF Entire, NotWhole
  <2> QED
    BY <1>3, <2>4, <2>5 DEF Unshowable
<1>4. CASE at' = [at EXCEPT !.i = @ + 1] /\ dpc' = dpc
  BY <1>1, <1>4 DEF DumpInv, File, Block
<1>5. CASE item \in Unshowable(b) /\ dpc' = "crashed" /\ at' = at
  <2>1. ~Untroubled'
    BY <1>1, <1>3, <1>5 DEF Untroubled
  <2> QED
    BY <1>1, <1>5, <2>1 DEF DumpInv
<1> QED
  BY <1>2, <1>4, <1>5

LEMMA EndItemsOK ==
    ASSUME ParseInv, DumpInv, EndItems, UNCHANGED parse_vars
    PROVE  DumpInv'
<1>1. /\ dpc = "item" /\ dpc' = "block" /\ at' = [at EXCEPT !.k = @ + 1]
      /\ UNCHANGED <<pc, parsed>>
  BY DEF EndItems, parse_vars
<1> QED
  BY <1>1 DEF DumpInv, File

LEMMA EndBlocksOK ==
    ASSUME ParseInv, DumpInv, EndBlocks, UNCHANGED parse_vars
    PROVE  DumpInv'
<1>1. /\ dpc = "block" /\ dpc' = "state_file" /\ at' = [at EXCEPT !.sf = @ + 1]
      /\ UNCHANGED <<pc, parsed>>
  BY DEF EndBlocks, parse_vars
<1> QED
  BY <1>1 DEF DumpInv

LEMMA DumpEndsOK ==
    ASSUME ParseInv, DumpInv, DumpErrors \/ DumpFails, UNCHANGED parse_vars
    PROVE  DumpInv'
<1>1. pc = "parsed" /\ dpc' = "done" /\ at' = at /\ UNCHANGED <<pc, parsed>>
  BY DEF DumpErrors, DumpFails, DumpInv, parse_vars
<1> QED
  BY <1>1 DEF DumpInv

\* A parse that is over is not gone on with.
LEMMA ParsedStays ==
    ASSUME ParseNext
    PROVE  pc # "parsed"
BY DEF ParseNext, ParseHeader, ParseGlobals, ParseStateFile, ParseHl2, ParseHl3, ParseHl1,
       RestoreBlockHeader, RestoreSaveTables, RestoreBlockBodies, RestoreBlockBody, RestoreEntity,
       EndEntities, EndHl1, OutOfMemory

LEMMA DumpStays ==
    ASSUME DumpInv, UNCHANGED dump_vars, pc = "parsed" => UNCHANGED parse_vars
    PROVE  DumpInv'
<1>1. dpc' = dpc /\ at' = at
  BY DEF dump_vars
<1>2. CASE pc = "parsed"
  <2>1. UNCHANGED <<pc, parsed, logged, err>>
    BY <1>2 DEF parse_vars
  <2> QED
    BY <1>1, <2>1 DEF DumpInv, File, Block, Untroubled
<1>3. CASE pc # "parsed"
  <2>1. dpc = "start"
    BY <1>3 DEF DumpInv
  <2> QED
    BY <1>1, <2>1 DEF DumpInv
<1> QED
  BY <1>2, <1>3

LEMMA NextOK ==
    ASSUME ParseInv, DumpInv, [Next]_vars
    PROVE  ParseInv' /\ DumpInv'
<1>1. CASE ParseNext /\ UNCHANGED dump_vars
  BY <1>1, ParseNextOK, ParsedStays, DumpStays
<1>2. CASE DumpNext /\ UNCHANGED parse_vars
  BY <1>2, ParseStays, DumpSavOK, DumpStateFileOK, DumpBlockOK, DumpItemOK, EndItemsOK,
     EndBlocksOK, DumpEndsOK DEF DumpNext
<1>3. CASE UNCHANGED vars
  BY <1>3, ParseStays, DumpStays DEF vars
<1> QED
  BY <1>1, <1>2, <1>3 DEF Next

\* What the parser and the dump go by at every step.
THEOREM Inductive == Spec => [](ParseInv /\ DumpInv)
<1>1. DumpInit => ParseInv /\ DumpInv
  <2>1. DumpInit => DumpInv
    BY DEF DumpInit, DumpInv
  <2> QED
    BY <2>1, InitOK DEF DumpInit
<1>2. (ParseInv /\ DumpInv) /\ [Next]_vars => (ParseInv /\ DumpInv)'
  BY NextOK
<1> QED
  BY <1>1, <1>2, PTL DEF Spec
-----------------------------------------------------------------------------
(* What is in the blocks *)

IsArray(a) == \E n \in Nat : DOMAIN a = 1..n

\* Only in a block that is dumped there is anything.
FilledBlock(f, b) ==
    LET block == f.blocks[b]
    IN  /\ IsArray(block.items)
        /\ \A i \in DOMAIN block.items :
              /\ f.type = ".hl1" /\ IsDumped(block)
              /\ b # "Entities" => block.version = BlockVersion

Filled(f) ==
    /\ IsArray(f.adjacent_levels) /\ IsArray(f.light_styles)
    /\ \A b \in Blocks : FilledBlock(f, b)

ItemsInv ==
    /\ IsFiniteSet(logged)
    /\ \A k \in DOMAIN parsed.state_files : Filled(parsed.state_files[k])

LEMMA NoItems == IsArray(<<>>) /\ DOMAIN <<>> = {}
<1>1. DOMAIN <<>> = 1..0 /\ 0 \in Nat
  OBVIOUS
<1> QED
  BY <1>1 DEF IsArray

LEMMA EmptyBlockFilled ==
    ASSUME NEW f, NEW b, f.blocks[b].items = <<>>
    PROVE  FilledBlock(f, b)
BY NoItems DEF FilledBlock

LEMMA LogFinite ==
    ASSUME IsFiniteSet(logged), NEW b, NEW i, NEW what, Log(b, i, what)
    PROVE  IsFiniteSet(logged')
BY FS_AddElement DEF Log

LEMMA LoggedFinite ==
    ASSUME IsFiniteSet(logged), UNCHANGED logged \/ \E b, i, what : Log(b, i, what)
    PROVE  IsFiniteSet(logged')
BY LogFinite

\* A state file is exchanged for another one.
LEMMA ItemsChanged ==
    ASSUME ItemsInv, IsParsed(parsed), NEW k \in DOMAIN parsed.state_files, NEW f, IsFile(f),
           Filled(f), parsed' = [parsed EXCEPT !.state_files[k] = f], IsFiniteSet(logged')
    PROVE  ItemsInv'
<1>1. /\ DOMAIN parsed'.state_files = DOMAIN parsed.state_files
      /\ parsed'.state_files[k] = f
      /\ \A j \in DOMAIN parsed.state_files :
            j # k => parsed'.state_files[j] = parsed.state_files[j]
  BY FileChanged
<1> QED
  BY <1>1 DEF ItemsInv

LEMMA ItemsSame ==
    ASSUME ItemsInv, parsed' = parsed, IsFiniteSet(logged')
    PROVE  ItemsInv'
BY DEF ItemsInv

\* A block of it.
LEMMA BlockFilled ==
    ASSUME ItemsInv, IsParsed(parsed), NEW k \in DOMAIN parsed.state_files,
           NEW b \in Blocks, NEW block, DOMAIN block = BlockField,
           parsed' = [parsed EXCEPT !.state_files[k] =
                         WithBlock(parsed.state_files[k], b, block)],
           IsFiniteSet(logged'), IsArray(block.items),
           \A i \in DOMAIN block.items :
              /\ parsed.state_files[k].type = ".hl1" /\ IsDumped(block)
              /\ b # "Entities" => block.version = BlockVersion
    PROVE  ItemsInv'
<1> DEFINE f == parsed.state_files[k]
           g == WithBlock(f, b, block)
<1>1. IsFile(f) /\ Filled(f)
  BY DEF IsParsed, ItemsInv
<1>2. parsed' = [parsed EXCEPT !.state_files[k] = g]
  OBVIOUS
<1>3. g = [f EXCEPT !.blocks[b] = block]
  BY DEF WithBlock
<1>4. /\ IsFile(g) /\ g.type = f.type /\ g.blocks[b] = block
      /\ \A c \in Blocks : c # b => g.blocks[c] = f.blocks[c]
  <2> HIDE DEF f
  <2> QED
    BY <1>1, BlockChanged
<1> HIDE DEF g
<1>5. g.adjacent_levels = f.adjacent_levels /\ g.light_styles = f.light_styles
  <2> HIDE DEF f
  <2> QED
    BY <1>1, <1>3 DEF IsFile, FileField
<1>6. FilledBlock(g, b)
  BY <1>4 DEF FilledBlock
<1>7. Filled(g)
  <2> HIDE DEF f
  <2> QED
    BY <1>1, <1>4, <1>5, <1>6 DEF Filled, FilledBlock
<1> QED
  BY <1>2, <1>4, <1>7, ItemsChanged

LEMMA ParseGlobalsItems ==
    ASSUME ParseInv, ItemsInv, ParseGlobals
    PROVE  ItemsInv'
<1> DEFINE split  == SplitSkipSwap(br, locals.headers_size)
           header == RestoredClass(split.chunk, "GameHeader", "GAME_HEADER")
           global == IF header \in Unrestored THEN Nothing
                     ELSE RestoredClass(Skip(split.chunk, 1), "GLOBAL", "CGlobalState")
           n      == IF header # 0 THEN header ELSE Num(split.after, 1)
           read   == [parsed EXCEPT !.game_header = header, !.global_state = global]
<1>1. /\ logged' = logged
      /\ \/ parsed'.state_files = parsed.state_files
         \/ \A k \in DOMAIN parsed'.state_files : parsed'.state_files[k] = EmptyFile
  <2>1. DOMAIN parsed = {"game_header", "global_state", "state_files"}
    BY DEF ParseInv, IsParsed
  <2>2. /\ logged' = logged
        /\ \/ parsed' = parsed
           \/ parsed' = read
           \/ parsed' = [read EXCEPT !.state_files = [k \in 1..n |-> EmptyFile]]
    BY DEF ParseGlobals, Return
  <2> HIDE DEF split, header, global, n
  <2> QED
    BY <2>1, <2>2
<1> HIDE DEF split, header, global, n, read
<1>2. Filled(EmptyFile)
  <2>1. EmptyFile.adjacent_levels = <<>> /\ EmptyFile.light_styles = <<>>
    BY DEF EmptyFile
  <2>2. \A b \in Blocks : EmptyFile.blocks[b].items = <<>>
    BY DEF EmptyFile, EmptyBlock
  <2> QED
    BY <2>1, <2>2, NoItems, EmptyBlockFilled DEF Filled
<1> QED
  BY <1>1, <1>2 DEF ItemsInv

LEMMA ParseStateFileItems ==
    ASSUME ParseInv, ItemsInv, ParseStateFile
    PROVE  ItemsInv'
<1> DEFINE f == [parsed.state_files[locals.sf] EXCEPT !.type = Ahead(br, 1).sym]
<1>1. /\ pc = "state_file" /\ logged' = logged
      /\ \/ parsed' = parsed
         \/ /\ ~(locals.sf > Len(parsed.state_files))
            /\ Ahead(br, 1).sym \in FileType
            /\ parsed' = [parsed EXCEPT !.state_files[locals.sf] = f]
  BY DEF ParseStateFile, Return, FileType
<1>2. CASE parsed' = parsed
  BY <1>1, <1>2, ItemsSame DEF ItemsInv
<1>3. CASE parsed' # parsed
  <2>1. locals.sf \in DOMAIN parsed.state_files
    BY <1>1, <1>3 DEF ParseInv, ReadersOK, IsParsed, OthersOK
  <2> DEFINE was == parsed.state_files[locals.sf]
  <2>2. IsFile(was) /\ Fresh(was) /\ Filled(was)
    BY <1>1, <2>1 DEF ParseInv, IsParsed, OthersOK, ItemsInv
  <2> HIDE DEF was
  <2>3. f = [was EXCEPT !.type = Ahead(br, 1).sym]
    BY DEF was
  <2> HIDE DEF f
  <2>4. /\ DOMAIN f = FileField /\ f.type = Ahead(br, 1).sym /\ f.blocks = was.blocks
        /\ f.headers = was.headers
        /\ f.adjacent_levels = was.adjacent_levels /\ f.light_styles = was.light_styles
    BY <2>2, <2>3 DEF IsFile, FileField
  <2>5. IsFile(f)
    BY <1>1, <1>3, <2>2, <2>4 DEF IsFile
  <2>6. Filled(f)
    BY <2>2, <2>4, EmptyBlockFilled DEF Filled, Fresh, Unread
  <2> QED
    BY <1>1, <1>3, <2>1, <2>5, <2>6, ItemsChanged DEF ParseInv, ItemsInv
<1> QED
  BY <1>2, <1>3

\* Something is changed in a state file that is not in its blocks.
LEMMA FileItems ==
    ASSUME ParseInv, ItemsInv, pc \in InFile, logged' = logged,
           NEW f, f.blocks = FileNow.blocks, f.type = FileNow.type, IsFile(f),
           IsArray(f.adjacent_levels), IsArray(f.light_styles),
           parsed' = [parsed EXCEPT !.state_files[locals.sf] = f]
    PROVE  ItemsInv'
<1>1. locals.sf \in DOMAIN parsed.state_files
  BY DEF ParseInv, NowOK
<1>2. Filled(FileNow)
  BY <1>1 DEF ItemsInv, FileNow
<1>3. Filled(f)
  BY <1>2 DEF Filled, FilledBlock
<1> QED
  BY <1>1, <1>3, ItemsChanged DEF ParseInv, ItemsInv

LEMMA ParseHl3Items ==
    ASSUME ParseInv, ItemsInv, ParseHl3
    PROVE  ItemsInv'
<1> DEFINE f == [FileNow EXCEPT !.patched = Num(br, 1)]
<1>1. /\ pc = ".hl3" /\ logged' = logged
      /\ parsed' = [parsed EXCEPT !.state_files[locals.sf] = f]
  BY DEF ParseHl3, FileNow
<1>2. locals.sf \in DOMAIN parsed.state_files /\ IsFile(FileNow) /\ Filled(FileNow)
  BY <1>1 DEF ParseInv, NowOK, FileNow, InFile, IsParsed, ItemsInv
<1>3. /\ DOMAIN f = FileField /\ f.type = FileNow.type
      /\ f.headers = FileNow.headers /\ f.blocks = FileNow.blocks
      /\ f.adjacent_levels = FileNow.adjacent_levels /\ f.light_styles = FileNow.light_styles
  BY <1>2 DEF IsFile, FileField
<1> HIDE DEF f
<1>4. IsFile(f) /\ pc \in InFile
  BY <1>1, <1>2, <1>3 DEF IsFile, InFile
<1> QED
  BY <1>1, <1>2, <1>3, <1>4, FileItems DEF Filled

LEMMA ParseHl1Items ==
    ASSUME ParseInv, ItemsInv, ParseHl1
    PROVE  ItemsInv'
<1> DEFINE table == ReadSymbolTable(Skip(br, 5), Num(br, 2))
           sizes == Skip(table.br, 2)
           vec   == Ahead(sizes, 1)
           f     == [FileNow EXCEPT !.headers = vec.val]
<1>1. /\ pc = ".hl1" /\ logged' = logged
      /\ \/ parsed' = parsed
         \/ /\ parsed' = [parsed EXCEPT !.state_files[locals.sf] = f]
            /\ vec.is = "class" /\ vec.sym = "headers"
  BY DEF ParseHl1, Return, FileNow
<1>2. locals.sf \in DOMAIN parsed.state_files /\ IsFile(FileNow) /\ Filled(FileNow)
  BY <1>1 DEF ParseInv, NowOK, FileNow, InFile, IsParsed, ItemsInv
<1>3. ASSUME vec.is = "class", vec.sym = "headers" PROVE vec.val \in Seq(Header)
  <2>1. Skip(br, 5) \in Reader(save) /\ Num(br, 2) \in Nat /\ save \in Saves
    BY SkipOK, NumOK DEF ParseInv, ReadersOK
  <2>2. table.br \in Reader(save)
    BY <2>1, ReadSymbolTableOK
  <2> HIDE DEF table
  <2>3. sizes \in Reader(save)
    BY <2>1, <2>2, SkipOK
  <2> HIDE DEF sizes
  <2>4. Fits(vec)
    BY <1>3, <2>1, <2>3, AheadOK
  <2> HIDE DEF vec
  <2> QED
    BY <1>3, <2>4, FitsIs
<1> HIDE DEF vec
<1>4. /\ DOMAIN f = FileField /\ f.type = FileNow.type
      /\ f.headers = vec.val /\ f.blocks = FileNow.blocks
      /\ f.adjacent_levels = FileNow.adjacent_levels /\ f.light_styles = FileNow.light_styles
  BY <1>2 DEF IsFile, FileField
<1> HIDE DEF f
<1>5. CASE parsed' = parsed
  BY <1>1, <1>5, ItemsSame DEF ItemsInv
<1>6. CASE parsed' # parsed
  <2>1. IsFile(f) /\ pc \in InFile
    BY <1>1, <1>2, <1>3, <1>4, <1>6 DEF IsFile, InFile
  <2> QED
    BY <1>1, <1>2, <1>4, <1>6, <2>1, FileItems DEF Filled
<1> QED
  BY <1>5, <1>6

LEMMA RestoredIsArray ==
    ASSUME NEW r, NEW good, NEW n \in Nat
    PROVE  IsArray(Restored(r, good, n))
<1>1. DOMAIN Restored(r, good, n) = 1..n
  BY DEF Restored
<1> QED
  BY <1>1 DEF IsArray

LEMMA RestoreSaveTablesItems ==
    ASSUME ParseInv, ItemsInv, RestoreSaveTables
    PROVE  ItemsInv'
<1> DEFINE base   == JmpRel(br_cur_base, locals.headers_size)
           header == RestoredClass(base, "Save Header", "SAVE_HEADER")
           levels == Restorables(Skip(base, 1), "ADJACENCY", header.connections)
           styled == Skip(base, 1 + header.connections)
           styles == IF levels = header.connections
                     THEN Restorables(styled, "LIGHTSTYLE", header.styles) ELSE 0
           a1 == Restored(Skip(base, 1), levels, header.connections)
           a2 == Restored(styled, styles, header.styles)
           f1 == [FileNow EXCEPT !.save_header = header]
           f2 == [FileNow EXCEPT !.save_header = header, !.adjacent_levels = a1,
                                 !.light_styles = a2]
<1>1. /\ pc = "block_header" /\ logged' = logged
      /\ \/ parsed' = parsed
         \/ parsed' = [parsed EXCEPT !.state_files[locals.sf] = f1]
         \/ /\ header \notin Unrestored
            /\ parsed' = [parsed EXCEPT !.state_files[locals.sf] = f2]
  BY DEF RestoreSaveTables, Return, FileNow
<1>2. locals.sf \in DOMAIN parsed.state_files /\ IsFile(FileNow) /\ Filled(FileNow)
  BY <1>1 DEF ParseInv, NowOK, FileNow, InFile, IsParsed, ItemsInv
<1>3. ASSUME header \notin Unrestored
      PROVE  IsArray(a1) /\ IsArray(a2)
  <2>1. base \in Reader(save) /\ save \in Saves
    BY JmpRelOK DEF ParseInv, ReadersOK
  <2> HIDE DEF base
  <2>2. header = Ahead(base, 1).val /\ Restorable(base, "Save Header")
    BY <1>3, <2>1, RestoredClassOK
  <2> HIDE DEF header
  <2>3. Fits(Ahead(base, 1)) /\ Ahead(base, 1).sym = "Save Header"
    BY <2>1, <2>2, RestorableOK
  <2>4. header \in [connections : Nat, styles : Nat]
    BY <2>2, <2>3, FitsIs
  <2>5. header.connections \in Nat /\ header.styles \in Nat
    BY <2>4
  <2> HIDE DEF levels, styled, styles
  <2> QED
    BY <2>5, RestoredIsArray
<1> HIDE DEF a1, a2, header
<1>4. /\ DOMAIN f1 = FileField /\ f1.type = FileNow.type
      /\ f1.headers = FileNow.headers /\ f1.blocks = FileNow.blocks
      /\ f1.adjacent_levels = FileNow.adjacent_levels /\ f1.light_styles = FileNow.light_styles
  BY <1>2 DEF IsFile, FileField
<1>5. /\ DOMAIN f2 = FileField /\ f2.type = FileNow.type
      /\ f2.headers = FileNow.headers /\ f2.blocks = FileNow.blocks
      /\ f2.adjacent_levels = a1 /\ f2.light_styles = a2
  BY <1>2 DEF IsFile, FileField
<1> HIDE DEF f1, f2
<1>6. IsFile(f1) /\ IsFile(f2) /\ pc \in InFile
  BY <1>1, <1>2, <1>4, <1>5 DEF IsFile, InFile
<1>7. CASE parsed' = parsed
  BY <1>1, <1>7, ItemsSame DEF ItemsInv
<1>8. CASE parsed' = [parsed EXCEPT !.state_files[locals.sf] = f1]
  BY <1>1, <1>2, <1>4, <1>6, <1>8, FileItems DEF Filled
<1>9. CASE header \notin Unrestored /\ parsed' = [parsed EXCEPT !.state_files[locals.sf] = f2]
  BY <1>1, <1>3, <1>5, <1>6, <1>9, FileItems
<1> QED
  BY <1>1, <1>7, <1>8, <1>9

LEMMA RestoreBlockHeaderItems ==
    ASSUME ParseInv, ItemsInv, RestoreBlockHeader
    PROVE  ItemsInv'
<1> DEFINE k      == locals.k
           h      == FileNow.headers[k]
           b      == h.name
           r      == JmpRel(br_cur_base, h.loc)
           was    == FileNow.blocks[b]
           block  == [was EXCEPT !.vec_idx = k]
           header == BlockHeader(b, r, block)
           Sets(new) == parsed' = [parsed EXCEPT !.state_files[locals.sf] =
                                      WithBlock(parsed.state_files[locals.sf], b, new)]
<1>1. /\ pc = "block_header" /\ k <= Len(FileNow.headers)
      /\ UNCHANGED logged \/ \E x, i, what : Log(x, i, what)
      /\ \/ parsed' = parsed
         \/ b \in Blocks /\ Sets(block)
         \/ b \in Blocks /\ h.loc # -1 /\ Sets([header.block EXCEPT !.header_parsed = TRUE])
         \/ b \in Blocks /\ h.loc # -1 /\ Sets(header.block)
  BY DEF RestoreBlockHeader, SetBlock, WithBlock, FileNow, Sf
<1>2. /\ locals.sf \in DOMAIN parsed.state_files /\ IsFile(FileNow)
      /\ k \in Nat /\ k # 0 /\ HeadersRead(logged, locals.sf, FileNow, k - 1)
  BY <1>1 DEF ParseInv, NowOK, ReadersOK, IsParsed, FileNow, InFile, FileType
<1>3. IsFiniteSet(logged')
  <2> HIDE DEF k, b, h, was, r, block, header
  <2> QED
    BY <1>1, LoggedFinite DEF ItemsInv
<1>4. CASE parsed' = parsed
  BY <1>3, <1>4, ItemsSame
<1>5. ASSUME b \in Blocks, NEW new, DOMAIN new = BlockField, new.items = <<>>, Sets(new)
      PROVE  ItemsInv'
  <2>1. IsArray(new.items) /\ DOMAIN new.items = {} /\ IsParsed(parsed)
    BY <1>5, NoItems DEF ParseInv
  <2> HIDE DEF b
  <2> QED
    BY <1>2, <1>3, <1>5, <2>1, BlockFilled
<1>6. ASSUME b \in Blocks PROVE DOMAIN was = BlockField /\ was.items = <<>>
  BY <1>2, <1>6 DEF IsFile, HeadersRead, Unread
<1>7. ASSUME b \in Blocks PROVE DOMAIN block = BlockField /\ block.items = <<>>
  <2> HIDE DEF was
  <2> QED
    BY <1>6, <1>7 DEF BlockField
<1>8. ASSUME b \in Blocks, h.loc # -1
      PROVE  DOMAIN header.block = BlockField /\ header.block.items = <<>>
  <2>1. k \in DOMAIN FileNow.headers /\ FileNow.headers \in Seq(Header)
    <3>1. k <= Len(FileNow.headers) /\ k \in Nat /\ k # 0 /\ IsFile(FileNow)
      BY <1>1, <1>2
    <3> HIDE DEF k
    <3> QED
      BY <3>1 DEF IsFile
  <2>2. h \in Header
    <3> HIDE DEF k
    <3> QED
      BY <2>1
  <2>3. h.loc \in Nat /\ save \in Saves /\ br_cur_base \in Reader(save)
    <3> HIDE DEF h
    <3> QED
      BY <1>8, <2>2 DEF Header, ParseInv, ReadersOK
  <2>4. r \in Reader(save)
    <3> HIDE DEF h
    <3> QED
      BY <2>3, JmpRelOK
  <2> HIDE DEF r, block, b, h
  <2> QED
    BY <1>7, <1>8, <2>3, <2>4, BlockHeaderOK
<1>9. ASSUME b \in Blocks, h.loc # -1
      PROVE  LET new == [header.block EXCEPT !.header_parsed = TRUE]
             IN  DOMAIN new = BlockField /\ new.items = <<>>
  <2> HIDE DEF header
  <2> QED
    BY <1>8, <1>9 DEF BlockField
<1> HIDE DEF k, h, b, was, r, block, header, Sets
<1> QED
  BY <1>1, <1>4, <1>5, <1>7, <1>8, <1>9

\* What a body fills a block with.
BodyFills(body) ==
    /\ IsArray(body.block.items)
    /\ \A i \in DOMAIN body.block.items : body.block.version = BlockVersion

LEMMA ArrayIsArray ==
    ASSUME NEW r, NEW dm, NEW sym, NEW n \in Nat
    PROVE  IsArray(Array(r, dm, sym, n).items)
BY RestoredIsArray, NoItems DEF Array

LEMMA TemplatesBodyFills ==
    ASSUME save \in Saves, NEW r \in Reader(save), NEW block, DOMAIN block = BlockField,
           block.items = <<>>
    PROVE  BodyFills(TemplatesBody(r, block))
<1> DEFINE dm    == "TemplateEntityData_t"
           n     == Num(r, 2)
           array == Array(Skip(r, 2), dm, dm, n)
           tried == 1 + Restorables(Skip(r, 2), dm, n)
           items == [k \in DOMAIN array.items |-> IF k <= tried THEN array.items[k] ELSE Nothing]
           body  == TemplatesBody(r, block)
<1>1. IsArray(array.items)
  <2>1. n \in Nat
    BY NumOK
  <2> HIDE DEF n
  <2> QED
    BY <2>1, ArrayIsArray
<1>2. \/ body.block = block
      \/ block.version = BlockVersion /\ body.block = [block EXCEPT !.items = items]
  BY DEF TemplatesBody
<1>3. IsArray(items)
  <2>1. DOMAIN items = DOMAIN array.items
    OBVIOUS
  <2> HIDE DEF array, items
  <2> QED
    BY <1>1, <2>1 DEF IsArray
<1> HIDE DEF array, items, body
<1>4. CASE body.block = block
  BY <1>4, NoItems DEF BodyFills, body
<1>5. CASE block.version = BlockVersion /\ body.block = [block EXCEPT !.items = items]
  <2>1. body.block.version = BlockVersion /\ body.block.items = items
    BY <1>5 DEF BlockField
  <2> QED
    BY <1>3, <2>1 DEF BodyFills, body
<1> QED
  BY <1>2, <1>4, <1>5

LEMMA EventQueueBodyFills ==
    ASSUME save \in Saves, NEW r \in Reader(save), NEW block, DOMAIN block = BlockField,
           block.items = <<>>
    PROVE  BodyFills(EventQueueBody(r, block))
<1> DEFINE queue == RestoredClass(r, "EventQueue", "CEventQueue")
           array == Array(Skip(r, 1), "EventQueuePrioritizedEvent_t", "PEvent", queue)
           body  == EventQueueBody(r, block)
<1>1. \/ body.block = block
      \/ body.block = [block EXCEPT !.queue = queue]
      \/ /\ block.version = BlockVersion /\ queue \notin Unrestored
         /\ body.block = [block EXCEPT !.queue = queue, !.items = array.items]
  BY DEF EventQueueBody
<1>2. ASSUME queue \notin Unrestored PROVE IsArray(array.items)
  <2>1. queue = Ahead(r, 1).val /\ Restorable(r, "EventQueue")
    BY <1>2, RestoredClassOK
  <2> HIDE DEF queue
  <2>2. Fits(Ahead(r, 1)) /\ Ahead(r, 1).sym = "EventQueue"
    BY <2>1, RestorableOK
  <2>3. queue \in Nat
    BY <2>1, <2>2, FitsIs
  <2> QED
    BY <2>3, ArrayIsArray
<1> HIDE DEF queue, array, body
<1>3. CASE body.block = block
  BY <1>3, NoItems DEF BodyFills, body
<1>4. CASE body.block = [block EXCEPT !.queue = queue]
  <2>1. body.block.items = <<>>
    BY <1>4 DEF BlockField
  <2> QED
    BY <2>1, NoItems DEF BodyFills, body
<1>5. CASE /\ block.version = BlockVersion /\ queue \notin Unrestored
           /\ body.block = [block EXCEPT !.queue = queue, !.items = array.items]
  <2>1. body.block.version = BlockVersion /\ body.block.items = array.items
    BY <1>5 DEF BlockField
  <2> QED
    BY <1>2, <1>5, <2>1 DEF BodyFills, body
<1> QED
  BY <1>1, <1>3, <1>4, <1>5

LEMMA RestoreBlockBodyItems ==
    ASSUME ParseInv, ItemsInv, RestoreBlockBody
    PROVE  ItemsInv'
<1> DEFINE k     == locals.k
           b     == BlockOrder[k]
           block == FileNow.blocks[b]
           loc   == FileNow.headers[block.vec_idx].body
           r     == JmpRel(locals.base, loc)
           body  == IF b = "Templates" THEN TemplatesBody(r, block) ELSE EventQueueBody(r, block)
           items == [i \in 1..block.count |-> Nothing]
           Sets(new) == parsed' = [parsed EXCEPT !.state_files[locals.sf] =
                                      WithBlock(parsed.state_files[locals.sf], b, new)]
<1>1. /\ pc = "block_body" /\ k <= Len(BlockOrder)
      /\ UNCHANGED logged \/ \E x, i, what : Log(x, i, what)
      /\ \/ parsed' = parsed
         \/ HasBody(FileNow, b) /\ b = "Entities" /\ Sets([block EXCEPT !.items = items])
         \/ HasBody(FileNow, b) /\ b # "Entities" /\ Sets([body.block EXCEPT !.body_parsed = TRUE])
         \/ HasBody(FileNow, b) /\ b # "Entities" /\ Sets(body.block)
  BY DEF RestoreBlockBody, SetBlock, WithBlock, FileNow, Sf, HasBody, BodyReader
<1>2. /\ locals.sf \in DOMAIN parsed.state_files /\ IsFile(FileNow) /\ FileNow.type = ".hl1"
      /\ k \in Nat /\ k # 0 /\ BodiesRead(logged, locals.sf, FileNow, k - 1)
      /\ FileNow = parsed.state_files[locals.sf] /\ IsParsed(parsed)
  BY <1>1 DEF ParseInv, NowOK, ReadersOK, IsParsed, FileNow, InFile, FileType
<1>3. k \in 1..8 /\ b \in Blocks
  <2>1. k <= 8
    BY <1>1, BlocksAre
  <2>2. k \in 1..8
    BY <1>2, <2>1
  <2> QED
    BY <2>2, BlocksAre
<1>4. /\ HeaderSound(FileNow, b) /\ Unread(block) /\ DOMAIN block = BlockField
  <2>1. k \in DOMAIN BlockOrder /\ ~(k <= k - 1)
    BY <1>3, BlocksAre
  <2> QED
    BY <1>2, <1>3, <2>1 DEF BodiesRead, IsFile
<1>5. IsFiniteSet(logged')
  <2> HIDE DEF k, b, block, loc, r, body, items
  <2> QED
    BY <1>1, LoggedFinite DEF ItemsInv
<1>6. CASE parsed' = parsed
  BY <1>5, <1>6, ItemsSame
<1>7. ASSUME HasBody(FileNow, b)
      PROVE  /\ block.header_parsed /\ block.vec_idx # 0 /\ loc \in Nat
             /\ b \in Handled /\ (b = "Entities" => block.count \in Nat)
  <2>1. block.header_parsed /\ block.vec_idx \in DOMAIN FileNow.headers /\ loc # -1 /\ b \in Handled
        /\ (b = "Entities" => block.count \in Nat)
    BY <1>4, <1>7 DEF HasBody, HeaderSound
  <2> HIDE DEF block
  <2>2. block.vec_idx # 0 /\ FileNow.headers[block.vec_idx] \in Header
    BY <1>2, <2>1 DEF IsFile
  <2> QED
    BY <2>1, <2>2 DEF Header
<1>8. ASSUME HasBody(FileNow, b), b # "Entities"
      PROVE  BodyFills(body) /\ BodyMakes(body, b, block)
  <2>1. r \in Reader(save) /\ save \in Saves
    <3> HIDE DEF loc
    <3> QED
      BY <1>7, <1>8, JmpRelOK DEF ParseInv, ReadersOK
  <2>2. b \in {"Templates", "EventQueue"}
    BY <1>7, <1>8 DEF Handled
  <2>3. CASE b = "Templates"
    <3> HIDE DEF b, block, r
    <3> QED
      BY <1>4, <2>1, <2>3, TemplatesBodyOK, TemplatesBodyFills DEF Unread
  <2>4. CASE b = "EventQueue"
    <3> HIDE DEF b, block, r
    <3> QED
      BY <1>4, <2>1, <2>4, EventQueueBodyOK, EventQueueBodyFills DEF Unread
  <2> QED
    BY <2>2, <2>3, <2>4
<1>9. ASSUME HasBody(FileNow, b), NEW new, DOMAIN new = BlockField, Sets(new),
             new.header_parsed = block.header_parsed, new.vec_idx = block.vec_idx,
             IsArray(new.items),
             \A i \in DOMAIN new.items : b # "Entities" => new.version = BlockVersion
      PROVE  ItemsInv'
  <2>1. IsDumped(new)
    <3> HIDE DEF block
    <3> QED
      BY <1>7, <1>9 DEF IsDumped
  <2> HIDE DEF b
  <2> QED
    BY <1>2, <1>3, <1>5, <1>9, <2>1, BlockFilled
<1>10. ASSUME HasBody(FileNow, b), b = "Entities"
       PROVE  LET new == [block EXCEPT !.items = items]
              IN  /\ DOMAIN new = BlockField
                  /\ new.header_parsed = block.header_parsed /\ new.vec_idx = block.vec_idx
                  /\ IsArray(new.items)
  <2>1. IsArray(items)
    <3>1. block.count \in Nat
      BY <1>7, <1>10
    <3> HIDE DEF block
    <3>2. DOMAIN items = 1..block.count
      OBVIOUS
    <3> HIDE DEF items
    <3> QED
      BY <3>1, <3>2 DEF IsArray
  <2> HIDE DEF block, items
  <2> QED
    BY <1>4, <2>1 DEF BlockField
<1>11. ASSUME HasBody(FileNow, b), b # "Entities"
       PROVE  LET new == [body.block EXCEPT !.body_parsed = TRUE]
              IN  /\ DOMAIN new = BlockField
                  /\ new.header_parsed = block.header_parsed /\ new.vec_idx = block.vec_idx
                  /\ new.items = body.block.items /\ new.version = body.block.version
  <2> HIDE DEF block, body
  <2> QED
    BY <1>8, <1>11 DEF BodyMakes, BlockField
<1> HIDE DEF k, b, block, loc, r, body, items
<1>12. CASE HasBody(FileNow, b) /\ b = "Entities" /\ Sets([block EXCEPT !.items = items])
  <2> HIDE DEF Sets
  <2> QED
    BY <1>9, <1>10, <1>12
<1>13. CASE HasBody(FileNow, b) /\ b # "Entities" /\ Sets([body.block EXCEPT !.body_parsed = TRUE])
  <2> HIDE DEF Sets
  <2> QED
    BY <1>8, <1>9, <1>11, <1>13 DEF BodyFills
<1>14. CASE HasBody(FileNow, b) /\ b # "Entities" /\ Sets(body.block)
  <2> HIDE DEF Sets
  <2> QED
    BY <1>8, <1>9, <1>14 DEF BodyFills, BodyMakes
<1> HIDE DEF Sets
<1> QED
  BY <1>1, <1>6, <1>12, <1>13, <1>14

\* The items of the entities are exchanged, or nothing but a flag.
LEMMA EntitiesItems ==
    ASSUME ParseInv, ItemsInv, pc = "entity",
           NEW new, DOMAIN new = BlockField,
           new.header_parsed = FileNow.blocks["Entities"].header_parsed,
           new.vec_idx = FileNow.blocks["Entities"].vec_idx,
           DOMAIN new.items = DOMAIN FileNow.blocks["Entities"].items,
           parsed' = [parsed EXCEPT !.state_files[locals.sf] =
                         WithBlock(FileNow, "Entities", new)],
           IsFiniteSet(logged')
    PROVE  ItemsInv'
<1> DEFINE block == FileNow.blocks["Entities"]
<1>1. /\ locals.sf \in DOMAIN parsed.state_files /\ FileNow.type = ".hl1"
      /\ FileNow = parsed.state_files[locals.sf] /\ IsParsed(parsed)
      /\ Filled(FileNow)
  BY DEF ParseInv, NowOK, IsParsed, FileNow, InFile, FileType, ItemsInv
<1>2. FilledBlock(FileNow, "Entities")
  BY <1>1, BlocksAre DEF Filled
<1>3. IsArray(new.items) /\ (\A i \in DOMAIN new.items : IsDumped(new))
  BY <1>2 DEF FilledBlock, IsArray, IsDumped
<1> QED
  BY <1>1, <1>3, BlocksAre, BlockFilled

LEMMA RestoreEntityItems ==
    ASSUME ParseInv, ItemsInv, RestoreEntity
    PROVE  ItemsInv'
<1>3. pc = "entity" /\ locals.sf \in DOMAIN parsed.state_files /\ IsFile(FileNow)
  <2>1. pc = "entity"
    BY DEF RestoreEntity
  <2> QED
    BY <2>1 DEF ParseInv, NowOK, IsParsed, FileNow, InFile
<1> DEFINE block  == FileNow.blocks["Entities"]
           i      == locals.i
           info   == block.table[i]
           r      == JmpRel(br_cur_base, info.location)
           entity == Entity(r, info.classname)
           new    == [block EXCEPT !.items[i] = entity]
<1>1. /\ UNCHANGED logged \/ \E x, j, what : Log(x, j, what)
      /\ \/ parsed' = parsed
         \/ parsed' = [parsed EXCEPT !.state_files[locals.sf] =
                          WithBlock(FileNow, "Entities", new)]
  BY DEF RestoreEntity, AfterEntity, SetBlock, WithBlock, FileNow, Sf
<1>2. IsFiniteSet(logged')
  <2> HIDE DEF block, i, info, r, entity, new
  <2> QED
    BY <1>1, LoggedFinite DEF ItemsInv
<1>4. DOMAIN block = BlockField
  BY <1>3, BlocksAre DEF IsFile
<1>5. /\ DOMAIN new = BlockField /\ new.header_parsed = block.header_parsed
      /\ new.vec_idx = block.vec_idx /\ DOMAIN new.items = DOMAIN block.items
  <2> HIDE DEF block, i, entity
  <2> QED
    BY <1>4 DEF BlockField
<1>6. CASE parsed' = parsed
  BY <1>2, <1>6, ItemsSame
<1>7. CASE parsed' = [parsed EXCEPT !.state_files[locals.sf] =
                          WithBlock(FileNow, "Entities", new)]
  <2>1. /\ new.header_parsed = FileNow.blocks["Entities"].header_parsed
        /\ new.vec_idx = FileNow.blocks["Entities"].vec_idx
        /\ DOMAIN new.items = DOMAIN FileNow.blocks["Entities"].items
    BY <1>5
  <2> HIDE DEF new
  <2> QED
    BY <1>2, <1>3, <1>5, <1>7, <2>1, EntitiesItems
<1> HIDE DEF new
<1> QED
  BY <1>1, <1>6, <1>7

LEMMA EndEntitiesItems ==
    ASSUME ParseInv, ItemsInv, EndEntities
    PROVE  ItemsInv'
<1> DEFINE block == FileNow.blocks["Entities"]
           new   == [block EXCEPT !.body_parsed = TRUE]
<1>1. /\ pc = "entity" /\ logged' = logged
      /\ parsed' = [parsed EXCEPT !.state_files[locals.sf] = WithBlock(FileNow, "Entities", new)]
  BY DEF EndEntities, SetBlock, WithBlock, FileNow, Sf
<1>2. locals.sf \in DOMAIN parsed.state_files /\ IsFile(FileNow) /\ IsFiniteSet(logged')
  BY <1>1 DEF ParseInv, NowOK, IsParsed, FileNow, InFile, ItemsInv
<1>3. DOMAIN block = BlockField
  BY <1>2, BlocksAre DEF IsFile
<1>4. /\ DOMAIN new = BlockField /\ new.header_parsed = block.header_parsed
      /\ new.vec_idx = block.vec_idx /\ DOMAIN new.items = DOMAIN block.items
  <2> HIDE DEF block
  <2> QED
    BY <1>3 DEF BlockField
<1> HIDE DEF new
<1> QED
  BY <1>1, <1>2, <1>4, EntitiesItems

LEMMA ParseNextItems ==
    ASSUME ParseInv, ItemsInv, ParseNext
    PROVE  ItemsInv'
<1>1. ASSUME ParseHeader \/ ParseHl2 \/ RestoreBlockBodies \/ EndHl1 \/ OutOfMemory
      PROVE  ItemsInv'
  <2>1. parsed' = parsed /\ logged' = logged
    BY <1>1 DEF ParseHeader, ParseHl2, RestoreBlockBodies, EndHl1, OutOfMemory
  <2> QED
    BY <2>1, ItemsSame DEF ItemsInv
<1> QED
  BY <1>1, ParseGlobalsItems, ParseStateFileItems, ParseHl3Items, ParseHl1Items,
     RestoreBlockHeaderItems, RestoreSaveTablesItems, RestoreBlockBodyItems,
     RestoreEntityItems, EndEntitiesItems DEF ParseNext

LEMMA InitItems ==
    ASSUME Init
    PROVE  ItemsInv
BY FS_EmptySet DEF Init, ItemsInv
-----------------------------------------------------------------------------
(* What is shown *)

IsSeq(s) == \E S : s \in Seq(S)

ShownOnce(s, line) == \E n \in DOMAIN s : s[n] = line /\ \A m \in DOMAIN s : s[m] = line => m = n
NotShown(s, line)  == \A n \in DOMAIN s : s[n] # line

Items(k, j)   == parsed.state_files[k].blocks[BlockOrder[j]].items
Line(k, j, i) == <<k, BlockOrder[j], i, Items(k, j)[i]>>

\* A dump that is at a, in loop d, is past element i of the j-th block of file k.
Passed(a, d, k, j, i) ==
    \/ k < a.sf
    \/ k = a.sf /\ d \in {"block", "item"} /\ j < a.k
    \/ k = a.sf /\ d = "item" /\ j = a.k /\ i < a.i

\* Just the elements it is past are in s, each once.
LineShown(s, a, d, k, j, i) ==
    IF Passed(a, d, k, j, i) THEN ShownOnce(s, Line(k, j, i)) ELSE NotShown(s, Line(k, j, i))

PassedShown(s, a, d) ==
    \A k \in DOMAIN parsed.state_files, j \in 1..8 :
        \A i \in DOMAIN Items(k, j) : Items(k, j)[i] # Nothing => LineShown(s, a, d, k, j, i)

ErrorsShown(s, log) == \A e \in log : \E n \in DOMAIN s : s[n] = <<"error", e>>

ShownInv ==
    /\ IsSeq(shown) /\ IsFiniteSet(complained)
    /\ dpc = "start" => shown = <<>> /\ at.sf = 1
    /\ dpc # "done" => dump_err = "none"
    /\ dpc \notin {"start", "crashed"} /\ dump_err = "none" => PassedShown(shown, at, dpc)
    /\ dpc = "done" /\ dump_err = "none" => /\ at.sf > Len(parsed.state_files)
                                           /\ ErrorsShown(shown, logged)

LEMMA SeqAppend ==
    ASSUME NEW s, NEW t, IsSeq(s), IsSeq(t)
    PROVE  /\ IsSeq(s \o t) /\ Len(s) \in Nat /\ Len(t) \in Nat
           /\ DOMAIN s = 1..Len(s) /\ DOMAIN t = 1..Len(t)
           /\ DOMAIN (s \o t) = 1..(Len(s) + Len(t))
           /\ \A n \in DOMAIN s : (s \o t)[n] = s[n]
           /\ \A n \in DOMAIN t : (s \o t)[Len(s) + n] = t[n]
<1>1. PICK S, T : s \in Seq(S) /\ t \in Seq(T)
  BY DEF IsSeq
<1>2. s \in Seq(S \cup T) /\ t \in Seq(S \cup T)
  BY <1>1
<1>3. s \o t \in Seq(S \cup T)
  BY <1>2
<1>4. IsSeq(s \o t)
  BY <1>3 DEF IsSeq
<1> QED
  BY <1>2, <1>3, <1>4

LEMMA Appended ==
    ASSUME NEW s, NEW t, IsSeq(s), IsSeq(t)
    PROVE  \A n \in DOMAIN (s \o t) :
              \/ n \in DOMAIN s /\ (s \o t)[n] = s[n]
              \/ \E m \in DOMAIN t : n = Len(s) + m /\ (s \o t)[n] = t[m]
<1> SUFFICES ASSUME NEW n \in DOMAIN (s \o t), n \notin DOMAIN s
             PROVE  \E m \in DOMAIN t : n = Len(s) + m /\ (s \o t)[n] = t[m]
  BY SeqAppend
<1> DEFINE m == n - Len(s)
<1>1. m \in DOMAIN t /\ n = Len(s) + m
  BY SeqAppend
<1> HIDE DEF m
<1> QED
  BY <1>1, SeqAppend

\* What is shown after something else.
LEMMA ShownBefore ==
    ASSUME NEW s, NEW t, IsSeq(s), IsSeq(t), NEW line, NotShown(t, line)
    PROVE  /\ NotShown(s, line) => NotShown(s \o t, line)
           /\ ShownOnce(s, line) => ShownOnce(s \o t, line)
<1>1. \A n \in DOMAIN (s \o t) : (s \o t)[n] = line => n \in DOMAIN s /\ s[n] = line
  BY Appended DEF NotShown
<1>2. \A n \in DOMAIN s : n \in DOMAIN (s \o t) /\ (s \o t)[n] = s[n]
  BY SeqAppend
<1> HIDE DEF NotShown
<1>3. ASSUME NotShown(s, line) PROVE NotShown(s \o t, line)
  BY <1>1, <1>3 DEF NotShown
<1>4. ASSUME ShownOnce(s, line) PROVE ShownOnce(s \o t, line)
  BY <1>1, <1>2, <1>4 DEF ShownOnce
<1> QED
  BY <1>3, <1>4

LEMMA ShownNow ==
    ASSUME NEW s, IsSeq(s), NEW line, NotShown(s, line)
    PROVE  ShownOnce(s \o <<line>>, line)
<1> DEFINE t == <<line>>
<1>1. IsSeq(t) /\ DOMAIN t = {1} /\ t[1] = line
  <2>1. t \in Seq({line}) /\ DOMAIN t = {1} /\ t[1] = line
    OBVIOUS
  <2> HIDE DEF t
  <2> QED
    BY <2>1 DEF IsSeq
<1> HIDE DEF t
<1>2. \A n \in DOMAIN (s \o t) : (s \o t)[n] = line => n = Len(s) + 1
  BY <1>1, Appended DEF NotShown
<1>3. Len(s) + 1 \in DOMAIN (s \o t) /\ (s \o t)[Len(s) + 1] = line
  BY <1>1, SeqAppend
<1>4. ShownOnce(s \o t, line)
  BY <1>2, <1>3 DEF ShownOnce
<1> QED
  BY <1>4 DEF t

\* The dump goes on, and shows nothing that is in the blocks.
LEMMA OnlyElsewhere ==
    ASSUME PassedShown(shown, at, dpc), parsed' = parsed, IsSeq(shown),
           NEW t, IsSeq(t), shown' = shown \o t,
           \A k \in DOMAIN parsed.state_files, j \in 1..8 :
              \A i \in DOMAIN Items(k, j) : Items(k, j)[i] # Nothing =>
                 /\ Passed(at', dpc', k, j, i) <=> Passed(at, dpc, k, j, i)
                 /\ NotShown(t, Line(k, j, i))
    PROVE  IsSeq(shown') /\ PassedShown(shown, at, dpc)'
<1>1. ASSUME NEW k \in DOMAIN parsed.state_files, NEW j \in 1..8, NEW i \in DOMAIN Items(k, j),
             Items(k, j)[i] # Nothing
      PROVE  LineShown(shown', at', dpc', k, j, i)
  <2>1. LineShown(shown, at, dpc, k, j, i)
    BY <1>1 DEF PassedShown
  <2>2. /\ Passed(at', dpc', k, j, i) <=> Passed(at, dpc, k, j, i)
        /\ NotShown(t, Line(k, j, i))
    BY <1>1
  <2> DEFINE line == Line(k, j, i)
             was  == Passed(at, dpc, k, j, i)
             now  == Passed(at', dpc', k, j, i)
  <2>3. IF was THEN ShownOnce(shown, line) ELSE NotShown(shown, line)
    BY <2>1 DEF LineShown
  <2>4. (now <=> was) /\ NotShown(t, line)
    BY <2>2
  <2> HIDE DEF line, was, now
  <2>5. IF now THEN ShownOnce(shown \o t, line) ELSE NotShown(shown \o t, line)
    BY <2>3, <2>4, ShownBefore
  <2> QED
    BY <2>5 DEF LineShown, line, now
<1>2. IsSeq(shown')
  BY SeqAppend
<1>3. \A k, j : Items(k, j)' = Items(k, j)
  BY DEF Items
<1>4. \A k, j, i : Line(k, j, i)' = Line(k, j, i)
  BY DEF Line, Items
<1>5. \A k \in DOMAIN parsed.state_files, j \in 1..8 :
         \A i \in DOMAIN Items(k, j) :
            Items(k, j)[i] # Nothing => LineShown(shown, at, dpc, k, j, i)'
  BY <1>1, <1>4 DEF LineShown
<1> QED
  BY <1>2, <1>3, <1>5 DEF PassedShown

\* It goes on and shows nothing.
LEMMA NothingShown ==
    ASSUME PassedShown(shown, at, dpc), parsed' = parsed, IsSeq(shown), shown' = shown,
           \A k \in DOMAIN parsed.state_files, j \in 1..8 :
              \A i \in DOMAIN Items(k, j) : Items(k, j)[i] # Nothing =>
                 (Passed(at', dpc', k, j, i) <=> Passed(at, dpc, k, j, i))
    PROVE  IsSeq(shown') /\ PassedShown(shown, at, dpc)'
<1>1. <<>> \in Seq({}) /\ DOMAIN <<>> = {}
  BY NoItems
<1>2. IsSeq(<<>>)
  BY <1>1 DEF IsSeq
<1>3. shown' = shown \o <<>>
  BY DEF IsSeq
<1>4. \A line : NotShown(<<>>, line)
  BY <1>1 DEF NotShown
<1> QED
  BY <1>2, <1>3, <1>4, OnlyElsewhere

LEMMA SeqOfSet ==
    ASSUME NEW S, IsFiniteSet(S)
    PROVE  /\ SetToSeq(S) \in Seq(S)
           /\ \A x \in S : \E n \in DOMAIN SetToSeq(S) : SetToSeq(S)[n] = x
<1> DEFINE c == Cardinality(S)
           s == SetToSeq(S)
<1>1. c \in Nat /\ ExistsBijection(1..c, S)
  BY FS_CardinalityType
<1>2. \E f \in [1..c -> S] : IsInjective(f)
  BY <1>1 DEF ExistsBijection, Bijection, Injection
<1>3. s \in [1..c -> S] /\ IsInjective(s)
  BY <1>2 DEF SetToSeq
<1> HIDE DEF s
<1>4. s \in Injection(1..c, S)
  BY <1>3 DEF Injection
<1>5. IsFiniteSet(1..c) /\ Cardinality(1..c) = c
  <2> HIDE DEF c
  <2> QED
    BY <1>1, FS_Interval
<1>6. s \in Surjection(1..c, S)
  BY <1>4, <1>5, FS_Injection
<1>7. s \in Seq(S)
  <2> HIDE DEF c
  <2> QED
    BY <1>1, <1>3
<1>8. \A x \in S : \E n \in DOMAIN s : s[n] = x
  BY <1>3, <1>6 DEF Surjection
<1> QED
  BY <1>7, <1>8 DEF s

LEMMA ErrorsFinite ==
    ASSUME NEW S, IsFiniteSet(S)
    PROVE  IsFiniteSet({<<"error", e>> : e \in S})
<1> DEFINE T == {<<"error", e>> : e \in S}
           f == [e \in S |-> <<"error", e>>]
<1>1. f \in Surjection(S, T)
  BY DEF Surjection
<1> HIDE DEF f
<1>2. IsFiniteSet(T)
  BY <1>1, FS_Surjection
<1> QED
  BY <1>2

\* Elements are only in blocks that are dumped.
LEMMA ElementOK ==
    ASSUME ParseInv, ItemsInv, NEW k \in DOMAIN parsed.state_files, NEW j \in 1..8,
           NEW i \in DOMAIN Items(k, j)
    PROVE  LET block == parsed.state_files[k].blocks[BlockOrder[j]]
           IN  /\ k \in Nat /\ k # 0 /\ k <= Len(parsed.state_files)
               /\ i \in Nat /\ i # 0 /\ BlockOrder[j] \in Blocks
               /\ parsed.state_files[k].type = ".hl1" /\ IsDumped(block)
               /\ BlockOrder[j] # "Entities" => block.version = BlockVersion
<1>1. /\ k \in Nat /\ k # 0 /\ k <= Len(parsed.state_files)
  BY DEF ParseInv, IsParsed
<1>2. BlockOrder[j] \in Blocks
  BY BlocksAre
<1>3. FilledBlock(parsed.state_files[k], BlockOrder[j])
  BY <1>2 DEF ItemsInv, Filled
<1>4. i \in Nat /\ i # 0
  BY <1>3 DEF FilledBlock, IsArray, Items
<1> QED
  BY <1>1, <1>2, <1>3, <1>4 DEF FilledBlock, Items

LEMMA DumpSavShows ==
    ASSUME ParseInv, ItemsInv, DumpInv, ShownInv, DumpSav, UNCHANGED parse_vars
    PROVE  ShownInv'
<1> DEFINE t == << <<0, "GameHeader", 0, parsed.game_header>>,
                   <<0, "GLOBAL", 0, parsed.global_state>> >>
<1>1. /\ UNCHANGED <<parsed, logged, dump_err, complained, at>> /\ dpc = "start"
      /\ \/ dpc' = "crashed" /\ shown' = shown
         \/ dpc' = "state_file" /\ shown' = shown \o t
  BY DEF DumpSav, Crash, Show, parse_vars
<1>2. dump_err = "none" /\ shown = <<>> /\ at.sf = 1
  BY <1>1 DEF ShownInv
<1>3. CASE dpc' = "crashed" /\ shown' = shown
  BY <1>1, <1>2, <1>3 DEF ShownInv
<1>4. CASE dpc' = "state_file" /\ shown' = shown \o t
  <2>1. t \in Seq({t[1], t[2]}) /\ DOMAIN t = 1..2 /\ t[1][1] = 0 /\ t[2][1] = 0
    OBVIOUS
  <2> HIDE DEF t
  <2>2. IsSeq(t)
    BY <2>1 DEF IsSeq
  <2>3. IsSeq(shown')
    BY <1>4, <2>2, SeqAppend DEF ShownInv
  <2>4. shown' = t
    BY <1>2, <1>4, <2>1
  <2>5. ASSUME NEW k \in DOMAIN parsed.state_files, NEW j \in 1..8, NEW i \in DOMAIN Items(k, j)
        PROVE  LineShown(t, at, "state_file", k, j, i)
    <3>1. k \in Nat /\ k # 0
      BY <2>5, ElementOK
    <3>2. ~Passed(at, "state_file", k, j, i)
      BY <1>2, <3>1 DEF Passed
    <3>3. Line(k, j, i)[1] = k
      BY DEF Line
    <3>4. NotShown(t, Line(k, j, i))
      BY <2>1, <3>1, <3>3 DEF NotShown
    <3> QED
      BY <3>2, <3>4 DEF LineShown
  <2>6. PassedShown(shown, at, dpc)'
    <3>1. \A k, j, i : Items(k, j)' = Items(k, j) /\ Line(k, j, i)' = Line(k, j, i)
      BY <1>1 DEF Line, Items
    <3> QED
      BY <1>1, <1>4, <2>4, <2>5, <3>1 DEF PassedShown, LineShown
  <2> QED
    BY <1>1, <1>2, <1>4, <2>3, <2>6 DEF ShownInv
<1> QED
  BY <1>1, <1>3, <1>4

\* The dump goes on.
LEMMA DumpGoesOn ==
    ASSUME ShownInv, dpc \in {"state_file", "block", "item"},
           dpc' \in {"state_file", "block", "item"}, dump_err' = dump_err,
           IsFiniteSet(complained'), IsSeq(shown'), PassedShown(shown, at, dpc)'
    PROVE  ShownInv'
BY DEF ShownInv

LEMMA DumpCrashes ==
    ASSUME ShownInv, dpc \in {"state_file", "block", "item"}, Crash, dump_err' = dump_err
    PROVE  ShownInv'
BY DEF ShownInv, Crash

LEMMA FactsShow ==
    ASSUME NEW b, NEW array, IsArray(array)
    PROVE  /\ IsSeq(Facts(b, array))
           /\ \A n \in DOMAIN Facts(b, array) : Facts(b, array)[n][2] = b
<1> DEFINE s == Facts(b, array)
           S == {s[n] : n \in DOMAIN s}
<1>1. DOMAIN s = DOMAIN array /\ \A n \in DOMAIN s : s[n] = <<at.sf, b, n, array[n]>>
  BY DEF Facts
<1>2. s = [n \in DOMAIN array |-> s[n]]
  BY DEF Facts
<1> HIDE DEF s
<1>3. PICK l \in Nat : DOMAIN array = 1..l
  BY DEF IsArray
<1>4. s \in [1..l -> S]
  BY <1>1, <1>2, <1>3
<1>5. s \in Seq(S)
  <2> HIDE DEF S
  <2> QED
    BY <1>3, <1>4
<1>6. IsSeq(s)
  BY <1>5 DEF IsSeq
<1>7. \A n \in DOMAIN s : s[n][2] = b
  BY <1>1
<1> QED
  BY <1>6, <1>7 DEF s

LEMMA NoSuchBlock ==
    \A b \in Blocks : b \notin {"Save Header", "ADJACENCY", "LIGHTSTYLE"}
<1>1. DOMAIN BlockOrder = 1..8
  BY BlocksAre
<1>2. \A k \in 1..8 : \/ BlockOrder[k] = "Entities" \/ BlockOrder[k] = "Physics"
                      \/ BlockOrder[k] = "AI" \/ BlockOrder[k] = "Templates"
                      \/ BlockOrder[k] = "ResponseSystem" \/ BlockOrder[k] = "Commentary"
                      \/ BlockOrder[k] = "EventQueue" \/ BlockOrder[k] = "Achievement"
  BY DEF BlockOrder
<1> QED
  BY <1>1, <1>2 DEF Blocks

LEMMA NotShownEither ==
    ASSUME NEW s, NEW t, IsSeq(s), IsSeq(t), NEW line, NotShown(s, line), NotShown(t, line)
    PROVE  NotShown(s \o t, line)
BY ShownBefore

LEMMA DumpStateFileShows ==
    ASSUME ParseInv, ItemsInv, DumpInv, ShownInv, DumpStateFile, UNCHANGED parse_vars
    PROVE  ShownInv'
<1> DEFINE t1 == << <<at.sf, "Save Header", 0, File.save_header>> >>
           t2 == Facts("ADJACENCY", File.adjacent_levels)
           t3 == Facts("LIGHTSTYLE", File.light_styles)
           t  == t1 \o t2 \o t3
<1>1. /\ dpc = "state_file" /\ UNCHANGED <<parsed, logged, dump_err>>
      /\ at \in [sf : Nat, k : Nat, i : Nat] /\ at.sf # 0 /\ at.k # 0 /\ at.i # 0
      /\ at.sf <= Len(parsed.state_files) /\ dump_err = "none"
  BY DEF DumpStateFile, DumpInv, ShownInv, parse_vars
<1>2. PassedShown(shown, at, dpc) /\ IsSeq(shown) /\ IsFiniteSet(complained)
  BY <1>1 DEF ShownInv
<1>3. at.sf \in DOMAIN parsed.state_files /\ File.type \in FileType /\ Filled(File)
  BY <1>1 DEF ParseInv, IsParsed, IsFile, File, ItemsInv
<1>4. CASE File.type = ".hl1" /\ Crash
  BY <1>1, <1>4, DumpCrashes
<1>5. CASE /\ File.type = ".hl1" /\ shown' = shown \o t
           /\ dpc' = "block" /\ at' = [at EXCEPT !.k = 1] /\ complained' = complained
  <2>1. IsSeq(t) /\ \A j \in 1..8 : \A k, i : NotShown(t, Line(k, j, i))
    <3>1. IsSeq(t1) /\ t1[1][2] = "Save Header" /\ DOMAIN t1 = {1}
      <4>1. t1 \in Seq({t1[1]}) /\ DOMAIN t1 = {1} /\ t1[1][2] = "Save Header"
        OBVIOUS
      <4> HIDE DEF t1
      <4> QED
        BY <4>1 DEF IsSeq
    <3>2. IsSeq(t2) /\ \A n \in DOMAIN t2 : t2[n][2] = "ADJACENCY"
      BY <1>3, FactsShow DEF Filled
    <3>3. IsSeq(t3) /\ \A n \in DOMAIN t3 : t3[n][2] = "LIGHTSTYLE"
      BY <1>3, FactsShow DEF Filled
    <3> HIDE DEF t1, t2, t3
    <3>4. ASSUME NEW j \in 1..8, NEW k, NEW i
          PROVE  NotShown(t1, Line(k, j, i)) /\ NotShown(t2, Line(k, j, i))
                 /\ NotShown(t3, Line(k, j, i))
      <4>1. Line(k, j, i)[2] = BlockOrder[j]
        BY DEF Line
      <4>2. BlockOrder[j] \notin {"Save Header", "ADJACENCY", "LIGHTSTYLE"}
        BY BlocksAre, NoSuchBlock
      <4>3. \A n \in DOMAIN t1 : t1[n][2] = "Save Header"
        BY <3>1
      <4> DEFINE line == Line(k, j, i)
      <4> HIDE DEF line
      <4>4. line[2] \notin {"Save Header", "ADJACENCY", "LIGHTSTYLE"}
        BY <4>1, <4>2 DEF line
      <4>5. NotShown(t1, line) /\ NotShown(t2, line) /\ NotShown(t3, line)
        BY <3>2, <3>3, <4>3, <4>4 DEF NotShown
      <4> QED
        BY <4>5 DEF line
    <3>5. IsSeq(t1 \o t2)
      BY <3>1, <3>2, SeqAppend
    <3> HIDE DEF NotShown
    <3> QED
      BY <3>1, <3>2, <3>3, <3>4, <3>5, SeqAppend, NotShownEither
  <2> HIDE DEF t
  <2>2. \A k, j, i : j \in 1..8 => (Passed(at', dpc', k, j, i) <=> Passed(at, dpc, k, j, i))
    BY <1>1, <1>5 DEF Passed
  <2>3. IsSeq(shown') /\ PassedShown(shown, at, dpc)'
    BY <1>1, <1>2, <1>5, <2>1, <2>2, OnlyElsewhere
  <2> QED
    BY <1>1, <1>2, <1>5, <2>3, DumpGoesOn
<1>6. CASE /\ File.type # ".hl1" /\ UNCHANGED <<dpc, shown>> /\ at' = [at EXCEPT !.sf = @ + 1]
           /\ IsFiniteSet(complained')
  <2>1. ASSUME NEW k \in DOMAIN parsed.state_files, NEW j \in 1..8, NEW i \in DOMAIN Items(k, j)
        PROVE  Passed(at', dpc', k, j, i) <=> Passed(at, dpc, k, j, i)
    <3>1. k \in Nat /\ k # at.sf
      BY <1>6, <2>1, ElementOK DEF File
    <3> QED
      BY <1>1, <1>6, <3>1 DEF Passed
  <2>2. IsSeq(shown') /\ PassedShown(shown, at, dpc)'
    BY <1>1, <1>2, <1>6, <2>1, NothingShown
  <2> QED
    BY <1>1, <1>2, <1>6, <2>2, DumpGoesOn
<1>7. \/ File.type = ".hl1" /\ Crash
      \/ /\ File.type = ".hl1" /\ shown' = shown \o t
         /\ dpc' = "block" /\ at' = [at EXCEPT !.k = 1] /\ complained' = complained
      \/ /\ File.type # ".hl1" /\ UNCHANGED <<dpc, shown>> /\ at' = [at EXCEPT !.sf = @ + 1]
         /\ \/ complained' = complained
            \/ complained' = complained \cup {<<at.sf, File.type>>}
  BY <1>3 DEF DumpStateFile, Show, FileType
<1>8. IsFiniteSet(complained \cup {<<at.sf, File.type>>})
  BY <1>2, FS_AddElement
<1> HIDE DEF t
<1> QED
  BY <1>2, <1>4, <1>5, <1>6, <1>7, <1>8

LEMMA DumpBlockShows ==
    ASSUME ParseInv, ItemsInv, DumpInv, ShownInv, DumpBlock, UNCHANGED parse_vars
    PROVE  ShownInv'
<1> DEFINE b     == BlockOrder[at.k]
           funny == b # "Entities" /\ Block.version # BlockVersion
<1>1. /\ dpc = "block" /\ UNCHANGED <<parsed, logged, dump_err>>
      /\ at \in [sf : Nat, k : Nat, i : Nat] /\ at.sf # 0 /\ at.k # 0 /\ at.i # 0
      /\ at.k \in 1..8 /\ dump_err = "none"
  BY BlocksAre DEF DumpBlock, DumpInv, ShownInv, parse_vars
<1>2. PassedShown(shown, at, dpc) /\ IsSeq(shown) /\ IsFiniteSet(complained)
  BY <1>1 DEF ShownInv
<1>3. \/ /\ ~IsDumped(Block) \/ funny
         /\ at' = [at EXCEPT !.k = @ + 1] /\ UNCHANGED <<dpc, shown>>
         /\ \/ complained' = complained \cup {}
            \/ complained' = complained \cup {<<at.sf, b>>}
      \/ Crash
      \/ dpc' = "item" /\ at' = [at EXCEPT !.i = 1] /\ UNCHANGED <<shown, complained>>
  BY DEF DumpBlock
<1>4. CASE /\ ~IsDumped(Block) \/ funny
           /\ at' = [at EXCEPT !.k = @ + 1] /\ UNCHANGED <<dpc, shown>>
           /\ IsFiniteSet(complained')
  <2>1. ASSUME NEW k \in DOMAIN parsed.state_files, NEW j \in 1..8, NEW i \in DOMAIN Items(k, j)
        PROVE  Passed(at', dpc', k, j, i) <=> Passed(at, dpc, k, j, i)
    <3>1. k \in Nat /\ ~(k = at.sf /\ j = at.k)
      BY <1>4, <2>1, ElementOK DEF File, Block
    <3> HIDE DEF b, funny
    <3> QED
      BY <1>1, <1>4, <3>1 DEF Passed
  <2>2. IsSeq(shown') /\ PassedShown(shown, at, dpc)'
    BY <1>1, <1>2, <1>4, <2>1, NothingShown
  <2> QED
    BY <1>1, <1>2, <1>4, <2>2, DumpGoesOn
<1>5. CASE Crash
  BY <1>1, <1>5, DumpCrashes
<1>6. CASE dpc' = "item" /\ at' = [at EXCEPT !.i = 1] /\ UNCHANGED <<shown, complained>>
  <2>1. ASSUME NEW k \in DOMAIN parsed.state_files, NEW j \in 1..8, NEW i \in DOMAIN Items(k, j)
        PROVE  Passed(at', dpc', k, j, i) <=> Passed(at, dpc, k, j, i)
    <3>1. k \in Nat /\ i \in Nat /\ i # 0
      BY <2>1, ElementOK
    <3> QED
      BY <1>1, <1>6, <3>1 DEF Passed
  <2>2. IsSeq(shown') /\ PassedShown(shown, at, dpc)'
    BY <1>1, <1>2, <1>6, <2>1, NothingShown
  <2> QED
    BY <1>1, <1>2, <1>6, <2>2, DumpGoesOn
<1> HIDE DEF b, funny
<1>7. IsFiniteSet(complained \cup {}) /\ IsFiniteSet(complained \cup {<<at.sf, b>>})
  BY <1>2, FS_AddElement
<1> QED
  BY <1>3, <1>4, <1>5, <1>6, <1>7

LEMMA DumpItemShows ==
    ASSUME ParseInv, ItemsInv, DumpInv, ShownInv, DumpItem, UNCHANGED parse_vars
    PROVE  ShownInv'
<1> DEFINE b    == BlockOrder[at.k]
           item == Block.items[at.i]
           line == <<at.sf, b, at.i, item>>
<1>1. /\ dpc = "item" /\ UNCHANGED <<parsed, logged, dump_err>>
      /\ at \in [sf : Nat, k : Nat, i : Nat] /\ at.sf # 0 /\ at.k # 0 /\ at.i # 0
      /\ at.k \in 1..8 /\ dump_err = "none" /\ at.i \in DOMAIN Block.items
      /\ at.sf \in DOMAIN parsed.state_files
  BY DEF DumpItem, DumpInv, ShownInv, parse_vars
<1>2. PassedShown(shown, at, dpc) /\ IsSeq(shown) /\ IsFiniteSet(complained)
  BY <1>1 DEF ShownInv
<1>3. \/ Crash
      \/ /\ at' = [at EXCEPT !.i = @ + 1] /\ dpc' = dpc /\ complained' = complained
         /\ \/ item = Nothing /\ shown' = shown \o <<>>
            \/ item # Nothing /\ shown' = shown \o <<line>>
  BY DEF DumpItem, NextItem, Show
<1>4. line = Line(at.sf, at.k, at.i) /\ Block.items = Items(at.sf, at.k)
  BY DEF Line, Items, Block, File
<1> HIDE DEF line
<1>5. ASSUME at' = [at EXCEPT !.i = @ + 1], dpc' = dpc,
             NEW k \in DOMAIN parsed.state_files, NEW j \in 1..8, NEW i \in DOMAIN Items(k, j),
             ~(k = at.sf /\ j = at.k /\ i = at.i)
      PROVE  /\ Passed(at', dpc', k, j, i) <=> Passed(at, dpc, k, j, i)
             /\ Line(k, j, i) # line
  <2>1. k \in Nat /\ i \in Nat
    BY <1>5, ElementOK
  <2>2. BlockOrder[j] = BlockOrder[at.k] => j = at.k
    BY <1>1, BlocksAre
  <2>3. /\ Line(k, j, i)[1] = k /\ Line(k, j, i)[2] = BlockOrder[j] /\ Line(k, j, i)[3] = i
        /\ line[1] = at.sf /\ line[2] = BlockOrder[at.k] /\ line[3] = at.i
    BY DEF Line, line
  <2>4. Passed(at', dpc', k, j, i) <=> Passed(at, dpc, k, j, i)
    BY <1>1, <1>5, <2>1 DEF Passed
  <2> QED
    BY <1>5, <2>2, <2>3, <2>4
<1>6. CASE Crash
  BY <1>1, <1>6, DumpCrashes
<1>7. CASE /\ at' = [at EXCEPT !.i = @ + 1] /\ dpc' = dpc /\ complained' = complained
           /\ item = Nothing /\ shown' = shown \o <<>>
  <2>1. ASSUME NEW k \in DOMAIN parsed.state_files, NEW j \in 1..8, NEW i \in DOMAIN Items(k, j),
               Items(k, j)[i] # Nothing
        PROVE  Passed(at', dpc', k, j, i) <=> Passed(at, dpc, k, j, i)
    <3>1. ~(k = at.sf /\ j = at.k /\ i = at.i)
      BY <1>4, <1>7, <2>1
    <3> QED
      BY <1>5, <1>7, <2>1, <3>1
  <2>2. shown' = shown
    BY <1>2, <1>7 DEF IsSeq
  <2>3. IsSeq(shown') /\ PassedShown(shown, at, dpc)'
    <3> HIDE DEF item
    <3> QED
      BY <1>1, <1>2, <1>7, <2>1, <2>2, NothingShown
  <2> QED
    BY <1>1, <1>2, <1>7, <2>3, DumpGoesOn
<1>8. CASE /\ at' = [at EXCEPT !.i = @ + 1] /\ dpc' = dpc /\ complained' = complained
           /\ item # Nothing /\ shown' = shown \o <<line>>
  <2>1. <<line>> \in Seq({line}) /\ DOMAIN <<line>> = {1} /\ <<line>>[1] = line
    OBVIOUS
  <2> DEFINE t == <<line>>
  <2> HIDE DEF t
  <2>2. IsSeq(t) /\ DOMAIN t = {1} /\ t[1] = line /\ shown' = shown \o t
    BY <1>8, <2>1 DEF IsSeq, t
  <2>3. IsSeq(shown')
    BY <1>2, <2>2, SeqAppend
  <2>4. ASSUME NEW k \in DOMAIN parsed.state_files, NEW j \in 1..8, NEW i \in DOMAIN Items(k, j),
               Items(k, j)[i] # Nothing
        PROVE  LineShown(shown', at', dpc', k, j, i)
    <3>1. LineShown(shown, at, dpc, k, j, i)
      BY <1>2, <2>4 DEF PassedShown
    <3>2. CASE k = at.sf /\ j = at.k /\ i = at.i
      <4>1. Line(k, j, i) = line
        BY <1>4, <3>2
      <4>2. ~Passed(at, dpc, k, j, i) /\ Passed(at', dpc', k, j, i)
        BY <1>1, <1>8, <3>2 DEF Passed
      <4>3. NotShown(shown, line)
        BY <3>1, <4>1, <4>2 DEF LineShown
      <4>4. ShownOnce(shown', line)
        BY <1>2, <2>2, <4>3, ShownNow DEF t
      <4> QED
        BY <4>1, <4>2, <4>4 DEF LineShown
    <3>3. CASE ~(k = at.sf /\ j = at.k /\ i = at.i)
      <4>1. /\ Passed(at', dpc', k, j, i) <=> Passed(at, dpc, k, j, i)
            /\ Line(k, j, i) # line
        BY <1>5, <1>8, <2>4, <3>3
      <4>2. NotShown(t, Line(k, j, i))
        BY <2>2, <4>1 DEF NotShown
      <4> DEFINE other == Line(k, j, i)
                 was   == Passed(at, dpc, k, j, i)
                 now   == Passed(at', dpc', k, j, i)
      <4>3. /\ IF was THEN ShownOnce(shown, other) ELSE NotShown(shown, other)
            /\ now <=> was
        BY <3>1, <4>1 DEF LineShown
      <4> HIDE DEF other, was, now
      <4>4. IF now THEN ShownOnce(shown', other) ELSE NotShown(shown', other)
        BY <1>2, <2>2, <4>2, <4>3, ShownBefore DEF other
      <4> QED
        BY <4>4 DEF LineShown, other, now
    <3> QED
      BY <3>2, <3>3
  <2>5. PassedShown(shown, at, dpc)'
    <3>1. \A k, j, i : Items(k, j)' = Items(k, j) /\ Line(k, j, i)' = Line(k, j, i)
      BY <1>1 DEF Line, Items
    <3> QED
      BY <1>1, <2>4, <3>1 DEF PassedShown, LineShown
  <2> QED
    BY <1>1, <1>2, <1>8, <2>3, <2>5, DumpGoesOn
<1> HIDE DEF item
<1> QED
  BY <1>3, <1>6, <1>7, <1>8

LEMMA EndItemsShows ==
    ASSUME ParseInv, ItemsInv, DumpInv, ShownInv, EndItems, UNCHANGED parse_vars
    PROVE  ShownInv'
<1>1. /\ dpc = "item" /\ dpc' = "block" /\ at' = [at EXCEPT !.k = @ + 1]
      /\ UNCHANGED <<parsed, logged, dump_err, shown, complained>>
      /\ at \in [sf : Nat, k : Nat, i : Nat] /\ at.k \in 1..8 /\ at.i # 0
      /\ at.i \notin DOMAIN Block.items
  BY DEF EndItems, DumpInv, parse_vars
<1>2. PassedShown(shown, at, dpc) /\ IsSeq(shown) /\ IsFiniteSet(complained)
  BY <1>1 DEF ShownInv
<1>3. ASSUME NEW k \in DOMAIN parsed.state_files, NEW j \in 1..8, NEW i \in DOMAIN Items(k, j)
      PROVE  Passed(at', dpc', k, j, i) <=> Passed(at, dpc, k, j, i)
  <2>1. k \in Nat /\ i \in Nat
    BY <1>3, ElementOK
  <2>2. ASSUME k = at.sf, j = at.k PROVE i < at.i
    <3>1. Block.items = Items(k, j)
      BY <2>2 DEF Block, File, Items
    <3>2. FilledBlock(parsed.state_files[k], BlockOrder[j])
      BY BlocksAre DEF ItemsInv, Filled
    <3>3. PICK n \in Nat : DOMAIN Block.items = 1..n
      BY <3>1, <3>2 DEF FilledBlock, IsArray, Items
    <3> QED
      BY <1>1, <1>3, <3>1, <3>3
  <2> QED
    BY <1>1, <2>1, <2>2 DEF Passed
<1>4. IsSeq(shown') /\ PassedShown(shown, at, dpc)'
  BY <1>1, <1>2, <1>3, NothingShown
<1> QED
  BY <1>1, <1>2, <1>4, DumpGoesOn

LEMMA EndBlocksShows ==
    ASSUME ParseInv, ItemsInv, DumpInv, ShownInv, EndBlocks, UNCHANGED parse_vars
    PROVE  ShownInv'
<1>1. /\ dpc = "block" /\ dpc' = "state_file" /\ at' = [at EXCEPT !.sf = @ + 1]
      /\ UNCHANGED <<parsed, logged, dump_err, shown, complained>>
      /\ at \in [sf : Nat, k : Nat, i : Nat] /\ at.k > 8
  BY BlocksAre DEF EndBlocks, DumpInv, parse_vars
<1>2. PassedShown(shown, at, dpc) /\ IsSeq(shown) /\ IsFiniteSet(complained)
  BY <1>1 DEF ShownInv
<1>3. ASSUME NEW k \in DOMAIN parsed.state_files, NEW j \in 1..8, NEW i \in DOMAIN Items(k, j)
      PROVE  Passed(at', dpc', k, j, i) <=> Passed(at, dpc, k, j, i)
  <2>1. k \in Nat
    BY <1>3, ElementOK
  <2> QED
    BY <1>1, <2>1 DEF Passed
<1>4. IsSeq(shown') /\ PassedShown(shown, at, dpc)'
  BY <1>1, <1>2, <1>3, NothingShown
<1> QED
  BY <1>1, <1>2, <1>4, DumpGoesOn

LEMMA DumpErrorsShows ==
    ASSUME ParseInv, ItemsInv, DumpInv, ShownInv, DumpErrors, UNCHANGED parse_vars
    PROVE  ShownInv'
<1> DEFINE E == {<<"error", e>> : e \in logged \cup complained}
           t == SetToSeq(E)
<1>1. /\ dpc = "state_file" /\ dpc' = "done" /\ shown' = shown \o t
      /\ at.sf > Len(parsed.state_files) /\ at.sf \in Nat
      /\ UNCHANGED <<parsed, logged, dump_err, at, complained>>
  BY DEF DumpErrors, Show, DumpInv, parse_vars
<1>2. /\ PassedShown(shown, at, dpc) /\ IsSeq(shown) /\ IsFiniteSet(complained)
      /\ dump_err = "none" /\ IsFiniteSet(logged)
  BY <1>1 DEF ShownInv, ItemsInv
<1>3. IsFiniteSet(E)
  <2>1. IsFiniteSet(logged \cup complained)
    BY <1>2, FS_Union
  <2> QED
    BY <2>1, ErrorsFinite
<1>4. t \in Seq(E) /\ \A x \in E : \E n \in DOMAIN t : t[n] = x
  BY <1>3, SeqOfSet
<1> HIDE DEF t
<1>5. IsSeq(t) /\ \A n \in DOMAIN t : t[n] \in E
  <2>1. \A n \in DOMAIN t : t[n] \in E
    BY <1>4
  <2> QED
    BY <1>4, <2>1 DEF IsSeq
<1>6. ASSUME NEW k, NEW j, NEW i PROVE NotShown(t, Line(k, j, i))
  <2>1. \A x \in E : Len(x) = 2
    OBVIOUS
  <2>2. Len(Line(k, j, i)) = 4
    BY DEF Line
  <2> QED
    BY <1>5, <2>1, <2>2 DEF NotShown
<1>7. ASSUME NEW k \in DOMAIN parsed.state_files, NEW j \in 1..8, NEW i \in DOMAIN Items(k, j)
      PROVE  Passed(at', dpc', k, j, i) <=> Passed(at, dpc, k, j, i)
  <2>1. k \in Nat /\ k <= Len(parsed.state_files)
    BY <1>7, ElementOK
  <2>2. Len(parsed.state_files) \in Nat
    BY DEF ParseInv, IsParsed
  <2> QED
    BY <1>1, <2>1, <2>2 DEF Passed
<1>8. IsSeq(shown') /\ PassedShown(shown, at, dpc)'
  <2> HIDE DEF E
  <2> QED
    BY <1>1, <1>2, <1>5, <1>6, <1>7, OnlyElsewhere
<1>9. ErrorsShown(shown, logged)'
  <2>1. ASSUME NEW e \in logged
        PROVE  \E n \in DOMAIN shown' : shown'[n] = <<"error", e>>
    <3>1. <<"error", e>> \in E
      OBVIOUS
    <3> HIDE DEF E
    <3>2. PICK n \in DOMAIN t : t[n] = <<"error", e>>
      BY <1>4, <3>1
    <3>3. Len(shown) + n \in DOMAIN shown' /\ shown'[Len(shown) + n] = t[n]
      BY <1>1, <1>2, <1>5, <3>2, SeqAppend
    <3> QED
      BY <3>2, <3>3
  <2> QED
    BY <1>1, <2>1 DEF ErrorsShown
<1> HIDE DEF E
<1> QED
  BY <1>1, <1>2, <1>8, <1>9 DEF ShownInv

LEMMA DumpFailsShows ==
    ASSUME ShownInv, DumpFails, UNCHANGED parse_vars
    PROVE  ShownInv'
<1>1. /\ dpc' = "done" /\ dump_err' # "none" /\ UNCHANGED <<shown, complained>>
  BY DEF DumpFails
<1> QED
  BY <1>1 DEF ShownInv

\* The parse is over, or nothing is shown yet.
LEMMA ShownStays ==
    ASSUME DumpInv, ShownInv, UNCHANGED dump_vars, pc = "parsed" => UNCHANGED parse_vars
    PROVE  ShownInv'
<1>1. UNCHANGED <<dpc, at, shown, complained, dump_err>>
  BY DEF dump_vars
<1>2. CASE pc = "parsed"
  <2>1. UNCHANGED <<parsed, logged>>
    BY <1>2 DEF parse_vars
  <2> QED
    BY <1>1, <2>1 DEF ShownInv, PassedShown, LineShown, Line, Items, ErrorsShown
<1>3. CASE pc # "parsed"
  <2>1. dpc = "start"
    BY <1>3 DEF DumpInv
  <2> QED
    BY <1>1, <2>1 DEF ShownInv
<1> QED
  BY <1>2, <1>3

LEMMA NextShows ==
    ASSUME ParseInv, ItemsInv, DumpInv, ShownInv, [Next]_vars
    PROVE  ItemsInv' /\ ShownInv'
<1>1. ASSUME UNCHANGED parse_vars PROVE ItemsInv'
  BY <1>1, ItemsSame DEF parse_vars, ItemsInv
<1>2. CASE ParseNext /\ UNCHANGED dump_vars
  BY <1>2, ParseNextItems, ParsedStays, ShownStays
<1>3. CASE DumpNext /\ UNCHANGED parse_vars
  BY <1>1, <1>3, DumpSavShows, DumpStateFileShows, DumpBlockShows, DumpItemShows, EndItemsShows,
     EndBlocksShows, DumpErrorsShows, DumpFailsShows DEF DumpNext
<1>4. CASE UNCHANGED vars
  BY <1>1, <1>4, ShownStays DEF vars
<1> QED
  BY <1>2, <1>3, <1>4 DEF Next

\* What it goes by at every step in what it shows.
THEOREM InductiveShown == Spec => [](ItemsInv /\ ShownInv)
<1>1. DumpInit => ItemsInv /\ ShownInv
  <2>1. <<>> \in Seq({})
    OBVIOUS
  <2>2. IsSeq(<<>>)
    BY <2>1 DEF IsSeq
  <2> QED
    BY <2>2, InitItems, FS_EmptySet DEF DumpInit, ShownInv
<1>2. ParseInv /\ DumpInv /\ (ItemsInv /\ ShownInv) /\ [Next]_vars => (ItemsInv /\ ShownInv)'
  BY NextShows
<1> QED
  BY <1>1, <1>2, Inductive, PTL DEF Spec

\* A line is in the dump once.
LEMMA OnceIsOne ==
    ASSUME NEW s, NEW line, ShownOnce(s, line)
    PROVE  Cardinality({n \in DOMAIN s : s[n] = line}) = 1
<1>1. PICK n \in DOMAIN s : s[n] = line /\ \A m \in DOMAIN s : s[m] = line => m = n
  BY DEF ShownOnce
<1>2. {m \in DOMAIN s : s[m] = line} = {n}
  BY <1>1
<1> QED
  BY <1>2, FS_Singleton
-----------------------------------------------------------------------------
(* Theorems *)

\* The parser reads inside the file: wherever the numbers of a save send it, the
\* reader and the base it counts from are in the file, or they have overflowed and
\* read zeros (ch_byte_reader.h).
ReadsInside(r) == ~Overflowed(r) => 0 <= r.cur /\ r.end <= Len(save.file)

THEOREM ReaderStaysInFile == Spec => [](ReadsInside(br) /\ ReadsInside(br_cur_base))
<1>1. ParseInv => ReadsInside(br) /\ ReadsInside(br_cur_base)
  BY DEF ParseInv, ReadersOK, Reader, ReadsInside, Overflowed
<1> QED
  BY <1>1, Inductive, PTL

\* A parse that succeeds has gone through all the state files; of each header of a
\* block in a .hl1 file that is somewhere it has restored the block's, or there is an
\* error of that block; and of each body that is somewhere there is an error too, or
\* all of it is there, every entity that has not an error of its own included
\* (ch_restore_block_headers, ch_restore_block_bodies).
Accounted ==
    pc = "parsed" /\ err = "none" =>
        \A k \in DOMAIN parsed.state_files :
            LET f == parsed.state_files[k]
            IN  /\ f.type # "invalid"
                /\ f.type = ".hl1" => /\ HeadersTold(logged, k, f, Len(f.headers))
                                      /\ \A b \in Blocks : BodyTold(logged, k, f, b)

THEOREM NothingGoesUntold == Spec => []Accounted
<1>1. ASSUME NEW k, NEW f, FileTold(logged, k, f), f.type = ".hl1"
      PROVE  /\ HeadersTold(logged, k, f, Len(f.headers))
             /\ \A b \in Blocks : BodyTold(logged, k, f, b)
  <2>1. BodiesRead(logged, k, f, Len(BlockOrder))
    BY <1>1 DEF FileTold
  <2>2. ASSUME NEW b \in Blocks PROVE BodyTold(logged, k, f, b)
    <3>1. PICK j \in 1..8 : b = BlockOrder[j]
      BY BlocksAre
    <3>2. j \in DOMAIN BlockOrder /\ j <= Len(BlockOrder)
      BY BlocksAre
    <3> QED
      BY <2>1, <3>1, <3>2 DEF BodiesRead
  <2> QED
    BY <2>1, <2>2 DEF BodiesRead
<1>2. ParseInv => Accounted
  BY <1>1 DEF ParseInv, DoneOK, FileTold, Accounted
<1> QED
  BY <1>2, Inductive, PTL

\* The dump follows a pointer that is not there only if the parse failed, or said
\* that something is wrong, or a block has a header and no body (dump/).
THEOREM DumpCrashesOnlyAfterError == Spec => []CrashOnlyAfterError
<1>1. DumpInv => CrashOnlyAfterError
  BY DEF DumpInv, Untroubled, CrashOnlyAfterError
<1> QED
  BY <1>1, Inductive, PTL

\* A dump that is finished has every element that was restored, once, whatever was
\* wrong with others of its block or with other blocks, and every error of the parse
\* (ch_dump_sav_to_text).
RestoredIsDumped ==
    dpc = "done" /\ dump_err = "none" =>
        /\ \A k \in DOMAIN parsed.state_files, b \in Blocks :
              \A i \in DOMAIN parsed.state_files[k].blocks[b].items :
                 LET item == parsed.state_files[k].blocks[b].items[i]
                 IN  item # Nothing =>
                        Cardinality({n \in DOMAIN shown : shown[n] = <<k, b, i, item>>}) = 1
        /\ \A e \in logged : <<"error", e>> \in ToSet(shown)

LEMMA ShownIsDumped ==
    ASSUME ParseInv, ItemsInv, DumpInv, ShownInv
    PROVE  RestoredIsDumped
<1> SUFFICES ASSUME dpc = "done", dump_err = "none" PROVE RestoredIsDumped
  BY DEF RestoredIsDumped
<1>1. /\ PassedShown(shown, at, dpc) /\ at.sf > Len(parsed.state_files) /\ at.sf \in Nat
      /\ ErrorsShown(shown, logged)
  BY DEF ShownInv, DumpInv
<1>2. ASSUME NEW k \in DOMAIN parsed.state_files, NEW b \in Blocks,
             NEW i \in DOMAIN parsed.state_files[k].blocks[b].items,
             NEW item, item = parsed.state_files[k].blocks[b].items[i], item # Nothing
      PROVE  Cardinality({n \in DOMAIN shown : shown[n] = <<k, b, i, item>>}) = 1
  <2>1. PICK j \in 1..8 : b = BlockOrder[j]
    BY BlocksAre
  <2>2. /\ i \in DOMAIN Items(k, j) /\ Items(k, j)[i] # Nothing
        /\ Line(k, j, i) = <<k, b, i, item>>
    BY <1>2, <2>1 DEF Items, Line
  <2>3. k \in Nat /\ k <= Len(parsed.state_files) /\ Len(parsed.state_files) \in Nat
    BY DEF ParseInv, IsParsed
  <2>4. Passed(at, dpc, k, j, i)
    BY <1>1, <2>3 DEF Passed
  <2>5. LineShown(shown, at, dpc, k, j, i)
    BY <1>1, <2>2 DEF PassedShown
  <2>6. ShownOnce(shown, <<k, b, i, item>>)
    BY <2>2, <2>4, <2>5 DEF LineShown
  <2> QED
    BY <2>6, OnceIsOne
<1>3. ASSUME NEW e \in logged PROVE <<"error", e>> \in ToSet(shown)
  BY <1>1 DEF ErrorsShown, ToSet
<1> QED
  BY <1>2, <1>3 DEF RestoredIsDumped

THEOREM DumpIsComplete == Spec => []RestoredIsDumped
BY ShownIsDumped, Inductive, InductiveShown, PTL

\* What the parser restored of what is sound in a save, the dump shows: at every step
\* at which all of it has been restored, a dump that is finished has all of it.
THEOREM RestoredSoundIsDumped == Spec => [](SoundIsRestored => SoundIsDumped)
<1>1. ASSUME ParseInv, RestoredIsDumped, SoundIsRestored PROVE SoundIsDumped
  <2> SUFFICES ASSUME dpc = "done", dump_err = "none", Parsed, NEW f \in save.facts
               PROVE  Cardinality({n \in DOMAIN shown : shown[n] = f}) = 1
    BY <1>1 DEF SoundIsDumped, RestoredIsDumped
  <2>1. f = <<f[1], f[2], f[3], f[4]>> /\ f[4] # Nothing
    BY <1>1, FactsAssumption DEF ParseInv, ReadersOK
  <2>2. Holds(f[1], f[2], f[3], f[4])
    BY <1>1 DEF SoundIsRestored
  <2>3. Cardinality({n \in DOMAIN shown : shown[n] = <<f[1], f[2], f[3], f[4]>>}) = 1
    BY <1>1, <2>1, <2>2 DEF RestoredIsDumped, Holds
  <2> QED
    BY <2>1, <2>3
<1>2. ParseInv /\ RestoredIsDumped => (SoundIsRestored => SoundIsDumped)
  BY <1>1
<1> QED
  BY <1>2, Inductive, DumpIsComplete, PTL
=============================================================================
