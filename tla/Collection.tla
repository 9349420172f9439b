----------------------------- MODULE Collection -----------------------------
(***************************************************************************)
(* The collection file.  ch_create_naked_packed_collection (ch_recv.c)     *)
(* lays the kept datamaps out: an order in which what a datamap refers to  *)
(* comes first, and for each class an offset for every saved field.        *)
(* ch_archive.c later takes the file, whole or cut short, checks it, turns *)
(* its offsets into pointers and makes the lookup by name.                 *)
(*                                                                         *)
(* An offset relative to the datamaps or type descriptions is a position   *)
(* in the sequence dms or tds, 0 for CH_REL_OFF_NULL; a string offset is   *)
(* the string.  Where the sections lie is kept in bytes.                   *)
(***************************************************************************)
EXTENDS GameMaps, FiniteSets

CONSTANTS
    FieldsOf,   \* the fields of each datamap, in the order of its dataDesc
    ModRank,    \* the order of ch_cmp_mp_str among the module names ...
    NameRank,   \* ... and among the class names
    Inputs      \* what may have been kept: records of maps and links

PtrSize == 4    \* sizeof(void*): the exe is built for 32 bits

\* CH_ALIGN_TO(x, sizeof(void*))
AlignPtr(x) == PtrSize * ((x + PtrSize - 1) \div PtrSize)

\* The datamaps that ch_recurse_visit_datamaps visits from d, counted as often
\* as it meets them: n_dependencies.
Visits[d \in DataMap] ==
    LET count[k \in 0..Len(EmbeddedOf[d])] ==
            IF k > 0 THEN count[k - 1] + Visits[EmbeddedOf[d][k]]
            ELSE IF BaseOf[d] = NoMap THEN 1 ELSE 1 + Visits[BaseOf[d]]
    IN  count[Len(EmbeddedOf[d])]

Field == [name : STRING, save : BOOLEAN, type : {"simple", "custom", "embedded"},
          size : Nat, n : Nat, map : DataMap \cup {NoMap}]

\* Only custom fields have no size of their own; only embedded ones have a
\* datamap.  "Circular dependencies would very much go against how datamaps
\* function" (ch_recv.c).
ASSUME FieldsAssumption ==
    /\ FieldsOf \in [DataMap -> Seq(Field)]
    /\ \A d \in DataMap : \A j \in DOMAIN FieldsOf[d] :
          LET f == FieldsOf[d][j]
          IN  /\ f.type # "custom" => f.size > 0 /\ f.n > 0
              /\ f.type = "embedded" => f.map \in Parts(d)
              /\ f.type # "embedded" => f.map = NoMap
ASSUME NoCircles ==
    /\ Visits \in [DataMap -> Nat]
    /\ \A d \in DataMap : \A p \in Parts(d) : Visits[p] < Visits[d]
ASSUME RanksAssumption ==
    /\ ModRank \in [GameModule -> Nat]
    /\ \A a, b \in GameModule : ModRank[a] = ModRank[b] => a = b
    /\ NameRank \in [Name -> Nat]
    /\ \A a, b \in Name : NameRank[a] = NameRank[b] => a = b

\* What the message context holds at GOODBYE: a closed set of datamaps, no two
\* of the same name, and the names linked to them, each to one (the factories
\* of a game are a dictionary by name).
ASSUME InputsAssumption ==
    \A input \in Inputs :
        /\ input.maps \subseteq DataMap /\ input.maps # {} /\ IsFiniteSet(input.maps)
        /\ Closed(input.maps) /\ ~Clash(input.maps)
        /\ input.links \subseteq Name \X Name /\ input.links # {}
        /\ IsFiniteSet(input.links)
        /\ \A l, o \in input.links : l[1] = o[1] => l = o
        /\ \A d \in input.maps : \A l \in input.links : l[1] # NameOf[d]
        /\ \A l \in input.links : \E d \in input.maps : l[2] = NameOf[d]

VARIABLES
    stage,      \* which loop of the writer or of the reader is next
    in,         \* what was kept
    sorted,     \* sorted_maps
    dms, tds,   \* the datamaps and type descriptions filled in
    first, j,   \* of the datamap being filled: its first field, the next field
    ch_off,     \*   and the next packed offset
    disk,       \* how many bytes of the file are on disk
    fixed,      \* how many datamaps the reader has fixed up
    lookup      \* ch_datamap_collection: pairs of a name and a datamap

wvars == <<in, sorted, dms, tds, first, j, ch_off>>
vars  == <<stage, disk, fixed, lookup, wvars>>

Init ==
    /\ stage = "sort" /\ in \in Inputs
    /\ sorted = <<>> /\ dms = <<>> /\ tds = <<>>
    /\ first = 0 /\ j = 1 /\ ch_off = 0
    /\ disk = 0 /\ fixed = 0 /\ lookup = {}
-----------------------------------------------------------------------------
(* The writer *)

\* Mutant: only the module and the name are compared.
Before_NoCount(d, e) ==
    \/ ModRank[ModOf[d]] < ModRank[ModOf[e]]
    \/ ModOf[d] = ModOf[e] /\ NameRank[NameOf[d]] < NameRank[NameOf[e]]

\* ch_cmp_datamaps(d, e) < 0
Before(d, e) ==
    \/ ModRank[ModOf[d]] < ModRank[ModOf[e]]
    \/ /\ ModOf[d] = ModOf[e]
       /\ \/ Visits[d] < Visits[e]
          \/ Visits[d] = Visits[e] /\ NameRank[NameOf[d]] < NameRank[NameOf[e]]

\* qsort
Sort ==
    /\ stage = "sort"
    /\ \E s \in [1..Cardinality(in.maps) -> in.maps] :
          /\ \A a, b \in DOMAIN s : a < b => Before(s[a], s[b])
          /\ sorted' = s
    /\ stage' = "map"
    /\ UNCHANGED <<in, dms, tds, first, j, ch_off, disk, fixed, lookup>>

\* Mutant: the offset of an entry is the one given before sorting.
IndexOf_Unsorted(d) ==
    IF d = NoMap THEN 0
    ELSE 1 + Cardinality({e \in in.maps : NameRank[NameOf[e]] < NameRank[NameOf[d]]})

\* ch_get_entry_offset of the entry with d's name.
IndexOf(d) ==
    IF d = NoMap THEN 0
    ELSE CHOOSE i \in DOMAIN sorted : NameOf[sorted[i]] = NameOf[d]

\* ch_size is 0 until a datamap is filled in: the collection is calloc'ed.
SizeAt(i) == IF i \in DOMAIN dms THEN dms[i].ch_size ELSE 0

\* The datamap being filled in.
Current == sorted[Len(dms) + 1]

\* Mutant: a class does not begin with the fields of its base.
StartMap_NoBase ==
    /\ stage = "map" /\ Len(dms) < Len(sorted)
    /\ first' = Len(tds) + 1 /\ j' = 1
    /\ ch_off' = 0
    /\ stage' = "field"
    /\ UNCHANGED <<in, sorted, dms, tds, disk, fixed, lookup>>

StartMap ==
    /\ stage = "map" /\ Len(dms) < Len(sorted)
    /\ first' = Len(tds) + 1 /\ j' = 1
    /\ ch_off' = SizeAt(IndexOf(BaseOf[Current]))
    /\ stage' = "field"
    /\ UNCHANGED <<in, sorted, dms, tds, disk, fixed, lookup>>

\* How far a field moves the packed offset: a custom field is a pointer, and
\* sizes are aligned to themselves below the pointer size, which for 3 is
\* (3 + 2) & ~2.
Room(type, size) ==
    CASE type = "custom" -> PtrSize
      [] type # "custom" /\ size > 3 -> AlignPtr(size)
      [] type # "custom" /\ size = 3 -> 5
      [] type # "custom" /\ size < 3 -> size

WriteField ==
    /\ stage = "field" /\ j <= Len(FieldsOf[Current])
    /\ LET f == FieldsOf[Current][j]
       IN  IF f.save
           THEN /\ tds' = Append(tds, [name |-> f.name, type |-> f.type,
                                       ch_offset |-> ch_off,
                                       total_size_bytes |-> f.size, n_elems |-> f.n,
                                       embedded_map |-> IndexOf(f.map)])
                /\ ch_off' = ch_off + Room(f.type, f.size)
           ELSE UNCHANGED <<tds, ch_off>>
    /\ j' = j + 1
    /\ UNCHANGED <<stage, in, sorted, dms, first, disk, fixed, lookup>>

FilledMap(fields, size) ==
    [class_name |-> NameOf[Current], module_name |-> ModOf[Current],
     base_map |-> IndexOf(BaseOf[Current]),
     fields |-> fields, n_fields |-> Len(tds) + 1 - first, ch_size |-> size]

EndMap ==
    /\ stage = "field" /\ j > Len(FieldsOf[Current])
    /\ dms' = Append(dms, FilledMap(IF Len(tds) < first THEN 0 ELSE first,
                                    AlignPtr(ch_off)))
    /\ stage' = "map"
    /\ UNCHANGED <<in, sorted, tds, first, j, ch_off, disk, fixed, lookup>>
-----------------------------------------------------------------------------
(* The file: header, lookup pointer, datamaps, type descriptions, strings, *)
(* linked names.                                                           *)

HeaderSize == 36
MapSize    == 24
FieldSize  == 36
LinkSize   == 8

\* The strings are counted, each with a character and the '\0'.
Strings ==
    {NameOf[d] : d \in in.maps} \cup {ModOf[d] : d \in in.maps}
        \cup {l[1] : l \in in.links}
StringsSize ==
    2 * (Cardinality(Strings) + Cardinality({tds[k].name : k \in DOMAIN tds}))

dms_off  == HeaderSize + PtrSize
tds_off  == dms_off + MapSize * Len(dms)
strs_off == tds_off + FieldSize * Len(tds)

\* Mutant: the linked names lie before the strings.
lnks_off_First == strs_off
lnks_off == strs_off + StringsSize

FileSize ==
    dms_off + MapSize * Len(dms) + FieldSize * Len(tds) + StringsSize
            + LinkSize * Cardinality(in.links)

\* fwrite writes all of it, or the disk is full or the exe dies half way.
WriteToDisk ==
    /\ stage = "map" /\ Len(dms) = Len(sorted)
    /\ disk' \in 0..FileSize
    /\ stage' = "disk"
    /\ UNCHANGED <<wvars, fixed, lookup>>
-----------------------------------------------------------------------------
(* The reader, on the bytes that are on disk *)

\* ch_load_file: every byte on disk is in memory, or main stops.
LoadFile ==
    /\ stage = "disk"
    /\ stage' \in {"bytes", "not_loaded"}
    /\ UNCHANGED <<wvars, disk, fixed, lookup>>

\* CH_CHECK_PTR
Inside(off) == 0 < off /\ off < disk

\* The checks of the header.  Magic and version are those of this build.
HeaderOK ==
    /\ disk >= HeaderSize /\ Len(dms) # 0
    /\ \A off \in {dms_off, tds_off, lnks_off, strs_off} : Inside(off)
    /\ Inside(dms_off + MapSize * Len(dms) - 1)
    /\ Inside(lnks_off + LinkSize * Cardinality(in.links) - 1)

VerifyHeader ==
    /\ stage = "bytes"
    /\ stage' = IF HeaderOK THEN "fixup" ELSE "rejected"
    /\ UNCHANGED <<wvars, disk, fixed, lookup>>

\* The pointers of datamap i and of its fields, and the two checks between them.
MapOK(i) ==
    LET dm == dms[i]
    IN  /\ dm.base_map # 0 => Inside(dms_off + MapSize * (dm.base_map - 1))
        /\ dm.fields # 0 => Inside(tds_off + FieldSize * (dm.fields - 1))
        /\ (dm.fields = 0) <=> (dm.n_fields = 0)
        /\ \A k \in dm.fields..(dm.fields + dm.n_fields - 1) :
              k # 0 => /\ tds[k].embedded_map # 0 =>
                            Inside(dms_off + MapSize * (tds[k].embedded_map - 1))
                       /\ tds[k].ch_offset < dm.ch_size

FixupMap ==
    /\ stage = "fixup" /\ fixed < Len(dms)
    /\ IF MapOK(fixed + 1)
       THEN fixed' = fixed + 1 /\ UNCHANGED stage
       ELSE stage' = "rejected" /\ UNCHANGED fixed
    /\ UNCHANGED <<wvars, disk, lookup>>

\* The entries by class name.
MapEntries == {<<dms[i].class_name, i>> : i \in DOMAIN dms}

\* Mutant: dm_rel_off counts from 1.
LinkEntries_OffByOne ==
    {<<l[1], 1 + IndexOf(CHOOSE d \in in.maps : NameOf[d] = l[2])>> : l \in in.links}

\* The entries by linked name, through dm_rel_off.
LinkEntries ==
    {<<l[1], IndexOf(CHOOSE d \in in.maps : NameOf[d] = l[2])>> : l \in in.links}

\* The linked names are fixed up, and ch_create_collection_lookup inserts all.
CreateLookup ==
    /\ stage = "fixup" /\ fixed = Len(dms)
    /\ lookup' = MapEntries \cup LinkEntries
    /\ stage' = "loaded"
    /\ UNCHANGED <<wvars, disk, fixed>>
-----------------------------------------------------------------------------
Next ==
    \/ Sort \/ StartMap \/ WriteField \/ EndMap \/ WriteToDisk
    \/ LoadFile \/ VerifyHeader \/ FixupMap \/ CreateLookup

Spec == Init /\ [][Next]_vars
-----------------------------------------------------------------------------
(* Properties *)

Filled == DOMAIN dms

\* "This guarantees that all the dependencies of each map are before it in the
\* list" (ch_recv.c:637-640): by the time a class is laid out, the classes it
\* derives from or embeds have a place and a size.
DependenciesFirst ==
    \A i \in DOMAIN sorted : \A p \in Parts(sorted[i]) :
        \E k \in 1..(i - 1) : sorted[k] = p

\* The fields of datamap i, by position in tds.
FieldsAt(i) == {k \in DOMAIN tds : /\ dms[i].fields # 0
                                   /\ dms[i].fields <= k
                                   /\ k < dms[i].fields + dms[i].n_fields}

\* The end of what ch_br_restore_fields writes for field k: all of a simple
\* field, the pointer of a custom one, and for each element of an embedded one
\* a class, at total_size_bytes from the one before.
EndOf(k) ==
    LET td == tds[k]
    IN  td.ch_offset +
        CASE td.type = "simple"   -> td.total_size_bytes
          [] td.type = "custom"   -> PtrSize
          [] td.type = "embedded" -> (td.n_elems - 1) * td.total_size_bytes
                                         + SizeAt(td.embedded_map)

\* What the layout takes for granted of the classes of a game: an embedded
\* field is no array, and its class is not larger packed than in the game.
EmbeddedFits ==
    \A i \in Filled : \A k \in FieldsAt(i) :
        tds[k].type = "embedded" =>
            /\ tds[k].n_elems = 1
            /\ SizeAt(tds[k].embedded_map) <= tds[k].total_size_bytes

\* Restoring one field of a class does not write to another, nor to the part
\* of the base class, whose size is where the class's own fields begin
\* (ch_recv.c:548-553, ch_field_reader.c:189-207).
FieldsApart ==
    \A i \in Filled :
        /\ \A k, l \in FieldsAt(i) :
              k < l => EndOf(k) <= tds[l].ch_offset
        /\ \A k \in FieldsAt(i) : SizeAt(dms[i].base_map) <= tds[k].ch_offset

\* "{data + dm->ch_size * n} will give the nth class" (ch_save.h:113): restoring
\* a class stays within the ch_size bytes that are allocated for it.
ClassInItsSize ==
    \A i \in Filled :
        /\ SizeAt(dms[i].base_map) <= dms[i].ch_size
        /\ \A k \in FieldsAt(i) : EndOf(k) <= dms[i].ch_size

\* A file that is cut short, anywhere, is rejected before the reader follows
\* any of its offsets: past the checks of the header, all bytes are there.  One
\* that was written completely is accepted, whatever it has none of.
AcceptedIfWhole ==
    /\ stage \in {"fixup", "loaded"} => disk = FileSize
    /\ stage = "rejected" => disk < FileSize

\* How many of the first k fields of d are saved.
SavedUpTo(d, k) == Cardinality({o \in 1..k : FieldsOf[d][o].save})

\* Each name, of a class or linked, leads to one datamap, and it is the one
\* that was kept: same module and base, the saved fields in their order, each
\* of them embedding what it embedded in the game.
MeansTheSame ==
    stage = "loaded" =>
        /\ \A d \in in.maps :
              /\ Cardinality({e \in lookup : e[1] = NameOf[d]}) = 1
              /\ \E i \in Filled :
                    /\ <<NameOf[d], i>> \in lookup
                    /\ dms[i].module_name = ModOf[d]
                    /\ dms[i].base_map =
                          IF BaseOf[d] = NoMap THEN 0
                          ELSE CHOOSE b \in Filled : dms[b].class_name = NameOf[BaseOf[d]]
                    /\ dms[i].n_fields = SavedUpTo(d, Len(FieldsOf[d]))
                    /\ \A k \in DOMAIN FieldsOf[d] :
                          LET f  == FieldsOf[d][k]
                              td == tds[dms[i].fields + SavedUpTo(d, k) - 1]
                          IN  f.save =>
                                /\ td.name = f.name /\ td.type = f.type
                                /\ f.map # NoMap =>
                                      dms[td.embedded_map].class_name = NameOf[f.map]
        /\ \A l \in in.links : \A i \in Filled :
              <<l[1], i>> \in lookup <=> <<l[2], i>> \in lookup
=============================================================================
