------------------------------ MODULE Records ------------------------------
(***************************************************************************)
(* How the parser restores an entity of a state file: its symbol table,    *)
(* then records inside records inside records (ch_field_reader.c, the      *)
(* entity of ch_block_ents.c, the custom fields of custom_restore/).       *)
(*                                                                         *)
(* A file is a sequence of cells, each a number, a character or '\0'; a    *)
(* name is one cell.  What the calls that are in progress still have to do *)
(* is a stack of jobs, the innermost first.  A path, of field names and    *)
(* indices, says where in the restored data a value goes.                  *)
(***************************************************************************)
EXTENDS ByteReader, Sequences, FiniteSets

CONSTANTS
    DataMap,        \* the datamaps of the collection
    NoMap,          \* NULL
    NameOf, BaseOf, \* dataClassName, baseMap
    FieldsOf,       \* the saved fields of each datamap
    Npc,            \* CAI_BaseNPC, ...
    NpcHeader,      \* ... AIExtendedSaveHeader_t, ...
    Version,        \* ... the name of its field "version" ...
    Waypoint,       \* ... and AI_Waypoint_t, or NoMap if there is none
    Uv, Elems,      \* "uv" and "elems", the names of ch_cr_utl_vector_restore_to
    BaseOutput,     \* CBaseEntityOutput ...
    EventAction,    \* ... and CEventAction, or NoMap if there is none
    OutputValue, EntityOutput,  \* "Value" and "EntityOutput", the names of their classes
    ActivityTag,    \* CH_ACTIVITY_FILE_TAG: larger than any index
    Garbage,        \* what an uninitialised character may be
    MaxList,        \* bound: after the end of its record a list of conditions
                    \* gets no more items than this
    Saves           \* the files: a class, a sequence of cells, and what is
                    \* saved in it, as far as the file goes

NameCell == Nat \ {0}

\* An embedded field has those of a class, and for what is left of the custom ones
\* there is no function.
FieldType == {"simple", "string", "vector", "variant", "output", "activity"}

Field == [name : NameCell, type : FieldType \cup {"embedded", "custom"},
          n : Nat, size : Nat, map : DataMap \cup {NoMap}]

Chain[d \in DataMap] == IF BaseOf[d] = NoMap THEN <<d>> ELSE Append(Chain[BaseOf[d]], d)

ASSUME MapsAssumption ==
    /\ NoMap \notin DataMap /\ {Npc, NpcHeader} \subseteq DataMap
    /\ {Waypoint, BaseOutput, EventAction} \subseteq DataMap \cup {NoMap}
    /\ NameOf \in [DataMap -> NameCell]
    /\ {Uv, Elems, OutputValue, EntityOutput, Version, ActivityTag} \subseteq NameCell
    /\ BaseOf \in [DataMap -> DataMap \cup {NoMap}]
    /\ FieldsOf \in [DataMap -> Seq(Field)]
    /\ \A d \in DataMap : \A k \in DOMAIN FieldsOf[d] :
          FieldsOf[d][k].type = "embedded" => FieldsOf[d][k].map \in DataMap
    /\ Chain \in [DataMap -> Seq(DataMap)]
    /\ Garbage \in Nat /\ MaxList \in Nat
ASSUME SavesAssumption ==
    \A s \in Saves : s.class \in DataMap /\ s.file \in Seq(Nat)

VARIABLES
    save,       \* the save being parsed
    br,         \* ctx->br
    st,         \* the name of each symbol of the symbol table, 0 for none
    stack,      \* the jobs
    restored,   \* the values restored so far: pairs of a path and cells
    err,        \* what the parse of this entity returned
    no_mem      \* some allocation has failed

vars == <<save, br, st, stack, restored, err, no_mem>>

File == save.file
-----------------------------------------------------------------------------
(* Jobs *)

\* ch_br_restore_fields
Class(sym, fields, path) ==
    [op |-> "class", sym |-> sym, fields |-> fields, path |-> path]

\* ch_br_restore_recursive: the classes that d derives from, then d.
Recursive(d, path) ==
    [k \in 1..Len(Chain[d]) |->
        Class(NameOf[Chain[d][k]], FieldsOf[Chain[d][k]], path)]

\* ch_br_end_record.  An error inside the record goes no further if it catches.
EndRecord(after, check_match, catches) ==
    [op |-> "end", after |-> after, check_match |-> check_match, catches |-> catches]

\* The elements of an embedded field, each with all its classes, one after the
\* other.
Elements(f, path) ==
    LET n    == Len(Chain[f.map])
        d(i) == Chain[f.map][1 + ((i - 1) % n)]
    IN  [i \in 1..(f.n * n) |-> Class(NameOf[d(i)], FieldsOf[d(i)],
                                     Append(path, 1 + ((i - 1) \div n)))]

\* What reads a field, at path.  One that is custom is skipped.
FieldJobs(f, path) ==
    IF f.type = "embedded" THEN Elements(f, path)
    ELSE IF f.type = "custom" THEN <<>>
    ELSE <<[op |-> f.type, n |-> f.n, size |-> f.size, map |-> f.map, path |-> path]>>

\* The field of vec_dm, whose elements are EHANDLEs of one cell if it has no map.
ElemsField(n, map) ==
    [name |-> Elems, type |-> IF map = NoMap THEN "simple" ELSE "embedded",
     n |-> 1, size |-> n, map |-> map]

IsNpc(d) == \E k \in DOMAIN Chain[d] : Chain[d][k] = Npc

\* ch_restore_entity
Entity(d) ==
    (IF IsNpc(d)
     THEN Append(Recursive(NpcHeader, <<NameOf[NpcHeader]>>), [op |-> "npc"])
     ELSE <<>>) \o Recursive(d, <<>>)

Init ==
    /\ save \in Saves
    /\ br = [cur |-> 0, end |-> Len(File)]
    /\ st = <<>>
    /\ stack = <<[op |-> "symbols"]>> \o Entity(save.class)
    /\ restored = {} /\ err = "none" /\ no_mem = FALSE

\* The next job.
Now(op) == stack # <<>> /\ Head(stack).op = op
-----------------------------------------------------------------------------
(* Reading *)

\* One number; 0 if there is none.
ReadNum(r) ==
    [n |-> IF CouldSkip(r, 1) THEN File[r.cur + 1] ELSE 0, br |-> Skip(r, 1)]

Cells(r, n) == SubSeq(File, r.cur + 1, r.cur + n)

\* ch_br_strlen: how many characters up to a '\0', or all that remain.
StrLen(r) ==
    Cardinality({k \in 1..Remaining(r) : \A l \in 1..k : File[r.cur + l] # 0})

\* ch_br_read_str_n: n characters, or those that remain; the others of the n that
\* are allocated are not initialised.  A string ends at the first '\0'.
Available(r, n) == IF n < Remaining(r) THEN n ELSE Remaining(r)
StringsOf(r, n) ==
    IF StrLen(r) < Available(r, n) THEN {Cells(r, StrLen(r))}
    ELSE {Cells(r, Available(r, n)) \o [k \in 1..m |-> Garbage] : m \in 0..(n - Available(r, n))}
AfterStrOf(r, n) == Skip(r, Available(r, n))

\* ch_br_read_str: up to a '\0'.
Strings(r)  == StringsOf(r, StrLen(r) + 1)
AfterStr(r) == AfterStrOf(r, StrLen(r) + 1)

\* ch_br_read_symbol: the symbol, and the error.
ReadSymbol(r) ==
    LET idx == ReadNum(r)
    IN  [br |-> idx.br,
         symbol |-> IF idx.n \in DOMAIN st THEN st[idx.n] ELSE 0,
         err |-> IF Overflowed(idx.br) THEN "overflow"
                 ELSE IF idx.n \notin DOMAIN st THEN "bad_symbol" ELSE "none"]

\* ch_br_start_record.  It is the reader of the record that is checked, which
\* cannot have overflowed, and not the one for what follows.
StartRecord(r) ==
    LET size  == ReadNum(r)
        sym   == ReadSymbol(size.br)
        split == SplitSkipSwap(sym.br, size.n)
    IN  [br |-> split.chunk, after |-> split.after, symbol |-> sym.symbol,
         err |-> IF Overflowed(size.br) THEN "overflow"
                 ELSE IF sym.err # "none" THEN sym.err
                 ELSE IF Overflowed(split.chunk) THEN "bad_block_start" ELSE "none"]
-----------------------------------------------------------------------------
(* The calls *)

\* An error returns from every call up to the one that catches it, if any; no
\* caller uses the reader before it has set it again.
Fail(e) ==
    /\ LET catching == {k \in DOMAIN stack : stack[k].op = "end" /\ stack[k].catches}
       IN  IF e = "oom" \/ catching = {}
           THEN stack' = <<>> /\ err' = e
           ELSE /\ \E k \in catching : /\ \A l \in catching : k <= l
                                       /\ stack' = SubSeq(stack, k, Len(stack))
                /\ UNCHANGED err
    /\ UNCHANGED <<br, st, restored>>

\* The job is done; first come the ones given.
Then(jobs) == stack' = jobs \o Tail(stack) /\ UNCHANGED err

Store(path, value) == restored' = restored \cup {<<path, value>>}

\* ch_br_read_symbol_table, in the part of the file that is set aside for it.
\* Where the n strings begin; one that is empty is no symbol.
ReadSymbolTable ==
    /\ Now("symbols")
    /\ LET size  == ReadNum(br)
           n     == ReadNum(size.br)
           split == SplitSkip(n.br, size.n)
           next(r) == Skip(r, StrLen(r) + 1)
           at[i \in 0..n.n] == IF i = 0 THEN split.chunk ELSE next(at[i - 1])
       IN  IF Overflowed(split.after) THEN Fail("overflow")
           ELSE IF Overflowed(at[n.n]) THEN Fail("bad_symbol_table")
           ELSE /\ st' = [i \in 0..(n.n - 1) |-> File[at[i].cur + 1]]
                /\ br' = split.after
                /\ Then(<<>>) /\ UNCHANGED restored
    /\ UNCHANGED <<save, no_mem>>

\* The head of ch_br_restore_fields.  That there are no more bytes for the
\* number of fields is not checked: it is 0 then.
RestoreFields ==
    /\ Now("class")
    /\ LET c      == Head(stack)
           marker == ReadNum(br)
           sym    == ReadSymbol(marker.br)
           n      == ReadNum(sym.br)
       IN  IF marker.n # 4 THEN Fail("bad_fields_marker")
           ELSE IF sym.err # "none" THEN Fail(sym.err)
           ELSE IF sym.symbol # c.sym THEN Fail("bad_symbol")
           ELSE /\ br' = n.br
                /\ Then(<<[op |-> "records", fields |-> c.fields, path |-> c.path,
                           left |-> n.n, cookie |-> 0]>>)
                /\ UNCHANGED <<st, restored>>
    /\ UNCHANGED <<save, no_mem>>

\* CRestore::FindField: the fields called sym, from number cookie on and then
\* from the start.
FoundFrom(fields, cookie, sym) ==
    LET all   == {k \in DOMAIN fields : fields[k].name = sym}
        later == {k \in all : k > cookie}
    IN  IF later # {} THEN later ELSE all

\* One round of the loop of ch_br_restore_fields.
RestoreRecord ==
    /\ Now("records")
    /\ LET r     == Head(stack)
           rec   == StartRecord(br)
           found == FoundFrom(r.fields, r.cookie, rec.symbol)
       IN  IF r.left = 0 THEN Then(<<>>) /\ UNCHANGED <<br, st, restored>>
           ELSE IF rec.err # "none" THEN Fail(rec.err)
           ELSE IF found = {} THEN Fail("field_not_found")
           ELSE \E k \in found :
                  /\ \A l \in found : k <= l
                  /\ br' = IF r.fields[k].type = "custom" THEN [rec.br EXCEPT !.cur = rec.br.end]
                           ELSE rec.br
                  /\ Then(FieldJobs(r.fields[k], Append(r.path, rec.symbol))
                            \o <<EndRecord(rec.after, FALSE, FALSE),
                                 [r EXCEPT !.left = @ - 1, !.cookie = k]>>)
                  /\ UNCHANGED <<st, restored>>
    /\ UNCHANGED <<save, no_mem>>

\* Mutant: the next record begins where the field's reader got to.
LeaveRecord_Stays ==
    /\ Now("end")
    /\ LET e == Head(stack)
       IN  IF e.check_match /\ br.cur # e.after.cur THEN Fail("bad_block_end")
           ELSE /\ br' = [e.after EXCEPT !.cur = br.cur]
                /\ Then(<<>>) /\ UNCHANGED <<st, restored>>
    /\ UNCHANGED <<save, no_mem>>

\* ch_br_end_record
LeaveRecord ==
    /\ Now("end")
    /\ LET e == Head(stack)
       IN  IF e.check_match /\ br.cur # e.after.cur THEN Fail("bad_block_end")
           ELSE br' = e.after /\ Then(<<>>) /\ UNCHANGED <<st, restored>>
    /\ UNCHANGED <<save, no_mem>>

\* Mutant: what is left of the record is taken.
RestoreSimple_Short ==
    /\ Now("simple")
    /\ LET f == Head(stack)
           n == IF Remaining(br) < f.size THEN Remaining(br) ELSE f.size
       IN  IF n = 0 THEN Fail("bad_field_read")
           ELSE /\ Store(f.path, Cells(br, n))
                /\ br' = Skip(br, n)
                /\ Then(<<>>) /\ UNCHANGED st
    /\ UNCHANGED <<save, no_mem>>

\* ch_br_restore_simple_field, of numbers ...
RestoreSimple ==
    /\ Now("simple")
    /\ LET f == Head(stack)
       IN  IF f.size = 0 \/ Remaining(br) < f.size THEN Fail("bad_field_read")
           ELSE /\ Store(f.path, Cells(br, f.size))
                /\ br' = Skip(br, f.size)
                /\ Then(<<>>) /\ UNCHANGED st
    /\ UNCHANGED <<save, no_mem>>

\* ... and of strings, which it reads one after the other until the record ends.
\* That there is no memory for one is not noticed.  (The reader of a record has
\* not overflowed when its field is read.)
RestoreString ==
    /\ Now("string")
    /\ LET f == Head(stack)
       IN  IF f.n = 0 \/ Remaining(br) = 0
           THEN Then(<<>>) /\ UNCHANGED <<br, restored, no_mem>>
           ELSE /\ \/ /\ \E s \in Strings(br) : Store(Append(f.path, f.n), s)
                      /\ br' = AfterStr(br) /\ UNCHANGED no_mem
                   \/ no_mem' = TRUE /\ UNCHANGED <<br, restored>>
                /\ Then(<<[f EXCEPT !.n = @ - 1]>>)
    /\ UNCHANGED <<save, st>>

\* ch_cr_utl_vector_restore: of EHANDLEs, or of elements of a class.
RestoreVector ==
    /\ Now("vector")
    /\ LET v == Head(stack)
           n == ReadNum(br)
           one(k) == Class(Uv, <<ElemsField(0, v.map)>>, Append(v.path, k))
       IN  IF Overflowed(n.br) THEN Fail("overflow")
           ELSE /\ br' = n.br
                /\ Then(IF v.map = NoMap
                        THEN <<Class(Elems, <<ElemsField(n.n, NoMap)>>, v.path)>>
                        ELSE [k \in 1..n.n |-> one(k)])
                /\ UNCHANGED <<st, restored>>
    /\ UNCHANGED <<save, no_mem>>
\* The types that a variant may have (datamap.h).
FIELD_VOID      == 0
FIELD_STRING    == 2
VariantNumbers  == {1, 5, 6, 9, 13}     \* FLOAT, INTEGER, BOOLEAN, COLOR32, EHANDLE
VariantVectors  == {3, 15}              \* VECTOR, POSITION_VECTOR

\* Where the value of a variant is read.
VariantJobs(ft, path) ==
    LET job(op, size, at) == [op |-> op, n |-> 1, size |-> size, map |-> NoMap, path |-> at]
    IN  CASE ft \in VariantNumbers -> <<job("simple", 1, Append(path, 1))>>
          [] ft \in VariantVectors -> <<job("simple", 3, Append(path, 1))>>
          [] ft = FIELD_STRING -> <<job("string", 1, path)>>
          [] OTHER -> <<>>

\* ch_cr_variant_restore: a type that a variant cannot have is logged, and the
\* variant has none.
RestoreVariant ==
    /\ Now("variant")
    /\ LET v    == Head(stack)
           ft   == ReadNum(br)
           jobs == VariantJobs(ft.n, v.path)
       IN  IF Overflowed(ft.br) THEN Fail("overflow")
           ELSE /\ br' = ft.br
                /\ Store(v.path, <<IF jobs = <<>> THEN FIELD_VOID ELSE ft.n>>)
                /\ Then(jobs) /\ UNCHANGED st
    /\ UNCHANGED <<save, no_mem>>

\* ch_cr_ent_output_restore: the output, then its actions.  That there is no number
\* of actions is not checked.
RestoreOutput ==
    /\ Now("output")
    /\ LET o == Head(stack)
           n == ReadNum(br)
           part(k) == IF k = 1 THEN Class(OutputValue, FieldsOf[BaseOutput], Append(o.path, 1))
                      ELSE Class(EntityOutput, FieldsOf[EventAction], Append(o.path, k))
       IN  IF o.n = 0 THEN Then(<<>>) /\ UNCHANGED <<br, st, restored>>
           ELSE IF NoMap \in {BaseOutput, EventAction} THEN Fail("datamap_not_found")
           ELSE /\ br' = n.br
                /\ Then([k \in 1..(n.n + 1) |-> part(k)])
                /\ UNCHANGED <<st, restored>>
    /\ UNCHANGED <<save, no_mem>>

\* An activity that is tagged has a name of this length, and no index.
NameLen(index)   == index - ActivityTag
IsTagged(index)  == 0 <= NameLen(index) /\ NameLen(index) <= 65535

\* ch_cr_activity_restore.  That there is no number is not checked: it is 0 then.
RestoreActivity ==
    /\ Now("activity")
    /\ LET a   == Head(stack)
           idx == ReadNum(br)
       IN  IF IsTagged(idx.n)
           THEN /\ \E s \in StringsOf(idx.br, NameLen(idx.n)) : Store(Append(a.path, 1), s)
                /\ br' = AfterStrOf(idx.br, NameLen(idx.n))
           ELSE Store(a.path, <<idx.n>>) /\ br' = idx.br
    /\ Then(<<>>)
    /\ UNCHANGED <<save, st, no_mem>>
-----------------------------------------------------------------------------
(* What a CAI_BaseNPC has besides *)

\* CH_HEADER_AI_FIRST_VERSION_WITH_CONDITIONS, .._WITH_NAVIGATOR_SAVE and
\* CH_NAVIGATOR_SAVE_VERSION
WithConditions == 2
WithNavigator  == 5
NavigatorVersion == 1

Lists == 1..4   \* of ch_npc_schedule_conditions

\* The version in the restored header, 0 if it was not saved.
HeaderVersion ==
    LET saved == {e \in restored : e[1] = <<NameOf[NpcHeader], Version>>}
    IN  IF saved = {} THEN 0 ELSE (CHOOSE e \in saved : TRUE)[2][1]

\* After the header.
RestoreNpc ==
    /\ Now("npc")
    /\ Then((IF HeaderVersion >= WithConditions THEN <<[op |-> "conditions"]>> ELSE <<>>)
              \o IF HeaderVersion >= WithNavigator THEN <<[op |-> "navigator"]>> ELSE <<>>)
    /\ UNCHANGED <<save, br, st, restored, no_mem>>

\* ch_restore_conditions: four lists of strings ...
RestoreConditions ==
    /\ Now("conditions")
    /\ LET rec == StartRecord(br)
       IN  IF rec.err # "none" THEN Fail(rec.err)
           ELSE /\ br' = rec.br
                /\ Then([i \in Lists |-> [op |-> "list", path |-> <<NameOf[Npc], i>>, k |-> 1]]
                          \o <<EndRecord(rec.after, TRUE, FALSE)>>)
                /\ UNCHANGED <<st, restored>>
    /\ UNCHANGED <<save, no_mem>>

\* ... each ending with an empty one.  After the end of the record a string is
\* what was in its memory.
RestoreList ==
    /\ Now("list")
    /\ LET l == Head(stack)
       IN  \E s \in Strings(br) :
              /\ Remaining(br) = 0 /\ l.k > MaxList => s = <<>>
              /\ br' = AfterStr(br)
              /\ IF s = <<>>
                 THEN Then(<<>>) /\ UNCHANGED restored
                 ELSE Store(Append(l.path, l.k), s) /\ Then(<<[l EXCEPT !.k = @ + 1]>>)
    /\ UNCHANGED <<save, st, no_mem>>

\* ch_restore_navigator: whatever is wrong with it, its record ends where it ends.
RestoreNavigator ==
    /\ Now("navigator")
    /\ LET rec     == StartRecord(br)
           version == ReadNum(rec.br)
       IN  IF rec.err # "none" THEN Fail(rec.err)
           ELSE /\ br' = version.br
                /\ Then((IF version.n = NavigatorVersion /\ Waypoint # NoMap
                         THEN <<[op |-> "vector", n |-> 1, size |-> 0, map |-> Waypoint,
                                 path |-> <<NameOf[Waypoint]>>]>> ELSE <<>>)
                          \o <<EndRecord(rec.after, FALSE, TRUE)>>)
                /\ UNCHANGED <<st, restored>>
    /\ UNCHANGED <<save, no_mem>>

\* CH_CHECKED_ALLOC fails, or the allocation of a message that is logged.
OutOfMemory ==
    /\ stack # <<>>
    /\ Head(stack).op \notin {"end", "simple", "string"}
    /\ Fail("oom")
    /\ no_mem' = TRUE /\ UNCHANGED save
-----------------------------------------------------------------------------
Next ==
    \/ ReadSymbolTable \/ RestoreFields \/ RestoreRecord \/ LeaveRecord
    \/ RestoreSimple \/ RestoreString \/ RestoreVector
    \/ RestoreVariant \/ RestoreOutput \/ RestoreActivity
    \/ RestoreNpc \/ RestoreConditions \/ RestoreList \/ RestoreNavigator
    \/ OutOfMemory

Spec == Init /\ [][Next]_vars
-----------------------------------------------------------------------------
(* Properties *)

Records == {k \in DOMAIN stack : stack[k].op = "end"}

\* Types.
TypeOK ==
    /\ save.file \in Seq(Nat)
    /\ br \in [cur : Nat, end : Nat]
    /\ \A k \in Records : stack[k].after \in [cur : Nat, end : Nat]
    /\ \A e \in restored : e[1] \in Seq(NameCell) /\ e[2] \in Seq(Nat)
    /\ no_mem \in BOOLEAN

\* No reader leads out of the file, whatever is in the file and however much of
\* it there is: what is read before a reader has overflowed is in the file.
ReadsInFile ==
    /\ br.end <= Len(File)
    /\ \A k \in Records : stack[k].after.end <= Len(File)

\* A record is fenced: what reads a field cannot reach beyond the record, nor
\* beyond any of the records around it.
RecordsNest ==
    \A k \in Records :
        /\ br.end <= stack[k].after.cur
        /\ \A l \in Records : k < l => stack[k].after.end <= stack[l].after.cur

\* From a whole file everything that is saved in it is restored, each value
\* where it belongs: whatever order the fields are in, whatever the fields that
\* cannot be restored contain, and whatever is wrong with the navigator.
WholeIsRestored ==
    save.whole /\ stack = <<>> /\ ~no_mem => err = "none" /\ restored = save.values

\* What has the path of an item of a list of conditions, of a field's value, or of
\* a part of it.
IsItem(path) == Len(path) = 3 /\ path[1] = NameOf[Npc]
HasType(name, types) ==
    \E d \in DataMap : \E k \in DOMAIN FieldsOf[d] :
        FieldsOf[d][k].type \in types /\ FieldsOf[d][k].name = name
IsString(path) ==
    \/ IsItem(path)
    \/ Len(path) > 1 /\ HasType(path[Len(path) - 1], {"string", "variant", "activity"})

\* v is the beginning of the string w, then what is not initialised.
Begins(v, w) ==
    \E m \in 0..Len(w) : /\ m <= Len(v) /\ SubSeq(v, 1, m) = SubSeq(w, 1, m)
                         /\ \A k \in (m + 1)..Len(v) : v[k] = Garbage

\* Of a file that is cut short no number is restored that is not in the whole
\* file, but that an activity without a number has number 0; and only one string is
\* not what it was: it is the beginning of that, and then characters that are not
\* initialised.  Lists of conditions may have items besides that are such a
\* character.  (Without memory for a string the others of its field may be each
\* other's.)
NothingInvented ==
    ~no_mem =>
        LET new    == restored \ save.values
            unread == {e \in new : \/ IsItem(e[1]) /\ e[2] = <<Garbage>>
                                   \/ /\ HasType(e[1][Len(e[1])], {"activity"})
                                      /\ e[2] = <<0>>}
        IN  /\ new # {} => ~save.whole
            /\ \A e \in new \ unread : IsString(e[1])
            /\ \A a, b \in new \ unread :
                  a = b /\ \E e \in save.values : e[1] = a[1] /\ Begins(a[2], e[2])
=============================================================================
